CONSTANTS
  Capacity = 2
  MaxBytes <- LongResponse
  Faults = FALSE
  Timeouts = FALSE
SPECIFICATION FlowSpec
PROPERTY LoopComesToRest
