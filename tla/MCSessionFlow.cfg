CONSTANTS
  Capacity = 3
  MaxBytes <- LongResponse
  Faults = FALSE
  Timeouts = FALSE
SPECIFICATION FlowSpec
PROPERTIES
  DataKeepsMoving
  EndOfStreamPropagates
