CONSTANTS
  Capacity = 2
  MaxBytes <- LongResponse
  Faults = FALSE
  Timeouts = FALSE
SPECIFICATION Spec
INVARIANT HalfCloseAtEndOfStream
