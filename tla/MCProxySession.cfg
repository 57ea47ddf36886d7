CONSTANTS
  Capacity = 2
  MaxBytes <- LongRequest
  Faults = TRUE
  Timeouts = TRUE
SPECIFICATION LoopSpec
INVARIANTS
  TypeOK
  ByteConservation
  NoDataAfterShutdown
  NothingBeforeConnect
  ConnectCountedOnce
  ArmedWhileWaiting
PROPERTY EventuallyReclaimed
