CONSTANTS
  Backends = 1
  failureThreshold = 3
  successThreshold = 2
  Modulus = 5
SPECIFICATION FairSpec
INVARIANT StopWakesSleeper
