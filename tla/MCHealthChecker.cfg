CONSTANTS
  Backends = 2
  failureThreshold = 3
  successThreshold = 2
  Modulus = 5
SPECIFICATION FairSpec
INVARIANTS
  TypeOK
  HealthFollowsProbes
PROPERTIES
  FlipsNeedStreaks
  EventuallyAccurate
  StopCompletes
