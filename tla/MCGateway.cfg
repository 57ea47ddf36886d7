CONSTANTS
  N = 3
  Clients = {c1, c2, c3}
  QueueLimit = 1
  MaxFds = 4
  None = None
SPECIFICATION FairSpec
INVARIANTS
  TypeOK
  FairDispatch
  NoThreadOutlivesMain
PROPERTIES
  BacklogIsServed
  WorkersReleased
  ShutdownCompletes
  UsesWorkerService
