CONSTANTS
  Clients = {c1, c2, c3}
  Fds = {f1, f2, f3, f4}
  QueueLimit = 2
  None = None
SPECIFICATION FairSpec
INVARIANTS
  TypeOK
  OneOwnerPerFd
  EventsKeepTheirSocket
  IndexMatchesSessions
  NoLostWakeup
  CountsAgree
PROPERTIES
  ImplementsService
  QueuedClientIsServed
  StopCompletes
