CONSTANTS
  N = 2
  Clients = {c1}
  QueueLimit = 1
  MaxFds = 3
  None = None
SPECIFICATION Spec
INVARIANT ExceptionSafe
