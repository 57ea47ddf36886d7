CONSTANTS
  Lines <- SomeLines
  MaxLines = 7
  Levels = {Info, Debug}
  Info = Info
  AnyHost = AnyHost
  None = None
  A = A
  B = B
  Loud = Loud
SPECIFICATION Spec
INVARIANTS
  LoadsWhatIsWritten
  ReadyIsUsable
