CONSTANTS
  Capacity = 4
  Byte = {0, 1}
  Zero = 0
SPECIFICATION Spec
INVARIANTS
  TypeOK
  DrainedIsRewound
  CompactionFreesHead
PROPERTY ImplementsFifo
