SPECIFICATION Spec
CONSTANTS
  Nodes = {a, b}
  NoConn = NoConn
  MaxDials = 2
INVARIANTS TableIsRead NoOrphanStream
PROPERTIES HalfOpenHeals DialEntryGoes CloseIsFinal
CHECK_DEADLOCK FALSE
