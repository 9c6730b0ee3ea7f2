CONSTANTS
  Words = 3
  Bits = 2
  MaxSeq = 13
  Seqs <- MCSeqs
SPECIFICATION Spec
INVARIANTS NoNearDuplicate
PROPERTIES ImplementsWindow
