SPECIFICATION Spec
CONSTANTS
  None = None
  Operators = {p1, p2, p3}
  Inodes = {n1, n2, n3, n4}
  MaxEdits = 3
  Length <- Lengths
INVARIANTS
  MemoryOnDisk
  WholeUnlessError
PROPERTIES
  ImplementsAtomicStore
SYMMETRY Symmetry
