CONSTANTS
  P = P
  Q = Q
  A = A
  B = B
  Proc = {P, Q}
  Name = {A, B}
  None = None
  FileSector = {4, 5, 6}
  CacheSize = 2
  Val = {0, 1}
  Zero = 0
  MaxLen = 1
  MaxLeak = 1
  MaxCalls = 2
  Assume = {"noreuse", "quiet"}
SPECIFICATION Spec
INVARIANTS
  NamesUnique
SYMMETRY Symmetry
