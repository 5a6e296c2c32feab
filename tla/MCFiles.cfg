CONSTANTS
  P = P
  Q = Q
  A = A
  B = B
  Proc = {P, Q}
  Name = {A, B}
  None = None
  FileSector = {4, 5, 6}
  CacheSize = 2
  Val = {0, 1}
  Zero = 0
  MaxLen = 2
  MaxLeak = 1
  MaxCalls = 6
  Assume = {"alone", "noreuse", "quiet"}
SPECIFICATION Spec
INVARIANTS
  TypeOK
  SectorsOwned
  CountsExact
PROPERTIES
  FilesSpec
SYMMETRY Symmetry
