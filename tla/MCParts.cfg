CONSTANTS
  None = None
  Main = Main
  Thread = {Main, User}
  Secno = {1, 2}
  Val = {0}
  X = X
  Y = Y
  Space = Space
  Nul = Nul
  Garbage = Garbage
SPECIFICATION PartsSpec
INVARIANTS
  Served
  StartsRight
  LibraryRight
PROPERTIES
  DiskAnswered
  BlocksRight
  OperationsRight
CHECK_DEADLOCK FALSE
