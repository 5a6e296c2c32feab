CONSTANTS
  A = A
  B = B
  Small = Small
  Thread = {A, B}
  PageCnt = 2
  Desc = {Small}
  BlocksPerArena = 2
  BigPages = {1, 2}
  None = None
SPECIFICATION FairSpec
INVARIANTS
  TypeOK
  Exclusive
  ArenaExact
  PagesAccounted
PROPERTIES
  CallReturns
