CONSTANTS
  Main = Main
  A = A
  B = B
  D = D
  L = L
  C = C
  S = S
  TidLock = TidLock
  IdleStarted = IdleStarted
  Thread = {Main, A, B}
  Idle = Idle
  None = None
  TIME_SLICE = 1
  Sema = {IdleStarted}
  Lock = {TidLock, L}
  Cond = {C}
  LockOf <- MCLockOf
  MaxValue = 1
  MaxTid = 4
SPECIFICATION FairSpec
PROPERTIES
  UsesScheduler
  ReadyRuns
  FreeLockTaken
  SignalDelivered
