CONSTANTS
  Main = Main
  A = A
  B = B
  D = D
  L = L
  C = C
  S = S
  TidLock = TidLock
  IdleStarted = IdleStarted
  Thread = {Main, A, B, D}
  Idle = Idle
  None = None
  TIME_SLICE = 1
  Sema = {IdleStarted, S}
  Lock = {TidLock, L}
  Cond = {C}
  LockOf <- MCLockOf
  MaxValue = 1
  MaxTid = 4
SPECIFICATION Spec
INVARIANTS
  TypeOK
  SchedInv
  WaitListExact
  MutualExclusion
  NoLostWakeup
  SignalAccounted
  TidUnique
PROPERTIES
  MonitorSpec
SYMMETRY Symmetry
CONSTRAINT Bounded
