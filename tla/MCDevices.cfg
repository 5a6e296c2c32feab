CONSTANTS
  T1 = T1
  T2 = T2
  T3 = T3
  Sleeper = {T1, T2}
  Word = 2
  Naps = {1, 2}
  MaxTicks = 3
  Page = {T1, T2, T3}
  Kernel = T1
  Reader = {T1}
  Writer = {T2, T3}
  Byte = {0, 1}
  BUFSIZE = 3
  Serialised = TRUE
  Handler = Handler
  None = None
SPECIFICATION DevicesSpec
INVARIANTS
  TypeOK
  IerExact
  NoSleeperForgotten
  MessagesRight
  SleptEnough
PROPERTIES
  Fifos
  CallersServed
  CallsEnd
CHECK_DEADLOCK FALSE
