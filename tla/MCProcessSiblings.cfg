CONSTANTS
  Boot = Boot
  P1 = P1
  P2 = P2
  First = First
  End = End
  Pid = {Boot, P1, P2}
  None = None
  Status = {7}
  Junk = 204
  ByKernel = ByKernel
  Assume = {"atomic", "memory", "prompt", "reap", "zeroed"}
SPECIFICATION Spec
INVARIANT WaitContract
CHECK_DEADLOCK FALSE
