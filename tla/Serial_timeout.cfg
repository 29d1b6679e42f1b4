SPECIFICATION Spec
CONSTANTS
  MaxFds = 3
  Lines = {"9600-8N1", "250000-8N1"}
  GoodLines = {"9600-8N1"}
  Timeouts = {25600, 60000}
  INT_MODULUS = 80000
  MaxLen = 3
  MaxRx = 1
  MaxRoom = 2
  MaxAddrs = 2
  MaxOwed = 1
INVARIANT TimeoutLimitsReads
