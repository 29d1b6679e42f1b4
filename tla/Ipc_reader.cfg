SPECIFICATION Spec
CONSTANTS
  Readers = {r1}
  Writers = {w1, w2}
  Privileged = FALSE
  MsgLen = 2
  MaxFifos = 2
  MaxMsgs = 2
  PipeSize = 4
  MaxCrashes = 2
INVARIANT CreatedIsUsable
