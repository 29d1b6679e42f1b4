SPECIFICATION Spec
CONSTANTS
  Addresses = {1, 255}
  Speeds = {0, 63, 64, 255}
  Hundredth = {0, 99, 100, 9000, 12345, 17999}
  Noise = {0, 1, 127, 254, 255}
INVARIANTS
  TypeOK
  AcceptedIsSent
  UndisturbedIsAccepted
  Obeyed
  AnglesAgree
