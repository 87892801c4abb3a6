\* Packets among switches that are being initialized; one flow asks for no field.
SPECIFICATION Spec
CONSTANTS
  n1 = n1
  n2 = n2
  n3 = n3
  as1 = as1
  as3 = as3
  None = None
  Broadcast = Broadcast
  Garbage = Garbage
  Ctrl = {n1, n2, n3}
  Mac = {}
  As = {as1, as3}
  Bitmap <- MCBitmap
  NumPorts = 2
  LearnSize = 1
  ForwardSize = 1
  WithInt = TRUE
  HostAs <- MCHostAs
  IntTable <- EmptyLineTable
  AppPort = 443
  Flow <- MCFlow
  Dest <- MCDest
  Route <- MCRoute
  Provisioned = FALSE
  MaxPackets = 1
  MaxTakeovers = 1
INVARIANTS
  LengthsConsistent
  Intact
  ReportedOnce
CHECK_DEADLOCK FALSE
