\* A switch on the way lists the destination AS, too, and inserts a second time.
SPECIFICATION Spec
CONSTANTS
  n1 = n1
  n2 = n2
  n3 = n3
  as1 = as1
  as3 = as3
  None = None
  Broadcast = Broadcast
  Garbage = Garbage
  Ctrl = {n1, n2, n3}
  Mac = {}
  As = {as1, as3}
  Bitmap <- MCBitmap
  NumPorts = 2
  LearnSize = 1
  ForwardSize = 1
  WithInt = TRUE
  HostAs <- MCHostAs
  IntTable <- TransitTable
  AppPort = 443
  Flow <- MCFlow
  Dest <- MCDest
  Route <- MCRoute
  Provisioned = TRUE
  MaxPackets = 1
  MaxTakeovers = 0
INVARIANT
  LengthsConsistent
CHECK_DEADLOCK FALSE
