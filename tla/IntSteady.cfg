\* Fair runs of initialized switches, two packets in flight.
SPECIFICATION LiveSpec
CONSTANTS
  n1 = n1
  n2 = n2
  n3 = n3
  as1 = as1
  as3 = as3
  None = None
  Broadcast = Broadcast
  Garbage = Garbage
  Ctrl = {n1, n2, n3}
  Mac = {}
  As = {as1, as3}
  Bitmap <- MCBitmap
  NumPorts = 2
  LearnSize = 1
  ForwardSize = 1
  WithInt = TRUE
  HostAs <- MCHostAs
  IntTable <- DemoTable
  AppPort = 443
  Flow <- MCFlow
  Dest <- MCDest
  Route <- MCRoute
  Provisioned = TRUE
  MaxPackets = 2
  MaxTakeovers = 0
INVARIANTS
  TypeOK
  LengthsConsistent
  Transparent
  ReportsFaithful
  ReportedOnce
PROPERTY
  AllReported
CHECK_DEADLOCK FALSE
