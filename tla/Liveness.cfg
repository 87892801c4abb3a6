\* Fair runs of two INT controllers with faults.
SPECIFICATION LiveSpec
CONSTANTS
  c1 = c1
  c2 = c2
  a1 = a1
  a2 = a2
  a3 = a3
  b1 = b1
  b2 = b2
  h1 = h1
  h2 = h2
  h3 = h3
  None = None
  Broadcast = Broadcast
  Ctrl = {c1, c2}
  Mac = {h1}
  As = {a1, a2, a3}
  Bitmap = {b1, b2}
  NumPorts = 2
  LearnSize = 2
  ForwardSize = 2
  ElectionId <- MCElectionId
  WithInt = TRUE
  HostAs <- MCHostAs
  IntTable <- MCIntTable
  Mobile = {}
  FallibleRpcs = {"learn"}
  StreamBound = 2
  MaxFaults = 1
PROPERTIES
  Converges
  Learns
CHECK_DEADLOCK FALSE
