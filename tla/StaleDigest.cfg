\* A second controller takes over, no faults.
SPECIFICATION HistorySpec
CONSTANTS
  c1 = c1
  c2 = c2
  a1 = a1
  a2 = a2
  a3 = a3
  b1 = b1
  b2 = b2
  h1 = h1
  h2 = h2
  h3 = h3
  None = None
  Broadcast = Broadcast
  Ctrl = {c1, c2}
  Mac = {h1}
  As = {a1, a2, a3}
  Bitmap = {b1, b2}
  NumPorts = 2
  LearnSize = 3
  ForwardSize = 3
  ElectionId <- MCElectionId
  WithInt = FALSE
  HostAs <- MCHostAs
  IntTable <- NoIntTable
  Mobile = {h1}
  FallibleRpcs = {}
  StreamBound = 2
  MaxFaults = 0
INVARIANT
  FreshLearning
CHECK_DEADLOCK FALSE
