\* More hosts than the learn table holds; RPCs that fail; two L2 controllers.
SPECIFICATION Spec
CONSTANTS
  c1 = c1
  c2 = c2
  a1 = a1
  a2 = a2
  a3 = a3
  b1 = b1
  b2 = b2
  h1 = h1
  h2 = h2
  h3 = h3
  None = None
  Broadcast = Broadcast
  Ctrl = {c1, c2}
  Mac = {h1, h2}
  As = {a1, a2, a3}
  Bitmap = {b1, b2}
  NumPorts = 3
  LearnSize = 2
  ForwardSize = 2
  ElectionId <- MCElectionId
  WithInt = FALSE
  HostAs <- MCHostAs
  IntTable <- NoIntTable
  Mobile = {}
  FallibleRpcs = {"init", "learn"}
  StreamBound = 2
  MaxFaults = 1
INVARIANTS
  LearnedIsForwarded
  Reachable
CHECK_DEADLOCK FALSE
