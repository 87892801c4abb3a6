\* The truncated_packet of a report against the headers it is said to hold.
SPECIFICATION Spec
CONSTANTS
  HostText <- MCHostText
  NodeId = 1
  TcpAddress = TRUE
  Lines <- MCLines
  Packets <- MCPackets
  Others <- MCOthers
  QueueLimit = 2
  SocketBuffer = 70
  MaxFaults = 0
INVARIANT
  TruncatedIsHeaders
CHECK_DEADLOCK FALSE
