\* From the packet-in to Kafka and TCP, with outages and a receiver that leaves.
SPECIFICATION LiveSpec
CONSTANTS
  HostText <- MCHostText
  NodeId = 1
  TcpAddress = TRUE
  Lines <- MCLines
  Packets <- MCPackets
  Others <- MCOthers
  QueueLimit = 2
  SocketBuffer = 70
  MaxFaults = 2
INVARIANTS
  TypeOK
  MessagesFaithful
  StreamInFrames
  LossAccounted
PROPERTIES
  Exported
CHECK_DEADLOCK FALSE
