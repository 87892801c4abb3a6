---------------------------- MODULE ReportExport ----------------------------
(* The INT controller from its start to its reports: the process comes up,    *)
(* takes packet-ins from the stream of the switch, turns each into a report   *)
(* and hands it to the Kafka producer and to a TCP stream.  The producer has  *)
(* a bounded queue that a thread of its own empties while the broker is       *)
(* reachable, in any order: a retry may be overtaken, and flows have          *)
(* partitions of their own.  In an outage messages expire, and the broker may *)
(* refuse one for good; the controller hears of neither.  The TCP socket has  *)
(* a bounded buffer that the receiver empties.                                *)
EXTENDS ScionHeader, ReportWire

CONSTANTS HostText,     \* <as address>, an argument
          NodeId,       \* <node id>, an argument
          TcpAddress,   \* is there a <tcp address>
          Lines,        \* the <int table>
          Packets,      \* packets with INT data, in the order in which they reach the sink
          Others,       \* payloads of packet-ins that are not such packets
          QueueLimit,   \* queue.buffering.max.messages of librdkafka
          SocketBuffer, \* bytes a TCP connection takes before write blocks
          MaxFaults

ASSUME ExportAssumption ==
  /\ QueueLimit \in Nat \ {0} /\ SocketBuffer \in Nat \ {0} /\ MaxFaults \in Nat
  /\ Packets \in Seq(ToSet(Packets))

\* <as address>: ISD-part:part:part, hexadecimal, no part longer than 16 bits.
ASSUME HostAssumption ==
  /\ HostText.isd \in Seq(0..15) /\ HostText.parts \in [1..3 -> Seq(0..15)]
  /\ \A i \in 1..3 : Hex(HostText.parts[i]) < 65536

VARIABLES pc,       \* what the process is doing
          table,    \* asList, bitmapIntList, bitmapScionList
          arrived,  \* how many of the packets the switch has sent
          stream,   \* packet-ins that were not read yet
          current,  \* topic, key and value of the report being sent
          handled,  \* the messages given to the producer so far, in order
          queue,    \* the queue of the producer
          log,      \* the messages the broker has stored, some of them twice
          dropped,  \* those librdkafka has given up: expired, or refused by the broker
          broker,   \* is it reachable
          active,   \* tcpClient::isActive
          out,      \* bytes left of the write in progress
          wire,     \* bytes in the buffers of the connection
          got,      \* bytes the receiver has read
          reading,  \* has the receiver its end open
          faults    \* outages, repeated deliveries, refusals and losses, at most MaxFaults

process == <<pc, table, current, handled, active, out>>
network == <<queue, log, dropped, broker, wire, got, reading, faults>>
vars == <<process, arrived, stream, network>>

\* The messages are written in one order of the map; Messages covers the others.
Order == <<1, 2, 3, 4, 5, 6, 7, 8>>

-----------------------------------------------------------------------------
(* handlePacketIn up to the report.                                           *)

\* The fields in the order of the stack: bit of the bitmap, length in bytes,
\* and what becomes of them: the node ID, metadata of some type (times are
\* turned from microseconds into nanoseconds) or, from the domain bitmap, the AS.
StackFields ==
  << [bit |-> 32768, len |-> 4, type |-> 0], [bit |-> 16384, len |-> 4, type |-> 1],
     [bit |-> 8192, len |-> 4, type |-> 2],  [bit |-> 4096, len |-> 4, type |-> 3],
     [bit |-> 2048, len |-> 8, type |-> 4],  [bit |-> 1024, len |-> 8, type |-> 5],
     [bit |-> 512, len |-> 8, type |-> 6],   [bit |-> 256, len |-> 4, type |-> 7],
     [bit |-> 128, len |-> 4, type |-> 8] >>

Asks(bitmap, f) == (bitmap \div f.bit) % 2 = 1

\* A hop at pos of the payload: h.hop is the hop, h.pos where the next one is.
TakeField(payload, h, f) ==
  LET bytes == Bytes(payload, h.pos, f.len)
      value == IF f.type \in {4, 5} THEN toBitstring(8, 1000 * takeUint64(payload, h.pos))
               ELSE bytes
  IN  [pos |-> h.pos + f.len,
       hop |-> IF f.type = 0 THEN [h.hop EXCEPT !.nodeId = takeUint32(payload, h.pos)]
               ELSE [h.hop EXCEPT !.metadata = MapMerge(@, [t \in {f.type} |-> value])]]

HdrLen(payload)    == takeUint64(payload, 8)
StackSize(payload) == takeUint8(payload, 16 + HdrLen(payload) - 12 - 3) - 3
HopSize(payload)   == takeUint8(payload, 16 + HdrLen(payload) - 10) % 32

\* handlePacketIn gets as far as the length of the stack.
HeadersFit(payload) ==
  /\ Len(payload) >= 16
  /\ takeUint64(payload, 0) = INT_IDENTIFIER
  /\ Len(payload) - 16 >= HdrLen(payload)

\* It gets past its early returns; else DefaultController prints the packet.
Accepted(payload) ==
  /\ HeadersFit(payload) /\ HopSize(payload) # 0
  /\ StackSize(payload) % HopSize(payload) = 0

\* The remainder of a division by zero, which the processors of the VM (x86) trap.
DividesByZero(payload) == HeadersFit(payload) /\ HopSize(payload) = 0

BitmapInt(payload)   == takeUint16(payload, 16 + HdrLen(payload) - 8)
BitmapScion(payload) == takeUint16(payload, 16 + HdrLen(payload) - 4)

TakeAsked(payload, h, f) ==
  IF Asks(BitmapInt(payload), f) THEN TakeField(payload, h, f) ELSE h

TakeHop(payload, pos) ==
  LET h == FoldLeft(LAMBDA acc, f : TakeAsked(payload, acc, f),
                    [pos |-> pos, hop |-> Hop], StackFields)
  IN  IF BitmapScion(payload) % 2 = 1
      THEN [pos |-> h.pos + 8, hop |-> [h.hop EXCEPT !.asn = takeUint64(payload, h.pos)]]
      ELSE h

AddHop(payload, acc) ==
  LET h == TakeHop(payload, acc.pos)
  IN  [pos |-> h.pos, hops |-> Append(acc.hops, h.hop)]

HopsOf(payload) ==
  FoldLeft(LAMBDA acc, i : AddHop(payload, acc),
           [pos |-> 16 + HdrLen(payload), hops |-> <<>>],
           [i \in 1..StackSize(payload) \div HopSize(payload) |-> i]).hops

ReportOf(payload) ==
  [Report EXCEPT !.hops = HopsOf(payload), !.packetType = 4,
                 !.truncated = Bytes(payload, 8, HdrLen(payload))]

\* Mutant: the traffic class and the version of the packet stay in the flow ID.
KeyOfWholeWord(payload) == [FlowKey EXCEPT !.flowId = takeUint32(payload, 16)]

KeyOf(payload) == [FlowKey EXCEPT !.flowId = takeUint32(payload, 16) % 1048576]

\* "AS<part>_<part>_<part>-<node>": takeUint64 at the ISD of the destination.
Topic(payload) ==
  LET as == Bytes(payload, 16 + 12, 8)
  IN  [parts |-> [i \in 1..3 |-> Numeral(SubSeq(as, 2 * i + 1, 2 * i + 2), 256)],
       node  |-> NodeId]

MessageOf(payload) ==
  [topic |-> Topic(payload), key |-> FlowKeySerialize(KeyOf(payload)),
   value |-> ReportSerialize(ReportOf(payload), Order)]

\* The packet-ins handlePacketIn goes on with, and what becomes of them.
Payloads == {KeepIntCpu(p) : p \in ToSet(Packets)} \cup Others
Fatal == {b \in Payloads : DividesByZero(b)}
Messages == {[of |-> b, message |-> MessageOf(b)] : b \in {x \in Payloads : Accepted(x)}}

-----------------------------------------------------------------------------
(* What reaches a sink: headers whose fields have their widths, and behind     *)
(* them, for each hop, the fields its node was asked for, in the order of the  *)
(* stack and none between them.                                                *)

\* n has 16, 32, 48 or 64 bits.
Fits16(n) == n \in Nat /\ n < 65536
Fits32(n) == n \in Nat /\ Fits16(n \div 65536)
Fits48(n) == n \in Nat /\ Fits32(n \div 65536)
Fits64(n) == n \in Nat /\ Fits48(n \div 65536)

\* The bytes of a hop up to its k-th field, and of the whole of it.
Width(p, k)  == IF Asks(p.bitmapInt, StackFields[k]) THEN StackFields[k].len ELSE 0
Before(p, k) == SumOf([j \in 1..k - 1 |-> Width(p, j)])
HopLen(p)    == Before(p, 10) + IF p.bitmapScion % 2 = 1 THEN 8 ELSE 0

\* Field f in the stack, and in the record of the node; a node records
\* nanoseconds, and puts microseconds on the stack.
Written(r, f, bytes) ==
  CASE f.type = 0        -> bytes = toBitstring(4, r.nodeId)
    [] f.type \in {4, 5} -> r.metadata[f.type] = toBitstring(8, 1000 * Numeral(bytes, 256))
    [] OTHER             -> r.metadata[f.type] = bytes

Types(p) == {f.type : f \in {g \in ToSet(StackFields) : Asks(p.bitmapInt, g)}}

RecordOk(p, r, at) ==
  /\ Fits32(r.nodeId) /\ Fits64(r.asn)
  /\ r.metadata \in [Types(p) \ {0} -> Seq(0..255)]
  /\ 0 \in Types(p) \/ r.nodeId = 0
  /\ \A k \in 1..9 :
       Asks(p.bitmapInt, StackFields[k]) =>
         Written(r, StackFields[k], Bytes(p.stack, at + Before(p, k), StackFields[k].len))
  /\ IF p.bitmapScion % 2 = 1
     THEN Bytes(p.stack, at + Before(p, 10), 8) = toBitstring(8, r.asn) ELSE r.asn = 0

ShapeOk(shape) ==
  /\ shape.dl \in 0..3 /\ shape.sl \in 0..3
  /\ shape.path.type \in {"ONEHOP", "SCION"}
  /\ shape.path.type = "SCION" => shape.path.seg \in [1..3 -> 0..63]
  /\ PathOk(shape.path)

PacketOk(p) ==
  /\ ShapeOk(p.shape)
  /\ p.flow \in Nat /\ p.flow < 1048576 /\ p.qos \in Nat /\ p.qos < 4096
  /\ Fits16(p.dst.isd) /\ Fits48(p.dst.as)
  /\ Fits16(p.bitmapInt) /\ Fits16(p.bitmapScion)
  /\ p.hopML \in 0..31 /\ 4 * p.hopML = HopLen(p)
  /\ p.recorded \in Seq(ToSet(p.recorded))
  /\ p.length \in 0..255 /\ p.length = 3 + p.hopML * Len(p.recorded)
  /\ p.stack \in Seq(0..255) /\ Len(p.stack) = HopLen(p) * Len(p.recorded)
  /\ \A i \in DOMAIN p.recorded : RecordOk(p, p.recorded[i], (i - 1) * HopLen(p))

ASSUME PacketsAssumption == \A p \in ToSet(Packets) : PacketOk(p)

\* No other packet-in passes for one of them.
ASSUME OthersAssumption == \A b \in Others : ~Accepted(b)

-----------------------------------------------------------------------------
Init == /\ pc = "main" /\ table = <<>> /\ arrived = 0 /\ stream = <<>>
        /\ current = [topic |-> <<>>, key |-> <<>>, value |-> <<>>]
        /\ handled = <<>> /\ queue = <<>> /\ log = {} /\ dropped = {}
        /\ broker = TRUE /\ active = FALSE /\ out = <<>> /\ wire = <<>> /\ got = <<>>
        /\ reading = TRUE /\ faults = 0

\* An exception reaches main, or there is nothing left to do: the process ends,
\* and with it the producer's queue and the connection.
Exit == /\ pc' = "exit"
        /\ queue' = <<>>
        /\ active' = FALSE
        /\ out' = <<>>
        /\ UNCHANGED <<table, current, handled, log, dropped, broker, wire, got, reading,
                       faults, arrived, stream>>

\* Usage, connection to the switch, P4Info file, device configuration.
Main == /\ pc = "main"
        /\ \/ Exit
           \/ /\ pc' = "construct"
              /\ UNCHANGED <<table, current, handled, active, out, arrived, stream, network>>

\* IntController: the counter of the P4Info, the address of the AS, the TCP
\* connection, which may fail, and the table, which must be there.
ConnectTcp == active' \in (IF TcpAddress THEN BOOLEAN ELSE {FALSE})
Construct == /\ pc = "construct"
             /\ \/ Exit
                \/ /\ pc' = "run"
                   /\ table' = readIntTable(Lines)
                   /\ ConnectTcp
                   /\ UNCHANGED <<current, handled, out, arrived, stream, network>>

\* The switch sends a clone: the sink entry has matched the destination.
SinkKey ==
  LET host == splitScionAddress(HostText)
  IN  toBitstring(2, host.isd) \o toBitstring(6, host.as)
DstKey(p) == toBitstring(2, p.dst.isd) \o toBitstring(6, p.dst.as)
Clones == {[nr |-> j, payload |-> KeepIntCpu(Packets[j])] :
             j \in {i \in DOMAIN Packets : DstKey(Packets[i]) = SinkKey}}

PacketArrives(clone) ==
  /\ pc \notin {"main", "construct", "exit"}
  /\ clone.nr = arrived + 1
  /\ arrived' = clone.nr
  /\ stream' = Append(stream, clone.payload)
  /\ UNCHANGED <<process, network>>

\* Bound: other packet-ins come when there is nothing else to do.
OtherArrives(payload) ==
  /\ pc = "run" /\ stream = <<>>
  /\ stream' = <<payload>>
  /\ UNCHANGED <<process, arrived, network>>

\* Of the controllers, asked in reverse order, the first one that wants it.
HandlePacketIn ==
  /\ pc = "run" /\ stream # <<>>
  /\ stream' = Tail(stream)
  /\ \/ \E m \in Messages : /\ m.of = Head(stream)
                            /\ current' = m.message
                            /\ pc' = "produce"
     \/ /\ Head(stream) \notin {m.of : m \in Messages} \cup Fatal
        /\ UNCHANGED <<current, pc>>
  /\ UNCHANGED <<table, handled, active, out, arrived, network>>

HandlePacketInTraps ==
  /\ pc = "run" /\ stream # <<>> /\ Head(stream) \in Fatal
  /\ Exit

\* The stream of the switch ends, and so does run().
RunReturns == pc = "run" /\ Exit

\* The length goes out first, as the four bytes of a little-endian machine.
LengthBytes(value) == Digits(Len(value), 256, 4)

\* Mutant: the length in network byte order.
NetworkLengthBytes(value) == toBitstring(4, Len(value))

SendLength(value) == LengthBytes(value)

\* Mutant: the exception of a full queue is caught and forgotten.
ProduceSwallowed ==
  /\ pc = "produce"
  /\ queue' = IF Len(queue) < QueueLimit THEN Append(queue, current) ELSE queue
  /\ handled' = Append(handled, current)
  /\ IF active THEN pc' = "length" /\ out' = SendLength(current.value)
     ELSE pc' = "run" /\ out' = <<>>
  /\ UNCHANGED <<table, current, active, log, dropped, broker, wire, got, reading,
                 faults, arrived, stream>>

\* kafkaProd.produce: a full queue throws.
Produce ==
  /\ pc = "produce"
  /\ \/ /\ Len(queue) >= QueueLimit
        /\ Exit
     \/ /\ Len(queue) < QueueLimit
        /\ queue' = Append(queue, current)
        /\ handled' = Append(handled, current)
        /\ IF active THEN pc' = "length" /\ out' = SendLength(current.value)
           ELSE pc' = "run" /\ out' = <<>>
        /\ UNCHANGED <<table, current, active, log, dropped, broker, wire, got, reading,
                       faults, arrived, stream>>

\* The next write of tcpClient::send, or the return from it.
NextWrite == IF pc = "length" THEN pc' = "report" /\ out' = current.value
             ELSE pc' = "run" /\ out' = <<>>

\* What the buffers take; everything when nobody is there to acknowledge it.
Space == IF reading THEN SocketBuffer - Len(wire) ELSE Len(out)

\* Mutant: the write hands over everything at once.
WriteWhole ==
  /\ pc \in {"length", "report"} /\ active
  /\ wire' = IF reading THEN wire \o out ELSE wire
  /\ NextWrite
  /\ UNCHANGED <<table, current, handled, active, arrived, stream, queue, log,
                 dropped, broker, got, reading, faults>>

\* boost::asio::write: what the buffers take goes out; it blocks on the rest.
Write ==
  /\ pc \in {"length", "report"} /\ active
  /\ LET n == Min({Len(out), Space})
     IN  /\ n > 0 \/ out = <<>>
         /\ wire' = IF reading THEN wire \o SubSeq(out, 1, n) ELSE wire
         /\ IF n = Len(out) THEN NextWrite
            ELSE out' = SubSeq(out, n + 1, Len(out)) /\ pc' = pc
  /\ UNCHANGED <<table, current, handled, active, arrived, stream, queue, log,
                 dropped, broker, got, reading, faults>>

\* The receiver has gone and the write fails: the socket is closed for good, and
\* the second write of the same send does nothing.  A write needs nothing but the
\* descriptor, but close() goes to the reactor of the io_context, which has ended
\* with createClient: what is left there may do, or end the process.
WriteFails ==
  /\ pc \in {"length", "report"} /\ active /\ ~reading
  /\ \/ Exit
     \/ /\ active' = FALSE
        /\ NextWrite
        /\ UNCHANGED <<table, current, handled, arrived, stream, network>>

WriteSkipped ==
  /\ pc \in {"length", "report"} /\ ~active
  /\ NextWrite
  /\ UNCHANGED <<table, current, handled, active, arrived, stream, network>>

-----------------------------------------------------------------------------
(* The broker, the producer's thread and the receiver.                        *)

Deliver(i) ==
  /\ broker
  /\ log' = log \cup {queue[i]} /\ queue' = RemoveAt(queue, i)
  /\ UNCHANGED <<process, arrived, stream, dropped, broker, wire, got, reading, faults>>

\* The acknowledgement of the broker is lost: the message will be sent again.
DeliverUnacknowledged(i) ==
  /\ broker /\ faults < MaxFaults
  /\ log' = log \cup {queue[i]} /\ faults' = faults + 1
  /\ UNCHANGED <<process, arrived, stream, queue, dropped, broker, wire, got, reading>>

\* message.timeout.ms, which nobody sets, has passed in an outage.  No delivery
\* callback is set either: the controller is not told.
Expire(i) ==
  /\ ~broker
  /\ dropped' = dropped \cup {queue[i]} /\ queue' = RemoveAt(queue, i)
  /\ UNCHANGED <<process, arrived, stream, log, broker, wire, got, reading, faults>>

\* The broker refuses a message for good: it may not write to the topic, say.
Refuse(i) ==
  /\ broker /\ faults < MaxFaults
  /\ dropped' = dropped \cup {queue[i]} /\ queue' = RemoveAt(queue, i)
  /\ faults' = faults + 1
  /\ UNCHANGED <<process, arrived, stream, log, broker, wire, got, reading>>

BrokerFails == /\ broker /\ faults < MaxFaults
               /\ broker' = FALSE /\ faults' = faults + 1
               /\ UNCHANGED <<process, arrived, stream, queue, log, dropped, wire, got, reading>>

BrokerReturns == /\ ~broker
                 /\ broker' = TRUE
                 /\ UNCHANGED <<process, arrived, stream, queue, log, dropped, wire, got, reading, faults>>

Receive == /\ reading /\ wire # <<>>
           /\ got' = got \o wire /\ wire' = <<>>
           /\ UNCHANGED <<process, arrived, stream, queue, log, dropped, broker, reading, faults>>

ReceiverLeaves == /\ reading /\ faults < MaxFaults
                  /\ reading' = FALSE /\ wire' = <<>> /\ faults' = faults + 1
                  /\ UNCHANGED <<process, arrived, stream, queue, log, dropped, broker, got>>

Controller == \/ Main \/ Construct \/ HandlePacketIn \/ HandlePacketInTraps
              \/ Produce \/ Write \/ WriteFails \/ WriteSkipped
Delivery == \E i \in DOMAIN queue : Deliver(i)
Network == \/ Delivery
           \/ \E i \in DOMAIN queue : DeliverUnacknowledged(i) \/ Expire(i) \/ Refuse(i)
           \/ BrokerFails \/ BrokerReturns \/ Receive \/ ReceiverLeaves
Next == \/ Controller
        \/ RunReturns
        \/ Network
        \/ \E clone \in Clones : PacketArrives(clone)
        \/ \E b \in Others : OtherArrives(b)

Spec == Init /\ [][Next]_vars

\* The process runs, librdkafka retries while the broker can be reached, outages
\* end some time, and a receiver that stays reads what it is sent.
LiveSpec == /\ Spec
            /\ WF_vars(Controller) /\ WF_vars(Delivery)
            /\ WF_vars(BrokerReturns) /\ WF_vars(Receive)

-----------------------------------------------------------------------------
TypeOK ==
  /\ pc \in {"main", "construct", "run", "produce", "length", "report", "exit"}
  /\ arrived \in 0..Len(Packets)
  /\ Len(queue) <= QueueLimit /\ Len(wire) <= SocketBuffer
  /\ broker \in BOOLEAN /\ active \in BOOLEAN /\ reading \in BOOLEAN
  /\ faults \in 0..MaxFaults

\* A packet as its sender and the switches on its way know it.
HopRecorded(p, h, i) ==
  /\ h.nodeId = p.recorded[i].nodeId
  /\ h.asn = p.recorded[i].asn
  /\ h.metadata = p.recorded[i].metadata

\* A message is about a packet that has come in: the topic is the one of this
\* AS and this node, written as in the AS address, the key names the flow of
\* the packet, and the hops are those the switches have recorded, wherever the
\* headers of the packet put them (int.cpp:134-276).
MessagesFaithful ==
  pc = "produce" =>
    LET report == ReportParse(Report, current.value)
        key    == FlowKeyParse(FlowKey, current.key)
    IN  /\ current.topic = [parts |-> [i \in 1..3 |-> Hex(HostText.parts[i])],
                            node  |-> NodeId]
        /\ ReportReadable(current.value) /\ FlowKeyReadable(current.key)
        /\ \E j \in 1..arrived : LET p == Packets[j] IN
             /\ key = [FlowKey EXCEPT !.flowId = p.flow]
             /\ report.packetType = 4
             /\ Len(report.hops) = Len(p.recorded)
             /\ \A i \in DOMAIN p.recorded : HopRecorded(p, report.hops[i], i)

\* The TCP receiver can always cut what it has read into frames: a length, a
\* report, in the order in which the reports went to Kafka and none left out,
\* up to the frame in which the connection ended (tcpClient.cpp:36-64).
Frame(value) == Digits(Len(value), 256, 4) \o value
StreamInFrames ==
  IsPrefix(got \o wire, FlattenSeq([i \in DOMAIN handled |-> Frame(handled[i].value)]))

\* The messages whose fate is sealed: the broker has stored them, or librdkafka
\* has given them up.
Settled == log \cup dropped

\* The controller loses no report by itself while it lives, whatever the broker
\* does: one that was given to the producer is with the broker, was given up by
\* librdkafka, or is still in the queue.  When the process ends, at most a queue
\* is lost with it, for nothing flushes the producer (int.cpp:277-281,
\* kafkaProducer.cpp:10-17, main.cpp:35-38).
LossAccounted ==
  LET missing == ToSet(handled) \ Settled
  IN  /\ Settled \subseteq ToSet(handled)
      /\ pc # "exit" => missing \subseteq ToSet(queue)
      /\ Cardinality(missing) <= QueueLimit

\* Every packet with INT data that reaches the sink is reported to Kafka, unless
\* librdkafka gives the report up or the process ends (int.cpp:277,
\* control_plane.cpp:47-51).
Exported == \A clone \in Clones :
  (arrived >= clone.nr) ~>
    (pc = "exit" \/ \E m \in Messages : m.of = clone.payload /\ m.message \in Settled)

\* report.proto:22-23: "Truncated packet headers. The first header is
\* determined by 'packetType'", which is SCION.
TruncatedIsHeaders ==
  \A m \in log : \E j \in 1..arrived :
    ReportParse(Report, m.value).truncated = Headers(Packets[j])
=============================================================================
