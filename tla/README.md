# Verification of the SCION INT switch and its controllers

TLA+ models of the P4 switches in `src/simple_switch`, of the controllers that run them, and of
the telemetry reports they produce (`src/telemetry/kafka`); TLC configurations that check the
models on small instances; and theorems that TLAPS proves for every instance. Paths below are
relative to `src/simple_switch` unless they start with `src/`; `PROJECT.json` maps every definition
to the lines it models and lists the runs, hazards, findings and theorems.

## 1. The system

A switch runs a P4 program on BMv2 (`simple_switch_grpc`): either a learning layer-2 switch
(`l2_switch_grpc.p4`) or the same switch with in-band network telemetry for SCION
(`int_switch.p4`). A controller process attaches over P4Runtime, is elected primary, sets the
pipeline, fills the tables, learns MAC addresses from digests and, for INT, turns cloned
packets into telemetry reports that go to Kafka and to a TCP server.

### Inventory

| Component | Source | State it keeps | Operations | What makes it correct |
|---|---|---|---|---|
| Event loop and connection | `control_plane/control_plane.*`, `connection.*` | its stream, its election ID, whether the last arbitration made it primary | `run` reads one message and dispatches it to the controller stack; `handleArbitrationUpdate` sets the pipeline; blocking RPCs | once a primary has handled its election the switch runs that controller's configuration, and only that one |
| MAC learning controller | `controllers/mac_learn.*` | none besides P4Info IDs: its memory is the switch's tables | flood groups, static entry, digest configuration; `handleDigest` writes both tables and acks | no source is silenced in `learn_table` that `forward_table` does not know; frames arrive; hosts get learned |
| Layer-2 data plane | `data_plane/include/l2_switch.p4` | `learn_table`, `forward_table`, multicast groups | forward or flood, send a digest for an unknown source | as above |
| INT controller | `controllers/int/int.*` | INT table, own AS and node ID, the producer, the TCP client | table entries, clone session; `handlePacketIn` decodes an INT stack into a report and exports it | a report says what the nodes recorded; it survives every packet |
| INT data plane | `data_plane/int_switch.p4`, `include/int_switch.p4`, `parser/intParser.p4` | `scion_int`, egress tables, clone session | source inserts headers and data, sink clones and removes them | lengths stay right, the receiver sees the packet that was sent, each packet is reported once |
| SCION, IP, UDP parsers | `data_plane/parser`, `headers` | none | header extraction, `cpuHdrLen` | `cpuHdrLen` is where the controller finds the INT headers, for every address and path |
| Report export | `controllers/int/kafkaProducer.*`, `tcpClient.*` | the producer's bounded queue; the socket and `isActive` | `produce`, `send` with two blocking writes | the controller itself loses no more than the queue holds, and that when it ends; the TCP stream can always be cut into frames |
| INT table file, conversions | `controllers/int/readIntTable.h`, `addressConversion.h`, `takeUint.h`, `control_plane/bitstring.h` | none | parsing, bit strings | each line becomes the entry it says |
| Start-up | `*/controller/main.cpp`, `control_plane/p4_util.*` | none | arguments, files, the controller stack, the exceptions that end the process | it runs or ends, and never half |
| Report schema and its C++ classes | `src/telemetry/kafka/report/report.proto`, `controllers/int/report/report.pb.*` | the fields of a message, unknown fields | setters, oneofs, size, serialization, parsing, merge, copy, swap | announced size, bytes written and bytes read agree, whatever was called before |
| Kafka benchmark | `src/telemetry/kafka/benchmark` | goroutines, a `WaitGroup`, the producer | generate reports, wait, flush, count | it counts when all are through; no report carries hops of another |
| Kafka example | `src/telemetry/kafka/example` | none | random reports; printing | -- |
| First L2 switch | `l2_switch/controller` | one multicast group, set through the PI library | set it, wait for a key, remove it | -- |
| Topologies and scripts | `src/scion`, `src/VM`, `simple_switch.py` | deployment | -- | -- |

### How the parts interact

- Controller and switch share nothing but the P4Runtime connection: a stream in both directions
  (arbitration, digests, packet-ins; acks) and unary RPCs (`SetForwardingPipelineConfig`,
  `Write`). Messages of the stream wait until the single-threaded loop reads them; an RPC acts on
  the switch when it is executed, not when the message it answers was sent.
- A switch may have several controllers. The highest election ID is primary; only a primary may
  write. A new primary resets the pipeline and installs everything anew.
- Within the process, `ControlPlane` has a stack of controllers: `DefaultController`,
  `MacLearningCtrl` and, for INT, `IntController`. An arbitration goes to all of them in that order,
  after `ControlPlane` itself has set the pipeline; digests and packet-ins go through the stack from
  its end, until one of them returns true.
- `IntController::handlePacketIn` runs in the event loop. It gives each report to librdkafka, whose
  own thread empties a bounded queue, and writes it to a socket, which blocks: elections and
  digests wait behind it.
- Switches share nothing but packets. Inside one, ingress and egress are different threads with a
  queue between them; each looks its tables up when it runs.
- Consumers of Kafka, the benchmark and the controllers share the report schema only.

### What is hard here

Elections that overlap initializations still running; messages acted upon long after they were
true; RPCs that fail alone while all others go through; crashes, broken streams and restarts
between any two RPCs; tables that fill up at different times; packets that pass a switch between
two RPCs of its initialization, or between ingress and egress of a switch whose pipeline is being
reset; length arithmetic in words and bytes in six headers; decoding by the bitmap what was encoded
by the tables; a queue that overflows by an exception; writes that succeed in part; reports
that expire unnoticed; deliveries repeated or out of order; encodings whose size is computed by
other code than the bytes.
`PROJECT.json` lists these as hazards at their lines, with the properties that would catch each.

## 2. The modules

| Module | Models |
|---|---|
| `Switch` | the tables of one switch as a record `Pipeline`, what an `INSERT` does to each, `OutPorts` of a frame |
| `Initialization` | the RPCs of an initialization in the order in which they are sent, and their effect |
| `ControlPlane` | the controllers of one switch: connections, elections, event loop, initialization, learning, faults |
| `PrimaryConfig` | abstract: a switch with one owner at a time, which settles with its own configuration in force |
| `ElectedControl` | the refinement mapping: `ControlPlane` implements `PrimaryConfig` |
| `StaleDigest` | `ControlPlane` with a history of what the current pipeline has seen |
| `IntDataPlane` | one SCION/UDP packet through parser, ingress, egress, deparser; only operators |
| `IntReport` | `handlePacketIn` on words: from an INT stack to the hops of a report; only operators |
| `IntNetwork` | packets through several switches that are being initialized, and the reports on them |
| `Conversions` | numerals, AS addresses, bit strings, big-endian reads, the INT table; only operators |
| `ScionHeader` | the headers of a clone as bytes, and `cpuHdrLen` as the parsers sum it up; only operators |
| `ReportWire` | the generated classes: size, bytes, parsing and merging of reports, hops and flow keys; only operators |
| `ReportMessages` | two messages under any sequence of the operations of their class |
| `ReportExport` | the INT process from start to end: packet-ins as bytes, reports, Kafka producer, TCP client |
| `Benchmark` | main and the goroutines of the Go benchmark, the producer and the broker |
| `MCControlPlane`, `MCIntNetwork`, `MCReportExport`, `MCReportMessages`, `MCBenchmark` | the instances for TLC |
| `InitializationProofs`, `ControlPlaneProofs` | the proofs about `ControlPlane`: types and learning, the configuration in force, the refinement |
| `IntNetworkProofs`, `ExportProofs`, `BenchmarkProofs` | the proofs about the module each is named after |
| `WireProofs` | what `ReportWire` writes is read back: theorems about every report, hop and flow key |
| `MessagesProofs` | the invariants of `ReportMessages`, from `WireProofs` |
| `SequenceLemmas` | the elements of a sequence, concatenation of many sequences, induction over numbers, and the folds of the library as runs of a step function; used by these proofs |

`ControlPlane` and `IntNetwork` both extend `Initialization`: the first interleaves its steps with
elections and faults, the second with packets. `ReportExport` extends `ScionHeader` (and with it
`Conversions`) and `ReportWire`: what the switch writes, the controller reads and a consumer parses
are three different pieces of code, composed there byte for byte.

### ControlPlane and the code

| State | Code |
|---|---|
| `pc[c]` | where the process of `c` is: `down`; `read` (in `run`, at `readStream`); `init` (in the arbitration callbacks); `learn`, `ack` (in `handleDigest`, before its Write and before its ack); `dead` (gone, but the switch has not noticed) |
| `step[c]` | the next RPC of the initialization |
| `cur[c]` | the digest `handleDigest` was called with |
| `stream[c]` | messages sent to `c` and not read |
| `open[c]`, `members`, `primary` | connection of `c`; the switch's view of who is connected and who is primary |
| `pipe` | the pipeline of the switch |
| `pending` | the digests the switch sent and will not repeat before an ack or the ack timeout |
| `loc`, `faults` | where hosts are attached; faults so far |

| Action | Code |
|---|---|
| `StartController`, `RegisterController` | `main`, `ControlPlane::run`, `SwitchConnection::sendMasterArbitrationUpdate`; the election is the server's |
| `RunReturns` | `readStream` returns false, `run` leaves its loop |
| `ReadElected`, `ReadDemoted` | `handleArbitrationUpdate` for either status |
| `SetPipelineConfig` ... `ConfigCloneSession` | one RPC each, in the order of the code; a line of the INT table is an RPC of its own |
| `FailInitRpc` | an RPC that the switch refuses (not primary, no pipeline) or that fails: nobody looks, the next follows |
| `ReadDigest`, `LearnWrite`, `FailLearnWrite`, `AckDigestList` | `handleDigest`: a Write of two inserts, then an ack whatever came of it |
| `Frame`, `ExpireDigest`, `Move` | the data plane and its hosts |
| `CrashController`, `DetectCrash`, `BreakStream`, `SwitchRestart` | faults |

The P4Runtime server is a library of the switch (marked external): it elects the highest ID, tells
every connected controller of a new primary and otherwise only the one that asked, executes RPCs of
the primary only, and sends digests to the primary. A controller that is demoted while it
initializes goes on sending RPCs, which then fail or, after a re-election, succeed again.

Abstractions: a digest list has one digest; the two inserts of one Write are one step, but each
succeeds or fails by itself; node ID, AS address and utilization entries, which are one request of
one controller, are the one value `node`; ports of a frame are what matters of it.

`PrimaryConfig` has no processes, streams, RPCs or faults. The mapping of `ElectedControl`:

| `PrimaryConfig` | `ControlPlane` |
|---|---|
| `owner` | `primary` |
| `settled` | some controller is the primary, lives, has no election waiting and is not initializing (`AnySettled`) |
| `inForce` | the controllers whose whole configuration the pipeline has (`AllInForce`) |
| `bound` | `pipe.forward` |

So elections, crashes and demotions are `Elect`, `Die` or stutters, the first RPC is `Reset`, the
others `Configure`, learning is `Bind`; whatever a demoted or late controller sends is a stutter.

### IntNetwork and the code

A packet keeps what the properties tell apart: destination AS, destination port, shim and INT-MD
headers, a stack of 32-bit words that name the node, field and word they come from, the payload,
and `extra`, by how much the length fields of UDP, SCION and IP exceed those of the packet
the host sent. `length` and `hopML` have their widths (8 and 5 bits).

| Action | Code |
|---|---|
| `InitStep`, `Takeover` | RPCs of `ControlPlane`; a new primary that resets the pipeline, while the old process, if it lives, handles some of the messages it has been sent |
| `IngressStep` | parser and ingress: `insert_int`, `clone_int` or nothing |
| `EgressPacketStep` | `intState` 1: the egress tables, `int_refresh_length`; 0: `delete_int`; 2: nothing; then the deparser |
| `EgressClone` | `keep_int_cpu`, and PacketIn to the primary |
| `HandlePacketIn`, `ControllerDies` | `handlePacketIn`, and its division by zero |
| `Send`, `Deliver` | the applications |

`Tables(n)` is what the controller of `n` has installed by now. Here every RPC succeeds; what
happens when one fails is a matter of `ControlPlane`. Its effect on the tables is `PerformStep` of
`Initialization`, one RPC at a time.

What a node adds, the fields of a bitmap in the order of the deparser, is `StackOf`; where the
decoder of `IntReport` looks for a field is `OffsetOf`, the sum of the widths of those that come
before it. That the second finds what the first wrote is a lemma (`FieldRead`).

The section "Deployments" of the module names conditions on routes and tables that the code neither
checks nor enforces: `OneSource` (at most one switch of a route is a source for its destination),
`SinkFollows` (a source has a sink behind it), `AsksRecordable` (the tables ask for fields that some
egress table fills in) and `Steady` (all switches are initialized and no controller takes over).
`MCIntNetwork` evaluates them on its instances (`DeploymentAssumption`).

### ReportExport and the code

| State | Code |
|---|---|
| `pc` | `main`; `construct` (the constructor of `IntController`); `run` (the event loop); `produce`, `length`, `report` (in `handlePacketIn`: before `kafkaProducer::send`, in the two writes of `tcpClient::send`); `exit` |
| `table` | `asList`, `bitmapIntList`, `bitmapScionList` |
| `arrived`, `stream` | packets the switch has cloned; packet-ins not read |
| `current` | topic, key and value of the report in hand |
| `handled` | history: the messages given to the producer |
| `queue`, `log`, `dropped`, `broker` | librdkafka's queue, what the broker has stored, what librdkafka has given up, whether the broker is reachable |
| `active`, `out`, `wire` | `isActive`, what is left of the write in progress, the buffers of the connection |
| `got`, `reading`, `faults` | the receiver; faults so far |

| Action | Code |
|---|---|
| `Main`, `Construct` | `main` and the constructor: each ends the process by an exception or goes on; the TCP connection may fail, which is not an error |
| `PacketArrives`, `OtherArrives` | a clone in the order of the packets; packet-ins `handlePacketIn` must refuse |
| `HandlePacketIn` | all early returns; otherwise report, key and topic |
| `HandlePacketInTraps` | the division by zero of a hop length of zero, which traps |
| `Produce` | `produce`; a full queue throws, which ends the process |
| `Write`, `WriteFails`, `WriteSkipped` | `tcpClient::write`: part of the bytes, an error that closes the socket, nothing after that; closing it needs the `io_context` that ended with `createClient`, so that it may end the process |
| `RunReturns` | the stream of the switch ends |
| `Deliver`, `DeliverUnacknowledged`, `Expire`, `Refuse`, `BrokerFails`, `BrokerReturns` | librdkafka and the broker: in any order, repeated after a lost acknowledgement; a report expires in an outage, or is refused for good |
| `Receive`, `ReceiverLeaves` | the TCP server |

`HandlePacketIn` reads a payload that `KeepIntCpu` has written from a packet, at the offsets of the
code, and its value and key are serialized as the generated classes do it.

### ReportMessages and the code

`obj` holds two messages of one class, `kind`; every action is an operation a caller has: the
setters, `mutable_*` of the oneofs, `add_hops`, `Clear` and `clear_*`, `MergeFrom`, `CopyFrom`,
`Swap`, and `ParseFromString` of bytes written by somebody else (fields this schema does not know,
fields of another type, oneofs and map keys repeated). `ReportWire` has for each class the size
(`ByteSizeLong`), the bytes (`_InternalSerialize`), the parser (`_InternalParse`) and the merge
(`MergeFrom`) as the four separate traversals that they are in `report.pb.cc`.

### Benchmark and the code

| State | Code |
|---|---|
| `pc` | where `main` is: `open`, `topics`, `start`, `wait`, `flush`, `count`, `close`, `exit`, `panic` |
| `wg`, `task[i]`, `made[i]` | the counter of the `WaitGroup`; the goroutine of flow `i` and its loop variable |
| `hops[i]` | `rep.Hops`, reused for all reports of a goroutine |
| `remaining`, `sent` | what `Flush` returned: messages in the queue and error events nobody reads, one for each fault at most; `totalPkts` |
| `queue`, `log`, `lost`, `broker` | librdkafka's queue, what the broker has, what it will never get |

`Open` ... `Close` are the statements of `main`; `Generate`, `Produce`, `Finish` a round of
`Flow.start` and its end; `Deliver`, `DeliverUnacknowledged`, `Expire`, `BrokerFails` and
`BrokerReturns` are external. `main_modified.go` has the same control with pauses.

## 3. The runs

| Run | Instance | Shows |
|---|---|---|
| `Elections` | two INT controllers with different tables (own AS listed, an AS listed twice), one mobile host, two faults of any kind | `PrimaryConfigInForce`: a settled primary has its whole configuration in force; `ForwardStable`: an entry changes by a reset only; `ImplementsPrimaryConfig`: the refinement |
| `Learning` | two L2 controllers, three ports, two hosts, tables of two entries (one taken by the broadcast entry), one RPC that fails or another fault | `LearnedIsForwarded`, `Reachable` |
| `Liveness` | two INT controllers, one fault, fairness | `Converges`, `Learns` |
| `IntSteady` | three initialized switches, two sinks in a row, two flows in opposite directions, two packets, fairness | `LengthsConsistent`, `Transparent`, `ReportsFaithful`, `ReportedOnce`, `AllReported` |
| `IntStartup` | the same switches in every phase of their initialization, and a takeover; one flow without fields | `LengthsConsistent`, `Intact`, `ReportedOnce` |
| `Export` | three packets, five kinds of payload that are none, a table with a comment and a blank line, two faults, fairness | `MessagesFaithful`: topic, key and hops are those of the packet; `StreamInFrames`; `LossAccounted`: each report is with the broker, given up by librdkafka or queued, but for a queue of them at the end of the process; `Exported` |
| `Messages` | two messages of either class, four operations | `SizeIsExact`, `RoundTrip`, `ConcatenationMerges`, `CutIsNoticed` |
| `Benchmark` | the three flows of `main.go`, two reports each, one fault, fairness | `CountCovered`: what is printed is covered by reports delivered or dropped; `ReportsOwn`: each report has the hops of one packet of its flow, whichever end comes first; `Ends` |
| `InitFailure`, `StaleDigest`, `IntTransit`, `TruncatedPacket` | see section 6 | a disagreement each |

Every property of a passing run has a mutant in `PROJECT.json`: a definition changed the way a bug
would change the code, under which TLC finds the property violated.

### Bounds, and why they are enough

- *Two controllers.* Nothing relates three of them: the election is a maximum, and every RPC either
  comes from the primary or is refused. The proofs hold for any number.
- *Faults* (`MaxFaults` 2 in `Elections` and `Export`, 1 in `Liveness`, `Learning` and
  `Benchmark`). Two are needed to demote a controller and bring it back while its RPCs are in
  progress, and to have a broker and a receiver fail together; starts, elections and frames are not
  bounded.
- *Tables.* `LearnSize` 2 in `Learning` is the smallest at which one insert of a Write fails and
  the other does not, as with 1024 in the source, where the broadcast entry takes one place.
- *Stream.* `StreamBound` 2 limits digests only: an arbitration message may wait behind and before
  a digest.
- *INT tables.* Three lines have all cases of the loop: own AS, a fresh AS, an AS again.
- *Packets of `IntNetwork`.* Packets meet in the tables and in the queue of one controller only, so
  that two show all there is between them; each is at any point of its way. The route has a source,
  a first and a second sink, and, in the other direction, a switch on the way.
- *Bitmaps.* The demo's 0x8d00 0x0001, another of one-word and two-word fields, and none.
- *Packets of `Export`.* One-hop path, one and three segments, three pairs of address lengths, one
  and two hops, a flow ID of 20 ones and a packet with a traffic class in the same word.
  `OtherArrives` fires when nothing waits (a refused packet-in leaves no state behind, so its place
  in the stream does not matter).
- *Queues.* `QueueLimit` 2 fills up with three reports; `SocketBuffer` 70 is less than a report with
  its headers, so that every write may be partial and block.
- *Messages.* Four operations set two fields in each of two messages, or set, clear and set a oneof
  again before the two are merged; `MaxHops` 2; zero and a value of two bytes; the two messages are
  interchangeable, hence the symmetry.
- *Benchmark.* A queue of two for six reports is full while others are delivered; goroutines may all
  be at any report.

### Fairness

`ControlPlane!Fairness`: a live process keeps running (`Controller(c)`: the loop blocks in
`readStream` and in RPCs only, and both return), the switch serves connections, hosts that send go
on sending (`Frame`), and the ack timeout the controller asked for, which is finite, runs out.
Nothing is assumed about starts, faults, moves or RPC failures; the last three are bounded. A
property must therefore hold when no controller ever comes back; `Converges` says nothing of a
switch without primary. `Learns` needs weak fairness only, as `ExpireDigest` brings a lost digest
back.

`IntNetwork!Fairness`: the switches handle some packet that is there, and controllers go on.
Without it packets could wait for ever.

`ReportExport!LiveSpec`: the process runs, librdkafka's thread delivers while the broker is
reachable, an outage ends some time (reports may have expired by then), and a receiver that has not
closed its end reads what it is sent. The last is needed: `boost::asio::write` blocks, and a
receiver that stays and never reads would stop the event loop. Faults, `RunReturns`, `Expire` and
the choice between an exception and success are not fair.

`Benchmark!LiveSpec`: the Go scheduler runs `main` and every goroutine. Of Kafka nothing is assumed,
since nothing the program waits for depends on it for ever: `Produce` does not block and `Flush` has
a timeout.

### Deadlock

All configurations say `CHECK_DEADLOCK FALSE`, for the systems may stop: when all controllers are
dead and nobody starts one, all packets are delivered, all operations made, or the process has ended.

## 4. What is proved

For every set of controllers, hosts, ports, ASes, tables, packets, flows and every bound, from the
assumptions on the constants in the modules:

| Theorem | States |
|---|---|
| `TypeCorrect` | `Spec => []TypeOK` of `ControlPlane` |
| `LearnedIsForwardedHolds` | `Spec => []LearnedIsForwarded` |
| `ForwardStableHolds` | `Spec => ForwardStable` |
| `PrimaryConfigInForceHolds` | `Spec => []PrimaryConfigInForce`, if no RPC of an initialization fails by itself (`"init" \notin FallibleRpcs`) |
| `Implementation` | `Spec => ImplementsPrimaryConfig`, under the same assumption |
| `ReachableHolds` | `Spec => []Reachable`, if hosts do not move (`Mobile = {}`) |
| `TypeCorrect` | `Spec => []TypeOK` of `IntNetwork` |
| `LengthsAlwaysConsistent` | `Spec => []LengthsConsistent`, if `OneSource` |
| `DeliveredIntact` | `Spec => []Intact`, if `OneSource` |
| `AlwaysReportedOnce` | `Spec => []ReportedOnce`, if `OneSource` |
| `DeliveredTransparent` | `Spec => []Transparent`, if `OneSource`, `SinkFollows` and `Steady` |
| `ReportsAlwaysFaithful` | `Spec => []ReportsFaithful`, if `OneSource`, `AsksRecordable` and `Steady` |
| `LossAccountedHolds` | `Spec => []LossAccounted` of `ReportExport` |
| `AlwaysInFrames` | `Spec => []StreamInFrames` of `ReportExport` |
| `AlwaysFaithful` | `Spec => []MessagesFaithful` of `ReportExport` |
| `TypeCorrect` | `Spec => []TypeOK` of `ReportExport` |
| `MessagesTypedHolds` | `Spec => []MessagesTyped`, the inductive invariant of `ReportMessages` |
| `SizeIsExactHolds`, `RoundTripHolds`, `ConcatenationMergesHolds`, `CutIsNoticedHolds` | `Spec => []SizeIsExact` and so on, the four invariants of `ReportMessages` |
| `ReportReadsBack`, `FlowKeyReadsBack` | every report and every flow key is written as bytes that can be read and give it back |
| `ReportsConcatenate`, `FlowKeysConcatenate` | reading one message after another is `MergeFrom` |
| `ReportCutIsAnother`, `FlowKeyCutIsAnother` | no message is read from a proper prefix of its bytes |
| `CountCoveredHolds` | `Spec => []CountCovered` of `Benchmark` |
| `BenchmarkTypes` | `Spec => []TypeOK` of `Benchmark` |
| `ReportsOwnHolds` | `Spec => []ReportsOwn` of `Benchmark`, if the flows fit together (`FlowsFit`) |

*Types.* `TypeOK` says where a process is in its initialization, and is inductive as it stands.
`InitializationProofs` has, as lemmas, the bounds of the steps and the type of the pipeline after each
of them, so that the proof has a step per action.

*LearnedIsForwarded.* Not inductive: were `forward_table` full while `learn_table` is not, a Write
would put an address into the second only. `LearnInv` adds what excludes that: every address in
`forward_table` is also in `learn_table`, or `learn_table` is full. While the first holds,
`forward_table` has room whenever `learn_table` has, since `LearnSize <= ForwardSize`
(`SizeAssumption`; both are 1024 in `l2_switch.p4`); once `learn_table` is full it never changes
before the next reset.

*ForwardStable.* Every action is a step that leaves `forward` alone, an insert under a key that is
not there, or a reset (`ForwardChanges`).

*PrimaryConfigInForce.* The invariant says nothing while a primary is initializing or has not read
of its election; so it is not inductive. Two more make it so:

- `ConnInv`: a primary is connected as the switch sees it; who is connected is dead, unnoticed, or
  has its stream open; an open stream has a live process. So whoever is made primary and lives gets
  the message of its election.
- `ConfigInv`: a primary that lives and has no message of an election waiting has done, by its own
  RPCs and in this pipeline, every step before the one it is at (`Done(pipe, c, StepOf(c))`: it says
  of each table what is there and what is not yet, and is weaker than equality with
  `PipelineAfter`, since frames are learned in between).

The argument: the first RPC of a primary resets the pipeline, whatever it was. From then on, until
another is elected, only its RPCs are executed, one after the other (`DoneSteps`: each establishes
its own part and keeps that of the steps before it). A controller that lost the role in between and
got it back has the message of its new election in its stream: the invariant claims nothing of it,
and the initialization it will run resets the pipeline again. `DoneInForce` turns `Done` of the last
step into `InForce`.

The assumption on `FallibleRpcs` is needed: run `InitFailure` is its counterexample.

*Implementation.* Initial states map to initial states and every step to a step of `PrimaryConfig`
or a stutter, by `ConfigInv`. A step that leaves the pipeline alone settles nobody; an RPC of the
initialization is executed for the primary only and maps to `Reset` or `Configure`, which settles
with the configuration in force because `Done` of the last step holds before it; learning binds an
address that was not bound.

*Reachable.* `WhereInv`: the port of a host is the same in its digests, wherever they wait or are
handled, and in `forward_table`. `FloodInv`: the flood groups are all there or none is. Both hold
whatever RPCs fail. The assumption that hosts stay is needed, since an entry outlives the move of
its host.

*Types of `IntNetwork`.* `Placed`: the variables have their types; the words of a packet are those its
shim header announces, and the parser neither loses nor repeats one (`StackFits`, `Splits`); a packet
is on one link, in one switch or with its host, but for a clone. It needs no condition on routes or
tables.

*LengthsConsistent, Intact, Transparent.* None is inductive: a length field that is right says nothing of
what the next `delete_int` takes off. `Contents` says what a packet carries at each place of its
route: nothing, before the source (`Untouched`) or behind it (`Cleared`), or exactly the headers and
the stack of the one source it has passed (`Tagged`); inside a switch, what the parser, `clone_int` or
`insert_int` makes of such a packet (`Holds`); at a controller, the headers and the stack of a source
(`Tells`). From it `LengthsConsistent` and `Intact` follow directly, for the stack and the announced
length are those of one source, at most 20 words, which five and eight bits hold. `OneSource` is needed: a second
`insert_int` overwrites the shim and the header but adds their 16 bytes to the lengths again (run
`IntTransit` has such a table).
While switches initialize, a stack may have fewer fields than its bitmap asks for (`Records`), and
a sink without entries lets it pass; with `Steady` neither happens, which gives `Transparent` and
`ReportsFaithful`.

*ReportsFaithful.* `ReportsOK`: a report has one hop, that of the source in its trail, and if all
fields of the bitmap were recorded, each has the words recorded (`ReportTells`). With `AsksRecordable`
and `Steady` they all were.

*ReportedOnce.* `Once`: of a packet there is one clone, one packet-in or one report, never two of them
(`SingleCopy`, `SingleMessage`, `SingleReport`, `OneForm`), and once there is any, the packet itself
has no INT data any more or is about to lose it in the egress of the sink (`SpentGone`), so that a
second sink has nothing to clone. That it does not meet another source is `OneSource`: its trail has
the only one.

*LossAccounted.* `LossInv`: while the process lives, whatever was given to the producer and is
neither with the broker nor given up by librdkafka is in the queue, whose length is bounded; the end
of the process turns that into the bound of what it takes with it, and after it the queue is empty,
so that nothing changes any more. How much expires in an outage or is refused is not bounded: the
code sets neither a timeout nor a delivery callback.

*StreamInFrames.* The property alone does not exclude that a length is written twice. `StreamInv`: as long
as both ends of the connection live, what the receiver has read, what is in the buffers, what is left of
the write in progress and, while that is the length, the report itself make up the frames of all
reports handed over (`Rest`). A failed write closes the connection for good, and a receiver that
leaves takes the buffers with it: what was read remains a prefix. Each partial write moves bytes
from the rest to the buffers (`Divided`), which never hold more than they take; that is also the part
of `TypeOK` that is not obvious. That `SerializeToString` yields a sequence of bytes is a theorem of
`WireProofs` about reports, and `MessagesSerialized` says that the messages of the controller are reports.

*MessagesFaithful.* `FaithInv`: whatever waits in the stream is the packet-in of a packet that has come in,
which was for this AS, or one that no report is made of; and while `pc` is `"produce"`, `current` is the message
of the former. The rest is about values: that `MessageOf` of the packet-in says what is in the packet.
`ExportProofs` follows the bytes there and back:

1. *Folds.* Sums, numerals, the fields of a hop and the hops of a stack are folds; each is the end of a run of
   its step (`FoldOfIs`).
2. *Headers.* `Part(b, pos, x)`: x is in b behind the first `pos` bytes. Every header is a `Block` of its length,
   for any lengths of the host addresses and any segments of the path (`PathLayout`, by the number of info fields), and
   the counted length of the headers is that of the headers kept (`HeadersLayout`). So the identifier, the bitmaps, the hop
   length, the stack length and the destination are read where the switch wrote them (`HeaderIsRead`).
3. *Hops.* `HopAt`: the hop after its first k fields and the place of the next one. `TakeAsked` takes the k-th
   step for each of the nine fields (`FieldTaken`), whether the bitmap asks for it or not; the AS
   comes last (`HopTaken`), and hop after hop the stack becomes the hops recorded (`HopsRead`).
4. *Messages.* What was read is a report with hops that `Order` covers, so `ReportReadsBack` and `FlowKeyReadsBack` give it back
   from its bytes (`MessageReadsBack`).
5. *Topic.* The three words of the AS number in the header are those of the address given to the controller, since
   the sink matched `SinkKey` (`ThreeWords`, `TopicIs`).

It rests on what the module assumes of its constants. `PacketsAssumption`: the fields of a packet
have their widths, its lengths are those of its hops, and its stack holds for each hop the fields the bitmap asks for, as the
node recorded them (that nodes do so is `AsksRecordable` and `Steady` of `IntNetwork`; see section 6 for those that do not).
`HostAssumption`: the parts of the AS address have 16 bits. `OthersAssumption`: packet-ins that are not clones of INT packets
do not pass the checks of `handlePacketIn`. TLC evaluates the three on the instance.

*SizeIsExact, RoundTrip, ConcatenationMerges, CutIsNoticed.* They say what folds over fields and recursive
functions over bytes compute, for every message. The theorems on induction take an operator as a
parameter, which the provers cannot instantiate; what takes their place is induction with a set of
numbers (`NatSetInduction`), from which `SequenceLemmas` proves that the recursion behind `FoldLeft` has a
solution and that a fold is a run of its step function (`Folds`): runs can be put one after the other, have
one end, and keep a type. `WireProofs` goes up from there:

1. *Numbers.* `Digits` and `Number` are inverse for as many digits as the number has; `VarintSize` is the
   least count of them to the base 128, and a varint is read back from in front of anything
   (`ReadWrittenVarint`).
2. *Fields.* `Whole(f)`: f is read as one field, whatever follows it, and no proper prefix of it is.
   Every field the classes write is, and so is each that is kept as unknown.
3. *Byte strings.* `Encodes(b, fs)`: b is the field byte strings `fs` one after the other; `Fields` of such a
   string has exactly those fields, `Readable` looks at exactly those, and cut inside a field it is malformed.
4. *Readers.* `Reads`: reading b takes a message from one value to another, a run of `IPv6Take`, `HopTake`
   and so on over the fields. Concatenation of byte strings is concatenation of runs.
5. *Classes.* For each class and each field: what reading it does to a message that has the earlier
   fields already. With nested messages first (`IPv6Address` for flow keys, map entries for hops, hops for reports),
   reading a written message `y` into a message `x` gives the merge of both. Read into the empty message that is `y`
   itself, since merging into the empty message changes nothing.
6. *Cuts.* A run over a proper prefix of the fields is not at its last value yet: the last field still changes
   something (`FoldsAvoids`), as only fields that differ from their default are written.

`MessagesTyped` is what makes the messages of a behaviour ones these theorems are about: the fields have their
types, what is kept of unknown fields is a sequence of whole fields with other tags, and hops have
metadata with known keys only. Every setter, merge and parse keeps it; that parsing does is a lemma about any bytes. The
assumptions of `ReportMessages` (`ValuesAssumption`, `KeysAssumption`, `BytesAssumption`) say that numbers fit
into the narrowest field they are put into, which C++ types see to, that byte strings hold bytes, and that the keys in foreign reports are
among those whose orders `Orders` lists.

*CountCovered.* `TaskInv` ties the `WaitGroup` to the goroutines (its counter is the number of those
at work, so that `main` gets past `Wait` only when all are through, with all their reports made);
`HeldInv`: a report that was made is in the queue, with the broker or lost, as long as `main` has not
closed the producer; `CountInv`: from `Flush` on, at least the total less what it returned is with
the broker or lost, since the reports held are at least the total (`CoverCardinality`) and the
queue holds no more than its length. Later deliveries only add to it. `BenchmarkTypes` follows from
`TaskInv` and the bound of the queue.

*ReportsOwn.* `OwnInv`: a goroutine that is about to produce has exactly the hops of its flow, and
whatever is in the queue or with the broker has the key and the hops of a flow. So what the property
says of reports holds because it holds of the flows; that it does for those of `main.go` is the
assumption `MCFlowsFit`, which TLC evaluates. Both read a path from the end where it enters INT
(`FromSource`), so that neither settles which end a report starts with.

The invariants were checked with TLC on the instances of the runs first, but for `Contents`,
`ReportsOK` and `MessagesTyped`, whose quantifiers range over all packets, stacks and field strings, which
TLC cannot enumerate.

### Only model-checked

- `Converges`, `Learns`, `AllReported`, `Exported` and `Ends`: liveness under fairness and `ENABLED`
  are beyond the prover.

Every invariant the passing runs check is a theorem.

No module declares a `RECURSIVE` operator.

## 5. What is not modelled

- Checksums: constants in the switch or left to BMv2. Ethernet, IP and the outer UDP header are
  extracted whole and are not part of a report.
- Text: what the files and arguments of the controllers hold is I/O; malformed text ends the process
  by an exception, which is `Exit`. `splitIpAddress` is used for the address of the TCP server only.
- Idle timeouts and stream errors, which the handlers print; `updateTxUtil`, which is declared only.
- Flooding among switches: in `IntNetwork` one copy of a packet follows its route, also while its
  destination is not learned; the copies that other ports get are left out.
- How many messages expire or which: `Expire` takes any in an outage. The order and the number of the
  copies the broker stores: `log` is a set.
- Generated code: arenas, reflection, ownership transfer (`release_`, `set_allocated_`), the enum
  name tables; negative enum values, varints longer than their type and groups, which no writer of
  this schema emits; what a failed parse has read before it failed. The Go code generated from the
  same schema.
- `main_modified.go`: its pauses are time, its latencies random, its flows another instance.
- The example producer and consumer of `src/telemetry/kafka/example`: a sequential loop over random
  values.
- The controller of the first L2 switch (`l2_switch/controller/main.cpp`): straight-line calls of
  the PI library for a P4 program that is not in the repository.
- The level 1 and 2 interface, queue and buffer fields, which no egress table inserts; they occur as
  fields of the decoder in `ReportExport`.
- Deployment scripts and topologies.

## 6. Findings

- **`InitFailure`** -- `ControlPlane::handleArbitrationUpdate` and the callbacks discard the
  results of their RPCs. One that fails leaves the switch half configured under a primary that
  does not know.
- **`StaleDigest`** -- a digest that waits behind an election, or that a controller read before it
  lost and regained the role, is written into a pipeline that never saw the frame. With a host that
  moved meanwhile the wrong port stays until the next reset.
- **`IntTransit`** -- a switch on the way whose table lists the destination AS runs `insert_int` on a
  packet that has an INT header. `addLen` starts with the 16 bytes of shim and header although they
  are there already, so that the lengths of UDP, SCION and IP exceed the packet by as much, where
  `int_switch.p4` says "Update length-fields of underlying headers". The shim is overwritten, too:
  the deparser puts the words of the source before those of this switch, but `length` counts the
  latter only. The sink cuts as many words off the front, which are the source's, restores port
  12345, and leaves the others in the payload.
- **`TruncatedPacket`** -- `truncated_packet` starts at byte 8 of the packet-in, in the middle of
  the `int_cpu` header, instead of byte 16, and so ends eight bytes before the end of the headers.

Behaviour that the models show and no run is about:

- The broadcast entry takes a place in `learn_table`. With 1024 hosts one is forwarded and never in
  `learn_table`, and its digest is sent again and again.
- A bitmap may ask for fields that no egress table inserts; the decoder reads a word for each all
  the same. A packet that meets a switch between its source entries and its egress entries is
  reported with fields it does not carry (`IntStartup` shows that it still arrives whole).
- A line of the INT table without bitmaps makes sources insert headers without data, a hop length
  of zero, and the controller of the sink divides by it (`ControllerDies`, `HandlePacketInTraps`).
- A full producer queue throws out of `handlePacketIn` and ends the controller, elections and
  learning included (`Produce`).
- The ISD of an AS address is read as a hexadecimal number (`Hex` in `splitScionAddress`): from
  ISD 10 on the entries are for another ISD. A blank line of the INT table is an entry for AS 0-0.
- `report.proto` says that reports of a flow are ordered; a delivery that is retried may be
  overtaken (`Deliver` of any element of the queue).
- The benchmark ignores the error of `Produce`; its count includes reports that the full queue
  refused, and by default it makes 3,000,000 for a queue of 100,000. `CountCovered` is what holds.
  Its two topics are those of the sources of the flows, not of the sinks, as
  `src/telemetry/kafka/README.md` has it.
- `report.proto` (lines 8-9) has the data of the sink first and that of the source last. The flows of
  the benchmark append the hops from the source on. The controller takes hops in the order of the
  stack, where the deparser puts the words that were there before those of its own node.
- `kafkaProducer.cpp` sets `bootstrap.servers` only: in an outage longer than librdkafka's default
  `message.timeout.ms` the reports in the queue are given up, all of them and any number of times, and
  nobody is told (`Expire`, `Refuse`). `LossAccounted` and `Exported` are what holds.
- The example draws an index for seven topics and uses it for two paths, and all hops of a report
  share the arrays of their measurements.

## 7. Plan

Done: all modules of section 2, their runs and the theorems of section 4. What could follow:

1. A second instance of `Export` with more packets of one flow.
2. Stacks whose nodes left out a field the bitmap asks for, on bytes: what the decoder makes of them.
