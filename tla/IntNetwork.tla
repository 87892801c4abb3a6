----------------------------- MODULE IntNetwork -----------------------------
(***************************************************************************)
(* Packets on their way through switches that run int_switch.p4, while     *)
(* the controllers of those switches install their tables and turn the     *)
(* clones they get into reports.  One controller per switch: n in Ctrl     *)
(* names both.                                                             *)
(*                                                                         *)
(* A switch handles a packet in two steps that others may come between:    *)
(* ingress and egress are different threads of the switch, and each looks  *)
(* tables up when it runs.  Packets overtake each other freely.            *)
(***************************************************************************)
EXTENDS IntReport

CONSTANTS
  Flow,         \* flows between applications
  Dest,         \* [Flow -> As], the destination AS
  Route,        \* [Flow -> Seq(Ctrl)], the switches on the way
  Provisioned,  \* TRUE: traffic starts when all switches are initialized
  MaxPackets,   \* bound on the packets sent
  MaxTakeovers  \* bound on the elections of a new controller

ASSUME FlowAssumption ==
  /\ WithInt
  /\ Dest \in [Flow -> As]
  /\ Route \in [Flow -> Seq(Ctrl)]
  /\ Provisioned \in BOOLEAN
  /\ MaxPackets \in Nat
  /\ MaxTakeovers \in Nat

VARIABLES
  takeovers,  \* elections of new controllers so far
  stage,      \* initialization steps each controller has done
  alive,      \* the process of each controller runs
  sent,       \* packets sent so far
  wire,       \* packets between switches, and between hosts and switches
  inside,     \* packets between the ingress and the egress of a switch
  packetIn,   \* PacketIn messages each controller has not read
  delivered,  \* packets handed to the receiving host
  reports     \* reports produced

vars == <<takeovers, stage, alive, sent, wire, inside, packetIn, delivered, reports>>

\* The tables of n as its controller has filled them so far.
Tables(n) == PipelineAfter(n)[stage[n]]

Init ==
  /\ takeovers = 0
  /\ stage = [n \in Ctrl |-> IF Provisioned THEN LastStep(n) ELSE 0]
  /\ alive = [n \in Ctrl |-> TRUE]
  /\ sent = 0
  /\ wire = {}
  /\ inside = {}
  /\ packetIn = [n \in Ctrl |-> <<>>]
  /\ delivered = {}
  /\ reports = {}

-----------------------------------------------------------------------------
(***************************************************************************)
(* A packet carries with it, for the properties only: its number, its      *)
(* flow, the position on the route of the switch it is at or goes to, and  *)
(* the nodes that inserted INT data so far.                                *)
(***************************************************************************)
Node(w) == Route[w.flow][w.at]
AtHost(w) == w.at > Len(Route[w.flow])

\* One RPC of the initialization.
InitStep(n) ==
  /\ alive[n] /\ stage[n] < LastStep(n)
  /\ stage' = [stage EXCEPT ![n] = @ + 1]
  /\ UNCHANGED <<takeovers, alive, sent, wire, inside, packetIn, delivered, reports>>

\* Another controller process is elected, be it because the old one died, and sets
\* the pipeline anew.  It does not get what was sent to the old one; that, if it
\* lives, goes on reading its stream and handles k more messages before it ends.
\* What it makes of them depends on nothing else, so they just stay in front of
\* the stream, up to one that it does not survive.
Takeover(n) ==
  /\ takeovers < MaxTakeovers
  /\ takeovers' = takeovers + 1
  /\ alive' = [alive EXCEPT ![n] = TRUE]
  /\ stage' = [stage EXCEPT ![n] = ConfigStep]
  /\ \E k \in 0..Len(packetIn[n]) :
       /\ alive[n] \/ k = 0
       /\ \A i \in 1..k : ~DividesByZero(packetIn[n][i].pkt)
       /\ packetIn' = [packetIn EXCEPT ![n] = SubSeq(@, 1, k)]
  /\ UNCHANGED <<sent, wire, inside, delivered, reports>>

Send(f) ==
  /\ sent < MaxPackets
  /\ sent' = sent + 1
  /\ wire' = wire \cup {[id |-> sent, flow |-> f, at |-> 1, trail |-> <<>>,
                         pkt |-> HostPacket(Dest[f])]}
  /\ UNCHANGED <<takeovers, stage, alive, inside, packetIn, delivered, reports>>

\* Before the flood groups exist no frame leaves the switch.  After that one copy of
\* it goes along its route, also while unknown destinations are flooded: the copies
\* that go elsewhere are left out.
Forwards(n) == stage[n] >= FloodStep

IngressStep(w) ==
  /\ ~AtHost(w)
  /\ wire' = wire \ {w}
  /\ inside' = IF ~Forwards(Node(w)) THEN inside
               ELSE inside \cup
                 {[id |-> w.id, flow |-> w.flow, at |-> w.at, trail |-> w.trail, p |-> p] :
                    p \in Ingress(w.pkt, Tables(Node(w)))}
  /\ UNCHANGED <<takeovers, stage, alive, sent, packetIn, delivered, reports>>

\* Egress of a packet: on to the next switch, or to the host.
EgressPacketStep(s) ==
  /\ ~s.p.clone
  /\ inside' = inside \ {s}
  /\ wire' = wire \cup
       {[id |-> s.id, flow |-> s.flow, at |-> s.at + 1,
         trail |-> IF s.p.intState = 1 THEN Append(s.trail, Node(s)) ELSE s.trail,
         pkt |-> EgressPacket(s.p, Node(s), Tables(Node(s)))]}
  /\ UNCHANGED <<takeovers, stage, alive, sent, packetIn, delivered, reports>>

\* Egress of a clone: to the primary controller, when there is one.
EgressClone(s) ==
  /\ s.p.clone
  /\ inside' = inside \ {s}
  /\ packetIn' = IF CloneReachesCpu(s.p) /\ alive[Node(s)]
                 THEN [packetIn EXCEPT ![Node(s)] =
                         Append(@, [id |-> s.id, trail |-> s.trail, pkt |-> KeepIntCpu(s.p)])]
                 ELSE packetIn
  /\ UNCHANGED <<takeovers, stage, alive, sent, wire, delivered, reports>>

Deliver(w) ==
  /\ AtHost(w)
  /\ wire' = wire \ {w}
  /\ delivered' = delivered \cup {w}
  /\ UNCHANGED <<takeovers, stage, alive, sent, inside, packetIn, reports>>

\* The event loop gets to a PacketIn once the initialization is through.
Handles(n) ==
  /\ alive[n] /\ stage[n] = LastStep(n) /\ packetIn[n] # <<>>
  /\ packetIn' = [packetIn EXCEPT ![n] = Tail(@)]
  /\ UNCHANGED <<takeovers, stage, sent, wire, inside, delivered>>

HandlePacketIn(n) ==
  LET msg == Head(packetIn[n]) IN
  /\ Handles(n) /\ ~DividesByZero(msg.pkt)
  /\ reports' = IF InvalidLength(msg.pkt) THEN reports
                ELSE reports \cup {[id |-> msg.id, by |-> n, trail |-> msg.trail,
                                    bits |-> msg.pkt.int.bits, hops |-> Hops(msg.pkt)]}
  /\ UNCHANGED alive

\* SIGFPE.
ControllerDies(n) ==
  /\ Handles(n) /\ DividesByZero(Head(packetIn[n]).pkt)
  /\ alive' = [alive EXCEPT ![n] = FALSE]
  /\ UNCHANGED reports

Next ==
  \/ \E n \in Ctrl : InitStep(n) \/ Takeover(n) \/ HandlePacketIn(n) \/ ControllerDies(n)
  \/ \E f \in Flow : Send(f)
  \/ \E w \in wire : IngressStep(w) \/ Deliver(w)
  \/ \E s \in inside : EgressPacketStep(s) \/ EgressClone(s)

Spec == Init /\ [][Next]_vars

\* Switches and links move packets on, controllers keep working.
Fairness ==
  /\ \A n \in Ctrl : WF_vars(InitStep(n)) /\ WF_vars(HandlePacketIn(n))
  /\ WF_vars(\E w \in wire : IngressStep(w) \/ Deliver(w))
  /\ WF_vars(\E s \in inside : EgressPacketStep(s) \/ EgressClone(s))

LiveSpec == Spec /\ Fairness

-----------------------------------------------------------------------------
(***************************************************************************)
(* Deployments.  The i-th switch of f's route is a source for f when its   *)
(* controller's table lists the destination AS, and a sink when it is in   *)
(* that AS.  Nothing in the code keeps two switches of a route from being  *)
(* sources, nor makes one of the destination AS run int_switch.p4.         *)
(***************************************************************************)
IsSource(f, i) ==
  \E j \in 1 .. Len(IntTable[Route[f][i]]) :
    IntTable[Route[f][i]][j].as = Dest[f] /\ Dest[f] # HostAs[Route[f][i]]

IsSink(f, i) == HostAs[Route[f][i]] = Dest[f]

OneSource ==
  \A f \in Flow : \A i, j \in 1 .. Len(Route[f]) :
    IsSource(f, i) /\ IsSource(f, j) => i = j

SinkFollows ==
  \A f \in Flow : \A i \in 1 .. Len(Route[f]) :
    IsSource(f, i) => \E j \in i + 1 .. Len(Route[f]) : IsSink(f, j)

\* The fields that some table of the egress fills in.
Recordable == {"ig_time", "eg_time", "node_id", "eg_util", "as_addr"}

AsksRecordable ==
  \A n \in Ctrl : \A j \in 1 .. Len(IntTable[n]) : IntTable[n][j].bits \subseteq Recordable

\* Every switch is initialized for good before the first packet.
Steady == Provisioned /\ MaxTakeovers = 0

-----------------------------------------------------------------------------
IsPacket(pkt) ==
  /\ DOMAIN pkt = {"dst", "port", "int", "body", "extra"}
  /\ pkt.port \in {AppPort, UdpPort}
  /\ pkt.int = None \/ pkt.int \in IntHeader
  /\ pkt.int # None => pkt.int.length <= 3 + Len(pkt.body)

\* Every packet is well formed, its parser never runs out of data, and each is in one
\* place at a time (a clone aside).
TypeOK ==
  /\ \A n \in Ctrl : stage[n] \in 0 .. LastStep(n)
  /\ alive \in [Ctrl -> BOOLEAN]
  /\ sent \in 0 .. MaxPackets
  /\ takeovers \in 0 .. MaxTakeovers
  /\ \A w \in wire \cup delivered : IsPacket(w.pkt)
  /\ \A s \in inside : IsPacket(s.p.hdr)
  /\ \A w, v \in wire \cup delivered \cup {s \in inside : ~s.p.clone} :
        w.id = v.id => w = v

\* int_refresh_length and delete_int keep the UDP, SCION and IP length fields equal to
\* what the packet carries, at every switch on the way and in every phase of the
\* initialization of each.
LengthsConsistent == \A w \in wire \cup delivered : w.pkt.extra = ActualExtra(w.pkt)

\* Telemetry is invisible to the applications: the receiver gets the packet the
\* sender sent.
Transparent == \A w \in delivered : w.pkt = HostPacket(Dest[w.flow])

\* What a host gets while switches start up may still have its INT header on, but
\* with that taken off it is the packet the sender sent: no switch removes more or
\* less than was inserted.
Intact ==
  \A w \in delivered :
    (IF w.pkt.int = None THEN w.pkt ELSE DeleteInt(Parse(w.pkt))) = HostPacket(Dest[w.flow])

\* A report has the data of the nodes that recorded some, each field as recorded.
ReportsFaithful ==
  \A r \in reports :
    /\ Len(r.hops) = Len(r.trail)
    /\ \A i \in 1 .. Len(r.hops) :
         r.hops[i] = [f \in r.bits |-> FieldWords(r.trail[i], f)]

\* However many switches of the destination AS a packet passes, it is reported once,
\* and with one hop for each node that inserted data.
ReportedOnce ==
  /\ \A r, q \in reports : r.id = q.id => r = q
  /\ \A r \in reports : Len(r.hops) = Len(r.trail) /\ r.trail # <<>>

\* Every packet sent is delivered, and reported by some switch.
AllReported ==
  \A i \in 0 .. MaxPackets - 1 :
    sent > i ~> /\ \E w \in delivered : w.id = i
                /\ \E r \in reports : r.id = i
=============================================================================
