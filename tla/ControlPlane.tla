---------------------------- MODULE ControlPlane ----------------------------
(***************************************************************************)
(* The controllers of one switch: every process is a ControlPlane that     *)
(* holds the stack <<DefaultController, MacLearningCtrl, IntController>>   *)
(* (the INT one only WithInt), reads its P4Runtime stream one message at a *)
(* time and answers with blocking RPCs.  Several may be attached at once;  *)
(* the switch makes the one with the highest election ID primary.          *)
(*                                                                         *)
(*   control_plane/control_plane.cpp           event loop, pipeline set    *)
(*   control_plane/connection.cpp              stream and RPCs             *)
(*   control_plane/controllers/mac_learn.cpp   MAC learning                *)
(*   control_plane/controllers/int/int.cpp     INT configuration           *)
(*                                                                         *)
(* The P4Runtime server is a library of the switch: it is modelled from    *)
(* what the source relies on and marked external.                          *)
(***************************************************************************)
EXTENDS Initialization

CONSTANTS
  ElectionId,    \* [Ctrl -> Nat], <election id> on the command line
  Mobile,        \* hosts that may move to another port
  FallibleRpcs,  \* subset of {"init", "learn"}: unary RPCs that may fail
  StreamBound,   \* digests are sent only to a stream shorter than this
  MaxFaults      \* bound on crashes, breaks, restarts, RPC failures and moves

ASSUME ElectionAssumption ==
  /\ ElectionId \in [Ctrl -> Nat]
  /\ \A c, d \in Ctrl : ElectionId[c] = ElectionId[d] => c = d
ASSUME BoundAssumption ==
  /\ Mobile \subseteq Mac
  /\ FallibleRpcs \subseteq {"init", "learn"}
  /\ StreamBound \in Nat
  /\ MaxFaults \in Nat

VARIABLES
  pc,       \* where each controller process is
  step,     \* in "init": the next step of the data plane initialization, else 0
  cur,      \* in "learn" and "ack": the digest being handled, else None
  stream,   \* messages sent to each controller and not yet read
  open,     \* the stream of each controller is up
  members,  \* controllers the switch counts as connected
  primary,  \* the primary controller, or None
  pipe,     \* the switch's pipeline
  pending,  \* digests sent and not acknowledged: not sent again
  loc,      \* the port each host is attached to
  faults    \* faults so far

ctrlVars == <<pc, step, cur>>
connVars == <<stream, open, members, primary>>
dataVars == <<pipe, pending, loc>>
vars == <<pc, step, cur, stream, open, members, primary, pipe, pending, loc, faults>>

Digest == [mac : Mac, port : Port]
ASSUME DigestAssumption == None \notin Digest

Message == [type : {"arbitration"}, primary : BOOLEAN]
             \cup [type : {"digest"}, digest : Digest]

Arbitration(isPrimary) == [type |-> "arbitration", primary |-> isPrimary]
DigestList(d) == [type |-> "digest", digest |-> d]

-----------------------------------------------------------------------------
Init ==
  /\ pc = [c \in Ctrl |-> "down"]
  /\ step = [c \in Ctrl |-> 0]
  /\ cur = [c \in Ctrl |-> None]
  /\ stream = [c \in Ctrl |-> <<>>]
  /\ open = [c \in Ctrl |-> FALSE]
  /\ members = {}
  /\ primary = None
  /\ pipe = EmptyPipeline
  /\ pending = {}
  /\ loc \in [Mac -> Port]
  /\ faults = 0

Fault == faults < MaxFaults /\ faults' = faults + 1

-----------------------------------------------------------------------------
(***************************************************************************)
(* Connections and election.                                               *)
(***************************************************************************)

\* The switch tells every member of ms who is primary; a message to a process
\* that is gone is lost.
Notify(ms, p) ==
  stream' = [d \in Ctrl |-> IF d \in ms /\ pc[d] # "dead"
                            THEN Append(stream[d], Arbitration(d = p))
                            ELSE stream[d]]

\* Higher IDs win.
Elected(ms, p) ==
  IF ms = {} THEN p = None
  ELSE p \in ms /\ \A d \in ms : ElectionId[d] <= ElectionId[p]

\* The process connects, opens the stream and enters run().
StartController(c) ==
  /\ pc[c] = "down"
  /\ pc' = [pc EXCEPT ![c] = "read"]
  /\ open' = [open EXCEPT ![c] = TRUE]
  /\ UNCHANGED <<step, cur, stream, members, primary, dataVars, faults>>

\* The switch handles the first arbitration update of c: all controllers hear of
\* a new primary, else only c gets an answer.
RegisterController(c) ==
  /\ open[c] /\ c \notin members
  /\ members' = members \cup {c}
  /\ Elected(members', primary')
  /\ Notify(IF primary' # primary THEN members' ELSE {c}, primary')
  /\ UNCHANGED <<ctrlVars, open, dataVars, faults>>

\* The switch drops c; when c was primary, the next one is told.
Leave(c) ==
  /\ members' = members \ {c}
  /\ Elected(members', primary')
  /\ IF primary' # primary THEN Notify(members', primary') ELSE UNCHANGED stream

\* The process dies.  The switch does not know yet.
CrashController(c) ==
  /\ pc[c] \notin {"down", "dead"}
  /\ Fault
  /\ pc' = [pc EXCEPT ![c] = IF c \in members THEN "dead" ELSE "down"]
  /\ step' = [step EXCEPT ![c] = 0]
  /\ cur' = [cur EXCEPT ![c] = None]
  /\ stream' = [stream EXCEPT ![c] = <<>>]
  /\ open' = [open EXCEPT ![c] = FALSE]
  /\ UNCHANGED <<members, primary, dataVars>>

\* The switch finds the stream of a dead process closed.
DetectCrash(c) ==
  /\ pc[c] = "dead"
  /\ Leave(c)
  /\ pc' = [pc EXCEPT ![c] = "down"]
  /\ UNCHANGED <<step, cur, open, dataVars, faults>>

\* The stream of a live controller breaks.
BreakStream(c) ==
  /\ c \in members /\ pc[c] # "dead"
  /\ Fault
  /\ Leave(c)
  /\ open' = [open EXCEPT ![c] = FALSE]
  /\ UNCHANGED <<ctrlVars, dataVars>>

\* The switch restarts: no pipeline, no connections.
SwitchRestart ==
  /\ Fault
  /\ pipe' = EmptyPipeline
  /\ pending' = {}
  /\ members' = {}
  /\ primary' = None
  /\ open' = [c \in Ctrl |-> FALSE]
  /\ pc' = [c \in Ctrl |-> IF pc[c] = "dead" THEN "down" ELSE pc[c]]
  /\ UNCHANGED <<step, cur, stream, loc>>

\* readStream returns false once the stream is down, what it held is discarded,
\* run() returns and the process exits.
RunReturns(c) ==
  /\ pc[c] = "read" /\ ~open[c]
  /\ pc' = [pc EXCEPT ![c] = "down"]
  /\ stream' = [stream EXCEPT ![c] = <<>>]
  /\ UNCHANGED <<step, cur, open, members, primary, dataVars, faults>>

-----------------------------------------------------------------------------
(***************************************************************************)
(* The event loop: one message, dispatched to the controller stack.        *)
(***************************************************************************)
Reads(c, type) ==
  /\ pc[c] = "read" /\ stream[c] # <<>> /\ Head(stream[c]).type = type
  /\ stream' = [stream EXCEPT ![c] = Tail(@)]

\* Elected as primary controller: initialize the data plane.
ReadElected(c) ==
  /\ Reads(c, "arbitration") /\ Head(stream[c]).primary
  /\ pc' = [pc EXCEPT ![c] = "init"]
  /\ step' = [step EXCEPT ![c] = ConfigStep]
  /\ UNCHANGED <<cur, open, members, primary, dataVars, faults>>

\* Other controller elected as primary: nothing to do.
ReadDemoted(c) ==
  /\ Reads(c, "arbitration") /\ ~Head(stream[c]).primary
  /\ UNCHANGED <<ctrlVars, open, members, primary, dataVars, faults>>

\* Mutant: the digest ID does not match, handleDigest returns false.
ReadDigestIgnored(c) ==
  /\ Reads(c, "digest")
  /\ UNCHANGED <<ctrlVars, open, members, primary, dataVars, faults>>

ReadDigest(c) ==
  /\ Reads(c, "digest")
  /\ cur' = [cur EXCEPT ![c] = Head(stream[c]).digest]
  /\ pc' = [pc EXCEPT ![c] = "learn"]
  /\ UNCHANGED <<step, open, members, primary, dataVars, faults>>

-----------------------------------------------------------------------------
(***************************************************************************)
(* Data plane initialization, one RPC per step.  The switch executes an    *)
(* RPC of the primary only, a Write only once a pipeline is set.  No       *)
(* handler looks at the result: the next step follows either way.          *)
(***************************************************************************)
AtStep(c, s) == pc[c] = "init" /\ step[c] = s

\* Mutant: one step too many.
NextStepOffByOne(c) ==
  LET last == step[c] > LastStep(c) IN
  /\ step' = [step EXCEPT ![c] = IF last THEN 0 ELSE @ + 1]
  /\ pc' = [pc EXCEPT ![c] = IF last THEN "read" ELSE "init"]

NextStep(c) ==
  LET last == step[c] = LastStep(c) IN
  /\ step' = [step EXCEPT ![c] = IF last THEN 0 ELSE @ + 1]
  /\ pc' = [pc EXCEPT ![c] = IF last THEN "read" ELSE "init"]

\* Mutant: the request does not carry the election ID.
WritableByAnyone(c) == pipe.p4

Writable(c) == primary = c /\ pipe.p4

\* Mutant: the entries of the previous primary survive (RECONCILE_AND_COMMIT).
ReconcilePipelineConfig(c) ==
  /\ AtStep(c, ConfigStep) /\ primary = c
  /\ pipe' = [pipe EXCEPT !.p4 = TRUE]
  /\ pending' = {}
  /\ NextStep(c)
  /\ UNCHANGED <<cur, connVars, loc, faults>>

SetPipelineConfig(c) ==
  /\ AtStep(c, ConfigStep) /\ primary = c
  /\ pipe' = FreshPipeline
  /\ pending' = {}
  /\ NextStep(c)
  /\ UNCHANGED <<cur, connVars, loc, faults>>

\* One INSERT request of the initialization is executed.
InitWrite(c, s) ==
  /\ AtStep(c, s) /\ Writable(c)
  /\ NextStep(c)
  /\ UNCHANGED <<cur, connVars, pending, loc, faults>>

CreateFloodMulticastGroup(c) ==
  InitWrite(c, FloodStep) /\ pipe' = WithFloodGroups(pipe)

InstallStaticTableEntries(c) ==
  InitWrite(c, StaticStep) /\ pipe' = WithBroadcastEntry(pipe)

ConfigDigestMessages(c) ==
  InitWrite(c, DigestStep) /\ pipe' = WithDigestConfig(pipe)

InstallSinkEntry(c) ==
  WithInt /\ InitWrite(c, SinkStep) /\ pipe' = WithSinkEntry(pipe, c)

InstallSourceEntry(c) ==
  WithInt /\ \E i \in 1 .. Len(IntTable[c]) :
    InitWrite(c, SourceStep(i)) /\ pipe' = WithSourceEntry(pipe, c, i)

InstallEgressEntries(c) ==
  WithInt /\ InitWrite(c, EgressStep(c)) /\ pipe' = WithEgressEntries(pipe, c)

ConfigCloneSession(c) ==
  WithInt /\ InitWrite(c, CloneStep(c)) /\ pipe' = WithCloneSession(pipe)

\* The RPC is refused, or fails: logged, and the initialization goes on.
FailInitRpc(c) ==
  /\ pc[c] = "init"
  /\ \/ primary # c /\ UNCHANGED faults
     \/ ~pipe.p4 /\ step[c] # ConfigStep /\ UNCHANGED faults
     \/ "init" \in FallibleRpcs /\ Fault
  /\ NextStep(c)
  /\ UNCHANGED <<cur, connVars, dataVars>>

-----------------------------------------------------------------------------
(***************************************************************************)
(* MAC learning.                                                           *)
(***************************************************************************)

\* The data plane sees a frame from host m whose address it has not learned and
\* sends a digest to the primary, unless the same digest awaits its ack.
Frame(m) ==
  LET d == [mac |-> m, port |-> loc[m]] IN
  /\ Unlearned(pipe, m) /\ primary # None /\ d \notin pending
  /\ Len(stream[primary]) < StreamBound
  /\ pending' = pending \cup {d}
  /\ stream' = IF pc[primary] = "dead" THEN stream
               ELSE [stream EXCEPT ![primary] = Append(@, DigestList(d))]
  /\ UNCHANGED <<ctrlVars, open, members, primary, pipe, loc, faults>>

\* handleDigest: learn_table and forward_table entries in one Write ...
LearnWrite(c) ==
  /\ pc[c] = "learn" /\ Writable(c)
  /\ pipe' = [pipe EXCEPT !.learn = InsertLearn(@, cur[c].mac),
                          !.forward = InsertForward(@, cur[c].mac, cur[c].port)]
  /\ pc' = [pc EXCEPT ![c] = "ack"]
  /\ UNCHANGED <<step, cur, connVars, pending, loc, faults>>

\* ... whose failure goes unnoticed ...
FailLearnWrite(c) ==
  /\ pc[c] = "learn"
  /\ \/ ~Writable(c) /\ UNCHANGED faults
     \/ "learn" \in FallibleRpcs /\ Fault
  /\ pc' = [pc EXCEPT ![c] = "ack"]
  /\ UNCHANGED <<step, cur, connVars, dataVars>>

\* ... and the digest is acknowledged in any case.
AckDigestList(c) ==
  /\ pc[c] = "ack"
  /\ pc' = [pc EXCEPT ![c] = "read"]
  /\ cur' = [cur EXCEPT ![c] = None]
  /\ pending' = IF primary = c THEN pending \ {cur[c]} ELSE pending
  /\ UNCHANGED <<step, connVars, pipe, loc, faults>>

\* ack_timeout_ns passes: the digest may be sent again.
ExpireDigest(d) ==
  /\ d \in pending
  /\ pending' = pending \ {d}
  /\ UNCHANGED <<ctrlVars, connVars, pipe, loc, faults>>

\* A host is plugged into another port.
Move(m) ==
  /\ m \in Mobile
  /\ Fault
  /\ \E p \in Port \ {loc[m]} : loc' = [loc EXCEPT ![m] = p]
  /\ UNCHANGED <<ctrlVars, connVars, pipe, pending>>

-----------------------------------------------------------------------------
Initialize(c) ==
  \/ SetPipelineConfig(c)
  \/ CreateFloodMulticastGroup(c)
  \/ InstallStaticTableEntries(c)
  \/ ConfigDigestMessages(c)
  \/ InstallSinkEntry(c)
  \/ InstallSourceEntry(c)
  \/ InstallEgressEntries(c)
  \/ ConfigCloneSession(c)
  \/ FailInitRpc(c)

\* What the process does by itself.
Controller(c) ==
  \/ RunReturns(c)
  \/ ReadElected(c)
  \/ ReadDemoted(c)
  \/ ReadDigest(c)
  \/ Initialize(c)
  \/ LearnWrite(c)
  \/ FailLearnWrite(c)
  \/ AckDigestList(c)

\* What the switch does about the connection of c.
Server(c) == RegisterController(c) \/ DetectCrash(c)

Next ==
  \/ \E c \in Ctrl : \/ StartController(c)
                     \/ CrashController(c)
                     \/ BreakStream(c)
                     \/ Server(c)
                     \/ Controller(c)
  \/ SwitchRestart
  \/ \E m \in Mac : Frame(m) \/ Move(m)
  \/ \E d \in Digest : ExpireDigest(d)

Spec == Init /\ [][Next]_vars

\* A live process keeps running, the switch answers and notices closed streams,
\* ack timeouts run out, and every host keeps sending.  Nothing makes anyone
\* start a controller.
Fairness ==
  /\ \A c \in Ctrl : WF_vars(Controller(c)) /\ WF_vars(Server(c))
  /\ \A m \in Mac : WF_vars(Frame(m))
  /\ \A d \in Digest : WF_vars(ExpireDigest(d))

LiveSpec == Spec /\ Fairness

-----------------------------------------------------------------------------
CtrlTypeOK ==
  /\ pc \in [Ctrl -> {"down", "read", "init", "learn", "ack", "dead"}]
  /\ step \in [Ctrl -> Nat]
  /\ cur \in [Ctrl -> Digest \cup {None}]
  /\ \A c \in Ctrl : /\ pc[c] = "init" => step[c] \in 1 .. LastStep(c)
                     /\ pc[c] # "init" => step[c] = 0
                     /\ pc[c] \in {"learn", "ack"} <=> cur[c] # None

ConnTypeOK ==
  /\ stream \in [Ctrl -> Seq(Message)]
  /\ open \in [Ctrl -> BOOLEAN]
  /\ members \subseteq Ctrl
  /\ primary \in Ctrl \cup {None}

DataTypeOK ==
  /\ pipe \in Pipeline
  /\ pending \subseteq Digest
  /\ loc \in [Mac -> Port]
  /\ faults \in 0 .. MaxFaults

\* Every variable keeps its shape; a process that initializes the data plane is at one
\* of its steps, one that learns has a digest, and no other has either.
TypeOK == CtrlTypeOK /\ ConnTypeOK /\ DataTypeOK

(***************************************************************************)
(* What a complete initialization by c leaves in the pipeline.  For an AS  *)
(* that the table lists twice, the first line counts.                      *)
(***************************************************************************)
SourceEntry(c, i) ==
  LET line == IntTable[c][i] IN
  /\ line.as # HostAs[c]
  /\ \A k \in 1 .. i - 1 : IntTable[c][k].as # line.as

InForce(c) ==
  /\ pipe.p4
  /\ pipe.mcast = FloodMcastGroups
  /\ Broadcast \in pipe.learn
  /\ pipe.digestOn
  /\ WithInt =>
       /\ pipe.scionInt[HostAs[c]] = CloneInt
       /\ \A i \in 1 .. Len(IntTable[c]) : SourceEntry(c, i) =>
            pipe.scionInt[IntTable[c][i].as] = InsertInt(IntTable[c][i].bits)
       /\ pipe.node = c
       /\ pipe.clone

\* c has been told of its election and is through with the initialization.
ElectionPending(c) ==
  \E i \in 1 .. Len(stream[c]) : stream[c][i] = Arbitration(TRUE)

Settled(c) ==
  primary = c /\ pc[c] \notin {"init", "dead"} /\ ~ElectionPending(c)

\* control_plane.h: the arbitration callbacks initialize the data plane when this
\* controller is elected primary.  Once a primary has handled its election, the
\* switch runs that controller's whole configuration and nothing of another's,
\* whatever elections, crashes and restarts came between and whatever the RPCs of
\* demoted controllers still in flight do.  (RPCs to a reachable switch succeed.)
PrimaryConfigInForce == \A c \in Ctrl : Settled(c) => InForce(c)

\* mac_learn.cpp handleDigest inserts into both tables in one request that goes on
\* after an error, so each insert can fail alone: yet no source address is ever
\* silenced in learn_table without an entry in forward_table.
LearnedIsForwarded == pipe.learn \ {Broadcast} \subseteq Forwarded(pipe.forward)

\* A frame for an attached host, from any other port, reaches that host, and a
\* flooded one never goes back where it came from -- once the flood groups exist
\* and while hosts stay put.
Reachable ==
  pipe.p4 /\ pipe.mcast # EmptyPipeline.mcast =>
    \A m \in Mac : \A in \in Port \ {loc[m]} :
       loc[m] \in OutPorts(pipe, m, in) /\ in \notin OutPorts(pipe, m, in)

\* "without aging or support for moving a MAC" (mac_learn.h): an address is bound
\* to another port, or forgotten, only by the reset of the whole pipeline.
ForwardStable ==
  [][\A m \in Mac : pipe.forward[m] # None /\ pipe'.forward[m] # pipe.forward[m]
        => pipe' \in {EmptyPipeline, FreshPipeline}]_vars

\* Elections, crashes and restarts come to an end; then the switch ends up with
\* the whole configuration of its primary and keeps it.
Converges == <>[](primary # None => InForce(primary))

\* As long as there is a primary, every host that keeps sending is learned.
Learns == \A m \in Mac : <>[](primary # None) => <>[](m \in pipe.learn)
=============================================================================
