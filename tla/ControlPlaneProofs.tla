------------------------- MODULE ControlPlaneProofs -------------------------
(***************************************************************************)
(* Theorems about ControlPlane, for any number of controllers, hosts,      *)
(* ports and table lines, any table sizes and any bound on faults: its     *)
(* type, what a packet may do to the pipeline, the configuration in force  *)
(* (for any election IDs, when the RPCs of the initialization reach the    *)
(* switch), and that it implements PrimaryConfig.                          *)
(***************************************************************************)
EXTENDS ElectedControl, InitializationProofs

-----------------------------------------------------------------------------
(* Type correctness. *)

LEMMA LastStepType == \A c \in Ctrl : LastStep(c) \in Nat /\ LastStep(c) >= 4
<1>1. \A c \in Ctrl : Len(IntTable[c]) \in Nat
  BY ConfigAssumption
<1> QED
  BY <1>1 DEF LastStep, CloneStep, DigestStep

LEMMA MessageTypes ==
  /\ \A b \in BOOLEAN : Arbitration(b) \in Message
  /\ \A d \in Digest : DigestList(d) \in Message
  BY DEF Arbitration, DigestList, Message

LEMMA NotifyType ==
  ASSUME ConnTypeOK, NEW ms, NEW p, Notify(ms, p)
  PROVE  stream' \in [Ctrl -> Seq(Message)]
<1>1. ASSUME NEW d \in Ctrl
      PROVE  Append(stream[d], Arbitration(d = p)) \in Seq(Message)
  <2>1. stream[d] \in Seq(Message)
    BY DEF ConnTypeOK
  <2>2. Arbitration(d = p) \in Message
    BY MessageTypes
  <2> QED
    BY <2>1, <2>2
<1> QED
  BY <1>1 DEF Notify, ConnTypeOK

LEMMA ElectedType ==
  ASSUME NEW ms \in SUBSET Ctrl, NEW p, Elected(ms, p)
  PROVE  p \in Ctrl \cup {None}
  BY DEF Elected

LEMMA LeaveType ==
  ASSUME ConnTypeOK, NEW c \in Ctrl, Leave(c)
  PROVE  /\ stream' \in [Ctrl -> Seq(Message)]
         /\ members' \subseteq Ctrl
         /\ primary' \in Ctrl \cup {None}
<1>1. members' \in SUBSET Ctrl
  BY DEF Leave, ConnTypeOK
<1>2. primary' \in Ctrl \cup {None}
  BY <1>1, ElectedType DEF Leave
<1>3. stream' \in [Ctrl -> Seq(Message)]
  BY NotifyType DEF Leave, ConnTypeOK
<1> QED
  BY <1>1, <1>2, <1>3

LEMMA FaultType ==
  ASSUME DataTypeOK, Fault
  PROVE  faults' \in 0 .. MaxFaults
  BY BoundAssumption DEF DataTypeOK, Fault

LEMMA ReadsType ==
  ASSUME ConnTypeOK, NEW c \in Ctrl, NEW type, Reads(c, type)
  PROVE  /\ Head(stream[c]) \in Message
         /\ stream' \in [Ctrl -> Seq(Message)]
<1>1. stream[c] \in Seq(Message) /\ stream[c] # <<>>
  BY DEF ConnTypeOK, Reads
<1>2. Head(stream[c]) \in Message /\ Tail(stream[c]) \in Seq(Message)
  BY <1>1
<1> QED
  BY <1>2 DEF ConnTypeOK, Reads

LEMMA NextStepType ==
  ASSUME CtrlTypeOK, NEW c \in Ctrl, pc[c] = "init", NextStep(c), UNCHANGED cur
  PROVE  CtrlTypeOK'
<1>1. step[c] \in 1 .. LastStep(c) /\ LastStep(c) \in Nat
  BY LastStepType DEF CtrlTypeOK
<1>2. step' \in [Ctrl -> Nat]
  BY <1>1 DEF CtrlTypeOK, NextStep
<1>3. pc' \in [Ctrl -> {"down", "read", "init", "learn", "ack", "dead"}]
  BY DEF CtrlTypeOK, NextStep
<1>4. ASSUME NEW d \in Ctrl
      PROVE  /\ pc'[d] = "init" => step'[d] \in 1 .. LastStep(d)
             /\ pc'[d] # "init" => step'[d] = 0
             /\ pc'[d] \in {"learn", "ack"} <=> cur'[d] # None
  <2>1. CASE d # c
    BY <2>1 DEF CtrlTypeOK, NextStep
  <2>2. CASE d = c
    BY <1>1, <2>2 DEF CtrlTypeOK, NextStep
  <2> QED
    BY <2>1, <2>2
<1> QED
  BY <1>2, <1>3, <1>4 DEF CtrlTypeOK

LEMMA InitType == Init => TypeOK
<1> SUFFICES ASSUME Init PROVE TypeOK
  OBVIOUS
<1>1. CtrlTypeOK
  BY DEF Init, CtrlTypeOK
<1>2. ConnTypeOK
  BY DEF Init, ConnTypeOK
<1>3. DataTypeOK
  BY StartPipelines, BoundAssumption DEF Init, DataTypeOK
<1> QED
  BY <1>1, <1>2, <1>3 DEF TypeOK

\* What every action does to the types, one step per action.
LEMMA NextType ==
  ASSUME TypeOK, [Next]_vars
  PROVE  TypeOK'
<1> USE DEF TypeOK
<1>1. ASSUME NEW c \in Ctrl, StartController(c)
      PROVE  TypeOK'
  BY <1>1 DEF StartController, CtrlTypeOK, ConnTypeOK, DataTypeOK, dataVars
<1>2. ASSUME NEW c \in Ctrl, RegisterController(c)
      PROVE  TypeOK'
  <2>1. CtrlTypeOK' /\ DataTypeOK'
    BY <1>2 DEF RegisterController, CtrlTypeOK, DataTypeOK, ctrlVars, dataVars
  <2>2. members' \in SUBSET Ctrl /\ open' \in [Ctrl -> BOOLEAN]
    BY <1>2 DEF RegisterController, ConnTypeOK
  <2>3. primary' \in Ctrl \cup {None}
    BY <1>2, <2>2, ElectedType DEF RegisterController
  <2>4. stream' \in [Ctrl -> Seq(Message)]
    BY <1>2, NotifyType DEF RegisterController
  <2> QED
    BY <2>1, <2>2, <2>3, <2>4 DEF ConnTypeOK
<1>3. ASSUME NEW c \in Ctrl, CrashController(c)
      PROVE  TypeOK'
  <2>1. DataTypeOK'
    BY <1>3, FaultType DEF CrashController, DataTypeOK, dataVars
  <2>2. ConnTypeOK'
    BY <1>3 DEF CrashController, ConnTypeOK
  <2>3. CtrlTypeOK'
    BY <1>3 DEF CrashController, CtrlTypeOK
  <2> QED
    BY <2>1, <2>2, <2>3
<1>4. ASSUME NEW c \in Ctrl, DetectCrash(c)
      PROVE  TypeOK'
  <2>1. CtrlTypeOK' /\ DataTypeOK'
    BY <1>4 DEF DetectCrash, CtrlTypeOK, DataTypeOK, dataVars
  <2>2. ConnTypeOK'
    BY <1>4, LeaveType DEF DetectCrash, ConnTypeOK
  <2> QED
    BY <2>1, <2>2
<1>5. ASSUME NEW c \in Ctrl, BreakStream(c)
      PROVE  TypeOK'
  <2>1. CtrlTypeOK' /\ DataTypeOK'
    BY <1>5, FaultType DEF BreakStream, CtrlTypeOK, DataTypeOK, ctrlVars, dataVars
  <2>2. ConnTypeOK'
    BY <1>5, LeaveType DEF BreakStream, ConnTypeOK
  <2> QED
    BY <2>1, <2>2
<1>6. CASE SwitchRestart
  <2>1. DataTypeOK'
    BY <1>6, FaultType, StartPipelines DEF SwitchRestart, DataTypeOK
  <2>2. ConnTypeOK' /\ CtrlTypeOK'
    BY <1>6 DEF SwitchRestart, ConnTypeOK, CtrlTypeOK
  <2> QED
    BY <2>1, <2>2
<1>7. ASSUME NEW c \in Ctrl, RunReturns(c)
      PROVE  TypeOK'
  BY <1>7 DEF RunReturns, CtrlTypeOK, ConnTypeOK, DataTypeOK, dataVars
<1>8. ASSUME NEW c \in Ctrl, ReadElected(c) \/ ReadDemoted(c) \/ ReadDigest(c)
      PROVE  TypeOK'
  <2>1. /\ Head(stream[c]) \in Message
        /\ stream' \in [Ctrl -> Seq(Message)]
    BY <1>8, ReadsType DEF ReadElected, ReadDemoted, ReadDigest
  <2>2. ConnTypeOK' /\ DataTypeOK'
    BY <1>8, <2>1
       DEF ReadElected, ReadDemoted, ReadDigest, ConnTypeOK, DataTypeOK, dataVars
  <2>3. CASE ReadElected(c)
    <3>1. ConfigStep \in 1 .. LastStep(c)
      BY LastStepType DEF ConfigStep
    <3> QED
      BY <2>2, <2>3, <3>1 DEF ReadElected, Reads, CtrlTypeOK, ConfigStep
  <2>4. CASE ReadDemoted(c)
    BY <2>2, <2>4 DEF ReadDemoted, CtrlTypeOK, ctrlVars
  <2>5. CASE ReadDigest(c)
    <3>1. Head(stream[c]).digest \in Digest
      BY <2>1, <2>5 DEF ReadDigest, Reads, Message
    <3> QED
      BY <2>2, <2>5, <3>1, DigestAssumption DEF ReadDigest, Reads, CtrlTypeOK
  <2> QED
    BY <1>8, <2>3, <2>4, <2>5
<1>9. ASSUME NEW c \in Ctrl, Initialize(c)
      PROVE  TypeOK'
  <2>1. pipe' \in Pipeline
    BY <1>9, StartPipelines, InitStepTypes
       DEF Initialize, DataTypeOK, dataVars, SetPipelineConfig, CreateFloodMulticastGroup,
           InstallStaticTableEntries, ConfigDigestMessages, InstallSinkEntry,
           InstallSourceEntry, InstallEgressEntries, ConfigCloneSession, FailInitRpc
  <2>2. /\ pc[c] = "init" /\ NextStep(c)
        /\ UNCHANGED <<cur, connVars, loc>>
        /\ pending' \in {pending, {}}
        /\ UNCHANGED faults \/ Fault
    BY <1>9
       DEF Initialize, InitWrite, AtStep, dataVars, SetPipelineConfig,
           CreateFloodMulticastGroup, InstallStaticTableEntries, ConfigDigestMessages,
           InstallSinkEntry, InstallSourceEntry, InstallEgressEntries,
           ConfigCloneSession, FailInitRpc
  <2>3. CtrlTypeOK'
    BY <2>2, NextStepType
  <2>4. ConnTypeOK'
    BY <2>2 DEF ConnTypeOK, connVars
  <2>5. DataTypeOK'
    BY <2>1, <2>2, FaultType DEF DataTypeOK
  <2> QED
    BY <2>3, <2>4, <2>5
<1>10. ASSUME NEW c \in Ctrl, LearnWrite(c)
       PROVE  TypeOK'
  <2>1. cur[c] \in Digest
    BY <1>10 DEF LearnWrite, CtrlTypeOK
  <2>2. pipe' \in Pipeline
    BY <1>10, <2>1, InsertTypes DEF LearnWrite, DataTypeOK, Pipeline, Digest
  <2> QED
    BY <1>10, <2>2 DEF LearnWrite, CtrlTypeOK, ConnTypeOK, DataTypeOK, connVars
<1>11. ASSUME NEW c \in Ctrl, FailLearnWrite(c)
       PROVE  TypeOK'
  BY <1>11, FaultType
     DEF FailLearnWrite, CtrlTypeOK, ConnTypeOK, DataTypeOK, connVars, dataVars
<1>12. ASSUME NEW c \in Ctrl, AckDigestList(c)
       PROVE  TypeOK'
  BY <1>12 DEF AckDigestList, CtrlTypeOK, ConnTypeOK, DataTypeOK, connVars
<1>13. ASSUME NEW m \in Mac, Frame(m)
       PROVE  TypeOK'
  <2>1. [mac |-> m, port |-> loc[m]] \in Digest
    BY DEF DataTypeOK, Digest
  <2>2. CtrlTypeOK' /\ DataTypeOK'
    BY <1>13, <2>1 DEF Frame, CtrlTypeOK, DataTypeOK, ctrlVars
  <2>3. primary \in Ctrl /\ stream[primary] \in Seq(Message)
    BY <1>13 DEF Frame, ConnTypeOK
  <2>4. Append(stream[primary], DigestList([mac |-> m, port |-> loc[m]])) \in Seq(Message)
    BY <2>1, <2>3, MessageTypes
  <2>5. ConnTypeOK'
    BY <1>13, <2>3, <2>4 DEF Frame, ConnTypeOK
  <2> QED
    BY <2>2, <2>5
<1>14. ASSUME NEW m \in Mac, Move(m)
       PROVE  TypeOK'
  BY <1>14, FaultType
     DEF Move, CtrlTypeOK, ConnTypeOK, DataTypeOK, ctrlVars, connVars
<1>15. ASSUME NEW d \in Digest, ExpireDigest(d)
       PROVE  TypeOK'
  BY <1>15 DEF ExpireDigest, CtrlTypeOK, ConnTypeOK, DataTypeOK, ctrlVars, connVars
<1>16. CASE UNCHANGED vars
  BY <1>16
     DEF vars, CtrlTypeOK, ConnTypeOK, DataTypeOK
<1> QED
  BY <1>1, <1>2, <1>3, <1>4, <1>5, <1>6, <1>7, <1>8, <1>9, <1>10, <1>11, <1>12,
     <1>13, <1>14, <1>15, <1>16
     DEF Next, Server, Controller

\* The types hold in every reachable state, however many controllers, elections,
\* crashes and restarts there are.
THEOREM TypeCorrect == Spec => []TypeOK
<1> QED
  BY InitType, NextType, PTL DEF Spec

-----------------------------------------------------------------------------
(***************************************************************************)
(* An address is never silenced in learn_table without a forward_table     *)
(* entry.  The two inserts of handleDigest can fail one by one, so that    *)
(* forward_table may hold more than learn_table -- but only once           *)
(* learn_table is full, and then nothing enters learn_table any more.      *)
(* While it is not, forward_table, no smaller, has room for what           *)
(* learn_table has room for.                                               *)
(***************************************************************************)
LearnInv ==
  /\ IsFiniteSet(pipe.learn)
  /\ LearnedIsForwarded
  /\ \/ Forwarded(pipe.forward) \subseteq pipe.learn
     \/ Cardinality(pipe.learn) >= LearnSize

LEMMA StartLearn ==
  ASSUME pipe = EmptyPipeline \/ pipe = FreshPipeline
  PROVE  LearnInv
<1>1. pipe.learn = {} /\ Forwarded(pipe.forward) = {}
  BY DEF EmptyPipeline, FreshPipeline, Forwarded
<1>2. IsFiniteSet(pipe.learn)
  BY <1>1, FS_EmptySet
<1> QED
  BY <1>1, <1>2 DEF LearnInv, LearnedIsForwarded

\* One Write of handleDigest.
LEMMA LearnWriteKeeps ==
  ASSUME NEW learn, IsFiniteSet(learn),
         NEW forward \in [Mac -> Port \cup {None}],
         learn \ {Broadcast} \subseteq Forwarded(forward),
         Forwarded(forward) \subseteq learn \/ Cardinality(learn) >= LearnSize,
         NEW m \in Mac, NEW port \in Port,
         NEW learn2, learn2 = InsertLearn(learn, m),
         NEW forward2, forward2 = InsertForward(forward, m, port)
  PROVE  /\ IsFiniteSet(learn2)
         /\ learn2 \ {Broadcast} \subseteq Forwarded(forward2)
         /\ Forwarded(forward2) \subseteq learn2 \/ Cardinality(learn2) >= LearnSize
<1>1. port # None
  BY PortAssumption DEF Port
<1>2. Forwarded(forward2) \in {Forwarded(forward), Forwarded(forward) \cup {m}}
  BY <1>1 DEF Forwarded, InsertForward
<1>3. Forwarded(forward) \subseteq Forwarded(forward2)
  BY <1>1 DEF Forwarded, InsertForward
<1>4. CASE Cardinality(learn) >= LearnSize
  <2>1. learn2 = learn
    <3>1. Cardinality(learn) \in Nat
      BY FS_CardinalityType
    <3> QED
      BY <1>4, <3>1, SizeAssumption DEF InsertLearn
  <2> QED
    BY <1>3, <1>4, <2>1
<1>5. CASE ~(Cardinality(learn) >= LearnSize)
  <2>1. Cardinality(learn) \in Nat
    BY FS_CardinalityType
  <2>2. learn2 = learn \cup {m}
    BY <1>5, <2>1, SizeAssumption DEF InsertLearn
  <2>3. IsFiniteSet(learn2)
    BY <2>2, FS_AddElement
  <2>4. /\ IsFiniteSet(Forwarded(forward))
        /\ Cardinality(Forwarded(forward)) <= Cardinality(learn)
    BY <1>5, FS_Subset
  <2>5. Cardinality(Forwarded(forward)) < ForwardSize
    <3>1. Cardinality(Forwarded(forward)) \in Nat
      BY <2>4, FS_CardinalityType
    <3> QED
      BY <1>5, <2>1, <2>4, <3>1, SizeAssumption
  <2>6. m \in Forwarded(forward2)
    BY <1>1, <2>5 DEF Forwarded, InsertForward
  <2> QED
    BY <1>2, <1>3, <1>5, <2>2, <2>3, <2>6
<1> QED
  BY <1>4, <1>5

\* Every step keeps the invariant.
LEMMA LearnNext ==
  ASSUME TypeOK, LearnInv, [Next]_vars
  PROVE  LearnInv'
<1> USE DEF TypeOK
<1>1. pipe \in Pipeline
  BY DEF DataTypeOK
<1>2. CASE pipe'.learn = pipe.learn /\ pipe'.forward = pipe.forward
  BY <1>2 DEF LearnInv, LearnedIsForwarded
<1>3. CASE pipe' = EmptyPipeline \/ pipe' = FreshPipeline
  <2>1. pipe'.learn = {} /\ Forwarded(pipe'.forward) = {}
    BY <1>3 DEF EmptyPipeline, FreshPipeline, Forwarded
  <2>2. IsFiniteSet(pipe'.learn)
    BY <2>1, FS_EmptySet
  <2> QED
    BY <2>1, <2>2 DEF LearnInv, LearnedIsForwarded
<1>4. ASSUME NEW c \in Ctrl, InstallStaticTableEntries(c)
      PROVE  LearnInv'
  <2>1. /\ pipe'.learn = InsertLearn(pipe.learn, Broadcast)
        /\ pipe'.forward = pipe.forward
    BY <1>1, <1>4 DEF InstallStaticTableEntries, WithBroadcastEntry, Pipeline
  <2>2. CASE pipe'.learn = pipe.learn
    BY <2>1, <2>2 DEF LearnInv, LearnedIsForwarded
  <2>3. CASE pipe'.learn # pipe.learn
    <3>1. /\ pipe'.learn = pipe.learn \cup {Broadcast}
          /\ Cardinality(pipe.learn) < LearnSize
      BY <2>1, <2>3 DEF InsertLearn
    <3>2. IsFiniteSet(pipe'.learn)
      BY <3>1, FS_AddElement DEF LearnInv
    <3>3. Cardinality(pipe.learn) \in Nat
      BY FS_CardinalityType DEF LearnInv
    <3>4. Forwarded(pipe.forward) \subseteq pipe.learn
      BY <3>1, <3>3, SizeAssumption DEF LearnInv
    <3> QED
      BY <2>1, <3>1, <3>2, <3>4 DEF LearnInv, LearnedIsForwarded
  <2> QED
    BY <2>2, <2>3
<1>5. ASSUME NEW c \in Ctrl, LearnWrite(c)
      PROVE  LearnInv'
  <2>1. cur[c].mac \in Mac /\ cur[c].port \in Port
    BY <1>5 DEF LearnWrite, CtrlTypeOK, Digest
  <2>2. /\ pipe'.learn = InsertLearn(pipe.learn, cur[c].mac)
        /\ pipe'.forward = InsertForward(pipe.forward, cur[c].mac, cur[c].port)
    BY <1>1, <1>5 DEF LearnWrite, Pipeline
  <2>3. pipe.forward \in [Mac -> Port \cup {None}]
    BY <1>1 DEF Pipeline
  <2> QED
    BY <2>1, <2>2, <2>3, LearnWriteKeeps DEF LearnInv, LearnedIsForwarded
<1>6. ASSUME NEW c \in Ctrl, Initialize(c), ~InstallStaticTableEntries(c)
      PROVE  LearnInv'
  <2>1. CASE SetPipelineConfig(c)
    BY <1>3, <2>1 DEF SetPipelineConfig
  <2>2. CASE ~SetPipelineConfig(c)
    <3>1. pipe'.learn = pipe.learn /\ pipe'.forward = pipe.forward
      BY <1>1, <1>6, <2>2
         DEF Initialize, CreateFloodMulticastGroup, ConfigDigestMessages,
             InstallSinkEntry, InstallSourceEntry, InstallEgressEntries,
             ConfigCloneSession, FailInitRpc, dataVars, WithFloodGroups,
             WithDigestConfig, WithSinkEntry, WithSourceEntry, WithEgressEntries,
             WithCloneSession, Pipeline
    <3> QED
      BY <1>2, <3>1
  <2> QED
    BY <2>1, <2>2
<1>7. CASE SwitchRestart
  BY <1>3, <1>7 DEF SwitchRestart
<1>8. CASE UNCHANGED pipe
  BY <1>2, <1>8
<1> QED
  BY <1>4, <1>5, <1>6, <1>7, <1>8
     DEF Next, Server, Controller, vars, dataVars, StartController, CrashController,
         BreakStream, RegisterController, DetectCrash, RunReturns, ReadElected,
         ReadDemoted, ReadDigest, FailLearnWrite, AckDigestList, Frame, Move, ExpireDigest

\* No source address is ever silenced in learn_table without being forwarded, however
\* digests, failing Writes, elections and restarts interleave and whatever the sizes of
\* the tables, forward_table being no smaller.
THEOREM LearnedIsForwardedHolds == Spec => []LearnedIsForwarded
<1>1. Init => LearnInv
  BY StartLearn DEF Init
<1>2. LearnInv => LearnedIsForwarded
  BY DEF LearnInv
<1> QED
  BY <1>1, <1>2, TypeCorrect, LearnNext, PTL DEF Spec

-----------------------------------------------------------------------------
(* What is said of an address stays. *)

\* The pipeline is reset, an entry is inserted into forward_table, or the table stays.
LEMMA ForwardChanges ==
  ASSUME TypeOK, [Next]_vars
  PROVE  \/ pipe' \in {EmptyPipeline, FreshPipeline}
         \/ pipe'.forward = pipe.forward
         \/ \E m \in Mac, port \in Port : pipe'.forward = InsertForward(pipe.forward, m, port)
<1>1. pipe \in Pipeline
  BY DEF TypeOK, DataTypeOK
<1>2. ASSUME NEW c \in Ctrl, Initialize(c)
      PROVE  pipe' = FreshPipeline \/ pipe'.forward = pipe.forward
  BY <1>1, <1>2
     DEF Initialize, SetPipelineConfig, CreateFloodMulticastGroup, ConfigDigestMessages,
         InstallStaticTableEntries, InstallSinkEntry, InstallSourceEntry,
         InstallEgressEntries, ConfigCloneSession, FailInitRpc, dataVars,
         WithFloodGroups, WithBroadcastEntry, WithDigestConfig, WithSinkEntry,
         WithSourceEntry, WithEgressEntries, WithCloneSession, Pipeline
<1>3. ASSUME NEW c \in Ctrl, LearnWrite(c)
      PROVE  \E m \in Mac, port \in Port : pipe'.forward = InsertForward(pipe.forward, m, port)
  <2>1. cur[c].mac \in Mac /\ cur[c].port \in Port
    BY <1>3 DEF LearnWrite, TypeOK, CtrlTypeOK, Digest
  <2>2. pipe'.forward = InsertForward(pipe.forward, cur[c].mac, cur[c].port)
    BY <1>1, <1>3 DEF LearnWrite, Pipeline
  <2> QED
    BY <2>1, <2>2
<1>4. CASE SwitchRestart
  BY <1>4 DEF SwitchRestart
<1>5. CASE UNCHANGED pipe
  BY <1>5
<1> QED
  BY <1>2, <1>3, <1>4, <1>5
     DEF Next, Server, Controller, vars, dataVars, StartController, CrashController,
         BreakStream, RegisterController, DetectCrash, RunReturns, ReadElected,
         ReadDemoted, ReadDigest, FailLearnWrite, AckDigestList, Frame, Move, ExpireDigest

\* An address is bound to another port, or forgotten, only by the reset of the whole
\* pipeline: in every behaviour, with every host free to move.
THEOREM ForwardStableHolds == Spec => ForwardStable
<1> DEFINE Stable ==
      \A m \in Mac : pipe.forward[m] # None /\ pipe'.forward[m] # pipe.forward[m]
        => pipe' \in {EmptyPipeline, FreshPipeline}
<1>1. TypeOK /\ [Next]_vars => [Stable]_vars
  <2> SUFFICES ASSUME TypeOK, [Next]_vars
               PROVE  Stable
    OBVIOUS
  <2>1. pipe.forward \in [Mac -> Port \cup {None}]
    BY DEF TypeOK, DataTypeOK, Pipeline
  <2> QED
    BY <2>1, ForwardChanges DEF InsertForward
<1> QED
  BY <1>1, TypeCorrect, PTL DEF Spec, ForwardStable

-----------------------------------------------------------------------------
(***************************************************************************)
(* Reachable: frames reach their destination for any number of hosts,      *)
(* ports and controllers, whatever RPCs fail, while hosts stay put.        *)
(* WhereInv: the port of a host is the one its digests name, from the      *)
(* frame that caused them to the entry in forward_table.                   *)
(***************************************************************************)
AtPort(d) == d.port = loc[d.mac]
AllAtPort(s) == \A i \in 1 .. Len(s) : s[i].type = "digest" => AtPort(s[i].digest)

WhereInv ==
  /\ \A m \in Mac : pipe.forward[m] \in {None, loc[m]}
  /\ \A c \in Ctrl : cur[c] # None => AtPort(cur[c])
  /\ \A c \in Ctrl : AllAtPort(stream[c])

FloodInv == pipe.mcast = EmptyPipeline.mcast \/ pipe.mcast = FloodMcastGroups

-----------------------------------------------------------------------------
(* The streams. *)

LEMMA AtPortAppend ==
  ASSUME NEW s \in Seq(Message), NEW m \in Message, AllAtPort(s),
         m.type = "digest" => AtPort(m.digest)
  PROVE  AllAtPort(Append(s, m))
<1>1. /\ Len(Append(s, m)) = Len(s) + 1 /\ Len(s) \in Nat
      /\ Append(s, m)[Len(s) + 1] = m
      /\ \A i \in 1 .. Len(s) : Append(s, m)[i] = s[i]
  OBVIOUS
<1> DEFINE a == Append(s, m)
<1> HIDE DEF a
<1>2. \A i \in 1 .. Len(s) + 1 : a[i].type = "digest" => AtPort(a[i].digest)
  BY <1>1 DEF AllAtPort, a
<1> QED
  BY <1>1, <1>2 DEF AllAtPort, a

LEMMA AtPortTail ==
  ASSUME NEW s \in Seq(Message), s # <<>>, AllAtPort(s)
  PROVE  /\ AllAtPort(Tail(s))
         /\ Head(s).type = "digest" => AtPort(Head(s).digest)
<1>1. /\ Len(s) \in Nat /\ Len(s) >= 1
      /\ Head(s) = s[1]
      /\ Len(Tail(s)) = Len(s) - 1
      /\ \A i \in 1 .. Len(s) - 1 : Tail(s)[i] = s[i + 1]
  OBVIOUS
<1> DEFINE t == Tail(s)
           h == Head(s)
<1> HIDE DEF t, h
<1>2. \A i \in 1 .. Len(t) : t[i].type = "digest" => AtPort(t[i].digest)
  <2> SUFFICES ASSUME NEW i \in 1 .. Len(t)
               PROVE  t[i].type = "digest" => AtPort(t[i].digest)
    OBVIOUS
  <2>1. i + 1 \in 1 .. Len(s) /\ t[i] = s[i + 1]
    BY <1>1 DEF t
  <2> QED
    BY <2>1 DEF AllAtPort
<1>3. h.type = "digest" => AtPort(h.digest)
  BY <1>1 DEF AllAtPort, h
<1> QED
  BY <1>2, <1>3 DEF AllAtPort, t, h

LEMMA AtPortNotify ==
  ASSUME ConnTypeOK, NEW ms, NEW p, Notify(ms, p), \A c \in Ctrl : AllAtPort(stream[c])
  PROVE  \A c \in Ctrl : AllAtPort(stream'[c])
<1> SUFFICES ASSUME NEW c \in Ctrl
             PROVE  AllAtPort(stream'[c])
  OBVIOUS
<1>1. stream[c] \in Seq(Message)
  BY DEF ConnTypeOK
<1>2. Arbitration(c = p) \in Message /\ Arbitration(c = p).type = "arbitration"
  BY MessageTypes DEF Arbitration
<1>3. stream'[c] = stream[c] \/ stream'[c] = Append(stream[c], Arbitration(c = p))
  BY DEF Notify
<1>4. AllAtPort(Append(stream[c], Arbitration(c = p)))
  BY <1>1, <1>2, AtPortAppend
<1> QED
  BY <1>3, <1>4

-----------------------------------------------------------------------------
(* Steps. *)

\* forward_table is reset, learned into, or stays.
LEMMA ForwardSteps ==
  ASSUME TypeOK, [Next]_vars
  PROVE  \/ pipe' \in {EmptyPipeline, FreshPipeline}
         \/ pipe'.forward = pipe.forward
         \/ \E c \in Ctrl : LearnWrite(c)
<1>1. pipe \in Pipeline
  BY DEF TypeOK, DataTypeOK
<1>2. ASSUME NEW c \in Ctrl, Initialize(c)
      PROVE  pipe' = FreshPipeline \/ pipe'.forward = pipe.forward
  BY <1>1, <1>2
     DEF Initialize, SetPipelineConfig, CreateFloodMulticastGroup, ConfigDigestMessages,
         InstallStaticTableEntries, InstallSinkEntry, InstallSourceEntry,
         InstallEgressEntries, ConfigCloneSession, FailInitRpc, dataVars,
         WithFloodGroups, WithBroadcastEntry, WithDigestConfig, WithSinkEntry,
         WithSourceEntry, WithEgressEntries, WithCloneSession, Pipeline
<1>3. CASE SwitchRestart
  BY <1>3 DEF SwitchRestart
<1>4. CASE UNCHANGED pipe
  BY <1>4
<1> QED
  BY <1>2, <1>3, <1>4
     DEF Next, Server, Controller, vars, dataVars, StartController, CrashController,
         BreakStream, RegisterController, DetectCrash, RunReturns, ReadElected,
         ReadDemoted, ReadDigest, FailLearnWrite, AckDigestList, Frame, Move, ExpireDigest

LEMMA WhereNext ==
  ASSUME Mobile = {}, TypeOK, WhereInv, [Next]_vars
  PROVE  WhereInv'
<1> USE DEF TypeOK
<1>1. /\ pipe.forward \in [Mac -> Port \cup {None}] /\ loc \in [Mac -> Port]
      /\ cur \in [Ctrl -> Digest \cup {None}]
      /\ stream \in [Ctrl -> Seq(Message)]
  BY DEF DataTypeOK, CtrlTypeOK, ConnTypeOK, Pipeline
<1>2. loc' = loc
  BY DEF Next, Server, Controller, Initialize, vars, dataVars, StartController,
         RegisterController, CrashController, DetectCrash, BreakStream, SwitchRestart,
         RunReturns, ReadElected, ReadDemoted, ReadDigest, InitWrite, SetPipelineConfig,
         CreateFloodMulticastGroup, InstallStaticTableEntries, ConfigDigestMessages,
         InstallSinkEntry, InstallSourceEntry, InstallEgressEntries, ConfigCloneSession,
         FailInitRpc, LearnWrite, FailLearnWrite, AckDigestList, Frame, Move, ExpireDigest
<1>4. \A m \in Mac : pipe'.forward[m] \in {None, loc[m]}
  <2>1. CASE pipe' \in {EmptyPipeline, FreshPipeline}
    BY <2>1 DEF EmptyPipeline, FreshPipeline
  <2>2. CASE pipe'.forward = pipe.forward
    BY <2>2 DEF WhereInv
  <2>3. ASSUME NEW c \in Ctrl, LearnWrite(c)
        PROVE  \A m \in Mac : pipe'.forward[m] \in {None, loc[m]}
    <3>1. /\ cur[c] \in Digest /\ AtPort(cur[c])
          /\ pipe'.forward = InsertForward(pipe.forward, cur[c].mac, cur[c].port)
      BY <1>1, <2>3 DEF LearnWrite, CtrlTypeOK, DataTypeOK, Pipeline, WhereInv
    <3> QED
      BY <1>1, <3>1 DEF WhereInv, AtPort, Digest, InsertForward
  <2> QED
    BY <2>1, <2>2, <2>3, ForwardSteps DEF TypeOK
<1>5. ASSUME NEW c \in Ctrl, cur'[c] # None, cur'[c] # cur[c]
      PROVE  /\ stream[c] # <<>> /\ Head(stream[c]).type = "digest"
             /\ cur'[c] = Head(stream[c]).digest
  <2>1. ASSUME NEW d \in Ctrl, ReadDigest(d)
        PROVE  /\ cur' = [cur EXCEPT ![d] = Head(stream[d]).digest]
               /\ stream[d] # <<>> /\ Head(stream[d]).type = "digest"
    BY <2>1 DEF ReadDigest, Reads
  <2>2. ASSUME NEW d \in Ctrl, CrashController(d) \/ AckDigestList(d)
        PROVE  cur' = [cur EXCEPT ![d] = None]
    BY <2>2 DEF CrashController, AckDigestList
  <2>3. cur' = cur \/ \E d \in Ctrl : ReadDigest(d) \/ CrashController(d) \/ AckDigestList(d)
    BY DEF Next, Server, Controller, Initialize, vars, ctrlVars, StartController,
         RegisterController, DetectCrash, BreakStream, SwitchRestart,
         RunReturns, ReadElected, ReadDemoted, InitWrite, SetPipelineConfig,
         CreateFloodMulticastGroup, InstallStaticTableEntries, ConfigDigestMessages,
         InstallSinkEntry, InstallSourceEntry, InstallEgressEntries, ConfigCloneSession,
         FailInitRpc, LearnWrite, FailLearnWrite, Frame, Move, ExpireDigest
  <2>4. PICK d \in Ctrl : ReadDigest(d) \/ CrashController(d) \/ AckDigestList(d)
    BY <1>5, <2>3
  <2>5. ReadDigest(d) /\ d = c
    BY <1>1, <1>5, <2>1, <2>2, <2>4
  <2> QED
    BY <1>1, <2>1, <2>5
<1>6. \A c \in Ctrl : cur'[c] # None => AtPort(cur'[c])
  <2> SUFFICES ASSUME NEW c \in Ctrl, cur'[c] # None
               PROVE  AtPort(cur'[c])
    OBVIOUS
  <2>1. CASE cur'[c] = cur[c]
    BY <2>1 DEF WhereInv
  <2>2. CASE /\ stream[c] # <<>> /\ Head(stream[c]).type = "digest"
             /\ cur'[c] = Head(stream[c]).digest
    BY <1>1, <2>2, AtPortTail DEF WhereInv
  <2> QED
    BY <1>5, <2>1, <2>2
<1>7. \A c \in Ctrl : AllAtPort(stream'[c])
  <2>1. ASSUME NEW c \in Ctrl, CrashController(c) \/ RunReturns(c)
        PROVE  \A d \in Ctrl : AllAtPort(stream'[d])
    <3>1. AllAtPort(<<>>)
      BY DEF AllAtPort
    <3> QED
      BY <1>1, <2>1, <3>1 DEF CrashController, RunReturns, WhereInv
  <2>2. ASSUME NEW c \in Ctrl, RegisterController(c) \/ DetectCrash(c) \/ BreakStream(c)
        PROVE  \A d \in Ctrl : AllAtPort(stream'[d])
    <3>1. UNCHANGED stream \/ \E ms : Notify(ms, primary')
      BY <2>2 DEF RegisterController, DetectCrash, BreakStream, Leave
    <3> QED
      BY <3>1, AtPortNotify DEF WhereInv
  <2>3. ASSUME NEW c \in Ctrl, ReadElected(c) \/ ReadDemoted(c) \/ ReadDigest(c)
        PROVE  \A d \in Ctrl : AllAtPort(stream'[d])
    <3>1. stream[c] # <<>> /\ stream' = [stream EXCEPT ![c] = Tail(stream[c])]
      BY <2>3 DEF ReadElected, ReadDemoted, ReadDigest, Reads
    <3> QED
      BY <1>1, <3>1, AtPortTail DEF WhereInv
  <2>4. ASSUME NEW m \in Mac, Frame(m)
        PROVE  \A d \in Ctrl : AllAtPort(stream'[d])
    <3> DEFINE msg == DigestList([mac |-> m, port |-> loc[m]])
    <3>1. msg \in Message /\ msg.type = "digest" /\ AtPort(msg.digest)
      BY <1>1, MessageTypes DEF Digest, DigestList, AtPort
    <3>2. \A d \in Ctrl : stream'[d] = stream[d] \/ stream'[d] = Append(stream[d], msg)
      BY <1>1, <2>4 DEF Frame
    <3> HIDE DEF msg
    <3> QED
      BY <1>1, <3>1, <3>2, AtPortAppend DEF WhereInv
  <2>5. CASE UNCHANGED stream
    BY <2>5 DEF WhereInv
  <2> QED
    BY <2>1, <2>2, <2>3, <2>4, <2>5
    DEF Next, Server, Controller, Initialize, vars, connVars, StartController,
         SwitchRestart, InitWrite, SetPipelineConfig,
         CreateFloodMulticastGroup, InstallStaticTableEntries, ConfigDigestMessages,
         InstallSinkEntry, InstallSourceEntry, InstallEgressEntries, ConfigCloneSession,
         FailInitRpc, LearnWrite, FailLearnWrite, AckDigestList, Move, ExpireDigest
<1> QED
  BY <1>2, <1>4, <1>6, <1>7 DEF WhereInv, AllAtPort, AtPort

LEMMA FloodNext ==
  ASSUME TypeOK, FloodInv, [Next]_vars
  PROVE  FloodInv'
<1>1. pipe \in Pipeline
  BY DEF TypeOK, DataTypeOK
<1>2. ASSUME NEW c \in Ctrl, Initialize(c)
      PROVE  FloodInv'
  BY <1>1, <1>2
     DEF FloodInv, Initialize, SetPipelineConfig, CreateFloodMulticastGroup,
         ConfigDigestMessages, InstallStaticTableEntries, InstallSinkEntry,
         InstallSourceEntry, InstallEgressEntries, ConfigCloneSession, FailInitRpc,
         dataVars, WithFloodGroups, WithBroadcastEntry, WithDigestConfig, WithSinkEntry,
         WithSourceEntry, WithEgressEntries, WithCloneSession, FreshPipeline, Pipeline,
         EmptyPipeline
<1>3. ASSUME NEW c \in Ctrl, LearnWrite(c)
      PROVE  FloodInv'
  BY <1>1, <1>3 DEF LearnWrite, FloodInv, Pipeline
<1>4. CASE SwitchRestart
  BY <1>4 DEF SwitchRestart, FloodInv
<1>5. CASE UNCHANGED pipe
  BY <1>5 DEF FloodInv
<1> QED
  BY <1>2, <1>3, <1>4, <1>5
     DEF Next, Server, Controller, vars, dataVars, StartController, CrashController,
         BreakStream, RegisterController, DetectCrash, RunReturns, ReadElected,
         ReadDemoted, ReadDigest, FailLearnWrite, AckDigestList, Frame, Move, ExpireDigest

LEMMA WhereReachable == TypeOK /\ WhereInv /\ FloodInv => Reachable
<1> SUFFICES ASSUME TypeOK, WhereInv, FloodInv, pipe.p4, pipe.mcast # EmptyPipeline.mcast,
                    NEW m \in Mac, NEW in \in Port \ {loc[m]}
             PROVE  loc[m] \in OutPorts(pipe, m, in) /\ in \notin OutPorts(pipe, m, in)
  BY DEF Reachable
<1>1. loc[m] \in Port /\ NumPorts \in Nat
  BY PortAssumption DEF TypeOK, DataTypeOK
<1>2. CASE pipe.forward[m] # None
  BY <1>2 DEF WhereInv, OutPorts
<1>3. CASE pipe.forward[m] = None
  <2>1. in + 1 \in 1 .. NumPorts /\ (in + 1) - 1 = in
    BY <1>1 DEF Port
  <2>2. pipe.mcast[in + 1] = {i \in Port : i # (in + 1) - 1}
    BY <2>1 DEF FloodInv, FloodMcastGroups
  <2> QED
    BY <1>1, <1>3, <2>1, <2>2 DEF OutPorts
<1> QED
  BY <1>2, <1>3

\* A frame for an attached host, from any other port, reaches that host, and a flooded
\* one never goes back where it came from, once the flood groups exist -- for every
\* number of hosts, ports and controllers and whatever RPCs fail, while hosts stay put.
THEOREM ReachableHolds ==
  ASSUME Mobile = {}
  PROVE  Spec => []Reachable
<1>1. Init => WhereInv /\ FloodInv
  BY DEF Init, WhereInv, FloodInv, AllAtPort, EmptyPipeline
<1> QED
  BY <1>1, TypeCorrect, WhereNext, FloodNext, WhereReachable, PTL DEF Spec

-----------------------------------------------------------------------------
(***************************************************************************)
(* The switch runs the configuration of its primary.  Two things have to   *)
(* be carried along.  ConnInv: a primary that is not dead holds an open    *)
(* stream -- so a controller whose stream broke is not elected again       *)
(* before it went down and came back.  ConfigInv: whoever is primary and   *)
(* has read its latest election has, alone, taken the pipeline through     *)
(* the steps it has left behind; while the election waits in its stream    *)
(* it will start over, and nothing is claimed.                             *)
(***************************************************************************)
ConnInv ==
  /\ primary # None => primary \in members
  /\ \A c \in members : pc[c] = "dead" \/ open[c]
  /\ \A c \in Ctrl : open[c] => pc[c] \notin {"down", "dead"}

\* p before step s of c, its tables and groups ...
BaseDone(p, s) ==
  /\ s > ConfigStep => p.p4
  /\ s > FloodStep  => p.mcast = FloodMcastGroups
  /\ s > ConfigStep /\ s <= StaticStep => p.learn = {}
  /\ s > StaticStep => Broadcast \in p.learn
  /\ s > DigestStep => p.digestOn

\* ... the entries of scion_int ...
ScionIntDone(p, c, s) ==
  /\ s > ConfigStep /\ s <= SinkStep => p.scionInt = [a \in As |-> NoAction]
  /\ s > SinkStep => p.scionInt[HostAs[c]] = CloneInt
  /\ s > ConfigStep =>
       \A i \in 1 .. Len(IntTable[c]) :
         LET line == IntTable[c][i] IN
         /\ line.as # HostAs[c] /\ SourceStep(i) < s => p.scionInt[line.as] # NoAction
         /\ SourceEntry(c, i) =>
              p.scionInt[line.as] = IF SourceStep(i) < s THEN InsertInt(line.bits) ELSE NoAction

\* ... and those of egress.
EgressDone(p, c, s) ==
  /\ s > ConfigStep => p.node = IF s > EgressStep(c) THEN c ELSE None
  /\ s > CloneStep(c) => p.clone

Done(p, c, s) ==
  /\ BaseDone(p, s)
  /\ WithInt => ScionIntDone(p, c, s) /\ EgressDone(p, c, s)

StepOf(c) == IF pc[c] = "init" THEN step[c] ELSE LastStep(c) + 1

ConfigInv ==
  \A c \in Ctrl :
    primary = c /\ pc[c] # "dead" /\ ~ElectionPending(c) => Done(pipe, c, StepOf(c))

-----------------------------------------------------------------------------
(* The connections. *)

\* What one action does to ConnInv: the actions not named do not touch it.
LEMMA ConnNext ==
  ASSUME TypeOK, ConnInv, [Next]_vars
  PROVE  ConnInv'
<1> USE NodeAssumption DEF TypeOK, CtrlTypeOK, ConnTypeOK
<1>1. ASSUME NEW c \in Ctrl, StartController(c)
      PROVE  ConnInv'
  BY <1>1 DEF StartController, ConnInv
<1>2. ASSUME NEW c \in Ctrl, RegisterController(c)
      PROVE  ConnInv'
  BY <1>2 DEF RegisterController, ConnInv, Elected, ctrlVars
<1>3. ASSUME NEW c \in Ctrl, CrashController(c)
      PROVE  ConnInv'
  BY <1>3 DEF CrashController, ConnInv
<1>4. ASSUME NEW c \in Ctrl, DetectCrash(c)
      PROVE  ConnInv'
  BY <1>4 DEF DetectCrash, Leave, ConnInv, Elected
<1>5. ASSUME NEW c \in Ctrl, BreakStream(c)
      PROVE  ConnInv'
  BY <1>5 DEF BreakStream, Leave, ConnInv, Elected, ctrlVars
<1>6. CASE SwitchRestart
  BY <1>6 DEF SwitchRestart, ConnInv
<1>7. ASSUME NEW c \in Ctrl, RunReturns(c)
      PROVE  ConnInv'
  BY <1>7 DEF RunReturns, ConnInv
<1>8. ASSUME UNCHANGED <<open, members, primary>>,
             \A d \in Ctrl : pc'[d] # pc[d] =>
               /\ pc[d] \notin {"down", "dead"}
               /\ pc'[d] \notin {"down", "dead"}
      PROVE  ConnInv'
  BY <1>8 DEF ConnInv
<1>9. ASSUME NEW c \in Ctrl,
             \/ ReadElected(c) \/ ReadDemoted(c) \/ ReadDigest(c)
             \/ LearnWrite(c) \/ FailLearnWrite(c) \/ AckDigestList(c)
      PROVE  ConnInv'
  BY <1>8, <1>9
     DEF ReadElected, ReadDemoted, ReadDigest, Reads, LearnWrite, FailLearnWrite,
         AckDigestList, connVars, ctrlVars
<1>10. ASSUME NEW c \in Ctrl, Initialize(c)
       PROVE  ConnInv'
  <2>1. pc[c] = "init" /\ NextStep(c) /\ UNCHANGED connVars
    BY <1>10
       DEF Initialize, InitWrite, AtStep, SetPipelineConfig, CreateFloodMulticastGroup,
           InstallStaticTableEntries, ConfigDigestMessages, InstallSinkEntry,
           InstallSourceEntry, InstallEgressEntries, ConfigCloneSession, FailInitRpc
  <2> QED
    BY <1>8, <2>1 DEF NextStep, connVars
<1>11. CASE UNCHANGED <<pc, open, members, primary>>
  BY <1>8, <1>11
<1> QED
  BY <1>1, <1>2, <1>3, <1>4, <1>5, <1>6, <1>7, <1>9, <1>10, <1>11
     DEF Next, Server, Controller, Frame, Move, ExpireDigest, vars, ctrlVars, connVars

-----------------------------------------------------------------------------
(* Elections that wait in a stream. *)

Waits(s) == \E i \in 1 .. Len(s) : s[i] = Arbitration(TRUE)

\* A message that is appended leaves those that wait where they are ...
LEMMA WaitsAppend ==
  ASSUME NEW s \in Seq(Message), NEW m \in Message, ~Waits(Append(s, m))
  PROVE  ~Waits(s) /\ m # Arbitration(TRUE)
<1> DEFINE a == Append(s, m)
           e == Arbitration(TRUE)
<1>1. /\ Len(a) = Len(s) + 1
      /\ a[Len(s) + 1] = m
      /\ \A i \in 1 .. Len(s) : a[i] = s[i]
      /\ Len(s) \in Nat
  OBVIOUS
<1>2. \A i \in 1 .. Len(a) : a[i] # e
  BY Zenon DEF Waits
<1>3. SUFFICES m # e /\ \A i \in 1 .. Len(s) : s[i] # e
  BY Zenon DEF Waits
<1> HIDE DEF a, e
<1> QED
  BY <1>1, <1>2

\* ... and reading one takes away at most the first.
LEMMA WaitsTail ==
  ASSUME NEW s \in Seq(Message), s # <<>>, ~Waits(Tail(s)), Head(s) # Arbitration(TRUE)
  PROVE  ~Waits(s)
<1> DEFINE t == Tail(s)
           e == Arbitration(TRUE)
<1>1. /\ Len(s) \in Nat
      /\ Head(s) = s[1]
      /\ Len(t) = Len(s) - 1
      /\ \A i \in 1 .. Len(t) : t[i] = s[i + 1]
  OBVIOUS
<1>2. (\A i \in 1 .. Len(t) : t[i] # e) /\ Head(s) # e
  BY Zenon DEF Waits
<1>3. SUFFICES \A i \in 1 .. Len(s) : s[i] # e
  BY Zenon DEF Waits
<1> HIDE DEF t, e
<1>4. ASSUME NEW i \in 1 .. Len(s), i # 1
      PROVE  s[i] # e
  <2>1. i - 1 \in 1 .. Len(t) /\ (i - 1) + 1 = i
    BY <1>1, <1>4
  <2> QED
    BY <1>1, <1>2, <2>1
<1> QED
  BY <1>1, <1>2, <1>4

\* A message says one thing.
LEMMA ArbitrationDistinct ==
  /\ Arbitration(TRUE) # Arbitration(FALSE)
  /\ \A m \in Message : m.type = "arbitration" /\ m.primary => m = Arbitration(TRUE)
  /\ \A m \in Message : m.type = "arbitration" /\ ~m.primary => m # Arbitration(TRUE)
  /\ \A m \in Message : m.type = "digest" => m # Arbitration(TRUE)
  /\ \A d : DigestList(d) # Arbitration(TRUE)
  BY DEF Arbitration, DigestList, Message

-----------------------------------------------------------------------------
(* The configuration, carried through the steps of its controller. *)

\* A step of the initialization leaves behind one step more.
LEMMA BaseSteps ==
  ASSUME NEW p \in Pipeline
  PROVE  /\ BaseDone(FreshPipeline, FloodStep)
         /\ BaseDone(p, FloodStep) => BaseDone(WithFloodGroups(p), StaticStep)
         /\ BaseDone(p, StaticStep) => BaseDone(WithBroadcastEntry(p), DigestStep)
         /\ BaseDone(p, DigestStep) => BaseDone(WithDigestConfig(p), SinkStep)
<1> USE DEF ConfigStep, FloodStep, StaticStep, DigestStep, SinkStep, BaseDone
<1>1. BaseDone(FreshPipeline, FloodStep)
  BY DEF FreshPipeline, EmptyPipeline
<1>2. BaseDone(p, FloodStep) => BaseDone(WithFloodGroups(p), StaticStep)
  BY DEF WithFloodGroups, Pipeline
<1>3. BaseDone(p, StaticStep) => BaseDone(WithBroadcastEntry(p), DigestStep)
  <2>1. Cardinality({}) < LearnSize
    BY FS_EmptySet, SizeAssumption
  <2>2. p.learn = {} => Broadcast \in WithBroadcastEntry(p).learn
    BY <2>1 DEF WithBroadcastEntry, InsertLearn, Pipeline
  <2>3. /\ WithBroadcastEntry(p).p4 = p.p4
        /\ WithBroadcastEntry(p).mcast = p.mcast
    BY DEF WithBroadcastEntry, Pipeline
  <2> QED
    BY <2>2, <2>3
<1>4. BaseDone(p, DigestStep) => BaseDone(WithDigestConfig(p), SinkStep)
  BY DEF WithDigestConfig, Pipeline
<1> QED
  BY <1>1, <1>2, <1>3, <1>4

\* The source entry of line k goes in when no earlier line names its AS; when one does,
\* the AS has its entry already.
LEMMA SourceStepDone ==
  ASSUME NEW p \in Pipeline, NEW c \in Ctrl, NEW k \in 1 .. Len(IntTable[c]),
         ScionIntDone(p, c, SourceStep(k))
  PROVE  ScionIntDone(WithSourceEntry(p, c, k), c, SourceStep(k) + 1)
<1> DEFINE q == WithSourceEntry(p, c, k)
           line(i) == IntTable[c][i]
           lines == 1 .. Len(IntTable[c])
<1> USE DEF ConfigStep, SinkStep, SourceStep
<1>1. /\ Len(IntTable[c]) \in Nat
      /\ \A i \in lines : line(i).as \in As /\ InsertInt(line(i).bits) # NoAction
  <2>1. Len(IntTable[c]) \in Nat
    BY ConfigAssumption
  <2> QED
    BY <2>1, LineType DEF IntTableLine, InsertInt, NoAction
<1>2. p.scionInt \in [As -> IntEntry]
  BY DEF Pipeline
<1>3. CASE line(k).as = HostAs[c]
  <2>1. q = p
    BY <1>3 DEF WithSourceEntry
  <2>2. ~SourceEntry(c, k)
    BY <1>3 DEF SourceEntry
  <2> QED
    BY <1>1, <1>3, <2>1, <2>2 DEF ScionIntDone
<1>4. CASE line(k).as # HostAs[c]
  <2>1. q.scionInt = InsertScionInt(p.scionInt, line(k).as, InsertInt(line(k).bits))
    BY <1>4 DEF WithSourceEntry, Pipeline
  <2>2. p.scionInt[HostAs[c]] = CloneInt
    BY <1>1 DEF ScionIntDone
  <2>3. q.scionInt[HostAs[c]] = CloneInt
    BY <1>1, <1>2, <1>4, <2>1, <2>2, ConfigAssumption DEF InsertScionInt
  <2>4. q.scionInt[line(k).as] # NoAction
    BY <1>1, <1>2, <2>1 DEF InsertScionInt
  <2>5. \A a \in As : p.scionInt[a] # NoAction => q.scionInt[a] = p.scionInt[a]
    BY <1>1, <1>2, <2>1 DEF InsertScionInt
  <2>6. ASSUME NEW i \in lines, line(i).as # HostAs[c], SourceStep(i) < SourceStep(k) + 1
        PROVE  q.scionInt[line(i).as] # NoAction
    <3>1. CASE i = k
      BY <2>4, <3>1
    <3>2. CASE i # k
      <4>1. SourceStep(i) < SourceStep(k)
        BY <1>1, <2>6, <3>2
      <4>2. p.scionInt[line(i).as] # NoAction
        BY <1>1, <2>6, <4>1 DEF ScionIntDone
      <4> QED
        BY <1>1, <2>5, <4>2
    <3> QED
      BY <3>1, <3>2
  <2>7. ASSUME NEW i \in lines, SourceEntry(c, i)
        PROVE  q.scionInt[line(i).as] =
                 IF SourceStep(i) < SourceStep(k) + 1 THEN InsertInt(line(i).bits) ELSE NoAction
    <3>1. p.scionInt[line(i).as] =
            IF SourceStep(i) < SourceStep(k) THEN InsertInt(line(i).bits) ELSE NoAction
      BY <1>1, <2>7 DEF ScionIntDone
    <3>2. CASE i < k
      BY <1>1, <2>5, <3>1, <3>2
    <3>3. CASE i = k
      BY <1>1, <1>2, <2>1, <3>1, <3>3 DEF InsertScionInt
    <3>4. CASE i > k
      <4>1. line(i).as # line(k).as
        BY <1>1, <2>7, <3>4 DEF SourceEntry
      <4> QED
        BY <1>1, <1>2, <2>1, <3>1, <3>4, <4>1 DEF InsertScionInt
    <3> QED
      BY <1>1, <3>2, <3>3, <3>4
  <2>8. ~(SourceStep(k) + 1 > ConfigStep /\ SourceStep(k) + 1 <= SinkStep)
    BY <1>1
  <2> QED
    BY <2>3, <2>6, <2>7, <2>8, Zenon DEF ScionIntDone
<1> QED
  BY <1>3, <1>4

\* The steps that are not about scion_int leave what is said of it true.
LEMMA ScionIntFrame ==
  ASSUME NEW p \in Pipeline, NEW q \in Pipeline, NEW c \in Ctrl, NEW s \in Nat,
         q.scionInt = p.scionInt, ScionIntDone(p, c, s),
         s \in FloodStep .. DigestStep \/ s >= EgressStep(c)
  PROVE  ScionIntDone(q, c, s + 1)
<1> USE DEF ConfigStep, FloodStep, DigestStep, SinkStep, SourceStep, EgressStep
<1>1. Len(IntTable[c]) \in Nat
  BY ConfigAssumption
<1>2. ~(s + 1 > ConfigStep /\ s + 1 <= SinkStep) \/ q.scionInt = [a \in As |-> NoAction]
  BY <1>1 DEF ScionIntDone
<1>3. s + 1 > SinkStep => q.scionInt[HostAs[c]] = CloneInt
  BY <1>1 DEF ScionIntDone
<1>4. s > ConfigStep
  BY <1>1
<1>5. ASSUME NEW i \in 1 .. Len(IntTable[c])
      PROVE  /\ IntTable[c][i].as # HostAs[c] /\ SourceStep(i) < s + 1
                  => q.scionInt[IntTable[c][i].as] # NoAction
             /\ SourceEntry(c, i) =>
                  q.scionInt[IntTable[c][i].as] =
                    IF SourceStep(i) < s + 1 THEN InsertInt(IntTable[c][i].bits) ELSE NoAction
  <2>1. SourceStep(i) < s + 1 <=> SourceStep(i) < s
    BY <1>1
  <2> QED
    BY <1>1, <1>4, <2>1 DEF ScionIntDone
<1> QED
  BY <1>2, <1>3, <1>5, Zenon DEF ScionIntDone

\* The sink entry.
LEMMA SinkStepDone ==
  ASSUME NEW p \in Pipeline, NEW c \in Ctrl, ScionIntDone(p, c, SinkStep)
  PROVE  ScionIntDone(WithSinkEntry(p, c), c, SinkStep + 1)
<1> USE DEF ConfigStep, SinkStep, SourceStep
<1> DEFINE q == WithSinkEntry(p, c)
<1>1. Len(IntTable[c]) \in Nat /\ HostAs[c] \in As
  BY ConfigAssumption
<1>2. p.scionInt = [a \in As |-> NoAction]
  BY DEF ScionIntDone
<1>3. q.scionInt = [[a \in As |-> NoAction] EXCEPT ![HostAs[c]] = CloneInt]
  BY <1>1, <1>2 DEF WithSinkEntry, InsertScionInt, Pipeline
<1>4. q.scionInt[HostAs[c]] = CloneInt
  BY <1>1, <1>3
<1>5. ASSUME NEW i \in 1 .. Len(IntTable[c])
      PROVE  /\ ~(SourceStep(i) < SinkStep + 1)
             /\ SourceEntry(c, i) => q.scionInt[IntTable[c][i].as] = NoAction
  <2>1. IntTable[c][i].as \in As
    BY LineType DEF IntTableLine
  <2> QED
    BY <1>1, <1>3, <2>1 DEF SourceEntry
<1>6. ~(SinkStep + 1 <= SinkStep)
  OBVIOUS
<1> QED
  BY <1>4, <1>5, <1>6, Zenon DEF ScionIntDone

\* A whole step, whatever the controller.
LEMMA DoneSteps ==
  ASSUME NEW p \in Pipeline, NEW c \in Ctrl, NEW s \in Nat, Done(p, c, s)
  PROVE  /\ Done(FreshPipeline, c, ConfigStep + 1)
         /\ s = FloodStep  => Done(WithFloodGroups(p), c, s + 1)
         /\ s = StaticStep => Done(WithBroadcastEntry(p), c, s + 1)
         /\ s = DigestStep => Done(WithDigestConfig(p), c, s + 1)
         /\ WithInt /\ s = SinkStep => Done(WithSinkEntry(p, c), c, s + 1)
         /\ WithInt => \A i \in 1 .. Len(IntTable[c]) :
              s = SourceStep(i) => Done(WithSourceEntry(p, c, i), c, s + 1)
         /\ WithInt /\ s = EgressStep(c) => Done(WithEgressEntries(p, c), c, s + 1)
         /\ WithInt /\ s = CloneStep(c) => Done(WithCloneSession(p), c, s + 1)
<1> USE DEF ConfigStep, FloodStep, StaticStep, DigestStep, SinkStep, SourceStep,
            EgressStep, CloneStep
<1>1. Len(IntTable[c]) \in Nat
  BY ConfigAssumption
<1>2. Done(FreshPipeline, c, ConfigStep + 1)
  <2>1. ASSUME NEW i \in 1 .. Len(IntTable[c])
        PROVE  /\ ~(SourceStep(i) < ConfigStep + 1)
               /\ FreshPipeline.scionInt[IntTable[c][i].as] = NoAction
    BY LineType DEF IntTableLine, FreshPipeline, EmptyPipeline
  <2>2. FreshPipeline.scionInt = [a \in As |-> NoAction]
    BY DEF FreshPipeline, EmptyPipeline
  <2>3. ~(ConfigStep + 1 > SinkStep)
    OBVIOUS
  <2>4. ScionIntDone(FreshPipeline, c, ConfigStep + 1)
    BY <2>1, <2>2, <2>3, Zenon DEF ScionIntDone
  <2>5. EgressDone(FreshPipeline, c, ConfigStep + 1)
    BY <1>1 DEF EgressDone, FreshPipeline, EmptyPipeline
  <2> QED
    BY <2>4, <2>5, BaseSteps DEF Done
<1>3. ASSUME NEW q \in Pipeline, q.node = p.node, q.clone = p.clone,
             s > ConfigStep, s < EgressStep(c), WithInt
      PROVE  EgressDone(q, c, s + 1)
  BY <1>1, <1>3 DEF EgressDone, Done
<1>4. ASSUME s = FloodStep
      PROVE  Done(WithFloodGroups(p), c, s + 1)
  <2> DEFINE q == WithFloodGroups(p)
  <2>1. q \in Pipeline
    BY InitStepTypes
  <2>2. q.scionInt = p.scionInt /\ q.node = p.node /\ q.clone = p.clone
    BY DEF WithFloodGroups, Pipeline
  <2>3. BaseDone(q, s + 1)
    BY <1>4, BaseSteps DEF Done
  <2> QED
    BY <1>1, <1>3, <1>4, <2>1, <2>2, <2>3, ScionIntFrame DEF Done
<1>5. ASSUME s = StaticStep
      PROVE  Done(WithBroadcastEntry(p), c, s + 1)
  <2> DEFINE q == WithBroadcastEntry(p)
  <2>1. q \in Pipeline
    BY InitStepTypes
  <2>2. q.scionInt = p.scionInt /\ q.node = p.node /\ q.clone = p.clone
    BY DEF WithBroadcastEntry, Pipeline
  <2>3. BaseDone(q, s + 1)
    BY <1>5, BaseSteps DEF Done
  <2> QED
    BY <1>1, <1>3, <1>5, <2>1, <2>2, <2>3, ScionIntFrame DEF Done
<1>6. ASSUME s = DigestStep
      PROVE  Done(WithDigestConfig(p), c, s + 1)
  <2> DEFINE q == WithDigestConfig(p)
  <2>1. q \in Pipeline
    BY InitStepTypes
  <2>2. q.scionInt = p.scionInt /\ q.node = p.node /\ q.clone = p.clone
    BY DEF WithDigestConfig, Pipeline
  <2>3. BaseDone(q, s + 1)
    BY <1>6, BaseSteps DEF Done
  <2> QED
    BY <1>1, <1>3, <1>6, <2>1, <2>2, <2>3, ScionIntFrame DEF Done
<1>7. ASSUME NEW q \in Pipeline, s > DigestStep,
             /\ q.p4 = p.p4 /\ q.mcast = p.mcast
             /\ q.learn = p.learn /\ q.digestOn = p.digestOn
      PROVE  BaseDone(q, s + 1)
  BY <1>7 DEF BaseDone, Done
<1>8. ASSUME WithInt, s = SinkStep
      PROVE  Done(WithSinkEntry(p, c), c, s + 1)
  <2> DEFINE q == WithSinkEntry(p, c)
  <2>1. q \in Pipeline
    BY InitStepTypes
  <2>2. /\ q.p4 = p.p4 /\ q.mcast = p.mcast
        /\ q.learn = p.learn /\ q.digestOn = p.digestOn
        /\ q.node = p.node /\ q.clone = p.clone
    BY DEF WithSinkEntry, Pipeline
  <2>3. ScionIntDone(q, c, s + 1)
    BY <1>8, SinkStepDone DEF Done
  <2> QED
    BY <1>1, <1>3, <1>7, <1>8, <2>1, <2>2, <2>3 DEF Done
<1>9. ASSUME WithInt, NEW i \in 1 .. Len(IntTable[c]), s = SourceStep(i)
      PROVE  Done(WithSourceEntry(p, c, i), c, s + 1)
  <2> DEFINE q == WithSourceEntry(p, c, i)
  <2>1. q \in Pipeline
    BY InitStepTypes
  <2>2. /\ q.p4 = p.p4 /\ q.mcast = p.mcast
        /\ q.learn = p.learn /\ q.digestOn = p.digestOn
        /\ q.node = p.node /\ q.clone = p.clone
    BY DEF WithSourceEntry, Pipeline
  <2>3. ScionIntDone(q, c, s + 1)
    BY <1>9, SourceStepDone DEF Done
  <2> QED
    BY <1>1, <1>3, <1>7, <1>9, <2>1, <2>2, <2>3 DEF Done
<1>10. ASSUME WithInt, s = EgressStep(c)
       PROVE  Done(WithEgressEntries(p, c), c, s + 1)
  <2> DEFINE q == WithEgressEntries(p, c)
  <2>1. q \in Pipeline
    BY InitStepTypes
  <2>2. /\ q.p4 = p.p4 /\ q.mcast = p.mcast
        /\ q.learn = p.learn /\ q.digestOn = p.digestOn
        /\ q.scionInt = p.scionInt /\ q.clone = p.clone
    BY DEF WithEgressEntries, Pipeline
  <2>3. p.node = None
    BY <1>1, <1>10 DEF Done, EgressDone
  <2>4. q.node = c
    BY <2>3 DEF WithEgressEntries, Pipeline
  <2>5. EgressDone(q, c, s + 1)
    BY <1>1, <1>10, <2>4 DEF EgressDone
  <2> QED
    BY <1>1, <1>7, <1>10, <2>1, <2>2, <2>5, ScionIntFrame DEF Done
<1>11. ASSUME WithInt, s = CloneStep(c)
       PROVE  Done(WithCloneSession(p), c, s + 1)
  <2> DEFINE q == WithCloneSession(p)
  <2>1. q \in Pipeline
    BY InitStepTypes
  <2>2. /\ q.p4 = p.p4 /\ q.mcast = p.mcast
        /\ q.learn = p.learn /\ q.digestOn = p.digestOn
        /\ q.scionInt = p.scionInt /\ q.node = p.node /\ q.clone
    BY DEF WithCloneSession, Pipeline
  <2>3. EgressDone(q, c, s + 1)
    BY <1>1, <1>11, <2>2 DEF EgressDone, Done
  <2> QED
    BY <1>1, <1>7, <1>11, <2>1, <2>2, <2>3, ScionIntFrame DEF Done
<1> QED
  BY <1>2, <1>4, <1>5, <1>6, <1>8, <1>9, <1>10, <1>11

-----------------------------------------------------------------------------
(* The invariant. *)

\* c is primary, lives, and has read its latest election.
Claims(c) == primary = c /\ pc[c] # "dead" /\ ~Waits(stream[c])

LEMMA ConfigClaims == ConfigInv <=> \A c \in Ctrl : Claims(c) => Done(pipe, c, StepOf(c))
  BY DEF ConfigInv, Claims, ElectionPending, Waits

LEMMA ConfigClaimsNext ==
  (\A c \in Ctrl : Claims(c)' => Done(pipe', c, StepOf(c)')) => ConfigInv'
  BY DEF ConfigInv, Claims, ElectionPending, Waits

\* Before the first step nothing has been done, and nothing is claimed.
LEMMA DoneStart == \A p, c : c \in Ctrl => Done(p, c, ConfigStep)
<1>1. \A c \in Ctrl : Len(IntTable[c]) \in Nat
  BY ConfigAssumption
<1> QED
  BY <1>1
     DEF Done, BaseDone, ScionIntDone, EgressDone, ConfigStep, FloodStep, StaticStep,
         DigestStep, SinkStep, EgressStep, CloneStep

\* Connections come and go without a new claim: who is made primary is told so.
LEMMA ClaimsConnections ==
  ASSUME TypeOK, ConnInv, NEW d \in Ctrl, NEW c \in Ctrl,
         \/ StartController(c) \/ RegisterController(c) \/ CrashController(c)
         \/ DetectCrash(c) \/ BreakStream(c) \/ SwitchRestart \/ RunReturns(c),
         Claims(d)'
  PROVE  Claims(d) /\ StepOf(d)' = StepOf(d) /\ pipe' = pipe
<1> USE NodeAssumption DEF TypeOK, CtrlTypeOK, ConnTypeOK
<1>1. stream[d] \in Seq(Message) /\ \A b \in BOOLEAN : Arbitration(b) \in Message
  BY MessageTypes
<1>2. CASE StartController(c)
  <2>1. d # c
    BY <1>2 DEF StartController, Claims, ConnInv
  <2> QED
    BY <1>2, <2>1 DEF StartController, Claims, StepOf, dataVars
<1>3. ASSUME NEW ms, Notify(ms, primary'), d \in ms, pc[d] # "dead"
      PROVE  FALSE
  <2>1. primary' = d /\ ~Waits(stream'[d])
    BY DEF Claims
  <2>2. (d = primary') = TRUE
    BY <2>1
  <2>3. stream'[d] = Append(stream[d], Arbitration(d = primary'))
    BY <1>3 DEF Notify
  <2>4. stream'[d] = Append(stream[d], Arbitration(TRUE))
    BY <2>2, <2>3, Zenon
  <2> QED
    BY <1>1, <2>1, <2>4, WaitsAppend
<1>4. ASSUME Leave(c), pc[d] # "dead", d # c
      PROVE  primary = d /\ stream' = stream
  <2>1. primary' = d /\ d \in members'
    BY <1>4 DEF Claims, Leave, Elected
  <2>2. primary' = primary
    BY <1>3, <1>4, <2>1 DEF Leave
  <2> QED
    BY <1>4, <2>1, <2>2 DEF Leave
<1>5. CASE RegisterController(c)
  <2>1. primary' = d /\ d \in members' /\ pc[d] # "dead"
    BY <1>5 DEF RegisterController, Claims, Elected, ctrlVars
  <2>2. primary' = primary
    BY <1>3, <1>5, <2>1 DEF RegisterController
  <2>3. d # c
    BY <1>5, <2>1, <2>2 DEF RegisterController, ConnInv
  <2>4. stream'[d] = stream[d]
    BY <1>5, <2>2, <2>3 DEF RegisterController, Notify
  <2> QED
    BY <1>5, <2>1, <2>2, <2>4 DEF RegisterController, Claims, StepOf, ctrlVars, dataVars
<1>6. CASE CrashController(c)
  <2>1. primary = d /\ d \in members
    BY <1>6 DEF CrashController, Claims, ConnInv
  <2>2. d # c
    BY <1>6, <2>1 DEF CrashController, Claims
  <2> QED
    BY <1>6, <2>2 DEF CrashController, Claims, StepOf, dataVars
<1>7. CASE DetectCrash(c)
  <2>1. d # c
    BY <1>7 DEF DetectCrash, Claims, Leave, Elected
  <2>2. pc[d] # "dead"
    BY <1>7, <2>1 DEF DetectCrash, Claims
  <2> QED
    BY <1>4, <1>7, <2>1, <2>2 DEF DetectCrash, Claims, StepOf, dataVars
<1>8. CASE BreakStream(c)
  <2>1. d # c
    BY <1>8 DEF BreakStream, Claims, Leave, Elected
  <2>2. pc[d] # "dead"
    BY <1>8, <2>1 DEF BreakStream, Claims, ctrlVars
  <2> QED
    BY <1>4, <1>8, <2>1, <2>2 DEF BreakStream, Claims, StepOf, ctrlVars, dataVars
<1>9. CASE SwitchRestart
  BY <1>9 DEF SwitchRestart, Claims
<1>10. CASE RunReturns(c)
  <2>1. d # c
    BY <1>10 DEF RunReturns, Claims, ConnInv
  <2> QED
    BY <1>10, <2>1 DEF RunReturns, Claims, StepOf, dataVars
<1> QED
  BY <1>2, <1>5, <1>6, <1>7, <1>8, <1>9, <1>10

\* A message that is read adds no claim, unless it is the latest election.
LEMMA ClaimsReads ==
  ASSUME TypeOK, NEW c \in Ctrl, NEW d \in Ctrl,
         ReadElected(c) \/ ReadDemoted(c) \/ ReadDigest(c),
         Claims(d)'
  PROVE  /\ pipe' = pipe
         /\ \/ Claims(d) /\ StepOf(d)' = StepOf(d)
            \/ StepOf(d)' = ConfigStep
<1> USE DEF TypeOK, CtrlTypeOK, ConnTypeOK
<1>1. /\ pipe' = pipe /\ primary' = primary
      /\ pc[c] = "read" /\ pc' = [pc EXCEPT ![c] = pc'[c]]
      /\ pc'[c] \in {"read", "init", "learn"}
      /\ stream' = [stream EXCEPT ![c] = Tail(stream[c])]
      /\ stream[c] # <<>> /\ stream[c] \in Seq(Message)
  BY DEF ReadElected, ReadDemoted, ReadDigest, Reads, dataVars, ctrlVars
<1>2. CASE d # c
  BY <1>1, <1>2 DEF ReadElected, ReadDemoted, ReadDigest, Claims, StepOf, ctrlVars
<1>3. CASE d = c /\ ReadElected(c)
  BY <1>1, <1>3 DEF ReadElected, StepOf
<1>4. CASE d = c /\ (ReadDemoted(c) \/ ReadDigest(c))
  <2>1. Head(stream[c]) # Arbitration(TRUE)
    <3>1. Head(stream[c]) \in Message
      BY <1>1
    <3> QED
      BY <1>4, <3>1, ArbitrationDistinct DEF ReadDemoted, ReadDigest, Reads
  <2>2. ~Waits(Tail(stream[c]))
    BY <1>1, <1>4 DEF Claims
  <2>3. ~Waits(stream[c])
    BY <1>1, <2>1, <2>2, WaitsTail
  <2> QED
    BY <1>1, <1>4, <2>3 DEF ReadDemoted, ReadDigest, Claims, StepOf, ctrlVars
<1> QED
  BY <1>1, <1>2, <1>3, <1>4

\* An RPC of c: c alone is carried one step on.
LEMMA ConfigInitialize ==
  ASSUME "init" \notin FallibleRpcs, TypeOK, ConfigInv,
         NEW c \in Ctrl, Initialize(c), NEW d \in Ctrl, Claims(d)'
  PROVE  Done(pipe', d, StepOf(d)')
<1> USE DEF TypeOK, CtrlTypeOK, ConnTypeOK, DataTypeOK
<1>1. /\ pc[c] = "init" /\ step[c] \in 1 .. LastStep(c) /\ LastStep(c) \in Nat
      /\ NextStep(c) /\ UNCHANGED connVars
      /\ pipe' = pipe \/ primary = c
  BY LastStepType
     DEF Initialize, InitWrite, Writable, AtStep, dataVars, SetPipelineConfig,
         CreateFloodMulticastGroup, InstallStaticTableEntries, ConfigDigestMessages,
         InstallSinkEntry, InstallSourceEntry, InstallEgressEntries,
         ConfigCloneSession, FailInitRpc
<1>2. Claims(d)
  BY <1>1 DEF NextStep, Claims, connVars
<1>3. Done(pipe, d, StepOf(d))
  BY <1>2, ConfigClaims
<1>4. CASE d # c
  <2>1. pipe' = pipe
    BY <1>1, <1>2, <1>4 DEF Claims
  <2>2. StepOf(d)' = StepOf(d)
    BY <1>1, <1>4 DEF NextStep, StepOf
  <2> QED
    BY <1>3, <2>1, <2>2
<1>5. CASE d = c
  <2>1. StepOf(c)' = step[c] + 1 /\ step[c] \in Nat /\ pipe \in Pipeline
    BY <1>1 DEF NextStep, StepOf
  <2>2. Done(pipe, c, step[c])
    BY <1>1, <1>3, <1>5 DEF StepOf
  <2>3. ~FailInitRpc(c)
    <3>1. primary = c
      BY <1>2, <1>5 DEF Claims
    <3>2. step[c] # ConfigStep => pipe.p4
      BY <1>1, <2>2 DEF Done, BaseDone, ConfigStep
    <3> QED
      BY <3>1, <3>2 DEF FailInitRpc
  <2>4. CASE SetPipelineConfig(c)
    BY <2>1, <2>2, <2>4, DoneSteps, <1>5 DEF SetPipelineConfig, AtStep
  <2>5. CASE CreateFloodMulticastGroup(c)
    BY <2>1, <2>2, <2>5, DoneSteps, <1>5 DEF CreateFloodMulticastGroup, InitWrite, AtStep
  <2>6. CASE InstallStaticTableEntries(c)
    BY <2>1, <2>2, <2>6, DoneSteps, <1>5 DEF InstallStaticTableEntries, InitWrite, AtStep
  <2>7. CASE ConfigDigestMessages(c)
    BY <2>1, <2>2, <2>7, DoneSteps, <1>5 DEF ConfigDigestMessages, InitWrite, AtStep
  <2>8. CASE InstallSinkEntry(c)
    BY <2>1, <2>2, <2>8, DoneSteps, <1>5 DEF InstallSinkEntry, InitWrite, AtStep
  <2>9. CASE InstallSourceEntry(c)
    <3>1. PICK i \in 1 .. Len(IntTable[c]) :
            InitWrite(c, SourceStep(i)) /\ pipe' = WithSourceEntry(pipe, c, i)
      BY <2>9 DEF InstallSourceEntry
    <3>2. WithInt /\ step[c] = SourceStep(i)
      BY <2>9, <3>1 DEF InstallSourceEntry, InitWrite, AtStep
    <3> QED
      BY <2>1, <2>2, <3>1, <3>2, DoneSteps, <1>5
  <2>10. CASE InstallEgressEntries(c)
    BY <2>1, <2>2, <2>10, DoneSteps, <1>5 DEF InstallEgressEntries, InitWrite, AtStep
  <2>11. CASE ConfigCloneSession(c)
    BY <2>1, <2>2, <2>11, DoneSteps, <1>5 DEF ConfigCloneSession, InitWrite, AtStep
  <2> QED
    BY <2>3, <2>4, <2>5, <2>6, <2>7, <2>8, <2>9, <2>10, <2>11 DEF Initialize
<1> QED
  BY <1>4, <1>5

\* Learning adds to a configuration that is complete.
LEMMA ConfigLearn ==
  ASSUME TypeOK, ConfigInv, NEW c \in Ctrl, LearnWrite(c), NEW d \in Ctrl, Claims(d)'
  PROVE  Done(pipe', d, StepOf(d)')
<1> USE DEF TypeOK, CtrlTypeOK, DataTypeOK
<1>1. d = c /\ Claims(c) /\ StepOf(c) = LastStep(c) + 1 /\ StepOf(c)' = StepOf(c)
  BY DEF LearnWrite, Writable, Claims, StepOf, connVars
<1>2. Done(pipe, c, LastStep(c) + 1)
  BY <1>1, ConfigClaims
<1>3. /\ pipe'.p4 = pipe.p4 /\ pipe'.mcast = pipe.mcast
      /\ pipe'.digestOn = pipe.digestOn /\ pipe'.scionInt = pipe.scionInt
      /\ pipe'.node = pipe.node /\ pipe'.clone = pipe.clone
      /\ pipe.learn \subseteq pipe'.learn
  BY DEF LearnWrite, InsertLearn, Pipeline
<1>4. LastStep(c) \in Nat /\ LastStep(c) >= 4
  BY LastStepType
<1>5. BaseDone(pipe', LastStep(c) + 1)
  BY <1>2, <1>3, <1>4
     DEF Done, BaseDone, ConfigStep, FloodStep, StaticStep, DigestStep
<1>6. WithInt => ScionIntDone(pipe', c, LastStep(c) + 1) /\ EgressDone(pipe', c, LastStep(c) + 1)
  BY <1>2, <1>3 DEF Done, ScionIntDone, EgressDone
<1> QED
  BY <1>1, <1>5, <1>6 DEF Done

LEMMA ConfigNext ==
  ASSUME "init" \notin FallibleRpcs, TypeOK, ConnInv, ConfigInv, [Next]_vars
  PROVE  ConfigInv'
<1> SUFFICES ASSUME NEW d \in Ctrl, Claims(d)'
             PROVE  Done(pipe', d, StepOf(d)')
  BY ConfigClaimsNext
<1>1. ASSUME Claims(d), StepOf(d)' = StepOf(d), pipe' = pipe
      PROVE  Done(pipe', d, StepOf(d)')
  BY <1>1, ConfigClaims
<1>2. ASSUME NEW c \in Ctrl,
             \/ StartController(c) \/ RegisterController(c) \/ CrashController(c)
             \/ DetectCrash(c) \/ BreakStream(c) \/ RunReturns(c)
      PROVE  Done(pipe', d, StepOf(d)')
  BY <1>1, <1>2, ClaimsConnections
<1>3. CASE SwitchRestart
  BY <1>1, <1>3, ClaimsConnections
<1>4. ASSUME NEW c \in Ctrl, ReadElected(c) \/ ReadDemoted(c) \/ ReadDigest(c)
      PROVE  Done(pipe', d, StepOf(d)')
  BY <1>1, <1>4, ClaimsReads, DoneStart
<1>5. ASSUME NEW c \in Ctrl, Initialize(c)
      PROVE  Done(pipe', d, StepOf(d)')
  BY <1>5, ConfigInitialize
<1>6. ASSUME NEW c \in Ctrl, LearnWrite(c)
      PROVE  Done(pipe', d, StepOf(d)')
  BY <1>6, ConfigLearn
<1>7. ASSUME NEW c \in Ctrl, FailLearnWrite(c) \/ AckDigestList(c)
      PROVE  Done(pipe', d, StepOf(d)')
  <2>1. Claims(d) /\ StepOf(d)' = StepOf(d) /\ pipe' = pipe
    BY <1>7 DEF TypeOK, CtrlTypeOK, FailLearnWrite, AckDigestList, Claims, StepOf,
                connVars, dataVars
  <2> QED
    BY <1>1, <2>1
<1>8. ASSUME NEW m \in Mac, Frame(m)
      PROVE  Done(pipe', d, StepOf(d)')
  <2> DEFINE msg == DigestList([mac |-> m, port |-> loc[m]])
  <2>1. msg \in Message /\ stream[d] \in Seq(Message)
    BY MessageTypes DEF TypeOK, ConnTypeOK, DataTypeOK, Digest
  <2>2. stream'[d] = stream[d] \/ stream'[d] = Append(stream[d], msg)
    BY <1>8 DEF Frame, TypeOK, ConnTypeOK
  <2>3. ~Waits(stream[d])
    BY <2>1, <2>2, WaitsAppend DEF Claims
  <2>4. Claims(d) /\ StepOf(d)' = StepOf(d) /\ pipe' = pipe
    BY <1>8, <2>3 DEF Frame, Claims, StepOf, ctrlVars
  <2> QED
    BY <1>1, <2>4
<1>9. CASE UNCHANGED <<ctrlVars, connVars, pipe>>
  BY <1>1, <1>9 DEF ctrlVars, connVars, Claims, StepOf
<1> QED
  BY <1>2, <1>3, <1>4, <1>5, <1>6, <1>7, <1>8, <1>9
     DEF Next, Server, Controller, Move, ExpireDigest, vars, ctrlVars, connVars

\* A configuration that is done is in force.
LEMMA DoneInForce ==
  ASSUME NEW c \in Ctrl, Done(pipe, c, LastStep(c) + 1)
  PROVE  InForce(c)
<1>1. Len(IntTable[c]) \in Nat
  BY ConfigAssumption
<1>2. /\ pipe.p4 /\ pipe.mcast = FloodMcastGroups
      /\ Broadcast \in pipe.learn /\ pipe.digestOn
  BY <1>1
     DEF Done, BaseDone, LastStep, ConfigStep, FloodStep, StaticStep, DigestStep, CloneStep
<1>3. ASSUME WithInt
      PROVE  /\ pipe.scionInt[HostAs[c]] = CloneInt
             /\ \A i \in 1 .. Len(IntTable[c]) : SourceEntry(c, i) =>
                  pipe.scionInt[IntTable[c][i].as] = InsertInt(IntTable[c][i].bits)
             /\ pipe.node = c
             /\ pipe.clone
  <2>1. LastStep(c) + 1 = 8 + Len(IntTable[c])
    BY <1>1, <1>3 DEF LastStep, CloneStep
  <2>2. ScionIntDone(pipe, c, LastStep(c) + 1) /\ EgressDone(pipe, c, LastStep(c) + 1)
    BY <1>3 DEF Done
  <2>3. pipe.node = c /\ pipe.clone
    BY <1>1, <2>1, <2>2 DEF EgressDone, ConfigStep, EgressStep, CloneStep
  <2>4. pipe.scionInt[HostAs[c]] = CloneInt
    BY <1>1, <2>1, <2>2 DEF ScionIntDone, SinkStep
  <2>5. ASSUME NEW i \in 1 .. Len(IntTable[c]), SourceEntry(c, i)
        PROVE  pipe.scionInt[IntTable[c][i].as] = InsertInt(IntTable[c][i].bits)
    BY <1>1, <2>1, <2>2, <2>5 DEF ScionIntDone, ConfigStep, SourceStep
  <2> QED
    BY <2>3, <2>4, <2>5
<1> QED
  BY <1>2, <1>3 DEF InForce

LEMMA ConfigInForce == ConfigInv => PrimaryConfigInForce
<1> SUFFICES ASSUME ConfigInv, NEW c \in Ctrl, Settled(c)
             PROVE  InForce(c)
  BY DEF PrimaryConfigInForce
<1>1. Done(pipe, c, LastStep(c) + 1)
  BY DEF ConfigInv, Settled, StepOf
<1> QED
  BY <1>1, DoneInForce

\* Once a primary has handled its election, the switch runs that controller's whole
\* configuration and nothing of another's, for every number of controllers and faults,
\* if the RPCs of an initialization do not fail on the way to a switch that accepts them.
THEOREM PrimaryConfigInForceHolds ==
  ASSUME "init" \notin FallibleRpcs
  PROVE  Spec => []PrimaryConfigInForce
<1>1. Init => ConnInv /\ ConfigInv
  BY NodeAssumption DEF Init, ConnInv, ConfigInv
<1>2. TypeOK /\ ConnInv /\ ConfigInv /\ [Next]_vars => ConnInv' /\ ConfigInv'
  BY ConnNext, ConfigNext
<1> QED
  BY <1>1, <1>2, TypeCorrect, ConfigInForce, PTL DEF Spec

-----------------------------------------------------------------------------
(***************************************************************************)
(* ControlPlane implements PrimaryConfig.  A step that leaves the pipeline *)
(* alone settles nobody and maps to a new election, to a death or to a     *)
(* stutter; an RPC of the initialization is executed for the primary only  *)
(* and maps to a reset or to a step of the configuration, which settles    *)
(* with the primary's configuration in force by the invariant above; and   *)
(* learning maps to a binding or to a stutter.                             *)
(***************************************************************************)

AbstractStep == [Abstract!Next]_(Abstract!vars)

\* A settled controller has made its claim and is past its last step.
LEMMA SettledClaims ==
  ASSUME TypeOK, NEW d \in Ctrl
  PROVE  Settled(d) <=> Claims(d) /\ StepOf(d) = LastStep(d) + 1
<1>1. pc[d] = "init" => step[d] \in 1 .. LastStep(d)
  BY DEF TypeOK, CtrlTypeOK
<1>2. LastStep(d) \in Nat
  BY LastStepType
<1>3. ElectionPending(d) <=> Waits(stream[d])
  BY DEF ElectionPending, Waits
<1>4. StepOf(d) = LastStep(d) + 1 <=> pc[d] # "init"
  BY <1>1, <1>2 DEF StepOf
<1> QED
  BY <1>3, <1>4 DEF Settled, Claims

LEMMA SettledClaimsNext ==
  ASSUME TypeOK', NEW d \in Ctrl
  PROVE  Settled(d)' <=> Claims(d)' /\ StepOf(d)' = LastStep(d) + 1
<1>1. pc'[d] = "init" => step'[d] \in 1 .. LastStep(d)
  BY DEF TypeOK, CtrlTypeOK
<1>2. LastStep(d) \in Nat
  BY LastStepType
<1>3. ElectionPending(d)' <=> Waits(stream'[d])
  BY DEF ElectionPending, Waits
<1>4. StepOf(d)' = LastStep(d) + 1 <=> pc'[d] # "init"
  BY <1>1, <1>2 DEF StepOf
<1> QED
  BY <1>3, <1>4 DEF Settled, Claims

\* No step but one of an initialization or a learned address touches the pipeline
\* of a running switch, and none of these others settles anyone.
LEMMA OthersKeep ==
  ASSUME TypeOK, TypeOK', ConnInv, [Next]_vars,
         \A c \in Ctrl : ~Initialize(c) /\ ~LearnWrite(c), ~SwitchRestart
  PROVE  /\ pipe' = pipe
         /\ \A d \in Ctrl : Settled(d)' => Settled(d)
<1> DEFINE Kept(d) == Claims(d)' => /\ pipe' = pipe
                                    /\ \/ Claims(d) /\ StepOf(d)' = StepOf(d)
                                       \/ StepOf(d)' = ConfigStep
<1>1. ASSUME NEW c \in Ctrl,
             \/ StartController(c) \/ RegisterController(c) \/ CrashController(c)
             \/ DetectCrash(c) \/ BreakStream(c) \/ RunReturns(c)
      PROVE  pipe' = pipe /\ \A d \in Ctrl : Kept(d)
  <2>1. pipe' = pipe
    BY <1>1 DEF StartController, RegisterController, CrashController, DetectCrash,
                BreakStream, RunReturns, dataVars
  <2> QED
    BY <1>1, <2>1, ClaimsConnections
<1>2. ASSUME NEW c \in Ctrl, ReadElected(c) \/ ReadDemoted(c) \/ ReadDigest(c)
      PROVE  pipe' = pipe /\ \A d \in Ctrl : Kept(d)
  <2>1. pipe' = pipe
    BY <1>2 DEF ReadElected, ReadDemoted, ReadDigest, dataVars
  <2> QED
    BY <1>2, <2>1, ClaimsReads
<1>3. ASSUME NEW c \in Ctrl, FailLearnWrite(c) \/ AckDigestList(c)
      PROVE  pipe' = pipe /\ \A d \in Ctrl : Kept(d)
  BY <1>3 DEF TypeOK, CtrlTypeOK, FailLearnWrite, AckDigestList, Claims, StepOf,
              connVars, dataVars
<1>4. ASSUME NEW m \in Mac, Frame(m)
      PROVE  pipe' = pipe /\ \A d \in Ctrl : Kept(d)
  <2> SUFFICES ASSUME NEW d \in Ctrl
               PROVE  pipe' = pipe /\ Kept(d)
    BY <1>4 DEF Frame
  <2> DEFINE msg == DigestList([mac |-> m, port |-> loc[m]])
  <2>1. msg \in Message /\ stream[d] \in Seq(Message)
    BY MessageTypes DEF TypeOK, ConnTypeOK, DataTypeOK, Digest
  <2>2. stream'[d] = stream[d] \/ stream'[d] = Append(stream[d], msg)
    BY <1>4 DEF Frame, TypeOK, ConnTypeOK
  <2>3. Claims(d)' => ~Waits(stream[d])
    BY <2>1, <2>2, WaitsAppend DEF Claims
  <2> QED
    BY <1>4, <2>3 DEF Frame, Claims, StepOf, ctrlVars
<1>5. ASSUME UNCHANGED <<ctrlVars, connVars, pipe>>
      PROVE  pipe' = pipe /\ \A d \in Ctrl : Kept(d)
  BY <1>5 DEF ctrlVars, connVars, Claims, StepOf
<1>6. pipe' = pipe /\ \A d \in Ctrl : Kept(d)
  BY <1>1, <1>2, <1>3, <1>4, <1>5
     DEF Next, Server, Controller, Move, ExpireDigest, vars, ctrlVars, connVars
<1>7. ASSUME NEW d \in Ctrl, Settled(d)'
      PROVE  Settled(d)
  <2>1. Claims(d)' /\ StepOf(d)' = LastStep(d) + 1
    BY <1>7, SettledClaimsNext
  <2>2. LastStep(d) \in Nat /\ LastStep(d) >= 4
    BY LastStepType
  <2>3. Claims(d) /\ StepOf(d) = LastStep(d) + 1
    BY <1>6, <2>1, <2>2 DEF ConfigStep
  <2> QED
    BY <2>3, SettledClaims
<1> QED
  BY <1>6, <1>7

\* What is in force depends on the pipeline, and not on the addresses learned.
LEMMA InForceFrame ==
  ASSUME pipe'.p4 = pipe.p4, pipe'.mcast = pipe.mcast,
         pipe'.digestOn = pipe.digestOn, pipe'.scionInt = pipe.scionInt,
         pipe'.node = pipe.node, pipe'.clone = pipe.clone,
         Broadcast \in pipe'.learn <=> Broadcast \in pipe.learn
  PROVE  AllInForce' = AllInForce
<1>1. \A c \in Ctrl : InForce(c)' <=> InForce(c)
  BY DEF InForce
<1> QED
  BY <1>1 DEF AllInForce

LEMMA NothingInForce ==
  ASSUME pipe' = EmptyPipeline \/ pipe' = FreshPipeline
  PROVE  AllInForce' = {} /\ pipe'.forward = Abstract!Unbound
<1>1. Broadcast \notin pipe'.learn
  BY DEF EmptyPipeline, FreshPipeline
<1>2. \A c \in Ctrl : ~InForce(c)'
  BY <1>1 DEF InForce
<1> QED
  BY <1>2 DEF AllInForce, EmptyPipeline, FreshPipeline, Abstract!Unbound

\* A step that leaves the pipeline alone and settles nobody.
LEMMA KeepsStep ==
  ASSUME TypeOK, TypeOK', pipe' = pipe, \A d \in Ctrl : Settled(d)' => Settled(d)
  PROVE  AbstractStep
<1>1. AllInForce' = AllInForce
  BY InForceFrame
<1>2. CASE primary' = primary
  <2>1. AnySettled' => AnySettled
    BY DEF AnySettled
  <2>2. CASE AnySettled' = AnySettled
    BY <1>1, <1>2, <2>2 DEF AbstractStep, Abstract!vars
  <2>3. CASE AnySettled /\ ~AnySettled'
    BY <1>1, <1>2, <2>3 DEF AbstractStep, Abstract!Next, Abstract!Die
  <2> QED
    BY <2>1, <2>2, <2>3 DEF AnySettled
<1>3. CASE primary' # primary
  <2>1. ~AnySettled'
    BY <1>3 DEF AnySettled, Settled
  <2>2. primary' \in Ctrl \cup {None}
    BY DEF TypeOK, ConnTypeOK
  <2>3. AnySettled' = FALSE
    BY <2>1 DEF AnySettled
  <2> QED
    BY <1>1, <1>3, <2>2, <2>3 DEF AbstractStep, Abstract!Next, Abstract!Elect
<1> QED
  BY <1>2, <1>3

-----------------------------------------------------------------------------
(* The other steps. *)

LEMMA RestartStep ==
  ASSUME SwitchRestart
  PROVE  AbstractStep
<1>1. AllInForce' = {} /\ pipe'.forward = Abstract!Unbound
  BY NothingInForce DEF SwitchRestart
<1>2. primary' = None /\ AnySettled' = FALSE
  BY NodeAssumption DEF SwitchRestart, AnySettled, Settled
<1> QED
  BY <1>1, <1>2 DEF AbstractStep, Abstract!Next, Abstract!Restart

\* A refused or executed RPC of c leaves the others where they are.
LEMMA InitializeFrame ==
  ASSUME TypeOK, NEW c \in Ctrl, Initialize(c)
  PROVE  /\ UNCHANGED connVars
         /\ pc[c] = "init" /\ NextStep(c)
         /\ pipe' # pipe => primary = c
         /\ pipe' = FreshPipeline \/ pipe'.forward = pipe.forward
         /\ SetPipelineConfig(c) \/ pipe'.forward = pipe.forward
<1>1. pipe \in Pipeline
  BY DEF TypeOK, DataTypeOK
<1> QED
  BY <1>1
     DEF Initialize, InitWrite, AtStep, Writable, SetPipelineConfig,
         CreateFloodMulticastGroup, InstallStaticTableEntries, ConfigDigestMessages,
         InstallSinkEntry, InstallSourceEntry, InstallEgressEntries, ConfigCloneSession,
         FailInitRpc, dataVars, WithFloodGroups, WithBroadcastEntry, WithDigestConfig,
         WithSinkEntry, WithSourceEntry, WithEgressEntries, WithCloneSession, Pipeline

LEMMA ConfigInForceNext ==
  ASSUME ConfigInv'
  PROVE  PrimaryConfigInForce'
  BY ConfigInForce, PTL

LEMMA InitializeStep ==
  ASSUME TypeOK, TypeOK', PrimaryConfigInForce', NEW c \in Ctrl, Initialize(c)
  PROVE  AbstractStep
<1>1. /\ primary' = primary /\ stream' = stream
      /\ pc[c] = "init" /\ NextStep(c)
      /\ pipe' # pipe => primary = c
      /\ SetPipelineConfig(c) \/ pipe'.forward = pipe.forward
  BY InitializeFrame DEF connVars
<1>2. CASE primary # c
  <2>1. \A d \in Ctrl : Settled(d)' => Settled(d)
    BY <1>1, <1>2 DEF NextStep, Settled, ElectionPending, TypeOK, CtrlTypeOK
  <2> QED
    BY <1>1, <1>2, <2>1, KeepsStep
<1>3. CASE primary = c
  <2>1. AnySettled = FALSE
    BY <1>1, <1>3 DEF AnySettled, Settled
  <2>2. c # None /\ primary # None
    BY <1>3, NodeAssumption
  <2>3. CASE SetPipelineConfig(c)
    <3>1. step[c] # LastStep(c)
      BY <2>3, LastStepType DEF SetPipelineConfig, AtStep, ConfigStep
    <3>2. pc'[c] = "init"
      BY <1>1, <3>1 DEF NextStep, TypeOK, CtrlTypeOK
    <3>3. AnySettled' = FALSE
      BY <1>1, <1>3, <3>2 DEF AnySettled, Settled
    <3>4. AllInForce' = {} /\ pipe'.forward = Abstract!Unbound
      BY <2>3, NothingInForce DEF SetPipelineConfig
    <3> QED
      BY <1>1, <2>1, <2>2, <3>3, <3>4 DEF AbstractStep, Abstract!Next, Abstract!Reset
  <2>4. CASE pipe'.forward = pipe.forward
    <3>1. AnySettled' \in BOOLEAN /\ AllInForce' \subseteq Ctrl
      BY DEF AnySettled, AllInForce
    <3>2. AnySettled' => primary \in AllInForce'
      BY <1>1, <1>3 DEF AnySettled, Settled, AllInForce, PrimaryConfigInForce
    <3> QED
      BY <1>1, <2>1, <2>2, <2>4, <3>1, <3>2
         DEF AbstractStep, Abstract!Next, Abstract!Configure
  <2> QED
    BY <1>1, <2>3, <2>4
<1> QED
  BY <1>2, <1>3

LEMMA LearnStep ==
  ASSUME TypeOK, TypeOK', NEW c \in Ctrl, LearnWrite(c)
  PROVE  AbstractStep
<1> DEFINE m == cur[c].mac
           p == cur[c].port
<1>1. /\ pipe \in Pipeline /\ m \in Mac /\ p \in Port
      /\ pc \in [Ctrl -> {"down", "read", "init", "learn", "ack", "dead"}]
  BY DEF LearnWrite, TypeOK, CtrlTypeOK, DataTypeOK, Digest
<1>2. /\ pipe' = [pipe EXCEPT !.learn = InsertLearn(@, m),
                              !.forward = InsertForward(@, m, p)]
      /\ primary' = primary /\ stream' = stream
      /\ primary = c /\ c # None
      /\ pc[c] = "learn" /\ pc' = [pc EXCEPT ![c] = "ack"]
  BY NodeAssumption DEF LearnWrite, Writable, connVars
<1>3. AnySettled' = AnySettled
  <2>1. \A d \in Ctrl : Settled(d)' <=> Settled(d)
    BY <1>1, <1>2 DEF Settled, ElectionPending
  <2> QED
    BY <2>1 DEF AnySettled
<1>4. AllInForce' = AllInForce
  <2>1. Broadcast \in InsertLearn(pipe.learn, m) <=> Broadcast \in pipe.learn
    BY <1>1, MacAssumption DEF InsertLearn
  <2>2. /\ pipe'.p4 = pipe.p4 /\ pipe'.mcast = pipe.mcast
        /\ pipe'.digestOn = pipe.digestOn /\ pipe'.scionInt = pipe.scionInt
        /\ pipe'.node = pipe.node /\ pipe'.clone = pipe.clone
        /\ pipe'.learn = InsertLearn(pipe.learn, m)
    BY <1>1, <1>2 DEF Pipeline
  <2> QED
    BY <2>1, <2>2, InForceFrame
<1>5. pipe'.forward = InsertForward(pipe.forward, m, p)
  BY <1>1, <1>2 DEF Pipeline
<1>6. CASE pipe'.forward = pipe.forward
  BY <1>2, <1>3, <1>4, <1>6 DEF AbstractStep, Abstract!vars
<1>7. CASE pipe'.forward # pipe.forward
  <2>1. Abstract!Bind(m, p)
    BY <1>2, <1>3, <1>4, <1>5, <1>7 DEF InsertForward, Abstract!Bind
  <2> QED
    BY <1>1, <2>1 DEF AbstractStep, Abstract!Next
<1> QED
  BY <1>6, <1>7

\* Whatever the interleaving of elections, crashes, restarts and late RPCs, only the
\* elected controller changes the switch, its configuration is not touched once it has
\* settled, and an address is bound once -- for every number of controllers, if the RPCs
\* of an initialization do not fail on the way to a switch that accepts them.
THEOREM Implementation ==
  ASSUME "init" \notin FallibleRpcs
  PROVE  Spec => ImplementsPrimaryConfig
<1>1. Init => Abstract!Init
  <2> SUFFICES ASSUME Init PROVE Abstract!Init
    OBVIOUS
  <2>1. primary = None /\ pipe = EmptyPipeline
    BY DEF Init
  <2>2. AnySettled = FALSE
    BY <2>1, NodeAssumption DEF AnySettled, Settled
  <2>3. AllInForce = {} /\ pipe.forward = Abstract!Unbound
    BY <2>1 DEF AllInForce, InForce, EmptyPipeline, Abstract!Unbound
  <2> QED
    BY <2>1, <2>2, <2>3 DEF Abstract!Init
<1>2. Init => ConnInv /\ ConfigInv
  BY NodeAssumption DEF Init, ConnInv, ConfigInv
<1>3. TypeOK /\ ConnInv /\ ConfigInv /\ [Next]_vars => ConnInv' /\ ConfigInv'
  BY ConnNext, ConfigNext
<1>4. TypeOK /\ TypeOK' /\ ConnInv /\ ConfigInv /\ [Next]_vars => AbstractStep
  <2> SUFFICES ASSUME TypeOK, TypeOK', ConnInv, ConfigInv, [Next]_vars
               PROVE  AbstractStep
    OBVIOUS
  <2>1. CASE SwitchRestart
    BY <2>1, RestartStep
  <2>2. CASE \E c \in Ctrl : Initialize(c)
    <3>1. PrimaryConfigInForce'
      <4>1. ConfigInv'
        BY ConfigNext
      <4> QED
        BY <4>1, ConfigInForceNext
    <3> QED
      BY <2>2, <3>1, InitializeStep
  <2>3. CASE \E c \in Ctrl : LearnWrite(c)
    BY <2>3, LearnStep
  <2>4. CASE /\ \A c \in Ctrl : ~Initialize(c) /\ ~LearnWrite(c)
             /\ ~SwitchRestart
    BY <2>4, OthersKeep, KeepsStep
  <2> QED
    BY <2>1, <2>2, <2>3, <2>4
<1>5. TypeOK /\ TypeOK' /\ ConnInv /\ ConfigInv /\ [Next]_vars
        => [Abstract!Next]_(Abstract!vars)
  BY <1>4 DEF AbstractStep
<1> QED
  BY <1>1, <1>2, <1>3, <1>5, TypeCorrect, PTL
     DEF Spec, ImplementsPrimaryConfig, Abstract!Spec
=============================================================================
