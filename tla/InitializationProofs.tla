------------------------ MODULE InitializationProofs ------------------------
(***************************************************************************)
(* What the table operations of Switch and the initialization steps of     *)
(* Initialization return, for tables of any size.                          *)
(***************************************************************************)
EXTENDS Initialization, FiniteSetTheorems, TLAPS

\* The two pipelines a switch starts from are pipelines.
LEMMA StartPipelines == EmptyPipeline \in Pipeline /\ FreshPipeline \in Pipeline
  BY PortAssumption
     DEF EmptyPipeline, FreshPipeline, Pipeline, IntEntry, NoAction

\* INSERT into a table gives a table.
LEMMA InsertTypes ==
  /\ \A learn \in SUBSET (Mac \cup {Broadcast}), m \in Mac \cup {Broadcast} :
       InsertLearn(learn, m) \in SUBSET (Mac \cup {Broadcast})
  /\ \A forward \in [Mac -> Port \cup {None}], m \in Mac, port \in Port :
       InsertForward(forward, m, port) \in [Mac -> Port \cup {None}]
  /\ \A scionInt \in [As -> IntEntry], a \in As, entry \in IntEntry :
       InsertScionInt(scionInt, a, entry) \in [As -> IntEntry]
  BY DEF InsertLearn, InsertForward, InsertScionInt

\* A line of a controller's INT table is one.
LEMMA LineType ==
  ASSUME NEW c \in Ctrl, NEW i \in 1 .. Len(IntTable[c])
  PROVE  IntTable[c][i] \in IntTableLine
  BY ConfigAssumption

\* Each step of the initialization turns a pipeline into a pipeline.
LEMMA InitStepTypes ==
  ASSUME NEW p \in Pipeline, NEW c \in Ctrl
  PROVE  /\ WithFloodGroups(p) \in Pipeline
         /\ WithBroadcastEntry(p) \in Pipeline
         /\ WithDigestConfig(p) \in Pipeline
         /\ WithSinkEntry(p, c) \in Pipeline
         /\ \A i \in 1 .. Len(IntTable[c]) : WithSourceEntry(p, c, i) \in Pipeline
         /\ WithEgressEntries(p, c) \in Pipeline
         /\ WithCloneSession(p) \in Pipeline
<1>1. WithFloodGroups(p) \in Pipeline
  BY DEF WithFloodGroups, FloodMcastGroups, Pipeline
<1>2. WithBroadcastEntry(p) \in Pipeline
  BY InsertTypes DEF WithBroadcastEntry, Pipeline
<1>3. WithDigestConfig(p) \in Pipeline
  BY DEF WithDigestConfig, Pipeline
<1>4. WithSinkEntry(p, c) \in Pipeline
  <2>1. HostAs[c] \in As /\ CloneInt \in IntEntry
    BY ConfigAssumption DEF CloneInt, IntEntry
  <2> QED
    BY <2>1, InsertTypes DEF WithSinkEntry, Pipeline
<1>5. ASSUME NEW i \in 1 .. Len(IntTable[c])
      PROVE  WithSourceEntry(p, c, i) \in Pipeline
  <2>1. IntTable[c][i].as \in As /\ InsertInt(IntTable[c][i].bits) \in IntEntry
    BY LineType DEF IntTableLine, InsertInt, IntEntry
  <2> QED
    BY <2>1, InsertTypes DEF WithSourceEntry, Pipeline
<1>6. WithEgressEntries(p, c) \in Pipeline
  BY DEF WithEgressEntries, Pipeline
<1>7. WithCloneSession(p) \in Pipeline
  BY DEF WithCloneSession, Pipeline
<1> QED
  BY <1>1, <1>2, <1>3, <1>4, <1>5, <1>6, <1>7
=============================================================================
