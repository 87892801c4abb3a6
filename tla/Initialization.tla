--------------------------- MODULE Initialization ---------------------------
(***************************************************************************)
(* The initialization of a switch by the controller it elected: the RPCs   *)
(* in the order ControlPlane::handleArbitrationUpdate and then the         *)
(* arbitration callbacks of the sub-controllers, bottom of the stack       *)
(* first, send them, and what each does to the pipeline.  ControlPlane     *)
(* interleaves these steps with elections and faults, IntNetwork with      *)
(* packets.                                                                *)
(***************************************************************************)
EXTENDS Switch, Sequences

CONSTANTS
  WithInt,   \* int_switch's controller (TRUE) or l2_switch_grpc's (FALSE)
  HostAs,    \* [Ctrl -> As], <as address> on the command line
  IntTable   \* [Ctrl -> Seq of lines], <int table>: what to insert per AS

IntTableLine == [as : As, bits : Bitmap]

ASSUME ConfigAssumption ==
  /\ WithInt \in BOOLEAN
  /\ HostAs \in [Ctrl -> As]
  /\ IntTable \in [Ctrl -> Seq(IntTableLine)]

\* A line of the INT table is a request of its own.
ConfigStep    == 1
FloodStep     == 2
StaticStep    == 3
DigestStep    == 4
SinkStep      == 5
SourceStep(i) == 5 + i
EgressStep(c) == 6 + Len(IntTable[c])
CloneStep(c)  == 7 + Len(IntTable[c])

\* Mutant: IntController's callback ends without configCloneSession.
LastStepNoClone(c) == IF WithInt THEN EgressStep(c) ELSE DigestStep

LastStep(c) == IF WithInt THEN CloneStep(c) ELSE DigestStep

-----------------------------------------------------------------------------
\* Mutant: group i + 1 excludes port i + 1.
FloodGroupsOffByOne == [g \in 1 .. NumPorts |-> {i \in Port : i # g}]

\* One group per port; group i + 1 holds every port but i.
FloodMcastGroups == [g \in 1 .. NumPorts |-> {i \in Port : i # g - 1}]

WithFloodGroups(p)    == [p EXCEPT !.mcast = FloodMcastGroups]
WithBroadcastEntry(p) == [p EXCEPT !.learn = InsertLearn(@, Broadcast)]
WithDigestConfig(p)   == [p EXCEPT !.digestOn = TRUE]

\* The switch is INT sink for its own AS ...
WithSinkEntry(p, c) ==
  [p EXCEPT !.scionInt = InsertScionInt(@, HostAs[c], CloneInt)]

\* ... and source for the others its table lists; a line for its own AS is
\* skipped: the request is empty.
WithSourceEntry(p, c, i) ==
  LET line == IntTable[c][i] IN
  IF line.as = HostAs[c] THEN p
  ELSE [p EXCEPT !.scionInt = InsertScionInt(@, line.as, InsertInt(line.bits))]

\* Node ID, AS address and tx utilization entries are one request.
WithEgressEntries(p, c) == [p EXCEPT !.node = IF @ = None THEN c ELSE @]

WithCloneSession(p) == [p EXCEPT !.clone = TRUE]

-----------------------------------------------------------------------------
\* What step s of c makes of the pipeline.
PerformStep(p, c, s) ==
  CASE s = ConfigStep -> FreshPipeline
    [] s = FloodStep  -> WithFloodGroups(p)
    [] s = StaticStep -> WithBroadcastEntry(p)
    [] s = DigestStep -> WithDigestConfig(p)
    [] s = SinkStep   -> WithSinkEntry(p, c)
    [] s > SinkStep /\ s < EgressStep(c) -> WithSourceEntry(p, c, s - SinkStep)
    [] s = EgressStep(c) -> WithEgressEntries(p, c)
    [] s = CloneStep(c)  -> WithCloneSession(p)

\* The pipeline after the first s steps of c, when nothing interferes.
PipelineAfter(c) ==
  LET after[s \in 0 .. LastStep(c)] ==
        IF s = 0 THEN EmptyPipeline ELSE PerformStep(after[s - 1], c, s)
  IN after
=============================================================================
