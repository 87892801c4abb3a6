---------------------------- MODULE StaleDigest -----------------------------
(***************************************************************************)
(* ControlPlane with a history variable: what the pipeline that is set now *)
(* has itself seen of each host.                                           *)
(***************************************************************************)
EXTENDS MCControlPlane

VARIABLE seen   \* digests sent since the pipeline was last set or lost

Reset == SwitchRestart \/ \E c \in Ctrl : SetPipelineConfig(c)

HistoryInit == Init /\ seen = {}

HistoryNext ==
  /\ Next
  /\ seen' = IF Reset THEN {} ELSE seen \cup (pending' \ pending)

HistorySpec == HistoryInit /\ [][HistoryNext]_<<vars, seen>>

\* "every change in primary controller simply resets the pipeline and does not keep
\* state" (l2_switch_grpc/README.md): what forward_table says of a host comes from a
\* frame that this pipeline saw.
FreshLearning ==
  \A m \in Mac : pipe.forward[m] # None
    => [mac |-> m, port |-> pipe.forward[m]] \in seen
=============================================================================
