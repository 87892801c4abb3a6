----------------------------- MODULE MCBenchmark -----------------------------
(* The three flows of main.go, with fewer reports and a shorter queue.        *)
EXTENDS Benchmark

Hop(as, in, out) == [node |-> [asn |-> as, id |-> 1], in |-> in, out |-> out]

Flow(src, dst, id, path) == [key |-> [src |-> src, dst |-> dst, id |-> id], path |-> path]

MCFlows ==
  << Flow(1, 4, 1, <<Hop(1, 0, 1), Hop(2, 1, 2), Hop(4, 1, 0)>>),
     Flow(1, 4, 2, <<Hop(1, 0, 2), Hop(3, 1, 2), Hop(4, 2, 0)>>),
     Flow(4, 1, 1, <<Hop(4, 0, 1), Hop(2, 2, 1), Hop(1, 1, 0)>>) >>

ASSUME MCFlowsFit == FlowsFit
=============================================================================
