---------------------------- MODULE MCIntNetwork ----------------------------
(***************************************************************************)
(* Three switches in a row: n1 in AS 1, n2 and n3 in AS 3.  Flow "up" goes *)
(* from n1 to AS 3, flow "down" from n3 to AS 1; n2 is the first of two    *)
(* sinks for "up", and on the way for "down".                              *)
(***************************************************************************)
EXTENDS IntNetwork

CONSTANTS n1, n2, n3, as1, as3

MCHostAs == [n \in Ctrl |-> IF n = n1 THEN as1 ELSE as3]

MCFlow == {"up", "down"}
MCDest == [f \in MCFlow |-> IF f = "up" THEN as3 ELSE as1]
MCRoute == [f \in MCFlow |-> IF f = "up" THEN <<n1, n2, n3>> ELSE <<n3, n2, n1>>]

\* 0x8d00 0x0001, the bitmaps of the demo topology; another supported combination;
\* bitmaps left out of a line.
Demo == {"node_id", "ig_time", "eg_time", "eg_util", "as_addr"}
Short == {"node_id", "eg_time"}
Empty == {}
MCBitmap == {Demo, Short, Empty}

Table(up, down, atTransit) ==
  [n \in Ctrl |-> CASE n = n1 -> << [as |-> as3, bits |-> up] >>
                     [] n = n2 -> << [as |-> as3, bits |-> Demo] >> \o atTransit
                     [] n = n3 -> << [as |-> as1, bits |-> down] >>]

DemoTable        == Table(Demo, Short, <<>>)
EmptyLineTable   == Table(Demo, Empty, <<>>)
TransitTable     == Table(Demo, Short, << [as |-> as1, bits |-> Short] >>)

\* These routes have one source each, behind which a sink follows, and the tables ask
\* for fields that can be recorded; with n2 as a second source for "down" they do not.
ASSUME DeploymentAssumption ==
  IF IntTable = TransitTable THEN ~OneSource
  ELSE OneSource /\ SinkFollows /\ AsksRecordable
=============================================================================
