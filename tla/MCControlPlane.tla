--------------------------- MODULE MCControlPlane ---------------------------
(* Small instances of ControlPlane for TLC. *)
EXTENDS ElectedControl

CONSTANTS c1, c2, a1, a2, a3, b1, b2, h1, h2, h3

\* The second controller started has the higher election ID.
MCElectionId == [c \in Ctrl |-> IF c = c1 THEN 1 ELSE IF c = c2 THEN 2 ELSE 3]

MCHostAs == [c \in Ctrl |-> a1]

\* c1's table lists its own AS and one AS twice; c2's table is shorter.
MCIntTable ==
  [c \in Ctrl |->
     IF c = c1 THEN << [as |-> a1, bits |-> b1],
                       [as |-> a2, bits |-> b1],
                       [as |-> a2, bits |-> b2] >>
     ELSE << [as |-> a3, bits |-> b2] >>]

NoIntTable == [c \in Ctrl |-> <<>>]
=============================================================================
