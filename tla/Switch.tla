------------------------------- MODULE Switch -------------------------------
(***************************************************************************)
(* The tables of one switch as its P4 program declares them, what a        *)
(* P4Runtime INSERT does to each, and how the layer-2 part forwards a      *)
(* frame.  The record `pipe' of ControlPlane holds a value of Pipeline.    *)
(*                                                                         *)
(*   data_plane/include/l2_switch.p4   learn_table, forward_table          *)
(*   data_plane/include/int_switch.p4  scion_int and the egress tables     *)
(***************************************************************************)
EXTENDS Integers, FiniteSets

CONSTANTS
  Mac,          \* unicast source addresses of the attached hosts
  Broadcast,    \* the address 0xFFFFFFFFFFFF
  NumPorts,     \* NUM_SWITCH_PORTS; the ports are 0 .. NumPorts - 1
  LearnSize,    \* size of learn_table, 1024 in the source
  ForwardSize,  \* size of forward_table, 1024 in the source
  As,           \* destination ISD-AS addresses
  Bitmap,       \* instruction bitmaps an INT table line can ask for
  Ctrl,         \* controller processes; also names the node ID each installs
  None          \* "no such value"

ASSUME MacAssumption  == Broadcast \notin Mac /\ None \notin Mac
ASSUME PortAssumption == NumPorts \in Nat \ {0} /\ None \notin 0 .. NumPorts - 1
ASSUME SizeAssumption == /\ LearnSize \in Nat \ {0}
                         /\ ForwardSize \in Nat
                         /\ LearnSize <= ForwardSize
ASSUME NodeAssumption == None \notin Ctrl /\ None \notin Bitmap

Port == 0 .. NumPorts - 1

(***************************************************************************)
(* An entry of scion_int: the action of int_switch.p4 that it runs, and    *)
(* the bitmaps insert_int takes as parameters.                             *)
(***************************************************************************)
IntEntry == [action : {"NoAction", "insert_int", "clone_int"},
             bits   : Bitmap \cup {None}]

NoAction        == [action |-> "NoAction",   bits |-> None]
InsertInt(bits) == [action |-> "insert_int", bits |-> bits]
CloneInt        == [action |-> "clone_int",  bits |-> None]

Pipeline == [p4       : BOOLEAN,                  \* a forwarding pipeline is set
             learn    : SUBSET (Mac \cup {Broadcast}),
             forward  : [Mac -> Port \cup {None}],
             mcast    : [1 .. NumPorts -> SUBSET Port],
             digestOn : BOOLEAN,                  \* digest extern configured
             scionInt : [As -> IntEntry],
             node     : Ctrl \cup {None},         \* whose node ID, AS address and
                                                  \* tx utilization entries
             clone    : BOOLEAN]                  \* clone session 1 exists

\* A switch that just booted, and (with p4 = TRUE) one whose pipeline was just set.
EmptyPipeline == [p4       |-> FALSE,
                  learn    |-> {},
                  forward  |-> [m \in Mac |-> None],
                  mcast    |-> [g \in 1 .. NumPorts |-> {}],
                  digestOn |-> FALSE,
                  scionInt |-> [a \in As |-> NoAction],
                  node     |-> None,
                  clone    |-> FALSE]

FreshPipeline == [EmptyPipeline EXCEPT !.p4 = TRUE]

-----------------------------------------------------------------------------
(***************************************************************************)
(* INSERT leaves the entry that has the key alone and fails when the table *)
(* is full; the request is CONTINUE_ON_ERROR, so its other updates run.    *)
(***************************************************************************)
Forwarded(forward) == {m \in Mac : forward[m] # None}

InsertLearn(learn, m) ==
  IF Cardinality(learn) < LearnSize THEN learn \cup {m} ELSE learn

\* Mutant: MODIFY where the source says INSERT.
ModifyForward(forward, m, port) ==
  IF forward[m] # None \/ Cardinality(Forwarded(forward)) < ForwardSize
  THEN [forward EXCEPT ![m] = port]
  ELSE forward

\* Mutant: a forward_table with one entry less than declared.
ShortForwardTable(forward, m, port) ==
  IF forward[m] = None /\ Cardinality(Forwarded(forward)) < ForwardSize - 1
  THEN [forward EXCEPT ![m] = port]
  ELSE forward

InsertForward(forward, m, port) ==
  IF forward[m] = None /\ Cardinality(Forwarded(forward)) < ForwardSize
  THEN [forward EXCEPT ![m] = port]
  ELSE forward

InsertScionInt(scionInt, a, entry) ==
  IF scionInt[a] = NoAction THEN [scionInt EXCEPT ![a] = entry] ELSE scionInt

-----------------------------------------------------------------------------
\* The ports a frame for dst that came in on port `in' leaves by: forward_table
\* is a hit, or its default action floods to multicast group in + 1.
OutPorts(pipe, dst, in) ==
  CASE ~pipe.p4                                 -> {}
    [] pipe.p4 /\ pipe.forward[dst] # None      -> {pipe.forward[dst]}
    [] pipe.p4 /\ pipe.forward[dst] = None      -> pipe.mcast[in + 1]

\* learn_table is a miss for this source address: learn_source sends a digest.
Unlearned(pipe, m) == pipe.p4 /\ pipe.digestOn /\ m \notin pipe.learn
=============================================================================
