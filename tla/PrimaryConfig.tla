---------------------------- MODULE PrimaryConfig ----------------------------
(***************************************************************************)
(* What the controllers of a switch promise together, without processes,   *)
(* streams, RPCs and faults: the switch has one owner at a time; only an   *)
(* owner that has not settled yet changes the configuration; it settles    *)
(* with its own configuration in force, which then stays as it is for as   *)
(* long as it is settled; and an address is bound to a port once.          *)
(***************************************************************************)
CONSTANTS Ctrl, Mac, Port, None

VARIABLES
  owner,    \* the elected controller, or None
  settled,  \* the owner is through with its initialization
  inForce,  \* the controllers whose whole configuration the switch runs
  bound     \* the port each address is bound to, or None

vars == <<owner, settled, inForce, bound>>

Unbound == [m \in Mac |-> None]

Init == owner = None /\ settled = FALSE /\ inForce = {} /\ bound = Unbound

\* Another owner, or none, is elected; the old configuration is still there.
Elect ==
  /\ owner' # owner /\ owner' \in Ctrl \cup {None}
  /\ settled' = FALSE
  /\ UNCHANGED <<inForce, bound>>

\* The owner dies, which the switch does not know yet.
Die == settled /\ settled' = FALSE /\ UNCHANGED <<owner, inForce, bound>>

\* The switch starts anew.
Restart == owner' = None /\ settled' = FALSE /\ inForce' = {} /\ bound' = Unbound

\* The owner sets the pipeline, which forgets everything.
Reset ==
  /\ owner # None /\ ~settled /\ settled' = FALSE
  /\ inForce' = {} /\ bound' = Unbound
  /\ UNCHANGED owner

\* The owner adds to the configuration, and settles when its own is in force.
Configure ==
  /\ owner # None /\ ~settled
  /\ settled' \in BOOLEAN /\ inForce' \subseteq Ctrl
  /\ settled' => owner \in inForce'
  /\ UNCHANGED <<owner, bound>>

\* An address is learned.
Bind(m, p) ==
  /\ owner # None /\ bound[m] = None
  /\ bound' = [bound EXCEPT ![m] = p]
  /\ UNCHANGED <<owner, settled, inForce>>

Next == Elect \/ Die \/ Restart \/ Reset \/ Configure
        \/ \E m \in Mac, p \in Port : Bind(m, p)

Spec == Init /\ [][Next]_vars
=============================================================================
