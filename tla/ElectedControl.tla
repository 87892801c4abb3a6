---------------------------- MODULE ElectedControl ----------------------------
(***************************************************************************)
(* ControlPlane implements PrimaryConfig.                                  *)
(***************************************************************************)
EXTENDS ControlPlane

AnySettled == \E c \in Ctrl : Settled(c)
AllInForce == {c \in Ctrl : InForce(c)}

Abstract == INSTANCE PrimaryConfig
  WITH owner <- primary, settled <- AnySettled, inForce <- AllInForce, bound <- pipe.forward

\* connection.cpp puts device ID and election ID into every request, so that the
\* switch tells the primary from a controller that has been demoted but does not
\* know it yet; control_plane.cpp and the callbacks rely on it and never look
\* back.  Whatever the interleaving of elections, crashes, restarts and late RPCs,
\* only the elected controller changes the switch, its configuration is not
\* touched once it has settled, and an address is bound once.  (RPCs to a
\* reachable switch succeed.)
ImplementsPrimaryConfig == Abstract!Spec
=============================================================================
