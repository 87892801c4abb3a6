------------------------------ MODULE IntReport ------------------------------
(***************************************************************************)
(* IntController::handlePacketIn: from the headers and the INT stack of a  *)
(* cloned packet to the hops of a report.                                  *)
(***************************************************************************)
EXTENDS IntDataPlane

CONSTANT Garbage   \* what a read beyond the end of the packet returns

StackSize(pkt) == pkt.int.length - 3
HopSize(pkt) == pkt.int.hopML

\* intStackSize % intHopSize divides by zero: the process dies.
DividesByZero(pkt) == HopSize(pkt) = 0

\* "Received INT stack with invalid length!": no report.
InvalidLength(pkt) == StackSize(pkt) % HopSize(pkt) # 0

\* What the loop over the hops reads: each field whose bit is set, in order, with
\* the position carried on from field to field and from hop to hop.
HopWords(pkt) == Len(StackOf(None, pkt.int.bits))

Position(f) == CHOOSE i \in 1 .. Len(FieldOrder) : FieldOrder[i] = f

\* Mutant: every field is taken for one word.
OffsetInFields(pkt, f) ==
  Cardinality({i \in 1 .. Position(f) - 1 : FieldOrder[i] \in pkt.int.bits})

OffsetOf(pkt, f) ==
  Len(FlattenSeq(SubSeq(Emitted(None, pkt.int.bits), 1, Position(f) - 1)))

WordAt(pkt, i) == IF i <= Len(pkt.body) THEN pkt.body[i] ELSE Garbage

ReadField(pkt, hop, f) ==
  LET pos == (hop - 1) * HopWords(pkt) + OffsetOf(pkt, f)
  IN  [k \in 1 .. Width(f) |-> WordAt(pkt, pos + k)]

Hops(pkt) ==
  [hop \in 1 .. StackSize(pkt) \div HopSize(pkt) |->
     [f \in pkt.int.bits |-> ReadField(pkt, hop, f)]]
=============================================================================
