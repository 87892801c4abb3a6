---------------------------- MODULE IntDataPlane ----------------------------
(***************************************************************************)
(* What int_switch.p4 does to one SCION/UDP packet: the parser, the        *)
(* ingress table scion_int, the egress tables and the deparser.            *)
(*                                                                         *)
(*   data_plane/int_switch.p4, parser/intParser.p4     parser, deparser    *)
(*   data_plane/include/int_switch.p4                  ingress, egress     *)
(*                                                                         *)
(* Lengths of INT data are counted in 32-bit words, those of packets in    *)
(* bytes.  A bitmap is the set of the fields it asks for, the bit of       *)
(* domainInstructions ("as_addr") included.                                *)
(***************************************************************************)
EXTENDS Initialization, SequencesExt

CONSTANT AppPort   \* the UDP port of the receiving application

\* UDP_PORT: the destination port that signals an INT shim header.
UdpPort == 12345

ASSUME AppPortAssumption == AppPort \in Nat /\ AppPort # UdpPort

\* The fields in the order of int_stack_t, which is also that of the bits.
FieldOrder == << "node_id", "l1_if", "hop_latency", "queue", "ig_time",
                 "eg_time", "l2_if", "eg_util", "buffer", "as_addr" >>
Field == {FieldOrder[i] : i \in 1 .. Len(FieldOrder)}

Width(f) == IF f \in {"ig_time", "eg_time", "l2_if", "as_addr"} THEN 2 ELSE 1

ASSUME BitmapAssumption == \A bits \in Bitmap : bits \subseteq Field

\* The k-th word of field f that node n recorded.
FieldWords(n, f) == [k \in 1 .. Width(f) |-> [node |-> n, field |-> f, word |-> k]]

\* The deparser emits the headers of the stack in order, those that are valid.
Emitted(n, fields) ==
  [i \in 1 .. Len(FieldOrder) |->
     IF FieldOrder[i] \in fields THEN FieldWords(n, FieldOrder[i]) ELSE <<>>]

\* What node n appends to the stack for these fields.
StackOf(n, fields) == FlattenSeq(Emitted(n, fields))

-----------------------------------------------------------------------------
(***************************************************************************)
(* A packet on the wire.  int is the shim and INT-MD header, or None; body *)
(* is all that follows; extra is by how many bytes the length fields of    *)
(* the UDP, SCION and IP headers exceed those of the packet the host sent. *)
(***************************************************************************)
Payload == << "data" >>

\* hopML and length have the widths of their P4 fields.
IntHeader == [length : 0 .. 255, udpPort : {AppPort, UdpPort}, bits : Bitmap, hopML : 0 .. 31]

ASSUME HeaderAssumption == None \notin IntHeader

HostPacket(dst) == [dst |-> dst, port |-> AppPort, int |-> None,
                    body |-> Payload, extra |-> 0]

\* The parser cuts as much off the body as int_shim.length announces.
Pre(pkt) == IF pkt.int = None THEN <<>> ELSE SubSeq(pkt.body, 1, pkt.int.length - 3)

Parse(pkt) ==
  LET pre == Pre(pkt) IN
  [hdr |-> pkt, pre |-> pre, rest |-> SubSeq(pkt.body, Len(pre) + 1, Len(pkt.body)),
   intState |-> 2, clone |-> FALSE]

\* Headers, pre_int_stack, the node's own INT data, payload.
Deparse(p, own) == [p.hdr EXCEPT !.body = p.pre \o own \o p.rest]

\* By how many bytes the packet really exceeds the one the host sent.
ActualExtra(pkt) ==
  (IF pkt.int = None THEN 0 ELSE 16) + 4 * (Len(pkt.body) - Len(Payload))

-----------------------------------------------------------------------------
\* insert_int: fresh shim and INT-MD headers, whatever was there before.
InsertIntHeader(p, bits) ==
  [p EXCEPT !.hdr.int = [length |-> 3, udpPort |-> p.hdr.port, bits |-> bits, hopML |-> 0],
            !.hdr.port = UdpPort,
            !.intState = 1]

\* Mutant: clone_int without the clone_packet call.
IngressNoClone(pkt, t) ==
  LET p == Parse(pkt)
      entry == t.scionInt[pkt.dst]
  IN  CASE entry.action = "insert_int" -> {InsertIntHeader(p, entry.bits)}
        [] entry.action = "clone_int"  -> {[p EXCEPT !.intState = 0]}
        [] entry.action = "NoAction"   -> {p}

\* INTSwitchIngress: the packets that reach egress.  A clone starts from the packet
\* as it came in and exists only if the clone session does.
Ingress(pkt, t) ==
  LET p == Parse(pkt)
      entry == t.scionInt[pkt.dst]
  IN  CASE entry.action = "insert_int" -> {InsertIntHeader(p, entry.bits)}
        [] entry.action = "clone_int"  ->
             {[p EXCEPT !.intState = 0]} \cup
             (IF t.clone THEN {[p EXCEPT !.intState = 0, !.clone = TRUE]} ELSE {})
        [] entry.action = "NoAction"   -> {p}

-----------------------------------------------------------------------------
\* The timestamp tables have const entries, the others those the controller installs.
Supported(t) ==
  {"ig_time", "eg_time"} \cup
  (IF t.node = None THEN {} ELSE {"node_id", "eg_util", "as_addr"})

\* Mutant: int_shim.length counted in bytes.
AddIntDataBytes(p, n, t) ==
  LET own == StackOf(n, p.hdr.int.bits \cap Supported(t))
      addLen == 16 + 4 * Len(own)
      hdr == [p.hdr EXCEPT !.int.hopML = (@ + Len(own)) % 32,
                           !.int.length = (@ + 4 * Len(own)) % 256,
                           !.extra = @ + addLen]
  IN  Deparse([p EXCEPT !.hdr = hdr], own)

\* The egress tables and int_refresh_length at node n; all length fields are refreshed
\* by the same addLen, which counts the new headers in.
AddIntData(p, n, t) ==
  LET own == StackOf(n, p.hdr.int.bits \cap Supported(t))
      addLen == 16 + 4 * Len(own)
      hdr == [p.hdr EXCEPT !.int.hopML = (@ + Len(own)) % 32,
                           !.int.length = (@ + Len(own)) % 256,
                           !.extra = @ + addLen]
  IN  Deparse([p EXCEPT !.hdr = hdr], own)

\* Mutants: the shim header itself is not subtracted; the destination port is not
\* restored; the stack stays in the packet.
DeleteIntShortLength(p) ==
  LET subLen == 4 * p.hdr.int.length IN
  [p.hdr EXCEPT !.port = p.hdr.int.udpPort, !.int = None,
                !.extra = @ - subLen, !.body = p.rest]

DeleteIntKeepsPort(p) ==
  LET subLen == 4 + 4 * p.hdr.int.length IN
  [p.hdr EXCEPT !.int = None, !.extra = @ - subLen, !.body = p.rest]

DeleteIntKeepsStack(p) ==
  LET subLen == 4 + 4 * p.hdr.int.length IN
  [p.hdr EXCEPT !.port = p.hdr.int.udpPort, !.int = None,
                !.extra = @ - subLen, !.body = p.pre \o p.rest]

\* delete_int: the application gets the packet it was meant to get.
DeleteInt(p) ==
  LET subLen == 4 + 4 * p.hdr.int.length IN
  [p.hdr EXCEPT !.port = p.hdr.int.udpPort, !.int = None,
                !.extra = @ - subLen, !.body = p.rest]

\* keep_int_cpu: the payload goes, if the parser extracted it -- it tries after an INT
\* stack only, and fails when the SCION header promises more than there is.
KeepIntCpu(p) ==
  LET extracted == p.hdr.int.length # 3 /\ p.hdr.extra <= ActualExtra(p.hdr) IN
  [p.hdr EXCEPT !.body = IF extracted THEN p.pre ELSE p.pre \o p.rest]

\* Mutant: no switch takes the INT data out.
EgressPacketNoDelete(p, n, t) ==
  IF p.intState = 1 THEN AddIntData(p, n, t) ELSE Deparse(p, <<>>)

\* INTSwitchEgress for a packet that is not a clone.
EgressPacket(p, n, t) ==
  CASE p.intState = 1                      -> AddIntData(p, n, t)
    [] p.intState = 0 /\ p.hdr.int # None  -> DeleteInt(p)
    [] p.intState = 0 /\ p.hdr.int = None  -> Deparse(p, <<>>)
    [] p.intState = 2                      -> Deparse(p, <<>>)

\* A clone of a packet without INT is dropped.
CloneReachesCpu(p) == p.clone /\ p.hdr.int # None
=============================================================================
