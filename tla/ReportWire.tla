----------------------------- MODULE ReportWire -----------------------------
(* The messages of report.proto as report.pb.h and report.pb.cc implement     *)
(* them: their empty values, how they are written to bytes, how many bytes    *)
(* that takes, how bytes are read and how one message is merged into          *)
(* another.  A byte is a number below 256, a byte string a sequence.          *)
(*                                                                            *)
(* Numbers are non-negative: the sign extension of a negative enum value, the *)
(* reduction of an over-long varint to 32 or 64 bits and group fields are     *)
(* outside of the model; the controller writes none of them.                  *)
EXTENDS Integers, SequencesExt

-----------------------------------------------------------------------------
(* The protobuf library: numbers, tags and fields.                            *)

Digits(n, base, k) ==
  LET q[i \in 0..k] == IF i = 0 THEN n ELSE q[i - 1] \div base
  IN  [i \in 1..k |-> q[i - 1] % base]

Number(digits, base) == FoldRight(LAMBDA d, n : d + base * n, digits, 0)

VarintSize(n) ==
  LET size[m \in Nat] == IF m < 128 THEN 1 ELSE 1 + size[m \div 128]
  IN  size[n]

\* Seven bits a byte, the lowest first; all but the last have the high bit set.
VarintOf(digits) ==
  [i \in DOMAIN digits |-> digits[i] + IF i < Len(digits) THEN 128 ELSE 0]
Varint(n) == VarintOf(Digits(n, 128, VarintSize(n)))

VarintField(tag, n)          == Varint(tag) \o Varint(n)
FixedField(tag, n, width)    == Varint(tag) \o Digits(n, 256, width)
\* The length is the size computed beforehand (GetCachedSize), not counted here.
LenField(tag, size, bytes)   == Varint(tag) \o Varint(size) \o bytes
LenFieldSize(size)           == 1 + VarintSize(size) + size

\* The varint at the start of b; len = 0 if b ends within it.
VarintPrefix(b, k) == [len |-> k, val |-> Number([i \in 1..k |-> b[i] % 128], 128)]
ReadVarint(b)      == VarintPrefix(b, SelectInSeq(b, LAMBDA x : x < 128))

Malformed == [tag |-> 0, val |-> 0, data |-> <<>>, raw |-> <<>>]

\* The size of what follows the tag, n being the varint it starts with; 0 when
\* the varint is cut short and for wire types that are not in use.
BodySize(wire, n) == CASE wire = 0 -> n.len
                       [] wire = 1 -> 8
                       [] wire = 2 -> IF n.len = 0 THEN 0 ELSE n.len + n.val
                       [] wire = 5 -> 4
                       [] OTHER    -> 0

\* The field at the start of b: its tag, its number or its bytes, and the
\* bytes it was read from, which is what the unknown field set keeps of it.
FieldOf(b, tag, n, body, size) ==
  LET wire == tag.val % 8
      data == SubSeq(body, IF wire = 2 THEN n.len + 1 ELSE 1, size)
  IN  IF tag.len > 0 /\ tag.val >= 8 /\ size \in 1..Len(body)
      THEN [tag |-> tag.val, data |-> data,
            val |-> CASE wire = 0 -> n.val
                      [] wire = 2 -> 0
                      [] OTHER    -> Number(data, 256),
            raw |-> SubSeq(b, 1, tag.len + size)]
      ELSE Malformed
ReadBody(b, tag, n, body) == FieldOf(b, tag, n, body, BodySize(tag.val % 8, n))
ReadTagged(b, tag, body)  == ReadBody(b, tag, ReadVarint(body), body)
ReadAfter(b, tag)         == ReadTagged(b, tag, SubSeq(b, tag.len + 1, Len(b)))
ReadField(b)              == ReadAfter(b, ReadVarint(b))

Fields(b) ==
  LET from[i \in 1..Len(b) + 1] ==
        LET Rest(f) == IF f = Malformed THEN <<>> ELSE from[i + Len(f.raw)]
            Then(f) == <<f>> \o Rest(f)
        IN  IF i > Len(b) THEN <<>> ELSE Then(ReadField(SubSeq(b, i, Len(b))))
  IN  from[1]

\* b is a sequence of whole fields, and those in nested satisfy Inner.
Readable(b, nested, Inner(_)) ==
  \A f \in ToSet(Fields(b)) :
    f # Malformed /\ (f.tag \in nested => Inner(f.data))

AnyBytes(b) == TRUE

\* What is left of field x of a message when y is merged into it: proto3 does
\* not tell a zero, or an empty string, from a field that was never set.
Merged(x, y, default) == IF y # default THEN y ELSE x

-----------------------------------------------------------------------------
(* IPv6Address { fixed64 high = 1; fixed64 low = 2; }                         *)

IPv6Address == [high |-> 0, low |-> 0, unknown |-> <<>>]

\* Mutant: a half that is zero is written as well.
IPv6SerializeZero(a) ==
  FixedField(9, a.high, 8) \o FixedField(17, a.low, 8) \o a.unknown

IPv6Serialize(a) ==
  (IF a.high # 0 THEN FixedField(9, a.high, 8) ELSE <<>>)
  \o (IF a.low # 0 THEN FixedField(17, a.low, 8) ELSE <<>>)
  \o a.unknown

IPv6ByteSize(a) ==
  (IF a.high # 0 THEN 1 + 8 ELSE 0) + (IF a.low # 0 THEN 1 + 8 ELSE 0)
  + Len(a.unknown)

\* What the reader does with one field; the other classes have such a step too.
IPv6Take(m, f) == CASE f.tag = 9  -> [m EXCEPT !.high = f.val]
                    [] f.tag = 17 -> [m EXCEPT !.low = f.val]
                    [] OTHER -> [m EXCEPT !.unknown = @ \o f.raw]
IPv6Parse(a, b) == FoldLeft(IPv6Take, a, Fields(b))

IPv6Merge(a, from) ==
  [high    |-> Merged(a.high, from.high, 0),
   low     |-> Merged(a.low, from.low, 0),
   unknown |-> a.unknown \o from.unknown]

-----------------------------------------------------------------------------
(* Hop { uint64 asn = 1; uint32 node_id = 2; map<uint32, bytes> metadata = 3; } *)
(* The metadata is a function; a message is written in the order of some      *)
(* sequence of the keys, and two processes need not use the same one.         *)

Hop == [asn |-> 0, nodeId |-> 0, metadata |-> <<>>, unknown |-> <<>>]

\* A map entry writes its key and its value, even a zero and an empty one.
EntrySize(k, v) == 1 + VarintSize(k) + LenFieldSize(Len(v))
EntrySerialize(k, v) == VarintField(8, k) \o LenField(18, Len(v), v)
EntryTake(e, f) == CASE f.tag = 8  -> [e EXCEPT !.key = f.val]
                     [] f.tag = 18 -> [e EXCEPT !.value = f.data]
                     [] OTHER -> e
EntryParse(b) == FoldLeft(EntryTake, [key |-> 0, value |-> <<>>], Fields(b))

MapMerge(m, from) == [k \in DOMAIN m \cup DOMAIN from |->
                        IF k \in DOMAIN from THEN from[k] ELSE m[k]]
PutEntry(m, e) == MapMerge(m, [k \in {e.key} |-> e.value])

\* The entry of a key, if there is one.
Metadata(m, k) == IF k \in DOMAIN m
                  THEN LenField(26, EntrySize(k, m[k]), EntrySerialize(k, m[k]))
                  ELSE <<>>
MetadataSize(m, k) == IF k \in DOMAIN m THEN LenFieldSize(EntrySize(k, m[k])) ELSE 0

HopSerialize(h, order) ==
  (IF h.asn # 0 THEN VarintField(8, h.asn) ELSE <<>>)
  \o (IF h.nodeId # 0 THEN VarintField(16, h.nodeId) ELSE <<>>)
  \o FlattenSeq([i \in DOMAIN order |-> Metadata(h.metadata, order[i])])
  \o h.unknown

HopByteSize(h, order) ==
  FoldLeft(LAMBDA n, k : n + MetadataSize(h.metadata, k), 0, order)
  + (IF h.asn # 0 THEN 1 + VarintSize(h.asn) ELSE 0)
  + (IF h.nodeId # 0 THEN 1 + VarintSize(h.nodeId) ELSE 0)
  + Len(h.unknown)

HopReadable(b) == Readable(b, {26}, LAMBDA e : Readable(e, {}, AnyBytes))

HopTake(m, f) ==
  CASE f.tag = 8  -> [m EXCEPT !.asn = f.val]
    [] f.tag = 16 -> [m EXCEPT !.nodeId = f.val]
    [] f.tag = 26 -> [m EXCEPT !.metadata = PutEntry(@, EntryParse(f.data))]
    [] OTHER -> [m EXCEPT !.unknown = @ \o f.raw]
HopParse(h, b) == FoldLeft(HopTake, h, Fields(b))

HopMerge(h, from) ==
  [asn      |-> Merged(h.asn, from.asn, 0),
   nodeId   |-> Merged(h.nodeId, from.nodeId, 0),
   metadata |-> MapMerge(h.metadata, from.metadata),
   unknown  |-> h.unknown \o from.unknown]

-----------------------------------------------------------------------------
(* Report { repeated Hop hops = 1; PacketType packet_type = 2;                *)
(*          bytes truncated_packet = 3; }                                     *)

Report == [hops |-> <<>>, packetType |-> 0, truncated |-> <<>>, unknown |-> <<>>]

ReportSerialize(r, order) ==
  FlattenSeq([i \in DOMAIN r.hops |->
    LenField(10, HopByteSize(r.hops[i], order), HopSerialize(r.hops[i], order))])
  \o (IF r.packetType # 0 THEN VarintField(16, r.packetType) ELSE <<>>)
  \o (IF r.truncated # <<>>
      THEN LenField(26, Len(r.truncated), r.truncated) ELSE <<>>)
  \o r.unknown

ReportByteSize(r, order) ==
  FoldLeft(LAMBDA n, h : n + LenFieldSize(HopByteSize(h, order)), 0, r.hops)
  + (IF r.truncated # <<>> THEN LenFieldSize(Len(r.truncated)) ELSE 0)
  + (IF r.packetType # 0 THEN 1 + VarintSize(r.packetType) ELSE 0)
  + Len(r.unknown)

ReportReadable(b) == Readable(b, {10}, HopReadable)

ReportTake(m, f) ==
  CASE f.tag = 10 -> [m EXCEPT !.hops = Append(@, HopParse(Hop, f.data))]
    [] f.tag = 16 -> [m EXCEPT !.packetType = f.val]
    [] f.tag = 26 -> [m EXCEPT !.truncated = f.data]
    [] OTHER -> [m EXCEPT !.unknown = @ \o f.raw]
ReportParse(r, b) == FoldLeft(ReportTake, r, Fields(b))

ReportMerge(r, from) ==
  [hops       |-> r.hops \o from.hops,
   packetType |-> Merged(r.packetType, from.packetType, 0),
   truncated  |-> Merged(r.truncated, from.truncated, <<>>),
   unknown    |-> r.unknown \o from.unknown]

-----------------------------------------------------------------------------
(* FlowKey { uint64 dst_as = 1; uint64 src_as = 2; uint32 flow_id = 3;        *)
(*   oneof dst_ip { fixed32 dst_ipv4 = 4; IPv6Address dst_ipv6 = 5; }         *)
(*   oneof src_ip { fixed32 src_ipv4 = 6; IPv6Address src_ipv6 = 7; }         *)
(*   uint32 dst_port = 8; uint32 src_port = 9; Protocol protocol = 10; }      *)

NotSet  == [case |-> "NOT_SET"]
Ipv4(n) == [case |-> "Ipv4", addr |-> n]
Ipv6(a) == [case |-> "Ipv6", addr |-> a]

FlowKey == [dstAs |-> 0, srcAs |-> 0, flowId |-> 0, dstIp |-> NotSet,
            srcIp |-> NotSet, dstPort |-> 0, srcPort |-> 0, protocol |-> 0,
            unknown |-> <<>>]

\* mutable_*_ipv6(): the address of a oneof that holds one, else a new one.
Mutable(ip) == IF ip.case = "Ipv6" THEN ip.addr ELSE IPv6Address

\* Mutant: an IPv4 address of zero is left out like any other zero.
IpSerializeNonZero(ip, tag4, tag6) ==
  CASE ip.case = "Ipv4" -> IF ip.addr # 0 THEN FixedField(tag4, ip.addr, 4) ELSE <<>>
    [] ip.case = "Ipv6" -> LenField(tag6, IPv6ByteSize(ip.addr), IPv6Serialize(ip.addr))
    [] OTHER            -> <<>>

\* The addresses of both directions are written by the same steps.
IpSerialize(ip, tag4, tag6) ==
  CASE ip.case = "Ipv4" -> FixedField(tag4, ip.addr, 4)
    [] ip.case = "Ipv6" -> LenField(tag6, IPv6ByteSize(ip.addr), IPv6Serialize(ip.addr))
    [] OTHER            -> <<>>

\* Mutant: an IPv4 address is counted as a varint.
IpByteSizeVarint(ip) ==
  CASE ip.case = "Ipv4" -> 1 + VarintSize(ip.addr)
    [] ip.case = "Ipv6" -> LenFieldSize(IPv6ByteSize(ip.addr))
    [] OTHER            -> 0

IpByteSize(ip) ==
  CASE ip.case = "Ipv4" -> 1 + 4
    [] ip.case = "Ipv6" -> LenFieldSize(IPv6ByteSize(ip.addr))
    [] OTHER            -> 0

\* Mutant: the address of the other message replaces this one.
IpMergeReplaces(ip, from) == Merged(ip, from, NotSet)

IpMerge(ip, from) ==
  IF from.case = "Ipv6" THEN Ipv6(IPv6Merge(Mutable(ip), from.addr))
  ELSE Merged(ip, from, NotSet)

FlowKeySerialize(k) ==
  LET Scalar(tag, n) == IF n # 0 THEN VarintField(tag, n) ELSE <<>>
  IN  Scalar(8, k.dstAs) \o Scalar(16, k.srcAs) \o Scalar(24, k.flowId)
      \o IpSerialize(k.dstIp, 37, 42) \o IpSerialize(k.srcIp, 53, 58)
      \o Scalar(64, k.dstPort) \o Scalar(72, k.srcPort)
      \o Scalar(80, k.protocol) \o k.unknown

FlowKeyByteSize(k) ==
  LET Scalar(n) == IF n # 0 THEN 1 + VarintSize(n) ELSE 0
  IN  Scalar(k.dstAs) + Scalar(k.srcAs) + Scalar(k.flowId) + Scalar(k.dstPort)
      + Scalar(k.srcPort) + Scalar(k.protocol)
      + IpByteSize(k.dstIp) + IpByteSize(k.srcIp) + Len(k.unknown)

FlowKeyReadable(b) ==
  Readable(b, {42, 58}, LAMBDA a : Readable(a, {}, AnyBytes))

FlowKeyTake(m, f) ==
  CASE f.tag = 8  -> [m EXCEPT !.dstAs = f.val]
    [] f.tag = 16 -> [m EXCEPT !.srcAs = f.val]
    [] f.tag = 24 -> [m EXCEPT !.flowId = f.val]
    [] f.tag = 37 -> [m EXCEPT !.dstIp = Ipv4(f.val)]
    [] f.tag = 42 -> [m EXCEPT !.dstIp = Ipv6(IPv6Parse(Mutable(@), f.data))]
    [] f.tag = 53 -> [m EXCEPT !.srcIp = Ipv4(f.val)]
    [] f.tag = 58 -> [m EXCEPT !.srcIp = Ipv6(IPv6Parse(Mutable(@), f.data))]
    [] f.tag = 64 -> [m EXCEPT !.dstPort = f.val]
    [] f.tag = 72 -> [m EXCEPT !.srcPort = f.val]
    [] f.tag = 80 -> [m EXCEPT !.protocol = f.val]
    [] OTHER -> [m EXCEPT !.unknown = @ \o f.raw]
FlowKeyParse(k, b) == FoldLeft(FlowKeyTake, k, Fields(b))

FlowKeyMerge(k, from) ==
  [dstAs    |-> Merged(k.dstAs, from.dstAs, 0),
   srcAs    |-> Merged(k.srcAs, from.srcAs, 0),
   flowId   |-> Merged(k.flowId, from.flowId, 0),
   dstIp    |-> IpMerge(k.dstIp, from.dstIp),
   srcIp    |-> IpMerge(k.srcIp, from.srcIp),
   dstPort  |-> Merged(k.dstPort, from.dstPort, 0),
   srcPort  |-> Merged(k.srcPort, from.srcPort, 0),
   protocol |-> Merged(k.protocol, from.protocol, 0),
   unknown  |-> k.unknown \o from.unknown]
=============================================================================
