--------------------------- MODULE ReportMessages ---------------------------
(* Two messages of the generated report classes, both reports or both flow    *)
(* keys, under the operations of their classes: the setters and mutable       *)
(* accessors of report.pb.h, and Clear, MergeFrom, CopyFrom, Swap and parsing *)
(* of report.pb.cc.  The controller builds its messages with them and writes  *)
(* the result to Kafka and to the TCP stream; a receiver, which may have been *)
(* built from another version of the schema, reads it back.                   *)
EXTENDS ReportWire

CONSTANTS Slots,      \* the names of the messages
          Values,     \* numbers the numeric fields are set to
          Keys,       \* metadata types a hop is given
          Payloads,   \* byte strings given to metadata and truncated_packet
          Foreign,    \* byte strings a message may be parsed from
          MaxHops, MaxOps

\* A number fits the fixed32 of an IPv4 address, the narrowest field it is put
\* into (2^32 is 65536 * 65536).
ASSUME ValuesAssumption == Values \subseteq Nat /\ \A n \in Values : n \div 65536 < 65536

ASSUME KeysAssumption == Keys \subseteq Nat /\ IsFiniteSet(Keys)

\* Orders lists the keys of a message, also of one that was parsed.
ASSUME BytesAssumption ==
  /\ \A b \in Payloads \cup Foreign : b \in Seq(0..255)
  /\ \A b \in Foreign :
       ReportReadable(b) =>
         \A i \in DOMAIN ReportParse(Report, b).hops :
           DOMAIN ReportParse(Report, b).hops[i].metadata \subseteq Keys

VARIABLES kind,   \* the class of both messages
          obj,    \* the messages
          ops     \* operations so far, at most MaxOps

vars == <<kind, obj, ops>>

IsReport == kind = "Report"

Empty(class) == IF class = "Report" THEN Report ELSE FlowKey

\* The orders in which a hash map may list the keys; flow keys hold no map.
Orders == IF IsReport THEN SetToSeqs(Keys) ELSE {<<>>}

Serialize(m, order) == IF IsReport THEN ReportSerialize(m, order) ELSE FlowKeySerialize(m)
ByteSize(m, order)  == IF IsReport THEN ReportByteSize(m, order) ELSE FlowKeyByteSize(m)
ReadableAs(b) == IF IsReport THEN ReportReadable(b) ELSE FlowKeyReadable(b)
Parse(m, b)   == IF IsReport THEN ReportParse(m, b) ELSE FlowKeyParse(m, b)
Merge(m, from) == IF IsReport THEN ReportMerge(m, from) ELSE FlowKeyMerge(m, from)

-----------------------------------------------------------------------------
Init == /\ kind \in {"Report", "FlowKey"}
        /\ obj = [s \in Slots |-> Empty(kind)]
        /\ ops = 0

Put(class, s, m) == /\ ops < MaxOps
                    /\ kind = class
                    /\ obj' = [obj EXCEPT ![s] = m]
                    /\ ops' = ops + 1
                    /\ UNCHANGED kind

\* The last hop, the one add_hops has returned a pointer to, is changed.
OfHop(s, F(_)) ==
  /\ IsReport /\ obj[s].hops # <<>>
  /\ Put("Report", s, [obj[s] EXCEPT !.hops[Len(obj[s].hops)] = F(@)])

AddHops(s) == /\ IsReport /\ Len(obj[s].hops) < MaxHops
              /\ Put("Report", s, [obj[s] EXCEPT !.hops = Append(@, Hop)])

SetHop(s, f, n) == OfHop(s, LAMBDA h : [h EXCEPT ![f] = n])

SetMetadata(s, k, v) ==
  OfHop(s, LAMBDA h : [h EXCEPT !.metadata = MapMerge(@, [t \in {k} |-> v])])

SetPacketType(s, n) == IsReport /\ Put("Report", s, [obj[s] EXCEPT !.packetType = n])

SetTruncated(s, b) == IsReport /\ Put("Report", s, [obj[s] EXCEPT !.truncated = b])

SetAddressing(s, f, n) == ~IsReport /\ Put("FlowKey", s, [obj[s] EXCEPT ![f] = n])
SetTransport(s, f, n)  == ~IsReport /\ Put("FlowKey", s, [obj[s] EXCEPT ![f] = n])

SetDstIpv4(s, n) == ~IsReport /\ Put("FlowKey", s, [obj[s] EXCEPT !.dstIp = Ipv4(n)])
SetSrcIpv4(s, n) == ~IsReport /\ Put("FlowKey", s, [obj[s] EXCEPT !.srcIp = Ipv4(n)])

\* mutable_dst_ipv6()->set_high(n) and the like: the accessor alone turns the
\* oneof into an address, and the half that is not set keeps its value.
SetHalf(a, half, n) == [a EXCEPT ![half] = n]
SetDstIpv6(s, half, n) ==
  ~IsReport /\ Put("FlowKey", s,
                   [obj[s] EXCEPT !.dstIp = Ipv6(SetHalf(Mutable(@), half, n))])
SetSrcIpv6(s, half, n) ==
  ~IsReport /\ Put("FlowKey", s,
                   [obj[s] EXCEPT !.srcIp = Ipv6(SetHalf(Mutable(@), half, n))])

ClearDstIp(s) == ~IsReport /\ Put("FlowKey", s, [obj[s] EXCEPT !.dstIp = NotSet])
ClearSrcIp(s) == ~IsReport /\ Put("FlowKey", s, [obj[s] EXCEPT !.srcIp = NotSet])

Clear(s)        == Put(kind, s, Empty(kind))
MergeFrom(s, t) == s # t /\ Put(kind, s, Merge(obj[s], obj[t]))
CopyFrom(s, t)  == s # t /\ Put(kind, s, Merge(Empty(kind), obj[t]))

Swap(s, t) == /\ ops < MaxOps /\ s # t
              /\ obj' = [obj EXCEPT ![s] = obj[t], ![t] = obj[s]]
              /\ ops' = ops + 1
              /\ UNCHANGED kind

\* ParseFromString: what was there is cleared; bytes that cannot be read leave
\* the fields before the fault, which no caller uses, and are left out.
ParseFrom(s, b) == ReadableAs(b) /\ Put(kind, s, Parse(Empty(kind), b))

Next ==
  \E s \in Slots :
    \/ AddHops(s) \/ Clear(s) \/ ClearDstIp(s) \/ ClearSrcIp(s)
    \/ \E t \in Slots : MergeFrom(s, t) \/ CopyFrom(s, t) \/ Swap(s, t)
    \/ \E b \in Foreign : ParseFrom(s, b)
    \/ \E b \in Payloads : SetTruncated(s, b) \/ \E k \in Keys : SetMetadata(s, k, b)
    \/ \E n \in Values :
         \/ SetPacketType(s, n) \/ SetDstIpv4(s, n) \/ SetSrcIpv4(s, n)
         \/ \E f \in {"asn", "nodeId"} : SetHop(s, f, n)
         \/ \E f \in {"dstAs", "srcAs", "flowId"} : SetAddressing(s, f, n)
         \/ \E f \in {"dstPort", "srcPort", "protocol"} : SetTransport(s, f, n)
         \/ \E half \in {"high", "low"} : SetDstIpv6(s, half, n) \/ SetSrcIpv6(s, half, n)

Spec == Init /\ [][Next]_vars

-----------------------------------------------------------------------------
\* SerializeToString writes exactly the bytes ByteSizeLong announced, whatever
\* the order of the map: the buffer has that size, and the same number goes
\* ahead of a report on the TCP stream and of a nested message.
SizeIsExact ==
  \A s \in Slots, o \in Orders :
    Len(Serialize(obj[s], o)) = ByteSize(obj[s], o)

\* What is written is read back as the same message: field numbers, lengths,
\* the chosen address of each oneof and fields the schema does not know.
RoundTrip ==
  \A s \in Slots, o \in Orders :
    LET b == Serialize(obj[s], o)
    IN  ReadableAs(b) /\ Parse(Empty(kind), b) = obj[s]

\* MergeFrom does what reading one message after the other does.
ConcatenationMerges ==
  \A s, t \in Slots, o, p \in Orders :
    s # t => Parse(Empty(kind), Serialize(obj[s], o) \o Serialize(obj[t], p))
               = Merge(obj[s], obj[t])

\* A message that was cut short is never taken for the whole one.
CutIsNoticed ==
  \A s \in Slots, o \in Orders :
    LET b == Serialize(obj[s], o)
    IN  \A n \in 0..Len(b) - 1 :
          LET cut == SubSeq(b, 1, n)
          IN  ReadableAs(cut) => Parse(Empty(kind), cut) # obj[s]
=============================================================================
