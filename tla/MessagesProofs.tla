--------------------------- MODULE MessagesProofs ---------------------------
(* The four invariants of ReportMessages, for every set of numbers, keys,     *)
(* payloads and foreign byte strings and every number of messages and         *)
(* operations: each message of a behaviour is one of those the theorems of    *)
(* WireProofs are about.                                                      *)
EXTENDS ReportMessages, WireProofs

\* The reports whose hops have no other metadata than the known keys.
KnownKeys(hops) == \A i \in 1 .. Len(hops) : DOMAIN hops[i].metadata \subseteq Keys
KnownReports == {r \in Reports : KnownKeys(r.hops)}

Messages(class) == IF class = "Report" THEN KnownReports ELSE FlowKeys

\* The inductive invariant.
MessagesTyped == /\ kind \in {"Report", "FlowKey"}
                 /\ obj \in [Slots -> Messages(kind)]
                 /\ ops \in Nat

-----------------------------------------------------------------------------
\* An order of the keys has them all.
LEMMA OrderOfKeys ==
  ASSUME NEW o \in SetToSeqs(Keys)
  PROVE  o \in Seq(Nat) /\ {o[j] : j \in 1 .. Len(o)} = Keys
<1> DEFINE n == Cardinality(Keys)
<1>1. n \in Nat
  BY KeysAssumption, FS_CardinalityType
<1>2. o \in [1 .. n -> Keys] /\ \A i, j \in 1 .. n : i # j => o[i] # o[j]
  BY DEF SetToSeqs
<1>3. o \in Injection(1 .. n, Keys)
  BY <1>2 DEF Injection, IsInjective
<1>4. Cardinality(1 .. n) = n
  BY <1>1, FS_Interval
<1>5. o \in Surjection(1 .. n, Keys)
  BY <1>3, <1>4, KeysAssumption, FS_Injection
<1> HIDE DEF n
<1>6. o \in Seq(Nat) /\ Len(o) = n
  <2>1. o \in [1 .. n -> Nat]
    BY <1>2, KeysAssumption
  <2> QED
    BY <2>1, <1>1
<1>7. Keys \subseteq {o[j] : j \in 1 .. n}
  BY <1>5 DEF Surjection
<1>8. {o[j] : j \in 1 .. n} \subseteq Keys
  BY <1>2
<1> QED
  BY <1>6, <1>7, <1>8

\* So an order lists all the keys of a known report.
LEMMA KnownCovers ==
  ASSUME NEW r \in KnownReports, NEW o \in SetToSeqs(Keys)
  PROVE  r \in Reports /\ o \in Seq(Nat) /\ Covers(o, r.hops)
  BY OrderOfKeys DEF KnownReports, KnownKeys, Covers

\* The keys of hops that are put together, or followed by one more.
LEMMA KnownKeysJoin ==
  ASSUME NEW h \in Seq(Hops), NEW k \in Seq(Hops), KnownKeys(h), KnownKeys(k)
  PROVE  KnownKeys(h \o k)
<1>1. \A i \in 1 .. Len(h) : h[i] \in {g \in Hops : DOMAIN g.metadata \subseteq Keys}
  BY SeqElements DEF KnownKeys
<1>2. \A i \in 1 .. Len(k) : k[i] \in {g \in Hops : DOMAIN g.metadata \subseteq Keys}
  BY SeqElements DEF KnownKeys
<1> DEFINE P == {g \in Hops : DOMAIN g.metadata \subseteq Keys}
<1> HIDE DEF P
<1>3. \A i \in 1 .. Len(h \o k) : (h \o k)[i] \in P
  BY <1>1, <1>2, JoinAll DEF P
<1> QED
  BY <1>3 DEF P, KnownKeys

\* The empty report has no keys.
LEMMA KnownReportEmpty == Report \in KnownReports
  BY ReportEmptyType DEF KnownReports, KnownKeys, Report

\* Merging known reports gives one.
LEMMA KnownReportMerge ==
  ASSUME NEW x \in KnownReports, NEW y \in KnownReports
  PROVE  ReportMerge(x, y) \in KnownReports
<1>1. x \in Reports /\ y \in Reports /\ KnownKeys(x.hops) /\ KnownKeys(y.hops)
  BY DEF KnownReports
<1>2. x.hops \in Seq(Hops) /\ y.hops \in Seq(Hops)
  BY <1>1, ReportParts
<1>3. KnownKeys(x.hops \o y.hops)
  BY <1>1, <1>2, KnownKeysJoin
<1>4. ReportMerge(x, y).hops = x.hops \o y.hops
  BY DEF ReportMerge
<1>5. ReportMerge(x, y) \in Reports
  BY <1>1, ReportMergeIs
<1> QED
  BY <1>3, <1>4, <1>5 DEF KnownReports

\* So does parsing one of the foreign byte strings.
LEMMA KnownReportParse ==
  ASSUME NEW b \in Foreign, ReportReadable(b)
  PROVE  ReportParse(Report, b) \in KnownReports
<1>1. b \in ByteSeqs
  BY BytesAssumption DEF ByteSeqs
<1> DEFINE r == ReportParse(Report, b)
<1>2. r \in Reports
  BY <1>1, ReportEmptyType, ReportParses
<1>3. \A i \in DOMAIN r.hops : DOMAIN r.hops[i].metadata \subseteq Keys
  BY BytesAssumption
<1> HIDE DEF r
<1>4. r.hops \in Seq(Hops)
  BY <1>2, ReportParts
<1>5. DOMAIN r.hops = 1 .. Len(r.hops)
  BY <1>4
<1>6. r \in KnownReports
  BY <1>2, <1>3, <1>5 DEF KnownReports, KnownKeys
<1> QED
  BY <1>6 DEF r

\* One hop is changed, or added.
LEMMA KnownReportHop ==
  ASSUME NEW r \in KnownReports, NEW i \in 1 .. Len(r.hops), NEW g \in Hops,
         DOMAIN g.metadata \subseteq Keys
  PROVE  [r EXCEPT !.hops[i] = g] \in KnownReports
<1>1. r \in Reports /\ r.hops \in Seq(Hops) /\ KnownKeys(r.hops)
  BY ReportParts DEF KnownReports
<1> DEFINE s == [r.hops EXCEPT ![i] = g]
<1>2. s \in Seq(Hops) /\ Len(s) = Len(r.hops)
  BY <1>1
<1>3. \A j \in 1 .. Len(r.hops) : s[j] = IF j = i THEN g ELSE r.hops[j]
  BY <1>1
<1>4. [r EXCEPT !.hops[i] = g] = [r EXCEPT !.hops = s]
  BY <1>1 DEF Reports
<1> HIDE DEF s
<1>5. [r EXCEPT !.hops = s] \in Reports /\ [r EXCEPT !.hops = s].hops = s
  BY <1>1, <1>2 DEF Reports
<1>6. KnownKeys(s)
  BY <1>1, <1>2, <1>3 DEF KnownKeys
<1> QED
  BY <1>4, <1>5, <1>6 DEF KnownReports

\* The new hop has no metadata.
LEMMA KnownReportAdd ==
  ASSUME NEW r \in KnownReports
  PROVE  [r EXCEPT !.hops = Append(r.hops, Hop)] \in KnownReports
<1>1. r \in Reports /\ r.hops \in Seq(Hops) /\ KnownKeys(r.hops)
  BY ReportParts DEF KnownReports
<1>2. Hop \in Hops
  BY HopEmptyType
<1> DEFINE s == Append(r.hops, Hop)
<1>3. s \in Seq(Hops) /\ Len(s) = Len(r.hops) + 1 /\ s[Len(r.hops) + 1] = Hop
      /\ \A j \in 1 .. Len(r.hops) : s[j] = r.hops[j]
  BY <1>1, <1>2
<1>4. DOMAIN Hop.metadata = {}
  BY NoMetadata DEF Hop
<1> HIDE DEF s
<1>5. KnownKeys(s)
  <2> SUFFICES ASSUME NEW j \in 1 .. Len(s) PROVE DOMAIN s[j].metadata \subseteq Keys
    BY DEF KnownKeys
  <2>1. Len(r.hops) \in Nat
    BY <1>1
  <2>2. j \in 1 .. Len(r.hops) \/ j = Len(r.hops) + 1
    BY <2>1, <1>3
  <2> QED
    BY <2>2, <1>1, <1>3, <1>4 DEF KnownKeys
<1>6. [r EXCEPT !.hops = s] \in Reports /\ [r EXCEPT !.hops = s].hops = s
  BY <1>1, <1>3 DEF Reports
<1>7. [r EXCEPT !.hops = s] \in KnownReports
  BY <1>5, <1>6 DEF KnownReports
<1> QED
  BY <1>7 DEF s

\* The last hop of a report that has one.
LEMMA KnownHop ==
  ASSUME NEW r \in KnownReports, r.hops # <<>>
  PROVE  /\ Len(r.hops) \in 1 .. Len(r.hops) /\ r.hops[Len(r.hops)] \in Hops
         /\ DOMAIN r.hops[Len(r.hops)].metadata \subseteq Keys
<1>1. r.hops \in Seq(Hops) /\ KnownKeys(r.hops)
  BY ReportParts DEF KnownReports
<1>2. Len(r.hops) \in 1 .. Len(r.hops)
  BY <1>1
<1> QED
  BY <1>1, <1>2, SeqElements DEF KnownKeys

\* What an operation stores in a report is such a report.
LEMMA ReportSetters ==
  ASSUME NEW r \in KnownReports
  PROVE  /\ \A n \in Values : [r EXCEPT !.packetType = n] \in KnownReports
         /\ \A b \in Payloads : [r EXCEPT !.truncated = b] \in KnownReports
<1>1. r \in Reports /\ KnownKeys(r.hops)
  BY DEF KnownReports
<1>2. ASSUME NEW n \in Values PROVE [r EXCEPT !.packetType = n] \in KnownReports
  <2>1. n \in Nat
    BY ValuesAssumption
  <2>2. [r EXCEPT !.packetType = n] \in Reports /\ [r EXCEPT !.packetType = n].hops = r.hops
    BY <1>1, <2>1 DEF Reports
  <2> QED
    BY <1>1, <2>2 DEF KnownReports
<1>3. ASSUME NEW b \in Payloads PROVE [r EXCEPT !.truncated = b] \in KnownReports
  <2>1. b \in ByteSeqs
    BY BytesAssumption DEF ByteSeqs
  <2>2. [r EXCEPT !.truncated = b] \in Reports /\ [r EXCEPT !.truncated = b].hops = r.hops
    BY <1>1, <2>1 DEF Reports
  <2> QED
    BY <1>1, <2>2 DEF KnownReports
<1> QED
  BY <1>2, <1>3

\* The setters of a hop.
LEMMA HopSetters ==
  ASSUME NEW h \in Hops, DOMAIN h.metadata \subseteq Keys, NEW n \in Values
  PROVE  \A f \in {"asn", "nodeId"} :
           [h EXCEPT ![f] = n] \in Hops /\ DOMAIN [h EXCEPT ![f] = n].metadata \subseteq Keys
<1>1. n \in Nat
  BY ValuesAssumption
<1>2. /\ [h EXCEPT !["asn"] = n] \in Hops /\ [h EXCEPT !["asn"] = n].metadata = h.metadata
      /\ [h EXCEPT !["nodeId"] = n] \in Hops /\ [h EXCEPT !["nodeId"] = n].metadata = h.metadata
  BY <1>1 DEF Hops
<1> QED
  BY <1>2

\* Giving a hop one more entry.
LEMMA HopSetMetadata ==
  ASSUME NEW h \in Hops, DOMAIN h.metadata \subseteq Keys, NEW k \in Keys, NEW b \in Payloads
  PROVE  LET g == [h EXCEPT !.metadata = MapMerge(h.metadata, [t \in {k} |-> b])]
         IN  g \in Hops /\ DOMAIN g.metadata \subseteq Keys
<1> DEFINE e == [t \in {k} |-> b]
           m == MapMerge(h.metadata, e)
<1>1. k \in Nat /\ b \in ByteSeqs
  BY KeysAssumption, BytesAssumption DEF ByteSeqs
<1>2. h.metadata \in Metadatas
  BY HopParts
<1>3. e \in Metadatas
  <2>1. {k} \in SUBSET Nat /\ e \in [{k} -> ByteSeqs]
    BY <1>1
  <2> HIDE DEF e
  <2> QED
    BY <2>1, MetadataIs
<1>4. m \in Metadatas
  BY <1>2, <1>3, MapMergeType
<1>5. DOMAIN m \subseteq Keys
  BY DEF MapMerge
<1> HIDE DEF m
<1>6. [h EXCEPT !.metadata = m] \in Hops /\ [h EXCEPT !.metadata = m].metadata = m
  BY <1>4 DEF Hops
<1> QED
  BY <1>5, <1>6 DEF m

\* What an operation stores in a flow key is a flow key.
LEMMA FlowKeySetters ==
  ASSUME NEW k \in FlowKeys, NEW n \in Values
  PROVE  /\ \A f \in {"dstAs", "srcAs", "flowId", "dstPort", "srcPort", "protocol"} :
              [k EXCEPT ![f] = n] \in FlowKeys
         /\ [k EXCEPT !.dstIp = Ipv4(n)] \in FlowKeys /\ [k EXCEPT !.srcIp = Ipv4(n)] \in FlowKeys
<1>1. n \in Nat /\ n \in Fixed(4)
  BY ValuesAssumption, FixedWord
<1>2. Ipv4(n) \in Ips
  BY <1>1, IpIs
<1>3. /\ [k EXCEPT !["dstAs"] = n] \in FlowKeys /\ [k EXCEPT !["srcAs"] = n] \in FlowKeys
      /\ [k EXCEPT !["flowId"] = n] \in FlowKeys /\ [k EXCEPT !["dstPort"] = n] \in FlowKeys
      /\ [k EXCEPT !["srcPort"] = n] \in FlowKeys /\ [k EXCEPT !["protocol"] = n] \in FlowKeys
  BY <1>1 DEF FlowKeys
<1>4. ASSUME NEW i \in Ips
      PROVE  [k EXCEPT !.dstIp = i] \in FlowKeys /\ [k EXCEPT !.srcIp = i] \in FlowKeys
  BY DEF FlowKeys
<1> QED
  BY <1>2, <1>3, <1>4

\* Setting or clearing an address.
LEMMA FlowKeySetIp ==
  ASSUME NEW k \in FlowKeys, NEW i \in Ips
  PROVE  [k EXCEPT !.dstIp = i] \in FlowKeys /\ [k EXCEPT !.srcIp = i] \in FlowKeys
  BY DEF FlowKeys

\* Setting one half of an IPv6 address.
LEMMA HalfType ==
  ASSUME NEW i \in Ips, NEW n \in Values, NEW half \in {"high", "low"}
  PROVE  Ipv6(SetHalf(Mutable(i), half, n)) \in Ips
<1> DEFINE a == Mutable(i)
<1>1. a \in IPv6s /\ n \in Fixed(8)
  BY MutableType, ValuesAssumption, FixedWord
<1> HIDE DEF a
<1>2. [a EXCEPT !["high"] = n] \in IPv6s /\ [a EXCEPT !["low"] = n] \in IPv6s
  BY <1>1 DEF IPv6s
<1>3. SetHalf(a, half, n) \in IPv6s
  BY <1>2 DEF SetHalf
<1> QED
  BY <1>3, IpIs DEF a

-----------------------------------------------------------------------------
\* Storing a message of the class keeps the invariant.
LEMMA PutTyped ==
  ASSUME MessagesTyped, NEW class, NEW s \in Slots, NEW m, Put(class, s, m), m \in Messages(kind)
  PROVE  MessagesTyped'
<1>1. obj' = [obj EXCEPT ![s] = m] /\ ops' = ops + 1 /\ kind' = kind
  BY DEF Put
<1>2. obj' \in [Slots -> Messages(kind)]
  BY <1>1 DEF MessagesTyped
<1>3. Messages(kind') = Messages(kind)
  BY <1>1
<1> QED
  BY <1>1, <1>2, <1>3 DEF MessagesTyped, Messages

\* What the messages are.
LEMMA MessageTypes ==
  ASSUME MessagesTyped
  PROVE  /\ kind = "Report" => \A s \in Slots : obj[s] \in KnownReports
         /\ kind # "Report" => \A s \in Slots : obj[s] \in FlowKeys
         /\ \A s \in Slots : obj[s] \in Messages(kind)
         /\ Empty(kind) \in Messages(kind)
  BY KnownReportEmpty, FlowKeyEmptyType DEF MessagesTyped, Messages, Empty

\* So does every operation.
LEMMA MessagesStep == MessagesTyped /\ [Next]_vars => MessagesTyped'
<1> SUFFICES ASSUME MessagesTyped, [Next]_vars PROVE MessagesTyped'
  OBVIOUS
<1> USE MessageTypes
<1>1. ASSUME NEW s \in Slots, AddHops(s) PROVE MessagesTyped'
  <2>1. kind = "Report" /\ Put("Report", s, [obj[s] EXCEPT !.hops = Append(obj[s].hops, Hop)])
    BY <1>1 DEF AddHops, IsReport
  <2>2. [obj[s] EXCEPT !.hops = Append(obj[s].hops, Hop)] \in Messages(kind)
    BY <2>1, KnownReportAdd DEF Messages
  <2> QED
    BY <2>1, <2>2, PutTyped
<1>2. ASSUME NEW s \in Slots, NEW f \in {"asn", "nodeId"}, NEW n \in Values, SetHop(s, f, n)
      PROVE  MessagesTyped'
  <2> DEFINE r == obj[s]
             i == Len(r.hops)
             g == [r.hops[i] EXCEPT ![f] = n]
  <2>1. kind = "Report" /\ r.hops # <<>> /\ Put("Report", s, [r EXCEPT !.hops[i] = g])
    BY <1>2 DEF SetHop, OfHop, IsReport
  <2>2. r \in KnownReports
    BY <2>1
  <2>3. i \in 1 .. Len(r.hops) /\ r.hops[i] \in Hops /\ DOMAIN r.hops[i].metadata \subseteq Keys
    BY <2>1, <2>2, KnownHop
  <2>4. g \in Hops /\ DOMAIN g.metadata \subseteq Keys
    BY <2>3, HopSetters
  <2> HIDE DEF g, i, r
  <2>5. [r EXCEPT !.hops[i] = g] \in Messages(kind)
    BY <2>1, <2>2, <2>3, <2>4, KnownReportHop DEF Messages
  <2> QED
    BY <2>1, <2>5, PutTyped
<1>3. ASSUME NEW s \in Slots, NEW k \in Keys, NEW b \in Payloads, SetMetadata(s, k, b)
      PROVE  MessagesTyped'
  <2> DEFINE r == obj[s]
             i == Len(r.hops)
             h == r.hops[i]
             g == [h EXCEPT !.metadata = MapMerge(h.metadata, [t \in {k} |-> b])]
  <2>1. kind = "Report" /\ r.hops # <<>> /\ Put("Report", s, [r EXCEPT !.hops[i] = g])
    BY <1>3 DEF SetMetadata, OfHop, IsReport
  <2>2. r \in KnownReports
    BY <2>1
  <2>3. i \in 1 .. Len(r.hops) /\ h \in Hops /\ DOMAIN h.metadata \subseteq Keys
    BY <2>1, <2>2, KnownHop
  <2> HIDE DEF h
  <2>4. g \in Hops /\ DOMAIN g.metadata \subseteq Keys
    BY <2>3, HopSetMetadata
  <2> HIDE DEF g, i, r
  <2>5. [r EXCEPT !.hops[i] = g] \in Messages(kind)
    BY <2>1, <2>2, <2>3, <2>4, KnownReportHop DEF Messages
  <2> QED
    BY <2>1, <2>5, PutTyped
<1>4. ASSUME NEW s \in Slots, NEW n \in Values, SetPacketType(s, n)
      PROVE  MessagesTyped'
  <2>1. kind = "Report" /\ Put("Report", s, [obj[s] EXCEPT !.packetType = n])
    BY <1>4 DEF SetPacketType, IsReport, Put
  <2>2. [obj[s] EXCEPT !.packetType = n] \in Messages(kind)
    BY <2>1, ReportSetters DEF Messages
  <2> QED
    BY <2>1, <2>2, PutTyped
<1>5. ASSUME NEW s \in Slots, NEW b \in Payloads, SetTruncated(s, b)
      PROVE  MessagesTyped'
  <2>1. kind = "Report" /\ Put("Report", s, [obj[s] EXCEPT !.truncated = b])
    BY <1>5 DEF SetTruncated, IsReport, Put
  <2>2. [obj[s] EXCEPT !.truncated = b] \in Messages(kind)
    BY <2>1, ReportSetters DEF Messages
  <2> QED
    BY <2>1, <2>2, PutTyped
<1>6. ASSUME NEW s \in Slots, NEW n \in Values, NEW f \in {"dstAs", "srcAs", "flowId"}, SetAddressing(s, f, n)
      PROVE  MessagesTyped'
  <2>1. kind = "FlowKey" /\ Put("FlowKey", s, [obj[s] EXCEPT ![f] = n])
    BY <1>6 DEF SetAddressing, IsReport, Put
  <2>2. [obj[s] EXCEPT ![f] = n] \in Messages(kind)
    BY <2>1, FlowKeySetters DEF Messages
  <2> QED
    BY <2>1, <2>2, PutTyped
<1>7. ASSUME NEW s \in Slots, NEW n \in Values, NEW f \in {"dstPort", "srcPort", "protocol"}, SetTransport(s, f, n)
      PROVE  MessagesTyped'
  <2>1. kind = "FlowKey" /\ Put("FlowKey", s, [obj[s] EXCEPT ![f] = n])
    BY <1>7 DEF SetTransport, IsReport, Put
  <2>2. [obj[s] EXCEPT ![f] = n] \in Messages(kind)
    BY <2>1, FlowKeySetters DEF Messages
  <2> QED
    BY <2>1, <2>2, PutTyped
<1>8. ASSUME NEW s \in Slots, NEW n \in Values, SetDstIpv4(s, n)
      PROVE  MessagesTyped'
  <2>1. kind = "FlowKey" /\ Put("FlowKey", s, [obj[s] EXCEPT !.dstIp = Ipv4(n)])
    BY <1>8 DEF SetDstIpv4, IsReport, Put
  <2>2. [obj[s] EXCEPT !.dstIp = Ipv4(n)] \in Messages(kind)
    BY <2>1, FlowKeySetters DEF Messages
  <2> QED
    BY <2>1, <2>2, PutTyped
<1>9. ASSUME NEW s \in Slots, NEW n \in Values, SetSrcIpv4(s, n)
      PROVE  MessagesTyped'
  <2>1. kind = "FlowKey" /\ Put("FlowKey", s, [obj[s] EXCEPT !.srcIp = Ipv4(n)])
    BY <1>9 DEF SetSrcIpv4, IsReport, Put
  <2>2. [obj[s] EXCEPT !.srcIp = Ipv4(n)] \in Messages(kind)
    BY <2>1, FlowKeySetters DEF Messages
  <2> QED
    BY <2>1, <2>2, PutTyped
<1>10. ASSUME NEW s \in Slots, ClearDstIp(s)
      PROVE  MessagesTyped'
  <2>1. kind = "FlowKey" /\ Put("FlowKey", s, [obj[s] EXCEPT !.dstIp = NotSet])
    BY <1>10 DEF ClearDstIp, IsReport, Put
  <2>2. [obj[s] EXCEPT !.dstIp = NotSet] \in Messages(kind)
    BY <2>1, FlowKeySetIp, IpIs DEF Messages
  <2> QED
    BY <2>1, <2>2, PutTyped
<1>11. ASSUME NEW s \in Slots, ClearSrcIp(s)
      PROVE  MessagesTyped'
  <2>1. kind = "FlowKey" /\ Put("FlowKey", s, [obj[s] EXCEPT !.srcIp = NotSet])
    BY <1>11 DEF ClearSrcIp, IsReport, Put
  <2>2. [obj[s] EXCEPT !.srcIp = NotSet] \in Messages(kind)
    BY <2>1, FlowKeySetIp, IpIs DEF Messages
  <2> QED
    BY <2>1, <2>2, PutTyped
<1>12. ASSUME NEW s \in Slots, NEW n \in Values, NEW half \in {"high", "low"},
             SetDstIpv6(s, half, n)
      PROVE  MessagesTyped'
  <2> DEFINE v == Ipv6(SetHalf(Mutable(obj[s].dstIp), half, n))
  <2>1. kind = "FlowKey" /\ Put("FlowKey", s, [obj[s] EXCEPT !.dstIp = v])
    BY <1>12 DEF SetDstIpv6, IsReport, Put
  <2>2. obj[s] \in FlowKeys
    BY <2>1
  <2>3. v \in Ips
    BY <2>2, FlowKeyParts, HalfType
  <2> HIDE DEF v
  <2>4. [obj[s] EXCEPT !.dstIp = v] \in Messages(kind)
    BY <2>1, <2>2, <2>3, FlowKeySetIp DEF Messages
  <2> QED
    BY <2>1, <2>4, PutTyped
<1>13. ASSUME NEW s \in Slots, NEW n \in Values, NEW half \in {"high", "low"},
             SetSrcIpv6(s, half, n)
      PROVE  MessagesTyped'
  <2> DEFINE v == Ipv6(SetHalf(Mutable(obj[s].srcIp), half, n))
  <2>1. kind = "FlowKey" /\ Put("FlowKey", s, [obj[s] EXCEPT !.srcIp = v])
    BY <1>13 DEF SetSrcIpv6, IsReport, Put
  <2>2. obj[s] \in FlowKeys
    BY <2>1
  <2>3. v \in Ips
    BY <2>2, FlowKeyParts, HalfType
  <2> HIDE DEF v
  <2>4. [obj[s] EXCEPT !.srcIp = v] \in Messages(kind)
    BY <2>1, <2>2, <2>3, FlowKeySetIp DEF Messages
  <2> QED
    BY <2>1, <2>4, PutTyped
<1>14. ASSUME NEW s \in Slots, Clear(s) PROVE MessagesTyped'
  BY <1>14, PutTyped DEF Clear
<1>15. ASSUME NEW x \in Messages(kind), NEW y \in Messages(kind)
       PROVE  Merge(x, y) \in Messages(kind)
  BY KnownReportMerge, FlowKeyMergeIs DEF Messages, Merge, IsReport
<1>16. ASSUME NEW s \in Slots, NEW t \in Slots, MergeFrom(s, t) PROVE MessagesTyped'
  <2>1. Put(kind, s, Merge(obj[s], obj[t])) /\ Merge(obj[s], obj[t]) \in Messages(kind)
    BY <1>15, <1>16 DEF MergeFrom
  <2> QED
    BY <2>1, PutTyped
<1>17. ASSUME NEW s \in Slots, NEW t \in Slots, CopyFrom(s, t) PROVE MessagesTyped'
  <2>1. Put(kind, s, Merge(Empty(kind), obj[t])) /\ Merge(Empty(kind), obj[t]) \in Messages(kind)
    BY <1>15, <1>17 DEF CopyFrom
  <2> QED
    BY <2>1, PutTyped
<1>18. ASSUME NEW s \in Slots, NEW t \in Slots, Swap(s, t) PROVE MessagesTyped'
  <2>1. obj' = [obj EXCEPT ![s] = obj[t], ![t] = obj[s]] /\ ops' = ops + 1 /\ kind' = kind
    BY <1>18 DEF Swap
  <2>2. obj' \in [Slots -> Messages(kind)]
    BY <2>1 DEF MessagesTyped
  <2>3. Messages(kind') = Messages(kind)
    BY <2>1
  <2> QED
    BY <2>1, <2>2, <2>3 DEF MessagesTyped
<1>19. ASSUME NEW s \in Slots, NEW b \in Foreign, ParseFrom(s, b) PROVE MessagesTyped'
  <2>1. ReadableAs(b) /\ Put(kind, s, Parse(Empty(kind), b))
    BY <1>19 DEF ParseFrom
  <2>2. b \in ByteSeqs
    BY BytesAssumption DEF ByteSeqs
  <2>3. Parse(Empty(kind), b) \in Messages(kind)
    <3>1. CASE kind = "Report"
      BY <3>1, <2>1, KnownReportParse DEF Messages, Parse, ReadableAs, Empty, IsReport
    <3>2. CASE kind = "FlowKey"
      BY <3>2, <2>2, FlowKeyParses, FlowKeyEmptyType DEF Messages, Parse, Empty, IsReport
    <3> QED
      BY <3>1, <3>2 DEF MessagesTyped
  <2> QED
    BY <2>1, <2>3, PutTyped
<1>20. ASSUME UNCHANGED vars PROVE MessagesTyped'
  BY <1>20 DEF MessagesTyped, Messages, vars
<1> QED
  BY <1>1, <1>2, <1>3, <1>4, <1>5, <1>6, <1>7, <1>8, <1>9, <1>10, <1>11, <1>12, <1>13, <1>14, <1>16, <1>17, <1>18, <1>19, <1>20 DEF Next

\* Both messages are of the class they are said to be: every field has its
\* type, what is kept of unknown fields is whole fields the class does not know,
\* and a hop has no metadata with other keys.
THEOREM MessagesTypedHolds == Spec => []MessagesTyped
<1>1. Init => MessagesTyped
  BY KnownReportEmpty, FlowKeyEmptyType DEF Init, MessagesTyped, Messages, Empty
<1> QED
  BY <1>1, MessagesStep, PTL DEF Spec
-----------------------------------------------------------------------------
(* What it implies. *)

\* The class decides how messages are written.
LEMMA ClassCases ==
  ASSUME MessagesTyped
  PROVE  \/ IsReport /\ kind = "Report" /\ Orders = SetToSeqs(Keys)
         \/ ~IsReport /\ kind = "FlowKey"
  BY DEF MessagesTyped, IsReport, Orders

\* Sizes of typed messages.
LEMMA TypedSize == MessagesTyped => SizeIsExact
<1> SUFFICES ASSUME MessagesTyped, NEW s \in Slots, NEW o \in Orders
             PROVE  Len(Serialize(obj[s], o)) = ByteSize(obj[s], o)
  BY DEF SizeIsExact
<1>1. CASE IsReport /\ kind = "Report" /\ Orders = SetToSeqs(Keys)
  <2>1. obj[s] \in Reports /\ o \in Seq(Nat)
    BY <1>1, MessageTypes, KnownCovers
  <2> QED
    BY <1>1, <2>1, ReportSize DEF Serialize, ByteSize
<1>2. CASE ~IsReport /\ kind = "FlowKey"
  BY <1>2, MessageTypes, FlowKeySize DEF Serialize, ByteSize
<1> QED
  BY <1>1, <1>2, ClassCases

\* Typed messages survive being written.
LEMMA TypedRoundTrip == MessagesTyped => RoundTrip
<1> SUFFICES ASSUME MessagesTyped, NEW s \in Slots, NEW o \in Orders
             PROVE  /\ ReadableAs(Serialize(obj[s], o))
                    /\ Parse(Empty(kind), Serialize(obj[s], o)) = obj[s]
  BY DEF RoundTrip
<1>1. CASE IsReport /\ kind = "Report" /\ Orders = SetToSeqs(Keys)
  <2>1. obj[s] \in Reports /\ o \in Seq(Nat) /\ Covers(o, obj[s].hops)
    BY <1>1, MessageTypes, KnownCovers
  <2>2. /\ ReportReadable(ReportSerialize(obj[s], o))
        /\ ReportParse(Report, ReportSerialize(obj[s], o)) = obj[s]
    BY <2>1, ReportReadsBack
  <2> QED
    BY <1>1, <2>2 DEF Serialize, ReadableAs, Parse, Empty
<1>2. CASE ~IsReport /\ kind = "FlowKey"
  <2>1. /\ FlowKeyReadable(FlowKeySerialize(obj[s]))
        /\ FlowKeyParse(FlowKey, FlowKeySerialize(obj[s])) = obj[s]
    BY <1>2, MessageTypes, FlowKeyReadsBack
  <2> QED
    BY <1>2, <2>1 DEF Serialize, ReadableAs, Parse, Empty
<1> QED
  BY <1>1, <1>2, ClassCases

\* Typed messages merge as their bytes do.
LEMMA TypedConcatenation == MessagesTyped => ConcatenationMerges
<1> SUFFICES ASSUME MessagesTyped, NEW s \in Slots, NEW t \in Slots,
                    NEW o \in Orders, NEW p \in Orders
             PROVE  Parse(Empty(kind), Serialize(obj[s], o) \o Serialize(obj[t], p))
                      = Merge(obj[s], obj[t])
  BY DEF ConcatenationMerges
<1>1. CASE IsReport /\ kind = "Report" /\ Orders = SetToSeqs(Keys)
  <2>1. /\ obj[s] \in Reports /\ o \in Seq(Nat) /\ Covers(o, obj[s].hops)
        /\ obj[t] \in Reports /\ p \in Seq(Nat) /\ Covers(p, obj[t].hops)
    BY <1>1, MessageTypes, KnownCovers
  <2>2. ReportParse(Report, ReportSerialize(obj[s], o) \o ReportSerialize(obj[t], p))
          = ReportMerge(obj[s], obj[t])
    BY <2>1, ReportsConcatenate
  <2> QED
    BY <1>1, <2>2 DEF Serialize, Merge, Parse, Empty
<1>2. CASE ~IsReport /\ kind = "FlowKey"
  <2>1. FlowKeyParse(FlowKey, FlowKeySerialize(obj[s]) \o FlowKeySerialize(obj[t]))
          = FlowKeyMerge(obj[s], obj[t])
    BY <1>2, MessageTypes, FlowKeysConcatenate
  <2> QED
    BY <1>2, <2>1 DEF Serialize, Merge, Parse, Empty
<1> QED
  BY <1>1, <1>2, ClassCases

\* A typed message is not its first bytes.
LEMMA TypedCut == MessagesTyped => CutIsNoticed
<1> SUFFICES ASSUME MessagesTyped, NEW s \in Slots, NEW o \in Orders,
                    NEW n \in 0 .. Len(Serialize(obj[s], o)) - 1,
                    ReadableAs(SubSeq(Serialize(obj[s], o), 1, n))
             PROVE  Parse(Empty(kind), SubSeq(Serialize(obj[s], o), 1, n)) # obj[s]
  BY DEF CutIsNoticed
<1>1. CASE IsReport /\ kind = "Report" /\ Orders = SetToSeqs(Keys)
  <2>1. obj[s] \in Reports /\ o \in Seq(Nat) /\ Covers(o, obj[s].hops)
    BY <1>1, MessageTypes, KnownCovers
  <2>2. /\ n \in 0 .. Len(ReportSerialize(obj[s], o)) - 1
        /\ ReportReadable(SubSeq(ReportSerialize(obj[s], o), 1, n))
    BY <1>1 DEF Serialize, ReadableAs
  <2>3. ReportParse(Report, SubSeq(ReportSerialize(obj[s], o), 1, n)) # obj[s]
    BY <2>1, <2>2, ReportCutIsAnother
  <2> QED
    BY <1>1, <2>3 DEF Serialize, Parse, Empty
<1>2. CASE ~IsReport /\ kind = "FlowKey"
  <2>1. /\ n \in 0 .. Len(FlowKeySerialize(obj[s])) - 1
        /\ FlowKeyReadable(SubSeq(FlowKeySerialize(obj[s]), 1, n))
    BY <1>2 DEF Serialize, ReadableAs
  <2>2. FlowKeyParse(FlowKey, SubSeq(FlowKeySerialize(obj[s]), 1, n)) # obj[s]
    BY <1>2, <2>1, MessageTypes, FlowKeyCutIsAnother
  <2> QED
    BY <1>2, <2>2 DEF Serialize, Parse, Empty
<1> QED
  BY <1>1, <1>2, ClassCases

\* ByteSizeLong and Serialize agree, for whatever a message was built from and
\* whatever order its maps are written in.
THEOREM SizeIsExactHolds == Spec => []SizeIsExact
  BY MessagesTypedHolds, TypedSize, PTL

\* What was written is read back as the message it was.
THEOREM RoundTripHolds == Spec => []RoundTrip
  BY MessagesTypedHolds, TypedRoundTrip, PTL

\* Reading one message after another is merging them.
THEOREM ConcatenationMergesHolds == Spec => []ConcatenationMerges
  BY MessagesTypedHolds, TypedConcatenation, PTL

\* A message that was cut short is not taken for the whole one.
THEOREM CutIsNoticedHolds == Spec => []CutIsNoticed
  BY MessagesTypedHolds, TypedCut, PTL
=============================================================================
