--------------------------- MODULE MCReportExport ---------------------------
(* Small instance of ReportExport.                                            *)
EXTENDS ReportExport

\* 1-0:1:2, a node, and a table with a comment and an empty line.
MCHostText == [isd |-> <<1>>, parts |-> <<<<0>>, <<1>>, <<2>>>>]
MCLines == << [kind |-> "comment", as |-> [isd |-> <<>>, parts |-> <<>>], int |-> <<>>, scion |-> <<>>],
              [kind |-> "line", as |-> [isd |-> <<1>>, parts |-> <<<<0>>, <<1>>, <<3>>>>],
               int |-> <<8, 8, 0, 0>>, scion |-> <<0, 0, 0, 1>>],
              [kind |-> "line", as |-> [isd |-> <<>>, parts |-> <<>>], int |-> <<>>, scion |-> <<>>] >>

Sink == [isd |-> 1, as |-> 65536 + 2]

\* Node ID, ingress time and AS address, as one or two switches recorded them.
Recorded(n) == [nodeId |-> n, asn |-> 65536 + n,
                metadata |-> [t \in {4} |-> toBitstring(8, 7000 * n)]]
StackOf(hops) ==
  LET words == [i \in DOMAIN hops |-> toBitstring(4, hops[i].nodeId)
                  \o toBitstring(8, 7 * hops[i].nodeId) \o toBitstring(8, hops[i].asn)]
  IN  IF Len(hops) = 1 THEN words[1] ELSE words[1] \o words[2]

Packet(dl, sl, path, flow, qos, hops) ==
  [shape |-> [dl |-> dl, sl |-> sl, path |-> path], flow |-> flow, qos |-> qos,
   dst |-> Sink, length |-> 3 + 5 * Len(hops), hopML |-> 5,
   bitmapInt |-> 32768 + 2048, bitmapScion |-> 1,
   stack |-> StackOf(hops), recorded |-> hops]

MCPackets ==
  << Packet(0, 3, OneHop, 5, 0, <<Recorded(1)>>),
    Packet(0, 0, ScionPath(<<2, 0, 0>>), 5, 184, <<Recorded(1), Recorded(2)>>),
    Packet(3, 1, ScionPath(<<1, 1, 2>>), 1048575, 0, <<Recorded(2), Recorded(1)>>) >>

\* Too short for int_cpu, another identifier, headers longer than the payload,
\* a stack that is not a multiple of its hops, and hops of no length.
MCOthers ==
  { Fill(15), toBitstring(8, 7) \o Fill(40), toBitstring(8, INT_IDENTIFIER) \o toBitstring(8, 80) \o Fill(79),
    KeepIntCpu([Packet(0, 0, OneHop, 5, 0, <<Recorded(1)>>) EXCEPT !.length = 7]),
    KeepIntCpu([Packet(0, 0, OneHop, 5, 0, <<Recorded(1)>>) EXCEPT !.hopML = 0]) }
=============================================================================
