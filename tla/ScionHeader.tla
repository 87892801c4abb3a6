----------------------------- MODULE ScionHeader -----------------------------
(* The headers of a UDP/SCION packet with INT data, as the bytes of the        *)
(* packet-in a sink sends to its controller: int_cpu, SCION common and address *)
(* header, path, UDP, INT shim, INT-MD header and INT stack.                   *)
(*                                                                             *)
(* A header has a shape: dl and sl, the lengths of the host addresses less     *)
(* one word, and a path, whose segments are the numbers of their hop fields.   *)
EXTENDS Conversions

OneHop == [type |-> "ONEHOP", seg |-> <<>>]
ScionPath(seg) == [type |-> "SCION", seg |-> seg]

\* Paths of SCION: one to three segments, none of them empty before a full one.
PathOk(path) ==
  path.type = "SCION" =>
    /\ Len(path.seg) = 3 /\ path.seg[1] > 0
    /\ path.seg[3] > 0 => path.seg[2] > 0

SumOf(seq) == FoldLeft(LAMBDA n, k : n + k, 0, seq)

-----------------------------------------------------------------------------
(* What the parser of the switch counts while it extracts.                     *)

AddrLen(dl, sl) == 16 + 4 * (dl + 1) + 4 * (sl + 1)

InfoFields(seg) == IF seg[3] = 0 THEN (IF seg[2] = 0 THEN 1 ELSE 2) ELSE 3

PathLen(path) ==
  IF path.type = "ONEHOP" THEN 32
  ELSE 4 + 8 * InfoFields(path.seg) + (SumOf(path.seg) * 96) \div 8

\* Mutant: the shim is not counted.
CpuHdrLenNoShim(shape) == 12 + AddrLen(shape.dl, shape.sl) + PathLen(shape.path) + 8 + 12

CpuHdrLen(shape) ==
  12 + AddrLen(shape.dl, shape.sl) + PathLen(shape.path) + 8 + 4 + 12

-----------------------------------------------------------------------------
(* What is on the wire.  Bytes no reader is interested in are Filler.          *)

Filler == 170
Fill(n) == [i \in 1..n |-> Filler]

Common(p) == toBitstring(4, p.qos * 1048576 + p.flow) \o Fill(8)

Addresses(p) == toBitstring(2, p.dst.isd) \o toBitstring(6, p.dst.as) \o Fill(8)
                \o Fill(4 * (p.shape.dl + 1)) \o Fill(4 * (p.shape.sl + 1))

Path(path) ==
  IF path.type = "ONEHOP" THEN Fill(8 + 2 * 12)
  ELSE LET segments == Cardinality({i \in 1..3 : path.seg[i] > 0})
       IN  Fill(4) \o Fill(8 * segments) \o Fill(12 * SumOf(path.seg))

\* type and npt, length in words, port of the application.
Shim(p) == <<20, p.length>> \o Fill(2)

\* version .. reserved, hopML in the low five bits, remaining hops, bitmaps.
MdHeader(p) == <<32, 0, p.hopML, Filler>> \o toBitstring(2, p.bitmapInt)
               \o Fill(2) \o toBitstring(2, p.bitmapScion) \o Fill(2)

Headers(p) == Common(p) \o Addresses(p) \o Path(p.shape.path) \o Fill(8)
              \o Shim(p) \o MdHeader(p)

\* keep_int_cpu: everything before SCION and the payload are cut off.
INT_IDENTIFIER == 4804180    \* 0x00494e54

KeepIntCpu(p) == toBitstring(8, INT_IDENTIFIER) \o toBitstring(8, CpuHdrLen(p.shape))
                 \o Headers(p) \o p.stack
=============================================================================
