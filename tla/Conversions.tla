----------------------------- MODULE Conversions -----------------------------
(* How the controllers turn text into numbers and numbers into bytes and back: *)
(* addressConversion.h, readIntTable.h, bitstring.h and takeUint.h.            *)
(*                                                                             *)
(* A text is what the parsers can tell apart in it: a number is the sequence   *)
(* of its digits, an AS address its ISD and its parts between the colons.      *)
EXTENDS Integers, SequencesExt

Numeral(digits, base) == FoldLeft(LAMBDA n, d : base * n + d, 0, digits)

\* std::stoi("0x" + digits, nullptr, 16): no digit at all still reads the 0.
Hex(digits) == Numeral(digits, 16)

\* "ISD-part:part:part".  Both halves are hexadecimal, the ISD is cut to 16
\* bits, and a part longer than that runs over into the one before it.
splitScionAddress(text) ==
  [isd |-> Hex(text.isd) % 65536,
   as  |-> Numeral([i \in DOMAIN text.parts |-> Hex(text.parts[i])], 65536)]

\* The big-endian bytes of a number; leading ones are cut off.
toBitstring(bytes, n) == Reverse(LET low[i \in 0..bytes] ==
                                       IF i = 0 THEN n ELSE low[i - 1] \div 256
                                 IN  [i \in 1..bytes |-> low[i - 1] % 256])

\* The number of the last bytes of a bitstring, however long it is.
fromBitstring(bytes, bits) ==
  Numeral(SubSeq(bits, IF Len(bits) > bytes THEN Len(bits) - bytes + 1 ELSE 1,
                 Len(bits)), 256)

\* The bytes takeUint64 and the other readers look at; pos counts from zero.
Bytes(payload, pos, n) == SubSeq(payload, pos + 1, pos + n)
takeUint64(payload, pos) == Numeral(Bytes(payload, pos, 8), 256)
takeUint32(payload, pos) == Numeral(Bytes(payload, pos, 4), 256)
takeUint16(payload, pos) == Numeral(Bytes(payload, pos, 2), 256)
takeUint8(payload, pos)  == payload[pos + 1]

\* The lines of an INT table: comments are skipped, a bitmap that is missing is
\* zero, and an empty line is one for the AS 0-0.
readIntTable(lines) ==
  LET Entry(line) == [as |-> splitScionAddress(line.as),
                      int |-> Hex(line.int), scion |-> Hex(line.scion)]
      read == SelectSeq(lines, LAMBDA line : line.kind # "comment")
  IN  [i \in DOMAIN read |-> Entry(read[i])]
=============================================================================
