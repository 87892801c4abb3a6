-------------------------- MODULE MCReportMessages --------------------------
(* Small instance of ReportMessages.                                          *)
EXTENDS ReportMessages

CONSTANTS m1, m2

\* The two messages play the same part.
MCSymmetry == Permutations({m1, m2})

\* Zero, and a number whose varint takes two bytes and whose fixed form two.
MCValues == {0, 300}

\* HOP_LATENCY and a domain specific type.
MCKeys == {2, 16}

MCPayloads == {<<>>, <<0, 255>>}

\* Written by other programs: a field 15 this schema does not have, a field 1
\* of another type, one address in two parts and one that another replaces, and
\* a map key twice.
MCForeign ==
  { VarintField(120, 300),
    FixedField(13, 7, 4) \o VarintField(8, 5),
    LenField(42, 9, FixedField(9, 1, 8)) \o LenField(42, 11, FixedField(17, 2, 8) \o VarintField(24, 1))
      \o LenField(58, 2, VarintField(24, 1)) \o FixedField(53, 300, 4),
    LenField(10, 13, LenField(26, 5, EntrySerialize(2, <<1>>))
                     \o LenField(26, 4, EntrySerialize(2, <<>>)))
  }
=============================================================================
