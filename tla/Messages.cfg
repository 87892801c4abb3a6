\* The generated report classes: encoding, decoding and merging.
SPECIFICATION Spec
CONSTANTS
  m1 = m1
  m2 = m2
  Slots = {m1, m2}
  Values <- MCValues
  Keys <- MCKeys
  Payloads <- MCPayloads
  Foreign <- MCForeign
  MaxHops = 2
  MaxOps = 4
SYMMETRY MCSymmetry
INVARIANTS
  CutIsNoticed
  RoundTrip
  ConcatenationMerges
  SizeIsExact
CHECK_DEADLOCK FALSE
