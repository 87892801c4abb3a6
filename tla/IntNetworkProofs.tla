-------------------------- MODULE IntNetworkProofs --------------------------
(***************************************************************************)
(* The safety properties of IntNetwork, for any switches, routes, bitmaps  *)
(* and tables, any number of packets and any number of takeovers.          *)
(*                                                                         *)
(* Placed is the inductive form of TypeOK and needs no assumption on the   *)
(* network.  Contents says what is in the packets, and Once how many       *)
(* copies of their INT data there are; both need that no route has two     *)
(* sources (OneSource), as a second insert_int would bury the stack of the *)
(* first.  The properties about what arrives need in addition that the     *)
(* switches are initialized for good (Steady), that a sink follows each    *)
(* source (SinkFollows), and that no field is asked for that no table      *)
(* fills in (AsksRecordable).                                              *)
(***************************************************************************)
EXTENDS IntNetwork, SequenceLemmas, InitializationProofs

-----------------------------------------------------------------------------
(* The stack of a node: where its fields are, and that they fit into five bits *)
(* of words.                                                                   *)

Word == {"data"} \cup [node : Ctrl \cup {None}, field : Field, word : 1 .. 2]

\* The order has ten fields, each at a position of its own.
LEMMA FieldOrderFacts ==
  /\ FieldOrder \in Seq(Field) /\ Len(FieldOrder) = 10
  /\ \A i \in 1 .. 10 : FieldOrder[i] \in Field
  /\ \A f \in Field : Position(f) \in 1 .. 10 /\ FieldOrder[Position(f)] = f
<1>1. Len(FieldOrder) = 10
  BY DEF FieldOrder
<1>2. \A i \in 1 .. 10 : FieldOrder[i] \in Field
  BY <1>1 DEF Field
<1>3. FieldOrder \in Seq(Field)
  <2>1. FieldOrder = [i \in 1 .. 10 |-> FieldOrder[i]]
    BY DEF FieldOrder
  <2>2. [i \in 1 .. 10 |-> FieldOrder[i]] \in Seq(Field)
    BY <1>2
  <2> QED
    BY <2>1, <2>2
<1>4. ASSUME NEW f \in Field
      PROVE  Position(f) \in 1 .. 10 /\ FieldOrder[Position(f)] = f
  <2>1. \E i \in 1 .. Len(FieldOrder) : FieldOrder[i] = f
    BY DEF Field
  <2> QED
    BY <1>1, <2>1 DEF Position
<1> QED
  BY <1>1, <1>2, <1>3, <1>4

\* A field takes one word or two.
LEMMA WidthType == \A f : Width(f) \in 1 .. 2
  BY DEF Width

\* What a node writes for a field.
LEMMA FieldWordsType ==
  ASSUME NEW n \in Ctrl \cup {None}, NEW f \in Field
  PROVE  /\ FieldWords(n, f) \in Seq(Word)
         /\ Len(FieldWords(n, f)) = Width(f)
<1>1. Width(f) \in 1 .. 2
  BY WidthType
<1>2. \A k \in 1 .. Width(f) : [node |-> n, field |-> f, word |-> k] \in Word
  BY <1>1 DEF Word
<1> QED
  BY <1>1, <1>2 DEF FieldWords

\* The deparser writes ten headers, those it is not asked for being empty.
LEMMA EmittedType ==
  ASSUME NEW n \in Ctrl \cup {None}, NEW fields
  PROVE  /\ Emitted(n, fields) \in Seq(Seq(Word)) /\ Len(Emitted(n, fields)) = 10
         /\ \A i \in 1 .. 10 :
              Emitted(n, fields)[i] = IF FieldOrder[i] \in fields
                                      THEN FieldWords(n, FieldOrder[i]) ELSE <<>>
<1>1. \A i \in 1 .. 10 : FieldWords(n, FieldOrder[i]) \in Seq(Word)
  BY FieldOrderFacts, FieldWordsType
<1>2. <<>> \in Seq(Word) /\ Len(FieldOrder) = 10
  BY FieldOrderFacts
<1> QED
  BY <1>1, <1>2 DEF Emitted

\* The words of the first i fields.
Upto(n, fields, i) == FlattenSeq(SubSeq(Emitted(n, fields), 1, i))

\* The stack grows by one field after the other.
LEMMA UptoFacts ==
  ASSUME NEW n \in Ctrl \cup {None}, NEW fields
  PROVE  /\ Upto(n, fields, 0) = <<>>
         /\ Upto(n, fields, 10) = StackOf(n, fields)
         /\ \A i \in 0 .. 10 : Upto(n, fields, i) \in Seq(Word)
         /\ \A i \in 1 .. 10 : Upto(n, fields, i)
                                 = Upto(n, fields, i - 1) \o Emitted(n, fields)[i]
<1> DEFINE s == Emitted(n, fields)
<1>1. s \in Seq(Seq(Word)) /\ Len(s) = 10
  BY EmittedType
<1> HIDE DEF s
<1>2. /\ FlattenSeq(SubSeq(s, 1, 10)) = FlattenSeq(s)
      /\ FlattenSeq(SubSeq(s, 1, 0)) = <<>>
      /\ \A i \in 0 .. 10 : FlattenSeq(SubSeq(s, 1, i)) \in Seq(Word)
  BY <1>1, FlattenWhole
<1>3. \A i \in 1 .. 10 : FlattenSeq(SubSeq(s, 1, i))
                           = FlattenSeq(SubSeq(s, 1, i - 1)) \o s[i]
  BY <1>1, FlattenStep
<1> QED
  BY <1>2, <1>3 DEF Upto, StackOf, s

\* How many words there are does not depend on the node.
LEMMA UptoLength ==
  ASSUME NEW n \in Ctrl \cup {None}, NEW m \in Ctrl \cup {None}, NEW fields
  PROVE  \A i \in 0 .. 10 : /\ Len(Upto(n, fields, i)) \in 0 .. 2 * i
                            /\ Len(Upto(n, fields, i)) = Len(Upto(m, fields, i))
<1> DEFINE P(i) == /\ Len(Upto(n, fields, i)) \in 0 .. 2 * i
                   /\ Len(Upto(n, fields, i)) = Len(Upto(m, fields, i))
           T == {i \in Nat : i <= 10 => P(i)}
<1>1. 0 \in T
  <2>1. Upto(n, fields, 0) = <<>> /\ Upto(m, fields, 0) = <<>>
    BY UptoFacts
  <2> QED
    BY <2>1
<1>2. ASSUME NEW i \in Nat \ {0}, i - 1 \in T PROVE i \in T
  <2> SUFFICES ASSUME i <= 10 PROVE P(i)
    OBVIOUS
  <2>1. P(i - 1)
    BY <1>2
  <2> HIDE DEF T
  <2>2. i \in 1 .. 10 /\ i - 1 \in 0 .. 10
    OBVIOUS
  <2> DEFINE e == Emitted(n, fields)[i]
             d == Emitted(m, fields)[i]
  <2>3. e \in Seq(Word) /\ d \in Seq(Word) /\ Len(e) \in 0 .. 2 /\ Len(d) = Len(e)
    <3> DEFINE f == FieldOrder[i]
    <3>1. f \in Field
      BY <2>2, FieldOrderFacts
    <3>2. /\ e = IF f \in fields THEN FieldWords(n, f) ELSE <<>>
          /\ d = IF f \in fields THEN FieldWords(m, f) ELSE <<>>
      BY <2>2, FieldOrderFacts DEF Emitted
    <3> HIDE DEF e, d, f
    <3>3. /\ FieldWords(n, f) \in Seq(Word) /\ Len(FieldWords(n, f)) = Width(f)
          /\ FieldWords(m, f) \in Seq(Word) /\ Len(FieldWords(m, f)) = Width(f)
      BY <3>1, FieldWordsType
    <3>4. Width(f) \in 1 .. 2
      BY WidthType
    <3> QED
      BY <3>2, <3>3, <3>4
  <2> HIDE DEF e, d
  <2>4. /\ Upto(n, fields, i) = Upto(n, fields, i - 1) \o e
        /\ Upto(m, fields, i) = Upto(m, fields, i - 1) \o d
        /\ Upto(n, fields, i - 1) \in Seq(Word) /\ Upto(m, fields, i - 1) \in Seq(Word)
    BY <2>2, UptoFacts DEF e, d
  <2>5. /\ Len(Upto(n, fields, i)) = Len(Upto(n, fields, i - 1)) + Len(e)
        /\ Len(Upto(m, fields, i)) = Len(Upto(m, fields, i - 1)) + Len(d)
    BY <2>3, <2>4, ConcatKeeps
  <2>6. Len(Upto(n, fields, i - 1)) \in 0 .. 2 * (i - 1)
    BY <2>1
  <2>7. Len(Upto(n, fields, i)) \in 0 .. 2 * i
    <3>1. PICK a \in 0 .. 2 * (i - 1) : a = Len(Upto(n, fields, i - 1))
      BY <2>6
    <3>2. PICK x \in 0 .. 2 : x = Len(e)
      BY <2>3
    <3>3. Len(Upto(n, fields, i)) = a + x
      BY <2>5, <3>1, <3>2
    <3>4. a + x \in 0 .. 2 * i
      OBVIOUS
    <3> QED
      BY <3>3, <3>4
  <2>8. Len(Upto(n, fields, i)) = Len(Upto(m, fields, i))
    BY <2>1, <2>3, <2>5
  <2> QED
    BY <2>7, <2>8
<1> HIDE DEF T
<1>3. Nat \subseteq T
  BY <1>1, <1>2, NatSetInduction
<1>4. ASSUME NEW i \in 0 .. 10 PROVE P(i)
  <2>1. i \in T /\ i <= 10
    BY <1>3
  <2> QED
    BY <2>1 DEF T
<1> QED
  BY <1>4

\* At most twenty words: the length fits into hopML and into int_shim.length.
LEMMA StackType ==
  ASSUME NEW n \in Ctrl \cup {None}, NEW fields
  PROVE  /\ StackOf(n, fields) \in Seq(Word)
         /\ Len(StackOf(n, fields)) \in 0 .. 20
         /\ Len(StackOf(None, fields)) = Len(StackOf(n, fields))
<1>1. 10 \in 0 .. 10 /\ None \in Ctrl \cup {None}
  OBVIOUS
<1>2. /\ Upto(n, fields, 10) = StackOf(n, fields) /\ Upto(n, fields, 10) \in Seq(Word)
      /\ Upto(None, fields, 10) = StackOf(None, fields)
  BY <1>1, UptoFacts
<1>3. /\ Len(Upto(n, fields, 10)) \in 0 .. 2 * 10
      /\ Len(Upto(n, fields, 10)) = Len(Upto(None, fields, 10))
  BY <1>1, UptoLength
<1> QED
  BY <1>2, <1>3

\* Where the words of a field are.
LEMMA StackField ==
  ASSUME NEW n \in Ctrl, NEW fields \in SUBSET Field, NEW f \in fields
  PROVE  LET before == Len(Upto(None, fields, Position(f) - 1)) IN
         /\ before \in Nat
         /\ before + Width(f) <= Len(StackOf(n, fields))
         /\ \A k \in 1 .. Width(f) : StackOf(n, fields)[before + k] = FieldWords(n, f)[k]
<1> DEFINE i == Position(f)
           s == Emitted(n, fields)
           before == Len(Upto(n, fields, i - 1))
<1> n \in Ctrl \cup {None} /\ None \in Ctrl \cup {None} /\ f \in Field
  OBVIOUS
<1>1. i \in 1 .. 10 /\ FieldOrder[i] = f
  BY FieldOrderFacts
<1>2. /\ s \in Seq(Seq(Word)) /\ Len(s) = 10 /\ s[i] = FieldWords(n, f)
  <2> HIDE DEF i
  <2> QED
    BY <1>1, EmittedType
<1>3. Len(s[i]) = Width(f)
  BY <1>2, FieldWordsType
<1>4. before \in Nat /\ before = Len(Upto(None, fields, i - 1))
  <2> HIDE DEF i
  <2>1. PICK j \in 0 .. 10 : j = i - 1
    BY <1>1
  <2>2. /\ Len(Upto(n, fields, j)) \in 0 .. 2 * j
        /\ Len(Upto(n, fields, j)) = Len(Upto(None, fields, j))
    BY UptoLength
  <2> QED
    BY <2>1, <2>2
<1>5. before = Len(FlattenSeq(SubSeq(s, 1, i - 1))) /\ StackOf(n, fields) = FlattenSeq(s)
  BY DEF Upto, StackOf
<1> HIDE DEF i, s, before
<1> i \in 1 .. Len(s)
  BY <1>1, <1>2
<1>6. /\ Len(FlattenSeq(SubSeq(s, 1, i - 1))) + Len(s[i]) <= Len(FlattenSeq(s))
      /\ \A k \in 1 .. Len(s[i]) :
           FlattenSeq(s)[Len(FlattenSeq(SubSeq(s, 1, i - 1))) + k] = s[i][k]
  BY <1>2, FlattenElement
<1> QED
  BY <1>2, <1>3, <1>4, <1>5, <1>6 DEF i

-----------------------------------------------------------------------------
(* The tables of a switch between two steps of its initialization.             *)

\* The numbers of the last steps of an initialization with INT.
LEMMA StepBounds ==
  ASSUME NEW c \in Ctrl
  PROVE  /\ Len(IntTable[c]) \in Nat
         /\ EgressStep(c) = 6 + Len(IntTable[c])
         /\ CloneStep(c) = 7 + Len(IntTable[c]) /\ LastStep(c) = CloneStep(c)
         /\ LastStep(c) \in Nat
<1>1. Len(IntTable[c]) \in Nat
  BY ConfigAssumption
<1> QED
  BY <1>1, FlowAssumption DEF EgressStep, CloneStep, LastStep

\* f[s] is the pipeline after the first s steps of c, up to step k.
Performs(f, c, k) ==
  f = [s \in 0 .. k |-> IF s = 0 THEN EmptyPipeline ELSE PerformStep(f[s - 1], c, s)]

\* What such a function says of each step.
LEMMA PerformsStep ==
  ASSUME NEW f, NEW c, NEW k \in Nat, Performs(f, c, k)
  PROVE  /\ f[0] = EmptyPipeline
         /\ \A s \in 1 .. k : f[s] = PerformStep(f[s - 1], c, s)
<1> DEFINE h == [s \in 0 .. k |-> IF s = 0 THEN EmptyPipeline
                                  ELSE PerformStep(f[s - 1], c, s)]
<1>1. f = h
  BY DEF Performs
<1>2. /\ h[0] = EmptyPipeline
      /\ \A s \in 1 .. k : h[s] = PerformStep(f[s - 1], c, s)
  OBVIOUS
<1> HIDE DEF h
<1>3. \A s \in 0 .. k : f[s] = h[s]
  BY <1>1
<1> QED
  BY <1>2, <1>3

\* One step more, ...
LEMMA PerformsExtends ==
  ASSUME NEW f, NEW c, NEW k \in Nat, Performs(f, c, k)
  PROVE  \E g : Performs(g, c, k + 1)
<1>1. /\ f[0] = EmptyPipeline
      /\ \A s \in 1 .. k : f[s] = PerformStep(f[s - 1], c, s)
  BY PerformsStep
<1> DEFINE n == k + 1
           g == [s \in 0 .. n |-> IF s = n THEN PerformStep(f[k], c, n) ELSE f[s]]
<1>2. ASSUME NEW s \in 0 .. n
      PROVE  g[s] = IF s = 0 THEN EmptyPipeline ELSE PerformStep(g[s - 1], c, s)
  <2>1. CASE s = n
    <3>1. g[s - 1] = f[k] /\ s # 0
      BY <2>1
    <3> QED
      BY <2>1, <3>1
  <2>2. CASE s # n
    <3>1. s \in 0 .. k /\ g[s] = f[s] /\ (s # 0 => s \in 1 .. k)
      BY <2>2
    <3>2. s # 0 => g[s - 1] = f[s - 1]
      BY <3>1
    <3> QED
      BY <1>1, <3>1, <3>2
  <2> QED
    BY <2>1, <2>2
<1>3. g = [s \in 0 .. n |-> g[s]]
  OBVIOUS
<1> HIDE DEF g
<1>4. Performs(g, c, n)
  BY <1>2, <1>3 DEF Performs
<1> QED
  BY <1>4

\* ... and therefore any number of them.
LEMMA PerformsExists ==
  ASSUME NEW c, NEW k \in Nat
  PROVE  \E f : Performs(f, c, k)
<1> DEFINE T == {n \in Nat : \E f : Performs(f, c, n)}
<1>1. 0 \in T
  <2> DEFINE e == [s \in 0 .. 0 |-> EmptyPipeline]
  <2>1. Performs(e, c, 0)
    BY DEF Performs
  <2> QED
    BY <2>1
<1>2. ASSUME NEW n \in Nat \ {0}, n - 1 \in T PROVE n \in T
  <2>1. PICK m \in Nat : m = n - 1
    OBVIOUS
  <2>2. PICK f : Performs(f, c, m)
    BY <1>2, <2>1
  <2>3. m + 1 = n
    BY <2>1
  <2>4. \E g : Performs(g, c, m + 1)
    BY <2>2, PerformsExtends
  <2> QED
    BY <2>3, <2>4
<1> HIDE DEF T
<1>3. Nat \subseteq T
  BY <1>1, <1>2, NatSetInduction
<1> QED
  BY <1>3 DEF T

\* The recursion of PipelineAfter.
LEMMA PipelineSteps ==
  ASSUME NEW c \in Ctrl
  PROVE  /\ PipelineAfter(c)[0] = EmptyPipeline
         /\ \A s \in 1 .. LastStep(c) :
              PipelineAfter(c)[s] = PerformStep(PipelineAfter(c)[s - 1], c, s)
<1> DEFINE f == CHOOSE f : Performs(f, c, LastStep(c))
<1>1. LastStep(c) \in Nat
  BY StepBounds
<1>2. \E g : Performs(g, c, LastStep(c))
  BY <1>1, PerformsExists
<1>3. Performs(f, c, LastStep(c))
  BY <1>2
<1>4. PipelineAfter(c) = f
  BY DEF PipelineAfter, Performs
<1> HIDE DEF f
<1> QED
  BY <1>1, <1>3, <1>4, PerformsStep

\* What scion_int of c may do with packets to a.
EntryOf(c, a, entry) ==
  \/ entry = NoAction
  \/ entry = CloneInt /\ a = HostAs[c]
  \/ \E i \in 1 .. Len(IntTable[c]) :
       /\ IntTable[c][i].as = a /\ a # HostAs[c]
       /\ entry = InsertInt(IntTable[c][i].bits)

\* The tables of c after s steps.
TablesOf(p, c, s) ==
  /\ p \in Pipeline
  /\ \A a \in As : EntryOf(c, a, p.scionInt[a])
  /\ s >= SinkStep => p.scionInt[HostAs[c]] = CloneInt
  /\ p.node \in {None, c}
  /\ s >= EgressStep(c) => p.node = c
  /\ s >= CloneStep(c) => p.clone

\* The three actions of scion_int are different.
LEMMA EntriesDiffer ==
  /\ CloneInt # NoAction
  /\ \A bits : InsertInt(bits) # NoAction /\ InsertInt(bits) # CloneInt
  BY DEF CloneInt, NoAction, InsertInt

\* Each RPC of the initialization keeps the tables in order.
LEMMA StepTables ==
  ASSUME NEW c \in Ctrl, NEW s \in 1 .. LastStep(c), NEW p, TablesOf(p, c, s - 1)
  PROVE  TablesOf(PerformStep(p, c, s), c, s)
<1> DEFINE q == PerformStep(p, c, s)
<1>1. /\ Len(IntTable[c]) \in Nat
      /\ EgressStep(c) = 6 + Len(IntTable[c])
      /\ CloneStep(c) = 7 + Len(IntTable[c]) /\ LastStep(c) = CloneStep(c)
  BY StepBounds
<1>2. HostAs[c] \in As /\ c # None
  BY ConfigAssumption, NodeAssumption
<1> USE DEF ConfigStep, FloodStep, StaticStep, DigestStep, SinkStep
<1>3. CASE s = ConfigStep
  <2>1. q = FreshPipeline
    BY <1>1, <1>3 DEF PerformStep
  <2>2. /\ q \in Pipeline /\ q.node = None
        /\ \A a \in As : q.scionInt[a] = NoAction
    BY <2>1, StartPipelines DEF FreshPipeline, EmptyPipeline
  <2>3. ~(s >= SinkStep) /\ ~(s >= EgressStep(c)) /\ ~(s >= CloneStep(c))
    BY <1>1, <1>3
  <2> HIDE DEF q
  <2>4. TablesOf(q, c, s)
    BY <2>2, <2>3 DEF TablesOf, EntryOf
  <2> QED
    BY <2>4 DEF q
<1>4. CASE s \in {FloodStep, StaticStep, DigestStep}
  <2>1. q \in {WithFloodGroups(p), WithBroadcastEntry(p), WithDigestConfig(p)}
    BY <1>1, <1>4 DEF PerformStep
  <2>2. q \in Pipeline
    BY <2>1, InitStepTypes DEF TablesOf
  <2>3. q.scionInt = p.scionInt /\ q.node = p.node
    BY <2>1 DEF WithFloodGroups, WithBroadcastEntry, WithDigestConfig, TablesOf, Pipeline
  <2> QED
    BY <1>1, <1>4, <2>2, <2>3 DEF TablesOf
<1>5. CASE s = SinkStep
  <2>1. q = WithSinkEntry(p, c)
    BY <1>1, <1>5 DEF PerformStep
  <2>2. q \in Pipeline
    BY <2>1, InitStepTypes DEF TablesOf
  <2>3. q.scionInt = InsertScionInt(p.scionInt, HostAs[c], CloneInt) /\ q.node = p.node
    BY <2>1 DEF WithSinkEntry, TablesOf, Pipeline
  <2>4. p.scionInt[HostAs[c]] \in {NoAction, CloneInt}
    BY <1>2 DEF TablesOf, EntryOf
  <2>5. q.scionInt[HostAs[c]] = CloneInt
    BY <1>2, <2>3, <2>4 DEF TablesOf, Pipeline, InsertScionInt
  <2>6. \A a \in As : a # HostAs[c] => q.scionInt[a] = p.scionInt[a]
    BY <1>2, <2>3 DEF TablesOf, Pipeline, InsertScionInt
  <2>7. \A a \in As : EntryOf(c, a, q.scionInt[a])
    BY <2>5, <2>6 DEF TablesOf, EntryOf
  <2> QED
    BY <1>1, <1>5, <2>2, <2>3, <2>5, <2>7 DEF TablesOf
<1>6. CASE s > SinkStep /\ s < EgressStep(c)
  <2> DEFINE i == s - SinkStep
             line == IntTable[c][i]
  <2>1. i \in 1 .. Len(IntTable[c])
    BY <1>1, <1>6
  <2>2. q = WithSourceEntry(p, c, i)
    BY <1>1, <1>6 DEF PerformStep
  <2>3. q \in Pipeline
    BY <2>1, <2>2, InitStepTypes DEF TablesOf
  <2>4. line.as \in As
    BY <2>1, LineType DEF IntTableLine
  <2> HIDE DEF i
  <2>5. /\ q.node = p.node
        /\ line.as = HostAs[c] => q.scionInt = p.scionInt
        /\ line.as # HostAs[c] => q.scionInt
                                   = InsertScionInt(p.scionInt, line.as, InsertInt(line.bits))
    BY <2>2 DEF WithSourceEntry, TablesOf, Pipeline
  <2>6. \A a \in As :
          \/ q.scionInt[a] = p.scionInt[a]
          \/ a = line.as /\ a # HostAs[c] /\ q.scionInt[a] = InsertInt(line.bits)
    BY <2>4, <2>5 DEF TablesOf, Pipeline, InsertScionInt
  <2>7. \A a \in As : EntryOf(c, a, q.scionInt[a])
    BY <2>1, <2>6 DEF TablesOf, EntryOf
  <2>8. q.scionInt[HostAs[c]] = p.scionInt[HostAs[c]]
    BY <1>2, <2>6
  <2>9. p.scionInt[HostAs[c]] = CloneInt
    BY <1>1, <1>6 DEF TablesOf
  <2> QED
    BY <1>1, <1>6, <2>3, <2>5, <2>7, <2>8, <2>9 DEF TablesOf
<1>7. CASE s = EgressStep(c)
  <2>1. q = WithEgressEntries(p, c)
    BY <1>1, <1>7 DEF PerformStep
  <2>2. q \in Pipeline
    BY <2>1, InitStepTypes DEF TablesOf
  <2>3. q.scionInt = p.scionInt /\ q.node = c
    BY <1>2, <2>1 DEF WithEgressEntries, TablesOf, Pipeline
  <2> QED
    BY <1>1, <1>7, <2>2, <2>3 DEF TablesOf
<1>8. CASE s = CloneStep(c)
  <2>1. q = WithCloneSession(p)
    BY <1>1, <1>8 DEF PerformStep
  <2>2. q \in Pipeline
    BY <2>1, InitStepTypes DEF TablesOf
  <2>3. q.scionInt = p.scionInt /\ q.node = p.node /\ q.clone
    BY <2>1 DEF WithCloneSession, TablesOf, Pipeline
  <2> QED
    BY <1>1, <1>8, <2>2, <2>3 DEF TablesOf
<1> QED
  BY <1>1, <1>3, <1>4, <1>5, <1>6, <1>7, <1>8

\* The tables of a switch at every stage of its initialization.
LEMMA TablesAfter ==
  ASSUME NEW c \in Ctrl
  PROVE  \A s \in 0 .. LastStep(c) : TablesOf(PipelineAfter(c)[s], c, s)
<1> DEFINE T == {s \in Nat : s <= LastStep(c) => TablesOf(PipelineAfter(c)[s], c, s)}
<1>1. /\ Len(IntTable[c]) \in Nat
      /\ EgressStep(c) = 6 + Len(IntTable[c])
      /\ CloneStep(c) = 7 + Len(IntTable[c]) /\ LastStep(c) \in Nat
  BY StepBounds
<1>2. /\ PipelineAfter(c)[0] = EmptyPipeline
      /\ \A s \in 1 .. LastStep(c) :
           PipelineAfter(c)[s] = PerformStep(PipelineAfter(c)[s - 1], c, s)
  BY PipelineSteps
<1>3. 0 \in T
  <2>1. TablesOf(EmptyPipeline, c, 0)
    BY <1>1, StartPipelines DEF TablesOf, EntryOf, EmptyPipeline, SinkStep
  <2> QED
    BY <1>2, <2>1
<1>4. ASSUME NEW s \in Nat \ {0}, s - 1 \in T PROVE s \in T
  <2> SUFFICES ASSUME s <= LastStep(c) PROVE TablesOf(PipelineAfter(c)[s], c, s)
    OBVIOUS
  <2>1. s \in 1 .. LastStep(c)
    BY <1>1
  <2>2. TablesOf(PipelineAfter(c)[s - 1], c, s - 1)
    BY <1>1, <1>4
  <2> HIDE DEF T
  <2> DEFINE p == PipelineAfter(c)[s - 1]
  <2>3. PipelineAfter(c)[s] = PerformStep(p, c, s)
    BY <1>2, <2>1
  <2> HIDE DEF p
  <2>4. TablesOf(p, c, s - 1)
    BY <2>2 DEF p
  <2> QED
    BY <2>1, <2>3, <2>4, StepTables
<1> HIDE DEF T
<1>5. Nat \subseteq T
  BY <1>3, <1>4, NatSetInduction
<1>6. ASSUME NEW s \in 0 .. LastStep(c) PROVE TablesOf(PipelineAfter(c)[s], c, s)
  <2>1. s \in T /\ s <= LastStep(c)
    BY <1>1, <1>5
  <2> QED
    BY <2>1 DEF T
<1> QED
  BY <1>6

-----------------------------------------------------------------------------
(* What the parser, ingress and egress return.                                 *)

Packet == [dst : As, port : {AppPort, UdpPort}, int : {None} \cup IntHeader,
           body : Seq(Word), extra : Int]

Parsed == [hdr : Packet, pre : Seq(Word), rest : Seq(Word), intState : 0 .. 2,
           clone : BOOLEAN]

\* The shim and INT-MD headers of a packet with k words of INT data.
Headers(k, port, bits) == [length |-> 3 + k, udpPort |-> port, bits |-> bits, hopML |-> k]

\* A packet, by what is in it.
Fields(dst, port, int, body, extra) ==
  [dst |-> dst, port |-> port, int |-> int, body |-> body, extra |-> extra]

\* The body has the stack that the shim header announces.
StackFits(pkt) == pkt.int # None => pkt.int.length - 3 \in 0 .. Len(pkt.body)

\* The parser neither loses nor repeats a word; where INT data is to be added, the
\* headers say that there is none.
Splits(p) ==
  /\ StackFits(p.hdr)
  /\ Len(p.pre) + Len(p.rest) = Len(p.hdr.body)
  /\ p.intState = 1 => p.hdr.int # None /\ p.hdr.int.length = 3 /\ p.hdr.int.hopML = 0

\* What a sink hands to egress, as the packet or as its clone.
Marked(pkt, clone) == [Parse(pkt) EXCEPT !.intState = 0, !.clone = clone]

AtSink(pkt, t) == {Marked(pkt, FALSE)} \cup (IF t.clone THEN {Marked(pkt, TRUE)} ELSE {})

\* EXCEPT on a parsed packet, whatever its components are.
LEMMA MarkParsed ==
  ASSUME NEW H, NEW W, NEW I, NEW C,
         NEW p \in [hdr : H, pre : W, rest : W, intState : I, clone : C],
         NEW i \in I, NEW b \in C, NEW q, q = [p EXCEPT !.intState = i, !.clone = b]
  PROVE  /\ q \in [hdr : H, pre : W, rest : W, intState : I, clone : C]
         /\ q.hdr = p.hdr /\ q.pre = p.pre /\ q.rest = p.rest
         /\ q.intState = i /\ q.clone = b
  OBVIOUS

\* EXCEPT on the headers of a parsed packet.
LEMMA ReplaceHeaders ==
  ASSUME NEW H, NEW W, NEW I, NEW C,
         NEW p \in [hdr : H, pre : W, rest : W, intState : I, clone : C],
         NEW h \in H, NEW i \in I, NEW q, q = [p EXCEPT !.hdr = h, !.intState = i]
  PROVE  /\ q \in [hdr : H, pre : W, rest : W, intState : I, clone : C]
         /\ q.hdr = h /\ q.pre = p.pre /\ q.rest = p.rest
         /\ q.intState = i /\ q.clone = p.clone
  OBVIOUS

\* The shim and INT-MD headers when k words are put on an empty stack.
LEMMA GrowHeader ==
  ASSUME NEW i \in IntHeader, NEW k \in 0 .. 20, NEW q,
         q = [i EXCEPT !.hopML = k, !.length = 3 + k]
  PROVE  q = Headers(k, i.udpPort, i.bits) /\ q \in IntHeader
<1>1. q = Headers(k, i.udpPort, i.bits)
  BY DEF IntHeader, Headers
<1>2. 3 + k \in 0 .. 255 /\ k \in 0 .. 31
  OBVIOUS
<1>3. i.udpPort \in {AppPort, UdpPort} /\ i.bits \in Bitmap
  BY DEF IntHeader
<1>4. Headers(k, i.udpPort, i.bits) \in IntHeader
  BY <1>2, <1>3 DEF IntHeader, Headers
<1> QED
  BY <1>1, <1>4

\* Assigning to the clone flag what it is already.
LEMMA UpdateNothing ==
  ASSUME NEW p, NEW i, NEW b, "clone" \in DOMAIN p, p.clone = b
  PROVE  [p EXCEPT !.intState = i] = [p EXCEPT !.intState = i, !.clone = b]
  OBVIOUS

\* Marking a packet leaves its parts as they are.
LEMMA SplitsAlike ==
  ASSUME NEW p, NEW q, Splits(p), q.hdr = p.hdr, q.pre = p.pre, q.rest = p.rest,
         q.intState = 0
  PROVE  Splits(q)
<1>1. StackFits(q.hdr)
  BY DEF Splits
<1>2. Len(q.pre) + Len(q.rest) = Len(q.hdr.body)
  BY DEF Splits
<1>3. q.intState # 1
  OBVIOUS
<1> QED
  BY <1>1, <1>2, <1>3 DEF Splits

\* A packet is given by its five parts.
LEMMA PacketIs ==
  ASSUME NEW e \in Packet
  PROVE  e = Fields(e.dst, e.port, e.int, e.body, e.extra)
  BY DEF Packet, Fields

\* The payload is one word.
LEMMA PayloadType == Payload \in Seq(Word) /\ Len(Payload) = 1
  BY DEF Payload, Word

\* The packet of a host is a packet.
LEMMA HostPacketType ==
  ASSUME NEW d \in As
  PROVE  HostPacket(d) \in Packet /\ StackFits(HostPacket(d))
  BY PayloadType DEF HostPacket, Packet, StackFits

\* The parser cuts a packet into its headers, its stack and the rest.
LEMMA ParseType ==
  ASSUME NEW pkt \in Packet, StackFits(pkt)
  PROVE  /\ Parse(pkt) \in Parsed /\ Splits(Parse(pkt))
         /\ Parse(pkt).hdr = pkt /\ Parse(pkt).intState = 2 /\ ~Parse(pkt).clone
<1> DEFINE b == pkt.body
           r == SubSeq(b, Len(Pre(pkt)) + 1, Len(b))
<1>1. b \in Seq(Word) /\ Len(b) \in Nat /\ pkt.int \in {None} \cup IntHeader
  BY DEF Packet
<1>2. Pre(pkt) \in Seq(Word) /\ Len(Pre(pkt)) \in 0 .. Len(b)
  <2>1. CASE pkt.int = None
    BY <1>1, <2>1 DEF Pre
  <2>2. CASE pkt.int # None
    <3>1. PICK k \in 0 .. Len(b) : k = pkt.int.length - 3
      BY <2>2 DEF StackFits
    <3>2. Pre(pkt) = SubSeq(b, 1, k)
      BY <2>2, <3>1 DEF Pre
    <3> HIDE DEF b
    <3> QED
      BY <1>1, <3>2
  <2> QED
    BY <2>1, <2>2
<1> HIDE DEF b
<1>3. r \in Seq(Word) /\ Len(Pre(pkt)) + Len(r) = Len(b)
  <2>1. PICK k \in 0 .. Len(b) : k = Len(Pre(pkt))
    BY <1>2
  <2> QED
    BY <1>1, <2>1
<1>4. Parse(pkt) = [hdr |-> pkt, pre |-> Pre(pkt), rest |-> r, intState |-> 2, clone |-> FALSE]
  BY DEF Parse, b
<1> HIDE DEF r
<1> QED
  BY <1>2, <1>3, <1>4 DEF Parsed, Splits, b

\* Ingress does one of three things, and only the tables say which.
LEMMA IngressCases ==
  ASSUME NEW c \in Ctrl, NEW s, NEW t, TablesOf(t, c, s), NEW pkt, pkt.dst \in As
  PROVE  \/ /\ Ingress(pkt, t) = {Parse(pkt)}
            /\ ~(s >= SinkStep /\ pkt.dst = HostAs[c])
         \/ pkt.dst = HostAs[c] /\ Ingress(pkt, t) = AtSink(pkt, t)
         \/ \E j \in 1 .. Len(IntTable[c]) :
              /\ IntTable[c][j].as = pkt.dst /\ pkt.dst # HostAs[c]
              /\ Ingress(pkt, t) = {InsertIntHeader(Parse(pkt), IntTable[c][j].bits)}
<1> DEFINE entry == t.scionInt[pkt.dst]
<1>1. EntryOf(c, pkt.dst, entry) /\ (s >= SinkStep /\ pkt.dst = HostAs[c] => entry = CloneInt)
  BY DEF TablesOf
<1>2. CASE entry = NoAction
  <2>1. Ingress(pkt, t) = {Parse(pkt)}
    BY <1>2 DEF Ingress, NoAction
  <2> QED
    BY <1>1, <1>2, <2>1, EntriesDiffer
<1>3. CASE entry = CloneInt /\ pkt.dst = HostAs[c]
  <2>1. Ingress(pkt, t) = {[Parse(pkt) EXCEPT !.intState = 0]} \cup
          (IF t.clone THEN {[Parse(pkt) EXCEPT !.intState = 0, !.clone = TRUE]} ELSE {})
    BY <1>3 DEF Ingress, CloneInt
  <2>2. [Parse(pkt) EXCEPT !.intState = 0] = Marked(pkt, FALSE)
    <3>1. "clone" \in DOMAIN Parse(pkt)
      BY DEF Parse
    <3>2. Parse(pkt).clone = FALSE
      BY Zenon DEF Parse
    <3>3. [Parse(pkt) EXCEPT !.intState = 0] = [Parse(pkt) EXCEPT !.intState = 0, !.clone = FALSE]
      BY <3>1, <3>2, UpdateNothing, Zenon
    <3> QED
      BY <3>3 DEF Marked
  <2> QED
    BY <1>3, <2>1, <2>2 DEF Marked, AtSink
<1>4. ASSUME NEW j \in 1 .. Len(IntTable[c]),
             IntTable[c][j].as = pkt.dst, pkt.dst # HostAs[c],
             entry = InsertInt(IntTable[c][j].bits)
      PROVE  Ingress(pkt, t) = {InsertIntHeader(Parse(pkt), IntTable[c][j].bits)}
  BY <1>4 DEF Ingress, InsertInt
<1> HIDE DEF entry
<1> QED
  BY <1>1, <1>2, <1>3, <1>4 DEF EntryOf

\* insert_int on a parsed packet.
LEMMA InsertType ==
  ASSUME NEW p \in Parsed, Splits(p), NEW bits \in Bitmap,
         NEW q, q = InsertIntHeader(p, bits)
  PROVE  /\ q \in Parsed /\ Splits(q) /\ q.intState = 1 /\ q.clone = p.clone
         /\ q.pre = p.pre /\ q.rest = p.rest
         /\ q.hdr.dst = p.hdr.dst /\ q.hdr.port = UdpPort
         /\ q.hdr.int = Headers(0, p.hdr.port, bits)
         /\ q.hdr.body = p.hdr.body /\ q.hdr.extra = p.hdr.extra
<1> DEFINE int == [length |-> 3, udpPort |-> p.hdr.port, bits |-> bits, hopML |-> 0]
           h == [p.hdr EXCEPT !.int = int, !.port = UdpPort]
<1>1. p.hdr \in Packet
  BY DEF Parsed
<1>2. int \in IntHeader /\ int # None /\ int.length = 3 /\ int.hopML = 0
  <2>1. p.hdr.port \in {AppPort, UdpPort}
    BY <1>1 DEF Packet
  <2> QED
    BY <2>1, HeaderAssumption DEF IntHeader
<1>3. int = Headers(0, p.hdr.port, bits)
  BY DEF Headers
<1> HIDE DEF int
<1>4. /\ h \in Packet /\ h.int = int /\ h.body = p.hdr.body /\ h.dst = p.hdr.dst
      /\ h.port = UdpPort /\ h.extra = p.hdr.extra
  BY <1>1, <1>2 DEF Packet
<1>5. q = [p EXCEPT !.hdr = h, !.intState = 1]
  BY DEF InsertIntHeader, Parsed, int
<1> HIDE DEF h
<1>6. /\ q \in Parsed /\ q.hdr = h /\ q.pre = p.pre /\ q.rest = p.rest
      /\ q.intState = 1 /\ q.clone = p.clone
  <2>1. 1 \in 0 .. 2 /\ p.clone \in BOOLEAN
    BY DEF Parsed
  <2> QED
    BY <1>4, <1>5, <2>1, ReplaceHeaders DEF Parsed
<1>7. Splits(q)
  <2>1. Len(p.hdr.body) \in Nat
    BY <1>1 DEF Packet
  <2>2. 3 - 3 \in 0 .. Len(p.hdr.body)
    BY <2>1
  <2> QED
    BY <1>2, <1>4, <1>6, <2>2 DEF Splits, StackFits
<1> QED
  BY <1>3, <1>4, <1>6, <1>7

\* clone_int on a packet.
LEMMA MarkedType ==
  ASSUME NEW pkt \in Packet, StackFits(pkt), NEW b \in BOOLEAN
  PROVE  /\ Marked(pkt, b) \in Parsed /\ Splits(Marked(pkt, b))
         /\ Marked(pkt, b).hdr = pkt
         /\ Marked(pkt, b).pre = Parse(pkt).pre /\ Marked(pkt, b).rest = Parse(pkt).rest
         /\ Marked(pkt, b).intState = 0 /\ Marked(pkt, b).clone = b
<1> DEFINE p == Parse(pkt)
           q == Marked(pkt, b)
<1>1. q = [p EXCEPT !.intState = 0, !.clone = b] /\ 0 \in 0 .. 2
  BY DEF Marked
<1>2. p \in Parsed /\ p.hdr = pkt /\ Splits(p)
  BY ParseType
<1> HIDE DEF p, q
<1>3. /\ q \in Parsed /\ q.hdr = p.hdr /\ q.pre = p.pre /\ q.rest = p.rest
      /\ q.intState = 0 /\ q.clone = b
  BY <1>1, <1>2, MarkParsed DEF Parsed
<1>4. q.hdr = p.hdr /\ q.pre = p.pre /\ q.rest = p.rest /\ q.intState = 0
  BY <1>3
<1>5. Splits(q)
  BY <1>2, <1>4, SplitsAlike
<1> QED
  BY <1>2, <1>3, <1>5 DEF p, q

\* What ingress hands over is well formed, and one of it at most is no clone.
LEMMA IngressType ==
  ASSUME NEW c \in Ctrl, NEW s, NEW t, TablesOf(t, c, s), NEW pkt \in Packet, StackFits(pkt)
  PROVE  /\ \A p \in Ingress(pkt, t) : p \in Parsed /\ Splits(p)
         /\ \A p, q \in Ingress(pkt, t) : ~p.clone /\ ~q.clone => p = q
<1>1. pkt.dst \in As
  BY DEF Packet
<1>2. /\ Parse(pkt) \in Parsed /\ Splits(Parse(pkt)) /\ ~Parse(pkt).clone
  BY ParseType
<1>3. \A b \in BOOLEAN : /\ Marked(pkt, b) \in Parsed /\ Splits(Marked(pkt, b))
                         /\ Marked(pkt, b).clone = b
  BY MarkedType
<1>4. ASSUME NEW j \in 1 .. Len(IntTable[c])
      PROVE  /\ InsertIntHeader(Parse(pkt), IntTable[c][j].bits) \in Parsed
             /\ Splits(InsertIntHeader(Parse(pkt), IntTable[c][j].bits))
  <2>1. IntTable[c][j].bits \in Bitmap
    BY LineType DEF IntTableLine
  <2> QED
    BY <1>2, <2>1, InsertType
<1> DEFINE I == Ingress(pkt, t)
<1>5. CASE I = {Parse(pkt)}
  BY <1>2, <1>5
<1>6. CASE I = AtSink(pkt, t)
  BY <1>3, <1>6 DEF AtSink
<1>7. CASE \E j \in 1 .. Len(IntTable[c]) :
             I = {InsertIntHeader(Parse(pkt), IntTable[c][j].bits)}
  BY <1>4, <1>7
<1> QED
  BY <1>1, <1>5, <1>6, <1>7, IngressCases

\* The tables fill in no field but these.
LEMMA SupportedType ==
  ASSUME NEW t \in Pipeline
  PROVE  Supported(t) \in SUBSET Recordable
  BY DEF Supported, Recordable

\* p with own on its empty stack.
WithStack(p, own) ==
  Fields(p.hdr.dst, p.hdr.port, Headers(Len(own), p.hdr.int.udpPort, p.hdr.int.bits),
         p.pre \o own \o p.rest, p.hdr.extra + (16 + 4 * Len(own)))

\* A source adds what it recorded ...
LEMMA EgressAdds ==
  ASSUME NEW p \in Parsed, Splits(p), p.intState = 1, NEW n \in Ctrl, NEW t,
         NEW own, own = StackOf(n, p.hdr.int.bits \cap Supported(t))
  PROVE  /\ EgressPacket(p, n, t) \in Packet /\ StackFits(EgressPacket(p, n, t))
         /\ EgressPacket(p, n, t) = WithStack(p, own)
<1> DEFINE e == EgressPacket(p, n, t)
           int == [p.hdr.int EXCEPT !.hopML = (@ + Len(own)) % 32,
                                    !.length = (@ + Len(own)) % 256]
           body == p.pre \o own \o p.rest
           extra == p.hdr.extra + (16 + 4 * Len(own))
           new == [p.hdr EXCEPT !.int.hopML = (@ + Len(own)) % 32,
                                !.int.length = (@ + Len(own)) % 256,
                                !.extra = @ + (16 + 4 * Len(own))]
<1>1. /\ p.hdr \in Packet /\ p.pre \in Seq(Word) /\ p.rest \in Seq(Word)
  BY DEF Parsed
<1>2. own \in Seq(Word) /\ Len(own) \in 0 .. 20
  BY StackType
<1>3. p.hdr.int \in IntHeader /\ p.hdr.int.length = 3 /\ p.hdr.int.hopML = 0
  BY <1>1 DEF Splits, Packet
<1>4. PICK k \in 0 .. 20 : k = Len(own)
  BY <1>2
<1>5. int = Headers(k, p.hdr.int.udpPort, p.hdr.int.bits) /\ int \in IntHeader
  <2>1. PICK i \in IntHeader : i = p.hdr.int
    BY <1>3
  <2>2. (3 + k) % 256 = 3 + k /\ (0 + k) % 32 = k
    OBVIOUS
  <2>3. int = [i EXCEPT !.hopML = k, !.length = 3 + k]
    BY <1>3, <1>4, <2>1, <2>2 DEF IntHeader
  <2> HIDE DEF int, body, extra, new
  <2>4. int = Headers(k, i.udpPort, i.bits) /\ int \in IntHeader
    BY <2>3, GrowHeader
  <2> QED
    BY <2>1, <2>4
<1>6. e = [new EXCEPT !.body = body]
  <2>1. e = Deparse([p EXCEPT !.hdr = new], own)
    BY DEF EgressPacket, AddIntData
  <2> HIDE DEF new
  <2>2. /\ [p EXCEPT !.hdr = new].hdr = new /\ [p EXCEPT !.hdr = new].pre = p.pre
        /\ [p EXCEPT !.hdr = new].rest = p.rest
    BY DEF Parsed
  <2> QED
    BY <2>1, <2>2 DEF Deparse
<1>7. new = [p.hdr EXCEPT !.int = int, !.extra = extra]
  BY <1>1 DEF Packet
<1>8. body \in Seq(Word) /\ Len(body) = Len(p.pre) + Len(own) + Len(p.rest)
  BY <1>1, <1>2
<1>9. extra \in Int
  BY <1>1, <1>2 DEF Packet
<1> HIDE DEF e, int, body, extra, new
<1>10. /\ e \in Packet /\ e.int = int /\ e.body = body /\ e.extra = extra
       /\ e.dst = p.hdr.dst /\ e.port = p.hdr.port
  <2>1. /\ new \in Packet /\ new.int = int /\ new.extra = extra
        /\ new.dst = p.hdr.dst /\ new.port = p.hdr.port
    BY <1>1, <1>5, <1>7, <1>9 DEF Packet
  <2> QED
    BY <1>6, <1>8, <2>1 DEF Packet
<1>11. StackFits(e)
  <2>1. PICK i \in Nat, j \in Nat : i = Len(p.pre) /\ j = Len(p.rest)
    BY <1>1
  <2>2. (3 + k) - 3 \in 0 .. i + k + j
    OBVIOUS
  <2>3. e.int.length = 3 + k
    BY <1>5, <1>10 DEF Headers
  <2> QED
    BY <1>4, <1>8, <1>10, <2>1, <2>2, <2>3 DEF StackFits
<1>12. e = Fields(p.hdr.dst, p.hdr.port, int, body, extra)
  BY <1>10, PacketIs
<1>13. int = Headers(Len(own), p.hdr.int.udpPort, p.hdr.int.bits)
  BY <1>4, <1>5
<1> QED
  BY <1>10, <1>11, <1>12, <1>13 DEF body, extra, e, WithStack

\* ... a sink takes the INT data out ...
LEMMA EgressDeletes ==
  ASSUME NEW p \in Parsed, p.intState = 0, p.hdr.int # None, NEW n, NEW t
  PROVE  /\ EgressPacket(p, n, t) \in Packet /\ StackFits(EgressPacket(p, n, t))
         /\ EgressPacket(p, n, t)
              = Fields(p.hdr.dst, p.hdr.int.udpPort, None, p.rest,
                       p.hdr.extra - (4 + 4 * p.hdr.int.length))
<1> DEFINE e == EgressPacket(p, n, t)
<1>1. p.hdr \in Packet /\ p.rest \in Seq(Word)
  BY DEF Parsed
<1>2. e = DeleteInt(p)
  BY DEF EgressPacket
<1>3. p.hdr.int \in IntHeader
  BY <1>1 DEF Packet
<1>4. PICK extra \in Int : extra = p.hdr.extra - (4 + 4 * p.hdr.int.length)
  <2>1. p.hdr.extra \in Int
    BY <1>1 DEF Packet
  <2>2. p.hdr.int.length \in Int
    BY <1>3 DEF IntHeader
  <2> QED
    BY <2>1, <2>2
<1>5. PICK port \in {AppPort, UdpPort} : port = p.hdr.int.udpPort
  BY <1>3 DEF IntHeader
<1>6. e = [p.hdr EXCEPT !.port = port, !.int = None, !.extra = extra, !.body = p.rest]
  BY <1>1, <1>2, <1>4, <1>5 DEF DeleteInt, Packet
<1> HIDE DEF e
<1>7. /\ e \in Packet /\ e.int = None /\ e.dst = p.hdr.dst /\ e.port = port
      /\ e.body = p.rest /\ e.extra = extra
  BY <1>1, <1>6 DEF Packet
<1>8. e = Fields(p.hdr.dst, port, None, p.rest, extra)
  BY <1>7, PacketIs
<1>9. StackFits(e)
  BY <1>7 DEF StackFits
<1> QED
  BY <1>4, <1>5, <1>7, <1>8, <1>9 DEF e

\* ... and all else is put together again as it was taken apart.
LEMMA EgressForwards ==
  ASSUME NEW p \in Parsed, Splits(p), NEW n, NEW t,
         p.intState = 2 \/ (p.intState = 0 /\ p.hdr.int = None)
  PROVE  /\ EgressPacket(p, n, t) \in Packet /\ StackFits(EgressPacket(p, n, t))
         /\ EgressPacket(p, n, t)
              = Fields(p.hdr.dst, p.hdr.port, p.hdr.int, p.pre \o p.rest, p.hdr.extra)
<1> DEFINE e == EgressPacket(p, n, t)
           body == p.pre \o <<>> \o p.rest
<1>1. p.hdr \in Packet /\ p.pre \in Seq(Word) /\ p.rest \in Seq(Word)
  BY DEF Parsed
<1>2. e = [p.hdr EXCEPT !.body = body]
  BY DEF EgressPacket, Deparse
<1>3. body = p.pre \o p.rest /\ body \in Seq(Word) /\ Len(body) = Len(p.hdr.body)
  <2>1. body = p.pre \o p.rest /\ body \in Seq(Word) /\ Len(body) = Len(p.pre) + Len(p.rest)
    BY <1>1
  <2> QED
    BY <2>1 DEF Splits
<1> HIDE DEF body, e
<1>4. /\ e \in Packet /\ e.int = p.hdr.int /\ e.body = body
      /\ e.dst = p.hdr.dst /\ e.port = p.hdr.port /\ e.extra = p.hdr.extra
  BY <1>1, <1>2, <1>3 DEF Packet
<1>5. e = Fields(p.hdr.dst, p.hdr.port, p.hdr.int, p.pre \o p.rest, p.hdr.extra)
  BY <1>3, <1>4, PacketIs
<1>6. StackFits(e)
  BY <1>3, <1>4 DEF Splits, StackFits
<1> QED
  BY <1>4, <1>5, <1>6 DEF e

\* Egress makes a packet of what ingress handed over.
LEMMA EgressType ==
  ASSUME NEW p \in Parsed, Splits(p), NEW n \in Ctrl, NEW t
  PROVE  EgressPacket(p, n, t) \in Packet /\ StackFits(EgressPacket(p, n, t))
<1>1. p.intState \in 0 .. 2
  BY DEF Parsed
<1>2. CASE p.intState = 1
  BY <1>2, EgressAdds
<1>3. CASE p.intState = 0 /\ p.hdr.int # None
  BY <1>3, EgressDeletes
<1>4. CASE p.intState = 2 \/ (p.intState = 0 /\ p.hdr.int = None)
  BY <1>4, EgressForwards
<1> QED
  BY <1>1, <1>2, <1>3, <1>4

\* So does keep_int_cpu of a clone.
LEMMA KeepType ==
  ASSUME NEW p \in Parsed
  PROVE  KeepIntCpu(p) \in Packet /\ KeepIntCpu(p).int = p.hdr.int
<1>1. p.hdr \in Packet /\ p.pre \in Seq(Word) /\ p.pre \o p.rest \in Seq(Word)
  BY DEF Parsed
<1>2. PICK body \in Seq(Word) : KeepIntCpu(p) = [p.hdr EXCEPT !.body = body]
  BY <1>1 DEF KeepIntCpu
<1> QED
  BY <1>1, <1>2 DEF Packet

-----------------------------------------------------------------------------
(* Types, and one place for each packet.                                       *)

Moving   == [id : Nat, flow : Flow, at : Nat, trail : Seq(Ctrl), pkt : Packet]
Entering == [id : Nat, flow : Flow, at : Nat, trail : Seq(Ctrl), p : Parsed]
Message  == [id : Nat, trail : Seq(Ctrl), pkt : Packet]

ControllersOK ==
  /\ stage \in [Ctrl -> Nat] /\ \A n \in Ctrl : stage[n] <= LastStep(n)
  /\ alive \in [Ctrl -> BOOLEAN]
  /\ sent \in 0 .. MaxPackets
  /\ takeovers \in 0 .. MaxTakeovers

MovingOK(w) ==
  /\ w \in Moving /\ StackFits(w.pkt)
  /\ w.at \in 1 .. Len(Route[w.flow]) + 1

EnteringOK(s) ==
  /\ s \in Entering /\ Splits(s.p)
  /\ s.at \in 1 .. Len(Route[s.flow])

ItemsOK ==
  /\ \A w \in wire \cup delivered : MovingOK(w) /\ w.id < sent
  /\ \A s \in inside : EnteringOK(s) /\ s.id < sent
  /\ packetIn \in [Ctrl -> Seq(Message)]

\* Where the packet with a given number is.
InOnePlace ==
  /\ \A w, v \in wire \cup delivered : w.id = v.id => w = v
  /\ \A w \in wire : w \notin delivered
  /\ \A w \in wire \cup delivered, s \in inside : ~s.p.clone => w.id # s.id
  /\ \A s, r \in inside : ~s.p.clone /\ ~r.p.clone /\ s.id = r.id => s = r

Placed == ControllersOK /\ ItemsOK /\ InOnePlace

\* The parts of a route.
LEMMA RouteType ==
  ASSUME NEW f \in Flow
  PROVE  /\ Dest[f] \in As /\ Route[f] \in Seq(Ctrl) /\ Len(Route[f]) \in Nat
         /\ \A i \in 1 .. Len(Route[f]) : Route[f][i] \in Ctrl
<1>1. Dest[f] \in As /\ Route[f] \in Seq(Ctrl)
  BY FlowAssumption
<1> QED
  BY <1>1

\* The tables of every switch, whatever its stage.
LEMMA TablesType ==
  ASSUME ControllersOK
  PROVE  \A n \in Ctrl : TablesOf(Tables(n), n, stage[n]) /\ Tables(n) \in Pipeline
<1>1. ASSUME NEW n \in Ctrl PROVE TablesOf(Tables(n), n, stage[n])
  <2>1. PICK s \in 0 .. LastStep(n) : s = stage[n]
    BY StepBounds DEF ControllersOK
  <2> QED
    BY <2>1, TablesAfter DEF Tables
<1> QED
  BY <1>1 DEF TablesOf

\* There are no packets at first.
LEMMA PlacedInit == Init => Placed
<1> SUFFICES ASSUME Init PROVE Placed
  OBVIOUS
<1>1. ControllersOK
  BY FlowAssumption, StepBounds DEF Init, ControllersOK
<1>2. ItemsOK
  BY DEF Init, ItemsOK
<1>3. InOnePlace
  BY DEF Init, InOnePlace
<1> QED
  BY <1>1, <1>2, <1>3 DEF Placed

\* No step takes a stage, a process or a counter out of its bounds.
LEMMA PlacedControllers ==
  ASSUME Placed, [Next]_vars
  PROVE  ControllersOK'
<1> USE DEF Placed, ControllersOK
<1>1. CASE UNCHANGED vars
  BY <1>1 DEF vars
<1>2. ASSUME NEW n \in Ctrl, InitStep(n) PROVE ControllersOK'
  <2>1. \A m \in Ctrl : LastStep(m) \in Nat
    BY StepBounds
  <2>2. stage' = [stage EXCEPT ![n] = stage[n] + 1] /\ stage[n] < LastStep(n)
    BY <1>2 DEF InitStep
  <2>3. UNCHANGED <<alive, sent, takeovers>>
    BY <1>2 DEF InitStep
  <2> QED
    BY <2>1, <2>2, <2>3
<1>3. ASSUME NEW n \in Ctrl, Takeover(n) PROVE ControllersOK'
  <2>1. \A m \in Ctrl : LastStep(m) \in Nat /\ ConfigStep \in Nat /\ ConfigStep <= LastStep(m)
    BY StepBounds DEF ConfigStep
  <2>2. stage' = [stage EXCEPT ![n] = ConfigStep]
    BY <1>3 DEF Takeover
  <2>3. stage' \in [Ctrl -> Nat] /\ \A m \in Ctrl : stage'[m] <= LastStep(m)
    BY <2>1, <2>2
  <2>4. alive' \in [Ctrl -> BOOLEAN] /\ sent' = sent
    BY <1>3 DEF Takeover
  <2>5. takeovers' \in 0 .. MaxTakeovers
    BY <1>3, FlowAssumption DEF Takeover
  <2> QED
    BY <2>3, <2>4, <2>5
<1>4. ASSUME NEW n \in Ctrl, HandlePacketIn(n) \/ ControllerDies(n) PROVE ControllersOK'
  <2>1. UNCHANGED <<takeovers, stage, sent>> /\ alive' \in [Ctrl -> BOOLEAN]
    BY <1>4 DEF HandlePacketIn, ControllerDies, Handles
  <2> QED
    BY <2>1
<1>5. ASSUME NEW f \in Flow, Send(f) PROVE ControllersOK'
  <2>1. UNCHANGED <<takeovers, stage, alive>> /\ sent' \in 0 .. MaxPackets
    BY <1>5, FlowAssumption DEF Send
  <2> QED
    BY <2>1
<1>6. ASSUME NEW w \in wire, IngressStep(w) \/ Deliver(w) PROVE ControllersOK'
  BY <1>6 DEF IngressStep, Deliver
<1>7. ASSUME NEW s \in inside, EgressPacketStep(s) \/ EgressClone(s) PROVE ControllersOK'
  BY <1>7 DEF EgressPacketStep, EgressClone
<1> QED
  BY <1>1, <1>2, <1>3, <1>4, <1>5, <1>6, <1>7 DEF Next

\* What ingress puts in, and egress puts out, is of its type.
LEMMA EnteringType ==
  ASSUME Placed, NEW w \in wire, ~AtHost(w), NEW p \in Ingress(w.pkt, Tables(Node(w)))
  PROVE  EnteringOK([id |-> w.id, flow |-> w.flow, at |-> w.at, trail |-> w.trail, p |-> p])
<1>1. /\ w \in Moving /\ w.flow \in Flow /\ StackFits(w.pkt) /\ w.pkt \in Packet
      /\ w.at \in 1 .. Len(Route[w.flow]) + 1
  BY DEF Placed, ItemsOK, MovingOK, Moving
<1>2. w.at \in 1 .. Len(Route[w.flow]) /\ Node(w) \in Ctrl
  BY <1>1, RouteType DEF AtHost, Node
<1>3. p \in Parsed /\ Splits(p)
  BY <1>1, <1>2, TablesType, IngressType DEF Placed
<1> QED
  BY <1>1, <1>2, <1>3 DEF EnteringOK, Entering, Moving

\* The same of egress.
LEMMA LeavingType ==
  ASSUME Placed, NEW s \in inside
  PROVE  MovingOK([id |-> s.id, flow |-> s.flow, at |-> s.at + 1,
                   trail |-> IF s.p.intState = 1 THEN Append(s.trail, Node(s)) ELSE s.trail,
                   pkt |-> EgressPacket(s.p, Node(s), Tables(Node(s)))])
<1>1. /\ s \in Entering /\ s.flow \in Flow /\ Splits(s.p) /\ s.p \in Parsed
      /\ s.at \in 1 .. Len(Route[s.flow]) /\ s.trail \in Seq(Ctrl)
  BY DEF Placed, ItemsOK, EnteringOK, Entering
<1>2. Node(s) \in Ctrl /\ Len(Route[s.flow]) \in Nat
  BY <1>1, RouteType DEF Node
<1> DEFINE pkt == EgressPacket(s.p, Node(s), Tables(Node(s)))
           trail == IF s.p.intState = 1 THEN Append(s.trail, Node(s)) ELSE s.trail
<1>3. pkt \in Packet /\ StackFits(pkt)
  BY <1>1, <1>2, EgressType
<1>4. trail \in Seq(Ctrl)
  BY <1>1, <1>2
<1>5. s.at + 1 \in 1 .. Len(Route[s.flow]) + 1 /\ s.at + 1 \in Nat
  BY <1>1, <1>2
<1> HIDE DEF pkt, trail
<1>6. MovingOK([id |-> s.id, flow |-> s.flow, at |-> s.at + 1, trail |-> trail, pkt |-> pkt])
  BY <1>1, <1>3, <1>4, <1>5 DEF MovingOK, Moving, Entering
<1> QED
  BY <1>6 DEF pkt, trail

\* The same of a host.
LEMMA SendType ==
  ASSUME NEW f \in Flow, NEW i \in Nat
  PROVE  MovingOK([id |-> i, flow |-> f, at |-> 1, trail |-> <<>>,
                   pkt |-> HostPacket(Dest[f])])
<1>1. Dest[f] \in As /\ Len(Route[f]) \in Nat /\ 1 \in 1 .. Len(Route[f]) + 1
  BY RouteType
<1>2. HostPacket(Dest[f]) \in Packet /\ StackFits(HostPacket(Dest[f]))
  BY <1>1, HostPacketType
<1>3. <<>> \in Seq(Ctrl) /\ 1 \in Nat
  OBVIOUS
<1> QED
  BY <1>1, <1>2, <1>3 DEF MovingOK, Moving

\* What is left of a stream when another controller takes over is the start of it.
LEMMA TakeoverKeeps ==
  ASSUME NEW S, packetIn \in [Ctrl -> Seq(S)], NEW c \in Ctrl, Takeover(c)
  PROVE  /\ packetIn' \in [Ctrl -> Seq(S)]
         /\ \A n \in Ctrl : \A k \in 1 .. Len(packetIn'[n]) :
              k \in 1 .. Len(packetIn[n]) /\ packetIn'[n][k] = packetIn[n][k]
<1>1. PICK k \in 0 .. Len(packetIn[c]) :
        packetIn' = [packetIn EXCEPT ![c] = SubSeq(packetIn[c], 1, k)]
  BY DEF Takeover
<1>2. PICK t \in Seq(S) : t = packetIn[c]
  OBVIOUS
<1>3. /\ SubSeq(t, 1, k) \in Seq(S) /\ Len(SubSeq(t, 1, k)) = k
      /\ \A i \in 1 .. k : SubSeq(t, 1, k)[i] = t[i] /\ i \in 1 .. Len(t)
  BY <1>1, <1>2
<1>4. packetIn'[c] = SubSeq(t, 1, k) /\ \A n \in Ctrl \ {c} : packetIn'[n] = packetIn[n]
  BY <1>1, <1>2
<1>5. packetIn' \in [Ctrl -> Seq(S)]
  BY <1>1, <1>2, <1>3
<1>6. \A n \in Ctrl : \A i \in 1 .. Len(packetIn'[n]) :
        i \in 1 .. Len(packetIn[n]) /\ packetIn'[n][i] = packetIn[n][i]
  BY <1>2, <1>3, <1>4
<1> QED
  BY <1>5, <1>6

\* Every step keeps the packets and messages well formed.
LEMMA PlacedItems ==
  ASSUME Placed, [Next]_vars
  PROVE  ItemsOK'
<1>1. /\ \A w \in wire \cup delivered : MovingOK(w) /\ w.id < sent
      /\ \A s \in inside : EnteringOK(s) /\ s.id < sent
      /\ packetIn \in [Ctrl -> Seq(Message)]
      /\ sent \in Nat
  BY FlowAssumption DEF Placed, ItemsOK, ControllersOK
<1>2. CASE UNCHANGED vars
  BY <1>1, <1>2 DEF vars, ItemsOK
<1>3. ASSUME NEW n \in Ctrl, InitStep(n) PROVE ItemsOK'
  BY <1>1, <1>3 DEF InitStep, ItemsOK
<1>4. ASSUME NEW n \in Ctrl, Takeover(n) PROVE ItemsOK'
  BY <1>1, <1>4, TakeoverKeeps DEF Takeover, ItemsOK
<1>5. ASSUME NEW n \in Ctrl, HandlePacketIn(n) \/ ControllerDies(n) PROVE ItemsOK'
  <2>1. /\ packetIn' = [packetIn EXCEPT ![n] = Tail(@)] /\ packetIn[n] # <<>>
        /\ UNCHANGED <<wire, delivered, inside, sent>>
    BY <1>5 DEF HandlePacketIn, ControllerDies, Handles
  <2>2. Tail(packetIn[n]) \in Seq(Message)
    <3>1. PICK q \in Seq(Message) : q = packetIn[n]
      BY <1>1
    <3> QED
      BY <2>1, <3>1
  <2>3. packetIn' \in [Ctrl -> Seq(Message)]
    BY <1>1, <2>1, <2>2
  <2> QED
    BY <1>1, <2>1, <2>3 DEF ItemsOK
<1>6. ASSUME NEW f \in Flow, Send(f) PROVE ItemsOK'
  <2> DEFINE x == [id |-> sent, flow |-> f, at |-> 1, trail |-> <<>>,
                   pkt |-> HostPacket(Dest[f])]
  <2>1. /\ wire' = wire \cup {x} /\ sent' = sent + 1
        /\ UNCHANGED <<delivered, inside, packetIn>>
    BY <1>6 DEF Send
  <2>2. MovingOK(x) /\ x.id = sent
    BY <1>1, SendType
  <2> HIDE DEF x
  <2>3. \A w \in wire' \cup delivered' : MovingOK(w) /\ w.id < sent'
    <3>1. ASSUME NEW w \in wire \cup delivered PROVE w.id \in Nat /\ w.id < sent
      BY <1>1 DEF MovingOK, Moving
    <3> QED
      BY <1>1, <2>1, <2>2, <3>1
  <2>4. \A s \in inside' : EnteringOK(s) /\ s.id < sent'
    <3>1. ASSUME NEW s \in inside PROVE s.id \in Nat /\ s.id < sent
      BY <1>1 DEF EnteringOK, Entering
    <3> QED
      BY <1>1, <2>1, <3>1
  <2> QED
    BY <1>1, <2>1, <2>3, <2>4 DEF ItemsOK
<1>7. ASSUME NEW w \in wire, IngressStep(w) PROVE ItemsOK'
  <2> DEFINE held(p) == [id |-> w.id, flow |-> w.flow, at |-> w.at, trail |-> w.trail, p |-> p]
             new == {held(p) : p \in Ingress(w.pkt, Tables(Node(w)))}
  <2>1. /\ wire' \subseteq wire /\ inside' \subseteq inside \cup new /\ ~AtHost(w)
        /\ UNCHANGED <<delivered, packetIn, sent>>
    BY <1>7 DEF IngressStep
  <2>2. \A p \in Ingress(w.pkt, Tables(Node(w))) : EnteringOK(held(p)) /\ held(p).id < sent
    BY <1>1, <2>1, EnteringType
  <2>3. \A s \in new : EnteringOK(s) /\ s.id < sent
    BY <2>2
  <2> HIDE DEF new
  <2> QED
    BY <1>1, <2>1, <2>3 DEF ItemsOK
<1>8. ASSUME NEW w \in wire, Deliver(w) PROVE ItemsOK'
  BY <1>1, <1>8 DEF Deliver, ItemsOK
<1>9. ASSUME NEW s \in inside, EgressPacketStep(s) PROVE ItemsOK'
  <2> DEFINE x == [id |-> s.id, flow |-> s.flow, at |-> s.at + 1,
                   trail |-> IF s.p.intState = 1 THEN Append(s.trail, Node(s)) ELSE s.trail,
                   pkt |-> EgressPacket(s.p, Node(s), Tables(Node(s)))]
  <2>1. /\ wire' = wire \cup {x} /\ inside' \subseteq inside
        /\ UNCHANGED <<delivered, packetIn, sent>>
    BY <1>9 DEF EgressPacketStep
  <2>2. MovingOK(x) /\ x.id < sent
    BY <1>1, LeavingType
  <2> HIDE DEF x
  <2> QED
    BY <1>1, <2>1, <2>2 DEF ItemsOK
<1>10. ASSUME NEW s \in inside, EgressClone(s) PROVE ItemsOK'
  <2> DEFINE m == [id |-> s.id, trail |-> s.trail, pkt |-> KeepIntCpu(s.p)]
             n == Node(s)
  <2>1. /\ inside' \subseteq inside /\ UNCHANGED <<wire, delivered, sent>>
        /\ packetIn' = packetIn \/ packetIn' = [packetIn EXCEPT ![n] = Append(@, m)]
    BY <1>10 DEF EgressClone
  <2>2. s \in Entering /\ s.p \in Parsed /\ s.at \in 1 .. Len(Route[s.flow]) /\ s.flow \in Flow
    BY <1>1 DEF EnteringOK, Entering
  <2>3. m \in Message
    BY <2>2, KeepType DEF Message, Entering
  <2>4. n \in Ctrl
    BY <2>2, RouteType DEF Node
  <2> HIDE DEF m, n
  <2>5. packetIn' \in [Ctrl -> Seq(Message)]
    <3>1. packetIn[n] \in Seq(Message)
      BY <1>1, <2>4
    <3>2. Append(packetIn[n], m) \in Seq(Message)
      BY <2>3, <3>1
    <3> QED
      BY <1>1, <2>1, <3>2
  <2> QED
    BY <1>1, <2>1, <2>5 DEF ItemsOK
<1> QED
  BY <1>2, <1>3, <1>4, <1>5, <1>6, <1>7, <1>8, <1>9, <1>10 DEF Next

\* No step puts a packet in two places.
LEMMA PlacedApart ==
  ASSUME Placed, [Next]_vars
  PROVE  InOnePlace'
<1>1. /\ \A w, v \in wire \cup delivered : w.id = v.id => w = v
      /\ \A w \in wire : w \notin delivered
      /\ \A w \in wire \cup delivered, s \in inside : ~s.p.clone => w.id # s.id
      /\ \A s, r \in inside : ~s.p.clone /\ ~r.p.clone /\ s.id = r.id => s = r
  BY DEF Placed, InOnePlace
<1>2. CASE UNCHANGED <<wire, delivered, inside>>
  BY <1>1, <1>2 DEF InOnePlace
<1>3. ASSUME NEW n \in Ctrl,
             InitStep(n) \/ Takeover(n) \/ HandlePacketIn(n) \/ ControllerDies(n)
      PROVE  InOnePlace'
  BY <1>2, <1>3 DEF InitStep, Takeover, HandlePacketIn, ControllerDies, Handles
<1>4. ASSUME NEW f \in Flow, Send(f) PROVE InOnePlace'
  <2> DEFINE x == [id |-> sent, flow |-> f, at |-> 1, trail |-> <<>>,
                   pkt |-> HostPacket(Dest[f])]
  <2>1. wire' = wire \cup {x} /\ UNCHANGED <<delivered, inside>> /\ x.id = sent
    BY <1>4 DEF Send
  <2> HIDE DEF x
  <2>2. \A w \in wire \cup delivered : w.id # sent /\ w # x
    <3>1. ASSUME NEW w \in wire \cup delivered PROVE w.id \in Nat /\ w.id < sent /\ sent \in Nat
      BY FlowAssumption DEF Placed, ControllersOK, ItemsOK, MovingOK, Moving
    <3>2. ASSUME NEW w \in wire \cup delivered PROVE w.id # sent
      BY <3>1
    <3> QED
      BY <2>1, <3>2
  <2>3. \A s \in inside : s.id # sent
    <3>1. ASSUME NEW s \in inside PROVE s.id \in Nat /\ s.id < sent /\ sent \in Nat
      BY FlowAssumption DEF Placed, ControllersOK, ItemsOK, EnteringOK, Entering
    <3> QED
      BY <3>1
  <2> QED
    BY <1>1, <2>1, <2>2, <2>3 DEF InOnePlace
<1>5. ASSUME NEW w \in wire, IngressStep(w) PROVE InOnePlace'
  <2> DEFINE held(p) == [id |-> w.id, flow |-> w.flow, at |-> w.at, trail |-> w.trail, p |-> p]
             new == {held(p) : p \in Ingress(w.pkt, Tables(Node(w)))}
  <2>1. /\ wire' = wire \ {w} /\ inside' \subseteq inside \cup new /\ ~AtHost(w)
        /\ UNCHANGED delivered
    BY <1>5 DEF IngressStep
  <2>2. /\ w \in Moving /\ StackFits(w.pkt) /\ w.pkt \in Packet /\ w.flow \in Flow
        /\ w.at \in 1 .. Len(Route[w.flow]) + 1
    BY DEF Placed, ItemsOK, MovingOK, Moving
  <2>3. Node(w) \in Ctrl
    BY <2>1, <2>2, RouteType DEF AtHost, Node
  <2>4. \A p, q \in Ingress(w.pkt, Tables(Node(w))) : ~p.clone /\ ~q.clone => p = q
    BY <2>2, <2>3, TablesType, IngressType DEF Placed
  <2>5. \A s \in new : s.id = w.id
    OBVIOUS
  <2>6. \A s, r \in new : ~s.p.clone /\ ~r.p.clone => s = r
    BY <2>4
  <2> HIDE DEF new
  <2>7. \A v \in wire' \cup delivered' : v \in wire \cup delivered /\ v # w
    BY <1>1, <2>1
  <2>8. \A s \in inside : ~s.p.clone => s.id # w.id
    BY <1>1
  <2>9. \A v \in wire' \cup delivered', s \in inside' : ~s.p.clone => v.id # s.id
    BY <1>1, <2>1, <2>5, <2>7
  <2>10. \A s, r \in inside' : ~s.p.clone /\ ~r.p.clone /\ s.id = r.id => s = r
    BY <1>1, <2>1, <2>5, <2>6, <2>8
  <2>11. \A v, u \in wire' \cup delivered' : v.id = u.id => v = u
    BY <1>1, <2>7
  <2>12. \A v \in wire' : v \notin delivered'
    BY <1>1, <2>1
  <2> QED
    BY <2>9, <2>10, <2>11, <2>12 DEF InOnePlace
<1>6. ASSUME NEW w \in wire, Deliver(w) PROVE InOnePlace'
  <2>1. wire' = wire \ {w} /\ delivered' = delivered \cup {w} /\ inside' = inside
    BY <1>6 DEF Deliver
  <2> QED
    BY <1>1, <2>1 DEF InOnePlace
<1>7. ASSUME NEW s \in inside, EgressPacketStep(s) PROVE InOnePlace'
  <2> DEFINE x == [id |-> s.id, flow |-> s.flow, at |-> s.at + 1,
                   trail |-> IF s.p.intState = 1 THEN Append(s.trail, Node(s)) ELSE s.trail,
                   pkt |-> EgressPacket(s.p, Node(s), Tables(Node(s)))]
  <2>1. /\ wire' = wire \cup {x} /\ inside' = inside \ {s} /\ delivered' = delivered
        /\ ~s.p.clone /\ x.id = s.id
    BY <1>7 DEF EgressPacketStep
  <2> HIDE DEF x
  <2>2. \A w \in wire \cup delivered : w.id # x.id /\ w # x
    BY <1>1, <2>1
  <2>3. \A r \in inside' : ~r.p.clone => r.id # x.id
    BY <1>1, <2>1
  <2> QED
    BY <1>1, <2>1, <2>2, <2>3 DEF InOnePlace
<1>8. ASSUME NEW s \in inside, EgressClone(s) PROVE InOnePlace'
  <2>1. inside' \subseteq inside /\ UNCHANGED <<wire, delivered>>
    BY <1>8 DEF EgressClone
  <2> QED
    BY <1>1, <2>1 DEF InOnePlace
<1> QED
  BY <1>2, <1>3, <1>4, <1>5, <1>6, <1>7, <1>8 DEF Next, vars

\* Placed is inductive.
LEMMA PlacedStep == Placed /\ [Next]_vars => Placed'
  BY PlacedControllers, PlacedItems, PlacedApart DEF Placed

\* In every behaviour each packet is well formed, fits what its headers announce, and is
\* in one place, whatever the tables, the routes and the faults of the controllers.
THEOREM PlacedAlways == Spec => []Placed
<1>1. Init => Placed
  BY PlacedInit
<1>2. Placed /\ [Next]_vars => Placed'
  BY PlacedStep
<1> QED
  BY <1>1, <1>2, PTL DEF Spec

\* TypeOK is what the runs check of it.
LEMMA PlacedTypeOK == Placed => TypeOK
<1> SUFFICES ASSUME Placed PROVE TypeOK
  OBVIOUS
<1>1. /\ \A n \in Ctrl : stage[n] \in 0 .. LastStep(n)
      /\ alive \in [Ctrl -> BOOLEAN]
      /\ sent \in 0 .. MaxPackets
      /\ takeovers \in 0 .. MaxTakeovers
  <2>1. ASSUME NEW n \in Ctrl PROVE stage[n] \in 0 .. LastStep(n)
    BY StepBounds DEF Placed, ControllersOK
  <2> QED
    BY <2>1 DEF Placed, ControllersOK
<1>2. ASSUME NEW pkt \in Packet, StackFits(pkt) PROVE IsPacket(pkt)
  <2>1. /\ DOMAIN pkt = {"dst", "port", "int", "body", "extra"}
        /\ pkt.port \in {AppPort, UdpPort}
        /\ pkt.int = None \/ pkt.int \in IntHeader
        /\ Len(pkt.body) \in Nat
    BY DEF Packet
  <2>2. ASSUME pkt.int # None PROVE pkt.int.length <= 3 + Len(pkt.body)
    <3>1. PICK l \in 0 .. 255 : l = pkt.int.length
      BY <2>1, <2>2 DEF IntHeader
    <3>2. PICK k \in Nat : k = Len(pkt.body)
      BY <2>1
    <3>3. l - 3 \in 0 .. k
      BY <1>2, <2>2, <3>1, <3>2 DEF StackFits
    <3>4. l <= 3 + k
      BY <3>3
    <3> QED
      BY <3>1, <3>2, <3>4
  <2> QED
    BY <2>1, <2>2 DEF IsPacket
<1>3. \A w \in wire \cup delivered : IsPacket(w.pkt)
  BY <1>2 DEF Placed, ItemsOK, MovingOK, Moving
<1>4. \A s \in inside : IsPacket(s.p.hdr)
  BY <1>2 DEF Placed, ItemsOK, EnteringOK, Entering, Parsed, Splits
<1>5. \A w, v \in wire \cup delivered \cup {s \in inside : ~s.p.clone} :
        w.id = v.id => w = v
  BY DEF Placed, InOnePlace
<1> QED
  BY <1>1, <1>3, <1>4, <1>5 DEF TypeOK

\* Type correctness of IntNetwork: no parser runs out of data, no packet is doubled.
THEOREM TypeCorrect == Spec => []TypeOK
  BY PlacedAlways, PlacedTypeOK, PTL

-----------------------------------------------------------------------------
(* The packets there are when one switch of a route inserts INT data: the      *)
(* host's, and the host's with what that switch recorded.                      *)

IntPacket(d, own, bits) ==
  Fields(d, UdpPort, Headers(Len(own), AppPort, bits), own \o Payload, 16 + 4 * Len(own))

\* A stack that some node can append.
Stack == {own \in Seq(Word) : Len(own) \in 0 .. 20}

\* A node appends a stack.
LEMMA StackIsStack ==
  ASSUME NEW n \in Ctrl, NEW fields
  PROVE  StackOf(n, fields) \in Stack
  BY StackType DEF Stack

\* The parts of the packet of a host.
LEMMA HostPacketFields ==
  ASSUME NEW d \in As
  PROVE  /\ HostPacket(d) \in Packet /\ StackFits(HostPacket(d))
         /\ HostPacket(d).dst = d /\ HostPacket(d).port = AppPort
         /\ HostPacket(d).int = None /\ HostPacket(d).body = Payload
         /\ HostPacket(d).extra = 0
         /\ HostPacket(d) = Fields(d, AppPort, None, Payload, 0)
  BY HostPacketType DEF HostPacket, Fields

\* The parts of a packet with INT data.
LEMMA IntPacketFields ==
  ASSUME NEW d \in As, NEW own \in Stack, NEW bits \in Bitmap
  PROVE  /\ IntPacket(d, own, bits) \in Packet /\ StackFits(IntPacket(d, own, bits))
         /\ IntPacket(d, own, bits).int = Headers(Len(own), AppPort, bits)
         /\ IntPacket(d, own, bits).int # None
         /\ IntPacket(d, own, bits).dst = d /\ IntPacket(d, own, bits).port = UdpPort
         /\ IntPacket(d, own, bits).body = own \o Payload
         /\ Len(IntPacket(d, own, bits).body) = Len(own) + 1
         /\ IntPacket(d, own, bits).extra = 16 + 4 * Len(own)
<1> DEFINE pkt == IntPacket(d, own, bits)
<1>1. PICK k \in 0 .. 20 : k = Len(own)
  BY DEF Stack
<1>2. Headers(k, AppPort, bits) \in IntHeader /\ Headers(k, AppPort, bits).length = 3 + k
  <2>1. 3 + k \in 0 .. 255 /\ k \in 0 .. 31
    OBVIOUS
  <2> QED
    BY <2>1 DEF Headers, IntHeader
<1>3. own \o Payload \in Seq(Word) /\ Len(own \o Payload) = k + 1
  <2>1. own \in Seq(Word) /\ Payload \in Seq(Word) /\ Len(Payload) = 1
    BY PayloadType DEF Stack
  <2>2. Len(own \o Payload) = Len(own) + Len(Payload)
    BY <2>1, CutConcat
  <2>3. own \o Payload \in Seq(Word)
    BY <2>1
  <2> QED
    BY <1>1, <2>1, <2>2, <2>3
<1>4. /\ pkt.int = Headers(k, AppPort, bits) /\ pkt.dst = d /\ pkt.port = UdpPort
      /\ pkt.body = own \o Payload /\ pkt.extra = 16 + 4 * k
  BY <1>1 DEF IntPacket, Fields
<1>5. pkt \in Packet
  <2>1. 16 + 4 * k \in Int
    OBVIOUS
  <2> QED
    BY <1>1, <1>2, <1>3, <2>1 DEF IntPacket, Fields, Packet
<1> HIDE DEF pkt
<1>6. StackFits(pkt)
  <2>1. (3 + k) - 3 \in 0 .. k + 1
    OBVIOUS
  <2> QED
    BY <1>2, <1>3, <1>4, <2>1 DEF StackFits
<1>7. pkt.int # None
  BY <1>2, <1>4, HeaderAssumption
<1> QED
  BY <1>1, <1>3, <1>4, <1>5, <1>6, <1>7 DEF pkt

\* The parser finds no stack in the packet of a host, ...
LEMMA ParseHost ==
  ASSUME NEW d \in As
  PROVE  Parse(HostPacket(d)).pre = <<>> /\ Parse(HostPacket(d)).rest = Payload
<1> DEFINE pkt == HostPacket(d)
<1>1. pkt.int = None /\ pkt.body = Payload
  BY HostPacketFields
<1> HIDE DEF pkt
<1>2. Pre(pkt) = <<>>
  BY <1>1 DEF Pre
<1>3. SubSeq(pkt.body, Len(Pre(pkt)) + 1, Len(pkt.body)) = Payload
  BY <1>1, <1>2, PayloadType
<1> QED
  BY <1>2, <1>3 DEF Parse, pkt

\* ... and the whole stack, nothing else, in one with INT data.
LEMMA ParseInt ==
  ASSUME NEW d \in As, NEW own \in Stack, NEW bits \in Bitmap
  PROVE  /\ Parse(IntPacket(d, own, bits)).pre = own
         /\ Parse(IntPacket(d, own, bits)).rest = Payload
<1> DEFINE pkt == IntPacket(d, own, bits)
<1>1. /\ pkt.int = Headers(Len(own), AppPort, bits) /\ pkt.int # None
      /\ pkt.body = own \o Payload
  BY IntPacketFields
<1>2. own \in Seq(Word) /\ Len(own) \in Nat
  BY DEF Stack
<1> HIDE DEF pkt
<1>3. Pre(pkt) = own
  <2>1. Pre(pkt) = SubSeq(pkt.body, 1, pkt.int.length - 3)
    BY <1>1 DEF Pre
  <2>2. pkt.int.length - 3 = Len(own)
    BY <1>1, <1>2 DEF Headers
  <2>3. SubSeq(own \o Payload, 1, Len(own)) = own
    BY <1>2, PayloadType, CutConcat
  <2> QED
    BY <1>1, <2>1, <2>2, <2>3
<1>4. SubSeq(pkt.body, Len(Pre(pkt)) + 1, Len(pkt.body)) = Payload
  <2>1. SubSeq(own \o Payload, Len(own) + 1, Len(own \o Payload)) = Payload
    BY <1>2, PayloadType, CutConcat
  <2> QED
    BY <1>1, <1>3, <2>1
<1> QED
  BY <1>3, <1>4 DEF Parse, pkt

\* A source makes the host's packet the one with its own data.
LEMMA InsertAdds ==
  ASSUME NEW d \in As, NEW n \in Ctrl, NEW bits \in Bitmap, NEW t, NEW own,
         own = StackOf(n, bits \cap Supported(t))
  PROVE  EgressPacket(InsertIntHeader(Parse(HostPacket(d)), bits), n, t)
           = IntPacket(d, own, bits)
<1> DEFINE p == Parse(HostPacket(d))
           q == InsertIntHeader(p, bits)
           e == EgressPacket(q, n, t)
<1>1. /\ HostPacket(d) \in Packet /\ StackFits(HostPacket(d))
      /\ HostPacket(d).dst = d /\ HostPacket(d).port = AppPort
      /\ HostPacket(d).body = Payload /\ HostPacket(d).extra = 0
  BY HostPacketFields
<1>2. p \in Parsed /\ Splits(p) /\ p.hdr = HostPacket(d) /\ p.pre = <<>> /\ p.rest = Payload
  BY <1>1, ParseType, ParseHost
<1> HIDE DEF p
<1>3. /\ q \in Parsed /\ Splits(q) /\ q.intState = 1 /\ q.pre = <<>> /\ q.rest = Payload
      /\ q.hdr.dst = d /\ q.hdr.port = UdpPort /\ q.hdr.int = Headers(0, AppPort, bits)
      /\ q.hdr.extra = 0
  BY <1>1, <1>2, InsertType
<1> HIDE DEF q
<1>4. q.hdr.int.bits = bits /\ q.hdr.int.udpPort = AppPort
  BY <1>3 DEF Headers
<1>5. e = Fields(d, UdpPort, Headers(Len(own), AppPort, bits), <<>> \o own \o Payload,
                 0 + (16 + 4 * Len(own)))
  <2>1. own = StackOf(n, q.hdr.int.bits \cap Supported(t))
    BY <1>4
  <2>2. e = WithStack(q, own)
    BY <1>3, <2>1, EgressAdds
  <2> HIDE DEF e
  <2> QED
    BY <1>3, <1>4, <2>2 DEF WithStack
<1>6. own \in Stack
  BY StackIsStack
<1>7. <<>> \o own \o Payload = own \o Payload /\ 0 + (16 + 4 * Len(own)) = 16 + 4 * Len(own)
  BY <1>6, PayloadType DEF Stack
<1> HIDE DEF e
<1>8. e = IntPacket(d, own, bits)
  BY <1>5, <1>7 DEF IntPacket
<1> QED
  BY <1>8 DEF e, q, p

\* A switch that is neither a source nor a sink leaves a packet as it is.
LEMMA ForwardKeeps ==
  ASSUME NEW pkt \in Packet, StackFits(pkt), NEW n, NEW t,
         Parse(pkt).pre \o Parse(pkt).rest = pkt.body
  PROVE  EgressPacket(Parse(pkt), n, t) = pkt
<1> DEFINE p == Parse(pkt)
           e == EgressPacket(p, n, t)
<1>1. p \in Parsed /\ Splits(p) /\ p.hdr = pkt /\ p.intState = 2
  BY ParseType
<1>2. p.pre \o p.rest = pkt.body
  OBVIOUS
<1> HIDE DEF p
<1>3. e = Fields(p.hdr.dst, p.hdr.port, p.hdr.int, p.pre \o p.rest, p.hdr.extra)
  BY <1>1, EgressForwards
<1>4. pkt = Fields(pkt.dst, pkt.port, pkt.int, pkt.body, pkt.extra)
  BY PacketIs
<1> HIDE DEF e
<1>5. e = pkt
  BY <1>1, <1>2, <1>3, <1>4
<1> QED
  BY <1>5 DEF e, p

\* So the packet of a host goes through unchanged, ...
LEMMA ForwardHost ==
  ASSUME NEW d \in As, NEW n, NEW t
  PROVE  EgressPacket(Parse(HostPacket(d)), n, t) = HostPacket(d)
<1>1. /\ HostPacket(d) \in Packet /\ StackFits(HostPacket(d)) /\ HostPacket(d).body = Payload
  BY HostPacketFields
<1>2. Parse(HostPacket(d)).pre = <<>> /\ Parse(HostPacket(d)).rest = Payload
  BY ParseHost
<1>3. <<>> \o Payload = Payload
  BY PayloadType
<1> QED
  BY <1>1, <1>2, <1>3, ForwardKeeps

\* ... and so does one with INT data.
LEMMA ForwardInt ==
  ASSUME NEW d \in As, NEW own \in Stack, NEW bits \in Bitmap, NEW n, NEW t
  PROVE  EgressPacket(Parse(IntPacket(d, own, bits)), n, t) = IntPacket(d, own, bits)
<1>1. /\ IntPacket(d, own, bits) \in Packet /\ StackFits(IntPacket(d, own, bits))
      /\ IntPacket(d, own, bits).body = own \o Payload
  BY IntPacketFields
<1>2. /\ Parse(IntPacket(d, own, bits)).pre = own
      /\ Parse(IntPacket(d, own, bits)).rest = Payload
  BY ParseInt
<1> QED
  BY <1>1, <1>2, ForwardKeeps

\* A sink gives the host's packet back.
LEMMA SinkHost ==
  ASSUME NEW d \in As, NEW b \in BOOLEAN, NEW n, NEW t
  PROVE  EgressPacket(Marked(HostPacket(d), b), n, t) = HostPacket(d)
<1> DEFINE h == HostPacket(d)
           q == Marked(h, b)
           e == EgressPacket(q, n, t)
<1>1. h \in Packet /\ StackFits(h) /\ h.int = None /\ h.body = Payload
  BY HostPacketFields
<1>2. Parse(h).pre = <<>> /\ Parse(h).rest = Payload
  BY ParseHost
<1> HIDE DEF h
<1>3. /\ q \in Parsed /\ Splits(q) /\ q.hdr = h /\ q.intState = 0
      /\ q.pre = <<>> /\ q.rest = Payload
  BY <1>1, <1>2, MarkedType
<1> HIDE DEF q
<1>4. e = Fields(q.hdr.dst, q.hdr.port, q.hdr.int, q.pre \o q.rest, q.hdr.extra)
  <2>1. q.intState = 0 /\ q.hdr.int = None
    BY <1>1, <1>3
  <2> QED
    BY <1>3, <2>1, EgressForwards
<1>5. <<>> \o Payload = Payload
  BY PayloadType
<1>6. h = Fields(h.dst, h.port, h.int, h.body, h.extra)
  BY <1>1, PacketIs
<1> HIDE DEF e
<1>7. e = h
  BY <1>1, <1>3, <1>4, <1>5, <1>6
<1> QED
  BY <1>7 DEF e, q, h

\* A sink takes out what a source put in, and nothing else.
LEMMA SinkInt ==
  ASSUME NEW d \in As, NEW own \in Stack, NEW bits \in Bitmap, NEW b \in BOOLEAN, NEW n, NEW t
  PROVE  /\ EgressPacket(Marked(IntPacket(d, own, bits), b), n, t) = HostPacket(d)
         /\ DeleteInt(Parse(IntPacket(d, own, bits))) = HostPacket(d)
<1> DEFINE i == IntPacket(d, own, bits)
           h == HostPacket(d)
           q == Marked(i, b)
           p == Parse(i)
           e == EgressPacket(q, n, t)
           f == DeleteInt(p)
<1>1. /\ i \in Packet /\ StackFits(i) /\ i.int # None /\ i.dst = d
      /\ i.int = Headers(Len(own), AppPort, bits) /\ i.extra = 16 + 4 * Len(own)
  BY IntPacketFields
<1>2. p.pre = own /\ p.rest = Payload /\ p \in Parsed /\ p.hdr = i
  BY <1>1, ParseInt, ParseType
<1>3. h = Fields(d, AppPort, None, Payload, 0)
  BY HostPacketFields
<1>4. /\ i.int.length = 3 + Len(own) /\ i.int.udpPort = AppPort
  BY <1>1 DEF Headers
<1>5. i.extra - (4 + 4 * i.int.length) = 0
  <2>1. PICK k \in 0 .. 20 : k = Len(own)
    BY DEF Stack
  <2>2. (16 + 4 * k) - (4 + 4 * (3 + k)) = 0
    OBVIOUS
  <2> QED
    BY <1>1, <1>4, <2>1, <2>2
<1> HIDE DEF i, h
<1>6. e = h
  <2>1. /\ q \in Parsed /\ q.hdr = i /\ q.intState = 0 /\ q.rest = Payload
    BY <1>1, <1>2, MarkedType
  <2> HIDE DEF q
  <2>2. e = Fields(i.dst, i.int.udpPort, None, Payload, i.extra - (4 + 4 * i.int.length))
    BY <1>1, <2>1, EgressDeletes
  <2> HIDE DEF e
  <2> QED
    BY <1>1, <1>3, <1>4, <1>5, <2>2
<1>7. f = e
  <2>1. EgressPacket(q, n, t) = DeleteInt(q)
    <3>1. q.hdr = i /\ q.intState = 0
      BY <1>1, MarkedType
    <3> QED
      BY <1>1, <3>1 DEF EgressPacket
  <2>2. q.hdr = p.hdr /\ q.rest = p.rest
    BY <1>1, <1>2, MarkedType
  <2> HIDE DEF p, q
  <2> QED
    BY <2>1, <2>2 DEF DeleteInt
<1> QED
  BY <1>6, <1>7 DEF e, f, q, p, i, h

\* What the controller gets of a packet with INT data.
LEMMA KeptFields ==
  ASSUME NEW d \in As, NEW own \in Stack, NEW bits \in Bitmap, NEW b \in BOOLEAN
  PROVE  /\ KeepIntCpu(Marked(IntPacket(d, own, bits), b)).int
              = Headers(Len(own), AppPort, bits)
         /\ Len(own) # 0 => KeepIntCpu(Marked(IntPacket(d, own, bits), b)).body = own
<1> DEFINE i == IntPacket(d, own, bits)
           q == Marked(i, b)
<1>1. /\ i \in Packet /\ StackFits(i) /\ i.int # None
      /\ i.int = Headers(Len(own), AppPort, bits) /\ i.extra = 16 + 4 * Len(own)
      /\ Len(i.body) = Len(own) + 1
  BY IntPacketFields
<1>2. Parse(i).pre = own
  BY ParseInt
<1> HIDE DEF i
<1>3. q \in Parsed /\ q.hdr = i /\ q.pre = own
  BY <1>1, <1>2, MarkedType
<1> HIDE DEF q
<1>4. KeepIntCpu(q).int = Headers(Len(own), AppPort, bits)
  BY <1>1, <1>3, KeepType
<1>5. ASSUME Len(own) # 0 PROVE KeepIntCpu(q).body = own
  <2>1. PICK k \in 0 .. 20 : k = Len(own)
    BY DEF Stack
  <2>2. 16 + 4 * ((k + 1) - 1) = 16 + 4 * k /\ (k # 0 => 3 + k # 3)
    OBVIOUS
  <2>3. i.extra <= ActualExtra(i) /\ i.int.length # 3
    <3>1. ActualExtra(i) = 16 + 4 * ((k + 1) - 1)
      BY <1>1, <2>1, PayloadType DEF ActualExtra
    <3>2. i.extra = 16 + 4 * k /\ i.int.length = 3 + k
      BY <1>1, <2>1 DEF Headers
    <3> QED
      BY <1>5, <2>1, <2>2, <3>1, <3>2
  <2>4. KeepIntCpu(q) = [i EXCEPT !.body = own]
    BY <1>3, <2>3 DEF KeepIntCpu
  <2> QED
    BY <1>1, <2>4 DEF Packet
<1> QED
  BY <1>4, <1>5 DEF q, i

-----------------------------------------------------------------------------
(* What the packets carry when no route has two sources: the inductive         *)
(* invariant behind the properties of packets and of reports.                  *)

Asked(bits) ==
  bits \in Bitmap /\ \E c \in Ctrl : \E j \in 1 .. Len(IntTable[c]) : IntTable[c][j].bits = bits

\* own is what n records when asked for these fields: all it can, once it is initialized.
Records(n, own, bits) ==
  /\ Asked(bits)
  /\ \E sup \in SUBSET Recordable :
       own = StackOf(n, bits \cap sup) /\ (Steady => sup = Recordable)

\* The host's packet before the source, ...
Untouched(f, trail, pkt) == trail = <<>> /\ pkt = HostPacket(Dest[f])

\* ... and behind it without INT data ...
Cleared(f, at, trail, pkt) ==
  /\ \E i \in 1 .. at - 1 : IsSource(f, i) /\ trail = <<Route[f][i]>>
  /\ pkt = HostPacket(Dest[f])

\* ... or with it: when all switches are initialized, there is no sink in between.
Tagged(f, at, trail, pkt) ==
  \E i \in 1 .. at - 1 :
    /\ IsSource(f, i) /\ trail = <<Route[f][i]>>
    /\ \E own \in Stack, bits \in Bitmap :
         Records(Route[f][i], own, bits) /\ pkt = IntPacket(Dest[f], own, bits)
    /\ Steady => \A j \in i + 1 .. at - 1 : ~IsSink(f, j)

Carries(f, at, trail, pkt) ==
  Untouched(f, trail, pkt) \/ Cleared(f, at, trail, pkt) \/ Tagged(f, at, trail, pkt)

\* What ingress may have made of pkt.
Holds(f, at, p, pkt) ==
  \/ p = Parse(pkt) /\ (Steady => ~IsSink(f, at))
  \/ \E b \in BOOLEAN : p = Marked(pkt, b)
  \/ \E bits : Asked(bits) /\ IsSource(f, at) /\ p = InsertIntHeader(Parse(pkt), bits)

\* What reaches a controller.
Tells(trail, pkt) ==
  \E n \in Ctrl, own \in Stack, bits \in Bitmap :
    /\ Records(n, own, bits) /\ trail = <<n>>
    /\ pkt.int = Headers(Len(own), AppPort, bits)
    /\ Len(own) # 0 => pkt.body = own

Contents ==
  /\ \A w \in wire \cup delivered : Carries(w.flow, w.at, w.trail, w.pkt)
  /\ \A w \in delivered : AtHost(w)
  /\ \A s \in inside : \E pkt : Carries(s.flow, s.at, s.trail, pkt)
                                /\ Holds(s.flow, s.at, s.p, pkt)
  /\ \A n \in Ctrl : \A k \in 1 .. Len(packetIn[n]) :
       Tells(packetIn[n][k].trail, packetIn[n][k].pkt)
  /\ Steady => \A n \in Ctrl : stage[n] = LastStep(n)

\* These are packets to the destination of their flow.
LEMMA CarriesType ==
  ASSUME NEW f \in Flow, NEW at, NEW trail, NEW pkt, Carries(f, at, trail, pkt)
  PROVE  pkt \in Packet /\ StackFits(pkt) /\ pkt.dst = Dest[f]
<1>1. Dest[f] \in As
  BY FlowAssumption
<1>2. CASE pkt = HostPacket(Dest[f])
  BY <1>1, <1>2, HostPacketFields
<1>3. CASE \E own \in Stack, bits \in Bitmap : pkt = IntPacket(Dest[f], own, bits)
  BY <1>1, <1>3, IntPacketFields
<1> QED
  BY <1>2, <1>3 DEF Carries, Untouched, Cleared, Tagged

\* Ingress makes of such a packet what the route says.
LEMMA IngressHolds ==
  ASSUME NEW f \in Flow, NEW at \in 1 .. Len(Route[f]), NEW trail, NEW pkt,
         Carries(f, at, trail, pkt), NEW s, NEW t, TablesOf(t, Route[f][at], s),
         Steady => s >= SinkStep, NEW p \in Ingress(pkt, t)
  PROVE  Holds(f, at, p, pkt)
<1> DEFINE c == Route[f][at]
<1>1. c \in Ctrl
  BY RouteType
<1>2. pkt.dst = Dest[f] /\ Dest[f] \in As
  BY CarriesType, FlowAssumption
<1>3. CASE Ingress(pkt, t) = {Parse(pkt)} /\ ~(s >= SinkStep /\ pkt.dst = HostAs[c])
  <2>1. Steady => ~IsSink(f, at)
    BY <1>2, <1>3 DEF IsSink
  <2> QED
    BY <1>3, <2>1 DEF Holds
<1>4. CASE Ingress(pkt, t) = AtSink(pkt, t)
  <2>1. p \in {Marked(pkt, FALSE), Marked(pkt, TRUE)}
    BY <1>4 DEF AtSink
  <2> QED
    BY <2>1 DEF Holds
<1>5. ASSUME NEW j \in 1 .. Len(IntTable[c]),
             IntTable[c][j].as = pkt.dst, pkt.dst # HostAs[c],
             Ingress(pkt, t) = {InsertIntHeader(Parse(pkt), IntTable[c][j].bits)}
      PROVE  Holds(f, at, p, pkt)
  <2>1. IsSource(f, at)
    BY <1>2, <1>5 DEF IsSource
  <2>2. IntTable[c][j].bits \in Bitmap
    BY <1>1, LineType DEF IntTableLine
  <2>3. Asked(IntTable[c][j].bits)
    BY <1>1, <2>2 DEF Asked
  <2>4. p = InsertIntHeader(Parse(pkt), IntTable[c][j].bits)
    BY <1>5
  <2> HIDE DEF c
  <2> QED
    BY <2>1, <2>3, <2>4 DEF Holds
<1> QED
  BY <1>1, <1>2, <1>3, <1>4, <1>5, IngressCases

\* Leaving a packet alone takes it one hop on.
LEMMA ForwardCarries ==
  ASSUME NEW f \in Flow, NEW at \in 1 .. Len(Route[f]), NEW trail, NEW pkt,
         Carries(f, at, trail, pkt), Steady => ~IsSink(f, at)
  PROVE  Carries(f, at + 1, trail, pkt)
<1>1. CASE Untouched(f, trail, pkt)
  BY <1>1 DEF Carries
<1>2. \A i \in 1 .. at - 1 : i \in 1 .. (at + 1) - 1
  BY RouteType
<1>3. CASE Cleared(f, at, trail, pkt)
  <2>1. Cleared(f, at + 1, trail, pkt)
    BY <1>2, <1>3 DEF Cleared
  <2> QED
    BY <2>1 DEF Carries
<1>4. CASE Tagged(f, at, trail, pkt)
  <2>1. PICK i \in 1 .. at - 1 :
          /\ IsSource(f, i) /\ trail = <<Route[f][i]>>
          /\ \E own \in Stack, bits \in Bitmap :
               Records(Route[f][i], own, bits) /\ pkt = IntPacket(Dest[f], own, bits)
          /\ Steady => \A j \in i + 1 .. at - 1 : ~IsSink(f, j)
    BY <1>4 DEF Tagged
  <2>2. \A j \in i + 1 .. (at + 1) - 1 : j \in i + 1 .. at - 1 \/ j = at
    BY RouteType
  <2>3. Steady => \A j \in i + 1 .. (at + 1) - 1 : ~IsSink(f, j)
    BY <2>1, <2>2
  <2>4. Tagged(f, at + 1, trail, pkt)
    BY <1>2, <2>1, <2>3 DEF Tagged
  <2> QED
    BY <2>4 DEF Carries
<1> QED
  BY <1>1, <1>3, <1>4 DEF Carries

\* Giving the host's packet back does not need to know what was in it.
LEMMA ClearedCarries ==
  ASSUME NEW f \in Flow, NEW at \in 1 .. Len(Route[f]), NEW trail, NEW pkt,
         Carries(f, at, trail, pkt)
  PROVE  Carries(f, at + 1, trail, HostPacket(Dest[f]))
<1>1. CASE Untouched(f, trail, pkt)
  BY <1>1 DEF Carries, Untouched
<1>2. \A i \in 1 .. at - 1 : i \in 1 .. (at + 1) - 1
  BY RouteType
<1>3. CASE \E i \in 1 .. at - 1 : IsSource(f, i) /\ trail = <<Route[f][i]>>
  <2>1. Cleared(f, at + 1, trail, HostPacket(Dest[f]))
    BY <1>2, <1>3 DEF Cleared
  <2> QED
    BY <2>1 DEF Carries
<1> QED
  BY <1>1, <1>3 DEF Carries, Cleared, Tagged

\* The only source of a route finds the host's packet.
LEMMA SourceFirst ==
  ASSUME OneSource, NEW f \in Flow, NEW at \in 1 .. Len(Route[f]), NEW trail, NEW pkt,
         Carries(f, at, trail, pkt), IsSource(f, at)
  PROVE  trail = <<>> /\ pkt = HostPacket(Dest[f])
<1>1. ASSUME NEW i \in 1 .. at - 1, IsSource(f, i) PROVE FALSE
  <2>1. i \in 1 .. Len(Route[f]) /\ i # at
    BY RouteType
  <2> QED
    BY <1>1, <2>1 DEF OneSource
<1> QED
  BY <1>1 DEF Carries, Untouched, Cleared, Tagged

\* Egress makes of it such a packet again, one hop on.
LEMMA EgressCarries ==
  ASSUME OneSource, NEW f \in Flow, NEW at \in 1 .. Len(Route[f]), NEW trail, NEW pkt,
         Carries(f, at, trail, pkt), NEW p, Holds(f, at, p, pkt),
         NEW t \in Pipeline, Steady => Supported(t) = Recordable
  PROVE  Carries(f, at + 1, IF p.intState = 1 THEN Append(trail, Route[f][at]) ELSE trail,
                 EgressPacket(p, Route[f][at], t))
<1> DEFINE n == Route[f][at]
           d == Dest[f]
           next == IF p.intState = 1 THEN Append(trail, n) ELSE trail
<1>1. d \in As /\ n \in Ctrl
  BY RouteType
<1>2. pkt \in Packet /\ StackFits(pkt)
  BY CarriesType
<1>3. pkt = HostPacket(d) \/ \E own \in Stack, bits \in Bitmap : pkt = IntPacket(d, own, bits)
  BY DEF Carries, Untouched, Cleared, Tagged
<1>4. CASE p = Parse(pkt) /\ (Steady => ~IsSink(f, at))
  <2>1. EgressPacket(p, n, t) = pkt
    BY <1>1, <1>3, <1>4, ForwardHost, ForwardInt
  <2>2. next = trail
    <3>1. p.intState # 1
      BY <1>2, <1>4, ParseType
    <3> QED
      BY <3>1
  <2>3. Carries(f, at + 1, trail, pkt)
    BY <1>4, ForwardCarries
  <2> HIDE DEF next, n
  <2>4. Carries(f, at + 1, next, EgressPacket(p, n, t))
    BY <2>1, <2>2, <2>3
  <2> QED
    BY <2>4 DEF next, n
<1>5. ASSUME NEW b \in BOOLEAN, p = Marked(pkt, b)
      PROVE  Carries(f, at + 1, next, EgressPacket(p, n, t))
  <2>1. EgressPacket(p, n, t) = HostPacket(d)
    BY <1>1, <1>3, <1>5, SinkHost, SinkInt
  <2>2. next = trail
    <3>1. p.intState # 1
      BY <1>2, <1>5, MarkedType
    <3> QED
      BY <3>1
  <2>3. Carries(f, at + 1, trail, HostPacket(d))
    BY ClearedCarries
  <2> HIDE DEF next, n, d
  <2> QED
    BY <2>1, <2>2, <2>3
<1>6. ASSUME NEW bits, Asked(bits), IsSource(f, at), p = InsertIntHeader(Parse(pkt), bits)
      PROVE  Carries(f, at + 1, next, EgressPacket(p, n, t))
  <2> DEFINE sup == Supported(t)
             own == StackOf(n, bits \cap sup)
  <2>1. trail = <<>> /\ pkt = HostPacket(d)
    BY <1>6, SourceFirst
  <2>2. bits \in Bitmap
    BY <1>6 DEF Asked
  <2>3. EgressPacket(p, n, t) = IntPacket(d, own, bits)
    <3>1. own = StackOf(n, bits \cap Supported(t))
      OBVIOUS
    <3> HIDE DEF own, d, n, next
    <3>2. EgressPacket(InsertIntHeader(Parse(HostPacket(d)), bits), n, t)
            = IntPacket(d, own, bits)
      BY <1>1, <2>2, <3>1, InsertAdds
    <3> QED
      BY <1>6, <2>1, <3>2
  <2>4. p.intState = 1
    BY <1>2, <1>6, <2>2, ParseType, InsertType
  <2>5. next = <<n>>
    BY <2>1, <2>4
  <2>6. Records(n, own, bits)
    <3>1. sup \in SUBSET Recordable
      BY SupportedType
    <3> HIDE DEF sup
    <3>2. Steady => sup = Recordable
      BY DEF sup
    <3> QED
      BY <1>6, <3>1, <3>2 DEF Records
  <2>7. own \in Stack
    BY <1>1, StackIsStack
  <2>8. at \in 1 .. (at + 1) - 1 /\ \A j \in at + 1 .. (at + 1) - 1 : FALSE
    BY RouteType
  <2> HIDE DEF sup, own, next
  <2>9. Tagged(f, at + 1, next, IntPacket(d, own, bits))
    BY <1>6, <2>2, <2>5, <2>6, <2>7, <2>8 DEF Tagged
  <2> HIDE DEF n, d
  <2> QED
    BY <2>3, <2>9 DEF Carries
<1> QED
  BY <1>4, <1>5, <1>6 DEF Holds

\* A clone that gets to the controller is one of a packet with INT data.
LEMMA CloneTells ==
  ASSUME NEW f \in Flow, NEW at \in 1 .. Len(Route[f]), NEW trail, NEW pkt,
         Carries(f, at, trail, pkt), NEW p, Holds(f, at, p, pkt), CloneReachesCpu(p)
  PROVE  Tells(trail, KeepIntCpu(p))
<1>1. pkt \in Packet /\ StackFits(pkt) /\ Dest[f] \in As
  BY CarriesType, FlowAssumption
<1>2. p.clone /\ p.hdr.int # None
  BY DEF CloneReachesCpu
<1>3. p # Parse(pkt)
  BY <1>1, <1>2, ParseType
<1>4. ASSUME NEW bits, Asked(bits), p = InsertIntHeader(Parse(pkt), bits) PROVE FALSE
  <2>1. p.clone = Parse(pkt).clone
    BY <1>1, <1>4, ParseType, InsertType DEF Asked
  <2> QED
    BY <1>1, <1>2, <2>1, ParseType
<1>5. PICK b \in BOOLEAN : p = Marked(pkt, b)
  BY <1>3, <1>4 DEF Holds
<1>6. pkt.int # None
  BY <1>1, <1>2, <1>5, MarkedType
<1>7. Tagged(f, at, trail, pkt)
  BY <1>1, <1>6, HostPacketFields DEF Carries, Untouched, Cleared
<1>8. PICK i \in 1 .. at - 1, own \in Stack, bits \in Bitmap :
        /\ IsSource(f, i) /\ trail = <<Route[f][i]>>
        /\ Records(Route[f][i], own, bits) /\ pkt = IntPacket(Dest[f], own, bits)
  BY <1>7 DEF Tagged
<1>9. Route[f][i] \in Ctrl
  BY RouteType
<1>10. /\ KeepIntCpu(p).int = Headers(Len(own), AppPort, bits)
       /\ Len(own) # 0 => KeepIntCpu(p).body = own
  BY <1>1, <1>5, <1>8, KeptFields
<1> QED
  BY <1>8, <1>9, <1>10 DEF Tells

\* There are no packets at first.
LEMMA ContentsInit == Init => Contents
<1> SUFFICES ASSUME Init PROVE Contents
  OBVIOUS
<1>1. wire = {} /\ delivered = {} /\ inside = {} /\ packetIn = [n \in Ctrl |-> <<>>]
  BY DEF Init
<1>2. \A n \in Ctrl : Len(packetIn[n]) = 0
  BY <1>1
<1>3. \A n \in Ctrl : \A k \in 1 .. Len(packetIn[n]) : FALSE
  BY <1>2
<1>4. Steady => \A n \in Ctrl : stage[n] = LastStep(n)
  BY DEF Init, Steady
<1> QED
  BY <1>1, <1>3, <1>4 DEF Contents

\* With every switch initialized for good, none starts anew.
LEMMA StagesStay ==
  ASSUME Placed, Contents, [Next]_vars, Steady
  PROVE  \A n \in Ctrl : stage'[n] = LastStep(n)
<1>1. \A n \in Ctrl : stage[n] = LastStep(n) /\ LastStep(n) \in Nat
  BY StepBounds DEF Contents
<1>2. ASSUME NEW n \in Ctrl, InitStep(n) PROVE FALSE
  BY <1>1, <1>2 DEF InitStep
<1>3. ASSUME NEW n \in Ctrl, Takeover(n) PROVE FALSE
  BY <1>3 DEF Takeover, Steady, Placed, ControllersOK
<1>4. stage' = stage
  BY <1>2, <1>3 DEF Next, vars, HandlePacketIn, ControllerDies, Handles, Send, IngressStep,
                    Deliver, EgressPacketStep, EgressClone
<1> QED
  BY <1>1, <1>4

\* What the tables of a switch support and do, from its stage.
LEMMA SteadyTables ==
  ASSUME Placed, Contents, NEW n \in Ctrl
  PROVE  /\ TablesOf(Tables(n), n, stage[n]) /\ Tables(n) \in Pipeline
         /\ Steady => stage[n] >= SinkStep /\ Supported(Tables(n)) = Recordable
<1>1. TablesOf(Tables(n), n, stage[n]) /\ Tables(n) \in Pipeline
  BY TablesType DEF Placed
<1>2. ASSUME Steady PROVE stage[n] >= SinkStep /\ stage[n] >= EgressStep(n)
  BY <1>2, StepBounds DEF Contents, SinkStep
<1>3. ASSUME Steady PROVE Supported(Tables(n)) = Recordable
  <2>1. Tables(n).node = n /\ n # None
    BY <1>1, <1>2, <1>3, NodeAssumption DEF TablesOf
  <2> QED
    BY <2>1 DEF Supported, Recordable
<1> QED
  BY <1>1, <1>2, <1>3

\* IngressHolds, for a step of the network.
LEMMA ContentsEntering ==
  ASSUME Placed, Contents, NEW w \in wire, ~AtHost(w),
         NEW p \in Ingress(w.pkt, Tables(Node(w)))
  PROVE  Carries(w.flow, w.at, w.trail, w.pkt) /\ Holds(w.flow, w.at, p, w.pkt)
<1>1. /\ w.flow \in Flow /\ w.at \in 1 .. Len(Route[w.flow]) + 1
  BY DEF Placed, ItemsOK, MovingOK, Moving
<1>2. w.at \in 1 .. Len(Route[w.flow])
  BY <1>1, RouteType DEF AtHost
<1>3. Node(w) \in Ctrl /\ Node(w) = Route[w.flow][w.at]
  BY <1>1, <1>2, RouteType DEF Node
<1>4. Carries(w.flow, w.at, w.trail, w.pkt)
  BY DEF Contents
<1>5. /\ TablesOf(Tables(Node(w)), Node(w), stage[Node(w)])
      /\ Steady => stage[Node(w)] >= SinkStep
  BY <1>3, SteadyTables
<1> QED
  BY <1>1, <1>2, <1>3, <1>4, <1>5, IngressHolds

\* EgressCarries and CloneTells, for a step of the network.
LEMMA ContentsLeaving ==
  ASSUME OneSource, Placed, Contents, NEW s \in inside
  PROVE  /\ Carries(s.flow, s.at + 1,
                    IF s.p.intState = 1 THEN Append(s.trail, Node(s)) ELSE s.trail,
                    EgressPacket(s.p, Node(s), Tables(Node(s))))
         /\ CloneReachesCpu(s.p) => Tells(s.trail, KeepIntCpu(s.p))
<1>1. s.flow \in Flow /\ s.at \in 1 .. Len(Route[s.flow])
  BY DEF Placed, ItemsOK, EnteringOK, Entering
<1>2. Node(s) \in Ctrl /\ Node(s) = Route[s.flow][s.at]
  BY <1>1, RouteType DEF Node
<1>3. PICK pkt : Carries(s.flow, s.at, s.trail, pkt) /\ Holds(s.flow, s.at, s.p, pkt)
  BY DEF Contents
<1>4. Tables(Node(s)) \in Pipeline /\ (Steady => Supported(Tables(Node(s))) = Recordable)
  BY <1>2, SteadyTables
<1>5. Carries(s.flow, s.at + 1,
              IF s.p.intState = 1 THEN Append(s.trail, Route[s.flow][s.at]) ELSE s.trail,
              EgressPacket(s.p, Route[s.flow][s.at], Tables(Node(s))))
  BY <1>1, <1>3, <1>4, EgressCarries
<1>6. CloneReachesCpu(s.p) => Tells(s.trail, KeepIntCpu(s.p))
  BY <1>1, <1>3, CloneTells
<1> QED
  BY <1>2, <1>5, <1>6

\* Every step keeps what is on the wires.
LEMMA ContentsWires ==
  ASSUME OneSource, Placed, Contents, [Next]_vars
  PROVE  /\ \A w \in wire' \cup delivered' : Carries(w.flow, w.at, w.trail, w.pkt)
         /\ \A w \in delivered' : AtHost(w)
<1>1. /\ \A w \in wire \cup delivered : Carries(w.flow, w.at, w.trail, w.pkt)
      /\ \A w \in delivered : AtHost(w)
  BY DEF Contents
<1>2. CASE UNCHANGED <<wire, delivered>>
  BY <1>1, <1>2
<1>3. ASSUME NEW f \in Flow, Send(f)
      PROVE  /\ \A w \in wire' \cup delivered' : Carries(w.flow, w.at, w.trail, w.pkt)
             /\ \A w \in delivered' : AtHost(w)
  <2> DEFINE x == [id |-> sent, flow |-> f, at |-> 1, trail |-> <<>>,
                   pkt |-> HostPacket(Dest[f])]
  <2>1. wire' = wire \cup {x} /\ delivered' = delivered
    BY <1>3 DEF Send
  <2>2. Carries(x.flow, x.at, x.trail, x.pkt)
    BY DEF Carries, Untouched
  <2> HIDE DEF x
  <2> QED
    BY <1>1, <2>1, <2>2
<1>4. ASSUME NEW w \in wire, IngressStep(w) \/ Deliver(w)
      PROVE  /\ \A v \in wire' \cup delivered' : Carries(v.flow, v.at, v.trail, v.pkt)
             /\ \A v \in delivered' : AtHost(v)
  <2>1. /\ wire' \cup delivered' \subseteq wire \cup delivered
        /\ \A v \in delivered' : v \in delivered \/ AtHost(v)
    BY <1>4 DEF IngressStep, Deliver
  <2> QED
    BY <1>1, <2>1
<1>5. ASSUME NEW s \in inside, EgressPacketStep(s)
      PROVE  /\ \A v \in wire' \cup delivered' : Carries(v.flow, v.at, v.trail, v.pkt)
             /\ \A v \in delivered' : AtHost(v)
  <2> DEFINE x == [id |-> s.id, flow |-> s.flow, at |-> s.at + 1,
                   trail |-> IF s.p.intState = 1 THEN Append(s.trail, Node(s)) ELSE s.trail,
                   pkt |-> EgressPacket(s.p, Node(s), Tables(Node(s)))]
  <2>1. wire' = wire \cup {x} /\ delivered' = delivered
    BY <1>5 DEF EgressPacketStep
  <2>2. Carries(x.flow, x.at, x.trail, x.pkt)
    BY ContentsLeaving
  <2> HIDE DEF x
  <2> QED
    BY <1>1, <2>1, <2>2
<1> QED
  BY <1>2, <1>3, <1>4, <1>5 DEF Next, vars, InitStep, Takeover, HandlePacketIn, ControllerDies,
                                Handles, EgressClone

\* Every step keeps what is in the switches.
LEMMA ContentsInside ==
  ASSUME Placed, Contents, [Next]_vars
  PROVE  \A s \in inside' : \E pkt : Carries(s.flow, s.at, s.trail, pkt)
                                     /\ Holds(s.flow, s.at, s.p, pkt)
<1>1. \A s \in inside : \E pkt : Carries(s.flow, s.at, s.trail, pkt)
                                 /\ Holds(s.flow, s.at, s.p, pkt)
  BY DEF Contents
<1>2. CASE inside' \subseteq inside
  BY <1>1, <1>2
<1>3. ASSUME NEW w \in wire, IngressStep(w)
      PROVE  \A s \in inside' : \E pkt : Carries(s.flow, s.at, s.trail, pkt)
                                         /\ Holds(s.flow, s.at, s.p, pkt)
  <2> DEFINE held(p) == [id |-> w.id, flow |-> w.flow, at |-> w.at, trail |-> w.trail, p |-> p]
             new == {held(p) : p \in Ingress(w.pkt, Tables(Node(w)))}
  <2>1. inside' \subseteq inside \cup new /\ ~AtHost(w)
    BY <1>3 DEF IngressStep
  <2>2. ASSUME NEW s \in new
        PROVE  \E pkt : Carries(s.flow, s.at, s.trail, pkt) /\ Holds(s.flow, s.at, s.p, pkt)
    <3>1. PICK p \in Ingress(w.pkt, Tables(Node(w))) : s = held(p)
      OBVIOUS
    <3>2. Carries(w.flow, w.at, w.trail, w.pkt) /\ Holds(w.flow, w.at, p, w.pkt)
      BY <2>1, ContentsEntering
    <3> QED
      BY <3>1, <3>2
  <2> HIDE DEF new
  <2> QED
    BY <1>1, <2>1, <2>2
<1> QED
  BY <1>2, <1>3 DEF Next, vars, InitStep, Takeover, HandlePacketIn, ControllerDies, Handles,
                    Send, Deliver, EgressPacketStep, EgressClone

\* Every step keeps what is on the way to the controllers.
LEMMA ContentsMessages ==
  ASSUME OneSource, Placed, Contents, [Next]_vars
  PROVE  \A n \in Ctrl : \A k \in 1 .. Len(packetIn'[n]) :
           Tells(packetIn'[n][k].trail, packetIn'[n][k].pkt)
<1>1. /\ \A n \in Ctrl : \A k \in 1 .. Len(packetIn[n]) :
           Tells(packetIn[n][k].trail, packetIn[n][k].pkt)
      /\ packetIn \in [Ctrl -> Seq(Message)]
  BY DEF Contents, Placed, ItemsOK
<1>2. CASE UNCHANGED packetIn
  BY <1>1, <1>2
<1>3. ASSUME NEW c \in Ctrl, Takeover(c), NEW n \in Ctrl, NEW k \in 1 .. Len(packetIn'[n])
      PROVE  Tells(packetIn'[n][k].trail, packetIn'[n][k].pkt)
  BY <1>1, <1>3, TakeoverKeeps
<1>4. ASSUME NEW c \in Ctrl, Handles(c), NEW n \in Ctrl, NEW k \in 1 .. Len(packetIn'[n])
      PROVE  Tells(packetIn'[n][k].trail, packetIn'[n][k].pkt)
  <2>1. packetIn' = [packetIn EXCEPT ![c] = Tail(@)] /\ packetIn[c] # <<>>
    BY <1>4 DEF Handles
  <2>2. PICK q \in Seq(Message) : q = packetIn[c]
    BY <1>1
  <2>3. CASE n = c
    <3>1. packetIn'[n] = Tail(q) /\ q # <<>>
      BY <1>1, <2>1, <2>2, <2>3
    <3>2. k + 1 \in 2 .. Len(q) /\ Tail(q)[k] = q[k + 1]
      BY <3>1, QueueElements
    <3>3. k + 1 \in 1 .. Len(q)
      BY <3>2
    <3> QED
      BY <1>1, <2>2, <2>3, <3>1, <3>2, <3>3
  <2> QED
    BY <1>1, <2>1, <2>3
<1>5. ASSUME NEW s \in inside, EgressClone(s), NEW n \in Ctrl, NEW k \in 1 .. Len(packetIn'[n])
      PROVE  Tells(packetIn'[n][k].trail, packetIn'[n][k].pkt)
  <2> DEFINE m == [id |-> s.id, trail |-> s.trail, pkt |-> KeepIntCpu(s.p)]
             c == Node(s)
  <2>1. \/ packetIn' = packetIn
        \/ packetIn' = [packetIn EXCEPT ![c] = Append(@, m)] /\ CloneReachesCpu(s.p)
    BY <1>5 DEF EgressClone
  <2>2. s \in Entering /\ s.p \in Parsed /\ s.at \in 1 .. Len(Route[s.flow]) /\ s.flow \in Flow
    BY DEF Placed, ItemsOK, EnteringOK, Entering
  <2>3. m \in Message
    BY <2>2, KeepType DEF Message, Entering
  <2>4. c \in Ctrl
    BY <2>2, RouteType DEF Node
  <2>5. CloneReachesCpu(s.p) => Tells(m.trail, m.pkt)
    BY ContentsLeaving
  <2> HIDE DEF m, c
  <2>6. PICK q \in Seq(Message) : q = packetIn[c]
    BY <1>1, <2>4
  <2>7. CASE packetIn' = [packetIn EXCEPT ![c] = Append(@, m)] /\ CloneReachesCpu(s.p) /\ n = c
    <3>1. packetIn'[n] = Append(q, m)
      BY <1>1, <2>4, <2>6, <2>7
    <3>2. /\ Append(q, m)[Len(q) + 1] = m /\ Len(Append(q, m)) = Len(q) + 1
          /\ \A j \in 1 .. Len(q) : Append(q, m)[j] = q[j]
          /\ \A j \in 1 .. Len(q) + 1 : j \in 1 .. Len(q) \/ j = Len(q) + 1
      BY <2>3, QueueElements
    <3> QED
      BY <1>1, <2>5, <2>6, <2>7, <3>1, <3>2
  <2>8. CASE packetIn' = [packetIn EXCEPT ![c] = Append(@, m)] /\ n # c
    BY <1>1, <2>8
  <2> QED
    BY <1>1, <2>1, <2>7, <2>8
<1> QED
  BY <1>2, <1>3, <1>4, <1>5 DEF Next, vars, InitStep, HandlePacketIn, ControllerDies,
                                Send, IngressStep, Deliver, EgressPacketStep

\* Contents is inductive when no route has two sources.
LEMMA ContentsStep ==
  ASSUME OneSource, Placed, Contents, [Next]_vars
  PROVE  Contents'
<1>1. /\ \A w \in wire' \cup delivered' : Carries(w.flow, w.at, w.trail, w.pkt)
      /\ \A w \in delivered' : AtHost(w)
  BY ContentsWires
<1>2. \A s \in inside' : \E pkt : Carries(s.flow, s.at, s.trail, pkt)
                                  /\ Holds(s.flow, s.at, s.p, pkt)
  BY ContentsInside
<1>3. \A n \in Ctrl : \A k \in 1 .. Len(packetIn'[n]) :
        Tells(packetIn'[n][k].trail, packetIn'[n][k].pkt)
  BY ContentsMessages
<1>4. Steady => \A n \in Ctrl : stage'[n] = LastStep(n)
  BY StagesStay
<1> QED
  BY <1>1, <1>2, <1>3, <1>4 DEF Contents

\* In every behaviour a packet carries nothing, or what the one source on its route
\* recorded, at every switch and in every phase of the initialization of each.
THEOREM ContentsAlways ==
  ASSUME OneSource
  PROVE  Spec => [](Placed /\ Contents)
<1>1. Init => Placed /\ Contents
  BY PlacedInit, ContentsInit
<1>2. Placed /\ Contents /\ [Next]_vars => Placed' /\ Contents'
  BY PlacedStep, ContentsStep
<1> QED
  BY <1>1, <1>2, PTL DEF Spec

\* The length fields of such a packet are those of what it carries.
LEMMA CarriedLengths ==
  ASSUME NEW f \in Flow, NEW at, NEW trail, NEW pkt, Carries(f, at, trail, pkt)
  PROVE  pkt.extra = ActualExtra(pkt)
<1>1. Dest[f] \in As
  BY FlowAssumption
<1>2. CASE pkt = HostPacket(Dest[f])
  <2>1. pkt.int = None /\ pkt.body = Payload /\ pkt.extra = 0
    BY <1>1, <1>2, HostPacketFields
  <2> QED
    BY <2>1, PayloadType DEF ActualExtra
<1>3. ASSUME NEW own \in Stack, NEW bits \in Bitmap, pkt = IntPacket(Dest[f], own, bits)
      PROVE  pkt.extra = ActualExtra(pkt)
  <2>1. PICK k \in 0 .. 20 : k = Len(own)
    BY DEF Stack
  <2>2. pkt.int # None /\ Len(pkt.body) = k + 1 /\ pkt.extra = 16 + 4 * k
    BY <1>1, <1>3, <2>1, IntPacketFields
  <2>3. 16 + 4 * ((k + 1) - 1) = 16 + 4 * k
    OBVIOUS
  <2> QED
    BY <2>2, <2>3, PayloadType DEF ActualExtra
<1> QED
  BY <1>2, <1>3 DEF Carries, Untouched, Cleared, Tagged

\* LengthsConsistent: int_refresh_length and delete_int, on all routes with one source,
\* keep the length fields of UDP, SCION and IP equal to what the packet carries.
THEOREM LengthsAlwaysConsistent ==
  ASSUME OneSource
  PROVE  Spec => []LengthsConsistent
<1>1. Placed /\ Contents => LengthsConsistent
  <2> SUFFICES ASSUME Placed, Contents, NEW w \in wire \cup delivered
               PROVE  w.pkt.extra = ActualExtra(w.pkt)
    BY DEF LengthsConsistent
  <2>1. w.flow \in Flow
    BY DEF Placed, ItemsOK, MovingOK, Moving
  <2>2. Carries(w.flow, w.at, w.trail, w.pkt)
    BY DEF Contents
  <2> QED
    BY <2>1, <2>2, CarriedLengths
<1> QED
  BY <1>1, ContentsAlways, PTL

\* Intact: whatever switches start up or are taken over meanwhile, the application gets
\* its packet, at worst with an INT header that can be taken off.
THEOREM DeliveredIntact ==
  ASSUME OneSource
  PROVE  Spec => []Intact
<1>1. Placed /\ Contents => Intact
  <2> SUFFICES ASSUME Placed, Contents, NEW w \in delivered
               PROVE  (IF w.pkt.int = None THEN w.pkt ELSE DeleteInt(Parse(w.pkt)))
                        = HostPacket(Dest[w.flow])
    BY DEF Intact
  <2>1. w.flow \in Flow /\ Dest[w.flow] \in As
    BY FlowAssumption DEF Placed, ItemsOK, MovingOK, Moving
  <2>2. Carries(w.flow, w.at, w.trail, w.pkt)
    BY DEF Contents
  <2>3. CASE w.pkt = HostPacket(Dest[w.flow])
    BY <2>1, <2>3, HostPacketFields
  <2>4. ASSUME NEW own \in Stack, NEW bits \in Bitmap,
               w.pkt = IntPacket(Dest[w.flow], own, bits)
        PROVE  w.pkt.int # None /\ DeleteInt(Parse(w.pkt)) = HostPacket(Dest[w.flow])
    <3>1. PICK b \in BOOLEAN : TRUE
      OBVIOUS
    <3>2. w.pkt.int # None
      BY <2>1, <2>4, IntPacketFields
    <3>3. DeleteInt(Parse(IntPacket(Dest[w.flow], own, bits))) = HostPacket(Dest[w.flow])
      BY <2>1, SinkInt
    <3> QED
      BY <2>4, <3>2, <3>3
  <2> QED
    BY <2>2, <2>3, <2>4 DEF Carries, Untouched, Cleared, Tagged
<1> QED
  BY <1>1, ContentsAlways, PTL

\* Transparent: with a sink behind each source and all switches initialized, INT data
\* never reaches an application.
THEOREM DeliveredTransparent ==
  ASSUME OneSource, SinkFollows, Steady
  PROVE  Spec => []Transparent
<1>1. Placed /\ Contents => Transparent
  <2> SUFFICES ASSUME Placed, Contents, NEW w \in delivered
               PROVE  w.pkt = HostPacket(Dest[w.flow])
    BY DEF Transparent
  <2>1. w.flow \in Flow /\ w.at \in 1 .. Len(Route[w.flow]) + 1
    BY DEF Placed, ItemsOK, MovingOK, Moving
  <2>2. Carries(w.flow, w.at, w.trail, w.pkt) /\ AtHost(w)
    BY DEF Contents
  <2>3. w.at = Len(Route[w.flow]) + 1 /\ Len(Route[w.flow]) \in Nat
    BY <2>1, <2>2, RouteType DEF AtHost
  <2>4. ASSUME Tagged(w.flow, w.at, w.trail, w.pkt) PROVE FALSE
    <3>1. PICK i \in 1 .. w.at - 1 :
            IsSource(w.flow, i) /\ \A j \in i + 1 .. w.at - 1 : ~IsSink(w.flow, j)
      BY <2>4 DEF Tagged
    <3>2. i \in 1 .. Len(Route[w.flow]) /\ w.at - 1 = Len(Route[w.flow])
      BY <2>3
    <3> QED
      BY <2>1, <3>1, <3>2 DEF SinkFollows
  <2> QED
    BY <2>2, <2>4 DEF Carries, Untouched, Cleared
<1> QED
  BY <1>1, ContentsAlways, PTL

-----------------------------------------------------------------------------
(* What is in a report.                                                        *)

ReportTells(r) ==
  \E n \in Ctrl, own \in Stack, bits \in Bitmap :
    /\ Records(n, own, bits) /\ r.trail = <<n>> /\ r.bits = bits /\ r.id \in Nat
    /\ Len(r.hops) = 1
    /\ own = StackOf(n, bits) => r.hops[1] = [f \in bits |-> FieldWords(n, f)]

\* The loop over the fields finds each where the deparser put it.
LEMMA FieldRead ==
  ASSUME NEW n \in Ctrl, NEW bits \in Bitmap, NEW f \in bits, NEW pkt,
         pkt.int.bits = bits, pkt.body = StackOf(n, bits)
  PROVE  ReadField(pkt, 1, f) = FieldWords(n, f)
<1> DEFINE before == Len(Upto(None, bits, Position(f) - 1))
           own == StackOf(n, bits)
<1>1. bits \in SUBSET Field
  BY BitmapAssumption
<1>2. /\ before \in Nat /\ before + Width(f) <= Len(own)
      /\ \A k \in 1 .. Width(f) : own[before + k] = FieldWords(n, f)[k]
  BY <1>1, StackField
<1>3. OffsetOf(pkt, f) = before
  BY DEF OffsetOf, Upto
<1>4. HopWords(pkt) \in Nat
  <2>1. None \in Ctrl \cup {None}
    OBVIOUS
  <2>2. Len(StackOf(None, bits)) \in 0 .. 20
    BY <2>1, StackType
  <2> QED
    BY <2>2 DEF HopWords
<1>5. Width(f) \in Nat /\ Len(own) \in Nat
  <2>1. Width(f) \in 1 .. 2
    BY WidthType
  <2>2. Len(own) \in 0 .. 20
    BY StackType
  <2> QED
    BY <2>1, <2>2
<1> HIDE DEF before, own
<1>6. (1 - 1) * HopWords(pkt) + OffsetOf(pkt, f) = before
  BY <1>2, <1>3, <1>4
<1>7. ASSUME NEW k \in 1 .. Width(f)
      PROVE  WordAt(pkt, before + k) = FieldWords(n, f)[k]
  <2>1. before + k <= Len(own)
    BY <1>2, <1>5
  <2>2. pkt.body = own
    BY DEF own
  <2> QED
    BY <1>2, <2>1, <2>2 DEF WordAt
<1>8. ReadField(pkt, 1, f) = [k \in 1 .. Width(f) |-> WordAt(pkt, before + k)]
  BY <1>6 DEF ReadField
<1>9. FieldWords(n, f) = [k \in 1 .. Width(f) |-> FieldWords(n, f)[k]]
  BY DEF FieldWords
<1> QED
  BY <1>7, <1>8, <1>9

\* One hop: the size of the stack is that of a hop.
LEMMA DivideSelf == \A k \in 1 .. 20 : k \div k = 1
  OBVIOUS

\* What handlePacketIn reads of a message is what the source recorded.
LEMMA HopsRead ==
  ASSUME NEW n \in Ctrl, NEW own \in Stack, NEW bits \in Bitmap, NEW pkt,
         pkt.int = Headers(Len(own), AppPort, bits), ~DividesByZero(pkt), 
         Len(own) # 0 => pkt.body = own
  PROVE  /\ Len(Hops(pkt)) = 1 /\ pkt.int.bits = bits
         /\ own = StackOf(n, bits) => Hops(pkt)[1] = [f \in bits |-> FieldWords(n, f)]
<1>1. PICK k \in 0 .. 20 : k = Len(own)
  BY DEF Stack
<1>2. pkt.int.length = 3 + k /\ pkt.int.hopML = k /\ pkt.int.bits = bits
  BY <1>1 DEF Headers
<1>3. StackSize(pkt) = k /\ HopSize(pkt) = k /\ k \in 1 .. 20
  BY <1>2 DEF StackSize, HopSize, DividesByZero
<1>4. StackSize(pkt) \div HopSize(pkt) = 1
  BY <1>3, DivideSelf
<1>5. Hops(pkt) = [hop \in 1 .. 1 |-> [f \in bits |-> ReadField(pkt, hop, f)]]
  BY <1>2, <1>4 DEF Hops
<1>6. Len(Hops(pkt)) = 1 /\ Hops(pkt)[1] = [f \in bits |-> ReadField(pkt, 1, f)]
  BY <1>5
<1>7. ASSUME own = StackOf(n, bits), NEW f \in bits
      PROVE  ReadField(pkt, 1, f) = FieldWords(n, f)
  BY <1>1, <1>2, <1>3, <1>7, FieldRead
<1> QED
  BY <1>2, <1>6, <1>7

\* There are no reports at first.
LEMMA ReportsInit == Init => \A r \in reports : ReportTells(r)
  BY DEF Init

\* The message that the event loop takes.
LEMMA HandledMessage ==
  ASSUME Placed, Contents, NEW n \in Ctrl, Handles(n)
  PROVE  /\ Head(packetIn[n]) = packetIn[n][1] /\ 1 \in 1 .. Len(packetIn[n])
         /\ Head(packetIn[n]) \in Message
         /\ Tells(Head(packetIn[n]).trail, Head(packetIn[n]).pkt)
<1>1. PICK q \in Seq(Message) : q = packetIn[n]
  BY DEF Placed, ItemsOK
<1>2. Head(q) = q[1] /\ 1 \in 1 .. Len(q)
  BY <1>1, QueueElements DEF Handles
<1>3. q[1] \in Message
  BY <1>2
<1> QED
  BY <1>1, <1>2, <1>3 DEF Contents

\* Every step keeps the reports in order.
LEMMA ReportsStep ==
  ASSUME Placed, Contents, \A r \in reports : ReportTells(r), [Next]_vars
  PROVE  \A r \in reports' : ReportTells(r)
<1>1. CASE UNCHANGED reports
  BY <1>1
<1>2. ASSUME NEW c \in Ctrl, HandlePacketIn(c) PROVE \A r \in reports' : ReportTells(r)
  <2> DEFINE msg == Head(packetIn[c])
             x == [id |-> msg.id, by |-> c, trail |-> msg.trail,
                   bits |-> msg.pkt.int.bits, hops |-> Hops(msg.pkt)]
  <2>1. Handles(c) /\ ~DividesByZero(msg.pkt) /\ reports' \subseteq reports \cup {x}
    BY <1>2 DEF HandlePacketIn
  <2>2. msg \in Message /\ Tells(msg.trail, msg.pkt)
    BY <2>1, HandledMessage
  <2> HIDE DEF msg
  <2>3. PICK n \in Ctrl, own \in Stack, bits \in Bitmap :
          /\ Records(n, own, bits) /\ msg.trail = <<n>>
          /\ msg.pkt.int = Headers(Len(own), AppPort, bits)
          /\ Len(own) # 0 => msg.pkt.body = own
    BY <2>2 DEF Tells
  <2>4. /\ Len(Hops(msg.pkt)) = 1 /\ msg.pkt.int.bits = bits
        /\ own = StackOf(n, bits) => Hops(msg.pkt)[1] = [f \in bits |-> FieldWords(n, f)]
    BY <2>1, <2>3, HopsRead
  <2>5. msg.id \in Nat
    BY <2>2 DEF Message
  <2>6. ReportTells(x)
    BY <2>3, <2>4, <2>5 DEF ReportTells
  <2> HIDE DEF x
  <2> QED
    BY <2>1, <2>6
<1> QED
  BY <1>1, <1>2 DEF Next, vars, InitStep, Takeover, ControllerDies, Send, IngressStep,
                    Deliver, EgressPacketStep, EgressClone

ReportsOK == \A r \in reports : ReportTells(r)

\* In every behaviour a report has one hop, with the data of the source on the route.
THEOREM ReportsAlways ==
  ASSUME OneSource
  PROVE  Spec => [](Placed /\ Contents /\ ReportsOK)
<1>1. Init => Placed /\ Contents /\ ReportsOK
  BY PlacedInit, ContentsInit, ReportsInit DEF ReportsOK
<1>2. Placed /\ Contents /\ ReportsOK /\ [Next]_vars => Placed' /\ Contents' /\ ReportsOK'
  BY PlacedStep, ContentsStep, ReportsStep DEF ReportsOK
<1> QED
  BY <1>1, <1>2, PTL DEF Spec

\* ReportsFaithful: with all switches initialized and bitmaps that ask for fields which
\* some table fills in, each report has for each field what the source recorded.
THEOREM ReportsAlwaysFaithful ==
  ASSUME OneSource, AsksRecordable, Steady
  PROVE  Spec => []ReportsFaithful
<1>1. ReportsOK => ReportsFaithful
  <2> SUFFICES ASSUME ReportsOK, NEW r \in reports
               PROVE  /\ Len(r.hops) = Len(r.trail)
                      /\ \A i \in 1 .. Len(r.hops) :
                           r.hops[i] = [f \in r.bits |-> FieldWords(r.trail[i], f)]
    BY DEF ReportsFaithful
  <2>1. PICK n \in Ctrl, own \in Stack, bits \in Bitmap :
          /\ Records(n, own, bits) /\ r.trail = <<n>> /\ r.bits = bits
          /\ Len(r.hops) = 1
          /\ own = StackOf(n, bits) => r.hops[1] = [f \in bits |-> FieldWords(n, f)]
    BY DEF ReportsOK, ReportTells
  <2>2. own = StackOf(n, bits \cap Recordable)
    BY <2>1 DEF Records
  <2>3. bits \subseteq Recordable
    BY <2>1 DEF Records, Asked, AsksRecordable
  <2>4. bits \cap Recordable = bits
    BY <2>3
  <2>5. own = StackOf(n, bits)
    BY <2>2, <2>4
  <2>6. r.hops[1] = [f \in bits |-> FieldWords(n, f)]
    BY <2>1, <2>5
  <2> QED
    BY <2>1, <2>6
<1> QED
  BY <1>1, ReportsAlways, PTL

-----------------------------------------------------------------------------
(* One report for a packet: there is at most one copy of its INT data on the   *)
(* way to a report, and none of it in the packet from then on.                 *)

Copied(id)   == \E s \in inside : CloneReachesCpu(s.p) /\ s.id = id
Told(id)     == \E n \in Ctrl : \E k \in 1 .. Len(packetIn[n]) : packetIn[n][k].id = id
Reported(id) == \E r \in reports : r.id = id
Spent(id)    == Copied(id) \/ Told(id) \/ Reported(id)

SingleCopy ==
  \A s, c \in inside : CloneReachesCpu(s.p) /\ CloneReachesCpu(c.p) /\ s.id = c.id => s = c

SingleMessage ==
  \A n, m \in Ctrl : \A k \in 1 .. Len(packetIn[n]), l \in 1 .. Len(packetIn[m]) :
    packetIn[n][k].id = packetIn[m][l].id => n = m /\ k = l

SingleReport == \A r, q \in reports : r.id = q.id => r = q

OneForm ==
  \A id \in Nat : /\ ~(Copied(id) /\ Told(id))
                  /\ ~(Copied(id) /\ Reported(id))
                  /\ ~(Told(id) /\ Reported(id))

SpentGone ==
  /\ \A id \in Nat : Spent(id) => id < sent
  /\ \A w \in wire \cup delivered : Spent(w.id) => w.trail # <<>> /\ w.pkt.int = None
  /\ \A s \in inside : Spent(s.id) /\ ~s.p.clone =>
       s.trail # <<>> /\ (s.p.hdr.int = None \/ s.p.intState = 0)

Once == SingleCopy /\ SingleMessage /\ SingleReport /\ OneForm /\ SpentGone

\* Nothing is copied at first.
LEMMA OnceInit == Init => Once
<1> SUFFICES ASSUME Init PROVE Once
  OBVIOUS
<1>1. /\ wire = {} /\ delivered = {} /\ inside = {} /\ reports = {}
      /\ packetIn = [n \in Ctrl |-> <<>>]
  BY DEF Init
<1>2. \A n \in Ctrl : Len(packetIn[n]) = 0
  BY <1>1
<1>3. \A n \in Ctrl : \A k \in 1 .. Len(packetIn[n]) : FALSE
  BY <1>2
<1>4. \A id \in Nat : ~Copied(id) /\ ~Told(id) /\ ~Reported(id)
  BY <1>1, <1>3 DEF Copied, Told, Reported
<1> QED
  BY <1>1, <1>3, <1>4 DEF Once, SingleCopy, SingleMessage, SingleReport, OneForm, SpentGone, Spent

\* No INT data is left in a packet that had none, nor behind a sink.
LEMMA EgressClears ==
  ASSUME NEW p \in Parsed, Splits(p), p.hdr.int = None \/ p.intState = 0, NEW n, NEW t
  PROVE  EgressPacket(p, n, t).int = None
<1>1. p.intState \in 0 .. 2
  BY DEF Parsed
<1>2. CASE p.intState = 0 /\ p.hdr.int # None
  <2>1. EgressPacket(p, n, t) = Fields(p.hdr.dst, p.hdr.int.udpPort, None, p.rest,
                                       p.hdr.extra - (4 + 4 * p.hdr.int.length))
    BY <1>2, EgressDeletes
  <2> QED
    BY <2>1 DEF Fields
<1>3. CASE p.intState = 2 \/ (p.intState = 0 /\ p.hdr.int = None)
  <2>1. EgressPacket(p, n, t)
          = Fields(p.hdr.dst, p.hdr.port, p.hdr.int, p.pre \o p.rest, p.hdr.extra)
    BY <1>3, EgressForwards
  <2> QED
    BY <1>2, <1>3, <2>1 DEF Fields
<1>4. p.intState # 1
  BY DEF Splits
<1> QED
  BY <1>1, <1>2, <1>3, <1>4

\* Fewer copies, messages and reports.
LEMMA OnceFewer ==
  ASSUME Once, Placed, 
         inside' \subseteq inside, UNCHANGED <<packetIn, reports, sent>>,
         \A w \in wire' \cup delivered' :
           w \in wire \cup delivered \/ (Spent(w.id) => w.trail # <<>> /\ w.pkt.int = None)
  PROVE  Once'
<1>1. /\ \A id : Copied(id)' => Copied(id)
      /\ \A id : Told(id)' <=> Told(id)
      /\ \A id : Reported(id)' <=> Reported(id)
  BY DEF Copied, Told, Reported
<1>2. \A id : Spent(id)' => Spent(id)
  BY <1>1 DEF Spent
<1>3. SingleCopy' /\ SingleMessage' /\ SingleReport'
  BY DEF Once, SingleCopy, SingleMessage, SingleReport
<1>4. OneForm'
  BY <1>1 DEF Once, OneForm
<1>5. SpentGone'
  BY <1>2 DEF Once, SpentGone
<1> QED
  BY <1>3, <1>4, <1>5 DEF Once

\* A packet that ingress does not mark has no clone.
LEMMA UnmarkedAlone ==
  ASSUME NEW c \in Ctrl, NEW s, NEW t, TablesOf(t, c, s), NEW pkt \in Packet, StackFits(pkt),
         Parse(pkt) \in Ingress(pkt, t), NEW p \in Ingress(pkt, t)
  PROVE  ~p.clone
<1>1. pkt.dst \in As
  BY DEF Packet
<1>2. Parse(pkt).intState = 2 /\ ~Parse(pkt).clone
  BY ParseType
<1>3. \A b \in BOOLEAN : Marked(pkt, b).intState = 0
  BY MarkedType
<1>4. Ingress(pkt, t) # AtSink(pkt, t)
  <2>1. ASSUME NEW q \in AtSink(pkt, t) PROVE q.intState = 0
    <3>1. \E b \in BOOLEAN : q = Marked(pkt, b)
      BY DEF AtSink
    <3> QED
      BY <1>3, <3>1
  <2> QED
    BY <1>2, <2>1
<1>5. ASSUME NEW j \in 1 .. Len(IntTable[c])
      PROVE  Ingress(pkt, t) # {InsertIntHeader(Parse(pkt), IntTable[c][j].bits)}
  <2>1. IntTable[c][j].bits \in Bitmap
    BY LineType DEF IntTableLine
  <2>2. InsertIntHeader(Parse(pkt), IntTable[c][j].bits).intState = 1
    BY <2>1, ParseType, InsertType
  <2> QED
    BY <1>2, <2>2
<1>6. Ingress(pkt, t) = {Parse(pkt)}
  BY <1>1, <1>4, <1>5, IngressCases
<1> QED
  BY <1>2, <1>6

\* Ingress makes the only copy, of a packet that has INT data and thus was not copied yet.
LEMMA OnceIngress ==
  ASSUME OneSource, Placed, Contents, Once, NEW w \in wire, IngressStep(w)
  PROVE  Once'
<1> DEFINE I == Ingress(w.pkt, Tables(Node(w)))
           held(p) == [id |-> w.id, flow |-> w.flow, at |-> w.at, trail |-> w.trail, p |-> p]
           new == {held(p) : p \in I}
<1>1. /\ wire' = wire \ {w} /\ inside' \subseteq inside \cup new /\ ~AtHost(w)
      /\ UNCHANGED <<delivered, packetIn, reports, sent>>
  BY DEF IngressStep
<1>2. /\ w.flow \in Flow /\ w.pkt \in Packet /\ StackFits(w.pkt) /\ w.id \in Nat /\ w.id < sent
      /\ w.at \in 1 .. Len(Route[w.flow])
  BY <1>1, RouteType DEF Placed, ItemsOK, MovingOK, Moving, AtHost
<1>3. Carries(w.flow, w.at, w.trail, w.pkt)
  BY DEF Contents
<1>4. ASSUME NEW p \in I
      PROVE  \/ p = Parse(w.pkt) \/ p \in {Marked(w.pkt, FALSE), Marked(w.pkt, TRUE)}
             \/ \E bits \in Bitmap : IsSource(w.flow, w.at)
                                     /\ p = InsertIntHeader(Parse(w.pkt), bits)
  <2>1. Holds(w.flow, w.at, p, w.pkt)
    BY <1>1, ContentsEntering
  <2>2. \A b \in BOOLEAN : Marked(w.pkt, b) \in {Marked(w.pkt, FALSE), Marked(w.pkt, TRUE)}
    OBVIOUS
  <2> HIDE DEF I
  <2> QED
    BY <2>1, <2>2 DEF Holds, Asked
<1>21. Parse(w.pkt) \in I => \A p \in I : ~p.clone
  <2>1. Node(w) \in Ctrl
    BY <1>2, RouteType DEF Node
  <2> QED
    BY <1>2, <2>1, SteadyTables, UnmarkedAlone
<1> HIDE DEF I
<1>5. /\ Parse(w.pkt) \in Parsed /\ Splits(Parse(w.pkt)) /\ Parse(w.pkt).hdr = w.pkt
      /\ ~Parse(w.pkt).clone
  BY <1>2, ParseType
<1>6. /\ Marked(w.pkt, FALSE).hdr = w.pkt /\ Marked(w.pkt, TRUE).hdr = w.pkt
      /\ ~Marked(w.pkt, FALSE).clone /\ Marked(w.pkt, FALSE).intState = 0
      /\ Marked(w.pkt, TRUE).clone
  BY <1>2, MarkedType
<1>7. \A bits \in Bitmap : ~InsertIntHeader(Parse(w.pkt), bits).clone
  <2>1. \A bits \in Bitmap : InsertIntHeader(Parse(w.pkt), bits).clone = Parse(w.pkt).clone
    BY <1>5, InsertType
  <2> QED
    BY <1>5, <2>1
\* The only copy is the marked packet, and only when there is INT data in it.
<1>8. ASSUME NEW p \in I, CloneReachesCpu(p)
      PROVE  p = Marked(w.pkt, TRUE) /\ w.pkt.int # None
  <2>1. p.clone /\ p.hdr.int # None
    BY <1>8 DEF CloneReachesCpu
  <2>2. p = Marked(w.pkt, TRUE)
    BY <1>4, <1>5, <1>6, <1>7, <2>1
  <2> QED
    BY <1>6, <2>1, <2>2
<1>9. w.pkt.int # None => ~Spent(w.id) /\ w.trail # <<>>
  <2>1. w.pkt.int # None => ~Spent(w.id)
    BY DEF Once, SpentGone
  <2>2. ASSUME w.pkt.int # None PROVE w.trail # <<>>
    <3>1. Tagged(w.flow, w.at, w.trail, w.pkt)
      BY <1>2, <1>3, <2>2, RouteType, HostPacketFields DEF Carries, Untouched, Cleared
    <3> QED
      BY <3>1 DEF Tagged
  <2> QED
    BY <2>1, <2>2
<1>10. \A s \in new : s.id = w.id /\ s.trail = w.trail /\ s.p \in I
  OBVIOUS
<1>11. \A s, r \in new : s.p = r.p => s = r
  OBVIOUS
<1> HIDE DEF new
<1>12. \A s, c \in new : CloneReachesCpu(s.p) /\ CloneReachesCpu(c.p) => s = c
  BY <1>8, <1>10, <1>11
<1>13. \A s \in new : CloneReachesCpu(s.p) => ~Spent(w.id) /\ w.pkt.int # None
  BY <1>8, <1>9, <1>10
<1>14. /\ \A id : Copied(id)' => Copied(id) \/ (id = w.id /\ ~Spent(w.id) /\ w.pkt.int # None)
       /\ \A id : Told(id)' <=> Told(id)
       /\ \A id : Reported(id)' <=> Reported(id)
  BY <1>1, <1>10, <1>13 DEF Copied, Told, Reported
<1>15. SingleCopy'
  <2>1. ASSUME NEW s \in inside, NEW c \in new, CloneReachesCpu(s.p), CloneReachesCpu(c.p)
        PROVE  s.id # c.id
    BY <1>10, <1>13, <2>1 DEF Spent, Copied
  <2>2. \A s, c \in inside : CloneReachesCpu(s.p) /\ CloneReachesCpu(c.p) /\ s.id = c.id => s = c
    BY DEF Once, SingleCopy
  <2> QED
    BY <1>1, <1>12, <2>1, <2>2 DEF SingleCopy
<1>16. SingleMessage' /\ SingleReport'
  BY <1>1 DEF Once, SingleMessage, SingleReport
<1>17. OneForm'
  BY <1>14 DEF Once, OneForm, Spent
<1>18. \A id : Spent(id)' => Spent(id) \/ (id = w.id /\ w.pkt.int # None)
  BY <1>14 DEF Spent
<1>19. SpentGone'
  <2>1. \A id \in Nat : Spent(id)' => id < sent'
    BY <1>1, <1>2, <1>18 DEF Once, SpentGone
  <2>2. ASSUME NEW v \in wire' \cup delivered', Spent(v.id)'
        PROVE  v.trail # <<>> /\ v.pkt.int = None
    <3>1. v \in wire \cup delivered /\ v.id # w.id
      BY <1>1 DEF Placed, InOnePlace
    <3> QED
      BY <1>18, <2>2, <3>1 DEF Once, SpentGone
  <2>3. ASSUME NEW s \in inside', Spent(s.id)', ~s.p.clone
        PROVE  s.trail # <<>> /\ (s.p.hdr.int = None \/ s.p.intState = 0)
    <3>1. CASE s \in inside
      <4>1. s.id # w.id
        BY <2>3, <3>1 DEF Placed, InOnePlace
      <4> QED
        BY <1>18, <2>3, <3>1, <4>1 DEF Once, SpentGone
    <3>2. CASE s \in new
      <4>1. s.id = w.id /\ s.trail = w.trail /\ s.p \in I
        BY <1>10, <3>2
      <4>2. w.trail # <<>>
        <5>1. Spent(w.id) => w.trail # <<>>
          BY DEF Once, SpentGone
        <5> QED
          BY <1>9, <1>18, <2>3, <4>1, <5>1
      <4>3. s.p = Parse(w.pkt) => w.pkt.int = None
        <5>1. ASSUME s.p = Parse(w.pkt), w.pkt.int # None PROVE FALSE
          <6>1. ~Spent(w.id)
            BY <1>9, <5>1
          <6>2. \A r \in new : ~r.p.clone
            BY <1>10, <1>21, <4>1, <5>1
          <6>3. Copied(w.id)' => Copied(w.id)
            BY <1>1, <6>2 DEF Copied, CloneReachesCpu
          <6>4. ~Spent(w.id)'
            BY <1>14, <6>1, <6>3 DEF Spent
          <6> QED
            BY <2>3, <4>1, <6>4
        <5> QED
          BY <5>1
      <4>4. ~(\E bits \in Bitmap : IsSource(w.flow, w.at)
                                   /\ s.p = InsertIntHeader(Parse(w.pkt), bits))
        BY <1>2, <1>3, <4>2, SourceFirst
      <4>5. s.p = Parse(w.pkt) \/ s.p = Marked(w.pkt, FALSE)
        BY <1>4, <1>6, <2>3, <4>1, <4>4
      <4> QED
        BY <1>5, <1>6, <4>1, <4>2, <4>3, <4>5
    <3> QED
      BY <1>1, <3>1, <3>2
  <2> QED
    BY <2>1, <2>2, <2>3 DEF SpentGone
<1> QED
  BY <1>15, <1>16, <1>17, <1>19 DEF Once

\* A new packet has a number that no report has.
LEMMA OnceSend ==
  ASSUME Placed, Once, NEW f \in Flow, Send(f)
  PROVE  Once'
<1> DEFINE x == [id |-> sent, flow |-> f, at |-> 1, trail |-> <<>>,
                 pkt |-> HostPacket(Dest[f])]
<1>1. /\ wire' = wire \cup {x} /\ sent' = sent + 1 /\ x.id = sent
      /\ UNCHANGED <<inside, delivered, packetIn, reports>>
  BY DEF Send
<1> HIDE DEF x
<1>2. sent \in Nat
  BY FlowAssumption DEF Placed, ControllersOK
<1>3. \A id : Spent(id)' <=> Spent(id)
  BY <1>1 DEF Spent, Copied, Told, Reported
<1>4. SingleCopy' /\ SingleMessage' /\ SingleReport'
  BY <1>1 DEF Once, SingleCopy, SingleMessage, SingleReport
<1>5. OneForm'
  BY <1>1 DEF Once, OneForm, Copied, Told, Reported
<1>6. ~Spent(x.id)
  BY <1>1, <1>2 DEF Once, SpentGone
<1>7. \A id \in Nat : Spent(id)' => id < sent'
  BY <1>1, <1>2, <1>3 DEF Once, SpentGone
<1>8. SpentGone'
  BY <1>1, <1>3, <1>6, <1>7 DEF Once, SpentGone
<1> QED
  BY <1>4, <1>5, <1>8 DEF Once

\* A packet that was copied leaves without INT data.
LEMMA OnceEgress ==
  ASSUME Placed, Once, NEW s \in inside, EgressPacketStep(s)
  PROVE  Once'
<1> DEFINE x == [id |-> s.id, flow |-> s.flow, at |-> s.at + 1,
                 trail |-> IF s.p.intState = 1 THEN Append(s.trail, Node(s)) ELSE s.trail,
                 pkt |-> EgressPacket(s.p, Node(s), Tables(Node(s)))]
<1>1. /\ wire' = wire \cup {x} /\ inside' = inside \ {s} /\ ~s.p.clone
      /\ UNCHANGED <<delivered, packetIn, reports, sent>>
  BY DEF EgressPacketStep
<1>2. /\ s.p \in Parsed /\ Splits(s.p) /\ s.trail \in Seq(Ctrl)
      /\ s.flow \in Flow /\ s.at \in 1 .. Len(Route[s.flow])
  BY DEF Placed, ItemsOK, EnteringOK, Entering
<1>3. Node(s) \in Ctrl
  BY <1>2, RouteType DEF Node
<1>4. ASSUME Spent(s.id) PROVE x.trail # <<>> /\ x.pkt.int = None
  <2>1. s.trail # <<>> /\ (s.p.hdr.int = None \/ s.p.intState = 0)
    BY <1>1, <1>4 DEF Once, SpentGone
  <2>2. Append(s.trail, Node(s)) # <<>>
    BY <1>2, <1>3
  <2>3. EgressPacket(s.p, Node(s), Tables(Node(s))).int = None
    BY <1>2, <2>1, EgressClears
  <2> QED
    BY <2>1, <2>2, <2>3
<1>5. x.id = s.id
  OBVIOUS
<1> HIDE DEF x
<1>6. \A w \in wire' \cup delivered' :
        w \in wire \cup delivered \/ (Spent(w.id) => w.trail # <<>> /\ w.pkt.int = None)
  BY <1>1, <1>4, <1>5
<1> QED
  BY <1>1, <1>6, OnceFewer

\* A copy becomes a message, or nothing.
LEMMA OnceClone ==
  ASSUME Placed, Once, NEW s \in inside, EgressClone(s)
  PROVE  Once'
<1> DEFINE m == [id |-> s.id, trail |-> s.trail, pkt |-> KeepIntCpu(s.p)]
           c == Node(s)
<1>1. /\ inside' = inside \ {s} /\ UNCHANGED <<wire, delivered, reports, sent>>
      /\ \/ packetIn' = packetIn
         \/ packetIn' = [packetIn EXCEPT ![c] = Append(@, m)] /\ CloneReachesCpu(s.p)
  BY DEF EgressClone
<1>2. /\ s \in Entering /\ s.p \in Parsed /\ s.at \in 1 .. Len(Route[s.flow])
      /\ s.flow \in Flow /\ s.id \in Nat
  BY DEF Placed, ItemsOK, EnteringOK, Entering
<1>3. m \in Message /\ m.id = s.id
  BY <1>2, KeepType DEF Message, Entering
<1>4. c \in Ctrl
  BY <1>2, RouteType DEF Node
<1> HIDE DEF m, c
<1>5. CASE packetIn' = packetIn
  BY <1>1, <1>5, OnceFewer
<1>6. CASE packetIn' = [packetIn EXCEPT ![c] = Append(@, m)] /\ CloneReachesCpu(s.p)
  <2>1. packetIn \in [Ctrl -> Seq(Message)]
    BY DEF Placed, ItemsOK
  <2>2. PICK q \in Seq(Message) : q = packetIn[c]
    BY <1>4, <2>1
  <2>3. /\ Len(Append(q, m)) = Len(q) + 1 /\ Append(q, m)[Len(q) + 1] = m
        /\ \A k \in 1 .. Len(q) : Append(q, m)[k] = q[k]
        /\ \A k \in 1 .. Len(q) + 1 : k \in 1 .. Len(q) \/ k = Len(q) + 1
    BY <1>3, QueueElements
  <2>4. packetIn'[c] = Append(q, m) /\ \A n \in Ctrl \ {c} : packetIn'[n] = packetIn[n]
    BY <1>4, <1>6, <2>1, <2>2
  \* A message is an old one or the last of c's.
  <2>5. ASSUME NEW n \in Ctrl, NEW k \in 1 .. Len(packetIn'[n])
        PROVE  \/ k \in 1 .. Len(packetIn[n]) /\ packetIn'[n][k] = packetIn[n][k]
               \/ n = c /\ k = Len(q) + 1 /\ packetIn'[n][k] = m
    <3>1. CASE n = c
      BY <2>2, <2>3, <2>4, <3>1
    <3>2. CASE n # c
      BY <2>4, <3>2
    <3> QED
      BY <3>1, <3>2
  <2>6. Copied(s.id) /\ ~Told(s.id) /\ ~Reported(s.id)
    BY <1>2, <1>6 DEF Once, OneForm, Copied
  <2>7. /\ \A id : Copied(id)' => Copied(id) /\ id # s.id
        /\ \A id : Told(id)' => Told(id) \/ id = s.id
        /\ \A id : Reported(id)' <=> Reported(id)
    <3>1. \A id : Copied(id)' => Copied(id) /\ id # s.id
      BY <1>1, <1>6 DEF Once, SingleCopy, Copied
    <3>2. \A id : Told(id)' => Told(id) \/ id = s.id
      BY <1>3, <2>5 DEF Told
    <3> QED
      BY <1>1, <3>1, <3>2 DEF Reported
  <2>8. SingleCopy' /\ SingleReport'
    BY <1>1 DEF Once, SingleCopy, SingleReport
  <2>9. SingleMessage'
    <3>1. \A n \in Ctrl : \A k \in 1 .. Len(packetIn[n]) : packetIn[n][k].id # m.id
      BY <1>3, <2>6 DEF Told
    <3>2. \A n, o \in Ctrl : \A k \in 1 .. Len(packetIn[n]), l \in 1 .. Len(packetIn[o]) :
            packetIn[n][k].id = packetIn[o][l].id => n = o /\ k = l
      BY DEF Once, SingleMessage
    <3>3. ASSUME NEW n \in Ctrl, NEW o \in Ctrl, NEW k \in 1 .. Len(packetIn'[n]),
                 NEW l \in 1 .. Len(packetIn'[o]), packetIn'[n][k].id = packetIn'[o][l].id
          PROVE  n = o /\ k = l
      <4>1. \/ k \in 1 .. Len(packetIn[n]) /\ packetIn'[n][k] = packetIn[n][k]
            \/ n = c /\ k = Len(q) + 1 /\ packetIn'[n][k] = m
        BY <2>5
      <4>2. \/ l \in 1 .. Len(packetIn[o]) /\ packetIn'[o][l] = packetIn[o][l]
            \/ o = c /\ l = Len(q) + 1 /\ packetIn'[o][l] = m
        BY <2>5
      <4>3. CASE k \in 1 .. Len(packetIn[n]) /\ packetIn'[n][k] = packetIn[n][k]
                 /\ l \in 1 .. Len(packetIn[o]) /\ packetIn'[o][l] = packetIn[o][l]
        BY <3>2, <3>3, <4>3
      <4> QED
        BY <3>1, <3>3, <4>1, <4>2, <4>3
    <3> QED
      BY <3>3 DEF SingleMessage
  <2>10. OneForm'
    BY <2>6, <2>7 DEF Once, OneForm
  <2>11. \A id : Spent(id)' => Spent(id)
    BY <2>6, <2>7 DEF Spent
  <2>12. SpentGone'
    BY <1>1, <2>11 DEF Once, SpentGone
  <2> QED
    BY <2>8, <2>9, <2>10, <2>12 DEF Once
<1> QED
  BY <1>1, <1>5, <1>6

\* A message becomes a report, or nothing.
LEMMA OnceHandled ==
  ASSUME Placed, Once, NEW c \in Ctrl, HandlePacketIn(c) \/ ControllerDies(c)
  PROVE  Once'
<1> DEFINE msg == Head(packetIn[c])
           x == [id |-> msg.id, by |-> c, trail |-> msg.trail,
                 bits |-> msg.pkt.int.bits, hops |-> Hops(msg.pkt)]
<1>1. /\ packetIn[c] # <<>> /\ packetIn' = [packetIn EXCEPT ![c] = Tail(@)]
      /\ UNCHANGED <<wire, delivered, inside, sent>>
      /\ reports' = reports \/ reports' = reports \cup {x}
  BY DEF HandlePacketIn, ControllerDies, Handles
<1>2. packetIn \in [Ctrl -> Seq(Message)]
  BY DEF Placed, ItemsOK
<1>3. PICK q \in Seq(Message) : q = packetIn[c]
  BY <1>2
<1>4. /\ Head(q) = q[1] /\ 1 \in 1 .. Len(q)
      /\ \A k \in 1 .. Len(Tail(q)) : k + 1 \in 2 .. Len(q) /\ Tail(q)[k] = q[k + 1]
  BY <1>1, <1>3, QueueElements
<1>5. packetIn'[c] = Tail(q) /\ \A n \in Ctrl \ {c} : packetIn'[n] = packetIn[n]
  BY <1>1, <1>2, <1>3
<1>6. msg = packetIn[c][1] /\ 1 \in 1 .. Len(packetIn[c]) /\ x.id = msg.id /\ msg.id \in Nat
  <2>1. q[1] \in Message
    BY <1>4
  <2> QED
    BY <1>3, <1>4, <2>1 DEF Message
<1> HIDE DEF msg, x
\* The messages left are those behind the first of c's.
<1> DEFINE Old(n, k) == IF n = c THEN k + 1 ELSE k
<1>7. ASSUME NEW n \in Ctrl, NEW k \in 1 .. Len(packetIn'[n])
      PROVE  /\ Old(n, k) \in 1 .. Len(packetIn[n])
             /\ packetIn'[n][k] = packetIn[n][Old(n, k)]
             /\ n = c => Old(n, k) # 1
  <2>1. CASE n = c
    <3>1. k + 1 \in 2 .. Len(q) /\ packetIn'[n][k] = q[k + 1]
      BY <1>4, <1>5, <2>1
    <3>2. k + 1 \in 1 .. Len(q) /\ k + 1 # 1
      BY <3>1
    <3> QED
      BY <1>3, <2>1, <3>1, <3>2
  <2>2. CASE n # c
    BY <1>5, <2>2
  <2> QED
    BY <2>1, <2>2
<1>8. \A n, o \in Ctrl : \A k \in 1 .. Len(packetIn[n]), l \in 1 .. Len(packetIn[o]) :
        packetIn[n][k].id = packetIn[o][l].id => n = o /\ k = l
  BY DEF Once, SingleMessage
<1>9. ASSUME NEW n \in Ctrl, NEW k \in 1 .. Len(packetIn'[n])
      PROVE  packetIn'[n][k].id # msg.id
  <2>1. /\ Old(n, k) \in 1 .. Len(packetIn[n]) /\ packetIn'[n][k] = packetIn[n][Old(n, k)]
        /\ n = c => Old(n, k) # 1
    BY <1>7
  <2> HIDE DEF Old
  <2> QED
    BY <1>6, <1>8, <2>1
<1>10. SingleMessage'
  <2>1. ASSUME NEW n \in Ctrl, NEW o \in Ctrl, NEW k \in 1 .. Len(packetIn'[n]),
               NEW l \in 1 .. Len(packetIn'[o]), packetIn'[n][k].id = packetIn'[o][l].id
        PROVE  n = o /\ k = l
    <3>1. /\ Old(n, k) \in 1 .. Len(packetIn[n]) /\ packetIn'[n][k] = packetIn[n][Old(n, k)]
          /\ Old(o, l) \in 1 .. Len(packetIn[o]) /\ packetIn'[o][l] = packetIn[o][Old(o, l)]
      BY <1>7
    <3> HIDE DEF Old
    <3>2. n = o /\ Old(n, k) = Old(o, l)
      BY <1>8, <2>1, <3>1
    <3> QED
      BY <3>2 DEF Old
  <2> QED
    BY <2>1 DEF SingleMessage
<1> HIDE DEF Old
<1>11. Told(msg.id) /\ ~Copied(msg.id) /\ ~Reported(msg.id)
  <2>1. Told(msg.id)
    BY <1>6 DEF Told
  <2> QED
    BY <1>6, <2>1 DEF Once, OneForm
<1>12. /\ \A id : Copied(id)' <=> Copied(id)
       /\ \A id : Told(id)' => Told(id) /\ id # msg.id
       /\ \A id : Reported(id)' => Reported(id) \/ id = msg.id
  <2>1. \A id : Told(id)' => Told(id) /\ id # msg.id
    BY <1>7, <1>9 DEF Told
  <2>2. \A id : Reported(id)' => Reported(id) \/ id = msg.id
    BY <1>1, <1>6 DEF Reported
  <2> QED
    BY <1>1, <2>1, <2>2 DEF Copied
<1>13. SingleCopy'
  BY <1>1 DEF Once, SingleCopy
<1>14. SingleReport'
  <2>1. \A r \in reports : r.id # x.id
    BY <1>6, <1>11 DEF Reported
  <2> QED
    BY <1>1, <2>1 DEF Once, SingleReport
<1>15. OneForm'
  BY <1>11, <1>12 DEF Once, OneForm
<1>16. \A id : Spent(id)' => Spent(id)
  BY <1>11, <1>12 DEF Spent
<1>17. SpentGone'
  BY <1>1, <1>16 DEF Once, SpentGone
<1> QED
  BY <1>10, <1>13, <1>14, <1>15, <1>17 DEF Once

\* Of the messages to the old controller some are never handled.
LEMMA OnceTakeover ==
  ASSUME Placed, Once, NEW c \in Ctrl, Takeover(c)
  PROVE  Once'
<1>1. UNCHANGED <<wire, delivered, inside, reports, sent>>
  BY DEF Takeover
<1>2. packetIn \in [Ctrl -> Seq(Message)]
  BY DEF Placed, ItemsOK
<1>3. ASSUME NEW n \in Ctrl, NEW k \in 1 .. Len(packetIn'[n])
      PROVE  k \in 1 .. Len(packetIn[n]) /\ packetIn'[n][k] = packetIn[n][k]
  BY <1>2, <1>3, TakeoverKeeps
<1>4. /\ \A id : Copied(id)' <=> Copied(id)
      /\ \A id : Told(id)' => Told(id)
      /\ \A id : Reported(id)' <=> Reported(id)
  <2>1. \A id : Told(id)' => Told(id)
    BY <1>3 DEF Told
  <2> QED
    BY <1>1, <2>1 DEF Copied, Reported
<1>5. SingleMessage'
  <2>1. \A n, o \in Ctrl : \A k \in 1 .. Len(packetIn[n]), l \in 1 .. Len(packetIn[o]) :
          packetIn[n][k].id = packetIn[o][l].id => n = o /\ k = l
    BY DEF Once, SingleMessage
  <2>2. ASSUME NEW n \in Ctrl, NEW o \in Ctrl, NEW k \in 1 .. Len(packetIn'[n]),
               NEW l \in 1 .. Len(packetIn'[o]), packetIn'[n][k].id = packetIn'[o][l].id
        PROVE  n = o /\ k = l
    <3>1. k \in 1 .. Len(packetIn[n]) /\ packetIn'[n][k] = packetIn[n][k]
      BY <1>3
    <3>2. l \in 1 .. Len(packetIn[o]) /\ packetIn'[o][l] = packetIn[o][l]
      BY <1>3
    <3> QED
      BY <2>1, <2>2, <3>1, <3>2
  <2> QED
    BY <2>2 DEF SingleMessage
<1>6. SingleCopy' /\ SingleReport'
  BY <1>1 DEF Once, SingleCopy, SingleReport
<1>7. OneForm'
  BY <1>4 DEF Once, OneForm
<1>8. SpentGone'
  BY <1>1, <1>4 DEF Once, SpentGone, Spent
<1> QED
  BY <1>5, <1>6, <1>7, <1>8 DEF Once

\* Once is inductive, given Contents.
LEMMA OnceStep ==
  ASSUME OneSource, Placed, Contents, Once, [Next]_vars
  PROVE  Once'
<1>1. CASE UNCHANGED <<wire, delivered, inside, packetIn, reports, sent>>
  BY <1>1, OnceFewer
<1>2. ASSUME NEW n \in Ctrl, InitStep(n) PROVE Once'
  BY <1>1, <1>2 DEF InitStep
<1>3. ASSUME NEW w \in wire, Deliver(w) PROVE Once'
  <2>1. /\ wire' \cup delivered' \subseteq wire \cup delivered
        /\ UNCHANGED <<inside, packetIn, reports, sent>>
    BY <1>3 DEF Deliver
  <2> QED
    BY <2>1, OnceFewer
<1> QED
  BY <1>1, <1>2, <1>3, OnceSend, OnceEgress, OnceClone, OnceHandled, OnceTakeover, OnceIngress
     DEF Next, vars

\* In every behaviour a packet has one copy, message or report at most.
THEOREM OnceAlways ==
  ASSUME OneSource
  PROVE  Spec => [](Placed /\ Contents /\ Once)
<1>1. Init => Placed /\ Contents /\ Once
  BY PlacedInit, ContentsInit, OnceInit
<1>2. Placed /\ Contents /\ Once /\ [Next]_vars => Placed' /\ Contents' /\ Once'
  BY PlacedStep, ContentsStep, OnceStep
<1> QED
  BY <1>1, <1>2, PTL DEF Spec

\* ReportedOnce: however many sinks a packet passes on a route with one source, it is
\* reported once.
THEOREM AlwaysReportedOnce ==
  ASSUME OneSource
  PROVE  Spec => []ReportedOnce
<1>1. Once /\ ReportsOK => ReportedOnce
  <2> SUFFICES ASSUME Once, ReportsOK PROVE ReportedOnce
    OBVIOUS
  <2>1. \A r, q \in reports : r.id = q.id => r = q
    BY DEF Once, SingleReport
  <2>2. ASSUME NEW r \in reports PROVE Len(r.hops) = Len(r.trail) /\ r.trail # <<>>
    <3>1. PICK n : r.trail = <<n>> /\ Len(r.hops) = 1
      BY DEF ReportsOK, ReportTells
    <3> QED
      BY <3>1
  <2> QED
    BY <2>1, <2>2 DEF ReportedOnce
<1> QED
  BY <1>1, OnceAlways, ReportsAlways, PTL
=============================================================================
