--------------------------- MODULE SequenceLemmas ---------------------------
(* Sequences and the sets of their elements: what a queue holds when it grows *)
(* at its end and loses an element somewhere; and FlattenSeq, a recursion of   *)
(* the library: what is appended to it and where its parts are.               *)
EXTENDS Integers, SequencesExt, FiniteSetTheorems, TLAPS

\* A sequence has no more distinct elements than it is long.
LEMMA ToSetCardinality ==
  ASSUME NEW S, NEW s \in Seq(S)
  PROVE  /\ IsFiniteSet(ToSet(s)) /\ Cardinality(ToSet(s)) \in Nat
         /\ Cardinality(ToSet(s)) <= Len(s)
<1>1. Len(s) \in Nat /\ DOMAIN s = 1 .. Len(s)
  OBVIOUS
<1>2. s \in [1 .. Len(s) -> ToSet(s)]
  BY <1>1 DEF ToSet
<1>3. s \in Surjection(1 .. Len(s), ToSet(s))
  BY <1>1, <1>2 DEF Surjection, ToSet
<1>4. ExistsSurjection(1 .. Len(s), ToSet(s))
  BY <1>3 DEF ExistsSurjection
<1>5. IsFiniteSet(ToSet(s))
  BY <1>1, <1>4, FS_NatSurjection
<1>6. Cardinality(ToSet(s)) <= Len(s)
  BY <1>1, <1>4, FS_SurjCardinalityBound
<1> QED
  BY <1>5, <1>6, FS_CardinalityType

\* The elements when one is appended.
LEMMA ToSetAppend ==
  ASSUME NEW S, NEW s \in Seq(S), NEW e \in S
  PROVE  ToSet(Append(s, e)) = ToSet(s) \cup {e}
<1>1. /\ Len(s) \in Nat /\ DOMAIN s = 1 .. Len(s)
      /\ DOMAIN Append(s, e) = 1 .. Len(s) + 1
      /\ Append(s, e)[Len(s) + 1] = e
      /\ \A i \in 1 .. Len(s) : Append(s, e)[i] = s[i]
  OBVIOUS
<1> DEFINE a == Append(s, e)
<1> HIDE DEF a
<1>2. ASSUME NEW x \in ToSet(a) PROVE x \in ToSet(s) \cup {e}
  <2>1. PICK i \in 1 .. Len(s) + 1 : x = a[i]
    BY <1>1 DEF ToSet, a
  <2>2. i \in 1 .. Len(s) \/ i = Len(s) + 1
    BY <1>1
  <2> QED
    BY <1>1, <2>1, <2>2 DEF ToSet, a
<1>3. ASSUME NEW x \in ToSet(s) \cup {e} PROVE x \in ToSet(a)
  <2>1. CASE x = e
    BY <1>1, <2>1 DEF ToSet, a
  <2>2. CASE x \in ToSet(s)
    <3>1. PICK i \in 1 .. Len(s) : x = s[i]
      BY <1>1, <2>2 DEF ToSet
    <3>2. i \in 1 .. Len(s) + 1 /\ a[i] = s[i]
      BY <1>1 DEF a
    <3> QED
      BY <1>1, <3>1, <3>2 DEF ToSet, a
  <2> QED
    BY <2>1, <2>2
<1> QED
  BY <1>2, <1>3 DEF a

\* A queue without its i-th element has all the others.
LEMMA ToSetRemoveAt ==
  ASSUME NEW S, NEW s \in Seq(S), NEW i \in DOMAIN s
  PROVE  /\ RemoveAt(s, i) \in Seq(S) /\ Len(RemoveAt(s, i)) = Len(s) - 1
         /\ ToSet(RemoveAt(s, i)) \subseteq ToSet(s)
         /\ ToSet(s) \subseteq ToSet(RemoveAt(s, i)) \cup {s[i]}
<1>1. Len(s) \in Nat /\ DOMAIN s = 1 .. Len(s) /\ i \in 1 .. Len(s)
  OBVIOUS
<1> DEFINE left == SubSeq(s, 1, i - 1)
           right == SubSeq(s, i + 1, Len(s))
           r == left \o right
<1>2. /\ left \in Seq(S) /\ Len(left) = i - 1
      /\ \A j \in 1 .. i - 1 : left[j] = s[j]
  BY <1>1
<1>3. /\ right \in Seq(S) /\ Len(right) = Len(s) - i
      /\ \A j \in 1 .. Len(s) - i : right[j] = s[i + j]
  BY <1>1
<1>4. /\ r \in Seq(S) /\ Len(r) = Len(s) - 1
      /\ DOMAIN r = 1 .. Len(s) - 1
      /\ \A j \in 1 .. Len(s) - 1 : r[j] = IF j < i THEN s[j] ELSE s[j + 1]
  <2> HIDE DEF left, right
  <2>1. /\ r \in Seq(S) /\ Len(r) = Len(left) + Len(right)
        /\ DOMAIN r = 1 .. Len(r)
        /\ \A j \in 1 .. Len(left) + Len(right) :
             r[j] = IF j <= Len(left) THEN left[j] ELSE right[j - Len(left)]
    BY SMTT(30), <1>2, <1>3
  <2> HIDE DEF r
  <2>2. Len(r) = Len(s) - 1 /\ Len(left) = i - 1 /\ Len(left) + Len(right) = Len(s) - 1
    BY <1>1, <1>2, <1>3, <2>1
  <2>3. ASSUME NEW j \in 1 .. Len(s) - 1, j < i PROVE r[j] = s[j]
    BY <1>1, <1>2, <2>1, <2>2, <2>3
  <2>4. ASSUME NEW j \in 1 .. Len(s) - 1, ~(j < i) PROVE r[j] = s[j + 1]
    <3>1. r[j] = right[j - (i - 1)] /\ j - (i - 1) \in 1 .. Len(s) - i
      BY SMTT(30), <1>1, <2>1, <2>2, <2>4
    <3>2. i + (j - (i - 1)) = j + 1
      BY <1>1
    <3> QED
      BY <1>3, <3>1, <3>2
  <2> QED
    BY <2>1, <2>2, <2>3, <2>4
<1> HIDE DEF left, right, r
<1>6. ToSet(r) \subseteq ToSet(s)
  BY <1>1, <1>4 DEF ToSet
<1>7. ASSUME NEW x \in ToSet(s), x # s[i] PROVE x \in ToSet(r)
  <2>1. PICK j \in 1 .. Len(s) : x = s[j]
    BY <1>1 DEF ToSet
  <2>2. CASE j < i
    <3>1. j \in 1 .. Len(s) - 1 /\ r[j] = x
      BY <1>1, <1>4, <2>1, <2>2
    <3> QED
      BY <1>4, <3>1 DEF ToSet
  <2>3. CASE j > i
    <3>1. j - 1 \in 1 .. Len(s) - 1 /\ r[j - 1] = x
      BY <1>1, <1>4, <2>1, <2>3
    <3> QED
      BY <1>4, <3>1 DEF ToSet
  <2> QED
    BY <1>1, <1>7, <2>1, <2>2, <2>3
<1> QED
  BY <1>4, <1>6, <1>7 DEF RemoveAt, left, right, r
-----------------------------------------------------------------------------
(* The theorems of the library on induction take a predicate as a parameter;  *)
(* these take a set of numbers.                                               *)

\* A set of numbers has a least element.
LEMMA LeastNatural ==
  ASSUME NEW T \in SUBSET Nat, T # {}
  PROVE  \E n \in T : \A m \in T : n <= m
<1> DEFINE R == OpToRel(<, Nat)
<1>1. IsWellFoundedOn(R, Nat)
  BY NatLessThanWellFounded
<1>2. ASSUME NEW i \in Nat, NEW j \in Nat, i < j PROVE <<i, j>> \in R
  BY <1>2 DEF OpToRel
<1> HIDE DEF R
<1>3. PICK n \in T : \A m \in T : ~(<<m, n>> \in R)
  BY <1>1, WFMin
<1>4. ASSUME NEW m \in T PROVE n <= m
  <2>1. m \in Nat /\ n \in Nat
    OBVIOUS
  <2>2. ~(m < n)
    BY <1>2, <1>3, <2>1
  <2> QED
    BY <2>1, <2>2
<1> QED
  BY <1>4

\* Induction, for a set of numbers in place of a predicate.
LEMMA NatSetInduction ==
  ASSUME NEW T, 0 \in T, \A n \in Nat \ {0} : n - 1 \in T => n \in T
  PROVE  Nat \subseteq T
<1> SUFFICES ASSUME Nat \ T # {} PROVE FALSE
  OBVIOUS
<1>1. PICK n \in Nat \ T : \A m \in Nat \ T : n <= m
  BY LeastNatural
<1>2. n # 0 /\ n - 1 \in Nat /\ n - 1 \in T
  BY <1>1
<1> QED
  BY <1>1, <1>2

-----------------------------------------------------------------------------
\* f concatenates more and more of s, up to its k-th element.
Concatenates(f, s, k) ==
  f = [i \in 1 .. k |-> IF i = 1 THEN s[i] ELSE f[i - 1] \o s[i]]

\* What such a function says of each step.
LEMMA ConcatenationStep ==
  ASSUME NEW f, NEW s, NEW k \in Nat, Concatenates(f, s, k)
  PROVE  \A i \in 1 .. k : /\ i = 1 => f[i] = s[i]
                           /\ i # 1 => f[i] = f[i - 1] \o s[i]
<1> DEFINE h == [j \in 1 .. k |-> IF j = 1 THEN s[j] ELSE f[j - 1] \o s[j]]
<1>1. f = h
  BY DEF Concatenates
<1>2. \A i \in 1 .. k : /\ i = 1 => h[i] = s[i]
                        /\ i # 1 => h[i] = f[i - 1] \o s[i]
  OBVIOUS
<1> HIDE DEF h
<1>3. \A i \in 1 .. k : f[i] = h[i]
  BY <1>1
<1> QED
  BY <1>2, <1>3

\* One step more.
LEMMA ConcatenationExtends ==
  ASSUME NEW f, NEW s, NEW k \in Nat, Concatenates(f, s, k)
  PROVE  \E g : Concatenates(g, s, k + 1)
<1>1. \A i \in 1 .. k : /\ i = 1 => f[i] = s[i]
                        /\ i # 1 => f[i] = f[i - 1] \o s[i]
  BY ConcatenationStep
<1> DEFINE n == k + 1
           last == IF n = 1 THEN s[n] ELSE f[k] \o s[n]
           g == [i \in 1 .. n |-> IF i = n THEN last ELSE f[i]]
<1>2. ASSUME NEW i \in 1 .. n
      PROVE  g[i] = IF i = 1 THEN s[i] ELSE g[i - 1] \o s[i]
  <2>1. CASE i = n
    <3>1. i # 1 => g[i - 1] = f[k]
      BY <2>1
    <3> QED
      BY <2>1, <3>1
  <2>2. CASE i # n
    <3>1. i \in 1 .. k /\ g[i] = f[i]
      BY <2>2
    <3>2. i # 1 => g[i - 1] = f[i - 1]
      BY <3>1
    <3> QED
      BY <1>1, <3>1, <3>2
  <2> QED
    BY <2>1, <2>2
<1>3. g = [i \in 1 .. n |-> g[i]]
  OBVIOUS
<1> HIDE DEF g
<1>4. Concatenates(g, s, n)
  BY <1>2, <1>3 DEF Concatenates
<1> QED
  BY <1>4

\* The partial concatenations exist.
LEMMA ConcatenationExists ==
  ASSUME NEW s, NEW k \in Nat
  PROVE  \E f : Concatenates(f, s, k)
<1> DEFINE T == {n \in Nat : \E f : Concatenates(f, s, n)}
<1>1. 0 \in T
  <2> DEFINE e == [i \in 1 .. 0 |-> {}]
  <2>1. Concatenates(e, s, 0)
    BY DEF Concatenates
  <2> QED
    BY <2>1
<1>2. ASSUME NEW n \in Nat \ {0}, n - 1 \in T PROVE n \in T
  <2>1. PICK m \in Nat : m = n - 1
    OBVIOUS
  <2>2. PICK f : Concatenates(f, s, m)
    BY <1>2, <2>1
  <2>3. m + 1 = n
    BY <2>1
  <2>4. \E g : Concatenates(g, s, m + 1)
    BY <2>2, ConcatenationExtends
  <2> QED
    BY <2>3, <2>4
<1> HIDE DEF T
<1>3. Nat \subseteq T
  BY <1>1, <1>2, NatSetInduction
<1> QED
  BY <1>3 DEF T

\* FlattenSeq is the last of the partial concatenations.
LEMMA FlattenSeqIs ==
  ASSUME NEW S, NEW s \in Seq(S), s # <<>>
  PROVE  \E f : Concatenates(f, s, Len(s)) /\ FlattenSeq(s) = f[Len(s)]
<1> DEFINE f == CHOOSE f : Concatenates(f, s, Len(s))
<1>1. Len(s) \in Nat
  OBVIOUS
<1>2. \E g : Concatenates(g, s, Len(s))
  BY <1>1, ConcatenationExists
<1>3. Concatenates(f, s, Len(s))
  BY <1>2
<1>4. FlattenSeq(s) = f[Len(s)]
  BY DEF FlattenSeq, Concatenates
<1> QED
  BY <1>3, <1>4

\* Sequences that agree have the same concatenations, and these are sequences.
LEMMA ConcatenationAgrees ==
  ASSUME NEW S, NEW k \in Nat, NEW l \in Nat, k <= l, NEW s, NEW r, NEW f, NEW g,
         Concatenates(f, s, k), Concatenates(g, r, l),
         \A i \in 1 .. k : s[i] = r[i] /\ s[i] \in Seq(S)
  PROVE  \A i \in 1 .. k : f[i] = g[i] /\ f[i] \in Seq(S)
<1>1. \A i \in 1 .. k : /\ i = 1 => f[i] = s[i]
                        /\ i # 1 => f[i] = f[i - 1] \o s[i]
  BY ZenonT(30), ConcatenationStep
<1>2. \A i \in 1 .. l : /\ i = 1 => g[i] = r[i]
                        /\ i # 1 => g[i] = g[i - 1] \o r[i]
  BY ZenonT(30), ConcatenationStep
<1> DEFINE T == {i \in Nat : i \in 1 .. k => f[i] = g[i] /\ f[i] \in Seq(S)}
<1>3. 0 \in T
  OBVIOUS
<1>4. ASSUME NEW i \in Nat \ {0}, i - 1 \in T PROVE i \in T
  <2> SUFFICES ASSUME i \in 1 .. k PROVE f[i] = g[i] /\ f[i] \in Seq(S)
    OBVIOUS
  <2>1. /\ i = 1 => f[i] = s[i]
        /\ i # 1 => f[i] = f[i - 1] \o s[i]
    BY <1>1
  <2>2. /\ i = 1 => g[i] = r[i]
        /\ i # 1 => g[i] = g[i - 1] \o r[i]
    <3>1. i \in 1 .. l
      OBVIOUS
    <3> QED
      BY <3>1, <1>2
  <2>3. s[i] = r[i] /\ s[i] \in Seq(S)
    OBVIOUS
  <2>4. i # 1 => f[i - 1] = g[i - 1] /\ f[i - 1] \in Seq(S)
    BY <1>4
  <2>5. i # 1 => f[i - 1] \o s[i] \in Seq(S)
    BY <2>3, <2>4
  <2> HIDE DEF T
  <2> QED
    BY <2>1, <2>2, <2>3, <2>4, <2>5
<1> HIDE DEF T
<1>5. Nat \subseteq T
  BY <1>3, <1>4, NatSetInduction
<1> QED
  BY <1>5 DEF T

\* There is nothing in nothing.
LEMMA FlattenEmpty == FlattenSeq(<<>>) = <<>>
  BY DEF FlattenSeq

\* One element more at the end.
LEMMA FlattenAppend ==
  ASSUME NEW S, NEW s \in Seq(Seq(S)), NEW x \in Seq(S)
  PROVE  /\ FlattenSeq(s) \in Seq(S)
         /\ FlattenSeq(Append(s, x)) = FlattenSeq(s) \o x
<1> DEFINE a == Append(s, x)
           n == Len(s)
<1>1. n \in Nat /\ n + 1 \in Nat /\ n <= n + 1 /\ n + 1 \in 1 .. n + 1
  OBVIOUS
<1>2. a \in Seq(Seq(S)) /\ Len(a) = n + 1
  OBVIOUS
<1>3. a[n + 1] = x
  OBVIOUS
<1>4. \A i \in 1 .. n : s[i] = a[i] /\ s[i] \in Seq(S)
  OBVIOUS
<1>5. a # <<>>
  BY <1>1, <1>2
<1>6. s # <<>> => n \in 1 .. n
  OBVIOUS
<1> HIDE DEF a, n
<1>7. PICK l \in Nat : l = n + 1
  BY <1>1
<1>8. PICK g : Concatenates(g, a, l) /\ FlattenSeq(a) = g[n + 1]
  BY <1>2, <1>5, <1>7, FlattenSeqIs
<1>9. /\ n + 1 = 1 => g[n + 1] = x
      /\ n + 1 # 1 => g[n + 1] = g[(n + 1) - 1] \o x
  <2>1. \A i \in 1 .. l : /\ i = 1 => g[i] = a[i]
                          /\ i # 1 => g[i] = g[i - 1] \o a[i]
    BY <1>8, ConcatenationStep
  <2>2. l \in 1 .. l /\ a[l] = x
    BY <1>1, <1>3, <1>7
  <2>3. /\ l = 1 => g[l] = x
        /\ l # 1 => g[l] = g[l - 1] \o x
    BY <2>1, <2>2
  <2> QED
    BY <2>3, <1>7
<1>10. CASE s = <<>>
  <2>1. n = 0 /\ FlattenSeq(s) = <<>>
    BY <1>10, FlattenEmpty DEF n
  <2>2. FlattenSeq(a) = x
    BY <1>8, <1>9, <2>1
  <2> QED
    BY <2>1, <2>2 DEF a
<1>11. CASE s # <<>>
  <2>1. PICK f : Concatenates(f, s, n) /\ FlattenSeq(s) = f[n]
    BY <1>11, FlattenSeqIs DEF n
  <2>2. \A i \in 1 .. n : f[i] = g[i] /\ f[i] \in Seq(S)
    BY <1>1, <1>4, <1>7, <1>8, <2>1, ConcatenationAgrees
  <2>3. f[n] = g[n] /\ f[n] \in Seq(S)
    BY <1>6, <1>11, <2>2
  <2>4. n + 1 # 1 /\ (n + 1) - 1 = n
    BY <1>1, <1>6, <1>11
  <2>5. FlattenSeq(a) = g[n] \o x
    BY <1>8, <1>9, <2>4
  <2> QED
    BY <2>1, <2>3, <2>5 DEF a
<1> QED
  BY <1>10, <1>11

\* The concatenation of the first elements of s, one after the other.
LEMMA FlattenStep ==
  ASSUME NEW S, NEW s \in Seq(Seq(S)), NEW i \in 1 .. Len(s)
  PROVE  FlattenSeq(SubSeq(s, 1, i)) = FlattenSeq(SubSeq(s, 1, i - 1)) \o s[i]
<1>1. /\ SubSeq(s, 1, i - 1) \in Seq(Seq(S)) /\ s[i] \in Seq(S)
      /\ SubSeq(s, 1, i) = Append(SubSeq(s, 1, i - 1), s[i])
  OBVIOUS
<1> QED
  BY <1>1, FlattenAppend

\* The first and the last of the concatenations, and the type of all.
LEMMA FlattenWhole ==
  ASSUME NEW S, NEW s \in Seq(Seq(S))
  PROVE  /\ FlattenSeq(SubSeq(s, 1, Len(s))) = FlattenSeq(s)
         /\ FlattenSeq(SubSeq(s, 1, 0)) = <<>>
         /\ \A i \in 0 .. Len(s) : FlattenSeq(SubSeq(s, 1, i)) \in Seq(S)
<1>1. SubSeq(s, 1, Len(s)) = s /\ SubSeq(s, 1, 0) = <<>>
  OBVIOUS
<1>2. ASSUME NEW i \in 0 .. Len(s) PROVE FlattenSeq(SubSeq(s, 1, i)) \in Seq(S)
  <2>1. SubSeq(s, 1, i) \in Seq(Seq(S)) /\ <<>> \in Seq(S)
    OBVIOUS
  <2> QED
    BY <2>1, FlattenAppend
<1> QED
  BY <1>1, <1>2, FlattenEmpty

\* What a sequence has when another is appended.
LEMMA ConcatKeeps ==
  ASSUME NEW S, NEW s \in Seq(S), NEW r \in Seq(S)
  PROVE  /\ s \o r \in Seq(S) /\ Len(s) \in Nat /\ Len(r) \in Nat
         /\ Len(s \o r) = Len(s) + Len(r)
         /\ \A k \in 1 .. Len(s) : (s \o r)[k] = s[k]
         /\ \A k \in 1 .. Len(r) : (s \o r)[Len(s) + k] = r[k]
  OBVIOUS

\* Where the elements of s are in its concatenation.
LEMMA FlattenElement ==
  ASSUME NEW S, NEW s \in Seq(Seq(S)), NEW i \in 1 .. Len(s)
  PROVE  LET before == Len(FlattenSeq(SubSeq(s, 1, i - 1))) IN
         /\ before + Len(s[i]) <= Len(FlattenSeq(s))
         /\ \A k \in 1 .. Len(s[i]) : FlattenSeq(s)[before + k] = s[i][k]
<1> DEFINE Flat(j) == FlattenSeq(SubSeq(s, 1, j))
           before == Len(Flat(i - 1))
           width == Len(s[i])
           Has(f) == /\ before + width <= Len(f)
                     /\ \A k \in 1 .. width : f[before + k] = s[i][k]
           T == {j \in Nat : i + j <= Len(s) => Has(Flat(i + j))}
<1>1. \A j \in 0 .. Len(s) : Flat(j) \in Seq(S)
  BY FlattenWhole
<1>2. ASSUME NEW j \in 1 .. Len(s) PROVE Flat(j) = Flat(j - 1) \o s[j]
  BY FlattenStep
<1>3. Flat(Len(s)) = FlattenSeq(s)
  BY FlattenWhole
<1>4. \A j \in 1 .. Len(s) : s[j] \in Seq(S) /\ j - 1 \in 0 .. Len(s)
  OBVIOUS
<1> HIDE DEF Flat
<1>5. Has(Flat(i))
  <2>1. Flat(i) = Flat(i - 1) \o s[i] /\ Flat(i - 1) \in Seq(S) /\ s[i] \in Seq(S)
    BY <1>1, <1>2, <1>4
  <2> QED
    BY <2>1, ConcatKeeps
<1>6. before \in Nat /\ width \in Nat
  <2>1. Flat(i - 1) \in Seq(S) /\ s[i] \in Seq(S)
    BY <1>1, <1>4
  <2> QED
    BY <2>1, ConcatKeeps
<1> HIDE DEF before, width
<1>7. 0 \in T
  BY <1>5
<1>8. ASSUME NEW j \in Nat \ {0}, j - 1 \in T PROVE j \in T
  <2> SUFFICES ASSUME i + j <= Len(s) PROVE Has(Flat(i + j))
    OBVIOUS
  <2>1. Has(Flat(i + (j - 1)))
    BY SMTT(30), <1>8
  <2>2. /\ i + j \in 1 .. Len(s) /\ (i + j) - 1 = i + (j - 1)
    OBVIOUS
  <2>3. /\ Flat(i + j) = Flat(i + (j - 1)) \o s[i + j]
        /\ s[i + j] \in Seq(S) /\ Flat(i + (j - 1)) \in Seq(S)
    BY <1>1, <1>2, <1>4, <2>2
  <2> DEFINE f == Flat(i + (j - 1))
             g == f \o s[i + j]
  <2> HIDE DEF T
  <2>4. /\ Len(f) \in Nat /\ Len(s[i + j]) \in Nat /\ Len(g) = Len(f) + Len(s[i + j])
        /\ \A k \in 1 .. Len(f) : g[k] = f[k]
    BY <2>3, ConcatKeeps
  <2> HIDE DEF f, g
  <2>5. Has(f)
    BY <2>1 DEF f
  <2>6. Has(g)
    BY SMTT(30), <1>6, <2>4, <2>5
  <2> QED
    BY <2>3, <2>6 DEF f, g
<1> HIDE DEF T
<1>9. Nat \subseteq T
  BY <1>7, <1>8, NatSetInduction
<1>10. Len(s) - i \in Nat /\ i + (Len(s) - i) = Len(s)
  OBVIOUS
<1>11. Has(Flat(Len(s)))
  <2>1. Len(s) - i \in T /\ Len(s) <= Len(s)
    BY <1>9, <1>10
  <2> QED
    BY <1>10, <2>1 DEF T
<1> QED
  BY <1>3, <1>11 DEF Flat, before, width

\* Two sequences, one behind the other, and how to part them again.
LEMMA CutConcat ==
  ASSUME NEW S, NEW a \in Seq(S), NEW b \in Seq(S)
  PROVE  /\ SubSeq(a \o b, 1, Len(a)) = a
         /\ SubSeq(a \o b, Len(a) + 1, Len(a \o b)) = b
         /\ Len(a \o b) = Len(a) + Len(b)
<1> DEFINE c == a \o b
<1>1. /\ c \in Seq(S) /\ Len(c) = Len(a) + Len(b) /\ Len(a) \in Nat /\ Len(b) \in Nat
      /\ \A i \in 1 .. Len(a) : c[i] = a[i]
      /\ \A i \in 1 .. Len(b) : c[Len(a) + i] = b[i]
  OBVIOUS
<1> HIDE DEF c
<1>2. SubSeq(c, 1, Len(a)) = a
  BY <1>1
<1>3. SubSeq(c, Len(a) + 1, Len(c)) = b
  BY <1>1
<1> QED
  BY <1>1, <1>2, <1>3 DEF c

\* What is in a sequence when its head is taken off or something is appended.
LEMMA QueueElements ==
  ASSUME NEW S, NEW q \in Seq(S)
  PROVE  /\ q # <<>> => /\ Head(q) = q[1] /\ 1 \in 1 .. Len(q)
                        /\ Tail(q) \in Seq(S) /\ Len(Tail(q)) = Len(q) - 1
                        /\ \A k \in 1 .. Len(Tail(q)) :
                             k + 1 \in 2 .. Len(q) /\ Tail(q)[k] = q[k + 1]
         /\ \A m \in S : /\ Append(q, m) \in Seq(S) /\ Len(Append(q, m)) = Len(q) + 1
                         /\ Append(q, m)[Len(q) + 1] = m
                         /\ \A k \in 1 .. Len(q) : Append(q, m)[k] = q[k]
                         /\ \A k \in 1 .. Len(q) + 1 : k \in 1 .. Len(q) \/ k = Len(q) + 1
  OBVIOUS

-----------------------------------------------------------------------------
(* Recursive functions and the folds of the library. *)

\* Sequences of one length with the same elements are one sequence.
LEMMA SameSequence ==
  ASSUME NEW S, NEW s \in Seq(S), NEW r \in Seq(S),
         Len(s) = Len(r), \A k \in 1 .. Len(s) : s[k] = r[k]
  PROVE  s = r
<1>1. s = [k \in 1 .. Len(s) |-> s[k]] /\ r = [k \in 1 .. Len(r) |-> r[k]]
  OBVIOUS
<1> QED
  BY <1>1

\* A recursion along an interval has a solution.
Climbs(q, x, k, step) == q[0] = x /\ \A i \in 1 .. k : q[i] = step[<<q[i - 1], i>>]

\* Such a recursion has a solution.
LEMMA RecursionExists ==
  ASSUME NEW A, NEW x \in A, NEW k \in Nat, NEW step \in [A \X (1 .. k) -> A]
  PROVE  \E q \in [0 .. k -> A] : Climbs(q, x, k, step)
<1> DEFINE Upto(n, q) == q[0] = x /\ \A i \in 1 .. n : q[i] = step[<<q[i - 1], i>>]
           T == {n \in Nat : n <= k => \E q \in [0 .. n -> A] : Upto(n, q)}
<1>1. 0 \in T
  <2> DEFINE q == [i \in 0 .. 0 |-> x]
  <2>1. q \in [0 .. 0 -> A] /\ Upto(0, q)
    OBVIOUS
  <2> QED
    BY <2>1
<1>2. ASSUME NEW n \in Nat \ {0}, n - 1 \in T PROVE n \in T
  <2>1. SUFFICES ASSUME n <= k PROVE \E q \in [0 .. n -> A] : Upto(n, q)
    OBVIOUS
  <2>2. PICK p \in [0 .. n - 1 -> A] : Upto(n - 1, p)
    BY <1>2, <2>1
  <2> DEFINE q == [i \in 0 .. n |-> IF i = n THEN step[<<p[n - 1], n>>] ELSE p[i]]
  <2>3. n \in 1 .. k /\ p[n - 1] \in A
    BY <2>1
  <2>4. step[<<p[n - 1], n>>] \in A
    BY <2>3
  <2>5. q \in [0 .. n -> A]
    BY <2>4
  <2>6. ASSUME NEW i \in 1 .. n PROVE q[i] = step[<<q[i - 1], i>>]
    <3>1. CASE i = n
      <4>1. i - 1 \in 0 .. n /\ i - 1 # n
        BY <3>1
      <4> QED
        BY <3>1, <4>1
    <3>2. CASE i # n
      <4>1. i \in 1 .. n - 1 /\ i - 1 \in 0 .. n /\ i - 1 # n
        BY <3>2
      <4> QED
        BY <3>2, <4>1, <2>2
    <3> QED
      BY <3>1, <3>2
  <2>7. q[0] = x
    BY <2>2
  <2> QED
    BY <2>5, <2>6, <2>7
<1> HIDE DEF T
<1>3. k \in T
  BY <1>1, <1>2, NatSetInduction
<1>4. PICK q \in [0 .. k -> A] : Upto(k, q)
  BY <1>3 DEF T
<1> QED
  BY <1>4 DEF Climbs

\* So has one over the subsets of a finite set, an element taken away at a time:
\* the recursion of the folds.
Peels(w, D, x, step, pick) ==
  \A s \in SUBSET D :
    w[s] = IF s = {} THEN x ELSE step[<<w[s \ {pick[s]}], pick[s]>>]

\* And so has this one.
LEMMA PeelExists ==
  ASSUME NEW D, IsFiniteSet(D), NEW A, NEW x \in A, NEW step \in [A \X D -> A],
         NEW pick, \A s \in SUBSET D : s # {} => pick[s] \in s
  PROVE  \E w \in [SUBSET D -> A] : Peels(w, D, x, step, pick)
<1> DEFINE Small(n) == {s \in SUBSET D : Cardinality(s) <= n}
           Below(n, w) == \A s \in Small(n) :
             w[s] = IF s = {} THEN x ELSE step[<<w[s \ {pick[s]}], pick[s]>>]
           T == {n \in Nat : \E w \in [Small(n) -> A] : Below(n, w)}
<1>1. ASSUME NEW s \in SUBSET D
      PROVE  /\ Cardinality(s) \in Nat /\ Cardinality(s) <= Cardinality(D)
             /\ Cardinality(s) = 0 <=> s = {}
  BY FS_Subset, FS_CardinalityType, FS_EmptySet
<1>2. ASSUME NEW s \in SUBSET D, s # {}
      PROVE  /\ s \ {pick[s]} \in SUBSET D /\ pick[s] \in D
             /\ Cardinality(s \ {pick[s]}) = Cardinality(s) - 1
  BY <1>2, FS_Subset, FS_RemoveElement
<1>3. 0 \in T
  <2> DEFINE w == [s \in Small(0) |-> x]
  <2>1. \A s \in Small(0) : s = {}
    BY <1>1
  <2>2. w \in [Small(0) -> A] /\ Below(0, w)
    BY <2>1
  <2> QED
    BY <2>2
<1>4. ASSUME NEW n \in Nat \ {0}, n - 1 \in T PROVE n \in T
  <2>1. PICK v \in [Small(n - 1) -> A] : Below(n - 1, v)
    BY <1>4
  <2> DEFINE Next1(s) == step[<<v[s \ {pick[s]}], pick[s]>>]
             w == [s \in Small(n) |-> IF s \in Small(n - 1) THEN v[s] ELSE Next1(s)]
  <2>2. ASSUME NEW s \in Small(n), s # {}
        PROVE  s \ {pick[s]} \in Small(n - 1) /\ s \ {pick[s]} \in Small(n)
    BY <1>1, <1>2, <2>2
  <2>3. ASSUME NEW s \in Small(n) PROVE w[s] \in A
    <3>1. CASE s \in Small(n - 1)
      BY <3>1
    <3>2. CASE s \notin Small(n - 1)
      <4>1. s # {}
        BY <3>2, <1>1
      <4>2. v[s \ {pick[s]}] \in A /\ pick[s] \in D
        BY <4>1, <2>2, <1>2
      <4> QED
        BY <3>2, <4>2
    <3> QED
      BY <3>1, <3>2
  <2>4. w \in [Small(n) -> A]
    BY <2>3
  <2>5. ASSUME NEW s \in Small(n)
        PROVE  w[s] = IF s = {} THEN x ELSE step[<<w[s \ {pick[s]}], pick[s]>>]
    <3>1. CASE s = {}
      <4>1. s \in Small(n - 1)
        BY <3>1, <1>1
      <4> QED
        BY <3>1, <4>1, <2>1
    <3>2. CASE s # {}
      <4>1. w[s \ {pick[s]}] = v[s \ {pick[s]}]
        BY <3>2, <2>2
      <4>2. CASE s \in Small(n - 1)
        <5>1. w[s] = v[s]
          BY <4>2
        <5>2. v[s] = step[<<v[s \ {pick[s]}], pick[s]>>]
          BY <3>2, <4>2, <2>1
        <5> QED
          BY <3>2, <4>1, <5>1, <5>2
      <4>3. CASE s \notin Small(n - 1)
        BY <3>2, <4>1, <4>3
      <4> QED
        BY <4>2, <4>3
    <3> QED
      BY <3>1, <3>2
  <2> HIDE DEF w
  <2> QED
    BY <2>4, <2>5
<1> HIDE DEF T
<1>5. Nat \subseteq T
  BY <1>3, <1>4, NatSetInduction
<1>6. Cardinality(D) \in Nat /\ Small(Cardinality(D)) = SUBSET D
  BY <1>1
<1>7. PICK w \in [Small(Cardinality(D)) -> A] : Below(Cardinality(D), w)
  BY <1>5, <1>6 DEF T
<1> QED
  BY <1>6, <1>7 DEF Peels

\* The library's maximum of positions is one of them, and the largest.
LEMMA MaxOf ==
  ASSUME NEW n \in Nat, NEW s \in SUBSET (1 .. n), s # {}
  PROVE  Max(s) \in s /\ \A y \in s : Max(s) >= y
<1> DEFINE T == {m \in Nat : \A y \in s : m >= y}
<1>1. n \in T
  OBVIOUS
<1>2. PICK m \in T : \A k \in T : m <= k
  <2>1. T \in SUBSET Nat /\ T # {}
    BY <1>1
  <2> HIDE DEF T
  <2> QED
    BY <2>1, LeastNatural
<1>3. m \in s
  <2>1. SUFFICES ASSUME m \notin s PROVE FALSE
    OBVIOUS
  <2>2. \A y \in s : m - 1 >= y
    BY <2>1, <1>2
  <2>3. PICK y \in s : TRUE
    OBVIOUS
  <2>4. m - 1 \in Nat
    BY <2>2, <2>3, <1>2
  <2>5. m - 1 \in T
    BY <2>2, <2>4
  <2> QED
    BY <1>2, <2>5
<1>4. m \in s /\ \A y \in s : m >= y
  BY <1>2, <1>3
<1> QED
  BY <1>4 DEF Max

\* The minimum is the smallest.
LEMMA MinOf ==
  ASSUME NEW n \in Nat, NEW s \in SUBSET (1 .. n), s # {}
  PROVE  Min(s) \in s /\ \A y \in s : Min(s) <= y
<1>1. PICK m \in s : \A y \in s : m <= y
  BY LeastNatural
<1> QED
  BY <1>1 DEF Min

\* The ends of an interval, and the interval without them.
LEMMA EndsOfInterval ==
  ASSUME NEW n \in Nat, NEW k \in 1 .. n
  PROVE  /\ 1 .. k \in SUBSET (1 .. n) /\ 1 .. k # {}
         /\ Max(1 .. k) = k /\ (1 .. k) \ {k} = 1 .. k - 1
         /\ k .. n \in SUBSET (1 .. n) /\ k .. n # {}
         /\ Min(k .. n) = k /\ (k .. n) \ {k} = k + 1 .. n
<1>1. /\ 1 .. k \in SUBSET (1 .. n) /\ 1 .. k # {}
      /\ k .. n \in SUBSET (1 .. n) /\ k .. n # {}
      /\ k \in 1 .. k /\ k \in k .. n
      /\ (1 .. k) \ {k} = 1 .. k - 1 /\ (k .. n) \ {k} = k + 1 .. n
  OBVIOUS
<1>2. Max(1 .. k) \in 1 .. k /\ Max(1 .. k) >= k
  BY <1>1, MaxOf
<1>3. Min(k .. n) \in k .. n /\ Min(k .. n) <= k
  BY <1>1, MinOf
<1> QED
  BY <1>1, <1>2, <1>3

\* The recursions of FoldLeft and of FoldRight have solutions when the step is
\* a function on the type of the result.
PeelsLeft(w, fs, x, step) ==
  \A s \in SUBSET DOMAIN fs :
    w[s] = IF s = {} THEN x ELSE step[<<w[s \ {Max(s)}], fs[Max(s)]>>]
PeelsRight(w, fs, x, step) ==
  \A s \in SUBSET DOMAIN fs :
    w[s] = IF s = {} THEN x ELSE step[<<w[s \ {Min(s)}], fs[Min(s)]>>]

\* The recursion of FoldLeft has a solution.
LEMMA FoldLeftSolution ==
  ASSUME NEW A, NEW F, NEW fs \in Seq(F), NEW x \in A, NEW step \in [A \X F -> A]
  PROVE  \E w \in [SUBSET DOMAIN fs -> A] : PeelsLeft(w, fs, x, step)
<1> DEFINE D == 1 .. Len(fs)
           pick == [s \in SUBSET D |-> Max(s)]
           at == [p \in A \X D |-> step[<<p[1], fs[p[2]]>>]]
<1>1. DOMAIN fs = D /\ Len(fs) \in Nat
  OBVIOUS
<1>2. IsFiniteSet(D)
  BY <1>1, FS_Interval
<1>3. ASSUME NEW s \in SUBSET D, s # {} PROVE pick[s] \in s
  BY <1>1, <1>3, MaxOf
<1>4. at \in [A \X D -> A]
  BY <1>1
<1>5. PICK w \in [SUBSET D -> A] : Peels(w, D, x, at, pick)
  <2> HIDE DEF D, pick, at
  <2> QED
    BY <1>2, <1>3, <1>4, PeelExists
<1>6. ASSUME NEW s \in SUBSET D
      PROVE  w[s] = IF s = {} THEN x ELSE step[<<w[s \ {Max(s)}], fs[Max(s)]>>]
  <2>1. CASE s = {}
    BY <2>1, <1>5 DEF Peels
  <2>2. CASE s # {}
    <3>1. Max(s) \in D /\ pick[s] = Max(s)
      BY <2>2, <1>3
    <3>2. w[s \ {Max(s)}] \in A
      OBVIOUS
    <3>3. w[s] = at[<<w[s \ {Max(s)}], Max(s)>>]
      BY <2>2, <3>1, <1>5 DEF Peels
    <3> QED
      BY <2>2, <3>1, <3>2, <3>3
  <2> QED
    BY <2>1, <2>2
<1> HIDE DEF D
<1> QED
  BY <1>1, <1>6 DEF PeelsLeft

\* The recursion of FoldRight has one.
LEMMA FoldRightSolution ==
  ASSUME NEW A, NEW F, NEW fs \in Seq(F), NEW x \in A, NEW step \in [A \X F -> A]
  PROVE  \E w \in [SUBSET DOMAIN fs -> A] : PeelsRight(w, fs, x, step)
<1> DEFINE D == 1 .. Len(fs)
           pick == [s \in SUBSET D |-> Min(s)]
           at == [p \in A \X D |-> step[<<p[1], fs[p[2]]>>]]
<1>1. DOMAIN fs = D /\ Len(fs) \in Nat
  OBVIOUS
<1>2. IsFiniteSet(D)
  BY <1>1, FS_Interval
<1>3. ASSUME NEW s \in SUBSET D, s # {} PROVE pick[s] \in s
  BY <1>1, <1>3, MinOf
<1>4. at \in [A \X D -> A]
  BY <1>1
<1>5. PICK w \in [SUBSET D -> A] : Peels(w, D, x, at, pick)
  <2> HIDE DEF D, pick, at
  <2> QED
    BY <1>2, <1>3, <1>4, PeelExists
<1>6. ASSUME NEW s \in SUBSET D
      PROVE  w[s] = IF s = {} THEN x ELSE step[<<w[s \ {Min(s)}], fs[Min(s)]>>]
  <2>1. CASE s = {}
    BY <2>1, <1>5 DEF Peels
  <2>2. CASE s # {}
    <3>1. Min(s) \in D /\ pick[s] = Min(s)
      BY <2>2, <1>3
    <3>2. w[s \ {Min(s)}] \in A
      OBVIOUS
    <3>3. w[s] = at[<<w[s \ {Min(s)}], Min(s)>>]
      BY <2>2, <3>1, <1>5 DEF Peels
    <3> QED
      BY <2>2, <3>1, <3>2, <3>3
  <2> QED
    BY <2>1, <2>2
<1> HIDE DEF D
<1> QED
  BY <1>1, <1>6 DEF PeelsRight

\* A run of a step function over a sequence, from x to y, that is in Z nowhere
\* before its end.
Folds(step, x, fs, y, Z) ==
  \E g : /\ g[0] = x /\ g[Len(fs)] = y
         /\ \A k \in 1 .. Len(fs) : g[k] = step[<<g[k - 1], fs[k]>>] /\ g[k - 1] \notin Z

\* What a solution of the recursion of FoldLeft is: such a run.
Unfolds(w, fs, x, step, A) ==
  /\ w[{}] = x
  /\ \A s \in SUBSET DOMAIN fs :
       s # {} /\ w[s \ {Max(s)}] \in A => w[s] = step[<<w[s \ {Max(s)}], fs[Max(s)]>>]
\* A solution of FoldLeft's recursion is a run, and its end has the type.
LEMMA FoldLeftRuns ==
  ASSUME NEW A, NEW F, NEW fs \in Seq(F), NEW x \in A, NEW step \in [A \X F -> A],
         NEW w, Unfolds(w, fs, x, step, A)
  PROVE  Folds(step, x, fs, w[DOMAIN fs], {}) /\ w[DOMAIN fs] \in A
<1> DEFINE n == Len(fs)
           g == [k \in 0 .. n |-> w[1 .. k]]
           T == {k \in Nat : k <= n => g[k] \in A}
<1>1. n \in Nat /\ DOMAIN fs = 1 .. n /\ 1 .. 0 = {} /\ 0 \in 0 .. n /\ n \in 0 .. n
  OBVIOUS
<1>2. g[0] = x /\ g[n] = w[DOMAIN fs]
  BY <1>1 DEF Unfolds
<1>3. ASSUME NEW k \in 1 .. n, g[k - 1] \in A PROVE g[k] = step[<<g[k - 1], fs[k]>>]
  <2>1. /\ 1 .. k \in SUBSET DOMAIN fs /\ 1 .. k # {} /\ Max(1 .. k) = k
        /\ (1 .. k) \ {k} = 1 .. k - 1
    BY ZenonT(30), <1>1, EndsOfInterval
  <2>2. g[k] = w[1 .. k] /\ g[k - 1] = w[1 .. k - 1]
    BY <1>1
  <2> QED
    BY <1>3, <2>1, <2>2 DEF Unfolds
<1> HIDE DEF g
<1>4. ASSUME NEW k \in Nat \ {0}, k - 1 \in T PROVE k \in T
  <2>1. SUFFICES ASSUME k <= n PROVE g[k] \in A
    OBVIOUS
  <2>2. k \in 1 .. n /\ g[k - 1] \in A
    BY <1>1, <1>4, <2>1
  <2>3. fs[k] \in F
    BY <2>2
  <2> QED
    BY <2>2, <2>3, <1>3
<1>5. 0 \in T
  BY <1>2
<1>6. Nat \subseteq T
  <2> HIDE DEF T
  <2> QED
    BY <1>4, <1>5, NatSetInduction
<1>7. \A k \in 1 .. n : k - 1 \in Nat /\ k - 1 <= n
  BY <1>1
<1>8. \A k \in 1 .. n : g[k] = step[<<g[k - 1], fs[k]>>] /\ g[k - 1] \notin {}
  BY <1>3, <1>6, <1>7
<1>9. g[n] \in A
  BY <1>1, <1>6
<1> QED
  BY <1>2, <1>8, <1>9 DEF Folds

\* The run over no element.
LEMMA FoldsNothing ==
  ASSUME NEW step, NEW x, NEW Z
  PROVE  Folds(step, x, <<>>, x, Z)
<1> DEFINE g == [k \in 0 .. 0 |-> x]
<1>1. g[0] = x /\ g[Len(<<>>)] = x /\ 1 .. Len(<<>>) = {}
  OBVIOUS
<1> HIDE DEF g
<1> QED
  BY <1>1 DEF Folds

\* The run over one element.
LEMMA FoldsOne ==
  ASSUME NEW step, NEW x, NEW f, NEW y, NEW Z, y = step[<<x, f>>], x \notin Z
  PROVE  Folds(step, x, <<f>>, y, Z)
<1> DEFINE g == [k \in 0 .. 1 |-> IF k = 0 THEN x ELSE y]
<1>1. /\ g[0] = x /\ g[Len(<<f>>)] = y /\ g[1] = y /\ <<f>>[1] = f
      /\ 1 .. Len(<<f>>) = {1} /\ 1 - 1 = 0
  OBVIOUS
<1> HIDE DEF g
<1>2. ASSUME NEW k \in 1 .. Len(<<f>>)
      PROVE  g[k] = step[<<g[k - 1], <<f>>[k]>>] /\ g[k - 1] \notin Z
  BY <1>1
<1> QED
  BY <1>1, <1>2 DEF Folds

\* One run after another.
LEMMA FoldsThen ==
  ASSUME NEW F, NEW fs \in Seq(F), NEW hs \in Seq(F), NEW step, NEW x, NEW y, NEW z,
         NEW Z, Folds(step, x, fs, y, Z), Folds(step, y, hs, z, Z)
  PROVE  Folds(step, x, fs \o hs, z, Z)
<1> DEFINE n == Len(fs)
           m == Len(hs)
<1>1. PICK g : /\ g[0] = x /\ g[n] = y
               /\ \A k \in 1 .. n : g[k] = step[<<g[k - 1], fs[k]>>] /\ g[k - 1] \notin Z
  BY DEF Folds
<1>2. PICK h : /\ h[0] = y /\ h[m] = z
               /\ \A k \in 1 .. m : h[k] = step[<<h[k - 1], hs[k]>>] /\ h[k - 1] \notin Z
  BY DEF Folds
<1> DEFINE both == fs \o hs
<1>3. /\ n \in Nat /\ m \in Nat /\ Len(both) = n + m
      /\ \A k \in 1 .. n : both[k] = fs[k]
      /\ \A k \in 1 .. m : both[n + k] = hs[k]
  OBVIOUS
<1> HIDE DEF both, n, m
<1> DEFINE gh == [k \in 0 .. n + m |-> IF k < n THEN g[k] ELSE h[k - n]]
<1>4. \A k \in 0 .. n : gh[k] = g[k]
  BY <1>1, <1>2, <1>3
<1>5. \A k \in n .. n + m : gh[k] = h[k - n]
  BY <1>1, <1>2, <1>3
<1> HIDE DEF gh
<1>6. ASSUME NEW k \in 1 .. n + m
      PROVE  gh[k] = step[<<gh[k - 1], both[k]>>] /\ gh[k - 1] \notin Z
  <2>1. CASE k <= n
    <3>1. k \in 1 .. n /\ k \in 0 .. n /\ k - 1 \in 0 .. n
      BY <2>1, <1>3
    <3> QED
      BY <3>1, <1>1, <1>3, <1>4
  <2>2. CASE ~(k <= n)
    <3>1. PICK j \in 1 .. m : k = n + j
      <4>1. k - n \in 1 .. m /\ k = n + (k - n)
        BY <2>2, <1>3
      <4> QED
        BY <4>1
    <3>2. k \in n .. n + m /\ k - 1 \in n .. n + m /\ k - n = j /\ k - 1 - n = j - 1
      BY <2>2, <3>1, <1>3
    <3>3. gh[k] = h[j] /\ gh[k - 1] = h[j - 1] /\ both[k] = hs[j]
      BY <3>1, <3>2, <1>3, <1>5
    <3> QED
      BY <3>3, <1>2
  <2> QED
    BY <2>1, <2>2
<1>7. gh[0] = x /\ gh[Len(both)] = z
  <2>1. 0 \in 0 .. n /\ n + m \in n .. n + m /\ n + m - n = m
    BY <1>3
  <2> QED
    BY <2>1, <1>1, <1>2, <1>3, <1>4, <1>5
<1> QED
  BY <1>3, <1>6, <1>7 DEF Folds, both

\* A run has one end.
LEMMA FoldsUnique ==
  ASSUME NEW fs, Len(fs) \in Nat, NEW step, NEW x, NEW y, NEW z, NEW Y, NEW Z,
         Folds(step, x, fs, y, Y), Folds(step, x, fs, z, Z)
  PROVE  y = z
<1> DEFINE n == Len(fs)
<1>1. PICK g : /\ g[0] = x /\ g[n] = y
               /\ \A k \in 1 .. n : g[k] = step[<<g[k - 1], fs[k]>>] /\ g[k - 1] \notin Y
  BY DEF Folds
<1>2. PICK h : /\ h[0] = x /\ h[n] = z
               /\ \A k \in 1 .. n : h[k] = step[<<h[k - 1], fs[k]>>] /\ h[k - 1] \notin Z
  BY DEF Folds
<1> HIDE DEF n
<1> DEFINE T == {k \in Nat : k <= n => g[k] = h[k]}
<1>3. 0 \in T
  BY <1>1, <1>2
<1>4. ASSUME NEW k \in Nat \ {0}, k - 1 \in T PROVE k \in T
  <2>1. SUFFICES ASSUME k <= n PROVE g[k] = h[k]
    OBVIOUS
  <2>2. k \in 1 .. n /\ g[k - 1] = h[k - 1]
    BY <1>4, <2>1 DEF n
  <2> QED
    BY <2>2, <1>1, <1>2
<1> HIDE DEF T
<1>5. n \in T
  BY <1>3, <1>4, NatSetInduction DEF n
<1> QED
  BY <1>1, <1>2, <1>5 DEF T, n

\* The end of a run has the type.
LEMMA FoldsType ==
  ASSUME NEW A, NEW F, NEW fs \in Seq(F), NEW x \in A, NEW step \in [A \X F -> A], NEW y,
         NEW Z, Folds(step, x, fs, y, Z)
  PROVE  y \in A
<1> DEFINE n == Len(fs)
<1>1. PICK g : /\ g[0] = x /\ g[n] = y
               /\ \A k \in 1 .. n : g[k] = step[<<g[k - 1], fs[k]>>] /\ g[k - 1] \notin Z
  BY DEF Folds
<1>2. n \in Nat /\ \A k \in 1 .. n : fs[k] \in F
  OBVIOUS
<1> HIDE DEF n
<1> DEFINE T == {k \in Nat : k <= n => g[k] \in A}
<1>3. 0 \in T
  BY <1>1
<1>4. ASSUME NEW k \in Nat \ {0}, k - 1 \in T PROVE k \in T
  <2>1. SUFFICES ASSUME k <= n PROVE g[k] \in A
    OBVIOUS
  <2>2. k \in 1 .. n /\ g[k - 1] \in A
    BY <1>2, <1>4, <2>1
  <2> QED
    BY <2>2, <1>1, <1>2
<1> HIDE DEF T
<1>5. n \in T
  BY <1>2, <1>3, <1>4, NatSetInduction
<1> QED
  BY <1>1, <1>2, <1>5 DEF T

\* Before its end a run that avoids Z is not in Z.
LEMMA FoldsAvoids ==
  ASSUME NEW F, NEW fs \in Seq(F), NEW hs \in Seq(F), hs # <<>>, NEW step,
         NEW x, NEW y, NEW z, NEW Y, NEW Z,
         Folds(step, x, fs \o hs, z, Z), Folds(step, x, fs, y, Y)
  PROVE  y \notin Z
<1> DEFINE n == Len(fs)
           both == fs \o hs
<1>1. /\ n \in Nat /\ Len(both) \in Nat /\ n < Len(both)
      /\ \A k \in 1 .. n : both[k] = fs[k]
  OBVIOUS
<1>2. PICK g : /\ g[0] = x
               /\ \A k \in 1 .. Len(both) :
                    g[k] = step[<<g[k - 1], both[k]>>] /\ g[k - 1] \notin Z
  BY DEF Folds
<1> HIDE DEF both, n
<1>3. \A k \in 1 .. n : g[k] = step[<<g[k - 1], fs[k]>>] /\ g[k - 1] \notin Z
  <2>1. \A k \in 1 .. n : k \in 1 .. Len(both)
    BY <1>1
  <2> QED
    BY <2>1, <1>1, <1>2
<1>4. Folds(step, x, fs, g[n], Z)
  BY <1>2, <1>3 DEF Folds, n
<1>5. y = g[n]
  BY <1>1, <1>4, FoldsUnique DEF n
<1> DEFINE j == n + 1
<1>6. j \in 1 .. Len(both) /\ j - 1 = n
  BY <1>1
<1> HIDE DEF j
<1>7. g[j - 1] \notin Z
  BY <1>2, <1>6
<1> QED
  BY <1>5, <1>6, <1>7
=============================================================================
