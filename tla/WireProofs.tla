----------------------------- MODULE WireProofs -----------------------------
(* What ReportWire writes is read back: theorems about the messages of        *)
(* report.proto, for every message and every order of the keys of a map.      *)
(*                                                                            *)
(* From the bottom up: digits and the numbers made of them; varints; a field, *)
(* read from its own bytes whatever follows them (Whole); the fields of a     *)
(* byte string (Encodes); a reader, which is a run of a step function over    *)
(* them (Reads); and for each class what reading a written message does to    *)
(* another one.                                                               *)
EXTENDS ReportWire, SequenceLemmas

ByteSeqs == Seq(0 .. 255)

Bases == {128, 256}

\* A number is its remainder and its quotient.
LEMMA Division ==
  ASSUME NEW base \in Bases, NEW n \in Nat
  PROVE  /\ n \div base \in Nat /\ n % base \in 0 .. base - 1
         /\ n = (n % base) + base * (n \div base)
<1>1. CASE base = 128
  BY <1>1
<1>2. CASE base = 256
  BY <1>2
<1> QED
  BY <1>1, <1>2 DEF Bases

\* A digit and a number put together, and taken apart again.
LEMMA Remainder ==
  ASSUME NEW base \in Bases, NEW n \in Nat, NEW d \in 0 .. base - 1
  PROVE  (d + base * n) % base = d /\ (d + base * n) \div base = n
<1>1. CASE base = 128
  BY <1>1
<1>2. CASE base = 256
  BY <1>2
<1> QED
  BY <1>1, <1>2 DEF Bases

\* The digits of a number are the remainders of its quotients.
Quotients(q, n, base, k) ==
  /\ q \in [0 .. k -> Nat] /\ q[0] = n
  /\ \A i \in 1 .. k : q[i] = q[i - 1] \div base

DigitsFrom(q, n, base, k) == Digits(n, base, k) = [i \in 1 .. k |-> q[i - 1] % base]

\* The digits of a number are the remainders of its repeated division.
LEMMA DigitsAre ==
  ASSUME NEW n \in Nat, NEW base \in Bases, NEW k \in Nat
  PROVE  \E q : Quotients(q, n, base, k) /\ DigitsFrom(q, n, base, k)
<1> DEFINE P(v) == v = [i \in 0 .. k |-> IF i = 0 THEN n ELSE v[i - 1] \div base]
           step == [p \in Nat \X (1 .. k) |-> p[1] \div base]
           q == CHOOSE v : P(v)
<1>1. step \in [Nat \X (1 .. k) -> Nat]
  BY Division
<1>2. PICK w \in [0 .. k -> Nat] : Climbs(w, n, k, step)
  <2> HIDE DEF step
  <2> QED
    BY <1>1, RecursionExists
<1>3. ASSUME NEW i \in 0 .. k
      PROVE  w[i] = IF i = 0 THEN n ELSE w[i - 1] \div base
  <2>1. CASE i = 0
    BY <2>1, <1>2 DEF Climbs
  <2>2. CASE i # 0
    <3>1. i \in 1 .. k /\ i - 1 \in 0 .. k
      BY <2>2
    <3>2. w[i] = step[<<w[i - 1], i>>]
      BY <1>2, <3>1 DEF Climbs
    <3> QED
      BY <2>2, <3>1, <3>2
  <2> QED
    BY <2>1, <2>2
<1>4. w = [i \in 0 .. k |-> w[i]]
  OBVIOUS
<1>5. P(w)
  BY <1>3, <1>4
<1>6. P(q)
  BY <1>5
<1>7. Digits(n, base, k) = [i \in 1 .. k |-> q[i - 1] % base]
  BY DEF Digits
<1> HIDE DEF q
<1>8. q[0] = n /\ \A i \in 1 .. k : q[i] = q[i - 1] \div base
  BY <1>6
<1> DEFINE T == {i \in Nat : i <= k => q[i] \in Nat}
<1>9. 0 \in T
  BY <1>8
<1>10. ASSUME NEW i \in Nat \ {0}, i - 1 \in T PROVE i \in T
  <2>1. SUFFICES ASSUME i <= k PROVE q[i] \in Nat
    OBVIOUS
  <2>2. i \in 1 .. k /\ q[i - 1] \in Nat
    BY <1>10, <2>1
  <2>3. q[i - 1] \div base \in Nat
    BY <2>2, Division
  <2> QED
    BY <2>2, <2>3, <1>8
<1>11. \A i \in 0 .. k : q[i] \in Nat
  <2>1. Nat \subseteq T
    <3> HIDE DEF T
    <3> QED
      BY <1>9, <1>10, NatSetInduction
  <2> QED
    BY <2>1
<1>12. q \in [0 .. k -> Nat]
  BY <1>6, <1>11
<1> QED
  BY <1>7, <1>8, <1>12 DEF Quotients, DigitsFrom

\* Digits are below the base.
LEMMA DigitsType ==
  ASSUME NEW n \in Nat, NEW base \in Bases, NEW k \in Nat
  PROVE  Digits(n, base, k) \in Seq(0 .. base - 1) /\ Len(Digits(n, base, k)) = k
<1>1. PICK q : Quotients(q, n, base, k) /\ DigitsFrom(q, n, base, k)
  BY DigitsAre
<1>2. ASSUME NEW i \in 1 .. k PROVE q[i - 1] % base \in 0 .. base - 1
  <2>1. i - 1 \in 0 .. k
    OBVIOUS
  <2>2. q[i - 1] \in Nat
    BY <1>1, <2>1 DEF Quotients
  <2> QED
    BY <2>2, Division
<1>3. Digits(n, base, k) \in [1 .. k -> 0 .. base - 1]
  BY <1>1, <1>2 DEF DigitsFrom
<1>4. base - 1 \in Nat
  BY DEF Bases
<1>5. DOMAIN Digits(n, base, k) = 1 .. k
  BY <1>3
<1> QED
  BY <1>3, <1>4, <1>5

\* The values of the digits from each of them on.
NumberTails(g, digits, base) ==
  /\ g[Len(digits)] = 0
  /\ \A i \in 1 .. Len(digits) : g[i - 1] = digits[i] + base * g[i]
  /\ \A i \in 0 .. Len(digits) : g[i] \in Nat

\* A number is the value of its digits from the first on.
LEMMA NumberIs ==
  ASSUME NEW digits \in Seq(Nat), NEW base \in Nat
  PROVE  \E g : NumberTails(g, digits, base) /\ Number(digits, base) = g[0]
<1> DEFINE n == Len(digits)
           D == DOMAIN digits
           step == [p \in Nat \X Nat |-> p[2] + base * p[1]]
           P(v) == v = [s \in SUBSET D |-> IF s = {} THEN 0
                                           ELSE digits[Min(s)] + base * v[s \ {Min(s)}]]
           v == CHOOSE v : P(v)
           g == [i \in 0 .. n |-> v[i + 1 .. n]]
<1>1. step \in [Nat \X Nat -> Nat]
  BY SMTT(30)
<1>2. PICK w \in [SUBSET D -> Nat] : PeelsRight(w, digits, 0, step)
  <2> HIDE DEF step
  <2> QED
    BY <1>1, FoldRightSolution
<1>3. n \in Nat /\ D = 1 .. n /\ \A i \in D : digits[i] \in Nat
  OBVIOUS
<1>4. ASSUME NEW s \in SUBSET D
      PROVE  w[s] = IF s = {} THEN 0 ELSE digits[Min(s)] + base * w[s \ {Min(s)}]
  <2>1. CASE s = {}
    BY <2>1, <1>2 DEF PeelsRight
  <2>2. CASE s # {}
    <3>1. digits[Min(s)] \in Nat /\ w[s \ {Min(s)}] \in Nat
      BY <2>2, <1>3, MinOf
    <3>2. w[s] = step[<<w[s \ {Min(s)}], digits[Min(s)]>>]
      BY <2>2, <1>2 DEF PeelsRight
    <3> QED
      BY <2>2, <3>1, <3>2
  <2> QED
    BY <2>1, <2>2
<1>5. w = [s \in SUBSET D |-> w[s]]
  OBVIOUS
<1>6. P(w)
  BY <1>4, <1>5
<1>7. P(v)
  BY <1>6
<1>8. Number(digits, base) = v[D]
  BY DEF Number, FoldRight, MapThenFoldSet
<1> HIDE DEF v, D
<1>9. v[{}] = 0 /\ \A s \in SUBSET D : s # {} => v[s] = digits[Min(s)] + base * v[s \ {Min(s)}]
  BY <1>7
<1>10. g[n] = 0 /\ Number(digits, base) = g[0]
  <2>1. n + 1 .. n = {} /\ 0 + 1 .. n = D /\ 0 \in 0 .. n /\ n \in 0 .. n
    BY <1>3
  <2> QED
    BY <2>1, <1>8, <1>9
<1>11. ASSUME NEW i \in 1 .. n PROVE g[i - 1] = digits[i] + base * g[i]
  <2>1. i - 1 \in 0 .. n /\ i \in 0 .. n /\ i - 1 + 1 = i
    BY <1>3
  <2>2. g[i - 1] = v[i .. n] /\ g[i] = v[i + 1 .. n]
    BY <2>1
  <2>3. i .. n \in SUBSET D /\ i .. n # {} /\ Min(i .. n) = i /\ (i .. n) \ {i} = i + 1 .. n
    BY <1>3, EndsOfInterval
  <2> QED
    BY ZenonT(30), <2>2, <2>3, <1>9
<1> HIDE DEF g
<1> DEFINE T == {j \in Nat : j <= n => g[n - j] \in Nat}
<1>12. 0 \in T
  BY <1>3, <1>10
<1>13. ASSUME NEW j \in Nat \ {0}, j - 1 \in T PROVE j \in T
  <2>1. SUFFICES ASSUME j <= n PROVE g[n - j] \in Nat
    OBVIOUS
  <2>2. PICK i \in 1 .. n : i = n - (j - 1) /\ i - 1 = n - j
    <3>1. n - (j - 1) \in 1 .. n /\ n - (j - 1) - 1 = n - j
      BY <1>3, <2>1
    <3> QED
      BY <3>1
  <2>3. g[i] \in Nat /\ digits[i] \in Nat
    BY <1>3, <1>13, <2>1, <2>2
  <2>4. base * g[i] \in Nat
    BY <2>3
  <2>5. digits[i] + base * g[i] \in Nat
    BY <2>3, <2>4
  <2> QED
    BY <2>2, <2>5, <1>11
<1> HIDE DEF T
<1>14. ASSUME NEW i \in 0 .. n PROVE g[i] \in Nat
  <2>1. n - i \in T /\ n - (n - i) = i /\ n - i <= n
    BY <1>3, <1>12, <1>13, NatSetInduction
  <2> QED
    BY <2>1 DEF T
<1> QED
  BY <1>10, <1>11, <1>14 DEF NumberTails

\* The digits that a number is made of are its digits ...
LEMMA DigitsOfNumber ==
  ASSUME NEW base \in Bases, NEW d \in Seq(0 .. base - 1)
  PROVE  Number(d, base) \in Nat /\ Digits(Number(d, base), base, Len(d)) = d
<1> DEFINE k == Len(d)
           n == Number(d, base)
<1>1. /\ base \in Nat /\ d \in Seq(Nat) /\ k \in Nat
      /\ \A i \in 1 .. k : d[i] \in 0 .. base - 1
  BY DEF Bases
<1>2. PICK g : NumberTails(g, d, base) /\ n = g[0]
  BY <1>1, NumberIs
<1>3. /\ g[k] = 0
      /\ \A i \in 1 .. k : g[i - 1] = d[i] + base * g[i]
      /\ \A i \in 0 .. k : g[i] \in Nat
  BY <1>2 DEF NumberTails
<1>4. n \in Nat
  BY <1>1, <1>2, <1>3
<1>5. PICK q : Quotients(q, n, base, k) /\ DigitsFrom(q, n, base, k)
  BY <1>1, <1>4, DigitsAre
<1>6. q[0] = n /\ \A i \in 1 .. k : q[i] = q[i - 1] \div base
  BY <1>5 DEF Quotients
<1>7. ASSUME NEW i \in 1 .. k
      PROVE  g[i - 1] \div base = g[i] /\ g[i - 1] % base = d[i]
  <2>1. g[i] \in Nat /\ d[i] \in 0 .. base - 1 /\ g[i - 1] = d[i] + base * g[i]
    BY <1>1, <1>3
  <2> QED
    BY <2>1, Remainder
<1> HIDE DEF k, n
<1> DEFINE T == {i \in Nat : i <= k => q[i] = g[i]}
<1>8. 0 \in T
  BY <1>2, <1>6
<1>9. ASSUME NEW i \in Nat \ {0}, i - 1 \in T PROVE i \in T
  <2>1. SUFFICES ASSUME i <= k PROVE q[i] = g[i]
    OBVIOUS
  <2>2. i \in 1 .. k /\ q[i - 1] = g[i - 1]
    BY <1>1, <1>9, <2>1
  <2> QED
    BY <2>2, <1>6, <1>7
<1>10. \A i \in 0 .. k : q[i] = g[i]
  <2>1. Nat \subseteq T
    <3> HIDE DEF T
    <3> QED
      BY <1>8, <1>9, NatSetInduction
  <2> QED
    BY <2>1, <1>1
<1>11. ASSUME NEW i \in 1 .. k PROVE q[i - 1] % base = d[i]
  <2>1. i - 1 \in 0 .. k
    BY <1>1
  <2> QED
    BY <2>1, <1>7, <1>10
<1>12. d = [i \in 1 .. k |-> d[i]]
  BY DEF k
<1>13. [i \in 1 .. k |-> q[i - 1] % base] = [i \in 1 .. k |-> d[i]]
  BY <1>11
<1> QED
  BY <1>4, <1>5, <1>12, <1>13 DEF k, n, DigitsFrom

\* ... and a number is the number of its digits when they are all there.
LEMMA NumberOfDigits ==
  ASSUME NEW base \in Bases, NEW n \in Nat, NEW k \in Nat, NEW q, Quotients(q, n, base, k),
         q[k] = 0, DigitsFrom(q, n, base, k)
  PROVE  Number(Digits(n, base, k), base) = n
<1> DEFINE d == Digits(n, base, k)
<1>1. d \in Seq(0 .. base - 1) /\ Len(d) = k
  BY DigitsType
<1>2. base \in Nat /\ d \in Seq(Nat)
  BY <1>1 DEF Bases
<1>3. PICK g : NumberTails(g, d, base) /\ Number(d, base) = g[0]
  BY <1>2, NumberIs
<1>4. /\ g[k] = 0
      /\ \A i \in 1 .. k : g[i - 1] = d[i] + base * g[i]
  BY <1>1, <1>3 DEF NumberTails
<1>5. /\ q[0] = n /\ \A i \in 0 .. k : q[i] \in Nat
      /\ \A i \in 1 .. k : q[i] = q[i - 1] \div base
      /\ \A i \in 1 .. k : d[i] = q[i - 1] % base
  BY DEF Quotients, DigitsFrom
<1> HIDE DEF d
<1> DEFINE T == {j \in Nat : j <= k => g[k - j] = q[k - j]}
<1>6. 0 \in T
  BY <1>4
<1>7. ASSUME NEW j \in Nat \ {0}, j - 1 \in T PROVE j \in T
  <2>1. SUFFICES ASSUME j <= k PROVE g[k - j] = q[k - j]
    OBVIOUS
  <2> DEFINE i == k - j + 1
  <2>2. i \in 1 .. k /\ i - 1 = k - j /\ i = k - (j - 1) /\ i - 1 \in 0 .. k /\ j - 1 <= k
    BY <2>1
  <2>3. g[i] = q[i]
    BY <1>7, <2>2
  <2> HIDE DEF i
  <2>4. g[i - 1] = d[i] + base * q[i] /\ d[i] = q[i - 1] % base /\ q[i] = q[i - 1] \div base
    BY <2>2, <2>3, <1>4, <1>5
  <2>5. q[i - 1] \in Nat
    BY <2>2, <1>5
  <2>6. q[i - 1] = (q[i - 1] % base) + base * (q[i - 1] \div base)
    BY <2>5, Division
  <2>7. g[i - 1] = q[i - 1]
    BY <2>4, <2>6
  <2> QED
    BY <2>2, <2>7
<1>8. k \in T
  <2> HIDE DEF T
  <2> QED
    BY <1>6, <1>7, NatSetInduction
<1>9. g[0] = q[0]
  <2>1. k - k = 0
    OBVIOUS
  <2> QED
    BY <1>8, <2>1
<1> QED
  BY <1>3, <1>5, <1>9 DEF d

\* The numbers that k bytes hold.
Fixed(k) == {n \in Nat : Number(Digits(n, 256, k), 256) = n}

\* What is read from so many bytes is such a number.
LEMMA FixedNumber ==
  ASSUME NEW b \in ByteSeqs
  PROVE  Number(b, 256) \in Fixed(Len(b))
<1>1. 256 \in Bases /\ 0 .. 256 - 1 = 0 .. 255
  BY DEF Bases
<1>2. b \in Seq(0 .. 256 - 1)
  BY <1>1 DEF ByteSeqs
<1> QED
  BY ZenonT(30), <1>1, <1>2, DigitsOfNumber DEF Fixed

\* A 32-bit number fits both widths.
LEMMA FixedWord ==
  ASSUME NEW n \in Nat, n \div 65536 < 65536
  PROVE  n \in Fixed(4) /\ n \in Fixed(8)
<1>1. 256 \in Bases
  BY DEF Bases
<1>2. ASSUME NEW k \in {4, 8} PROVE n \in Fixed(k)
  <2>1. k \in Nat
    BY <1>2
  <2>2. PICK q : Quotients(q, n, 256, k) /\ DigitsFrom(q, n, 256, k)
    BY <1>1, <2>1, DigitsAre
  <2>3. /\ q[0] = n
        /\ \A i \in 1 .. k : q[i] = q[i - 1] \div 256
    BY <2>2 DEF Quotients
  <2>4. \A i \in 1 .. 4 : q[i] = q[i - 1] \div 256
    BY <1>2, <2>3
  <2>5. q[1] = n \div 256 /\ q[2] = q[1] \div 256 /\ q[3] = q[2] \div 256 /\ q[4] = q[3] \div 256
    <3>1. q[1] = q[1 - 1] \div 256 /\ q[2] = q[2 - 1] \div 256 /\ q[3] = q[3 - 1] \div 256
          /\ q[4] = q[4 - 1] \div 256
      BY <2>4
    <3> QED
      BY <3>1, <2>3
  <2>6. q[4] = 0
    BY <2>5
  <2>7. q[k] = 0
    <3>1. CASE k = 4
      BY <3>1, <2>6
    <3>2. CASE k = 8
      <4>1. q[5] = q[5 - 1] \div 256 /\ q[6] = q[6 - 1] \div 256 /\ q[7] = q[7 - 1] \div 256
            /\ q[8] = q[8 - 1] \div 256
        BY <3>2, <2>3
      <4>2. q[5] = 0
        BY <4>1, <2>6
      <4>3. q[6] = 0
        BY <4>1, <4>2
      <4>4. q[7] = 0
        BY <4>1, <4>3
      <4> QED
        BY <4>1, <4>4, <3>2
    <3> QED
      BY <1>2, <3>1, <3>2
  <2> QED
    BY <1>1, <2>1, <2>2, <2>7, NumberOfDigits DEF Fixed
<1> QED
  BY <1>2

\* VarintSize is a recursion over the naturals that has a solution ...
Sizes(f, k) ==
  /\ \A m \in 0 .. k : f[m] \in Nat \ {0}
  /\ \A m \in 0 .. k : f[m] = IF m < 128 THEN 1 ELSE 1 + f[m \div 128]

\* Two solutions of that recursion agree where both have a value.
LEMMA SizesAgree ==
  ASSUME NEW k \in Nat, NEW l \in Nat, NEW f, NEW g, Sizes(f, k), Sizes(g, l)
  PROVE  \A m \in Nat : m <= k /\ m <= l => f[m] = g[m]
<1> DEFINE T == {j \in Nat : \A m \in 0 .. j : m <= k /\ m <= l => f[m] = g[m]}
<1>1. 0 \in T
  BY DEF Sizes
<1>2. ASSUME NEW j \in Nat \ {0}, j - 1 \in T PROVE j \in T
  <2>1. SUFFICES ASSUME NEW m \in 0 .. j, m <= k, m <= l PROVE f[m] = g[m]
    OBVIOUS
  <2>2. CASE m < 128
    BY <2>1, <2>2 DEF Sizes
  <2>3. CASE m >= 128
    <3>1. m \div 128 \in 0 .. j - 1 /\ m \div 128 <= k /\ m \div 128 <= l
      BY <2>1, <2>3
    <3>2. f[m \div 128] = g[m \div 128]
      BY <1>2, <3>1
    <3> QED
      BY <2>1, <2>3, <3>2 DEF Sizes
  <2> QED
    BY <2>2, <2>3
<1>3. Nat \subseteq T
  <2> HIDE DEF T
  <2> QED
    BY <1>1, <1>2, NatSetInduction
<1> QED
  BY <1>3

\* It has a solution.
LEMMA SizesExist ==
  ASSUME NEW k \in Nat
  PROVE  \E f : Sizes(f, k)
<1> DEFINE T == {j \in Nat : \E f : Sizes(f, j)}
<1>1. 0 \in T
  <2> DEFINE f == [m \in 0 .. 0 |-> 1]
  <2>1. Sizes(f, 0)
    BY DEF Sizes
  <2> QED
    BY <2>1
<1>2. ASSUME NEW j \in Nat \ {0}, j - 1 \in T PROVE j \in T
  <2>1. PICK f : Sizes(f, j - 1)
    BY <1>2
  <2> DEFINE last == IF j < 128 THEN 1 ELSE 1 + f[j \div 128]
             g == [m \in 0 .. j |-> IF m = j THEN last ELSE f[m]]
  <2>2. last \in Nat \ {0}
    <3>1. CASE j < 128
      BY <3>1
    <3>2. CASE j >= 128
      <4>1. j \div 128 \in 0 .. j - 1
        BY <3>2
      <4>2. f[j \div 128] \in Nat \ {0}
        BY <2>1, <4>1 DEF Sizes
      <4> QED
        BY <3>2, <4>2
    <3> QED
      BY <3>1, <3>2
  <2>3. /\ g[j] = last /\ \A m \in 0 .. j - 1 : g[m] = f[m]
    OBVIOUS
  <2> HIDE DEF g
  <2>4. ASSUME NEW m \in 0 .. j
        PROVE  g[m] \in Nat \ {0} /\ g[m] = IF m < 128 THEN 1 ELSE 1 + g[m \div 128]
    <3>1. CASE m = j
      <4>1. m >= 128 => m \div 128 \in 0 .. j - 1
        BY <3>1
      <4>2. m >= 128 => g[m \div 128] = f[j \div 128]
        BY <3>1, <4>1, <2>3
      <4> QED
        BY <3>1, <4>2, <2>2, <2>3
    <3>2. CASE m # j
      <4>1. m \in 0 .. j - 1 /\ (m >= 128 => m \div 128 \in 0 .. j - 1)
        BY <3>2
      <4>2. f[m] \in Nat \ {0} /\ f[m] = IF m < 128 THEN 1 ELSE 1 + f[m \div 128]
        BY <2>1, <4>1 DEF Sizes
      <4> QED
        BY <4>1, <4>2, <2>3
    <3> QED
      BY <3>1, <3>2
  <2>5. Sizes(g, j)
    BY <2>4 DEF Sizes
  <2> QED
    BY <2>5
<1>3. Nat \subseteq T
  <2> HIDE DEF T
  <2> QED
    BY <1>1, <1>2, NatSetInduction
<1> QED
  BY <1>3

\* ... so it is what its equation says.
LEMMA VarintSizeIs ==
  ASSUME NEW n \in Nat
  PROVE  /\ VarintSize(n) \in Nat \ {0}
         /\ n < 128 => VarintSize(n) = 1
         /\ n >= 128 => VarintSize(n) = 1 + VarintSize(n \div 128)
<1> DEFINE F(k) == CHOOSE f : Sizes(f, k)
           P(v) == v = [m \in Nat |-> IF m < 128 THEN 1 ELSE 1 + v[m \div 128]]
           w == [m \in Nat |-> F(m)[m]]
           v == CHOOSE v : P(v)
<1>1. ASSUME NEW k \in Nat PROVE Sizes(F(k), k)
  BY SizesExist
<1> HIDE DEF F
<1>2. ASSUME NEW m \in Nat
      PROVE  w[m] = IF m < 128 THEN 1 ELSE 1 + w[m \div 128]
  <2>1. F(m)[m] = IF m < 128 THEN 1 ELSE 1 + F(m)[m \div 128]
    BY <1>1 DEF Sizes
  <2>2. m \div 128 \in Nat /\ m \div 128 <= m
    OBVIOUS
  <2>3. F(m)[m \div 128] = F(m \div 128)[m \div 128]
    <3> DEFINE d == m \div 128
    <3>1. d \in Nat /\ d <= m /\ d <= d
      BY <2>2
    <3> HIDE DEF d
    <3>2. Sizes(F(m), m) /\ Sizes(F(d), d)
      BY <3>1, <1>1
    <3>3. F(m)[d] = F(d)[d]
      BY <3>1, <3>2, SizesAgree
    <3> QED
      BY <3>3 DEF d
  <2> QED
    BY <2>1, <2>2, <2>3
<1>3. w = [m \in Nat |-> w[m]]
  OBVIOUS
<1>4. P(w)
  BY <1>2, <1>3
<1>5. P(v)
  BY <1>4
<1>6. \A m \in Nat : VarintSize(m) = v[m]
  BY DEF VarintSize
<1> HIDE DEF v
<1>7. \A m \in Nat : v[m] = IF m < 128 THEN 1 ELSE 1 + v[m \div 128]
  BY <1>5
<1> DEFINE T == {j \in Nat : \A m \in 0 .. j : v[m] \in Nat \ {0}}
<1>8. 0 \in T
  BY <1>7
<1>9. ASSUME NEW j \in Nat \ {0}, j - 1 \in T PROVE j \in T
  <2>1. SUFFICES ASSUME NEW m \in 0 .. j PROVE v[m] \in Nat \ {0}
    OBVIOUS
  <2>2. m < 128 \/ m \div 128 \in 0 .. j - 1
    OBVIOUS
  <2>3. m < 128 \/ v[m \div 128] \in Nat \ {0}
    BY <1>9, <2>2
  <2>4. v[m] = IF m < 128 THEN 1 ELSE 1 + v[m \div 128]
    BY <1>7
  <2> QED
    BY <2>3, <2>4
<1>10. Nat \subseteq T
  <2> HIDE DEF T
  <2> QED
    BY <1>8, <1>9, NatSetInduction
<1>11. v[n] \in Nat \ {0}
  BY <1>10
<1>12. n \div 128 \in Nat
  OBVIOUS
<1> QED
  BY <1>6, <1>7, <1>11, <1>12

\* All the digits of a number are in its varint.
LEMMA VarintDigits ==
  ASSUME NEW n \in Nat
  PROVE  Number(Digits(n, 128, VarintSize(n)), 128) = n
<1> DEFINE k == VarintSize(n)
<1>1. k \in Nat /\ k >= 1 /\ 128 \in Bases
  BY VarintSizeIs DEF Bases
<1>2. PICK q : Quotients(q, n, 128, k) /\ DigitsFrom(q, n, 128, k)
  BY <1>1, DigitsAre
<1>3. /\ q[0] = n /\ \A i \in 0 .. k : q[i] \in Nat
      /\ \A i \in 1 .. k : q[i] = q[i - 1] \div 128
  BY <1>2 DEF Quotients
<1> DEFINE T == {i \in Nat : i < k => VarintSize(q[i]) = k - i}
<1>4. 0 \in T
  BY <1>1, <1>3
<1>5. ASSUME NEW i \in Nat \ {0}, i - 1 \in T PROVE i \in T
  <2>1. SUFFICES ASSUME i < k PROVE VarintSize(q[i]) = k - i
    OBVIOUS
  <2>2. i - 1 \in 0 .. k /\ i \in 1 .. k /\ k - (i - 1) > 1 /\ k \in Nat
    BY <1>1, <2>1
  <2>3. q[i - 1] \in Nat /\ q[i] = q[i - 1] \div 128 /\ VarintSize(q[i - 1]) = k - (i - 1)
    BY <1>3, <1>5, <2>1, <2>2
  <2> HIDE DEF k
  <2>4. q[i - 1] >= 128
    BY <2>2, <2>3, VarintSizeIs
  <2>5. VarintSize(q[i - 1]) = 1 + VarintSize(q[i])
    BY <2>3, <2>4, VarintSizeIs
  <2>6. VarintSize(q[i]) \in Nat
    <3>1. q[i] \in Nat
      BY <2>2, <1>3
    <3> QED
      BY <3>1, VarintSizeIs
  <2> QED
    BY <2>2, <2>3, <2>5, <2>6
<1>6. k - 1 \in T
  <2>1. k - 1 \in Nat
    BY <1>1
  <2> HIDE DEF T, k
  <2> QED
    BY <2>1, <1>4, <1>5, NatSetInduction
<1> HIDE DEF k
<1>7. VarintSize(q[k - 1]) = 1 /\ q[k - 1] \in Nat /\ q[k] = q[k - 1] \div 128
  <2>1. k - 1 < k /\ k - (k - 1) = 1 /\ k - 1 \in 0 .. k /\ k \in 1 .. k
    BY <1>1
  <2> QED
    BY <2>1, <1>3, <1>6
<1>8. q[k - 1] < 128
  <2>1. SUFFICES ASSUME q[k - 1] >= 128 PROVE FALSE
    BY <1>7
  <2>2. VarintSize(q[k - 1] \div 128) \in Nat \ {0}
    BY <1>7, VarintSizeIs
  <2>3. VarintSize(q[k - 1]) = 1 + VarintSize(q[k - 1] \div 128)
    BY <1>7, <2>1, VarintSizeIs
  <2> QED
    BY <2>2, <2>3, <1>7
<1>9. q[k] = 0
  BY <1>7, <1>8
<1> QED
  BY <1>1, <1>2, <1>9, NumberOfDigits DEF k

-----------------------------------------------------------------------------
(* Varints. *)

\* The elements of a sequence.
LEMMA SeqElements ==
  ASSUME NEW S, NEW s \in Seq(S)
  PROVE  Len(s) \in Nat /\ DOMAIN s = 1 .. Len(s) /\ \A i \in 1 .. Len(s) : s[i] \in S
  OBVIOUS

\* A byte of a byte string.
LEMMA ByteAt ==
  ASSUME NEW b \in ByteSeqs
  PROVE  /\ Len(b) \in Nat /\ DOMAIN b = 1 .. Len(b)
         /\ \A i \in 1 .. Len(b) : b[i] \in 0 .. 255 /\ b[i] \in Nat
<1>1. Len(b) \in Nat /\ DOMAIN b = 1 .. Len(b) /\ \A i \in 1 .. Len(b) : b[i] \in 0 .. 255
  BY SeqElements DEF ByteSeqs
<1>2. \A x \in 0 .. 255 : x \in Nat
  OBVIOUS
<1> QED
  BY <1>1, <1>2

\* The low seven bits of a byte.
LEMMA LowBits ==
  ASSUME NEW x \in 0 .. 255
  PROVE  x % 128 \in 0 .. 127
  OBVIOUS

\* Seven bits with or without the eighth.
LEMMA HighBit ==
  ASSUME NEW x \in 0 .. 127, NEW high \in {0, 128}
  PROVE  x + high \in 0 .. 255 /\ (x + high) % 128 = x /\ (x + high < 128 <=> high = 0)
<1>1. CASE high = 0
  BY <1>1
<1>2. CASE high = 128
  BY <1>2
<1> QED
  BY <1>1, <1>2

\* v is the varint of the k digits d.
VarintBytes(v, d, k) ==
  /\ v \in ByteSeqs /\ Len(v) = k /\ d \in Seq(0 .. 127) /\ Len(d) = k
  /\ \A i \in 1 .. k : v[i] % 128 = d[i] /\ (v[i] < 128 <=> i = k)

\* The bytes of a varint.
LEMMA VarintIs ==
  ASSUME NEW n \in Nat
  PROVE  VarintBytes(Varint(n), Digits(n, 128, VarintSize(n)), VarintSize(n))
<1> DEFINE k == VarintSize(n)
           d == Digits(n, 128, k)
           v == [i \in DOMAIN d |-> d[i] + IF i < Len(d) THEN 128 ELSE 0]
<1>1. k \in Nat /\ k >= 1 /\ 128 \in Bases /\ 128 - 1 = 127
  BY VarintSizeIs DEF Bases
<1>2. d \in Seq(0 .. 127) /\ Len(d) = k
  <2> HIDE DEF k
  <2>1. d \in Seq(0 .. 128 - 1) /\ Len(d) = k
    BY ZenonT(30), <1>1, DigitsType
  <2> QED
    BY <2>1
<1>3. Varint(n) = v
  BY DEF Varint, VarintOf
<1> HIDE DEF d, k
<1>4. DOMAIN d = 1 .. k /\ \A i \in 1 .. k : d[i] \in 0 .. 127
  BY ZenonT(30), <1>1, <1>2, SeqElements
<1>5. ASSUME NEW i \in 1 .. k
      PROVE  v[i] \in 0 .. 255 /\ v[i] % 128 = d[i] /\ (v[i] < 128 <=> i = k)
  <2> DEFINE high == IF i < k THEN 128 ELSE 0
  <2>1. v[i] = d[i] + high
    BY <1>2, <1>4
  <2>2. d[i] \in 0 .. 127 /\ high \in {0, 128} /\ (high = 0 <=> i = k)
    BY <1>1, <1>4
  <2> HIDE DEF high, v
  <2> QED
    BY <2>1, <2>2, HighBit
<1>6. v \in [1 .. k -> 0 .. 255]
  <2>1. v = [i \in 1 .. k |-> v[i]]
    BY <1>4
  <2> HIDE DEF v
  <2> QED
    BY <2>1, <1>5
<1>7. v \in Seq(0 .. 255) /\ Len(v) = k
  <2>1. DOMAIN v = 1 .. k
    BY <1>4
  <2> HIDE DEF v
  <2> QED
    BY <2>1, <1>1, <1>6
<1> HIDE DEF v
<1>8. VarintBytes(v, d, k)
  BY <1>2, <1>5, <1>7 DEF ByteSeqs, VarintBytes
<1> QED
  BY <1>3, <1>8 DEF d, k

\* Where the first varint of b ends.
EndsAt(b, k) == k \in 1 .. Len(b) /\ b[k] < 128 /\ \A i \in 1 .. k - 1 : b[i] >= 128

\* A varint ends at its first byte below 128.
LEMMA ReadVarintEnds ==
  ASSUME NEW b \in ByteSeqs, NEW k, EndsAt(b, k)
  PROVE  ReadVarint(b) = VarintPrefix(b, k)
<1> DEFINE I == {i \in 1 .. Len(b) : b[i] < 128}
           m == Min(I)
<1>1. k \in I /\ I \in SUBSET Nat /\ I # {} /\ k \in Nat
  BY DEF EndsAt, ByteSeqs
<1>2. m \in I /\ \A i \in I : m <= i
  <2>1. PICK n \in I : \A i \in I : n <= i
    <3> HIDE DEF I
    <3> QED
      BY <1>1, LeastNatural
  <2> QED
    BY <2>1 DEF Min
<1>3. m = k
  <2>1. m <= k /\ m \in 1 .. Len(b) /\ b[m] < 128
    BY <1>1, <1>2
  <2> HIDE DEF m
  <2>2. m < k => m \in 1 .. k - 1
    BY <2>1, <1>1
  <2>3. \A i \in 1 .. k - 1 : b[i] >= 128
    BY DEF EndsAt
  <2>4. b[m] \in Nat
    BY <2>1, ByteAt
  <2> QED
    BY <2>1, <2>2, <2>3, <2>4, <1>1
<1>4. SelectInSeq(b, LAMBDA x : x < 128) = IF I # {} THEN m ELSE 0
  BY DEF SelectInSeq
<1> QED
  BY <1>1, <1>3, <1>4 DEF ReadVarint

\* A byte string without such a byte holds no varint.
LEMMA ReadVarintCut ==
  ASSUME NEW b \in ByteSeqs
  PROVE  (\E k : EndsAt(b, k)) \/ (ReadVarint(b) = VarintPrefix(b, 0))
<1> DEFINE I == {i \in 1 .. Len(b) : b[i] < 128}
<1>1. CASE I = {}
  <2>1. SelectInSeq(b, LAMBDA x : x < 128) = IF I # {} THEN Min(I) ELSE 0
    BY DEF SelectInSeq
  <2> QED
    BY <1>1, <2>1 DEF ReadVarint
<1>2. CASE I # {}
  <2>1. PICK k \in I : \A i \in I : k <= i
    <3>1. I \in SUBSET Nat
      OBVIOUS
    <3> HIDE DEF I
    <3> QED
      BY <3>1, <1>2, LeastNatural
  <2>2. ASSUME NEW i \in 1 .. k - 1 PROVE b[i] >= 128
    <3>1. i \in 1 .. Len(b) /\ i < k
      BY <2>1 DEF ByteSeqs
    <3>2. i \notin I /\ b[i] \in Nat
      BY <3>1, <2>1, ByteAt
    <3> QED
      BY <3>1, <3>2
  <2>3. EndsAt(b, k)
    BY <2>1, <2>2 DEF EndsAt
  <2> QED
    BY <2>3
<1> QED
  BY <1>1, <1>2

VarintSet == [len : Nat, val : Nat]

\* The number read from a prefix.
LEMMA VarintPrefixType ==
  ASSUME NEW b \in ByteSeqs, NEW k \in 0 .. Len(b)
  PROVE  /\ VarintPrefix(b, k) \in VarintSet /\ VarintPrefix(b, k).len = k
         /\ [i \in 1 .. k |-> b[i] % 128] \in Seq(0 .. 127)
<1> DEFINE d == [i \in 1 .. k |-> b[i] % 128]
<1>1. ASSUME NEW i \in 1 .. k PROVE b[i] % 128 \in 0 .. 127
  <2>1. b[i] \in 0 .. 255
    <3>1. i \in 1 .. Len(b)
      BY ByteAt
    <3> QED
      BY <3>1, ByteAt
  <2> QED
    BY <2>1, LowBits
<1>2. d \in Seq(0 .. 127)
  <2>1. k \in Nat
    BY DEF ByteSeqs
  <2>2. d \in [1 .. k -> 0 .. 127]
    BY <1>1
  <2> HIDE DEF d
  <2> QED
    BY <2>1, <2>2
<1>3. Number(d, 128) \in Nat
  <2> HIDE DEF d
  <2>1. 128 \in Bases /\ d \in Seq(0 .. 128 - 1)
    <3>1. 128 - 1 = 127
      OBVIOUS
    <3> QED
      BY <3>1, <1>2 DEF Bases
  <2> QED
    BY <2>1, DigitsOfNumber
<1>4. k \in Nat
  BY DEF ByteSeqs
<1> QED
  BY <1>2, <1>3, <1>4 DEF VarintPrefix, VarintSet

\* A varint is read the same way whatever follows it.
LEMMA EndsAtAgrees ==
  ASSUME NEW b \in ByteSeqs, NEW c \in ByteSeqs, NEW k, EndsAt(b, k), k <= Len(c),
         \A i \in 1 .. k : c[i] = b[i]
  PROVE  EndsAt(c, k) /\ VarintPrefix(c, k) = VarintPrefix(b, k)
<1>1. k \in Nat /\ k >= 1 /\ k \in 1 .. Len(c) /\ k \in 1 .. k
  BY DEF EndsAt, ByteSeqs
<1>2. \A i \in 1 .. k - 1 : i \in 1 .. k
  BY <1>1
<1>3. EndsAt(c, k)
  BY <1>1, <1>2 DEF EndsAt
<1>4. [i \in 1 .. k |-> c[i] % 128] = [i \in 1 .. k |-> b[i] % 128]
  OBVIOUS
<1> QED
  BY <1>3, <1>4 DEF VarintPrefix

\* A varint is read within the byte string.
LEMMA ReadVarintType ==
  ASSUME NEW b \in ByteSeqs
  PROVE  /\ ReadVarint(b) \in VarintSet /\ ReadVarint(b).len <= Len(b)
         /\ ReadVarint(b).len > 0 => EndsAt(b, ReadVarint(b).len)
<1>1. Len(b) \in Nat /\ 0 \in 0 .. Len(b)
  BY DEF ByteSeqs
<1>2. CASE \E k : EndsAt(b, k)
  <2>1. PICK k : EndsAt(b, k)
    BY <1>2
  <2>2. k \in 0 .. Len(b) /\ k <= Len(b)
    BY <2>1, <1>1 DEF EndsAt
  <2> QED
    BY <2>1, <2>2, ReadVarintEnds, VarintPrefixType
<1>3. CASE ~\E k : EndsAt(b, k)
  <2>1. ReadVarint(b) = VarintPrefix(b, 0)
    BY <1>3, ReadVarintCut
  <2>2. VarintPrefix(b, 0) \in VarintSet /\ VarintPrefix(b, 0).len = 0
    BY <1>1, VarintPrefixType
  <2> QED
    BY <2>1, <2>2, <1>1
<1> QED
  BY <1>2, <1>3

\* What follows a varint does not change what is read.
LEMMA ReadVarintStable ==
  ASSUME NEW b \in ByteSeqs, NEW c \in ByteSeqs, ReadVarint(b).len > 0,
         ReadVarint(b).len <= Len(c), \A i \in 1 .. ReadVarint(b).len : c[i] = b[i]
  PROVE  ReadVarint(c) = ReadVarint(b)
<1> DEFINE k == ReadVarint(b).len
<1>1. EndsAt(b, k)
  BY ReadVarintType
<1>2. ReadVarint(b) = VarintPrefix(b, k)
  BY <1>1, ReadVarintEnds
<1>3. k <= Len(c) /\ \A i \in 1 .. k : c[i] = b[i]
  OBVIOUS
<1> HIDE DEF k
<1>4. EndsAt(c, k) /\ VarintPrefix(c, k) = VarintPrefix(b, k)
  BY <1>1, <1>3, EndsAtAgrees
<1> QED
  BY <1>2, <1>4, ReadVarintEnds

\* What is written is read.
LEMMA ReadWrittenVarint ==
  ASSUME NEW n \in Nat, NEW rest \in ByteSeqs
  PROVE  ReadVarint(Varint(n) \o rest) = [len |-> VarintSize(n), val |-> n]
<1> DEFINE v == Varint(n)
           k == VarintSize(n)
           b == v \o rest
           d == Digits(n, 128, k)
<1>1. k \in Nat /\ k >= 1
  BY VarintSizeIs
<1>2. /\ v \in ByteSeqs /\ Len(v) = k
      /\ d \in Seq(0 .. 127) /\ Len(d) = k
      /\ \A i \in 1 .. k : v[i] % 128 = d[i] /\ (v[i] < 128 <=> i = k)
  BY VarintIs DEF VarintBytes
<1>3. Number(d, 128) = n
  BY VarintDigits
<1> HIDE DEF v, k, d
<1>4. b \in ByteSeqs /\ k <= Len(b) /\ \A i \in 1 .. k : b[i] = v[i]
  BY <1>1, <1>2 DEF ByteSeqs
<1> HIDE DEF b
<1>5. EndsAt(v, k)
  <2>1. \A i \in 1 .. k : v[i] \in Nat
    BY <1>2, ByteAt
  <2>2. \A i \in 1 .. k - 1 : i \in 1 .. k /\ i # k
    BY <1>1
  <2>3. k \in 1 .. Len(v)
    BY <1>1, <1>2
  <2> QED
    BY <1>1, <1>2, <2>1, <2>2, <2>3 DEF EndsAt
<1>6. EndsAt(b, k) /\ VarintPrefix(b, k) = VarintPrefix(v, k)
  BY <1>2, <1>4, <1>5, EndsAtAgrees
<1>7. [i \in 1 .. k |-> v[i] % 128] = d
  <2>1. d = [i \in 1 .. k |-> d[i]]
    BY <1>2
  <2>2. [i \in 1 .. k |-> v[i] % 128] = [i \in 1 .. k |-> d[i]]
    BY <1>2
  <2> QED
    BY <2>1, <2>2
<1>8. VarintPrefix(v, k) = [len |-> k, val |-> n]
  BY <1>3, <1>7 DEF VarintPrefix
<1>9. ReadVarint(b) = VarintPrefix(b, k)
  BY <1>4, <1>6, ReadVarintEnds
<1> QED
  BY <1>6, <1>8, <1>9 DEF b, v, k

\* A small number, such as a tag, takes one byte.
LEMMA VarintSmall ==
  ASSUME NEW n \in 0 .. 127
  PROVE  Varint(n) = <<n>> /\ VarintSize(n) = 1
<1>1. n \in Nat /\ n < 128
  OBVIOUS
<1>2. VarintSize(n) = 1
  BY <1>1, VarintSizeIs
<1> DEFINE d == Digits(n, 128, 1)
           v == Varint(n)
<1>3. v \in ByteSeqs /\ Len(v) = 1 /\ v[1] % 128 = d[1] /\ v[1] < 128
  <2>1. 1 \in 1 .. 1
    OBVIOUS
  <2>2. /\ v \in ByteSeqs /\ Len(v) = 1
        /\ \A i \in 1 .. 1 : v[i] % 128 = d[i] /\ (v[i] < 128 <=> i = 1)
    <3>1. VarintBytes(v, d, 1)
      BY <1>1, <1>2, VarintIs
    <3> HIDE DEF v, d
    <3> QED
      BY <3>1 DEF VarintBytes
  <2> HIDE DEF v, d
  <2> QED
    BY <2>1, <2>2
<1>4. 128 \in Bases /\ 1 \in Nat
  BY DEF Bases
<1>5. PICK q : Quotients(q, n, 128, 1) /\ DigitsFrom(q, n, 128, 1)
  BY <1>1, <1>4, DigitsAre
<1>6. d[1] = n % 128
  <2>1. 1 \in 1 .. 1 /\ 1 - 1 = 0
    OBVIOUS
  <2> QED
    BY <2>1, <1>5 DEF Quotients, DigitsFrom
<1> HIDE DEF v, d
<1>7. v[1] = n
  <2>1. 1 \in 1 .. Len(v)
    BY <1>3
  <2>2. PICK x \in 0 .. 255 : x = v[1]
    BY <2>1, <1>3, ByteAt
  <2>3. x < 128 /\ x % 128 = n % 128
    BY <2>2, <1>3, <1>6
  <2> QED
    BY <2>2, <2>3, <1>1
<1>8. DOMAIN v = 1 .. 1
  BY <1>3, ByteAt
<1> QED
  BY <1>2, <1>3, <1>7, <1>8 DEF ByteSeqs, v

-----------------------------------------------------------------------------
(* Fields. *)

\* A field, as it is read: a number of a fixed width fits it.
FieldFits(f) == /\ f.tag % 8 = 1 => f.val \in Fixed(8)
                /\ f.tag % 8 = 5 => f.val \in Fixed(4)
FieldSet == {f \in [tag : Nat, val : Nat, data : ByteSeqs, raw : ByteSeqs] : FieldFits(f)}

\* The elements of a part of a sequence.
LEMMA SubSeqOf ==
  ASSUME NEW S, NEW s \in Seq(S), NEW j \in Nat \ {0}, NEW k \in 0 .. Len(s), j <= k + 1
  PROVE  /\ SubSeq(s, j, k) \in Seq(S) /\ Len(SubSeq(s, j, k)) = k - j + 1
         /\ \A i \in 1 .. k - j + 1 : SubSeq(s, j, k)[i] = s[i + j - 1]
  OBVIOUS

\* The first elements of a sequence.
LEMMA StartOf ==
  ASSUME NEW S, NEW s \in Seq(S), NEW k \in 0 .. Len(s)
  PROVE  /\ SubSeq(s, 1, k) \in Seq(S) /\ Len(SubSeq(s, 1, k)) = k
         /\ \A i \in 1 .. k : SubSeq(s, 1, k)[i] = s[i]
  OBVIOUS

\* The last elements of a sequence.
LEMMA RestOf ==
  ASSUME NEW S, NEW s \in Seq(S), NEW k \in 0 .. Len(s)
  PROVE  /\ SubSeq(s, k + 1, Len(s)) \in Seq(S)
         /\ Len(SubSeq(s, k + 1, Len(s))) = Len(s) - k
         /\ \A i \in 1 .. Len(s) - k : SubSeq(s, k + 1, Len(s))[i] = s[k + i]
  OBVIOUS

\* Parts within the first of two sequences that are joined.
LEMMA SubSeqAgrees ==
  ASSUME NEW S, NEW s \in Seq(S), NEW t \in Seq(S), NEW j \in Nat \ {0}, NEW k \in Nat,
         j <= k + 1, k <= Len(s), k <= Len(t), \A i \in 1 .. k : s[i] = t[i]
  PROVE  SubSeq(s, j, k) = SubSeq(t, j, k)
<1> DEFINE a == SubSeq(s, j, k)
           b == SubSeq(t, j, k)
<1>1. k \in 0 .. Len(s) /\ k \in 0 .. Len(t) /\ k - j + 1 \in Nat
  OBVIOUS
<1>2. /\ a \in Seq(S) /\ Len(a) = k - j + 1
      /\ \A i \in 1 .. k - j + 1 : a[i] = s[i + j - 1]
  BY <1>1, SubSeqOf
<1>3. /\ b \in Seq(S) /\ Len(b) = k - j + 1
      /\ \A i \in 1 .. k - j + 1 : b[i] = t[i + j - 1]
  BY <1>1, SubSeqOf
<1> HIDE DEF a, b
<1>4. ASSUME NEW i \in 1 .. k - j + 1 PROVE a[i] = b[i]
  <2>1. i + j - 1 \in 1 .. k
    BY <1>1
  <2>2. s[i + j - 1] = t[i + j - 1]
    BY <2>1
  <2> QED
    BY <2>2, <1>2, <1>3
<1>5. a = b
  BY <1>2, <1>3, <1>4
<1> QED
  BY <1>5 DEF a, b

\* What cannot be read counts as a field, too.
LEMMA MalformedType == Malformed \in FieldSet
<1>1. <<>> \in ByteSeqs
  BY DEF ByteSeqs
<1>2. 0 % 8 = 0
  OBVIOUS
<1>3. FieldFits(Malformed)
  BY <1>2 DEF Malformed, FieldFits
<1> QED
  BY <1>1, <1>3 DEF Malformed, FieldSet

\* The parts a field is read from.
TagOf(b)  == ReadVarint(b)
BodyOf(b) == SubSeq(b, TagOf(b).len + 1, Len(b))
HeadOf(b) == ReadVarint(BodyOf(b))
SizeOf(b) == BodySize(TagOf(b).val % 8, HeadOf(b))

\* Reading a field, its nested definitions put together.
LEMMA ReadFieldIs ==
  ASSUME NEW b
  PROVE  ReadField(b) = FieldOf(b, TagOf(b), HeadOf(b), BodyOf(b), SizeOf(b))
  BY DEF ReadField, ReadAfter, ReadTagged, ReadBody, TagOf, BodyOf, HeadOf, SizeOf

\* What follows the tag has a size.
LEMMA BodySizeType ==
  ASSUME NEW w \in Nat, NEW n \in VarintSet
  PROVE  BodySize(w, n) \in Nat
<1>1. n.len \in Nat /\ n.val \in Nat
  BY DEF VarintSet
<1>2. BodySize(w, n) \in {n.len, 8, 0, n.len + n.val, 4}
  BY DEF BodySize
<1> QED
  BY <1>1, <1>2

\* The pieces a field is put together from.
LEMMA PartsType ==
  ASSUME NEW b \in ByteSeqs
  PROVE  /\ TagOf(b) \in VarintSet /\ TagOf(b).len \in 0 .. Len(b)
         /\ TagOf(b).val \in Nat
         /\ BodyOf(b) \in ByteSeqs /\ Len(BodyOf(b)) = Len(b) - TagOf(b).len
         /\ \A i \in 1 .. Len(BodyOf(b)) : BodyOf(b)[i] = b[TagOf(b).len + i]
         /\ HeadOf(b) \in VarintSet /\ HeadOf(b).len \in Nat /\ HeadOf(b).val \in Nat
         /\ SizeOf(b) \in Nat
<1>1. TagOf(b) \in VarintSet /\ TagOf(b).len <= Len(b)
  BY ReadVarintType DEF TagOf
<1>2. TagOf(b).len \in Nat /\ TagOf(b).val \in Nat /\ Len(b) \in Nat
  BY <1>1, ByteAt DEF VarintSet
<1> DEFINE t == TagOf(b).len
           body == SubSeq(b, t + 1, Len(b))
<1>3. t \in 0 .. Len(b)
  BY <1>1, <1>2
<1>4. /\ body \in ByteSeqs /\ Len(body) = Len(b) - t
      /\ \A i \in 1 .. Len(b) - t : body[i] = b[t + i]
  <2> HIDE DEF t
  <2> QED
    BY <1>3, RestOf DEF ByteSeqs
<1>6. BodyOf(b) = body
  BY DEF BodyOf
<1> HIDE DEF body, t
<1>7. HeadOf(b) \in VarintSet
  BY <1>4, <1>6, ReadVarintType DEF HeadOf
<1>8. TagOf(b).val % 8 \in Nat
  BY <1>2
<1>9. SizeOf(b) \in Nat
  BY <1>7, <1>8, BodySizeType DEF SizeOf
<1>10. HeadOf(b).len \in Nat /\ HeadOf(b).val \in Nat
  BY <1>7 DEF VarintSet
<1> QED
  BY <1>1, <1>2, <1>3, <1>4, <1>6, <1>7, <1>9, <1>10 DEF t

\* A field that is there has its bytes at the start of b, and what it says.
Well(b) == TagOf(b).len > 0 /\ TagOf(b).val >= 8 /\ SizeOf(b) \in 1 .. Len(BodyOf(b))
DataStart(b) == IF TagOf(b).val % 8 = 2 THEN HeadOf(b).len + 1 ELSE 1
DataOf(b) == SubSeq(BodyOf(b), DataStart(b), SizeOf(b))
ValOf(b) == CASE TagOf(b).val % 8 = 0 -> HeadOf(b).val
              [] TagOf(b).val % 8 = 2 -> 0
              [] OTHER -> Number(DataOf(b), 256)
RawOf(b) == SubSeq(b, 1, TagOf(b).len + SizeOf(b))

\* A field is read, or it is malformed.
LEMMA ReadFieldCases ==
  ASSUME NEW b
  PROVE  /\ Well(b) => ReadField(b) = [tag |-> TagOf(b).val, data |-> DataOf(b),
                                       val |-> ValOf(b), raw |-> RawOf(b)]
         /\ ~Well(b) => ReadField(b) = Malformed
<1>1. ReadField(b) = FieldOf(b, TagOf(b), HeadOf(b), BodyOf(b), SizeOf(b))
  BY ReadFieldIs
<1> QED
  BY <1>1 DEF FieldOf, Well, DataOf, DataStart, ValOf, RawOf

\* Where its value is.
LEMMA WellSize ==
  ASSUME NEW b \in ByteSeqs, Well(b)
  PROVE  /\ SizeOf(b) \in 1 .. Len(BodyOf(b)) /\ DataStart(b) \in Nat \ {0}
         /\ DataStart(b) <= SizeOf(b) + 1
         /\ TagOf(b).val % 8 \in {0, 2} => HeadOf(b).len > 0 /\ HeadOf(b).len <= SizeOf(b)
         /\ TagOf(b).len + SizeOf(b) \in 1 .. Len(b)
<1>1. /\ TagOf(b).len \in 0 .. Len(b) /\ Len(BodyOf(b)) = Len(b) - TagOf(b).len
      /\ HeadOf(b).len \in Nat /\ HeadOf(b).val \in Nat
      /\ Len(b) \in Nat /\ TagOf(b).val \in Nat
  BY PartsType, ByteAt
<1>2. SizeOf(b) \in 1 .. Len(BodyOf(b)) /\ TagOf(b).len > 0
  BY DEF Well
<1> DEFINE w == TagOf(b).val % 8
<1>3. /\ w = 0 => SizeOf(b) = HeadOf(b).len
      /\ w = 2 => SizeOf(b) = IF HeadOf(b).len = 0 THEN 0 ELSE HeadOf(b).len + HeadOf(b).val
  BY DEF SizeOf, BodySize
<1>4. DataStart(b) = IF w = 2 THEN HeadOf(b).len + 1 ELSE 1
  BY DEF DataStart
<1> HIDE DEF w
<1>5. w \in {0, 2} => HeadOf(b).len > 0 /\ HeadOf(b).len <= SizeOf(b)
  BY <1>1, <1>2, <1>3
<1>6. DataStart(b) \in Nat \ {0} /\ DataStart(b) <= SizeOf(b) + 1
  BY <1>1, <1>2, <1>4, <1>5
<1>7. TagOf(b).len + SizeOf(b) \in 1 .. Len(b)
  BY <1>1, <1>2
<1> QED
  BY <1>2, <1>5, <1>6, <1>7 DEF w

\* The pieces of a field that is read.
LEMMA WellParts ==
  ASSUME NEW b \in ByteSeqs, Well(b)
  PROVE  /\ DataOf(b) \in ByteSeqs /\ ValOf(b) \in Nat
         /\ RawOf(b) \in ByteSeqs /\ Len(RawOf(b)) = TagOf(b).len + SizeOf(b)
         /\ \A i \in 1 .. Len(RawOf(b)) : RawOf(b)[i] = b[i]
<1>1. /\ SizeOf(b) \in 1 .. Len(BodyOf(b)) /\ DataStart(b) \in Nat \ {0}
      /\ DataStart(b) <= SizeOf(b) + 1 /\ TagOf(b).len + SizeOf(b) \in 1 .. Len(b)
  BY WellSize
<1>2. BodyOf(b) \in ByteSeqs /\ HeadOf(b).val \in Nat
  BY PartsType
<1>3. Len(b) \in Nat /\ Len(BodyOf(b)) \in Nat
  BY <1>2, ByteAt
<1>4. DataOf(b) \in ByteSeqs
  <2>1. SizeOf(b) \in 0 .. Len(BodyOf(b))
    BY <1>1, <1>3
  <2> QED
    BY <2>1, <1>1, <1>2, SubSeqOf DEF DataOf, ByteSeqs
<1>5. Number(DataOf(b), 256) \in Nat
  BY <1>4, FixedNumber DEF Fixed
<1>6. ValOf(b) \in {HeadOf(b).val, 0, Number(DataOf(b), 256)}
  BY DEF ValOf
<1>7. ValOf(b) \in Nat
  BY <1>2, <1>5, <1>6
<1> DEFINE k == TagOf(b).len + SizeOf(b)
<1>8. k \in 0 .. Len(b)
  BY <1>1, <1>3
<1>9. RawOf(b) = SubSeq(b, 1, k)
  BY DEF RawOf
<1> HIDE DEF k
<1>10. /\ SubSeq(b, 1, k) \in ByteSeqs /\ Len(SubSeq(b, 1, k)) = k
       /\ \A i \in 1 .. k : SubSeq(b, 1, k)[i] = b[i]
  BY <1>8, StartOf DEF ByteSeqs
<1> QED
  BY <1>4, <1>7, <1>9, <1>10 DEF k

\* A number of a fixed width is read from as many bytes.
LEMMA WellFits ==
  ASSUME NEW b \in ByteSeqs, Well(b)
  PROVE  /\ TagOf(b).val % 8 = 1 => ValOf(b) \in Fixed(8)
         /\ TagOf(b).val % 8 = 5 => ValOf(b) \in Fixed(4)
<1> DEFINE w == TagOf(b).val % 8
           c == BodyOf(b)
<1>1. c \in ByteSeqs /\ Len(c) \in Nat /\ SizeOf(b) \in 1 .. Len(c)
  BY PartsType, WellSize, ByteAt
<1>2. /\ w = 1 => SizeOf(b) = 8
      /\ w = 5 => SizeOf(b) = 4
  BY DEF SizeOf, BodySize
<1>3. w \in {1, 5} => /\ ValOf(b) = Number(DataOf(b), 256)
                      /\ DataOf(b) = SubSeq(c, 1, SizeOf(b))
  <2>1. w \in {1, 5} => w # 0 /\ w # 2
    OBVIOUS
  <2>2. w # 0 /\ w # 2 => ValOf(b) = Number(DataOf(b), 256)
    BY ONLY DEF ValOf
  <2>3. w # 2 => DataOf(b) = SubSeq(c, 1, SizeOf(b))
    BY ONLY DEF DataOf, DataStart
  <2> QED
    BY <2>1, <2>2, <2>3
<1> HIDE DEF w, c
<1>4. ASSUME NEW k \in 0 .. Len(c) PROVE Number(SubSeq(c, 1, k), 256) \in Fixed(k)
  <2>1. SubSeq(c, 1, k) \in ByteSeqs /\ Len(SubSeq(c, 1, k)) = k
    BY <1>1, StartOf DEF ByteSeqs
  <2> QED
    BY <2>1, FixedNumber
<1>5. SizeOf(b) \in 0 .. Len(c)
  BY <1>1
<1>6. w = 1 => ValOf(b) \in Fixed(8)
  BY <1>2, <1>3, <1>4, <1>5
<1>7. w = 5 => ValOf(b) \in Fixed(4)
  BY <1>2, <1>3, <1>4, <1>5
<1> QED
  BY <1>6, <1>7 DEF w

\* Reading gives a field, within the bytes there are.
LEMMA ReadFieldType ==
  ASSUME NEW b \in ByteSeqs
  PROVE  /\ ReadField(b) \in FieldSet
         /\ ReadField(b) # Malformed =>
              /\ Well(b) /\ ReadField(b).raw = RawOf(b) /\ ReadField(b).tag >= 8
              /\ Len(ReadField(b).raw) \in 1 .. Len(b)
<1>1. CASE ~Well(b)
  BY <1>1, ReadFieldCases, MalformedType
<1>2. CASE Well(b)
  <2>1. ReadField(b) = [tag |-> TagOf(b).val, data |-> DataOf(b),
                        val |-> ValOf(b), raw |-> RawOf(b)]
    BY <1>2, ReadFieldCases
  <2>2. DataOf(b) \in ByteSeqs /\ ValOf(b) \in Nat /\ RawOf(b) \in ByteSeqs
        /\ Len(RawOf(b)) = TagOf(b).len + SizeOf(b) /\ TagOf(b).len + SizeOf(b) \in 1 .. Len(b)
        /\ TagOf(b).val \in Nat /\ TagOf(b).val >= 8
    BY <1>2, WellParts, WellSize, PartsType DEF Well
  <2>3. FieldFits(ReadField(b))
    BY <1>2, <2>1, WellFits DEF FieldFits
  <2> QED
    BY <1>2, <2>1, <2>2, <2>3 DEF FieldSet
<1> QED
  BY <1>1, <1>2

\* A field is read the same way whatever follows it.
LEMMA WellStable ==
  ASSUME NEW b \in ByteSeqs, NEW c \in ByteSeqs, Well(b),
         TagOf(b).len + SizeOf(b) <= Len(c),
         \A i \in 1 .. TagOf(b).len + SizeOf(b) : c[i] = b[i]
  PROVE  ReadField(c) = ReadField(b)
<1> DEFINE t == TagOf(b).len
           z == SizeOf(b)
           w == TagOf(b).val % 8
<1>1. /\ t \in 0 .. Len(b) /\ t > 0 /\ z \in 1 .. Len(BodyOf(b)) /\ t + z \in 1 .. Len(b)
      /\ t \in Nat /\ z \in Nat /\ Len(b) \in Nat /\ Len(c) \in Nat /\ t + z <= Len(c)
      /\ t <= Len(c) /\ TagOf(b).val >= 8
      /\ \A i \in 1 .. t : i \in 1 .. t + z
      /\ \A i \in 1 .. z : t + i \in 1 .. t + z
  <2>1. t \in 0 .. Len(b) /\ Len(b) \in Nat /\ Len(c) \in Nat
    BY PartsType, ByteAt
  <2>2. t > 0 /\ z \in 1 .. Len(BodyOf(b)) /\ TagOf(b).val >= 8
    BY DEF Well
  <2>3. Len(BodyOf(b)) \in Nat
    BY PartsType, ByteAt
  <2>4. t + z \in 1 .. Len(b)
    BY WellSize
  <2>5. t + z <= Len(c)
    OBVIOUS
  <2> HIDE DEF t, z
  <2> QED
    BY <2>1, <2>2, <2>3, <2>4, <2>5
<1>2. \A i \in 1 .. t + z : c[i] = b[i]
  OBVIOUS
<1>3. TagOf(c) = TagOf(b)
  <2>1. \A i \in 1 .. t : c[i] = b[i]
    BY <1>1, <1>2
  <2> QED
    BY <2>1, <1>1, ReadVarintStable DEF TagOf
<1>4. /\ BodyOf(b) \in ByteSeqs /\ BodyOf(c) \in ByteSeqs
      /\ Len(BodyOf(b)) = Len(b) - t /\ Len(BodyOf(c)) = Len(c) - t
      /\ \A i \in 1 .. Len(BodyOf(b)) : BodyOf(b)[i] = b[t + i]
      /\ \A i \in 1 .. Len(BodyOf(c)) : BodyOf(c)[i] = c[t + i]
  BY <1>3, PartsType
<1> HIDE DEF t, z
<1>5. z <= Len(BodyOf(c)) /\ z <= Len(BodyOf(b)) /\ z \in 1 .. Len(BodyOf(c))
  BY <1>1, <1>4
<1>6. ASSUME NEW i \in 1 .. z PROVE BodyOf(c)[i] = BodyOf(b)[i]
  <2>1. i \in 1 .. Len(BodyOf(c)) /\ i \in 1 .. Len(BodyOf(b)) /\ t + i \in 1 .. t + z
    BY <1>1, <1>4, <1>5
  <2> QED
    BY <2>1, <1>2, <1>4
<1>7. w \in {0, 2} => HeadOf(c) = HeadOf(b)
  <2>1. SUFFICES ASSUME w \in {0, 2} PROVE HeadOf(c) = HeadOf(b)
    OBVIOUS
  <2>2. HeadOf(b).len > 0 /\ HeadOf(b).len <= z /\ HeadOf(b).len \in Nat
    BY <2>1, WellSize, PartsType DEF z
  <2> DEFINE n == HeadOf(b).len
  <2>3. n > 0 /\ n <= Len(BodyOf(c)) /\ \A i \in 1 .. n : i \in 1 .. z
    BY <2>2, <1>1, <1>5
  <2>4. ReadVarint(BodyOf(b)).len = n
    BY DEF HeadOf
  <2> HIDE DEF n
  <2>5. ReadVarint(BodyOf(c)) = ReadVarint(BodyOf(b))
    BY <2>3, <2>4, <1>4, <1>6, ReadVarintStable
  <2> QED
    BY <2>5 DEF HeadOf
<1>8. SizeOf(c) = z /\ DataStart(c) = DataStart(b)
  <2>1. TagOf(c).val % 8 = w
    BY <1>3
  <2>2. CASE w \in {0, 2}
    BY <2>1, <2>2, <1>3, <1>7 DEF SizeOf, DataStart, z
  <2>3. CASE w \notin {0, 2}
    BY <2>1, <2>3, <1>3 DEF SizeOf, DataStart, BodySize, z
  <2> QED
    BY <2>2, <2>3
<1>9. DataOf(c) = DataOf(b)
  <2>1. DataStart(b) \in Nat \ {0} /\ DataStart(b) <= z + 1
    BY WellSize DEF z
  <2> DEFINE j == DataStart(b)
             s == BodyOf(c)
             r == BodyOf(b)
  <2>2. /\ s \in Seq(0 .. 255) /\ r \in Seq(0 .. 255) /\ j \in Nat \ {0} /\ z \in Nat
        /\ j <= z + 1 /\ z <= Len(s) /\ z <= Len(r) /\ \A i \in 1 .. z : s[i] = r[i]
    BY <2>1, <1>1, <1>4, <1>5, <1>6 DEF ByteSeqs
  <2>3. DataOf(c) = SubSeq(s, j, z) /\ DataOf(b) = SubSeq(r, j, z)
    BY <1>8 DEF DataOf, z
  <2> HIDE DEF j, s, r
  <2> QED
    BY <2>2, <2>3, SubSeqAgrees
<1>10. RawOf(c) = RawOf(b)
  <2> DEFINE k == t + z
  <2>1. /\ b \in Seq(0 .. 255) /\ c \in Seq(0 .. 255) /\ 1 \in Nat \ {0} /\ k \in Nat
        /\ 1 <= k + 1 /\ k <= Len(b) /\ k <= Len(c) /\ \A i \in 1 .. k : c[i] = b[i]
    BY <1>1, <1>2 DEF ByteSeqs
  <2>2. RawOf(c) = SubSeq(c, 1, k) /\ RawOf(b) = SubSeq(b, 1, k)
    BY <1>3, <1>8 DEF RawOf, t, z
  <2> HIDE DEF k
  <2> QED
    BY <2>1, <2>2, SubSeqAgrees
<1>11. ValOf(c) = ValOf(b)
  <2>1. TagOf(c).val % 8 = w
    BY <1>3
  <2>2. CASE w = 0
    BY <2>1, <2>2, <1>7 DEF ValOf
  <2>3. CASE w # 0
    BY <2>1, <2>3, <1>9 DEF ValOf
  <2> QED
    BY <2>2, <2>3
<1>12. Well(c)
  BY <1>1, <1>3, <1>5, <1>8 DEF Well, t
<1> QED
  BY <1>3, <1>9, <1>10, <1>11, <1>12, ReadFieldCases

\* f is read from its bytes, and nothing more.
Whole(f) ==
  /\ f \in FieldSet /\ f # Malformed /\ f.raw # <<>>
  /\ \A rest \in ByteSeqs : ReadField(f.raw \o rest) = f

\* Byte strings are joined to one.
LEMMA ConcatBytes ==
  ASSUME NEW a \in ByteSeqs, NEW b \in ByteSeqs
  PROVE  /\ a \o b \in ByteSeqs /\ Len(a \o b) = Len(a) + Len(b)
         /\ Len(a) \in Nat /\ Len(b) \in Nat
         /\ \A i \in 1 .. Len(a) : (a \o b)[i] = a[i]
         /\ \A i \in 1 .. Len(b) : (a \o b)[Len(a) + i] = b[i]
  BY ConcatKeeps DEF ByteSeqs

\* A field that was read is whole: from its own bytes it is read again.
LEMMA ReadIsWhole ==
  ASSUME NEW b \in ByteSeqs, ReadField(b) # Malformed
  PROVE  Whole(ReadField(b))
<1> DEFINE f == ReadField(b)
<1>1. f \in FieldSet /\ Well(b) /\ f.raw = RawOf(b) /\ Len(f.raw) \in 1 .. Len(b)
  BY ReadFieldType
<1>2. /\ f.raw \in ByteSeqs /\ Len(f.raw) = TagOf(b).len + SizeOf(b)
      /\ \A i \in 1 .. Len(f.raw) : f.raw[i] = b[i]
  BY <1>1, WellParts
<1>3. ASSUME NEW rest \in ByteSeqs PROVE ReadField(f.raw \o rest) = f
  <2> DEFINE r == f.raw
             c == r \o rest
             k == TagOf(b).len + SizeOf(b)
  <2>1. c \in ByteSeqs /\ Len(r) <= Len(c) /\ \A i \in 1 .. Len(r) : c[i] = r[i]
    <3>1. r \in ByteSeqs
      BY <1>2
    <3> HIDE DEF r
    <3> QED
      BY <3>1, ConcatBytes
  <2>2. k = Len(r) /\ \A i \in 1 .. k : r[i] = b[i]
    BY <1>2
  <2>3. k <= Len(c) /\ \A i \in 1 .. k : c[i] = b[i]
    <3> HIDE DEF c, r, k
    <3> QED
      BY <2>1, <2>2
  <2> HIDE DEF c
  <2>4. ReadField(c) = ReadField(b)
    BY <2>1, <2>3, <1>1, WellStable
  <2> QED
    BY <2>4 DEF c
<1>4. f.raw # <<>>
  BY <1>1
<1> QED
  BY <1>1, <1>3, <1>4 DEF Whole

\* What reading a field gives: such a field, or none.
Parts == {f \in FieldSet : f = Malformed \/ Whole(f)}

\* So what is read is such a field or malformed.
LEMMA ReadFieldPart ==
  ASSUME NEW b \in ByteSeqs
  PROVE  ReadField(b) \in Parts
<1>1. ReadField(b) \in FieldSet
  BY ReadFieldType
<1> QED
  BY <1>1, ReadIsWhole DEF Parts

\* The length of a concatenation.
LEMMA ConcatLen ==
  ASSUME NEW a \in ByteSeqs, NEW b \in ByteSeqs
  PROVE  /\ a \o b \in ByteSeqs /\ Len(a \o b) = Len(a) + Len(b)
         /\ Len(a) \in Nat /\ Len(b) \in Nat
  BY ConcatBytes

\* The digits to base 256 are bytes.
LEMMA DigitsBytes ==
  ASSUME NEW n \in Nat, NEW k \in Nat
  PROVE  Digits(n, 256, k) \in ByteSeqs /\ Len(Digits(n, 256, k)) = k
<1>1. ASSUME NEW base, base = 256
      PROVE  Digits(n, base, k) \in ByteSeqs /\ Len(Digits(n, base, k)) = k
  <2>1. base \in Bases /\ base - 1 = 255
    BY <1>1 DEF Bases
  <2>2. Digits(n, base, k) \in Seq(0 .. base - 1) /\ Len(Digits(n, base, k)) = k
    BY <2>1, DigitsType
  <2> QED
    BY <2>1, <2>2 DEF ByteSeqs
<1> QED
  BY <1>1

\* A tag below 128 is one byte, and read as it was written.
LEMMA TagBytes ==
  ASSUME NEW tag \in 8 .. 127
  PROVE  Varint(tag) = <<tag>> /\ VarintSize(tag) = 1 /\ <<tag>> \in ByteSeqs /\ Len(<<tag>>) = 1
<1>1. tag \in 0 .. 127 /\ tag \in 0 .. 255
  OBVIOUS
<1> QED
  BY <1>1, VarintSmall DEF ByteSeqs

\* What the writer writes is whole fields: the tag, and what follows it.
LEMMA WholeField ==
  ASSUME NEW tag \in 8 .. 127, NEW p \in ByteSeqs, Len(p) > 0,
         BodySize(tag % 8, ReadVarint(p)) = Len(p)
  PROVE  /\ TagOf(<<tag>> \o p).val = tag /\ BodyOf(<<tag>> \o p) = p
         /\ SizeOf(<<tag>> \o p) = Len(p) /\ Well(<<tag>> \o p)
         /\ RawOf(<<tag>> \o p) = <<tag>> \o p /\ <<tag>> \o p \in ByteSeqs
<1> DEFINE h == <<tag>>
           b == h \o p
<1>1. tag \in 0 .. 127 /\ tag \in Nat /\ tag >= 8
  OBVIOUS
<1>2. Varint(tag) = h /\ VarintSize(tag) = 1
  BY TagBytes
<1>3. TagOf(b) = [len |-> 1, val |-> tag]
  BY <1>1, <1>2, ReadWrittenVarint DEF TagOf
<1>4. h \in ByteSeqs /\ Len(h) = 1
  BY TagBytes
<1> HIDE DEF h
<1>5. b \in ByteSeqs /\ Len(b) = 1 + Len(p) /\ Len(p) \in Nat
  BY <1>4, ConcatLen
<1>6. BodyOf(b) = p
  <2>1. SubSeq(b, Len(h) + 1, Len(b)) = p
    <3>1. h \in Seq(0 .. 255) /\ p \in Seq(0 .. 255) /\ b = h \o p
      BY <1>4 DEF ByteSeqs
    <3> HIDE DEF b
    <3> QED
      BY <3>1, CutConcat
  <2> QED
    BY <2>1, <1>3, <1>4 DEF BodyOf
<1>7. SizeOf(b) = Len(p)
  BY <1>3, <1>6 DEF SizeOf, HeadOf
<1>8. RawOf(b) = b
  <2>1. TagOf(b).len + SizeOf(b) = Len(b)
    BY <1>3, <1>5, <1>7
  <2> HIDE DEF b
  <2>2. SubSeq(b, 1, Len(b)) = b
    BY <1>5 DEF ByteSeqs
  <2> QED
    BY <2>1, <2>2 DEF RawOf
<1>9. Well(b)
  BY <1>1, <1>3, <1>5, <1>6, <1>7 DEF Well
<1> QED
  BY <1>3, <1>5, <1>6, <1>7, <1>8, <1>9 DEF h

\* The fields of the three writers.
NumberField(tag, n)    == [tag |-> tag, data |-> Varint(n), val |-> n, raw |-> VarintField(tag, n)]
WordField(tag, n, width) ==
  [tag |-> tag, data |-> Digits(n, 256, width), val |-> n, raw |-> FixedField(tag, n, width)]
BytesField(tag, b)     == [tag |-> tag, data |-> b, val |-> 0, raw |-> LenField(tag, Len(b), b)]

\* What is read from a byte string is whole.
LEMMA WholeByReading ==
  ASSUME NEW b \in ByteSeqs, NEW f, Well(b), ReadField(b) = f
  PROVE  Whole(f)
<1>1. ReadField(b).tag >= 8
  <2>1. ReadField(b) = [tag |-> TagOf(b).val, data |-> DataOf(b),
                        val |-> ValOf(b), raw |-> RawOf(b)]
    BY ReadFieldCases
  <2> QED
    BY <2>1 DEF Well
<1>2. ReadField(b) # Malformed
  BY <1>1 DEF Malformed
<1> QED
  BY <1>2, ReadIsWhole

\* A written varint field is whole.
LEMMA NumberFieldWhole ==
  ASSUME NEW tag \in 8 .. 127, tag % 8 = 0, NEW n \in Nat
  PROVE  Whole(NumberField(tag, n))
<1> DEFINE p == Varint(n)
           b == <<tag>> \o p
<1>1. p \in ByteSeqs /\ Len(p) = VarintSize(n) /\ VarintSize(n) \in Nat \ {0}
  BY VarintIs, VarintSizeIs DEF VarintBytes
<1>2. ReadVarint(p) = [len |-> VarintSize(n), val |-> n]
  <2>1. <<>> \in ByteSeqs /\ p \o <<>> = p
    BY <1>1 DEF ByteSeqs
  <2>2. ReadVarint(Varint(n) \o <<>>) = [len |-> VarintSize(n), val |-> n]
    BY <2>1, ReadWrittenVarint
  <2> QED
    BY <2>1, <2>2
<1>3. BodySize(tag % 8, ReadVarint(p)) = Len(p) /\ Len(p) > 0
  BY <1>1, <1>2 DEF BodySize
<1> HIDE DEF p
<1>4. /\ TagOf(b).val = tag /\ BodyOf(b) = p /\ SizeOf(b) = Len(p) /\ Well(b)
      /\ RawOf(b) = b /\ b \in ByteSeqs
  BY <1>1, <1>3, WholeField
<1> HIDE DEF b
<1>5. DataOf(b) = p
  <2>1. DataStart(b) = 1 /\ SubSeq(p, 1, Len(p)) = p
    BY <1>1, <1>4 DEF DataStart, ByteSeqs
  <2> QED
    BY <2>1, <1>4 DEF DataOf
<1>6. ValOf(b) = n
  BY <1>2, <1>4 DEF ValOf, HeadOf
<1>7. b = VarintField(tag, n)
  BY TagBytes DEF b, p, VarintField
<1>8. ReadField(b) = NumberField(tag, n)
  BY <1>4, <1>5, <1>6, <1>7, ReadFieldCases DEF NumberField, p
<1> QED
  BY <1>4, <1>8, WholeByReading

\* So is a written fixed field.
LEMMA WordFieldWhole ==
  ASSUME NEW tag \in 8 .. 127, NEW width \in {4, 8},
         (tag % 8 = 1 /\ width = 8) \/ (tag % 8 = 5 /\ width = 4), NEW n \in Fixed(width)
  PROVE  Whole(WordField(tag, n, width))
<1> DEFINE p == Digits(n, 256, width)
           b == <<tag>> \o p
<1>1. p \in ByteSeqs /\ Len(p) = width /\ Number(p, 256) = n
  <2>1. n \in Nat /\ width \in Nat
    BY DEF Fixed
  <2> QED
    BY <2>1, DigitsBytes DEF Fixed
<1>2. BodySize(tag % 8, ReadVarint(p)) = Len(p) /\ Len(p) > 0
  <2>1. \A r : BodySize(1, r) = 8 /\ BodySize(5, r) = 4
    BY DEF BodySize
  <2> HIDE DEF p
  <2> QED
    BY <2>1, <1>1
<1> HIDE DEF p
<1>4. /\ TagOf(b).val = tag /\ BodyOf(b) = p /\ SizeOf(b) = Len(p) /\ Well(b)
      /\ RawOf(b) = b /\ b \in ByteSeqs
  BY <1>1, <1>2, WholeField
<1> HIDE DEF b
<1>5. DataOf(b) = p
  <2>1. DataStart(b) = 1 /\ SubSeq(p, 1, Len(p)) = p
    BY <1>1, <1>4 DEF DataStart, ByteSeqs
  <2> QED
    BY <2>1, <1>4 DEF DataOf
<1>6. ValOf(b) = n
  BY <1>1, <1>4, <1>5 DEF ValOf
<1>7. b = FixedField(tag, n, width)
  BY TagBytes DEF b, p, FixedField
<1>8. ReadField(b) = WordField(tag, n, width)
  BY <1>4, <1>5, <1>6, <1>7, ReadFieldCases DEF WordField, p
<1> QED
  BY <1>4, <1>8, WholeByReading

\* And a written length-delimited field.
LEMMA BytesFieldWhole ==
  ASSUME NEW tag \in 8 .. 127, tag % 8 = 2, NEW data \in ByteSeqs
  PROVE  Whole(BytesField(tag, data))
<1> DEFINE z == Len(data)
           v == Varint(z)
           p == v \o data
           b == <<tag>> \o p
<1>1. z \in Nat
  BY ByteAt
<1>2. v \in ByteSeqs /\ Len(v) = VarintSize(z) /\ VarintSize(z) \in Nat \ {0}
  BY <1>1, VarintIs, VarintSizeIs DEF VarintBytes
<1>3. ReadVarint(p) = [len |-> VarintSize(z), val |-> z]
  BY <1>1, ReadWrittenVarint
<1> HIDE DEF v
<1>4. p \in ByteSeqs /\ Len(p) = VarintSize(z) + z /\ SubSeq(p, VarintSize(z) + 1, Len(p)) = data
  <2>1. p \in ByteSeqs /\ Len(p) = VarintSize(z) + z
    BY <1>2, ConcatLen
  <2>2. SubSeq(p, Len(v) + 1, Len(p)) = data
    <3>1. v \in Seq(0 .. 255) /\ data \in Seq(0 .. 255)
      BY <1>2 DEF ByteSeqs
    <3> QED
      BY <3>1, CutConcat
  <2> QED
    BY <2>1, <2>2, <1>2
<1> HIDE DEF p
<1>5. BodySize(tag % 8, ReadVarint(p)) = Len(p) /\ Len(p) > 0
  <2>1. ReadVarint(p).len = VarintSize(z) /\ ReadVarint(p).val = z
    BY <1>3
  <2>2. BodySize(2, ReadVarint(p)) = IF ReadVarint(p).len = 0 THEN 0
                                     ELSE ReadVarint(p).len + ReadVarint(p).val
    BY DEF BodySize
  <2> HIDE DEF z
  <2> QED
    BY <2>1, <2>2, <1>1, <1>2, <1>4
<1>6. /\ TagOf(b).val = tag /\ BodyOf(b) = p /\ SizeOf(b) = Len(p) /\ Well(b)
      /\ RawOf(b) = b /\ b \in ByteSeqs
  BY <1>4, <1>5, WholeField
<1> HIDE DEF b
<1>7. DataOf(b) = data
  <2>1. DataStart(b) = VarintSize(z) + 1
    BY <1>3, <1>6 DEF DataStart, HeadOf
  <2> QED
    BY <2>1, <1>4, <1>6 DEF DataOf
<1>8. ValOf(b) = 0
  BY <1>6 DEF ValOf
<1>9. b = LenField(tag, z, data)
  <2>2. Varint(tag) = <<tag>> /\ <<tag>> \in Seq(0 .. 255) /\ v \in Seq(0 .. 255) /\ data \in Seq(0 .. 255)
    BY <1>2, TagBytes DEF ByteSeqs
  <2>3. <<tag>> \o (v \o data) = (<<tag>> \o v) \o data
    BY <2>2
  <2> QED
    BY <2>2, <2>3 DEF b, p, v, LenField
<1>10. ReadField(b) = BytesField(tag, data)
  BY <1>6, <1>7, <1>8, <1>9, ReadFieldCases DEF BytesField, z
<1> QED
  BY <1>6, <1>10, WholeByReading

-----------------------------------------------------------------------------
(* The fields of a byte string. *)

\* The elements of a sequence from i on.
LEMMA SuffixOf ==
  ASSUME NEW S, NEW s \in Seq(S), NEW i \in 1 .. Len(s)
  PROVE  /\ SubSeq(s, i, Len(s)) \in Seq(S)
         /\ Len(SubSeq(s, i, Len(s))) = Len(s) - i + 1
         /\ \A k \in 1 .. Len(s) - i + 1 : SubSeq(s, i, Len(s))[k] = s[k + i - 1]
  OBVIOUS

\* The field that starts at i, and where the next one does.
FieldAt(b, i) == ReadField(SubSeq(b, i, Len(b)))
AfterField(b, i) == i + Len(FieldAt(b, i).raw)

\* v has the fields from i on, for every i from j on.
ScanStep(v, b, i) ==
  v[i] = IF i > Len(b) THEN <<>>
         ELSE <<FieldAt(b, i)>> \o (IF FieldAt(b, i) = Malformed THEN <<>>
                                    ELSE v[AfterField(b, i)])
Scans(v, b, j) == \A i \in j .. Len(b) + 1 : ScanStep(v, b, i) /\ v[i] \in Seq(Parts)

\* The field at a position, and where the next one starts.
LEMMA FieldAtType ==
  ASSUME NEW b \in ByteSeqs, NEW i \in 1 .. Len(b)
  PROVE  /\ FieldAt(b, i) \in Parts
         /\ FieldAt(b, i) # Malformed => AfterField(b, i) \in i + 1 .. Len(b) + 1
<1> DEFINE c == SubSeq(b, i, Len(b))
<1>1. Len(b) \in Nat /\ i \in Nat /\ i >= 1 /\ i <= Len(b)
  BY ByteAt
<1>2. c \in ByteSeqs /\ Len(c) = Len(b) - i + 1
  BY SuffixOf DEF ByteSeqs
<1> HIDE DEF c
<1>3. /\ ReadField(c) \in Parts
      /\ ReadField(c) # Malformed => Len(ReadField(c).raw) \in 1 .. Len(c)
  BY <1>2, ReadFieldType, ReadFieldPart
<1>4. FieldAt(b, i) = ReadField(c)
  BY DEF FieldAt, c
<1>5. FieldAt(b, i) # Malformed => AfterField(b, i) \in i + 1 .. Len(b) + 1
  <2> DEFINE z == Len(ReadField(c).raw)
  <2>1. SUFFICES ASSUME FieldAt(b, i) # Malformed PROVE i + z \in i + 1 .. Len(b) + 1
    BY <1>4 DEF AfterField
  <2>2. z \in 1 .. Len(c)
    BY <2>1, <1>3, <1>4
  <2> HIDE DEF z
  <2> QED
    BY <2>2, <1>1, <1>2
<1> QED
  BY <1>3, <1>4, <1>5

\* One step of the scan has the type if the later ones have.
LEMMA ScanStepType ==
  ASSUME NEW b \in ByteSeqs, NEW i \in 1 .. Len(b) + 1, NEW v, ScanStep(v, b, i),
         \A k \in i + 1 .. Len(b) + 1 : v[k] \in Seq(Parts)
  PROVE  v[i] \in Seq(Parts)
<1>1. Len(b) \in Nat
  BY ByteAt
<1>2. CASE i > Len(b)
  BY <1>2 DEF ScanStep
<1>3. CASE ~(i > Len(b))
  <2>1. i \in 1 .. Len(b)
    BY <1>1, <1>3
  <2> DEFINE rest == IF FieldAt(b, i) = Malformed THEN <<>> ELSE v[AfterField(b, i)]
  <2>2. FieldAt(b, i) \in Parts
    BY <2>1, FieldAtType
  <2>3. rest \in Seq(Parts)
    BY <2>1, FieldAtType
  <2>4. v[i] = <<FieldAt(b, i)>> \o rest
    BY <1>3 DEF ScanStep
  <2> HIDE DEF rest
  <2> QED
    BY <2>2, <2>3, <2>4
<1> QED
  BY <1>2, <1>3

\* There is such a scan.
LEMMA ScansExist ==
  ASSUME NEW b \in ByteSeqs
  PROVE  \E v : Scans(v, b, 1)
<1> DEFINE n == Len(b)
           T == {k \in Nat : k <= n => \E v : Scans(v, b, n + 1 - k)}
<1>1. n \in Nat
  BY ByteAt
<1>2. 0 \in T
  <2> DEFINE v == [i \in {n + 1} |-> <<>>]
  <2>1. ASSUME NEW i \in n + 1 .. n + 1 PROVE ScanStep(v, b, i) /\ v[i] \in Seq(Parts)
    <3>1. i = n + 1 /\ i > n
      BY <1>1
    <3> QED
      BY <3>1 DEF ScanStep
  <2> HIDE DEF v
  <2>2. Scans(v, b, n + 1)
    BY <2>1 DEF Scans
  <2>3. n + 1 - 0 = n + 1
    BY <1>1
  <2> QED
    BY <2>2, <2>3
<1>3. ASSUME NEW k \in Nat \ {0}, k - 1 \in T PROVE k \in T
  <2>1. SUFFICES ASSUME k <= n PROVE \E v : Scans(v, b, n + 1 - k)
    OBVIOUS
  <2> DEFINE j == n + 1 - k
  <2>2. j \in 1 .. n /\ n + 1 - (k - 1) = j + 1 /\ k - 1 <= n
    BY <1>1, <2>1
  <2>3. PICK v : Scans(v, b, j + 1)
    BY <1>3, <2>2
  <2> HIDE DEF j
  <2> DEFINE first == <<FieldAt(b, j)>> \o (IF FieldAt(b, j) = Malformed THEN <<>>
                                            ELSE v[AfterField(b, j)])
             w == [i \in j .. n + 1 |-> IF i = j THEN first ELSE v[i]]
  <2>4. w[j] = first /\ \A i \in j + 1 .. n + 1 : w[i] = v[i]
    BY <1>1, <2>2
  <2> HIDE DEF w
  <2>5. ASSUME NEW i \in j + 1 .. n + 1 PROVE ScanStep(w, b, i) /\ w[i] \in Seq(Parts)
    <3>1. ScanStep(v, b, i) /\ v[i] \in Seq(Parts) /\ w[i] = v[i]
      BY <2>3, <2>4 DEF Scans
    <3>2. CASE i > n
      BY <3>1, <3>2 DEF ScanStep
    <3>3. CASE ~(i > n)
      <4>1. i \in 1 .. n
        BY <3>3, <1>1, <2>2
      <4>2. FieldAt(b, i) # Malformed => AfterField(b, i) \in j + 1 .. n + 1
        <5>1. FieldAt(b, i) # Malformed => AfterField(b, i) \in i + 1 .. n + 1
          BY <4>1, FieldAtType
        <5> QED
          BY <5>1, <1>1, <2>2
      <4>3. FieldAt(b, i) # Malformed => w[AfterField(b, i)] = v[AfterField(b, i)]
        BY <4>2, <2>4
      <4> QED
        BY <3>1, <4>3 DEF ScanStep
    <3> QED
      BY <3>2, <3>3
  <2>6. ScanStep(w, b, j)
    <3>1. FieldAt(b, j) # Malformed => AfterField(b, j) \in j + 1 .. n + 1
      BY <2>2, FieldAtType
    <3>2. FieldAt(b, j) # Malformed => w[AfterField(b, j)] = v[AfterField(b, j)]
      BY <3>1, <2>4
    <3>3. ~(j > n)
      BY <1>1, <2>2
    <3> QED
      BY <3>2, <3>3, <2>4 DEF ScanStep
  <2>7. w[j] \in Seq(Parts)
    <3>1. j \in 1 .. n + 1
      BY <1>1, <2>2
    <3>2. \A i \in j + 1 .. n + 1 : w[i] \in Seq(Parts)
      BY <2>5
    <3> QED
      BY <3>1, <3>2, <2>6, ScanStepType
  <2>8. \A i \in j .. n + 1 : i = j \/ i \in j + 1 .. n + 1
    BY <1>1, <2>2
  <2>9. Scans(w, b, j)
    BY <2>5, <2>6, <2>7, <2>8 DEF Scans
  <2> QED
    BY <2>9 DEF j
<1> HIDE DEF T
<1>4. n \in T
  BY <1>1, <1>2, <1>3, NatSetInduction
<1>5. \E v : Scans(v, b, n + 1 - n)
  BY <1>1, <1>4 DEF T
<1>6. n + 1 - n = 1
  BY <1>1
<1> QED
  BY <1>5, <1>6

\* The scan of the rest of a byte string is the rest of its scan.
LEMMA ScansAgree ==
  ASSUME NEW b \in ByteSeqs, NEW m \in 0 .. Len(b), NEW v, NEW w,
         Scans(v, b, 1), Scans(w, SubSeq(b, m + 1, Len(b)), 1)
  PROVE  w[1] = v[m + 1]
<1> DEFINE c == SubSeq(b, m + 1, Len(b))
           n == Len(c)
<1>1. /\ c \in ByteSeqs /\ n = Len(b) - m /\ n \in Nat /\ m \in Nat /\ Len(b) \in Nat
  <2>1. Len(b) \in Nat
    BY ByteAt
  <2>2. c \in ByteSeqs /\ n = Len(b) - m
    BY RestOf DEF ByteSeqs
  <2> QED
    BY <2>1, <2>2
<1>2. ASSUME NEW i \in 1 .. n PROVE FieldAt(c, i) = FieldAt(b, m + i)
  <2>1. SubSeq(c, i, n) = SubSeq(b, m + i, Len(b))
    <3> DEFINE s == SubSeq(c, i, n)
               r == SubSeq(b, m + i, Len(b))
    <3>1. /\ i \in 1 .. Len(c) /\ m + i \in 1 .. Len(b) /\ m + i \in Nat
          /\ Len(b) - (m + i) + 1 = n - i + 1 /\ n = Len(c)
      BY <1>1
    <3>2. /\ s \in Seq(0 .. 255) /\ Len(s) = n - i + 1
          /\ \A k \in 1 .. n - i + 1 : s[k] = c[k + i - 1]
      <4> HIDE DEF c
      <4> QED
        BY ZenonT(30), <3>1, <1>1, SuffixOf DEF ByteSeqs
    <3>3. PICK j \in 1 .. Len(b) : j = m + i
      BY <3>1
    <3>7. /\ SubSeq(b, j, Len(b)) \in Seq(0 .. 255)
          /\ Len(SubSeq(b, j, Len(b))) = Len(b) - j + 1
          /\ \A k \in 1 .. Len(b) - j + 1 : SubSeq(b, j, Len(b))[k] = b[k + j - 1]
      BY SuffixOf DEF ByteSeqs
    <3>8. r = SubSeq(b, j, Len(b))
      BY <3>3
    <3>4. \A k \in 1 .. Len(b) - m : c[k] = b[m + k]
      BY RestOf DEF ByteSeqs
    <3> HIDE DEF s, r, c, n
    <3>5. ASSUME NEW k \in 1 .. n - i + 1 PROVE s[k] = r[k]
      <4>1. k + i - 1 \in 1 .. Len(b) - m /\ m + (k + i - 1) = k + j - 1
            /\ k \in 1 .. Len(b) - j + 1
        BY <1>1, <3>1, <3>3
      <4>2. s[k] = c[k + i - 1] /\ r[k] = b[k + j - 1]
        BY <4>1, <3>2, <3>7, <3>8
      <4>3. c[k + i - 1] = b[m + (k + i - 1)]
        BY <4>1, <3>4
      <4> QED
        BY <4>1, <4>2, <4>3
    <3>9. Len(s) = Len(r) /\ r \in Seq(0 .. 255) /\ Len(s) = n - i + 1
      BY <3>1, <3>2, <3>3, <3>7, <3>8
    <3>6. s = r
      <4>1. Len(s) = Len(r) /\ \A k \in 1 .. Len(s) : s[k] = r[k]
        BY <3>5, <3>9
      <4> QED
        BY ONLY <4>1, <3>2, <3>9, SameSequence
    <3> QED
      BY <3>6 DEF s, r
  <2> QED
    BY <2>1 DEF FieldAt
<1> HIDE DEF c, n
<1> DEFINE T == {k \in Nat : \A i \in 1 .. n + 1 : n + 1 - i <= k => w[i] = v[m + i]}
<1>3. Scans(w, c, 1)
  BY DEF c
<1>4. ASSUME NEW i \in 1 .. n + 1
      PROVE  /\ i > n => w[i] = v[m + i]
             /\ FieldAt(c, i) = Malformed => w[i] = v[m + i]
             /\ /\ i <= n /\ FieldAt(c, i) # Malformed
                /\ w[AfterField(c, i)] = v[m + AfterField(c, i)]
                => w[i] = v[m + i]
  <2>1. ScanStep(w, c, i) /\ ScanStep(v, b, m + i)
    <3>1. i \in 1 .. Len(c) + 1 /\ m + i \in 1 .. Len(b) + 1
      BY <1>1 DEF n
    <3> QED
      BY <3>1, <1>3 DEF Scans
  <2>2. i > n <=> m + i > Len(b)
    BY <1>1
  <2>3. CASE i > n
    BY <2>1, <2>2, <2>3 DEF ScanStep, n
  <2>4. CASE ~(i > n)
    <3>1. i \in 1 .. n
      BY <1>1, <2>4
    <3>2. FieldAt(c, i) = FieldAt(b, m + i)
      BY <1>2, <3>1
    <3>3. CASE FieldAt(c, i) = Malformed
      BY <2>1, <2>2, <2>4, <3>2, <3>3 DEF ScanStep, n
    <3>4. CASE FieldAt(c, i) # Malformed
      <4>1. AfterField(c, i) \in i + 1 .. n + 1
        BY <3>1, <3>4, <1>1, FieldAtType DEF n
      <4>2. AfterField(c, i) = i + Len(FieldAt(c, i).raw)
            /\ AfterField(b, m + i) = m + i + Len(FieldAt(c, i).raw)
        BY <3>2 DEF AfterField
      <4>3. FieldAt(c, i).raw \in ByteSeqs
        BY <3>1, <1>1, FieldAtType DEF Parts, FieldSet, n
      <4>4. Len(FieldAt(c, i).raw) \in Nat
        BY <4>3, ByteAt
      <4>5. AfterField(b, m + i) = m + AfterField(c, i)
        <5>1. PICK z \in Nat : z = Len(FieldAt(c, i).raw)
          BY <4>4
        <5>2. i \in Nat /\ m \in Nat
          BY <1>1
        <5>3. m + i + z = m + (i + z)
          BY ONLY <5>2, z \in Nat
        <5> QED
          BY <4>2, <5>1, <5>3
      <4> QED
        BY <2>1, <2>2, <2>4, <3>2, <3>4, <4>5 DEF ScanStep, n
    <3> QED
      BY <3>3, <3>4
  <2> QED
    BY <2>3, <2>4
<1>5. 0 \in T
  <2>1. ASSUME NEW i \in 1 .. n + 1, n + 1 - i <= 0 PROVE w[i] = v[m + i]
    <3>1. i > n
      BY <2>1, <1>1
    <3> QED
      BY <3>1, <1>4
  <2> QED
    BY <2>1
<1>6. ASSUME NEW k \in Nat \ {0}, k - 1 \in T PROVE k \in T
  <2>1. SUFFICES ASSUME NEW i \in 1 .. n + 1, n + 1 - i <= k PROVE w[i] = v[m + i]
    OBVIOUS
  <2>2. CASE i > n \/ FieldAt(c, i) = Malformed
    BY <2>2, <1>4
  <2>3. CASE ~(i > n) /\ FieldAt(c, i) # Malformed
    <3>1. i \in 1 .. n
      BY <1>1, <2>3
    <3>2. AfterField(c, i) \in i + 1 .. n + 1
      BY <3>1, <2>3, <1>1, FieldAtType DEF n
    <3>3. PICK a \in i + 1 .. n + 1 : a = AfterField(c, i)
      BY <3>2
    <3>4. a \in 1 .. n + 1 /\ n + 1 - a <= k - 1
      BY <1>1, <2>1, <3>1
    <3>5. w[a] = v[m + a]
      BY <3>4, <1>6
    <3>6. i <= n
      BY <3>1, <1>1
    <3> QED
      BY <3>3, <3>5, <3>6, <2>3, <1>4
  <2> QED
    BY <2>2, <2>3
<1>7. n \in T
  <2> HIDE DEF T
  <2> QED
    BY <1>1, <1>5, <1>6, NatSetInduction
<1>8. 1 \in 1 .. n + 1 /\ n + 1 - 1 <= n
  BY <1>1
<1> QED
  BY <1>7, <1>8

\* Fields is such a scan.
LEMMA FieldsScan ==
  ASSUME NEW b \in ByteSeqs
  PROVE  \E v : Scans(v, b, 1) /\ Fields(b) = v[1]
<1> DEFINE Is(v) == v = [i \in 1 .. Len(b) + 1 |->
                          IF i > Len(b) THEN <<>>
                          ELSE <<FieldAt(b, i)>> \o (IF FieldAt(b, i) = Malformed THEN <<>>
                                                     ELSE v[AfterField(b, i)])]
           from == CHOOSE v : Is(v)
<1>1. Fields(b) = from[1]
  BY DEF Fields, FieldAt, AfterField
<1>2. PICK v : Scans(v, b, 1)
  BY ScansExist
<1> DEFINE g == [i \in 1 .. Len(b) + 1 |-> v[i]]
<1>3. Len(b) \in Nat
  BY ByteAt
<1>4. ASSUME NEW i \in 1 .. Len(b) + 1 PROVE ScanStep(g, b, i)
  <2>1. ScanStep(v, b, i) /\ g[i] = v[i]
    BY <1>2 DEF Scans
  <2>2. CASE i > Len(b)
    BY <2>1, <2>2 DEF ScanStep
  <2>3. CASE ~(i > Len(b))
    <3>1. i \in 1 .. Len(b)
      BY <1>3, <2>3
    <3>2. FieldAt(b, i) # Malformed => AfterField(b, i) \in i + 1 .. Len(b) + 1
      BY <3>1, FieldAtType
    <3>3. FieldAt(b, i) # Malformed => AfterField(b, i) \in 1 .. Len(b) + 1
      BY <3>1, <3>2, <1>3
    <3>4. FieldAt(b, i) # Malformed => g[AfterField(b, i)] = v[AfterField(b, i)]
      BY <3>3
    <3> HIDE DEF g
    <3> QED
      BY <2>1, <3>4 DEF ScanStep
  <2> QED
    BY <2>2, <2>3
<1>5. DOMAIN g = 1 .. Len(b) + 1 /\ g = [i \in DOMAIN g |-> g[i]]
  OBVIOUS
<1> HIDE DEF g
<1>6. Is(g)
  BY <1>4, <1>5 DEF ScanStep
<1> HIDE DEF Is
<1>7. Is(from)
  BY <1>6
<1>8. ASSUME NEW i \in 1 .. Len(b) + 1 PROVE ScanStep(from, b, i)
  BY <1>7 DEF Is, ScanStep
<1>9. ASSUME NEW k \in Nat PROVE \A i \in 1 .. Len(b) + 1 : i > Len(b) + 1 - k => from[i] \in Seq(Parts)
  <2> DEFINE T == {n \in Nat : \A i \in 1 .. Len(b) + 1 : i > Len(b) + 1 - n => from[i] \in Seq(Parts)}
  <2>1. 0 \in T
    BY <1>3
  <2>2. ASSUME NEW n \in Nat \ {0}, n - 1 \in T PROVE n \in T
    <3>1. SUFFICES ASSUME NEW i \in 1 .. Len(b) + 1, i > Len(b) + 1 - n
                   PROVE  from[i] \in Seq(Parts)
      OBVIOUS
    <3>2. ASSUME NEW j \in i + 1 .. Len(b) + 1 PROVE from[j] \in Seq(Parts)
      <4>1. j \in 1 .. Len(b) + 1 /\ j > Len(b) + 1 - (n - 1)
        BY <1>3, <3>1
      <4> QED
        BY <2>2, <4>1
    <3> HIDE DEF from, T
    <3> QED
      BY <3>2, <1>8, ScanStepType
  <2> HIDE DEF T
  <2>3. k \in T
    BY <2>1, <2>2, NatSetInduction
  <2> QED
    BY <2>3 DEF T
<1>10. ASSUME NEW i \in 1 .. Len(b) + 1 PROVE from[i] \in Seq(Parts)
  <2> DEFINE k == Len(b) + 2
  <2>1. k \in Nat /\ i > Len(b) + 1 - k
    BY <1>3
  <2> HIDE DEF k, from
  <2> QED
    BY <2>1, <1>9
<1>11. Scans(from, b, 1)
  BY <1>8, <1>10 DEF Scans
<1> QED
  BY <1>1, <1>11

\* A byte string without its first k bytes.
Behind(b, k) == SubSeq(b, k + 1, Len(b))

\* The fields of a byte string are its first one and those of the rest.
LEMMA FieldsIs ==
  ASSUME NEW b \in ByteSeqs
  PROVE  /\ Fields(b) \in Seq(Parts)
         /\ b = <<>> => Fields(b) = <<>>
         /\ b # <<>> => Fields(b) = <<ReadField(b)>> \o
                          (IF ReadField(b) = Malformed THEN <<>>
                           ELSE Fields(Behind(b, Len(ReadField(b).raw))))
<1>1. PICK v : Scans(v, b, 1) /\ Fields(b) = v[1]
  BY FieldsScan
<1>2. Len(b) \in Nat /\ 1 \in 1 .. Len(b) + 1
  BY ByteAt
<1>3. ScanStep(v, b, 1) /\ v[1] \in Seq(Parts)
  BY <1>1, <1>2 DEF Scans
<1>4. b = <<>> <=> 1 > Len(b)
  BY <1>2 DEF ByteSeqs
<1>5. CASE b = <<>>
  BY <1>1, <1>3, <1>4, <1>5 DEF ScanStep
<1>6. CASE b # <<>>
  <2>1. SubSeq(b, 1, Len(b)) = b
    BY DEF ByteSeqs
  <2>2. FieldAt(b, 1) = ReadField(b) /\ AfterField(b, 1) = 1 + Len(ReadField(b).raw)
    BY <2>1 DEF FieldAt, AfterField
  <2>3. v[1] = <<ReadField(b)>> \o (IF ReadField(b) = Malformed THEN <<>>
                                    ELSE v[1 + Len(ReadField(b).raw)])
    BY <1>3, <1>4, <1>6, <2>2 DEF ScanStep
  <2>4. ASSUME ReadField(b) # Malformed
        PROVE  v[1 + Len(ReadField(b).raw)] = Fields(Behind(b, Len(ReadField(b).raw)))
    <3>1. PICK m \in 1 .. Len(b) : m = Len(ReadField(b).raw)
      BY <2>4, ReadFieldType
    <3>2. m \in 0 .. Len(b) /\ 1 + m = m + 1
      BY <1>2
    <3>3. Behind(b, m) \in ByteSeqs
      BY <3>2, RestOf DEF Behind, ByteSeqs
    <3>4. PICK w : Scans(w, Behind(b, m), 1) /\ Fields(Behind(b, m)) = w[1]
      BY <3>3, FieldsScan
    <3>5. w[1] = v[m + 1]
      BY <1>1, <3>2, <3>4, ScansAgree DEF Behind
    <3> QED
      BY <3>1, <3>2, <3>4, <3>5
  <2> QED
    BY <1>1, <1>3, <1>6, <2>3, <2>4
<1> QED
  BY <1>5, <1>6

\* b is the fields fs, whatever follows it.
NoneMalformed(fs) == \A i \in 1 .. Len(fs) : fs[i] # Malformed
Encodes(b, fs) ==
  /\ b \in ByteSeqs /\ fs \in Seq(Parts) /\ NoneMalformed(fs)
  /\ \A rest \in ByteSeqs : Fields(b \o rest) = fs \o Fields(rest)

\* Empty sequences.
LEMMA NothingThen ==
  ASSUME NEW S, NEW s \in Seq(S)
  PROVE  <<>> \o s = s /\ s \o <<>> = s /\ <<>> \in Seq(S)
  OBVIOUS

\* Three sequences are joined in either order.
LEMMA Join ==
  ASSUME NEW S, NEW a \in Seq(S), NEW b \in Seq(S), NEW c \in Seq(S)
  PROVE  (a \o b) \o c = a \o (b \o c) /\ a \o b \in Seq(S)
  OBVIOUS

\* What a sequence and a further one have, each has.
LEMMA JoinAll ==
  ASSUME NEW S, NEW s \in Seq(S), NEW r \in Seq(S), NEW P,
         \A i \in 1 .. Len(s) : s[i] \in P, \A i \in 1 .. Len(r) : r[i] \in P
  PROVE  \A i \in 1 .. Len(s \o r) : (s \o r)[i] \in P
  OBVIOUS
\* And the other way round.
LEMMA JoinOf ==
  ASSUME NEW S, NEW s \in Seq(S), NEW r \in Seq(S), NEW P,
         \A i \in 1 .. Len(s \o r) : (s \o r)[i] \in P
  PROVE  (\A i \in 1 .. Len(s) : s[i] \in P) /\ (\A i \in 1 .. Len(r) : r[i] \in P)
<1> DEFINE t == s \o r
<1>1. /\ \A i \in 1 .. Len(s) : t[i] = s[i] /\ i \in 1 .. Len(t)
      /\ \A i \in 1 .. Len(r) : t[Len(s) + i] = r[i] /\ Len(s) + i \in 1 .. Len(t)
  OBVIOUS
<1> HIDE DEF t
<1>2. \A i \in 1 .. Len(t) : t[i] \in P
  BY DEF t
<1> QED
  BY <1>1, <1>2

\* Two sequences of fields have none that is malformed iff each has none.
LEMMA NoneMalformedJoin ==
  ASSUME NEW fs \in Seq(Parts), NEW hs \in Seq(Parts)
  PROVE  NoneMalformed(fs \o hs) <=> NoneMalformed(fs) /\ NoneMalformed(hs)
<1> DEFINE P == {f \in Parts : f # Malformed}
<1>1. ASSUME NEW s \in Seq(Parts)
      PROVE  NoneMalformed(s) <=> \A i \in 1 .. Len(s) : s[i] \in P
  <2>1. \A i \in 1 .. Len(s) : s[i] \in Parts
    OBVIOUS
  <2> QED
    BY <2>1 DEF NoneMalformed
<1>2. fs \o hs \in Seq(Parts)
  OBVIOUS
<1> HIDE DEF P
<1>3. ASSUME NoneMalformed(fs), NoneMalformed(hs) PROVE NoneMalformed(fs \o hs)
  BY <1>1, <1>2, <1>3, JoinAll
<1>4. ASSUME NoneMalformed(fs \o hs) PROVE NoneMalformed(fs) /\ NoneMalformed(hs)
  BY ZenonT(30), <1>1, <1>2, <1>4, JoinOf
<1> QED
  BY <1>3, <1>4

\* No byte is no field.
LEMMA EncodesNothing == Encodes(<<>>, <<>>)
<1>1. <<>> \in ByteSeqs /\ <<>> \in Seq(Parts) /\ NoneMalformed(<<>>)
  BY DEF ByteSeqs, NoneMalformed
<1>2. ASSUME NEW rest \in ByteSeqs PROVE Fields(<<>> \o rest) = <<>> \o Fields(rest)
  <2>1. <<>> \o rest = rest
    BY NothingThen DEF ByteSeqs
  <2>2. <<>> \o Fields(rest) = Fields(rest)
    BY FieldsIs, NothingThen
  <2> QED
    BY <2>1, <2>2
<1> QED
  BY <1>1, <1>2 DEF Encodes

\* The bytes of a whole field are that field.
LEMMA EncodesWhole ==
  ASSUME NEW f, Whole(f)
  PROVE  Encodes(f.raw, <<f>>)
<1>1. f \in Parts /\ f # Malformed /\ f.raw \in ByteSeqs /\ f.raw # <<>>
  BY DEF Whole, Parts, FieldSet
<1>2. <<f>> \in Seq(Parts) /\ NoneMalformed(<<f>>)
  BY <1>1 DEF NoneMalformed
<1>3. ASSUME NEW rest \in ByteSeqs PROVE Fields(f.raw \o rest) = <<f>> \o Fields(rest)
  <2> DEFINE r == f.raw
             c == r \o rest
  <2>1. c \in ByteSeqs /\ c # <<>> /\ Behind(c, Len(r)) = rest
    <3>1. r \in Seq(0 .. 255) /\ r # <<>> /\ rest \in Seq(0 .. 255)
      BY <1>1 DEF ByteSeqs
    <3> HIDE DEF r
    <3> QED
      BY <3>1, CutConcat DEF Behind, ByteSeqs
  <2>2. ReadField(c) = f
    BY DEF Whole
  <2> HIDE DEF c
  <2>3. Fields(c) = <<f>> \o Fields(Behind(c, Len(r)))
    BY <2>1, <2>2, <1>1, FieldsIs
  <2> QED
    BY <2>1, <2>3 DEF c
<1> QED
  BY <1>1, <1>2, <1>3 DEF Encodes

\* Byte strings one after the other are the fields one after the other.
LEMMA EncodesThen ==
  ASSUME NEW b, NEW c, NEW fs, NEW hs, Encodes(b, fs), Encodes(c, hs)
  PROVE  Encodes(b \o c, fs \o hs)
<1>1. b \in ByteSeqs /\ fs \in Seq(Parts) /\ c \in ByteSeqs /\ hs \in Seq(Parts)
      /\ NoneMalformed(fs) /\ NoneMalformed(hs)
  BY DEF Encodes
<1>2. b \o c \in ByteSeqs /\ fs \o hs \in Seq(Parts)
  BY <1>1 DEF ByteSeqs
<1>3. NoneMalformed(fs \o hs)
  BY <1>1, NoneMalformedJoin
<1>4. ASSUME NEW rest \in ByteSeqs PROVE Fields((b \o c) \o rest) = (fs \o hs) \o Fields(rest)
  <2>1. (b \o c) \o rest = b \o (c \o rest) /\ c \o rest \in ByteSeqs
    BY SMTT(30), <1>1, Join DEF ByteSeqs
  <2>2. Fields(b \o (c \o rest)) = fs \o Fields(c \o rest)
    BY <2>1 DEF Encodes
  <2>3. Fields(c \o rest) = hs \o Fields(rest)
    BY DEF Encodes
  <2>4. Fields(rest) \in Seq(Parts)
    BY FieldsIs
  <2>5. (fs \o hs) \o Fields(rest) = fs \o (hs \o Fields(rest))
    BY <1>1, <2>4, Join
  <2> QED
    BY <2>1, <2>2, <2>3, <2>5
<1> QED
  BY <1>2, <1>3, <1>4 DEF Encodes

\* These are the fields that Fields finds.
LEMMA EncodesFields ==
  ASSUME NEW b, NEW fs, Encodes(b, fs)
  PROVE  Fields(b) = fs
<1>1. b \in ByteSeqs /\ fs \in Seq(Parts) /\ <<>> \in ByteSeqs
  BY DEF Encodes, ByteSeqs
<1>2. Fields(b \o <<>>) = fs \o Fields(<<>>) /\ Fields(<<>>) = <<>>
  BY <1>1, FieldsIs DEF Encodes
<1>3. b \o <<>> = b /\ fs \o <<>> = fs
  BY <1>1, NothingThen DEF ByteSeqs
<1> QED
  BY <1>2, <1>3

\* A byte string that can be read is its fields.
LEMMA ReadableEncodes ==
  ASSUME NEW b \in ByteSeqs, NoneMalformed(Fields(b))
  PROVE  Encodes(b, Fields(b))
<1> DEFINE T == {n \in Nat : \A c \in ByteSeqs : Len(c) <= n /\ NoneMalformed(Fields(c))
                                                   => Encodes(c, Fields(c))}
<1>1. ASSUME NEW c \in ByteSeqs, c = <<>> PROVE Encodes(c, Fields(c))
  BY <1>1, EncodesNothing, FieldsIs
<1>2. 0 \in T
  <2>1. ASSUME NEW c \in ByteSeqs, Len(c) <= 0 PROVE c = <<>>
    BY <2>1 DEF ByteSeqs
  <2> QED
    BY <2>1, <1>1
<1>3. ASSUME NEW n \in Nat \ {0}, n - 1 \in T PROVE n \in T
  <2>1. SUFFICES ASSUME NEW c \in ByteSeqs, Len(c) <= n, NoneMalformed(Fields(c)), c # <<>>
                 PROVE  Encodes(c, Fields(c))
    BY <1>1
  <2> DEFINE f == ReadField(c)
             k == Len(f.raw)
             d == Behind(c, k)
  <2>2. Fields(c) = <<f>> \o (IF f = Malformed THEN <<>> ELSE Fields(d))
    BY <2>1, FieldsIs
  <2>3. f \in Parts
    BY ReadFieldPart
  <2>4. f # Malformed
    <3> DEFINE hs == IF f = Malformed THEN <<>> ELSE Fields(d)
    <3>1. Fields(c) \in Seq(Parts) /\ Fields(c) # <<>> /\ Fields(c)[1] = f
      <4>1. f = Malformed => hs = <<>>
        OBVIOUS
      <4>2. f # Malformed => d \in ByteSeqs
        <5>1. f # Malformed => k \in 1 .. Len(c)
          BY ReadFieldType
        <5>2. Len(c) \in Nat
          BY ByteAt
        <5>3. f # Malformed => k \in 0 .. Len(c)
          BY <5>1, <5>2
        <5> HIDE DEF k
        <5> QED
          BY <5>3, RestOf DEF Behind, ByteSeqs
      <4>3. hs \in Seq(Parts)
        <5>1. f # Malformed => hs = Fields(d)
          OBVIOUS
        <5> HIDE DEF f, d, hs
        <5>2. <<>> \in Seq(Parts)
          OBVIOUS
        <5> QED
          BY <4>1, <4>2, <5>1, <5>2, FieldsIs
      <4>4. Fields(c) = <<f>> \o hs
        BY <2>2
      <4> HIDE DEF f, hs
      <4> QED
        BY <4>3, <4>4, <2>3
    <3>2. 1 \in 1 .. Len(Fields(c))
      BY <3>1
    <3> QED
      BY <2>1, <3>1, <3>2 DEF NoneMalformed
  <2>5. Whole(f) /\ f.raw = RawOf(c) /\ Well(c) /\ k \in 1 .. Len(c)
    BY <2>4, ReadIsWhole, ReadFieldType
  <2>6. d \in ByteSeqs /\ Len(d) = Len(c) - k /\ Len(c) \in Nat
        /\ \A i \in 1 .. Len(c) - k : d[i] = c[k + i]
    <3>1. Len(c) \in Nat /\ k \in 0 .. Len(c)
      BY <2>5, ByteAt
    <3> HIDE DEF k
    <3> QED
      BY <3>1, RestOf DEF Behind, ByteSeqs
  <2>7. c = f.raw \o d
    <3> DEFINE r == f.raw
    <3>1. r \in ByteSeqs /\ \A i \in 1 .. Len(r) : r[i] = c[i]
      BY <2>5, WellParts
    <3>2. k = Len(r)
      OBVIOUS
    <3> HIDE DEF r, k, d
    <3>3. /\ r \o d \in ByteSeqs /\ Len(r \o d) = Len(r) + Len(d) /\ Len(r) \in Nat
          /\ \A i \in 1 .. Len(r) : (r \o d)[i] = r[i]
          /\ \A i \in 1 .. Len(d) : (r \o d)[Len(r) + i] = d[i]
      BY <3>1, <2>6, ConcatBytes
    <3> DEFINE e == r \o d
    <3>4. e \in Seq(0 .. 255) /\ c \in Seq(0 .. 255) /\ Len(e) = Len(c)
      <4>1. Len(e) = k + (Len(c) - k)
        BY <2>6, <3>2, <3>3
      <4>2. Len(c) \in Nat /\ k \in 1 .. Len(c)
        BY <2>5, <2>6
      <4>3. k + (Len(c) - k) = Len(c)
        BY <4>2
      <4> QED
        BY <4>1, <4>3, <3>3 DEF ByteSeqs
    <3>5. ASSUME NEW i \in 1 .. Len(c) PROVE e[i] = c[i]
      <4>1. CASE i <= k
        <5>1. i \in 1 .. Len(r)
          BY <4>1, <3>2, <3>3
        <5> QED
          BY <5>1, <3>1, <3>3
      <4>2. CASE ~(i <= k)
        <5>1. i - k \in 1 .. Len(c) - k /\ k + (i - k) = i
          BY <4>2, <2>5, <2>6
        <5>2. d[i - k] = c[k + (i - k)]
          BY <5>1, <2>6
        <5>3. e[Len(r) + (i - k)] = d[i - k]
          BY <5>1, <2>6, <3>3
        <5> QED
          BY <5>1, <5>2, <5>3, <3>2
      <4> QED
        BY <4>1, <4>2
    <3> HIDE DEF e
    <3>6. e = c
      BY <3>4, <3>5
    <3> QED
      BY <3>6 DEF e, r
  <2>8. Fields(c) = <<f>> \o Fields(d) /\ Fields(d) \in Seq(Parts)
    BY <2>2, <2>4, <2>6, FieldsIs
  <2>9. NoneMalformed(Fields(d))
    <3>1. <<f>> \in Seq(Parts)
      BY <2>3
    <3> HIDE DEF f, d
    <3> QED
      BY <3>1, <2>1, <2>8, NoneMalformedJoin
  <2>10. Len(d) <= n - 1
    <3> HIDE DEF k, d
    <3> QED
      BY <2>1, <2>5, <2>6
  <2>11. Encodes(d, Fields(d)) /\ Encodes(f.raw, <<f>>)
    BY <1>3, <2>5, <2>6, <2>9, <2>10, EncodesWhole
  <2> HIDE DEF d, f, k
  <2>12. Encodes(f.raw \o d, <<f>> \o Fields(d))
    BY <2>11, EncodesThen
  <2> QED
    BY <2>7, <2>8, <2>12
<1>4. Len(b) \in Nat
  BY ByteAt
<1>5. Len(b) \in T
  <2> HIDE DEF T
  <2> QED
    BY <1>2, <1>3, <1>4, NatSetInduction
<1> QED
  BY <1>4, <1>5

\* Three byte strings are joined in either order.
LEMMA JoinBytes ==
  ASSUME NEW a \in ByteSeqs, NEW b \in ByteSeqs, NEW c \in ByteSeqs
  PROVE  (a \o b) \o c = a \o (b \o c)
  BY Join DEF ByteSeqs

-----------------------------------------------------------------------------
(* Reading a message from bytes that are whole fields. *)

\* A reader with this step gets from x to y with the fields of b, all in G, and
\* is in Z nowhere before its end.
Reads(step, x, b, y, Z, G) ==
  \E fs : /\ Encodes(b, fs) /\ Folds(step, x, fs, y, Z)
          /\ \A i \in 1 .. Len(fs) : fs[i] \in G

\* No byte changes nothing.
LEMMA ReadsNothing ==
  ASSUME NEW step, NEW x, NEW Z, NEW G
  PROVE  Reads(step, x, <<>>, x, Z, G)
<1>1. Encodes(<<>>, <<>>) /\ Folds(step, x, <<>>, x, Z)
  BY EncodesNothing, FoldsNothing
<1>2. \A i \in 1 .. Len(<<>>) : <<>>[i] \in G
  OBVIOUS
<1> QED
  BY <1>1, <1>2 DEF Reads

\* One field is one step.
LEMMA ReadsField ==
  ASSUME NEW step, NEW x, NEW f, NEW y, NEW Z, NEW G,
         Whole(f), f \in G, y = step[<<x, f>>], x \notin Z
  PROVE  Reads(step, x, f.raw, y, Z, G)
<1>1. Encodes(f.raw, <<f>>)
  BY EncodesWhole
<1>2. Folds(step, x, <<f>>, y, Z)
  BY FoldsOne
<1>3. \A i \in 1 .. Len(<<f>>) : <<f>>[i] \in G
  OBVIOUS
<1> QED
  BY <1>1, <1>2, <1>3 DEF Reads

\* One byte string after the other.
LEMMA ReadsThen ==
  ASSUME NEW step, NEW x, NEW b, NEW y, NEW c, NEW z, NEW Z, NEW G,
         Reads(step, x, b, y, Z, G), Reads(step, y, c, z, Z, G)
  PROVE  Reads(step, x, b \o c, z, Z, G)
<1>1. PICK fs : /\ Encodes(b, fs) /\ Folds(step, x, fs, y, Z)
                /\ \A i \in 1 .. Len(fs) : fs[i] \in G
  BY DEF Reads
<1>2. PICK hs : /\ Encodes(c, hs) /\ Folds(step, y, hs, z, Z)
                /\ \A i \in 1 .. Len(hs) : hs[i] \in G
  BY DEF Reads
<1>3. fs \in Seq(Parts) /\ hs \in Seq(Parts)
  BY <1>1, <1>2 DEF Encodes
<1>4. Encodes(b \o c, fs \o hs)
  BY <1>1, <1>2, EncodesThen
<1>5. Folds(step, x, fs \o hs, z, Z)
  BY <1>1, <1>2, <1>3, FoldsThen
<1>6. \A i \in 1 .. Len(fs \o hs) : (fs \o hs)[i] \in G
  BY <1>1, <1>2, <1>3, JoinAll
<1> QED
  BY <1>4, <1>5, <1>6 DEF Reads

\* One byte string after the other.
LEMMA ReadsFlatten ==
  ASSUME NEW step, NEW Z, NEW G, NEW s \in Seq(ByteSeqs), NEW h,
         \A i \in 1 .. Len(s) : Reads(step, h[i - 1], s[i], h[i], Z, G)
  PROVE  Reads(step, h[0], FlattenSeq(s), h[Len(s)], Z, G)
<1> DEFINE Flat(i) == FlattenSeq(SubSeq(s, 1, i))
           T == {i \in Nat : i <= Len(s) => Reads(step, h[0], Flat(i), h[i], Z, G)}
<1>0. s \in Seq(Seq(0 .. 255)) /\ Len(s) \in Nat
  BY SeqElements DEF ByteSeqs
<1>1. Flat(0) = <<>> /\ Flat(Len(s)) = FlattenSeq(s)
  BY <1>0, FlattenWhole
<1>2. ASSUME NEW i \in 1 .. Len(s) PROVE Flat(i) = Flat(i - 1) \o s[i]
  BY <1>0, FlattenStep
<1> HIDE DEF Flat
<1>3. 0 \in T
  BY <1>1, ReadsNothing
<1>4. ASSUME NEW i \in Nat \ {0}, i - 1 \in T PROVE i \in T
  <2>1. SUFFICES ASSUME i <= Len(s) PROVE Reads(step, h[0], Flat(i), h[i], Z, G)
    OBVIOUS
  <2>2. i \in 1 .. Len(s) /\ i - 1 <= Len(s)
    BY <2>1, <1>0
  <2>3. Reads(step, h[0], Flat(i - 1), h[i - 1], Z, G)
    BY <1>4, <2>2
  <2>4. Reads(step, h[0], Flat(i - 1) \o s[i], h[i], Z, G)
    BY <2>2, <2>3, ReadsThen
  <2> QED
    BY <2>2, <2>4, <1>2
<1>5. Len(s) \in T
  <2> HIDE DEF T
  <2> QED
    BY <1>0, <1>3, <1>4, NatSetInduction
<1> QED
  BY <1>0, <1>1, <1>5

\* The length of the concatenation is the sum of the lengths.
LEMMA FlattenLength ==
  ASSUME NEW S, NEW s \in Seq(Seq(S)), NEW g, g[0] = 0,
         \A i \in 1 .. Len(s) : g[i] = g[i - 1] + Len(s[i])
  PROVE  Len(FlattenSeq(s)) = g[Len(s)]
<1> DEFINE Flat(i) == FlattenSeq(SubSeq(s, 1, i))
           T == {i \in Nat : i <= Len(s) => Len(Flat(i)) = g[i]}
<1>0. Len(s) \in Nat /\ \A i \in 1 .. Len(s) : s[i] \in Seq(S)
  OBVIOUS
<1>1. Flat(0) = <<>> /\ Flat(Len(s)) = FlattenSeq(s) /\ \A i \in 0 .. Len(s) : Flat(i) \in Seq(S)
  BY FlattenWhole
<1>2. ASSUME NEW i \in 1 .. Len(s) PROVE Flat(i) = Flat(i - 1) \o s[i]
  BY FlattenStep
<1> HIDE DEF Flat
<1>3. 0 \in T
  BY <1>1
<1>4. ASSUME NEW i \in Nat \ {0}, i - 1 \in T PROVE i \in T
  <2>1. SUFFICES ASSUME i <= Len(s) PROVE Len(Flat(i)) = g[i]
    OBVIOUS
  <2>2. i \in 1 .. Len(s) /\ i - 1 \in 0 .. Len(s) /\ i - 1 <= Len(s)
    BY <2>1, <1>0
  <2>3. Len(Flat(i - 1)) = g[i - 1]
    BY <1>4, <2>2
  <2>4. Flat(i) = Flat(i - 1) \o s[i] /\ Flat(i - 1) \in Seq(S) /\ s[i] \in Seq(S)
    BY <1>0, <1>1, <1>2, <2>2
  <2>5. Len(Flat(i)) = Len(Flat(i - 1)) + Len(s[i])
    BY <2>4, ConcatKeeps
  <2>6. g[i] = g[i - 1] + Len(s[i])
    BY <2>2
  <2> QED
    BY <2>3, <2>5, <2>6
<1>5. Len(s) \in T
  <2> HIDE DEF T
  <2> QED
    BY <1>0, <1>3, <1>4, NatSetInduction
<1> QED
  BY <1>0, <1>1, <1>5

\* What a message keeps of fields it does not know: their bytes, one field
\* after the other.
Keeps(g, u, us) ==
  /\ g[0] = <<>> /\ g[Len(us)] = u
  /\ \A i \in 1 .. Len(us) : /\ g[i - 1] \in ByteSeqs /\ Len(g[i - 1]) < Len(u)
                             /\ g[i] = g[i - 1] \o us[i].raw
UnknownFields(u, us, known) ==
  Encodes(u, us) /\ (\A i \in 1 .. Len(us) : us[i].tag \notin known) /\ \E g : Keeps(g, u, us)
Unknowns(known) == {u \in ByteSeqs : \E us : UnknownFields(u, us, known)}

\* Nothing was kept.
LEMMA UnknownNothing ==
  ASSUME NEW known
  PROVE  <<>> \in Unknowns(known)
<1>1. <<>> \in ByteSeqs /\ Encodes(<<>>, <<>>)
  BY EncodesNothing DEF ByteSeqs
<1>2. \A i \in 1 .. Len(<<>>) : <<>>[i].tag \notin known
  OBVIOUS
<1> DEFINE g == [i \in {0} |-> <<>>]
<1>3. Keeps(g, <<>>, <<>>)
  BY DEF Keeps
<1>4. UnknownFields(<<>>, <<>>, known)
  BY <1>1, <1>2, <1>3 DEF UnknownFields
<1> QED
  BY <1>1, <1>4 DEF Unknowns

\* One field was kept.
LEMMA UnknownField ==
  ASSUME NEW known, NEW f \in Parts, f.tag \notin known
  PROVE  f.raw \in Unknowns(known)
<1>1. CASE f = Malformed
  <2>1. f.raw = <<>>
    BY <1>1 DEF Malformed
  <2> QED
    BY <2>1, UnknownNothing
<1>2. CASE f # Malformed
  <2>1. Whole(f)
    BY <1>2 DEF Parts
  <2>2. f.raw \in ByteSeqs /\ f.raw # <<>> /\ Encodes(f.raw, <<f>>)
    BY <2>1, EncodesWhole DEF Whole, FieldSet
  <2> DEFINE u == f.raw
             g == [i \in {0, 1} |-> IF i = 0 THEN <<>> ELSE u]
  <2>3. Keeps(g, u, <<f>>)
    <3>1. Len(<<f>>) = 1 /\ <<f>>[1] = f /\ 1 .. 1 = {1}
      OBVIOUS
    <3>2. g[0] = <<>> /\ g[1] = u
      OBVIOUS
    <3>3. <<>> \in ByteSeqs /\ Len(<<>>) < Len(u) /\ <<>> \o u = u
      BY <2>2, NothingThen DEF ByteSeqs
    <3> HIDE DEF g, u
    <3>4. ASSUME NEW i \in 1 .. Len(<<f>>)
          PROVE  /\ g[i - 1] \in ByteSeqs /\ Len(g[i - 1]) < Len(u)
                 /\ g[i] = g[i - 1] \o <<f>>[i].raw
      <4>1. i = 1 /\ i - 1 = 0 /\ <<f>>[i] = f
        BY <3>1
      <4> QED
        BY <4>1, <3>2, <3>3 DEF u
    <3> QED
      BY <3>1, <3>2, <3>4 DEF Keeps
  <2>4. \A i \in 1 .. Len(<<f>>) : <<f>>[i].tag \notin known
    OBVIOUS
  <2>5. UnknownFields(u, <<f>>, known)
    <3> HIDE DEF g
    <3> QED
      BY <2>2, <2>3, <2>4 DEF UnknownFields
  <2> QED
    BY <2>2, <2>5 DEF Unknowns
<1> QED
  BY <1>1, <1>2

\* What was kept first, and what was kept then.
LEMMA KeepsThen ==
  ASSUME NEW u \in ByteSeqs, NEW v \in ByteSeqs, NEW us \in Seq(Parts), NEW vs \in Seq(Parts),
         NEW g, NEW h, Keeps(g, u, us), Keeps(h, v, vs)
  PROVE  \E e : Keeps(e, u \o v, us \o vs)
<1> DEFINE n == Len(us)
           m == Len(vs)
           e == [i \in 0 .. n + m |-> IF i <= n THEN g[i] ELSE u \o h[i - n]]
<1>1. n \in Nat /\ m \in Nat /\ Len(us \o vs) = n + m /\ Len(u \o v) = Len(u) + Len(v)
      /\ Len(u) \in Nat /\ Len(v) \in Nat
  BY ConcatLen, ConcatKeeps
<1>2. g[0] = <<>> /\ g[n] = u /\ h[0] = <<>> /\ h[m] = v
  BY DEF Keeps
<1>3. u \o <<>> = u
  BY NothingThen DEF ByteSeqs
<1>4. /\ \A i \in 0 .. n : e[i] = g[i]
      /\ \A i \in 0 .. m : i # 0 => e[n + i] = u \o h[i]
  <2> HIDE DEF n, m
  <2>1. ASSUME NEW i \in 0 .. m, i # 0 PROVE e[n + i] = u \o h[i]
    <3>1. n + i \in 0 .. n + m /\ ~(n + i <= n) /\ (n + i) - n = i
      BY <1>1, <2>1
    <3> QED
      BY <3>1
  <2>2. \A i \in 0 .. n : e[i] = g[i]
    BY <1>1
  <2> QED
    BY <2>1, <2>2
<1>5. e[n + 0] = u \o h[0]
  <2> HIDE DEF n, m, e
  <2>1. n + 0 = n /\ n \in 0 .. n
    BY <1>1
  <2> QED
    BY <2>1, <1>2, <1>3, <1>4
<1> HIDE DEF e, n, m
<1>6. \A i \in 0 .. m : e[n + i] = u \o h[i]
  BY <1>4, <1>5
<1>7. e[0] = <<>> /\ e[n + m] = u \o v
  <2>1. 0 \in 0 .. n /\ m \in 0 .. m
    BY <1>1
  <2> QED
    BY <2>1, <1>2, <1>4, <1>6
<1>8. ASSUME NEW i \in 1 .. n + m
      PROVE  /\ e[i - 1] \in ByteSeqs /\ Len(e[i - 1]) < Len(u \o v)
             /\ e[i] = e[i - 1] \o (us \o vs)[i].raw
  <2>1. CASE i <= n
    <3>1. i \in 1 .. n /\ i \in 0 .. n /\ i - 1 \in 0 .. n
      BY <2>1, <1>1
    <3>2. e[i] = g[i] /\ e[i - 1] = g[i - 1]
      BY <3>1, <1>4
    <3>3. /\ g[i - 1] \in ByteSeqs /\ Len(g[i - 1]) < Len(u)
          /\ g[i] = g[i - 1] \o us[i].raw
      BY <3>1 DEF Keeps, n
    <3>4. (us \o vs)[i] = us[i]
      BY <3>1, ConcatKeeps DEF n
    <3>5. Len(g[i - 1]) \in Nat
      BY <3>3, ByteAt
    <3> QED
      BY <3>2, <3>3, <3>4, <3>5, <1>1
  <2>2. CASE ~(i <= n)
    <3> DEFINE j == i - n
    <3>1. j \in 1 .. m /\ j \in 0 .. m /\ j - 1 \in 0 .. m /\ n + j = i /\ n + (j - 1) = i - 1
      BY <2>2, <1>1
    <3> HIDE DEF j
    <3>2. e[i] = u \o h[j] /\ e[i - 1] = u \o h[j - 1]
      BY <3>1, <1>6
    <3>3. /\ h[j - 1] \in ByteSeqs /\ Len(h[j - 1]) < Len(v)
          /\ h[j] = h[j - 1] \o vs[j].raw
      BY <3>1 DEF Keeps, m
    <3>4. (us \o vs)[i] = vs[j]
      BY <3>1, ConcatKeeps DEF n, m
    <3>5. vs[j] \in Parts
      BY <3>1, SeqElements DEF m
    <3>6. vs[j].raw \in ByteSeqs
      BY <3>5 DEF Parts, FieldSet
    <3>7. (u \o h[j - 1]) \o vs[j].raw = u \o (h[j - 1] \o vs[j].raw)
      BY <3>3, <3>6, JoinBytes
    <3>8. u \o h[j - 1] \in ByteSeqs /\ Len(u \o h[j - 1]) = Len(u) + Len(h[j - 1])
          /\ Len(h[j - 1]) \in Nat
      BY <3>3, ConcatLen
    <3>9. Len(u \o h[j - 1]) < Len(u \o v)
      BY <3>8, <3>3, <1>1
    <3> QED
      BY <3>2, <3>3, <3>4, <3>7, <3>8, <3>9
  <2> QED
    BY <2>1, <2>2
<1>9. Keeps(e, u \o v, us \o vs)
  BY <1>1, <1>7, <1>8 DEF Keeps
<1> QED
  BY <1>9

\* Two byte strings of such fields are one.
LEMMA UnknownThen ==
  ASSUME NEW known, NEW u \in Unknowns(known), NEW v \in Unknowns(known)
  PROVE  u \o v \in Unknowns(known)
<1>1. PICK us : UnknownFields(u, us, known)
  BY DEF Unknowns
<1>2. PICK vs : UnknownFields(v, vs, known)
  BY DEF Unknowns
<1>3. u \in ByteSeqs /\ v \in ByteSeqs /\ us \in Seq(Parts) /\ vs \in Seq(Parts)
  BY <1>1, <1>2 DEF UnknownFields, Encodes, Unknowns
<1>4. Encodes(u \o v, us \o vs)
  BY <1>1, <1>2, EncodesThen DEF UnknownFields
<1>5. \E e : Keeps(e, u \o v, us \o vs)
  <2>1. PICK g : Keeps(g, u, us)
    BY <1>1 DEF UnknownFields
  <2>2. PICK h : Keeps(h, v, vs)
    BY <1>2 DEF UnknownFields
  <2> QED
    BY <1>3, <2>1, <2>2, KeepsThen
<1>6. \A i \in 1 .. Len(us \o vs) : (us \o vs)[i].tag \notin known
  <2> DEFINE P == {f \in Parts : f.tag \notin known}
  <2>1. /\ \A i \in 1 .. Len(us) : us[i] \in P
        /\ \A i \in 1 .. Len(vs) : vs[i] \in P
    BY <1>1, <1>2, <1>3, SeqElements DEF UnknownFields
  <2> HIDE DEF P
  <2>2. \A i \in 1 .. Len(us \o vs) : (us \o vs)[i] \in P
    BY <1>3, <2>1, JoinAll
  <2> QED
    BY <2>2 DEF P
<1>7. u \o v \in ByteSeqs
  BY <1>3, ConcatLen
<1> QED
  BY <1>4, <1>5, <1>6, <1>7 DEF UnknownFields, Unknowns

\* One more field is kept.
LEMMA UnknownMore ==
  ASSUME NEW known, NEW u \in Unknowns(known), NEW f \in Parts, f.tag \notin known
  PROVE  u \o f.raw \in Unknowns(known)
  BY UnknownField, UnknownThen

\* The bytes kept on the way are such fields, too.
LEMMA KeepsUnknown ==
  ASSUME NEW known, NEW u, NEW us \in Seq(Parts), NEW g, Keeps(g, u, us),
         \A i \in 1 .. Len(us) : us[i].tag \notin known
  PROVE  \A i \in 0 .. Len(us) : g[i] \in Unknowns(known)
<1> DEFINE T == {i \in Nat : i <= Len(us) => g[i] \in Unknowns(known)}
<1>1. 0 \in T
  BY UnknownNothing DEF Keeps
<1>2. Len(us) \in Nat /\ \A i \in 1 .. Len(us) : us[i] \in Parts
  BY SeqElements
<1>3. ASSUME NEW i \in Nat \ {0}, i - 1 \in T PROVE i \in T
  <2>1. SUFFICES ASSUME i <= Len(us) PROVE g[i] \in Unknowns(known)
    OBVIOUS
  <2>2. i \in 1 .. Len(us) /\ i - 1 <= Len(us)
    BY <2>1, <1>2
  <2>3. g[i - 1] \in Unknowns(known) /\ us[i] \in Parts /\ us[i].tag \notin known
    BY <1>2, <1>3, <2>2
  <2>4. g[i] = g[i - 1] \o us[i].raw
    BY <2>2 DEF Keeps
  <2> QED
    BY <2>3, <2>4, UnknownMore
<1> HIDE DEF T
<1>4. Nat \subseteq T
  BY <1>1, <1>3, NatSetInduction
<1> QED
  BY <1>2, <1>4 DEF T

\* A reader that appends fields it does not know reads them all.
LEMMA ReadsUnknown ==
  ASSUME NEW known, NEW u \in Unknowns(known), NEW a \in Unknowns(known),
         NEW step, NEW Z, NEW G, NEW of,
         \A w \in Unknowns(known), f \in Parts :
           f.tag \notin known /\ f # Malformed =>
             f \in G /\ step[<<of[w], f>>] = of[w \o f.raw],
         \A w \in Unknowns(known) : of[w] \in Z => Len(w) >= Len(a) + Len(u)
  PROVE  Reads(step, of[a], u, of[a \o u], Z, G)
<1>0. a \in ByteSeqs
  BY DEF Unknowns
<1>1. PICK us : UnknownFields(u, us, known)
  BY DEF Unknowns
<1>2. PICK g : Keeps(g, u, us)
  BY <1>1 DEF UnknownFields
<1>3. /\ Encodes(u, us) /\ us \in Seq(Parts) /\ NoneMalformed(us) /\ u \in ByteSeqs
      /\ \A i \in 1 .. Len(us) : us[i] \in Parts /\ us[i] # Malformed /\ us[i].tag \notin known
  <2>1. Encodes(u, us) /\ us \in Seq(Parts) /\ NoneMalformed(us) /\ u \in ByteSeqs
    BY <1>1 DEF UnknownFields, Encodes
  <2> QED
    BY <2>1, <1>1, SeqElements DEF UnknownFields, NoneMalformed
<1>4. \A i \in 1 .. Len(us) : us[i] \in G
  BY <1>3
<1> DEFINE run == [i \in 0 .. Len(us) |-> of[a \o g[i]]]
<1>5. Len(us) \in Nat /\ g[0] = <<>> /\ g[Len(us)] = u
  BY <1>2, <1>3, SeqElements DEF Keeps
<1>9. \A i \in 0 .. Len(us) : g[i] \in Unknowns(known)
  BY <1>1, <1>2, <1>3, KeepsUnknown
<1>6. run[0] = of[a] /\ run[Len(us)] = of[a \o u]
  <2>1. a \o <<>> = a
    BY <1>0, NothingThen DEF ByteSeqs
  <2>2. 0 \in 0 .. Len(us) /\ Len(us) \in 0 .. Len(us)
    BY <1>5
  <2>3. run[0] = of[a \o g[0]] /\ run[Len(us)] = of[a \o g[Len(us)]]
    BY <2>2
  <2> HIDE DEF run
  <2> QED
    BY <2>1, <2>3, <1>5
<1>7. ASSUME NEW i \in 1 .. Len(us)
      PROVE  run[i] = step[<<run[i - 1], us[i]>>] /\ run[i - 1] \notin Z
  <2>1. run[i] = of[a \o g[i]] /\ run[i - 1] = of[a \o g[i - 1]]
    BY <1>5
  <2>2. /\ g[i - 1] \in ByteSeqs /\ Len(g[i - 1]) < Len(u) /\ g[i] = g[i - 1] \o us[i].raw
    BY <1>2 DEF Keeps
  <2>3. us[i].raw \in ByteSeqs
    BY <1>3 DEF Parts, FieldSet
  <2>4. (a \o g[i - 1]) \o us[i].raw = a \o (g[i - 1] \o us[i].raw)
    BY <1>0, <2>2, <2>3, JoinBytes
  <2> DEFINE w == a \o g[i - 1]
  <2>5. w \in ByteSeqs /\ Len(w) = Len(a) + Len(g[i - 1]) /\ Len(a) \in Nat
        /\ Len(g[i - 1]) \in Nat
    BY <1>0, <2>2, ConcatLen
  <2>8. w \in Unknowns(known)
    <3>1. i - 1 \in 0 .. Len(us)
      BY <1>5
    <3>2. g[i - 1] \in Unknowns(known)
      BY <1>9, <3>1
    <3> QED
      BY <3>2, UnknownThen
  <2> HIDE DEF w, run
  <2>6. step[<<of[w], us[i]>>] = of[w \o us[i].raw]
    BY <1>3, <2>8
  <2>7. of[w] \notin Z
    <3>1. ~(Len(w) >= Len(a) + Len(u))
      <4>1. Len(u) \in Nat
        BY <1>3, ByteAt
      <4> QED
        BY <4>1, <2>2, <2>5
    <3> QED
      BY <3>1, <2>8
  <2> QED
    BY <2>1, <2>2, <2>4, <2>6, <2>7 DEF w
<1> HIDE DEF run
<1>8. Folds(step, of[a], us, of[a \o u], Z)
  BY <1>6, <1>7 DEF Folds
<1> QED
  BY <1>3, <1>4, <1>8 DEF Reads

\* What a written field leaves of a message.
LEMMA ReadsNumber ==
  ASSUME NEW tag \in 8 .. 127, tag % 8 = 0, NEW n \in Nat, NEW step, NEW x, NEW y, NEW Z, NEW G,
         n = 0 => y = x,
         n # 0 => y = step[<<x, NumberField(tag, n)>>] /\ x \notin Z /\ NumberField(tag, n) \in G
  PROVE  Reads(step, x, IF n # 0 THEN VarintField(tag, n) ELSE <<>>, y, Z, G)
<1>1. Whole(NumberField(tag, n))
  BY NumberFieldWhole
<1>2. NumberField(tag, n).raw = VarintField(tag, n)
  BY DEF NumberField
<1> QED
  BY <1>1, <1>2, ReadsField, ReadsNothing

\* The same of a fixed field.
LEMMA ReadsWord ==
  ASSUME NEW tag \in 8 .. 127, NEW width \in {4, 8},
         (tag % 8 = 1 /\ width = 8) \/ (tag % 8 = 5 /\ width = 4), NEW n \in Fixed(width),
         NEW step, NEW x, NEW y, NEW Z, NEW G,
         y = step[<<x, WordField(tag, n, width)>>], x \notin Z, WordField(tag, n, width) \in G
  PROVE  Reads(step, x, FixedField(tag, n, width), y, Z, G)
<1>1. Whole(WordField(tag, n, width))
  BY WordFieldWhole
<1>2. WordField(tag, n, width).raw = FixedField(tag, n, width)
  BY DEF WordField
<1> QED
  BY <1>1, <1>2, ReadsField

\* And of a length-delimited one.
LEMMA ReadsBytes ==
  ASSUME NEW tag \in 8 .. 127, tag % 8 = 2, NEW data \in ByteSeqs, NEW step, NEW x, NEW y,
         NEW Z, NEW G,
         y = step[<<x, BytesField(tag, data)>>], x \notin Z, BytesField(tag, data) \in G
  PROVE  Reads(step, x, LenField(tag, Len(data), data), y, Z, G)
<1>1. Whole(BytesField(tag, data))
  BY BytesFieldWhole
<1>2. BytesField(tag, data).raw = LenField(tag, Len(data), data)
  BY DEF BytesField
<1> QED
  BY <1>1, <1>2, ReadsField

\* The empty byte string.
LEMMA NoBytes == <<>> \in ByteSeqs /\ Len(<<>>) = 0
  BY DEF ByteSeqs

\* The bytes of the fields, and how many they are.
LEMMA VarintType ==
  ASSUME NEW n \in Nat
  PROVE  Varint(n) \in ByteSeqs /\ Len(Varint(n)) = VarintSize(n) /\ VarintSize(n) \in Nat
  BY VarintIs, VarintSizeIs DEF VarintBytes

\* The bytes of a varint field.
LEMMA VarintFieldBytes ==
  ASSUME NEW tag \in 8 .. 127, NEW n \in Nat
  PROVE  VarintField(tag, n) \in ByteSeqs /\ Len(VarintField(tag, n)) = 1 + VarintSize(n)
<1>1. Varint(tag) \in ByteSeqs /\ Len(Varint(tag)) = 1
  BY TagBytes
<1> QED
  BY <1>1, VarintType, ConcatLen DEF VarintField

\* The bytes of a fixed field.
LEMMA FixedFieldBytes ==
  ASSUME NEW tag \in 8 .. 127, NEW n \in Nat, NEW k \in Nat
  PROVE  FixedField(tag, n, k) \in ByteSeqs /\ Len(FixedField(tag, n, k)) = 1 + k
<1>1. Varint(tag) \in ByteSeqs /\ Len(Varint(tag)) = 1
  BY TagBytes
<1>2. Digits(n, 256, k) \in ByteSeqs /\ Len(Digits(n, 256, k)) = k
  BY DigitsBytes
<1>3. FixedField(tag, n, k) = Varint(tag) \o Digits(n, 256, k)
  BY DEF FixedField
<1> DEFINE t == Varint(tag)
           d == Digits(n, 256, k)
<1>5. t \in ByteSeqs /\ d \in ByteSeqs
  BY <1>1, <1>2
<1> HIDE DEF t, d
<1>4. t \o d \in ByteSeqs /\ Len(t \o d) = Len(t) + Len(d)
  BY <1>5, ConcatLen
<1> QED
  BY <1>1, <1>2, <1>3, <1>4 DEF t, d

\* The bytes of a length-delimited field.
LEMMA LenFieldBytes ==
  ASSUME NEW tag \in 8 .. 127, NEW b \in ByteSeqs
  PROVE  /\ LenField(tag, Len(b), b) \in ByteSeqs
         /\ Len(LenField(tag, Len(b), b)) = LenFieldSize(Len(b))
         /\ LenFieldSize(Len(b)) \in Nat
<1>6. Len(b) \in Nat
  BY ByteAt
<1>5. Varint(tag) = <<tag>> /\ <<tag>> \in ByteSeqs /\ Len(<<tag>>) = 1
  BY TagBytes
<1>1. Varint(tag) \in ByteSeqs /\ Len(Varint(tag)) = 1 /\ Len(b) \in Nat
  BY <1>6, <1>5
<1> DEFINE l == Len(b)
<1>2. Varint(l) \in ByteSeqs /\ Len(Varint(l)) = VarintSize(l) /\ VarintSize(l) \in Nat
  BY <1>1, VarintType
<1>3. Varint(tag) \o Varint(l) \in ByteSeqs /\ Len(Varint(tag) \o Varint(l)) = 1 + VarintSize(l)
  BY <1>1, <1>2, ConcatLen
<1>4. LenField(tag, l, b) \in ByteSeqs /\ Len(LenField(tag, l, b)) = 1 + VarintSize(l) + Len(b)
  BY <1>3, ConcatLen DEF LenField
<1> QED
  BY <1>1, <1>2, <1>4 DEF LenFieldSize

\* A whole field is a field that can be read.
LEMMA WholeIsPart ==
  ASSUME NEW f, Whole(f)
  PROVE  f \in Parts /\ f # Malformed
  BY DEF Whole, Parts

\* The pieces of a field.
LEMMA PartType ==
  ASSUME NEW f \in Parts
  PROVE  /\ f.tag \in Nat /\ f.val \in Nat /\ f.data \in ByteSeqs /\ f.raw \in ByteSeqs
         /\ f.tag % 8 = 1 => f.val \in Fixed(8)
         /\ f.tag % 8 = 5 => f.val \in Fixed(4)
  BY DEF Parts, FieldSet, FieldFits

-----------------------------------------------------------------------------
(* IPv6Address. *)

IPv6s == [high : Fixed(8), low : Fixed(8), unknown : Unknowns({9, 17})]
IPv6Of(high, low, unknown) == [high |-> high, low |-> low, unknown |-> unknown]
IPv6Step == [p \in IPv6s \X Parts |-> IPv6Take(p[1], p[2])]

\* An address is made of its parts.
LEMMA IPv6Parts ==
  ASSUME NEW a \in IPv6s
  PROVE  /\ a = IPv6Of(a.high, a.low, a.unknown)
         /\ a.high \in Fixed(8) /\ a.low \in Fixed(8) /\ a.unknown \in Unknowns({9, 17})
         /\ a.high \in Nat /\ a.low \in Nat /\ a.unknown \in ByteSeqs
<1>1. a = IPv6Of(a.high, a.low, a.unknown)
  BY DEF IPv6s, IPv6Of
<1>2. a.high \in Fixed(8) /\ a.low \in Fixed(8) /\ a.unknown \in Unknowns({9, 17})
  BY DEF IPv6s
<1>3. a.high \in Nat /\ a.low \in Nat /\ a.unknown \in ByteSeqs
  BY <1>2 DEF Fixed, Unknowns
<1> QED
  BY <1>1, <1>2, <1>3

\* And parts make an address.
LEMMA IPv6OfType ==
  ASSUME NEW h \in Fixed(8), NEW l \in Fixed(8), NEW u \in Unknowns({9, 17})
  PROVE  /\ IPv6Of(h, l, u) \in IPv6s /\ IPv6Of(h, l, u).high = h /\ IPv6Of(h, l, u).low = l
         /\ IPv6Of(h, l, u).unknown = u
  BY DEF IPv6Of, IPv6s

\* Zero fits both widths.
LEMMA FixedZero == 0 \in Fixed(4) /\ 0 \in Fixed(8)
<1>1. 0 \div 65536 < 65536
  OBVIOUS
<1> QED
  BY <1>1, FixedWord

\* The empty address.
LEMMA IPv6EmptyType == IPv6Address \in IPv6s /\ IPv6Address = IPv6Of(0, 0, <<>>)
<1>1. IPv6Address = IPv6Of(0, 0, <<>>)
  BY DEF IPv6Address, IPv6Of
<1>2. <<>> \in Unknowns({9, 17})
  BY UnknownNothing
<1> QED
  BY <1>1, <1>2, FixedZero, IPv6OfType

\* What each field sets.
LEMMA IPv6TakeIs ==
  ASSUME NEW h, NEW l, NEW u, NEW f
  PROVE  /\ f.tag = 9 => IPv6Take(IPv6Of(h, l, u), f) = IPv6Of(f.val, l, u)
         /\ f.tag = 17 => IPv6Take(IPv6Of(h, l, u), f) = IPv6Of(h, f.val, u)
         /\ f.tag \notin {9, 17} => IPv6Take(IPv6Of(h, l, u), f) = IPv6Of(h, l, u \o f.raw)
<1>1. CASE f.tag = 9
  BY <1>1 DEF IPv6Take, IPv6Of
<1>2. CASE f.tag = 17
  BY <1>2 DEF IPv6Take, IPv6Of
<1>3. CASE f.tag \notin {9, 17}
  BY <1>3 DEF IPv6Take, IPv6Of
<1> QED
  BY <1>1, <1>2, <1>3

\* A field turns an address into an address.
LEMMA IPv6TakeType ==
  ASSUME NEW m \in IPv6s, NEW f \in Parts
  PROVE  IPv6Take(m, f) \in IPv6s
<1>1. PICK h \in Fixed(8), l \in Fixed(8), u \in Unknowns({9, 17}) : m = IPv6Of(h, l, u)
  BY IPv6Parts
<1>2. CASE f.tag = 9
  <2>1. f.val \in Fixed(8)
    <3>1. 9 % 8 = 1
      OBVIOUS
    <3> QED
      BY <3>1, <1>2, PartType
  <2> QED
    BY <1>1, <1>2, <2>1, IPv6TakeIs, IPv6OfType
<1>3. CASE f.tag = 17
  <2>1. f.val \in Fixed(8)
    <3>1. 17 % 8 = 1
      OBVIOUS
    <3> QED
      BY <3>1, <1>3, PartType
  <2> QED
    BY <1>1, <1>3, <2>1, IPv6TakeIs, IPv6OfType
<1>4. CASE f.tag \notin {9, 17}
  <2>1. u \o f.raw \in Unknowns({9, 17})
    BY <1>4, UnknownMore
  <2> QED
    BY <1>1, <1>4, <2>1, IPv6TakeIs, IPv6OfType
<1> QED
  BY <1>2, <1>3, <1>4

\* So the reader is a function on addresses.
LEMMA IPv6StepIs ==
  /\ IPv6Step \in [IPv6s \X Parts -> IPv6s]
  /\ \A m \in IPv6s, f \in Parts : IPv6Step[<<m, f>>] = IPv6Take(m, f)
<1>1. ASSUME NEW p \in IPv6s \X Parts PROVE IPv6Take(p[1], p[2]) \in IPv6s
  BY IPv6TakeType
<1>2. IPv6Step \in [IPv6s \X Parts -> IPv6s]
  BY <1>1 DEF IPv6Step
<1>3. ASSUME NEW m \in IPv6s, NEW f \in Parts PROVE IPv6Step[<<m, f>>] = IPv6Take(m, f)
  BY DEF IPv6Step
<1> QED
  BY <1>2, <1>3

\* What is read into an address is the run of its reader.
LEMMA IPv6Parses ==
  ASSUME NEW x \in IPv6s, NEW b \in ByteSeqs
  PROVE  Folds(IPv6Step, x, Fields(b), IPv6Parse(x, b), {}) /\ IPv6Parse(x, b) \in IPv6s
<1> DEFINE fs == Fields(b)
           D == DOMAIN fs
           Is(v) == v = [s \in SUBSET D |-> IF s = {} THEN x
                                           ELSE IPv6Take(v[s \ {Max(s)}], fs[Max(s)])]
           v == CHOOSE v : Is(v)
<1>1. IPv6Parse(x, b) = v[D]
  BY DEF IPv6Parse, FoldLeft, MapThenFoldSet
<1>2. fs \in Seq(Parts)
  BY FieldsIs
<1> HIDE DEF fs
<1>3. /\ IPv6Step \in [IPv6s \X Parts -> IPv6s]
      /\ \A m \in IPv6s, f \in Parts : IPv6Step[<<m, f>>] = IPv6Take(m, f)
  BY IPv6StepIs
<1>4. PICK w \in [SUBSET D -> IPv6s] : PeelsLeft(w, fs, x, IPv6Step)
  BY <1>2, <1>3, FoldLeftSolution
<1>5. ASSUME NEW s \in SUBSET D, s # {} PROVE Max(s) \in s /\ fs[Max(s)] \in Parts
  <2>1. D = 1 .. Len(fs) /\ Len(fs) \in Nat
    BY <1>2
  <2>2. s \in SUBSET (1 .. Len(fs))
    BY <2>1
  <2>3. Max(s) \in s
    BY <1>5, <2>1, <2>2, MaxOf
  <2>4. Max(s) \in 1 .. Len(fs)
    BY <2>2, <2>3
  <2> QED
    BY <1>2, <2>3, <2>4, SeqElements
<1>6. ASSUME NEW s \in SUBSET D
      PROVE  w[s] = IF s = {} THEN x ELSE IPv6Take(w[s \ {Max(s)}], fs[Max(s)])
  <2>1. CASE s = {}
    BY <2>1, <1>4 DEF PeelsLeft
  <2>2. CASE s # {}
    <3>1. fs[Max(s)] \in Parts /\ w[s \ {Max(s)}] \in IPv6s
      BY <2>2, <1>4, <1>5
    <3>2. w[s] = IPv6Step[<<w[s \ {Max(s)}], fs[Max(s)]>>]
      BY <2>2, <1>4 DEF PeelsLeft
    <3> QED
      BY <2>2, <3>1, <3>2, <1>3
  <2> QED
    BY <2>1, <2>2
<1>7. w = [s \in SUBSET D |-> w[s]]
  BY <1>4
<1>8. Is(w)
  BY <1>6, <1>7
<1>9. Is(v)
  BY <1>8
<1> HIDE DEF v
<1>10. /\ v[{}] = x
       /\ \A s \in SUBSET D : s # {} => v[s] = IPv6Take(v[s \ {Max(s)}], fs[Max(s)])
  BY <1>9
<1>11. \A s \in SUBSET D : s # {} /\ v[s \ {Max(s)}] \in IPv6s
                              => v[s] = IPv6Step[<<v[s \ {Max(s)}], fs[Max(s)]>>]
  BY <1>3, <1>5, <1>10
<1> HIDE DEF Is
<1>12. Unfolds(v, fs, x, IPv6Step, IPv6s)
  BY <1>10, <1>11 DEF Unfolds
<1>13. Folds(IPv6Step, x, fs, v[D], {}) /\ v[D] \in IPv6s
  BY <1>2, <1>3, <1>12, FoldLeftRuns
<1> QED
  BY <1>1, <1>13 DEF fs

\* An address takes the bytes that were counted.
LEMMA IPv6SerializeType ==
  ASSUME NEW a \in IPv6s
  PROVE  IPv6Serialize(a) \in ByteSeqs /\ Len(IPv6Serialize(a)) = IPv6ByteSize(a)
<1>1. a.high \in Nat /\ a.low \in Nat /\ a.unknown \in ByteSeqs
  BY IPv6Parts
<1>2. ASSUME NEW tag \in {9, 17}, NEW n \in Nat
      PROVE  FixedField(tag, n, 8) \in ByteSeqs /\ Len(FixedField(tag, n, 8)) = 1 + 8
  <2>1. tag \in 8 .. 127 /\ 8 \in Nat
    OBVIOUS
  <2> QED
    BY <2>1, FixedFieldBytes
<1> DEFINE p == IF a.high # 0 THEN FixedField(9, a.high, 8) ELSE <<>>
           q == IF a.low # 0 THEN FixedField(17, a.low, 8) ELSE <<>>
<1>3. p \in ByteSeqs /\ Len(p) = IF a.high # 0 THEN 1 + 8 ELSE 0
  BY <1>1, <1>2, NoBytes
<1>4. q \in ByteSeqs /\ Len(q) = IF a.low # 0 THEN 1 + 8 ELSE 0
  BY <1>1, <1>2, NoBytes
<1>5. IPv6Serialize(a) = p \o q \o a.unknown
  BY DEF IPv6Serialize
<1> HIDE DEF p, q
<1>6. p \o q \o a.unknown \in ByteSeqs /\ Len(p \o q \o a.unknown) = Len(p) + Len(q) + Len(a.unknown)
  <2>1. p \o q \in ByteSeqs /\ Len(p \o q) = Len(p) + Len(q)
    BY <1>3, <1>4, ConcatLen
  <2> QED
    BY <2>1, <1>1, ConcatLen
<1> QED
  BY <1>3, <1>4, <1>5, <1>6 DEF IPv6ByteSize

\* The result of a reader is where its run ends.
LEMMA ReadsIsRun ==
  ASSUME NEW step, NEW x, NEW b, NEW y, NEW z, NEW Z, NEW G,
         Reads(step, x, b, y, Z, G), Folds(step, x, Fields(b), z, {})
  PROVE  /\ z = y /\ Encodes(b, Fields(b)) /\ Folds(step, x, Fields(b), y, Z)
         /\ \A f \in ToSet(Fields(b)) : f \in G /\ f # Malformed /\ f \in Parts
<1>1. PICK fs : /\ Encodes(b, fs) /\ Folds(step, x, fs, y, Z)
                /\ \A i \in 1 .. Len(fs) : fs[i] \in G
  BY DEF Reads
<1>2. Fields(b) = fs
  BY <1>1, EncodesFields
<1>3. fs \in Seq(Parts) /\ NoneMalformed(fs)
  BY <1>1 DEF Encodes
<1>4. Len(fs) \in Nat /\ DOMAIN fs = 1 .. Len(fs) /\ \A i \in 1 .. Len(fs) : fs[i] \in Parts
  BY <1>3, SeqElements
<1>5. z = y
  BY <1>1, <1>2, <1>4, FoldsUnique
<1>6. ASSUME NEW f \in ToSet(fs) PROVE f \in G /\ f # Malformed /\ f \in Parts
  <2>1. PICK i \in 1 .. Len(fs) : f = fs[i]
    BY <1>4 DEF ToSet
  <2> QED
    BY <2>1, <1>1, <1>3, <1>4 DEF NoneMalformed
<1> QED
  BY <1>1, <1>2, <1>5, <1>6

\* The state of a reader that has read fields it does not know.
LEMMA ReadsUnknownEmpty ==
  ASSUME NEW known, NEW u \in Unknowns(known), NEW a \in Unknowns(known), NEW step, NEW G, NEW of,
         \A w \in Unknowns(known), f \in Parts :
           f.tag \notin known /\ f # Malformed =>
             f \in G /\ step[<<of[w], f>>] = of[w \o f.raw]
  PROVE  Reads(step, of[a], u, of[a \o u], {}, G)
  BY ReadsUnknown

\* The parts of a merged address.
LEMMA IPv6MergeIs ==
  ASSUME NEW x \in IPv6s, NEW y \in IPv6s
  PROVE  /\ IPv6Merge(x, y) = IPv6Of(Merged(x.high, y.high, 0), Merged(x.low, y.low, 0),
                                     x.unknown \o y.unknown)
         /\ IPv6Merge(x, y) \in IPv6s
<1>1. IPv6Merge(x, y) = IPv6Of(Merged(x.high, y.high, 0), Merged(x.low, y.low, 0),
                               x.unknown \o y.unknown)
  BY DEF IPv6Merge, IPv6Of
<1>2. Merged(x.high, y.high, 0) \in Fixed(8) /\ Merged(x.low, y.low, 0) \in Fixed(8)
  BY IPv6Parts DEF Merged
<1>3. x.unknown \o y.unknown \in Unknowns({9, 17})
  BY IPv6Parts, UnknownThen
<1> QED
  BY <1>1, <1>2, <1>3, IPv6OfType

\* Merging into an empty address gives the other one.
LEMMA IPv6MergeEmpty ==
  ASSUME NEW y \in IPv6s
  PROVE  IPv6Merge(IPv6Address, y) = y
<1> DEFINE e == IPv6Address
<1>1. e \in IPv6s /\ e.high = 0 /\ e.low = 0 /\ e.unknown = <<>>
  <2>1. e = IPv6Of(0, 0, <<>>) /\ e \in IPv6s
    BY IPv6EmptyType
  <2> QED
    BY <2>1 DEF IPv6Of
<1> HIDE DEF e
<1>2. /\ y = IPv6Of(y.high, y.low, y.unknown)
      /\ y.high \in Nat /\ y.low \in Nat /\ y.unknown \in ByteSeqs
  BY IPv6Parts
<1>3. Merged(e.high, y.high, 0) = y.high /\ Merged(e.low, y.low, 0) = y.low
  BY <1>1 DEF Merged
<1>4. e.unknown \o y.unknown = y.unknown
  BY <1>1, <1>2, NothingThen DEF ByteSeqs
<1>5. IPv6Merge(e, y) = IPv6Of(Merged(e.high, y.high, 0), Merged(e.low, y.low, 0),
                               e.unknown \o y.unknown)
  BY <1>1, IPv6MergeIs
<1>6. IPv6Merge(e, y) = y
  BY <1>2, <1>3, <1>4, <1>5
<1> QED
  BY <1>6 DEF e

\* Reading a written address merges it.
LEMMA IPv6Writes ==
  ASSUME NEW x \in IPv6s, NEW y \in IPv6s
  PROVE  Reads(IPv6Step, x, IPv6Serialize(y), IPv6Merge(x, y), {}, Parts)
<1>1. PICK h \in Fixed(8), l \in Fixed(8), u \in Unknowns({9, 17}) :
        x = IPv6Of(h, l, u) /\ x.high = h /\ x.low = l /\ x.unknown = u
  BY IPv6Parts
<1>2. PICK k \in Fixed(8), m \in Fixed(8), v \in Unknowns({9, 17}) :
        y.high = k /\ y.low = m /\ y.unknown = v
  BY IPv6Parts
<1> DEFINE h2 == Merged(h, k, 0)
           l2 == Merged(l, m, 0)
           p == IF k # 0 THEN FixedField(9, k, 8) ELSE <<>>
           q == IF m # 0 THEN FixedField(17, m, 8) ELSE <<>>
<1>3. /\ h2 \in Fixed(8) /\ l2 \in Fixed(8)
      /\ (k = 0 => h2 = h) /\ (k # 0 => h2 = k)
      /\ (m = 0 => l2 = l) /\ (m # 0 => l2 = m)
  BY DEF Merged
<1>4. IPv6Serialize(y) = p \o q \o v
  BY <1>2 DEF IPv6Serialize
<1>5. IPv6Merge(x, y) = IPv6Of(h2, l2, u \o v)
  BY ZenonT(30), <1>1, <1>2, IPv6MergeIs
<1> HIDE DEF h2, l2
<1>6. Reads(IPv6Step, IPv6Of(h, l, u), p, IPv6Of(h2, l, u), {}, Parts)
  <2>1. CASE k = 0
    BY <2>1, <1>3, ReadsNothing
  <2>2. CASE k # 0
    <3>1. WordField(9, k, 8) \in Parts /\ WordField(9, k, 8).tag = 9 /\ WordField(9, k, 8).val = k
      <4>1. 9 \in 8 .. 127 /\ 9 % 8 = 1
        OBVIOUS
      <4>2. Whole(WordField(9, k, 8))
        BY <4>1, WordFieldWhole
      <4> QED
        BY <4>2, WholeIsPart DEF WordField
    <3>2. IPv6Step[<<IPv6Of(h, l, u), WordField(9, k, 8)>>] = IPv6Of(k, l, u)
      BY <3>1, IPv6OfType, IPv6StepIs, IPv6TakeIs
    <3>3. 9 \in 8 .. 127 /\ 9 % 8 = 1 /\ 8 \in {4, 8}
      OBVIOUS
    <3>4. Reads(IPv6Step, IPv6Of(h, l, u), FixedField(9, k, 8), IPv6Of(k, l, u), {}, Parts)
      BY <3>1, <3>2, <3>3, ReadsWord
    <3> QED
      BY <2>2, <3>4, <1>3
  <2> QED
    BY <2>1, <2>2
<1>7. Reads(IPv6Step, IPv6Of(h2, l, u), q, IPv6Of(h2, l2, u), {}, Parts)
  <2>1. CASE m = 0
    BY <2>1, <1>3, ReadsNothing
  <2>2. CASE m # 0
    <3>1. WordField(17, m, 8) \in Parts /\ WordField(17, m, 8).tag = 17
          /\ WordField(17, m, 8).val = m
      <4>1. 17 \in 8 .. 127 /\ 17 % 8 = 1
        OBVIOUS
      <4>2. Whole(WordField(17, m, 8))
        BY <4>1, WordFieldWhole
      <4> QED
        BY <4>2, WholeIsPart DEF WordField
    <3>2. IPv6Step[<<IPv6Of(h2, l, u), WordField(17, m, 8)>>] = IPv6Of(h2, m, u)
      BY <1>3, <3>1, IPv6OfType, IPv6StepIs, IPv6TakeIs
    <3>3. 17 \in 8 .. 127 /\ 17 % 8 = 1 /\ 8 \in {4, 8}
      OBVIOUS
    <3>4. Reads(IPv6Step, IPv6Of(h2, l, u), FixedField(17, m, 8), IPv6Of(h2, m, u), {}, Parts)
      BY <3>1, <3>2, <3>3, ReadsWord
    <3> QED
      BY <2>2, <3>4, <1>3
  <2> QED
    BY <2>1, <2>2
<1>8. Reads(IPv6Step, IPv6Of(h2, l2, u), v, IPv6Of(h2, l2, u \o v), {}, Parts)
  <2> DEFINE of == [w \in Unknowns({9, 17}) |-> IPv6Of(h2, l2, w)]
  <2>1. ASSUME NEW w \in Unknowns({9, 17}), NEW f \in Parts, f.tag \notin {9, 17}
        PROVE  f \in Parts /\ IPv6Step[<<of[w], f>>] = of[w \o f.raw]
    <3>1. w \o f.raw \in Unknowns({9, 17})
      BY <2>1, UnknownMore
    <3> QED
      BY <3>1, <1>3, <2>1, IPv6OfType, IPv6StepIs, IPv6TakeIs
  <2>2. u \o v \in Unknowns({9, 17})
    BY UnknownThen
  <2>3. of[u] = IPv6Of(h2, l2, u) /\ of[u \o v] = IPv6Of(h2, l2, u \o v)
    BY <2>2
  <2> HIDE DEF of
  <2>4. Reads(IPv6Step, of[u], v, of[u \o v], {}, Parts)
    <3> DEFINE known == {9, 17}
    <3>1. \A w \in Unknowns(known), f \in Parts :
            f.tag \notin known /\ f # Malformed =>
              f \in Parts /\ IPv6Step[<<of[w], f>>] = of[w \o f.raw]
      BY <2>1
    <3>2. u \in Unknowns(known) /\ v \in Unknowns(known)
      OBVIOUS
    <3> HIDE DEF known
    <3> QED
      BY ZenonT(30), <3>1, <3>2, ReadsUnknownEmpty
  <2> QED
    BY <2>3, <2>4
<1> HIDE DEF p, q
<1>9. Reads(IPv6Step, IPv6Of(h, l, u), p \o q \o v, IPv6Of(h2, l2, u \o v), {}, Parts)
  <2>1. Reads(IPv6Step, IPv6Of(h, l, u), p \o q, IPv6Of(h2, l2, u), {}, Parts)
    BY <1>6, <1>7, ReadsThen
  <2> QED
    BY <2>1, <1>8, ReadsThen
<1> QED
  BY <1>1, <1>4, <1>5, <1>9

\* A reader that keeps what it does not know, of[w] being its state when it has
\* kept w.
Skips(step, of, known, G) ==
  \A w \in Unknowns(known), f \in Parts :
    f.tag \notin known /\ f # Malformed => f \in G /\ step[<<of[w], f>>] = of[w \o f.raw]

\* Such a reader gets through fields it does not know; it is not in Z on its way.
LEMMA ReadsSkipped ==
  ASSUME NEW known, NEW u \in Unknowns(known), NEW a \in Unknowns(known), NEW step, NEW Z,
         NEW G, NEW of, Skips(step, of, known, G),
         \A w \in Unknowns(known) : of[w] \in Z => Len(w) >= Len(a) + Len(u)
  PROVE  Reads(step, of[a], u, of[a \o u], Z, G)
  BY ReadsUnknown DEF Skips

\* The same without Z.
LEMMA ReadsSkippedAll ==
  ASSUME NEW known, NEW u \in Unknowns(known), NEW a \in Unknowns(known), NEW step,
         NEW G, NEW of, Skips(step, of, known, G)
  PROVE  Reads(step, of[a], u, of[a \o u], {}, G)
  BY ReadsSkipped

-----------------------------------------------------------------------------
(* The metadata of a hop. *)

Entries == [key : Nat, value : ByteSeqs]
EntryOf(k, v) == [key |-> k, value |-> v]
EntryStep == [p \in Entries \X Parts |-> EntryTake(p[1], p[2])]

\* The parts of an entry.
LEMMA EntryOfType ==
  ASSUME NEW k \in Nat, NEW v \in ByteSeqs
  PROVE  EntryOf(k, v) \in Entries /\ EntryOf(k, v).key = k /\ EntryOf(k, v).value = v
  BY DEF EntryOf, Entries

\* An entry is made of its parts.
LEMMA EntryParts ==
  ASSUME NEW e \in Entries
  PROVE  e.key \in Nat /\ e.value \in ByteSeqs /\ e = EntryOf(e.key, e.value)
  BY DEF EntryOf, Entries

\* What each field sets.
LEMMA EntryTakeIs ==
  ASSUME NEW k, NEW v, NEW f
  PROVE  /\ f.tag = 8 => EntryTake(EntryOf(k, v), f) = EntryOf(f.val, v)
         /\ f.tag = 18 => EntryTake(EntryOf(k, v), f) = EntryOf(k, f.data)
         /\ f.tag \notin {8, 18} => EntryTake(EntryOf(k, v), f) = EntryOf(k, v)
<1>1. CASE f.tag = 8
  BY <1>1 DEF EntryTake, EntryOf
<1>2. CASE f.tag = 18
  BY <1>2 DEF EntryTake, EntryOf
<1>3. CASE f.tag \notin {8, 18}
  BY <1>3 DEF EntryTake, EntryOf
<1> QED
  BY <1>1, <1>2, <1>3

\* A field turns an entry into an entry.
LEMMA EntryTakeType ==
  ASSUME NEW m \in Entries, NEW f \in Parts
  PROVE  EntryTake(m, f) \in Entries
<1>1. PICK k \in Nat, v \in ByteSeqs : m = EntryOf(k, v)
  BY EntryParts
<1>2. f.val \in Nat /\ f.data \in ByteSeqs
  BY PartType
<1>3. f.tag = 8 \/ f.tag = 18 \/ f.tag \notin {8, 18}
  OBVIOUS
<1> QED
  BY <1>1, <1>2, <1>3, EntryTakeIs, EntryOfType

\* So the reader is a function on entries.
LEMMA EntryStepIs ==
  /\ EntryStep \in [Entries \X Parts -> Entries]
  /\ \A m \in Entries, f \in Parts : EntryStep[<<m, f>>] = EntryTake(m, f)
<1>1. ASSUME NEW p \in Entries \X Parts PROVE EntryTake(p[1], p[2]) \in Entries
  BY EntryTakeType
<1>2. EntryStep \in [Entries \X Parts -> Entries]
  BY <1>1 DEF EntryStep
<1>3. ASSUME NEW m \in Entries, NEW f \in Parts PROVE EntryStep[<<m, f>>] = EntryTake(m, f)
  BY DEF EntryStep
<1> QED
  BY <1>2, <1>3

\* What is read into a new entry is the run of its reader.
LEMMA EntryParses ==
  ASSUME NEW b \in ByteSeqs
  PROVE  Folds(EntryStep, EntryOf(0, <<>>), Fields(b), EntryParse(b), {}) /\ EntryParse(b) \in Entries
<1> DEFINE x == EntryOf(0, <<>>)
           fs == Fields(b)
           D == DOMAIN fs
           Is(v) == v = [s \in SUBSET D |-> IF s = {} THEN x
                                           ELSE EntryTake(v[s \ {Max(s)}], fs[Max(s)])]
           v == CHOOSE v : Is(v)
<1>1. EntryParse(b) = v[D]
  BY DEF EntryParse, EntryOf, FoldLeft, MapThenFoldSet
<1>0. x \in Entries
  BY EntryOfType, NoBytes
<1> HIDE DEF x
<1>2. fs \in Seq(Parts)
  BY FieldsIs
<1> HIDE DEF fs
<1>3. /\ EntryStep \in [Entries \X Parts -> Entries]
      /\ \A m \in Entries, f \in Parts : EntryStep[<<m, f>>] = EntryTake(m, f)
  BY EntryStepIs
<1>4. PICK w \in [SUBSET D -> Entries] : PeelsLeft(w, fs, x, EntryStep)
  BY <1>0, <1>2, <1>3, FoldLeftSolution
<1>5. ASSUME NEW s \in SUBSET D, s # {} PROVE Max(s) \in s /\ fs[Max(s)] \in Parts
  <2>1. D = 1 .. Len(fs) /\ Len(fs) \in Nat
    BY <1>2
  <2>2. s \in SUBSET (1 .. Len(fs))
    BY <2>1
  <2>3. Max(s) \in s
    BY <1>5, <2>1, <2>2, MaxOf
  <2>4. Max(s) \in 1 .. Len(fs)
    BY <2>2, <2>3
  <2> QED
    BY <1>2, <2>3, <2>4, SeqElements
<1>6. ASSUME NEW s \in SUBSET D
      PROVE  w[s] = IF s = {} THEN x ELSE EntryTake(w[s \ {Max(s)}], fs[Max(s)])
  <2>1. CASE s = {}
    BY <2>1, <1>4 DEF PeelsLeft
  <2>2. CASE s # {}
    <3>1. fs[Max(s)] \in Parts /\ w[s \ {Max(s)}] \in Entries
      BY <2>2, <1>4, <1>5
    <3>2. w[s] = EntryStep[<<w[s \ {Max(s)}], fs[Max(s)]>>]
      BY <2>2, <1>4 DEF PeelsLeft
    <3> QED
      BY <2>2, <3>1, <3>2, <1>3
  <2> QED
    BY <2>1, <2>2
<1>7. w = [s \in SUBSET D |-> w[s]]
  BY <1>4
<1>8. Is(w)
  BY <1>6, <1>7
<1>9. Is(v)
  BY <1>8
<1> HIDE DEF v
<1>10. /\ v[{}] = x
       /\ \A s \in SUBSET D : s # {} => v[s] = EntryTake(v[s \ {Max(s)}], fs[Max(s)])
  BY <1>9
<1>11. \A s \in SUBSET D : s # {} /\ v[s \ {Max(s)}] \in Entries
                              => v[s] = EntryStep[<<v[s \ {Max(s)}], fs[Max(s)]>>]
  BY <1>3, <1>5, <1>10
<1> HIDE DEF Is
<1>12. Unfolds(v, fs, x, EntryStep, Entries)
  BY <1>10, <1>11 DEF Unfolds
<1>13. Folds(EntryStep, x, fs, v[D], {}) /\ v[D] \in Entries
  BY <1>2, <1>3, <1>12, <1>0, FoldLeftRuns
<1> QED
  BY <1>1, <1>13 DEF fs, x

\* The bytes of an entry make the entry.
LEMMA EntryWrites ==
  ASSUME NEW k \in Nat, NEW v \in ByteSeqs
  PROVE  Reads(EntryStep, EntryOf(0, <<>>), EntrySerialize(k, v), EntryOf(k, v), {}, Parts)
<1>1. 8 \in 8 .. 127 /\ 8 % 8 = 0 /\ 18 \in 8 .. 127 /\ 18 % 8 = 2
  OBVIOUS
<1>2. Whole(NumberField(8, k)) /\ Whole(BytesField(18, v))
  BY <1>1, NumberFieldWhole, BytesFieldWhole
<1>3. NumberField(8, k) \in Parts /\ BytesField(18, v) \in Parts
  BY <1>2, WholeIsPart
<1>4. /\ NumberField(8, k).tag = 8 /\ NumberField(8, k).val = k
      /\ NumberField(8, k).raw = VarintField(8, k)
      /\ BytesField(18, v).tag = 18 /\ BytesField(18, v).data = v
      /\ BytesField(18, v).raw = LenField(18, Len(v), v)
  BY DEF NumberField, BytesField
<1>5. Reads(EntryStep, EntryOf(0, <<>>), VarintField(8, k), EntryOf(k, <<>>), {}, Parts)
  <2>1. EntryStep[<<EntryOf(0, <<>>), NumberField(8, k)>>] = EntryOf(k, <<>>)
    BY <1>3, <1>4, EntryOfType, NoBytes, EntryStepIs, EntryTakeIs
  <2> QED
    BY <2>1, <1>2, <1>3, <1>4, ReadsField
<1>6. Reads(EntryStep, EntryOf(k, <<>>), LenField(18, Len(v), v), EntryOf(k, v), {}, Parts)
  <2>1. EntryStep[<<EntryOf(k, <<>>), BytesField(18, v)>>] = EntryOf(k, v)
    BY <1>3, <1>4, EntryOfType, NoBytes, EntryStepIs, EntryTakeIs
  <2> QED
    BY <2>1, <1>2, <1>3, <1>4, ReadsField
<1> QED
  BY <1>5, <1>6, ReadsThen DEF EntrySerialize

\* All fields of b can be read.
FieldsReadable(b) == \A f \in ToSet(Fields(b)) : f # Malformed

\* An entry is read as it was written, and takes the bytes announced.
LEMMA EntryReadsBack ==
  ASSUME NEW k \in Nat, NEW v \in ByteSeqs
  PROVE  /\ EntrySerialize(k, v) \in ByteSeqs
         /\ EntryParse(EntrySerialize(k, v)) = EntryOf(k, v)
         /\ FieldsReadable(EntrySerialize(k, v))
         /\ Len(EntrySerialize(k, v)) = EntrySize(k, v)
<1>1. 8 \in 8 .. 127 /\ 18 \in 8 .. 127
  OBVIOUS
<1> DEFINE p == VarintField(8, k)
           q == LenField(18, Len(v), v)
           b == EntrySerialize(k, v)
<1>2. b = p \o q
  BY DEF EntrySerialize
<1>3. p \in ByteSeqs /\ Len(p) = 1 + VarintSize(k) /\ q \in ByteSeqs /\ Len(q) = LenFieldSize(Len(v))
  BY <1>1, VarintFieldBytes, LenFieldBytes
<1>4. EntrySize(k, v) = 1 + VarintSize(k) + LenFieldSize(Len(v))
  BY DEF EntrySize
<1>5. Reads(EntryStep, EntryOf(0, <<>>), b, EntryOf(k, v), {}, Parts)
  BY EntryWrites
<1> HIDE DEF p, q, b
<1>6. b \in ByteSeqs /\ Len(b) = Len(p) + Len(q)
  BY <1>2, <1>3, ConcatLen
<1>7. Folds(EntryStep, EntryOf(0, <<>>), Fields(b), EntryParse(b), {})
  BY <1>6, EntryParses
<1>8. EntryParse(b) = EntryOf(k, v) /\ \A f \in ToSet(Fields(b)) : f # Malformed
  BY <1>5, <1>7, ReadsIsRun
<1> QED
  BY <1>3, <1>4, <1>6, <1>8 DEF b, FieldsReadable

Metadatas == UNION {[D -> ByteSeqs] : D \in SUBSET Nat}

\* The keys and the values of metadata.
LEMMA MetadataKeys ==
  ASSUME NEW m \in Metadatas
  PROVE  /\ DOMAIN m \subseteq Nat /\ \A k \in DOMAIN m : m[k] \in ByteSeqs
         /\ m = [k \in DOMAIN m |-> m[k]]
  BY DEF Metadatas

\* A function from numbers to byte strings is metadata.
LEMMA MetadataIs ==
  ASSUME NEW m, NEW D \in SUBSET Nat, m \in [D -> ByteSeqs]
  PROVE  m \in Metadatas
  BY DEF Metadatas

\* Merging two of them gives another.
LEMMA MapMergeType ==
  ASSUME NEW m \in Metadatas, NEW n \in Metadatas
  PROVE  MapMerge(m, n) \in Metadatas
<1>1. MapMerge(m, n) \in [DOMAIN m \cup DOMAIN n -> ByteSeqs]
  BY MetadataKeys DEF MapMerge
<1>2. DOMAIN m \cup DOMAIN n \in SUBSET Nat
  BY MetadataKeys
<1> QED
  BY <1>1, <1>2, MetadataIs

\* So does putting an entry.
LEMMA PutEntryType ==
  ASSUME NEW m \in Metadatas, NEW e \in Entries
  PROVE  PutEntry(m, e) \in Metadatas
<1> DEFINE n == [k \in {e.key} |-> e.value]
<1>1. n \in Metadatas
  <2>1. n \in [{e.key} -> ByteSeqs] /\ {e.key} \in SUBSET Nat
    BY EntryParts
  <2> HIDE DEF n
  <2> QED
    BY <2>1, MetadataIs
<1> HIDE DEF n
<1>2. MapMerge(m, n) \in Metadatas
  BY <1>1, MapMergeType
<1> QED
  BY <1>2 DEF PutEntry, n

\* No metadata.
LEMMA NoMetadata == <<>> \in Metadatas /\ DOMAIN <<>> = {}
<1>1. <<>> \in [{} -> ByteSeqs] /\ {} \in SUBSET Nat
  OBVIOUS
<1> QED
  BY <1>1, MetadataIs

\* The bytes of one entry in the message, and how many they are.
LEMMA MetadataBytes ==
  ASSUME NEW m \in Metadatas, NEW k \in Nat
  PROVE  /\ Metadata(m, k) \in ByteSeqs /\ Len(Metadata(m, k)) = MetadataSize(m, k)
         /\ MetadataSize(m, k) \in Nat
<1>1. CASE k \in DOMAIN m
  <2>1. m[k] \in ByteSeqs
    BY <1>1, MetadataKeys
  <2> DEFINE b == EntrySerialize(k, m[k])
  <2>2. b \in ByteSeqs /\ Len(b) = EntrySize(k, m[k])
    BY <2>1, EntryReadsBack
  <2> HIDE DEF b
  <2>3. 26 \in 8 .. 127
    OBVIOUS
  <2>4. /\ LenField(26, Len(b), b) \in ByteSeqs
        /\ Len(LenField(26, Len(b), b)) = LenFieldSize(Len(b))
        /\ LenFieldSize(Len(b)) \in Nat
    BY <2>2, <2>3, LenFieldBytes
  <2>5. Metadata(m, k) = LenField(26, Len(b), b)
    BY <1>1, <2>2 DEF Metadata, b
  <2>6. MetadataSize(m, k) = LenFieldSize(Len(b))
    BY <1>1, <2>2 DEF MetadataSize
  <2> QED
    BY <2>4, <2>5, <2>6
<1>2. CASE k \notin DOMAIN m
  BY <1>2, NoBytes DEF Metadata, MetadataSize
<1> QED
  BY <1>1, <1>2

-----------------------------------------------------------------------------
(* Hop. *)

Hops == [asn : Nat, nodeId : Nat, metadata : Metadatas, unknown : Unknowns({8, 16, 26})]
HopOf(a, n, m, u) == [asn |-> a, nodeId |-> n, metadata |-> m, unknown |-> u]
HopStep == [p \in Hops \X Parts |-> HopTake(p[1], p[2])]

\* A hop is made of its parts.
LEMMA HopParts ==
  ASSUME NEW h \in Hops
  PROVE  /\ h = HopOf(h.asn, h.nodeId, h.metadata, h.unknown)
         /\ h.asn \in Nat /\ h.nodeId \in Nat /\ h.metadata \in Metadatas
         /\ h.unknown \in Unknowns({8, 16, 26}) /\ h.unknown \in ByteSeqs
<1>1. h = HopOf(h.asn, h.nodeId, h.metadata, h.unknown)
  BY DEF Hops, HopOf
<1>2. /\ h.asn \in Nat /\ h.nodeId \in Nat /\ h.metadata \in Metadatas
      /\ h.unknown \in Unknowns({8, 16, 26})
  BY DEF Hops
<1>3. h.unknown \in ByteSeqs
  BY <1>2 DEF Unknowns
<1> QED
  BY <1>1, <1>2, <1>3

\* And parts make a hop.
LEMMA HopOfType ==
  ASSUME NEW a \in Nat, NEW n \in Nat, NEW m \in Metadatas, NEW u \in Unknowns({8, 16, 26})
  PROVE  HopOf(a, n, m, u) \in Hops
  BY DEF HopOf, Hops

\* The empty hop.
LEMMA HopEmptyType == Hop \in Hops /\ Hop = HopOf(0, 0, <<>>, <<>>)
<1>1. Hop = HopOf(0, 0, <<>>, <<>>)
  BY DEF Hop, HopOf
<1>2. <<>> \in Unknowns({8, 16, 26}) /\ <<>> \in Metadatas
  BY UnknownNothing, NoMetadata
<1> QED
  BY <1>1, <1>2, HopOfType

\* What each field sets.
LEMMA HopTakeIs ==
  ASSUME NEW a, NEW n, NEW m, NEW u, NEW f
  PROVE  /\ f.tag = 8 => HopTake(HopOf(a, n, m, u), f) = HopOf(f.val, n, m, u)
         /\ f.tag = 16 => HopTake(HopOf(a, n, m, u), f) = HopOf(a, f.val, m, u)
         /\ f.tag = 26 => HopTake(HopOf(a, n, m, u), f)
                          = HopOf(a, n, PutEntry(m, EntryParse(f.data)), u)
         /\ f.tag \notin {8, 16, 26} => HopTake(HopOf(a, n, m, u), f)
                                        = HopOf(a, n, m, u \o f.raw)
<1>1. CASE f.tag = 8
  BY <1>1 DEF HopTake, HopOf
<1>2. CASE f.tag = 16
  BY <1>2 DEF HopTake, HopOf
<1>3. CASE f.tag = 26
  BY <1>3 DEF HopTake, HopOf
<1>4. CASE f.tag \notin {8, 16, 26}
  BY <1>4 DEF HopTake, HopOf
<1> QED
  BY <1>1, <1>2, <1>3, <1>4

\* A field turns a hop into a hop.
LEMMA HopTakeType ==
  ASSUME NEW h \in Hops, NEW f \in Parts
  PROVE  HopTake(h, f) \in Hops
<1>1. PICK a \in Nat, n \in Nat, m \in Metadatas, u \in Unknowns({8, 16, 26}) :
        h = HopOf(a, n, m, u)
  BY HopParts
<1>2. f.val \in Nat /\ f.data \in ByteSeqs
  BY PartType
<1>3. CASE f.tag = 8 \/ f.tag = 16
  BY <1>1, <1>2, <1>3, HopTakeIs, HopOfType
<1>4. CASE f.tag = 26
  <2>1. EntryParse(f.data) \in Entries
    BY <1>2, EntryParses
  <2>2. PutEntry(m, EntryParse(f.data)) \in Metadatas
    BY <2>1, PutEntryType
  <2> QED
    BY <1>1, <1>4, <2>2, HopTakeIs, HopOfType
<1>5. CASE f.tag \notin {8, 16, 26}
  <2>1. u \o f.raw \in Unknowns({8, 16, 26})
    BY <1>5, UnknownMore
  <2> QED
    BY <1>1, <1>5, <2>1, HopTakeIs, HopOfType
<1>6. f.tag = 8 \/ f.tag = 16 \/ f.tag = 26 \/ f.tag \notin {8, 16, 26}
  OBVIOUS
<1> QED
  BY <1>3, <1>4, <1>5, <1>6

\* So the reader is a function on hops.
LEMMA HopStepIs ==
  /\ HopStep \in [Hops \X Parts -> Hops]
  /\ \A m \in Hops, f \in Parts : HopStep[<<m, f>>] = HopTake(m, f)
<1>1. ASSUME NEW p \in Hops \X Parts PROVE HopTake(p[1], p[2]) \in Hops
  BY HopTakeType
<1>2. HopStep \in [Hops \X Parts -> Hops]
  BY <1>1 DEF HopStep
<1>3. ASSUME NEW m \in Hops, NEW f \in Parts PROVE HopStep[<<m, f>>] = HopTake(m, f)
  BY DEF HopStep
<1> QED
  BY <1>2, <1>3

\* What is read into a hop is the run of its reader.
LEMMA HopParses ==
  ASSUME NEW x \in Hops, NEW b \in ByteSeqs
  PROVE  Folds(HopStep, x, Fields(b), HopParse(x, b), {}) /\ HopParse(x, b) \in Hops
<1> DEFINE fs == Fields(b)
           D == DOMAIN fs
           Is(v) == v = [s \in SUBSET D |-> IF s = {} THEN x
                                           ELSE HopTake(v[s \ {Max(s)}], fs[Max(s)])]
           v == CHOOSE v : Is(v)
<1>1. HopParse(x, b) = v[D]
  BY DEF HopParse, FoldLeft, MapThenFoldSet
<1>2. fs \in Seq(Parts)
  BY FieldsIs
<1> HIDE DEF fs
<1>3. /\ HopStep \in [Hops \X Parts -> Hops]
      /\ \A m \in Hops, f \in Parts : HopStep[<<m, f>>] = HopTake(m, f)
  BY HopStepIs
<1>4. PICK w \in [SUBSET D -> Hops] : PeelsLeft(w, fs, x, HopStep)
  BY <1>2, <1>3, FoldLeftSolution
<1>5. ASSUME NEW s \in SUBSET D, s # {} PROVE Max(s) \in s /\ fs[Max(s)] \in Parts
  <2>1. D = 1 .. Len(fs) /\ Len(fs) \in Nat
    BY <1>2
  <2>2. s \in SUBSET (1 .. Len(fs))
    BY <2>1
  <2>3. Max(s) \in s
    BY <1>5, <2>1, <2>2, MaxOf
  <2>4. Max(s) \in 1 .. Len(fs)
    BY <2>2, <2>3
  <2> QED
    BY <1>2, <2>3, <2>4, SeqElements
<1>6. ASSUME NEW s \in SUBSET D
      PROVE  w[s] = IF s = {} THEN x ELSE HopTake(w[s \ {Max(s)}], fs[Max(s)])
  <2>1. CASE s = {}
    BY <2>1, <1>4 DEF PeelsLeft
  <2>2. CASE s # {}
    <3>1. fs[Max(s)] \in Parts /\ w[s \ {Max(s)}] \in Hops
      BY <2>2, <1>4, <1>5
    <3>2. w[s] = HopStep[<<w[s \ {Max(s)}], fs[Max(s)]>>]
      BY <2>2, <1>4 DEF PeelsLeft
    <3> QED
      BY <2>2, <3>1, <3>2, <1>3
  <2> QED
    BY <2>1, <2>2
<1>7. w = [s \in SUBSET D |-> w[s]]
  BY <1>4
<1>8. Is(w)
  BY <1>6, <1>7
<1>9. Is(v)
  BY <1>8
<1> HIDE DEF v
<1>10. /\ v[{}] = x
       /\ \A s \in SUBSET D : s # {} => v[s] = HopTake(v[s \ {Max(s)}], fs[Max(s)])
  BY <1>9
<1>11. \A s \in SUBSET D : s # {} /\ v[s \ {Max(s)}] \in Hops
                              => v[s] = HopStep[<<v[s \ {Max(s)}], fs[Max(s)]>>]
  BY <1>3, <1>5, <1>10
<1> HIDE DEF Is
<1>12. Unfolds(v, fs, x, HopStep, Hops)
  BY <1>10, <1>11 DEF Unfolds
<1>13. Folds(HopStep, x, fs, v[D], {}) /\ v[D] \in Hops
  BY <1>2, <1>3, <1>12, FoldLeftRuns
<1> QED
  BY <1>1, <1>13 DEF fs

\* A byte string that is there unless something is missing.
LEMMA EitherBytes ==
  ASSUME NEW b, NEW n, NEW c \in BOOLEAN, c => b \in ByteSeqs /\ Len(b) = n
  PROVE  /\ (IF c THEN b ELSE <<>>) \in ByteSeqs
         /\ Len(IF c THEN b ELSE <<>>) = IF c THEN n ELSE 0
  BY NoBytes

\* The sum that is the size of the metadata.
LEMMA MetadataSum ==
  ASSUME NEW m \in Metadatas, NEW order \in Seq(Nat)
  PROVE  LET total == FoldLeft(LAMBDA n, k : n + MetadataSize(m, k), 0, order)
         IN  \E g : /\ g[0] = 0 /\ g[Len(order)] = total
                    /\ \A i \in 1 .. Len(order) : g[i] = g[i - 1] + MetadataSize(m, order[i])
<1> DEFINE step == [p \in Nat \X Nat |-> p[1] + MetadataSize(m, p[2])]
           D == DOMAIN order
           Is(v) == v = [s \in SUBSET D |-> IF s = {} THEN 0
                           ELSE v[s \ {Max(s)}] + MetadataSize(m, order[Max(s)])]
           v == CHOOSE v : Is(v)
<1>1. FoldLeft(LAMBDA n, k : n + MetadataSize(m, k), 0, order) = v[D]
  BY DEF FoldLeft, MapThenFoldSet
<1>2. \A k \in Nat : MetadataSize(m, k) \in Nat
  BY MetadataBytes
<1>3. /\ step \in [Nat \X Nat -> Nat]
      /\ \A n \in Nat, k \in Nat : step[<<n, k>>] = n + MetadataSize(m, k)
  <2>1. ASSUME NEW p \in Nat \X Nat PROVE p[1] + MetadataSize(m, p[2]) \in Nat
    <3>1. p[1] \in Nat /\ MetadataSize(m, p[2]) \in Nat
      BY <1>2
    <3> QED
      BY <3>1
  <2>2. step \in [Nat \X Nat -> Nat]
    BY <2>1
  <2>3. ASSUME NEW n \in Nat, NEW k \in Nat PROVE step[<<n, k>>] = n + MetadataSize(m, k)
    BY <2>2
  <2> QED
    BY <2>2, <2>3
<1> HIDE DEF step
<1>4. PICK w \in [SUBSET D -> Nat] : PeelsLeft(w, order, 0, step)
  BY <1>3, FoldLeftSolution
<1>5. ASSUME NEW s \in SUBSET D, s # {} PROVE Max(s) \in s /\ order[Max(s)] \in Nat
  <2>1. D = 1 .. Len(order) /\ Len(order) \in Nat
    OBVIOUS
  <2>2. s \in SUBSET (1 .. Len(order))
    BY <2>1
  <2>3. Max(s) \in s
    BY <1>5, <2>1, <2>2, MaxOf
  <2>4. Max(s) \in 1 .. Len(order)
    BY <2>2, <2>3
  <2> QED
    BY <2>3, <2>4, SeqElements
<1>6. ASSUME NEW s \in SUBSET D
      PROVE  w[s] = IF s = {} THEN 0 ELSE w[s \ {Max(s)}] + MetadataSize(m, order[Max(s)])
  <2>1. CASE s = {}
    BY <2>1, <1>4 DEF PeelsLeft
  <2>2. CASE s # {}
    <3>1. order[Max(s)] \in Nat /\ w[s \ {Max(s)}] \in Nat
      BY <2>2, <1>4, <1>5
    <3>2. w[s] = step[<<w[s \ {Max(s)}], order[Max(s)]>>]
      BY <2>2, <1>4 DEF PeelsLeft
    <3> QED
      BY <2>2, <3>1, <3>2, <1>3
  <2> QED
    BY <2>1, <2>2
<1>7. w = [s \in SUBSET D |-> w[s]]
  BY <1>4
<1>8. Is(w)
  BY <1>6, <1>7
<1>9. Is(v)
  BY <1>8
<1> HIDE DEF v
<1>10. /\ v[{}] = 0
       /\ \A s \in SUBSET D : s # {} =>
            v[s] = v[s \ {Max(s)}] + MetadataSize(m, order[Max(s)])
  BY <1>9
<1>11. \A s \in SUBSET D : s # {} /\ v[s \ {Max(s)}] \in Nat
                              => v[s] = step[<<v[s \ {Max(s)}], order[Max(s)]>>]
  BY <1>3, <1>5, <1>10
<1> HIDE DEF Is
<1>12. Unfolds(v, order, 0, step, Nat)
  BY <1>10, <1>11 DEF Unfolds
<1>13. Folds(step, 0, order, v[D], {})
  BY <1>3, <1>12, FoldLeftRuns
<1>14. PICK g : /\ g[0] = 0 /\ g[Len(order)] = v[D]
                /\ \A i \in 1 .. Len(order) : g[i] = step[<<g[i - 1], order[i]>>]
  BY <1>13 DEF Folds
<1> HIDE DEF D
<1>15. /\ Len(order) \in Nat /\ \A i \in 1 .. Len(order) : order[i] \in Nat
  BY SeqElements
<1> DEFINE T == {i \in Nat : i <= Len(order) => g[i] \in Nat}
<1>16. ASSUME NEW i \in Nat \ {0}, i - 1 \in T PROVE i \in T
  <2>1. SUFFICES ASSUME i <= Len(order) PROVE g[i] \in Nat
    OBVIOUS
  <2>2. i \in 1 .. Len(order) /\ i - 1 <= Len(order)
    BY <2>1, <1>15
  <2>3. g[i - 1] \in Nat /\ order[i] \in Nat
    BY <2>2, <1>15, <1>16
  <2> QED
    BY <2>2, <2>3, <1>2, <1>3, <1>14
<1>17. 0 \in T
  BY <1>14
<1>18. Nat \subseteq T
  <2> HIDE DEF T
  <2> QED
    BY <1>16, <1>17, NatSetInduction
<1>19. ASSUME NEW i \in 1 .. Len(order) PROVE g[i] = g[i - 1] + MetadataSize(m, order[i])
  <2>1. i - 1 \in Nat /\ i - 1 <= Len(order)
    BY <1>15
  <2>2. g[i - 1] \in Nat
    BY <2>1, <1>18
  <2> QED
    BY <2>2, <1>3, <1>14, <1>15
<1> QED
  BY <1>1, <1>14, <1>19

\* The metadata of a hop takes the bytes that were counted.
LEMMA FlattenType ==
  ASSUME NEW S, NEW s \in Seq(Seq(S))
  PROVE  FlattenSeq(s) \in Seq(S)
<1>1. Len(s) \in 0 .. Len(s) /\ FlattenSeq(SubSeq(s, 1, Len(s))) = FlattenSeq(s)
  BY FlattenWhole
<1> QED
  BY <1>1, FlattenWhole

\* The metadata takes the bytes that were counted.
LEMMA MetadataLength ==
  ASSUME NEW m \in Metadatas, NEW order \in Seq(Nat)
  PROVE  LET b == FlattenSeq([i \in DOMAIN order |-> Metadata(m, order[i])])
         IN  /\ b \in ByteSeqs
             /\ Len(b) = FoldLeft(LAMBDA n, k : n + MetadataSize(m, k), 0, order)
<1> DEFINE s == [i \in DOMAIN order |-> Metadata(m, order[i])]
           total == FoldLeft(LAMBDA n, k : n + MetadataSize(m, k), 0, order)
<1>1. PICK g : /\ g[0] = 0 /\ g[Len(order)] = total
               /\ \A i \in 1 .. Len(order) : g[i] = g[i - 1] + MetadataSize(m, order[i])
  BY MetadataSum
<1>2. /\ Len(order) \in Nat /\ DOMAIN order = 1 .. Len(order)
      /\ \A i \in 1 .. Len(order) : order[i] \in Nat
  BY SeqElements
<1>3. \A i \in 1 .. Len(order) : /\ Metadata(m, order[i]) \in ByteSeqs
                                 /\ Len(Metadata(m, order[i])) = MetadataSize(m, order[i])
  BY <1>2, MetadataBytes
<1>4. /\ s \in Seq(ByteSeqs) /\ Len(s) = Len(order)
      /\ \A i \in 1 .. Len(s) : Len(s[i]) = MetadataSize(m, order[i])
  BY <1>2, <1>3
<1> HIDE DEF s, total
<1>5. s \in Seq(Seq(0 .. 255))
  BY <1>4 DEF ByteSeqs
<1>6. Len(FlattenSeq(s)) = g[Len(s)]
  <2>1. \A i \in 1 .. Len(s) : g[i] = g[i - 1] + Len(s[i])
    BY <1>1, <1>4
  <2> QED
    BY <1>1, <1>5, <2>1, FlattenLength
<1>7. FlattenSeq(s) \in ByteSeqs
  BY <1>5, FlattenType DEF ByteSeqs
<1> QED
  BY <1>1, <1>4, <1>6, <1>7 DEF s, total

\* Four byte strings in a row.
LEMMA FourBytes ==
  ASSUME NEW a \in ByteSeqs, NEW b \in ByteSeqs, NEW c \in ByteSeqs, NEW d \in ByteSeqs
  PROVE  /\ a \o b \o c \o d \in ByteSeqs
         /\ Len(a \o b \o c \o d) = Len(a) + Len(b) + Len(c) + Len(d)
<1>1. a \o b \in ByteSeqs /\ Len(a \o b) = Len(a) + Len(b)
  BY ConcatLen
<1>2. a \o b \o c \in ByteSeqs /\ Len(a \o b \o c) = Len(a) + Len(b) + Len(c)
  BY <1>1, ConcatLen
<1> QED
  BY <1>2, ConcatLen

\* A number that is written unless it is zero.
LEMMA NumberBytes ==
  ASSUME NEW tag \in 8 .. 127, NEW n \in Nat
  PROVE  /\ (IF n # 0 THEN VarintField(tag, n) ELSE <<>>) \in ByteSeqs
         /\ Len(IF n # 0 THEN VarintField(tag, n) ELSE <<>>)
              = IF n # 0 THEN 1 + VarintSize(n) ELSE 0
         /\ (IF n # 0 THEN 1 + VarintSize(n) ELSE 0) \in Nat
<1>1. /\ VarintField(tag, n) \in ByteSeqs
      /\ Len(VarintField(tag, n)) = 1 + VarintSize(n)
  BY VarintFieldBytes
<1>2. VarintSize(n) \in Nat
  BY VarintType
<1>3. CASE n = 0
  BY <1>3, NoBytes
<1>4. CASE n # 0
  BY <1>1, <1>2, <1>4
<1> QED
  BY <1>3, <1>4

\* A hop takes the bytes that were counted.
LEMMA SizeOfHop ==
  ASSUME NEW h \in Hops, NEW order \in Seq(Nat)
  PROVE  /\ HopSerialize(h, order) \in ByteSeqs
         /\ Len(HopSerialize(h, order)) = HopByteSize(h, order)
<1> DEFINE p == IF h.asn # 0 THEN VarintField(8, h.asn) ELSE <<>>
           q == IF h.nodeId # 0 THEN VarintField(16, h.nodeId) ELSE <<>>
           d == FlattenSeq([i \in DOMAIN order |-> Metadata(h.metadata, order[i])])
           total == FoldLeft(LAMBDA n, k : n + MetadataSize(h.metadata, k), 0, order)
           m == IF h.asn # 0 THEN 1 + VarintSize(h.asn) ELSE 0
           n == IF h.nodeId # 0 THEN 1 + VarintSize(h.nodeId) ELSE 0
<1>1. h.asn \in Nat /\ h.nodeId \in Nat /\ h.metadata \in Metadatas /\ h.unknown \in ByteSeqs
  BY HopParts
<1>2. 8 \in 8 .. 127 /\ 16 \in 8 .. 127
  OBVIOUS
<1>3. p \in ByteSeqs /\ Len(p) = m /\ q \in ByteSeqs /\ Len(q) = n
  BY <1>1, <1>2, NumberBytes
<1>4. d \in ByteSeqs /\ Len(d) = total
  BY <1>1, MetadataLength
<1>5. HopSerialize(h, order) = p \o q \o d \o h.unknown
  BY DEF HopSerialize
<1>6. HopByteSize(h, order) = total + m + n + Len(h.unknown)
  BY DEF HopByteSize
<1> HIDE DEF p, q, d, total, m, n
<1>7. /\ p \o q \o d \o h.unknown \in ByteSeqs
      /\ Len(p \o q \o d \o h.unknown) = Len(p) + Len(q) + Len(d) + Len(h.unknown)
  <2> DEFINE u == h.unknown
  <2>1. p \in ByteSeqs /\ q \in ByteSeqs /\ d \in ByteSeqs /\ u \in ByteSeqs
    BY <1>1, <1>3, <1>4
  <2> HIDE DEF u
  <2>2. /\ p \o q \o d \o u \in ByteSeqs
        /\ Len(p \o q \o d \o u) = Len(p) + Len(q) + Len(d) + Len(u)
    BY <2>1, FourBytes
  <2> QED
    BY <2>2 DEF u
<1>8. Len(p) \in Nat /\ Len(q) \in Nat /\ Len(d) \in Nat /\ Len(h.unknown) \in Nat
  BY <1>1, <1>3, <1>4, ByteAt
<1> QED
  BY <1>3, <1>4, <1>5, <1>6, <1>7, <1>8

\* The entries of the first keys of an order.
FirstKeys(m, order, i) == DOMAIN m \cap {order[j] : j \in 1 .. i}
FirstEntries(m, order, i) == [k \in FirstKeys(m, order, i) |-> m[k]]

\* They are metadata.
LEMMA FirstEntriesType ==
  ASSUME NEW m \in Metadatas, NEW order, NEW i
  PROVE  FirstEntries(m, order, i) \in Metadatas
<1>1. FirstEntries(m, order, i) \in [FirstKeys(m, order, i) -> ByteSeqs]
  BY MetadataKeys DEF FirstEntries, FirstKeys
<1>2. FirstKeys(m, order, i) \in SUBSET Nat
  BY MetadataKeys DEF FirstKeys
<1> QED
  BY <1>1, <1>2, MetadataIs

\* None at first, all in the end.
LEMMA FirstEntriesEnds ==
  ASSUME NEW m \in Metadatas, NEW order \in Seq(Nat),
         DOMAIN m \subseteq {order[j] : j \in 1 .. Len(order)}
  PROVE  FirstEntries(m, order, 0) = <<>> /\ FirstEntries(m, order, Len(order)) = m
<1>1. FirstKeys(m, order, 0) = {}
  BY DEF FirstKeys
<1>2. FirstKeys(m, order, Len(order)) = DOMAIN m
  BY DEF FirstKeys
<1>3. m = [k \in DOMAIN m |-> m[k]]
  BY MetadataKeys
<1> QED
  BY <1>1, <1>2, <1>3 DEF FirstEntries

\* One key adds its entry, if it has one.
LEMMA FirstEntriesStep ==
  ASSUME NEW m \in Metadatas, NEW order \in Seq(Nat), NEW i \in 1 .. Len(order)
  PROVE  /\ order[i] \notin DOMAIN m =>
              FirstEntries(m, order, i) = FirstEntries(m, order, i - 1)
         /\ order[i] \in DOMAIN m =>
              FirstEntries(m, order, i)
                = PutEntry(FirstEntries(m, order, i - 1), EntryOf(order[i], m[order[i]]))
<1> DEFINE k == order[i]
           D == FirstKeys(m, order, i)
           E == FirstKeys(m, order, i - 1)
<1>1. {order[j] : j \in 1 .. i} = {order[j] : j \in 1 .. i - 1} \cup {k}
  <2>1. Len(order) \in Nat
    OBVIOUS
  <2>2. \A j : j \in 1 .. i <=> j \in 1 .. i - 1 \/ j = i
    BY <2>1
  <2> QED
    BY <2>2
<1>2. CASE k \notin DOMAIN m
  <2>1. D = E
    BY <1>1, <1>2 DEF FirstKeys
  <2> QED
    BY <1>2, <2>1 DEF FirstEntries
<1>3. CASE k \in DOMAIN m
  <2>1. D = E \cup {k} /\ D \subseteq DOMAIN m
    BY <1>1, <1>3 DEF FirstKeys
  <2> DEFINE old == FirstEntries(m, order, i - 1)
             e == EntryOf(k, m[k])
             n == [j \in {e.key} |-> e.value]
  <2>2. DOMAIN old = E /\ \A j \in E : old[j] = m[j]
    BY DEF FirstEntries
  <2>3. e.key = k /\ e.value = m[k]
    BY DEF EntryOf
  <2>4. DOMAIN n = {k} /\ n[k] = m[k]
    BY <2>3
  <2> HIDE DEF D, E, old, k, e, n
  <2>5. MapMerge(old, n) = [j \in E \cup {k} |-> IF j \in {k} THEN n[j] ELSE old[j]]
    BY <2>2, <2>4 DEF MapMerge
  <2>6. \A j \in E \cup {k} : (IF j \in {k} THEN n[j] ELSE old[j]) = m[j]
    BY <2>2, <2>4
  <2>7. MapMerge(old, n) = [j \in E \cup {k} |-> m[j]]
    BY <2>5, <2>6
  <2>8. MapMerge(old, n) = FirstEntries(m, order, i)
    BY <2>1, <2>7 DEF FirstEntries, D
  <2>9. PutEntry(old, e) = MapMerge(old, n)
    BY DEF PutEntry, n
  <2> QED
    BY <1>3, <2>8, <2>9 DEF old, e, k
<1> QED
  BY <1>2, <1>3

\* The fields of a hop whose entries can be read.
HopFields == {f \in Parts : f.tag = 26 => FieldsReadable(f.data)}

\* A field that is no entry is one of them.
LEMMA HopFieldsHas ==
  ASSUME NEW f \in Parts, f.tag # 26
  PROVE  f \in HopFields
  BY DEF HopFields

\* Reading the written entries gives the metadata.
LEMMA MetadataWrites ==
  ASSUME NEW a \in Nat, NEW n \in Nat, NEW u \in Unknowns({8, 16, 26}), NEW m \in Metadatas,
         NEW order \in Seq(Nat), DOMAIN m \subseteq {order[j] : j \in 1 .. Len(order)}
  PROVE  Reads(HopStep, HopOf(a, n, <<>>, u),
               FlattenSeq([i \in DOMAIN order |-> Metadata(m, order[i])]),
               HopOf(a, n, m, u), {}, HopFields)
<1> DEFINE s == [i \in DOMAIN order |-> Metadata(m, order[i])]
           h == [i \in 0 .. Len(order) |-> HopOf(a, n, FirstEntries(m, order, i), u)]
<1>1. /\ Len(order) \in Nat /\ DOMAIN order = 1 .. Len(order)
      /\ \A i \in 1 .. Len(order) : order[i] \in Nat
  BY SeqElements
<1>2. s \in Seq(ByteSeqs) /\ Len(s) = Len(order) /\ \A i \in 1 .. Len(s) : s[i] = Metadata(m, order[i])
  BY <1>1, MetadataBytes
<1>3. h[0] = HopOf(a, n, <<>>, u) /\ h[Len(order)] = HopOf(a, n, m, u)
  <2>1. 0 \in 0 .. Len(order) /\ Len(order) \in 0 .. Len(order)
    BY <1>1
  <2>2. /\ h[0] = HopOf(a, n, FirstEntries(m, order, 0), u)
        /\ h[Len(order)] = HopOf(a, n, FirstEntries(m, order, Len(order)), u)
    BY <2>1
  <2> HIDE DEF h
  <2> QED
    BY <2>2, FirstEntriesEnds
<1>4. ASSUME NEW i \in 1 .. Len(order)
      PROVE  Reads(HopStep, h[i - 1], Metadata(m, order[i]), h[i], {}, HopFields)
  <2> DEFINE old == FirstEntries(m, order, i - 1)
             new == FirstEntries(m, order, i)
             k == order[i]
  <2>1. h[i - 1] = HopOf(a, n, old, u) /\ h[i] = HopOf(a, n, new, u)
    <3>1. i - 1 \in 0 .. Len(order) /\ i \in 0 .. Len(order)
      BY <1>1
    <3> QED
      BY <3>1
  <2> HIDE DEF h
  <2>2. CASE k \notin DOMAIN m
    <3>1. new = old
      BY <2>2, FirstEntriesStep
    <3>2. Metadata(m, k) = <<>>
      BY <2>2 DEF Metadata
    <3> QED
      BY <2>1, <3>1, <3>2, ReadsNothing
  <2>3. CASE k \in DOMAIN m
    <3> DEFINE b == EntrySerialize(k, m[k])
               f == BytesField(26, b)
    <3>1. m[k] \in ByteSeqs /\ k \in Nat
      BY <1>1, <2>3, MetadataKeys
    <3>2. /\ b \in ByteSeqs /\ EntryParse(b) = EntryOf(k, m[k]) /\ FieldsReadable(b)
          /\ Len(b) = EntrySize(k, m[k])
      BY <3>1, EntryReadsBack
    <3>3. Metadata(m, k) = LenField(26, Len(b), b)
      BY <2>3, <3>2 DEF Metadata
    <3> HIDE DEF b
    <3>4. 26 \in 8 .. 127 /\ 26 % 8 = 2
      OBVIOUS
    <3>5. Whole(f) /\ f.tag = 26 /\ f.data = b
      BY <3>2, <3>4, BytesFieldWhole DEF BytesField
    <3>6. f \in Parts /\ f \in HopFields
      BY <3>2, <3>5, WholeIsPart DEF HopFields
    <3>7. new = PutEntry(old, EntryOf(k, m[k]))
      BY <2>3, FirstEntriesStep
    <3>8. old \in Metadatas
      BY FirstEntriesType
    <3> HIDE DEF f, old, new, k
    <3>9. HopStep[<<HopOf(a, n, old, u), f>>] = HopOf(a, n, new, u)
      BY <3>2, <3>5, <3>6, <3>7, <3>8, HopOfType, HopStepIs, HopTakeIs
    <3>10. Reads(HopStep, HopOf(a, n, old, u), LenField(26, Len(b), b), HopOf(a, n, new, u),
                 {}, HopFields)
      BY <3>2, <3>4, <3>6, <3>9, ReadsBytes DEF f
    <3>11. Metadata(m, order[i]) = LenField(26, Len(b), b)
      BY <3>3 DEF k
    <3> QED
      BY <2>1, <3>10, <3>11
  <2> QED
    BY <2>2, <2>3
<1> HIDE DEF s, h
<1>5. Reads(HopStep, h[0], FlattenSeq(s), h[Len(s)], {}, HopFields)
  BY <1>2, <1>4, ReadsFlatten
<1> QED
  BY <1>2, <1>3, <1>5 DEF s

\* The fields of a hop that the reader does not know are kept.
LEMMA HopSkips ==
  ASSUME NEW a \in Nat, NEW n \in Nat, NEW m \in Metadatas
  PROVE  Skips(HopStep, [w \in Unknowns({8, 16, 26}) |-> HopOf(a, n, m, w)],
               {8, 16, 26}, HopFields)
<1> DEFINE of == [w \in Unknowns({8, 16, 26}) |-> HopOf(a, n, m, w)]
<1>1. ASSUME NEW w \in Unknowns({8, 16, 26}), NEW f \in Parts, f.tag \notin {8, 16, 26}
      PROVE  f \in HopFields /\ HopStep[<<of[w], f>>] = of[w \o f.raw]
  <2>1. w \o f.raw \in Unknowns({8, 16, 26})
    BY <1>1, UnknownMore
  <2>2. of[w] = HopOf(a, n, m, w) /\ of[w \o f.raw] = HopOf(a, n, m, w \o f.raw)
    BY <2>1
  <2>3. HopStep[<<HopOf(a, n, m, w), f>>] = HopOf(a, n, m, w \o f.raw)
    BY <1>1, HopOfType, HopStepIs, HopTakeIs
  <2>4. f.tag # 26
    BY <1>1
  <2> QED
    BY <2>2, <2>3, <2>4, HopFieldsHas
<1> HIDE DEF of
<1>2. Skips(HopStep, of, {8, 16, 26}, HopFields)
  BY <1>1 DEF Skips
<1> QED
  BY <1>2 DEF of

\* A written hop is read as it was.
LEMMA HopWrites ==
  ASSUME NEW h \in Hops, NEW order \in Seq(Nat),
         DOMAIN h.metadata \subseteq {order[j] : j \in 1 .. Len(order)}
  PROVE  Reads(HopStep, Hop, HopSerialize(h, order), h, {}, HopFields)
<1> DEFINE K == {8, 16, 26}
<1>1. PICK a \in Nat, n \in Nat, m \in Metadatas, u \in Unknowns(K) :
        /\ h = HopOf(a, n, m, u) /\ h.asn = a /\ h.nodeId = n /\ h.metadata = m
        /\ h.unknown = u
  BY HopParts
<1> DEFINE p == IF a # 0 THEN VarintField(8, a) ELSE <<>>
           q == IF n # 0 THEN VarintField(16, n) ELSE <<>>
           d == FlattenSeq([i \in DOMAIN order |-> Metadata(m, order[i])])
<1>2. HopSerialize(h, order) = p \o q \o d \o u
  BY <1>1 DEF HopSerialize
<1>3. 8 \in 8 .. 127 /\ 8 % 8 = 0 /\ 16 \in 8 .. 127 /\ 16 % 8 = 0
  OBVIOUS
<1>4. <<>> \in Metadatas /\ <<>> \in Unknowns(K)
  BY NoMetadata, UnknownNothing
<1>5. ASSUME NEW tag \in {8, 16}, NEW v \in Nat
      PROVE  /\ NumberField(tag, v) \in Parts /\ NumberField(tag, v) \in HopFields
             /\ NumberField(tag, v).tag = tag /\ NumberField(tag, v).val = v
  <2>1. tag \in 8 .. 127 /\ tag % 8 = 0
    BY <1>3
  <2>2. Whole(NumberField(tag, v))
    BY <2>1, NumberFieldWhole
  <2>3. NumberField(tag, v).tag = tag /\ NumberField(tag, v).val = v
    BY DEF NumberField
  <2> QED
    BY <2>2, <2>3, WholeIsPart, HopFieldsHas
<1>6. Reads(HopStep, HopOf(0, 0, <<>>, <<>>), p, HopOf(a, 0, <<>>, <<>>), {}, HopFields)
  <2>1. HopStep[<<HopOf(0, 0, <<>>, <<>>), NumberField(8, a)>>] = HopOf(a, 0, <<>>, <<>>)
    BY <1>4, <1>5, HopOfType, HopStepIs, HopTakeIs
  <2>2. NumberField(8, a) \in HopFields
    BY <1>5
  <2> QED
    BY <1>3, <2>1, <2>2, ReadsNumber
<1>7. Reads(HopStep, HopOf(a, 0, <<>>, <<>>), q, HopOf(a, n, <<>>, <<>>), {}, HopFields)
  <2>1. HopStep[<<HopOf(a, 0, <<>>, <<>>), NumberField(16, n)>>] = HopOf(a, n, <<>>, <<>>)
    BY <1>4, <1>5, HopOfType, HopStepIs, HopTakeIs
  <2>2. NumberField(16, n) \in HopFields
    BY <1>5
  <2> QED
    BY <1>3, <2>1, <2>2, ReadsNumber
<1>8. Reads(HopStep, HopOf(a, n, <<>>, <<>>), d, HopOf(a, n, m, <<>>), {}, HopFields)
  BY <1>1, <1>4, MetadataWrites
<1>9. Reads(HopStep, HopOf(a, n, m, <<>>), u, HopOf(a, n, m, u), {}, HopFields)
  <2> DEFINE of == [w \in Unknowns(K) |-> HopOf(a, n, m, w)]
  <2>1. Skips(HopStep, of, K, HopFields)
    BY HopSkips
  <2>2. of[<<>>] = HopOf(a, n, m, <<>>) /\ of[u] = HopOf(a, n, m, u)
    BY <1>4
  <2>3. <<>> \o u = u
    <3>1. u \in ByteSeqs
      BY DEF Unknowns
    <3> QED
      BY <3>1, NothingThen DEF ByteSeqs
  <2> HIDE DEF of, K
  <2>4. Reads(HopStep, of[<<>>], u, of[<<>> \o u], {}, HopFields)
    BY <1>4, <2>1, ReadsSkippedAll
  <2> QED
    BY <2>2, <2>3, <2>4
<1> HIDE DEF p, q, d
<1>10. Reads(HopStep, HopOf(0, 0, <<>>, <<>>), p \o q, HopOf(a, n, <<>>, <<>>), {}, HopFields)
  BY <1>6, <1>7, ReadsThen
<1>11. Reads(HopStep, HopOf(0, 0, <<>>, <<>>), p \o q \o d, HopOf(a, n, m, <<>>), {}, HopFields)
  BY <1>8, <1>10, ReadsThen
<1>12. Reads(HopStep, HopOf(0, 0, <<>>, <<>>), p \o q \o d \o u, HopOf(a, n, m, u), {}, HopFields)
  BY <1>9, <1>11, ReadsThen
<1> QED
  BY <1>1, <1>2, <1>12, HopEmptyType

\* When a hop can be read.
LEMMA HopReadableIs ==
  ASSUME NEW b
  PROVE  HopReadable(b) <=> \A f \in ToSet(Fields(b)) :
                              f # Malformed /\ (f.tag = 26 => FieldsReadable(f.data))
  BY DEF HopReadable, Readable, FieldsReadable, AnyBytes

\* A written hop can be read, and is the hop.
LEMMA HopReadsBack ==
  ASSUME NEW h \in Hops, NEW order \in Seq(Nat),
         DOMAIN h.metadata \subseteq {order[j] : j \in 1 .. Len(order)}
  PROVE  /\ HopParse(Hop, HopSerialize(h, order)) = h
         /\ HopReadable(HopSerialize(h, order))
<1> DEFINE b == HopSerialize(h, order)
<1>1. b \in ByteSeqs
  BY SizeOfHop
<1>2. Reads(HopStep, Hop, b, h, {}, HopFields)
  BY HopWrites
<1> HIDE DEF b
<1>3. Folds(HopStep, Hop, Fields(b), HopParse(Hop, b), {})
  BY <1>1, HopEmptyType, HopParses
<1>4. /\ HopParse(Hop, b) = h
      /\ \A f \in ToSet(Fields(b)) : f \in HopFields /\ f # Malformed
  BY <1>2, <1>3, ReadsIsRun
<1>5. HopReadable(b)
  BY <1>4, HopReadableIs DEF HopFields
<1> QED
  BY <1>4, <1>5 DEF b

-----------------------------------------------------------------------------
(* Report. *)

Reports == [hops : Seq(Hops), packetType : Nat, truncated : ByteSeqs,
            unknown : Unknowns({10, 16, 26})]
ReportWith(h, p, t, u) == [hops |-> h, packetType |-> p, truncated |-> t, unknown |-> u]
ReportStep == [p \in Reports \X Parts |-> ReportTake(p[1], p[2])]

\* A report is made of its parts.
LEMMA ReportParts ==
  ASSUME NEW r \in Reports
  PROVE  /\ r = ReportWith(r.hops, r.packetType, r.truncated, r.unknown)
         /\ r.hops \in Seq(Hops) /\ r.packetType \in Nat /\ r.truncated \in ByteSeqs
         /\ r.unknown \in Unknowns({10, 16, 26}) /\ r.unknown \in ByteSeqs
<1>1. r = ReportWith(r.hops, r.packetType, r.truncated, r.unknown)
  BY DEF Reports, ReportWith
<1>2. /\ r.hops \in Seq(Hops) /\ r.packetType \in Nat /\ r.truncated \in ByteSeqs
      /\ r.unknown \in Unknowns({10, 16, 26})
  BY DEF Reports
<1>3. r.unknown \in ByteSeqs
  BY <1>2 DEF Unknowns
<1> QED
  BY <1>1, <1>2, <1>3

\* And parts make a report.
LEMMA ReportWithType ==
  ASSUME NEW h \in Seq(Hops), NEW p \in Nat, NEW t \in ByteSeqs, NEW u \in Unknowns({10, 16, 26})
  PROVE  ReportWith(h, p, t, u) \in Reports
  BY DEF ReportWith, Reports

\* The parts of a report.
LEMMA ReportWithIs ==
  ASSUME NEW h, NEW p, NEW t, NEW u
  PROVE  /\ ReportWith(h, p, t, u).hops = h /\ ReportWith(h, p, t, u).packetType = p
         /\ ReportWith(h, p, t, u).truncated = t /\ ReportWith(h, p, t, u).unknown = u
  BY DEF ReportWith

\* The empty report.
LEMMA ReportEmptyType == Report \in Reports /\ Report = ReportWith(<<>>, 0, <<>>, <<>>)
<1>1. Report = ReportWith(<<>>, 0, <<>>, <<>>)
  BY DEF Report, ReportWith
<1>2. <<>> \in Unknowns({10, 16, 26}) /\ <<>> \in ByteSeqs /\ <<>> \in Seq(Hops)
  BY UnknownNothing, NoBytes
<1> QED
  BY <1>1, <1>2, ReportWithType

\* What each field sets.
LEMMA ReportTakeIs ==
  ASSUME NEW h, NEW p, NEW t, NEW u, NEW f
  PROVE  /\ f.tag = 10 => ReportTake(ReportWith(h, p, t, u), f)
                          = ReportWith(Append(h, HopParse(Hop, f.data)), p, t, u)
         /\ f.tag = 16 => ReportTake(ReportWith(h, p, t, u), f) = ReportWith(h, f.val, t, u)
         /\ f.tag = 26 => ReportTake(ReportWith(h, p, t, u), f) = ReportWith(h, p, f.data, u)
         /\ f.tag \notin {10, 16, 26} => ReportTake(ReportWith(h, p, t, u), f)
                                         = ReportWith(h, p, t, u \o f.raw)
<1> DEFINE r == ReportWith(h, p, t, u)
           w == Append(r.hops, HopParse(Hop, f.data))
<1>1. CASE f.tag = 10
  <2>1. ReportTake(r, f) = [r EXCEPT !.hops = w]
    BY <1>1 DEF ReportTake
  <2>2. ASSUME NEW v PROVE [ReportWith(h, p, t, u) EXCEPT !.hops = v] = ReportWith(v, p, t, u)
    BY DEF ReportWith
  <2>3. ReportTake(r, f) = ReportWith(w, p, t, u)
    BY <2>1, <2>2
  <2>4. r.hops = h
    BY ReportWithIs
  <2> QED
    BY <1>1, <2>3, <2>4
<1> HIDE DEF w, r
<1>2. CASE f.tag = 16
  BY <1>2 DEF ReportTake, ReportWith
<1>3. CASE f.tag = 26
  BY <1>3 DEF ReportTake, ReportWith
<1>4. CASE f.tag \notin {10, 16, 26}
  BY <1>4 DEF ReportTake, ReportWith
<1> QED
  BY <1>1, <1>2, <1>3, <1>4

\* A field turns a report into a report.
LEMMA ReportTakeType ==
  ASSUME NEW r \in Reports, NEW f \in Parts
  PROVE  ReportTake(r, f) \in Reports
<1>1. PICK h \in Seq(Hops), p \in Nat, t \in ByteSeqs, u \in Unknowns({10, 16, 26}) :
        r = ReportWith(h, p, t, u)
  BY ReportParts
<1>2. f.val \in Nat /\ f.data \in ByteSeqs
  BY PartType
<1>3. CASE f.tag = 16 \/ f.tag = 26
  BY <1>1, <1>2, <1>3, ReportTakeIs, ReportWithType
<1>4. CASE f.tag = 10
  <2> DEFINE g == HopParse(Hop, f.data)
  <2>1. g \in Hops
    BY <1>2, HopEmptyType, HopParses
  <2> HIDE DEF g
  <2>2. Append(h, g) \in Seq(Hops)
    BY <2>1
  <2>3. ReportTake(ReportWith(h, p, t, u), f) = ReportWith(Append(h, g), p, t, u)
    BY <1>4, ReportTakeIs DEF g
  <2> QED
    BY <1>1, <2>2, <2>3, ReportWithType
<1>5. CASE f.tag \notin {10, 16, 26}
  <2>1. u \o f.raw \in Unknowns({10, 16, 26})
    BY <1>5, UnknownMore
  <2> QED
    BY <1>1, <1>5, <2>1, ReportTakeIs, ReportWithType
<1>6. f.tag = 10 \/ f.tag = 16 \/ f.tag = 26 \/ f.tag \notin {10, 16, 26}
  OBVIOUS
<1> QED
  BY <1>3, <1>4, <1>5, <1>6

\* So the reader is a function on reports.
LEMMA ReportStepIs ==
  /\ ReportStep \in [Reports \X Parts -> Reports]
  /\ \A m \in Reports, f \in Parts : ReportStep[<<m, f>>] = ReportTake(m, f)
<1>1. ASSUME NEW p \in Reports \X Parts PROVE ReportTake(p[1], p[2]) \in Reports
  BY ReportTakeType
<1>2. ReportStep \in [Reports \X Parts -> Reports]
  BY <1>1 DEF ReportStep
<1>3. ASSUME NEW m \in Reports, NEW f \in Parts PROVE ReportStep[<<m, f>>] = ReportTake(m, f)
  BY DEF ReportStep
<1> QED
  BY <1>2, <1>3

\* What is read into a report is the run of its reader.
LEMMA ReportParses ==
  ASSUME NEW x \in Reports, NEW b \in ByteSeqs
  PROVE  Folds(ReportStep, x, Fields(b), ReportParse(x, b), {}) /\ ReportParse(x, b) \in Reports
<1> DEFINE fs == Fields(b)
           D == DOMAIN fs
           Is(v) == v = [s \in SUBSET D |-> IF s = {} THEN x
                                           ELSE ReportTake(v[s \ {Max(s)}], fs[Max(s)])]
           v == CHOOSE v : Is(v)
<1>1. ReportParse(x, b) = v[D]
  BY DEF ReportParse, FoldLeft, MapThenFoldSet
<1>2. fs \in Seq(Parts)
  BY FieldsIs
<1> HIDE DEF fs
<1>3. /\ ReportStep \in [Reports \X Parts -> Reports]
      /\ \A m \in Reports, f \in Parts : ReportStep[<<m, f>>] = ReportTake(m, f)
  BY ReportStepIs
<1>4. PICK w \in [SUBSET D -> Reports] : PeelsLeft(w, fs, x, ReportStep)
  BY <1>2, <1>3, FoldLeftSolution
<1>5. ASSUME NEW s \in SUBSET D, s # {} PROVE Max(s) \in s /\ fs[Max(s)] \in Parts
  <2>1. D = 1 .. Len(fs) /\ Len(fs) \in Nat
    BY <1>2
  <2>2. s \in SUBSET (1 .. Len(fs))
    BY <2>1
  <2>3. Max(s) \in s
    BY <1>5, <2>1, <2>2, MaxOf
  <2>4. Max(s) \in 1 .. Len(fs)
    BY <2>2, <2>3
  <2> QED
    BY <1>2, <2>3, <2>4, SeqElements
<1>6. ASSUME NEW s \in SUBSET D
      PROVE  w[s] = IF s = {} THEN x ELSE ReportTake(w[s \ {Max(s)}], fs[Max(s)])
  <2>1. CASE s = {}
    BY <2>1, <1>4 DEF PeelsLeft
  <2>2. CASE s # {}
    <3>1. fs[Max(s)] \in Parts /\ w[s \ {Max(s)}] \in Reports
      BY <2>2, <1>4, <1>5
    <3>2. w[s] = ReportStep[<<w[s \ {Max(s)}], fs[Max(s)]>>]
      BY <2>2, <1>4 DEF PeelsLeft
    <3> QED
      BY <2>2, <3>1, <3>2, <1>3
  <2> QED
    BY <2>1, <2>2
<1>7. w = [s \in SUBSET D |-> w[s]]
  BY <1>4
<1>8. Is(w)
  BY <1>6, <1>7
<1>9. Is(v)
  BY <1>8
<1> HIDE DEF v
<1>10. /\ v[{}] = x
       /\ \A s \in SUBSET D : s # {} => v[s] = ReportTake(v[s \ {Max(s)}], fs[Max(s)])
  BY <1>9
<1>11. \A s \in SUBSET D : s # {} /\ v[s \ {Max(s)}] \in Reports
                              => v[s] = ReportStep[<<v[s \ {Max(s)}], fs[Max(s)]>>]
  BY <1>3, <1>5, <1>10
<1> HIDE DEF Is
<1>12. Unfolds(v, fs, x, ReportStep, Reports)
  BY <1>10, <1>11 DEF Unfolds
<1>13. Folds(ReportStep, x, fs, v[D], {}) /\ v[D] \in Reports
  BY <1>2, <1>3, <1>12, FoldLeftRuns
<1> QED
  BY <1>1, <1>13 DEF fs

\* One hop of a report, and its size.
HopField(h, order) == LenField(10, HopByteSize(h, order), HopSerialize(h, order))
HopFieldSize(h, order) == LenFieldSize(HopByteSize(h, order))

\* The bytes of a hop in a report.
LEMMA HopFieldBytes ==
  ASSUME NEW h \in Hops, NEW order \in Seq(Nat)
  PROVE  /\ HopField(h, order) \in ByteSeqs
         /\ Len(HopField(h, order)) = HopFieldSize(h, order)
         /\ HopFieldSize(h, order) \in Nat
<1> DEFINE b == HopSerialize(h, order)
<1>1. b \in ByteSeqs /\ Len(b) = HopByteSize(h, order)
  BY SizeOfHop
<1>2. 10 \in 8 .. 127
  OBVIOUS
<1> HIDE DEF b
<1>3. /\ LenField(10, Len(b), b) \in ByteSeqs
      /\ Len(LenField(10, Len(b), b)) = LenFieldSize(Len(b)) /\ LenFieldSize(Len(b)) \in Nat
  BY <1>1, <1>2, LenFieldBytes
<1> QED
  BY <1>1, <1>3 DEF HopField, HopFieldSize, b

\* The counted size of the hops is a sum.
LEMMA HopSum ==
  ASSUME NEW order \in Seq(Nat), NEW hops \in Seq(Hops)
  PROVE  LET total == FoldLeft(LAMBDA n, h : n + LenFieldSize(HopByteSize(h, order)), 0, hops)
         IN  \E g : /\ g[0] = 0 /\ g[Len(hops)] = total
                    /\ \A i \in 1 .. Len(hops) : g[i] = g[i - 1] + HopFieldSize(hops[i], order)
<1> DEFINE step == [p \in Nat \X Hops |-> p[1] + HopFieldSize(p[2], order)]
           D == DOMAIN hops
           Is(v) == v = [s \in SUBSET D |-> IF s = {} THEN 0
                           ELSE v[s \ {Max(s)}] + HopFieldSize(hops[Max(s)], order)]
           v == CHOOSE v : Is(v)
<1>1. FoldLeft(LAMBDA n, h : n + LenFieldSize(HopByteSize(h, order)), 0, hops) = v[D]
  BY DEF FoldLeft, MapThenFoldSet, HopFieldSize
<1>2. \A k \in Hops : HopFieldSize(k, order) \in Nat
  BY HopFieldBytes
<1>3. /\ step \in [Nat \X Hops -> Nat]
      /\ \A n \in Nat, k \in Hops : step[<<n, k>>] = n + HopFieldSize(k, order)
  <2>1. ASSUME NEW p \in Nat \X Hops PROVE p[1] + HopFieldSize(p[2], order) \in Nat
    <3>1. p[1] \in Nat /\ HopFieldSize(p[2], order) \in Nat
      BY <1>2
    <3> QED
      BY <3>1
  <2>2. step \in [Nat \X Hops -> Nat]
    BY <2>1
  <2>3. ASSUME NEW n \in Nat, NEW k \in Hops PROVE step[<<n, k>>] = n + HopFieldSize(k, order)
    BY <2>2
  <2> QED
    BY <2>2, <2>3
<1> HIDE DEF step
<1>4. PICK w \in [SUBSET D -> Nat] : PeelsLeft(w, hops, 0, step)
  BY <1>3, FoldLeftSolution
<1>5. ASSUME NEW s \in SUBSET D, s # {} PROVE Max(s) \in s /\ hops[Max(s)] \in Hops
  <2>1. D = 1 .. Len(hops) /\ Len(hops) \in Nat
    OBVIOUS
  <2>2. s \in SUBSET (1 .. Len(hops))
    BY <2>1
  <2>3. Max(s) \in s
    BY <1>5, <2>1, <2>2, MaxOf
  <2>4. Max(s) \in 1 .. Len(hops)
    BY <2>2, <2>3
  <2> QED
    BY <2>3, <2>4, SeqElements
<1>6. ASSUME NEW s \in SUBSET D
      PROVE  w[s] = IF s = {} THEN 0 ELSE w[s \ {Max(s)}] + HopFieldSize(hops[Max(s)], order)
  <2>1. CASE s = {}
    BY <2>1, <1>4 DEF PeelsLeft
  <2>2. CASE s # {}
    <3>1. hops[Max(s)] \in Hops /\ w[s \ {Max(s)}] \in Nat
      BY <2>2, <1>4, <1>5
    <3>2. w[s] = step[<<w[s \ {Max(s)}], hops[Max(s)]>>]
      BY <2>2, <1>4 DEF PeelsLeft
    <3> QED
      BY <2>2, <3>1, <3>2, <1>3
  <2> QED
    BY <2>1, <2>2
<1>7. w = [s \in SUBSET D |-> w[s]]
  BY <1>4
<1>8. Is(w)
  BY <1>6, <1>7
<1>9. Is(v)
  BY <1>8
<1> HIDE DEF v
<1>10. /\ v[{}] = 0
       /\ \A s \in SUBSET D : s # {} =>
            v[s] = v[s \ {Max(s)}] + HopFieldSize(hops[Max(s)], order)
  BY <1>9
<1>11. \A s \in SUBSET D : s # {} /\ v[s \ {Max(s)}] \in Nat
                              => v[s] = step[<<v[s \ {Max(s)}], hops[Max(s)]>>]
  BY <1>3, <1>5, <1>10
<1> HIDE DEF Is
<1>12. Unfolds(v, hops, 0, step, Nat)
  BY <1>10, <1>11 DEF Unfolds
<1>13. Folds(step, 0, hops, v[D], {})
  BY <1>3, <1>12, FoldLeftRuns
<1>14. PICK g : /\ g[0] = 0 /\ g[Len(hops)] = v[D]
                /\ \A i \in 1 .. Len(hops) : g[i] = step[<<g[i - 1], hops[i]>>]
  BY <1>13 DEF Folds
<1> HIDE DEF D
<1>15. /\ Len(hops) \in Nat /\ \A i \in 1 .. Len(hops) : hops[i] \in Hops
  BY SeqElements
<1> DEFINE T == {i \in Nat : i <= Len(hops) => g[i] \in Nat}
<1>16. ASSUME NEW i \in Nat \ {0}, i - 1 \in T PROVE i \in T
  <2>1. SUFFICES ASSUME i <= Len(hops) PROVE g[i] \in Nat
    OBVIOUS
  <2>2. i \in 1 .. Len(hops) /\ i - 1 <= Len(hops)
    BY <2>1, <1>15
  <2>3. g[i - 1] \in Nat /\ hops[i] \in Hops
    BY <2>2, <1>15, <1>16
  <2> QED
    BY <2>2, <2>3, <1>2, <1>3, <1>14
<1>17. 0 \in T
  BY <1>14
<1>18. Nat \subseteq T
  <2> HIDE DEF T
  <2> QED
    BY <1>16, <1>17, NatSetInduction
<1>19. ASSUME NEW i \in 1 .. Len(hops) PROVE g[i] = g[i - 1] + HopFieldSize(hops[i], order)
  <2>1. i - 1 \in Nat /\ i - 1 <= Len(hops)
    BY <1>15
  <2>2. g[i - 1] \in Nat
    BY <2>1, <1>18
  <2> QED
    BY <2>2, <1>3, <1>14, <1>15
<1> QED
  BY <1>1, <1>14, <1>19


\* The hops of a report take the bytes that were counted.
LEMMA HopsLength ==
  ASSUME NEW order \in Seq(Nat), NEW hops \in Seq(Hops)
  PROVE  LET b == FlattenSeq([i \in DOMAIN hops |-> HopField(hops[i], order)])
         IN  /\ b \in ByteSeqs
             /\ Len(b) = FoldLeft(LAMBDA n, h : n + LenFieldSize(HopByteSize(h, order)), 0, hops)
<1> DEFINE s == [i \in DOMAIN hops |-> HopField(hops[i], order)]
           total == FoldLeft(LAMBDA n, h : n + LenFieldSize(HopByteSize(h, order)), 0, hops)
<1>1. PICK g : /\ g[0] = 0 /\ g[Len(hops)] = total
               /\ \A i \in 1 .. Len(hops) : g[i] = g[i - 1] + HopFieldSize(hops[i], order)
  BY HopSum
<1>2. /\ Len(hops) \in Nat /\ DOMAIN hops = 1 .. Len(hops)
      /\ \A i \in 1 .. Len(hops) : hops[i] \in Hops
  BY SeqElements
<1>3. \A i \in 1 .. Len(hops) : /\ HopField(hops[i], order) \in ByteSeqs
                                /\ Len(HopField(hops[i], order)) = HopFieldSize(hops[i], order)
  BY <1>2, HopFieldBytes
<1>4. /\ s \in Seq(ByteSeqs) /\ Len(s) = Len(hops)
      /\ \A i \in 1 .. Len(s) : Len(s[i]) = HopFieldSize(hops[i], order)
  BY <1>2, <1>3
<1> HIDE DEF s, total
<1>5. s \in Seq(Seq(0 .. 255))
  BY <1>4 DEF ByteSeqs
<1>6. Len(FlattenSeq(s)) = g[Len(s)]
  <2>1. \A i \in 1 .. Len(s) : g[i] = g[i - 1] + Len(s[i])
    BY <1>1, <1>4
  <2> QED
    BY <1>1, <1>5, <2>1, FlattenLength
<1>7. FlattenSeq(s) \in ByteSeqs
  BY <1>5, FlattenType DEF ByteSeqs
<1> QED
  BY <1>1, <1>4, <1>6, <1>7 DEF s, total

\* A byte string that is written unless it is empty.
LEMMA OptionalBytes ==
  ASSUME NEW tag \in 8 .. 127, NEW b \in ByteSeqs
  PROVE  /\ (IF b # <<>> THEN LenField(tag, Len(b), b) ELSE <<>>) \in ByteSeqs
         /\ Len(IF b # <<>> THEN LenField(tag, Len(b), b) ELSE <<>>)
              = IF b # <<>> THEN LenFieldSize(Len(b)) ELSE 0
<1>1. CASE b = <<>>
  BY <1>1, NoBytes
<1>2. CASE b # <<>>
  BY <1>2, LenFieldBytes
<1> QED
  BY <1>1, <1>2

\* A report takes the bytes that were counted.
LEMMA ReportSize ==
  ASSUME NEW r \in Reports, NEW order \in Seq(Nat)
  PROVE  /\ ReportSerialize(r, order) \in ByteSeqs
         /\ Len(ReportSerialize(r, order)) = ReportByteSize(r, order)
<1> DEFINE d == FlattenSeq([i \in DOMAIN r.hops |-> HopField(r.hops[i], order)])
           p == IF r.packetType # 0 THEN VarintField(16, r.packetType) ELSE <<>>
           q == IF r.truncated # <<>> THEN LenField(26, Len(r.truncated), r.truncated) ELSE <<>>
           u == r.unknown
           total == FoldLeft(LAMBDA n, h : n + LenFieldSize(HopByteSize(h, order)), 0, r.hops)
           m == IF r.packetType # 0 THEN 1 + VarintSize(r.packetType) ELSE 0
           n == IF r.truncated # <<>> THEN LenFieldSize(Len(r.truncated)) ELSE 0
<1>1. /\ r.hops \in Seq(Hops) /\ r.packetType \in Nat /\ r.truncated \in ByteSeqs
      /\ u \in ByteSeqs
  BY ReportParts
<1>2. 16 \in 8 .. 127 /\ 26 \in 8 .. 127
  OBVIOUS
<1>3. p \in ByteSeqs /\ Len(p) = m /\ q \in ByteSeqs /\ Len(q) = n
  BY <1>1, <1>2, NumberBytes, OptionalBytes
<1>4. d \in ByteSeqs /\ Len(d) = total
  BY <1>1, HopsLength
<1>5. ReportSerialize(r, order) = d \o p \o q \o u
  BY DEF ReportSerialize, HopField
<1>6. ReportByteSize(r, order) = total + n + m + Len(u)
  BY DEF ReportByteSize
<1> HIDE DEF p, q, d, total, m, n, u
<1>7. d \o p \o q \o u \in ByteSeqs /\ Len(d \o p \o q \o u) = Len(d) + Len(p) + Len(q) + Len(u)
  BY SMTT(30), <1>1, <1>3, <1>4, FourBytes
<1>8. Len(p) \in Nat /\ Len(q) \in Nat /\ Len(d) \in Nat /\ Len(u) \in Nat
  BY <1>1, <1>3, <1>4, ByteAt
<1> QED
  BY <1>3, <1>4, <1>5, <1>6, <1>7, <1>8

\* The fields of a report whose hops can be read.
ReportFields == {f \in Parts : f.tag = 10 => HopReadable(f.data)}

\* A field that is no hop is one of them.
LEMMA ReportFieldsHas ==
  ASSUME NEW f \in Parts, f.tag # 10
  PROVE  f \in ReportFields
  BY DEF ReportFields

\* All keys of the hops are in the order they are written in.
Covers(order, hops) ==
  \A i \in 1 .. Len(hops) :
    DOMAIN hops[i].metadata \subseteq {order[j] : j \in 1 .. Len(order)}

\* Appending to a concatenation.
LEMMA ConcatAppend ==
  ASSUME NEW S, NEW s \in Seq(S), NEW a \in Seq(S), NEW e \in S
  PROVE  /\ s \o a \in Seq(S) /\ Len(s \o a) = Len(s) + Len(a)
         /\ s \o Append(a, e) = Append(s \o a, e)
<1>1. /\ s \o a \in Seq(S) /\ Len(s \o a) = Len(s) + Len(a)
      /\ Len(s) \in Nat /\ Len(a) \in Nat
  OBVIOUS
<1>2. Append(a, e) \in Seq(S) /\ Len(Append(a, e)) = Len(a) + 1
  OBVIOUS
<1>3. s \o Append(a, e) = Append(s \o a, e)
  <2>1. /\ s \o Append(a, e) \in Seq(S) /\ Len(s \o Append(a, e)) = Len(s) + Len(a) + 1
        /\ Append(s \o a, e) \in Seq(S) /\ Len(Append(s \o a, e)) = Len(s) + Len(a) + 1
    BY <1>1, <1>2
  <2>2. ASSUME NEW i \in 1 .. Len(s) + Len(a) + 1
        PROVE  (s \o Append(a, e))[i] = Append(s \o a, e)[i]
    <3>1. CASE i <= Len(s)
      BY <3>1, <1>1, <1>2
    <3>2. CASE i > Len(s) /\ i <= Len(s) + Len(a)
      BY <3>2, <1>1, <1>2
    <3>3. CASE i = Len(s) + Len(a) + 1
      BY <3>3, <1>1, <1>2
    <3> QED
      BY <3>1, <3>2, <3>3, <1>1
  <2> QED
    BY <2>1, <2>2
<1> QED
  BY <1>1, <1>3

\* Reading the written hops appends them; before the last one there are fewer
\* than in Z.
LEMMA HopsWrite ==
  ASSUME NEW hops \in Seq(Hops), NEW more \in Seq(Hops), NEW p \in Nat, NEW t \in ByteSeqs,
         NEW u \in Unknowns({10, 16, 26}), NEW order \in Seq(Nat), Covers(order, more), NEW Z,
         \A z \in Z : Len(z.hops) >= Len(hops) + Len(more)
  PROVE  Reads(ReportStep, ReportWith(hops, p, t, u),
               FlattenSeq([i \in DOMAIN more |-> HopField(more[i], order)]),
               ReportWith(hops \o more, p, t, u), Z, ReportFields)
<1> DEFINE s == [i \in DOMAIN more |-> HopField(more[i], order)]
           n == Len(more)
           h == [i \in 0 .. n |-> ReportWith(hops \o SubSeq(more, 1, i), p, t, u)]
<1>1. /\ n \in Nat /\ DOMAIN more = 1 .. n /\ Len(hops) \in Nat
      /\ \A i \in 1 .. n : more[i] \in Hops
  BY SeqElements
<1>2. s \in Seq(ByteSeqs) /\ Len(s) = n /\ \A i \in 1 .. n : s[i] = HopField(more[i], order)
  BY <1>1, HopFieldBytes
<1>3. h[0] = ReportWith(hops, p, t, u) /\ h[n] = ReportWith(hops \o more, p, t, u)
  <2>1. 0 \in 0 .. n /\ n \in 0 .. n
    BY <1>1
  <2>2. hops \o SubSeq(more, 1, 0) = hops /\ SubSeq(more, 1, n) = more
    OBVIOUS
  <2> HIDE DEF n
  <2> QED
    BY <2>1, <2>2
<1>4. ASSUME NEW i \in 1 .. n
      PROVE  /\ hops \o SubSeq(more, 1, i - 1) \in Seq(Hops)
             /\ Len(hops \o SubSeq(more, 1, i - 1)) = Len(hops) + (i - 1)
             /\ hops \o SubSeq(more, 1, i) = Append(hops \o SubSeq(more, 1, i - 1), more[i])
  <2> DEFINE a == SubSeq(more, 1, i - 1)
  <2>1. a \in Seq(Hops) /\ Len(a) = i - 1 /\ SubSeq(more, 1, i) = Append(a, more[i])
    OBVIOUS
  <2>2. more[i] \in Hops
    BY <1>1
  <2> DEFINE e == more[i]
  <2>3. e \in Hops
    BY <2>2
  <2> HIDE DEF a, e
  <2>4. hops \in Seq(Hops) /\ a \in Seq(Hops)
    BY <2>1
  <2>5. /\ hops \o a \in Seq(Hops) /\ Len(hops \o a) = Len(hops) + Len(a)
        /\ hops \o Append(a, e) = Append(hops \o a, e)
    BY ONLY <2>3, <2>4, ConcatAppend
  <2> QED
    BY <2>1, <2>5 DEF a, e
<1>5. ASSUME NEW i \in 1 .. n
      PROVE  Reads(ReportStep, h[i - 1], HopField(more[i], order), h[i], Z, ReportFields)
  <2> DEFINE g == more[i]
             b == HopSerialize(g, order)
             f == BytesField(10, b)
             old == hops \o SubSeq(more, 1, i - 1)
  <2>1. h[i - 1] = ReportWith(old, p, t, u) /\ h[i] = ReportWith(Append(old, g), p, t, u)
    <3>1. i - 1 \in 0 .. n /\ i \in 0 .. n
      BY <1>1
    <3>2. h[i - 1] = ReportWith(old, p, t, u)
          /\ h[i] = ReportWith(hops \o SubSeq(more, 1, i), p, t, u)
      BY <3>1
    <3> HIDE DEF h, old
    <3> QED
      BY <3>2, <1>4 DEF old
  <2>2. g \in Hops /\ DOMAIN g.metadata \subseteq {order[j] : j \in 1 .. Len(order)}
    BY <1>1 DEF Covers
  <2> HIDE DEF g
  <2>3. b \in ByteSeqs /\ Len(b) = HopByteSize(g, order) /\ HopParse(Hop, b) = g /\ HopReadable(b)
    BY <2>2, SizeOfHop, HopReadsBack
  <2>4. HopField(g, order) = LenField(10, Len(b), b)
    BY <2>3 DEF HopField
  <2> HIDE DEF b
  <2>5. 10 \in 8 .. 127 /\ 10 % 8 = 2
    OBVIOUS
  <2>6. Whole(f) /\ f.tag = 10 /\ f.data = b
    BY <2>3, <2>5, BytesFieldWhole DEF BytesField
  <2>7. f \in Parts /\ f \in ReportFields
    BY <2>3, <2>6, WholeIsPart DEF ReportFields
  <2>8. old \in Seq(Hops) /\ Len(old) = Len(hops) + (i - 1)
    BY <1>4
  <2>9. ReportWith(old, p, t, u) \notin Z
    <3>1. ~(Len(old) >= Len(hops) + Len(more))
      <4>1. i \in Nat /\ i <= Len(more)
        BY <1>1
      <4> HIDE DEF old
      <4> QED
        BY <4>1, <1>1, <2>8
    <3> HIDE DEF old
    <3> QED
      BY SMTT(30), <3>1, ReportWithIs
  <2> HIDE DEF f, old
  <2>10. ReportStep[<<ReportWith(old, p, t, u), f>>] = ReportWith(Append(old, g), p, t, u)
    BY <2>3, <2>6, <2>7, <2>8, ReportWithType, ReportStepIs, ReportTakeIs
  <2>11. Reads(ReportStep, ReportWith(old, p, t, u), LenField(10, Len(b), b),
               ReportWith(Append(old, g), p, t, u), Z, ReportFields)
    BY <2>3, <2>5, <2>7, <2>9, <2>10, ReadsBytes DEF f
  <2>12. HopField(more[i], order) = LenField(10, Len(b), b)
    BY <2>4 DEF g
  <2> HIDE DEF h
  <2> QED
    BY <2>1, <2>11, <2>12
<1> HIDE DEF s, h, n
<1>6. Reads(ReportStep, h[0], FlattenSeq(s), h[Len(s)], Z, ReportFields)
  BY <1>2, <1>5, ReadsFlatten
<1> QED
  BY <1>2, <1>3, <1>6 DEF s

\* The fields of a report that the reader does not know are kept.
LEMMA ReportSkips ==
  ASSUME NEW h \in Seq(Hops), NEW p \in Nat, NEW t \in ByteSeqs
  PROVE  Skips(ReportStep, [w \in Unknowns({10, 16, 26}) |-> ReportWith(h, p, t, w)],
               {10, 16, 26}, ReportFields)
<1> DEFINE of == [w \in Unknowns({10, 16, 26}) |-> ReportWith(h, p, t, w)]
<1>1. ASSUME NEW w \in Unknowns({10, 16, 26}), NEW f \in Parts, f.tag \notin {10, 16, 26}
      PROVE  f \in ReportFields /\ ReportStep[<<of[w], f>>] = of[w \o f.raw]
  <2>1. w \o f.raw \in Unknowns({10, 16, 26})
    BY <1>1, UnknownMore
  <2>2. of[w] = ReportWith(h, p, t, w) /\ of[w \o f.raw] = ReportWith(h, p, t, w \o f.raw)
    BY <2>1
  <2>3. ReportStep[<<ReportWith(h, p, t, w), f>>] = ReportWith(h, p, t, w \o f.raw)
    BY <1>1, ReportWithType, ReportStepIs, ReportTakeIs
  <2>4. f.tag # 10
    BY <1>1
  <2> QED
    BY <2>2, <2>3, <2>4, ReportFieldsHas
<1> HIDE DEF of
<1>2. Skips(ReportStep, of, {10, 16, 26}, ReportFields)
  BY <1>1 DEF Skips
<1> QED
  BY <1>2 DEF of

\* The parts of a merged report.
LEMMA ReportMergeIs ==
  ASSUME NEW x \in Reports, NEW y \in Reports
  PROVE  /\ ReportMerge(x, y) = ReportWith(x.hops \o y.hops, Merged(x.packetType, y.packetType, 0),
                                         Merged(x.truncated, y.truncated, <<>>),
                                         x.unknown \o y.unknown)
         /\ ReportMerge(x, y) \in Reports
<1>1. ReportMerge(x, y) = ReportWith(x.hops \o y.hops, Merged(x.packetType, y.packetType, 0),
                                   Merged(x.truncated, y.truncated, <<>>),
                                   x.unknown \o y.unknown)
  BY DEF ReportMerge, ReportWith
<1>2. x.hops \o y.hops \in Seq(Hops)
  <2>1. x.hops \in Seq(Hops) /\ y.hops \in Seq(Hops)
    BY ReportParts
  <2> QED
    BY <2>1, ConcatKeeps
<1>3. Merged(x.packetType, y.packetType, 0) \in Nat /\ Merged(x.truncated, y.truncated, <<>>) \in ByteSeqs
  BY ReportParts DEF Merged
<1>4. x.unknown \o y.unknown \in Unknowns({10, 16, 26})
  BY ReportParts, UnknownThen
<1> QED
  BY <1>1, <1>2, <1>3, <1>4, ReportWithType

\* Merging into an empty report gives the other one.
LEMMA ReportMergeEmpty ==
  ASSUME NEW y \in Reports
  PROVE  ReportMerge(Report, y) = y
<1> DEFINE e == Report
<1>1. /\ e \in Reports /\ e.hops = <<>> /\ e.packetType = 0 /\ e.truncated = <<>>
      /\ e.unknown = <<>>
  <2>1. e = ReportWith(<<>>, 0, <<>>, <<>>) /\ e \in Reports
    BY ReportEmptyType
  <2> QED
    BY <2>1 DEF ReportWith
<1> HIDE DEF e
<1>2. /\ y = ReportWith(y.hops, y.packetType, y.truncated, y.unknown)
      /\ y.hops \in Seq(Hops) /\ y.unknown \in ByteSeqs
  BY ReportParts
<1>3. /\ Merged(e.packetType, y.packetType, 0) = y.packetType
      /\ Merged(e.truncated, y.truncated, <<>>) = y.truncated
  BY <1>1 DEF Merged
<1>4. e.hops \o y.hops = y.hops /\ e.unknown \o y.unknown = y.unknown
  BY <1>1, <1>2, NothingThen DEF ByteSeqs
<1>5. ReportMerge(e, y) = ReportWith(e.hops \o y.hops, Merged(e.packetType, y.packetType, 0),
                                   Merged(e.truncated, y.truncated, <<>>),
                                   e.unknown \o y.unknown)
  BY <1>1, ReportMergeIs
<1>6. ReportMerge(e, y) = y
  BY <1>2, <1>3, <1>4, <1>5
<1> QED
  BY <1>6 DEF e

\* A byte string that is written unless it is empty.
LEMMA ReadsOptional ==
  ASSUME NEW tag \in 8 .. 127, tag % 8 = 2, NEW data \in ByteSeqs, NEW step, NEW x, NEW y,
         NEW Z, NEW G,
         data = <<>> => y = x,
         data # <<>> => y = step[<<x, BytesField(tag, data)>>] /\ x \notin Z
                        /\ BytesField(tag, data) \in G
  PROVE  Reads(step, x, IF data # <<>> THEN LenField(tag, Len(data), data) ELSE <<>>, y, Z, G)
<1>1. CASE data = <<>>
  BY <1>1, ReadsNothing
<1>2. CASE data # <<>>
  BY <1>2, ReadsBytes
<1> QED
  BY <1>1, <1>2

\* What a written varint field holds.
LEMMA NumberFieldIs ==
  ASSUME NEW tag \in 8 .. 127, tag % 8 = 0, NEW n \in Nat
  PROVE  /\ NumberField(tag, n) \in Parts /\ NumberField(tag, n).tag = tag
         /\ NumberField(tag, n).val = n
  BY NumberFieldWhole, WholeIsPart DEF NumberField

\* What a written length-delimited field holds.
LEMMA BytesFieldIs ==
  ASSUME NEW tag \in 8 .. 127, tag % 8 = 2, NEW b \in ByteSeqs
  PROVE  /\ BytesField(tag, b) \in Parts /\ BytesField(tag, b).tag = tag
         /\ BytesField(tag, b).data = b
  BY BytesFieldWhole, WholeIsPart DEF BytesField

\* Reading the bytes of report y into report x merges y into x.  Into an empty
\* report y is there after the last field, and not before.
LEMMA ReportWrites ==
  ASSUME NEW x \in Reports, NEW y \in Reports, NEW order \in Seq(Nat), Covers(order, y.hops),
         NEW Z, \A z \in Z : z = y /\ x = Report
  PROVE  Reads(ReportStep, x, ReportSerialize(y, order), ReportMerge(x, y), Z, ReportFields)
<1>1. PICK h \in Seq(Hops), p \in Nat, t \in ByteSeqs, u \in Unknowns({10, 16, 26}) :
        x = ReportWith(h, p, t, u) /\ x.hops = h /\ x.packetType = p /\ x.truncated = t
        /\ x.unknown = u
  BY ReportParts
<1>2. PICK k \in Seq(Hops), q \in Nat, s \in ByteSeqs, v \in Unknowns({10, 16, 26}) :
        y.hops = k /\ y.packetType = q /\ y.truncated = s /\ y.unknown = v
  BY ReportParts
<1>3. \A z \in Z : /\ z.hops = k /\ z.packetType = q /\ z.truncated = s /\ z.unknown = v
                   /\ h = <<>> /\ p = 0 /\ t = <<>> /\ u = <<>>
  <2>1. Report.hops = <<>> /\ Report.packetType = 0 /\ Report.truncated = <<>>
        /\ Report.unknown = <<>>
    BY DEF Report
  <2> QED
    BY <2>1, <1>1, <1>2
<1> DEFINE hk == h \o k
           p2 == Merged(p, q, 0)
           t2 == Merged(t, s, <<>>)
           b1 == FlattenSeq([i \in DOMAIN k |-> HopField(k[i], order)])
           b2 == IF q # 0 THEN VarintField(16, q) ELSE <<>>
           b3 == IF s # <<>> THEN LenField(26, Len(s), s) ELSE <<>>
<1>4. /\ p2 \in Nat /\ t2 \in ByteSeqs
      /\ (q = 0 => p2 = p) /\ (q # 0 => p2 = q)
      /\ (s = <<>> => t2 = t) /\ (s # <<>> => t2 = s)
  BY DEF Merged
<1>5. hk \in Seq(Hops)
  BY ConcatKeeps
<1>6. ReportSerialize(y, order) = b1 \o b2 \o b3 \o v
  BY <1>2 DEF ReportSerialize, HopField
<1>7. ReportMerge(x, y) = ReportWith(hk, p2, t2, u \o v)
  <2>1. ReportMerge(x, y) = ReportWith(x.hops \o y.hops, Merged(x.packetType, y.packetType, 0),
                                     Merged(x.truncated, y.truncated, <<>>),
                                     x.unknown \o y.unknown)
    BY ReportMergeIs
  <2> QED
    BY <2>1, <1>1, <1>2
<1>8. Reads(ReportStep, ReportWith(h, p, t, u), b1, ReportWith(hk, p, t, u), Z, ReportFields)
  <2>1. \A z \in Z : Len(z.hops) >= Len(h) + Len(k)
    <3> SUFFICES ASSUME NEW z \in Z PROVE Len(z.hops) >= Len(h) + Len(k)
      OBVIOUS
    <3>1. z.hops = k /\ h = <<>> /\ Len(k) \in Nat
      BY <1>3
    <3> QED
      BY <3>1
  <2>2. Covers(order, k)
    BY <1>2
  <2> QED
    BY <2>1, <2>2, HopsWrite
<1> HIDE DEF hk, p2, t2, b1
<1>9. Reads(ReportStep, ReportWith(hk, p, t, u), b2, ReportWith(hk, p2, t, u), Z, ReportFields)
  <2>1. 16 \in 8 .. 127 /\ 16 % 8 = 0
    OBVIOUS
  <2>2. q # 0 => /\ ReportWith(hk, p2, t, u)
                    = ReportStep[<<ReportWith(hk, p, t, u), NumberField(16, q)>>]
                 /\ ReportWith(hk, p, t, u) \notin Z
                 /\ NumberField(16, q) \in ReportFields
    <3> SUFFICES ASSUME q # 0
                 PROVE  /\ ReportWith(hk, p2, t, u)
                           = ReportStep[<<ReportWith(hk, p, t, u), NumberField(16, q)>>]
                        /\ ReportWith(hk, p, t, u) \notin Z
                        /\ NumberField(16, q) \in ReportFields
      OBVIOUS
    <3>1. /\ NumberField(16, q) \in Parts /\ NumberField(16, q).tag = 16
          /\ NumberField(16, q).val = q
      BY <2>1, NumberFieldIs
    <3>2. ReportWith(hk, p, t, u) \notin Z
      BY <1>3, ReportWithIs
    <3>3. NumberField(16, q) \in ReportFields
      BY <3>1, ReportFieldsHas
    <3>4. ReportStep[<<ReportWith(hk, p, t, u), NumberField(16, q)>>] = ReportWith(hk, q, t, u)
      BY <3>1, <1>5, ReportWithType, ReportStepIs, ReportTakeIs
    <3> QED
      BY <3>2, <3>3, <3>4, <1>4
  <2>3. q = 0 => ReportWith(hk, p2, t, u) = ReportWith(hk, p, t, u)
    BY <1>4
  <2> QED
    BY <2>1, <2>2, <2>3, ReadsNumber
<1>10. Reads(ReportStep, ReportWith(hk, p2, t, u), b3, ReportWith(hk, p2, t2, u), Z, ReportFields)
  <2>1. 26 \in 8 .. 127 /\ 26 % 8 = 2
    OBVIOUS
  <2>2. s # <<>> => /\ ReportWith(hk, p2, t2, u)
                       = ReportStep[<<ReportWith(hk, p2, t, u), BytesField(26, s)>>]
                    /\ ReportWith(hk, p2, t, u) \notin Z
                    /\ BytesField(26, s) \in ReportFields
    <3> SUFFICES ASSUME s # <<>>
                 PROVE  /\ ReportWith(hk, p2, t2, u)
                           = ReportStep[<<ReportWith(hk, p2, t, u), BytesField(26, s)>>]
                        /\ ReportWith(hk, p2, t, u) \notin Z
                        /\ BytesField(26, s) \in ReportFields
      OBVIOUS
    <3>1. /\ BytesField(26, s) \in Parts /\ BytesField(26, s).tag = 26
          /\ BytesField(26, s).data = s
      BY <2>1, BytesFieldIs
    <3>2. ReportWith(hk, p2, t, u) \notin Z
      BY <1>3, ReportWithIs
    <3>3. BytesField(26, s) \in ReportFields
      BY <3>1, ReportFieldsHas
    <3>4. ReportStep[<<ReportWith(hk, p2, t, u), BytesField(26, s)>>] = ReportWith(hk, p2, s, u)
      BY <3>1, <1>4, <1>5, ReportWithType, ReportStepIs, ReportTakeIs
    <3> QED
      BY <3>2, <3>3, <3>4, <1>4
  <2>3. s = <<>> => ReportWith(hk, p2, t2, u) = ReportWith(hk, p2, t, u)
    BY <1>4
  <2> QED
    BY <2>1, <2>2, <2>3, ReadsOptional
<1>11. Reads(ReportStep, ReportWith(hk, p2, t2, u), v, ReportWith(hk, p2, t2, u \o v), Z, ReportFields)
  <2> DEFINE known == {10, 16, 26}
             of == [w \in Unknowns(known) |-> ReportWith(hk, p2, t2, w)]
  <2>1. u \o v \in Unknowns({10, 16, 26})
    BY UnknownThen
  <2>2. of[u] = ReportWith(hk, p2, t2, u) /\ of[u \o v] = ReportWith(hk, p2, t2, u \o v)
    BY <2>1
  <2>3. Skips(ReportStep, of, known, ReportFields)
    BY <1>4, <1>5, ReportSkips
  <2>4. ASSUME NEW w \in Unknowns(known), of[w] \in Z
        PROVE  Len(w) >= Len(u) + Len(v)
    <3>1. of[w].unknown = w
      BY ReportWithIs
    <3>2. w = v /\ u = <<>>
      BY <3>1, <2>4, <1>3
    <3>3. v \in ByteSeqs
      BY DEF Unknowns
    <3>4. Len(v) \in Nat /\ Len(u) = 0
      BY <3>2, <3>3, NoBytes, ByteAt
    <3> QED
      BY <3>2, <3>4
  <2>5. u \in Unknowns(known) /\ v \in Unknowns(known)
    OBVIOUS
  <2> HIDE DEF of, known
  <2>6. Reads(ReportStep, of[u], v, of[u \o v], Z, ReportFields)
    BY <2>3, <2>4, <2>5, ReadsSkipped
  <2> QED
    BY <2>2, <2>6
<1> HIDE DEF b2, b3
<1>12. Reads(ReportStep, ReportWith(h, p, t, u), b1 \o b2 \o b3 \o v,
             ReportWith(hk, p2, t2, u \o v), Z, ReportFields)
  <2>1. Reads(ReportStep, ReportWith(h, p, t, u), b1 \o b2, ReportWith(hk, p2, t, u), Z, ReportFields)
    BY <1>8, <1>9, ReadsThen
  <2>2. Reads(ReportStep, ReportWith(h, p, t, u), b1 \o b2 \o b3, ReportWith(hk, p2, t2, u), Z,
              ReportFields)
    BY <2>1, <1>10, ReadsThen
  <2> QED
    BY <2>2, <1>11, ReadsThen
<1> QED
  BY <1>1, <1>6, <1>7, <1>12

\* When a report can be read.
LEMMA ReportReadableIs ==
  ASSUME NEW b
  PROVE  ReportReadable(b) <=>
           \A f \in ToSet(Fields(b)) : f # Malformed /\ (f.tag = 10 => HopReadable(f.data))
  BY DEF ReportReadable, Readable

\* A sequence cut in two before its end.
LEMMA CutInTwo ==
  ASSUME NEW S, NEW b \in Seq(S), NEW n \in 0 .. Len(b) - 1
  PROVE  /\ SubSeq(b, 1, n) \in Seq(S) /\ SubSeq(b, n + 1, Len(b)) \in Seq(S)
         /\ SubSeq(b, n + 1, Len(b)) # <<>>
         /\ b = SubSeq(b, 1, n) \o SubSeq(b, n + 1, Len(b))
<1> DEFINE c == SubSeq(b, 1, n)
           d == SubSeq(b, n + 1, Len(b))
<1>1. /\ c \in Seq(S) /\ Len(c) = n /\ \A i \in 1 .. n : c[i] = b[i]
      /\ Len(b) \in Nat /\ n \in Nat /\ n < Len(b)
  OBVIOUS
<1>2. /\ d \in Seq(S) /\ Len(d) = Len(b) - n /\ \A i \in 1 .. Len(b) - n : d[i] = b[i + n]
  OBVIOUS
<1> HIDE DEF c, d
<1>3. d # <<>>
  BY <1>1, <1>2
<1>4. b = SubSeq(b, 1, n) \o SubSeq(b, n + 1, Len(b))
  OBVIOUS
<1> QED
  BY <1>1, <1>2, <1>3, <1>4 DEF c, d

\* A sequence with a first element is not empty.
LEMMA SomeFirst ==
  ASSUME NEW S, NEW f \in S, NEW r \in Seq(S)
  PROVE  <<f>> \o r # <<>>
<1>1. Len(<<f>> \o r) = 1 + Len(r) /\ Len(r) \in Nat
  OBVIOUS
<1> QED
  BY <1>1

\* A byte string that is not empty has a field.
LEMMA SomeField ==
  ASSUME NEW b \in ByteSeqs, b # <<>>
  PROVE  Fields(b) # <<>>
<1> DEFINE f == ReadField(b)
           k == Len(f.raw)
           r == IF f = Malformed THEN <<>> ELSE Fields(Behind(b, k))
<1>1. f \in Parts
  BY ReadFieldPart
<1>2. ASSUME f # Malformed
      PROVE  Fields(Behind(b, k)) \in Seq(Parts)
  <2>1. PICK m \in 1 .. Len(b) : m = Len(ReadField(b).raw)
    BY <1>2, ReadFieldType
  <2>2. m \in 0 .. Len(b)
    BY <2>1
  <2>3. Behind(b, m) \in ByteSeqs
    BY <2>2, RestOf DEF Behind, ByteSeqs
  <2> QED
    BY <2>1, <2>3, FieldsIs
<1>3. <<>> \in Seq(Parts)
  OBVIOUS
<1>4. r \in Seq(Parts)
  BY <1>2, <1>3
<1>5. Fields(b) = <<f>> \o r
  BY FieldsIs
<1> HIDE DEF f, r
<1> QED
  BY <1>1, <1>4, <1>5, SomeFirst

\* What is left when the end of a byte string is cut off is another message.
LEMMA CutReads ==
  ASSUME NEW step, NEW x, NEW b, NEW y, NEW G, Reads(step, x, b, y, {y}, G),
         NEW n \in 0 .. Len(b) - 1, NoneMalformed(Fields(SubSeq(b, 1, n))),
         NEW z, Folds(step, x, Fields(SubSeq(b, 1, n)), z, {})
  PROVE  z # y
<1> DEFINE c == SubSeq(b, 1, n)
           d == SubSeq(b, n + 1, Len(b))
<1>1. PICK fs : /\ Encodes(b, fs) /\ Folds(step, x, fs, y, {y})
                /\ \A i \in 1 .. Len(fs) : fs[i] \in G
  BY DEF Reads
<1>2. b \in ByteSeqs
  BY <1>1 DEF Encodes
<1>3. c \in ByteSeqs /\ d \in ByteSeqs /\ b = c \o d /\ d # <<>>
  BY ZenonT(30), <1>2, CutInTwo DEF ByteSeqs
<1> HIDE DEF c, d
<1>4. NoneMalformed(Fields(c)) /\ Folds(step, x, Fields(c), z, {})
  BY DEF c
<1>5. Encodes(c, Fields(c))
  BY <1>3, <1>4, ReadableEncodes
<1>6. Fields(b) = Fields(c) \o Fields(d) /\ Fields(b) = fs
  BY <1>1, <1>3, <1>5, EncodesFields DEF Encodes
<1>7. Fields(c) \in Seq(Parts) /\ Fields(d) \in Seq(Parts) /\ Fields(d) # <<>>
  BY <1>3, FieldsIs, SomeField
<1>8. Folds(step, x, Fields(c) \o Fields(d), y, {y})
  BY <1>1, <1>6
<1>9. z \notin {y}
  BY <1>4, <1>7, <1>8, FoldsAvoids
<1> QED
  BY <1>9

-----------------------------------------------------------------------------
(* FlowKey. *)

Ips == {NotSet} \cup {Ipv4(n) : n \in Fixed(4)} \cup {Ipv6(w) : w \in IPv6s}
FlowKeyTags == {8, 16, 24, 37, 42, 53, 58, 64, 72, 80}
FlowKeys == [dstAs : Nat, srcAs : Nat, flowId : Nat, dstIp : Ips, srcIp : Ips,
             dstPort : Nat, srcPort : Nat, protocol : Nat, unknown : Unknowns(FlowKeyTags)]
FlowKeyOf(a, b, c, d, e, p, q, r, u) ==
  [dstAs |-> a, srcAs |-> b, flowId |-> c, dstIp |-> d, srcIp |-> e,
   dstPort |-> p, srcPort |-> q, protocol |-> r, unknown |-> u]
FlowKeyStep == [p \in FlowKeys \X Parts |-> FlowKeyTake(p[1], p[2])]

\* A flow key is made of its parts.
LEMMA FlowKeyParts ==
  ASSUME NEW k \in FlowKeys
  PROVE  /\ k = FlowKeyOf(k.dstAs, k.srcAs, k.flowId, k.dstIp, k.srcIp, k.dstPort, k.srcPort,
                          k.protocol, k.unknown)
         /\ k.dstAs \in Nat /\ k.srcAs \in Nat /\ k.flowId \in Nat /\ k.dstIp \in Ips
         /\ k.srcIp \in Ips /\ k.dstPort \in Nat /\ k.srcPort \in Nat /\ k.protocol \in Nat
         /\ k.unknown \in Unknowns(FlowKeyTags) /\ k.unknown \in ByteSeqs
<1>1. k = FlowKeyOf(k.dstAs, k.srcAs, k.flowId, k.dstIp, k.srcIp, k.dstPort, k.srcPort,
                    k.protocol, k.unknown)
  BY DEF FlowKeys, FlowKeyOf
<1>2. /\ k.dstAs \in Nat /\ k.srcAs \in Nat /\ k.flowId \in Nat /\ k.dstIp \in Ips
      /\ k.srcIp \in Ips /\ k.dstPort \in Nat /\ k.srcPort \in Nat /\ k.protocol \in Nat
      /\ k.unknown \in Unknowns(FlowKeyTags)
  BY DEF FlowKeys
<1>3. k.unknown \in ByteSeqs
  BY <1>2 DEF Unknowns
<1> QED
  BY <1>1, <1>2, <1>3

\* And parts make a flow key.
LEMMA FlowKeyOfType ==
  ASSUME NEW a \in Nat, NEW b \in Nat, NEW c \in Nat, NEW d \in Ips, NEW e \in Ips,
         NEW p \in Nat, NEW q \in Nat, NEW r \in Nat, NEW u \in Unknowns(FlowKeyTags)
  PROVE  FlowKeyOf(a, b, c, d, e, p, q, r, u) \in FlowKeys
  BY DEF FlowKeyOf, FlowKeys

\* The parts of a flow key.
LEMMA FlowKeyOfIs ==
  ASSUME NEW a, NEW b, NEW c, NEW d, NEW e, NEW p, NEW q, NEW r, NEW u, NEW k,
         k = FlowKeyOf(a, b, c, d, e, p, q, r, u)
  PROVE  /\ k.dstAs = a /\ k.srcAs = b /\ k.flowId = c /\ k.dstIp = d /\ k.srcIp = e
         /\ k.dstPort = p /\ k.srcPort = q /\ k.protocol = r /\ k.unknown = u
  BY DEF FlowKeyOf

\* The values of a oneof.
LEMMA IpIs ==
  /\ NotSet \in Ips /\ NotSet.case = "NOT_SET"
  /\ \A n \in Fixed(4) : Ipv4(n) \in Ips /\ Ipv4(n).case = "Ipv4" /\ Ipv4(n).addr = n
  /\ \A w \in IPv6s : Ipv6(w) \in Ips /\ Ipv6(w).case = "Ipv6" /\ Ipv6(w).addr = w
<1>1. NotSet \in Ips /\ NotSet.case = "NOT_SET"
  BY DEF Ips, NotSet
<1>2. ASSUME NEW n \in Fixed(4)
      PROVE  Ipv4(n) \in Ips /\ Ipv4(n).case = "Ipv4" /\ Ipv4(n).addr = n
  <2>1. Ipv4(n) \in Ips
    BY DEF Ips
  <2> QED
    BY <2>1 DEF Ipv4
<1>3. ASSUME NEW w \in IPv6s
      PROVE  Ipv6(w) \in Ips /\ Ipv6(w).case = "Ipv6" /\ Ipv6(w).addr = w
  <2>1. Ipv6(w) \in Ips
    BY DEF Ips
  <2> QED
    BY <2>1 DEF Ipv6
<1> QED
  BY <1>1, <1>2, <1>3

\* There are no others.
LEMMA IpCases ==
  ASSUME NEW i \in Ips
  PROVE  \/ i = NotSet
         \/ \E n \in Fixed(4) : i = Ipv4(n)
         \/ \E w \in IPv6s : i = Ipv6(w)
  BY DEF Ips

\* The address to change, and the oneof once bytes were read into it.
LEMMA MutableType ==
  ASSUME NEW i \in Ips
  PROVE  /\ Mutable(i) \in IPv6s
         /\ \A b \in ByteSeqs : Ipv6(IPv6Parse(Mutable(i), b)) \in Ips
<1>1. Mutable(i) \in IPv6s
  <2>1. CASE i = NotSet
    BY <2>1, IpIs, IPv6EmptyType DEF Mutable
  <2>2. CASE \E n \in Fixed(4) : i = Ipv4(n)
    BY <2>2, IpIs, IPv6EmptyType DEF Mutable
  <2>3. CASE \E w \in IPv6s : i = Ipv6(w)
    BY <2>3, IpIs DEF Mutable
  <2> QED
    BY <2>1, <2>2, <2>3, IpCases
<1> QED
  BY <1>1, IPv6Parses, IpIs

\* The empty flow key.
LEMMA FlowKeyEmptyType ==
  FlowKey \in FlowKeys /\ FlowKey = FlowKeyOf(0, 0, 0, NotSet, NotSet, 0, 0, 0, <<>>)
<1>1. FlowKey = FlowKeyOf(0, 0, 0, NotSet, NotSet, 0, 0, 0, <<>>)
  BY DEF FlowKey, FlowKeyOf
<1>2. <<>> \in Unknowns(FlowKeyTags) /\ NotSet \in Ips
  BY UnknownNothing, IpIs
<1> QED
  BY <1>1, <1>2, FlowKeyOfType

\* What each field sets.
LEMMA FlowKeyTakeIs ==
  ASSUME NEW a, NEW b, NEW c, NEW d, NEW e, NEW p, NEW q, NEW r, NEW u, NEW f, NEW k,
         k = FlowKeyOf(a, b, c, d, e, p, q, r, u)
  PROVE  /\ f.tag = 8 => FlowKeyTake(k, f)
              = FlowKeyOf(f.val, b, c, d, e, p, q, r, u)
         /\ f.tag = 16 => FlowKeyTake(k, f)
              = FlowKeyOf(a, f.val, c, d, e, p, q, r, u)
         /\ f.tag = 24 => FlowKeyTake(k, f)
              = FlowKeyOf(a, b, f.val, d, e, p, q, r, u)
         /\ f.tag = 37 => FlowKeyTake(k, f)
              = FlowKeyOf(a, b, c, Ipv4(f.val), e, p, q, r, u)
         /\ f.tag = 42 => FlowKeyTake(k, f)
              = FlowKeyOf(a, b, c, Ipv6(IPv6Parse(Mutable(d), f.data)), e, p, q, r, u)
         /\ f.tag = 53 => FlowKeyTake(k, f)
              = FlowKeyOf(a, b, c, d, Ipv4(f.val), p, q, r, u)
         /\ f.tag = 58 => FlowKeyTake(k, f)
              = FlowKeyOf(a, b, c, d, Ipv6(IPv6Parse(Mutable(e), f.data)), p, q, r, u)
         /\ f.tag = 64 => FlowKeyTake(k, f)
              = FlowKeyOf(a, b, c, d, e, f.val, q, r, u)
         /\ f.tag = 72 => FlowKeyTake(k, f)
              = FlowKeyOf(a, b, c, d, e, p, f.val, r, u)
         /\ f.tag = 80 => FlowKeyTake(k, f)
              = FlowKeyOf(a, b, c, d, e, p, q, f.val, u)
         /\ f.tag \notin FlowKeyTags => FlowKeyTake(k, f)
              = FlowKeyOf(a, b, c, d, e, p, q, r, u \o f.raw)
<1>1. CASE f.tag = 8
  BY <1>1 DEF FlowKeyTake, FlowKeyOf, FlowKeyTags
<1>2. CASE f.tag = 16
  BY <1>2 DEF FlowKeyTake, FlowKeyOf, FlowKeyTags
<1>3. CASE f.tag = 24
  BY <1>3 DEF FlowKeyTake, FlowKeyOf, FlowKeyTags
<1>4. CASE f.tag = 37
  BY <1>4 DEF FlowKeyTake, FlowKeyOf, FlowKeyTags
<1>5. CASE f.tag = 42
  <2> DEFINE w == Ipv6(IPv6Parse(Mutable(k.dstIp), f.data))
  <2>1. FlowKeyTake(k, f) = [k EXCEPT !.dstIp = w]
    BY <1>5 DEF FlowKeyTake
  <2>2. ASSUME NEW v PROVE [k EXCEPT !.dstIp = v] = FlowKeyOf(a, b, c, v, e, p, q, r, u)
    BY DEF FlowKeyOf
  <2>3. FlowKeyTake(k, f) = FlowKeyOf(a, b, c, w, e, p, q, r, u)
    BY <2>1, <2>2
  <2>4. k.dstIp = d
    BY FlowKeyOfIs
  <2> QED
    BY <1>5, <2>3, <2>4 DEF FlowKeyTags
<1>6. CASE f.tag = 53
  BY <1>6 DEF FlowKeyTake, FlowKeyOf, FlowKeyTags
<1>7. CASE f.tag = 58
  <2> DEFINE w == Ipv6(IPv6Parse(Mutable(k.srcIp), f.data))
  <2>1. FlowKeyTake(k, f) = [k EXCEPT !.srcIp = w]
    BY <1>7 DEF FlowKeyTake
  <2>2. ASSUME NEW v PROVE [k EXCEPT !.srcIp = v] = FlowKeyOf(a, b, c, d, v, p, q, r, u)
    BY DEF FlowKeyOf
  <2>3. FlowKeyTake(k, f) = FlowKeyOf(a, b, c, d, w, p, q, r, u)
    BY <2>1, <2>2
  <2>4. k.srcIp = e
    BY FlowKeyOfIs
  <2> QED
    BY <1>7, <2>3, <2>4 DEF FlowKeyTags
<1>8. CASE f.tag = 64
  BY <1>8 DEF FlowKeyTake, FlowKeyOf, FlowKeyTags
<1>9. CASE f.tag = 72
  BY <1>9 DEF FlowKeyTake, FlowKeyOf, FlowKeyTags
<1>10. CASE f.tag = 80
  BY <1>10 DEF FlowKeyTake, FlowKeyOf, FlowKeyTags
<1>11. CASE f.tag \notin FlowKeyTags
  BY <1>11 DEF FlowKeyTake, FlowKeyOf, FlowKeyTags
<1>12. \/ f.tag = 8 \/ f.tag = 16 \/ f.tag = 24 \/ f.tag = 37 \/ f.tag = 42 \/ f.tag = 53
       \/ f.tag = 58 \/ f.tag = 64 \/ f.tag = 72 \/ f.tag = 80 \/ f.tag \notin FlowKeyTags
  BY DEF FlowKeyTags
<1> QED
  BY <1>1, <1>2, <1>3, <1>4, <1>5, <1>6, <1>7, <1>8, <1>9, <1>10, <1>11, <1>12

\* A field turns a flow key into a flow key.
LEMMA FlowKeyTakeType ==
  ASSUME NEW k \in FlowKeys, NEW f \in Parts
  PROVE  FlowKeyTake(k, f) \in FlowKeys
<1>1. k.dstIp \in Ips /\ k.srcIp \in Ips /\ k.unknown \in Unknowns(FlowKeyTags)
  BY FlowKeyParts
<1>2. f.val \in Nat /\ f.data \in ByteSeqs
  BY PartType
<1>3. ASSUME f.tag = 37 \/ f.tag = 53 PROVE Ipv4(f.val) \in Ips
  <2>1. f.tag % 8 = 5
    BY <1>3
  <2>2. f.val \in Fixed(4)
    BY <2>1, PartType
  <2> QED
    BY <2>2, IpIs
<1>4. /\ Ipv6(IPv6Parse(Mutable(k.dstIp), f.data)) \in Ips
      /\ Ipv6(IPv6Parse(Mutable(k.srcIp), f.data)) \in Ips
  BY <1>1, <1>2, MutableType
<1>5. CASE f.tag = 8
  <2>1. FlowKeyTake(k, f) = [k EXCEPT !.dstAs = f.val]
    BY <1>5 DEF FlowKeyTake
  <2>2. ASSUME NEW v \in Nat PROVE [k EXCEPT !.dstAs = v] \in FlowKeys
    BY DEF FlowKeys
  <2> QED
    BY <2>1, <2>2, <1>2, <1>3, <1>4, <1>5
<1>6. CASE f.tag = 16
  <2>1. FlowKeyTake(k, f) = [k EXCEPT !.srcAs = f.val]
    BY <1>6 DEF FlowKeyTake
  <2>2. ASSUME NEW v \in Nat PROVE [k EXCEPT !.srcAs = v] \in FlowKeys
    BY DEF FlowKeys
  <2> QED
    BY <2>1, <2>2, <1>2, <1>3, <1>4, <1>6
<1>7. CASE f.tag = 24
  <2>1. FlowKeyTake(k, f) = [k EXCEPT !.flowId = f.val]
    BY <1>7 DEF FlowKeyTake
  <2>2. ASSUME NEW v \in Nat PROVE [k EXCEPT !.flowId = v] \in FlowKeys
    BY DEF FlowKeys
  <2> QED
    BY <2>1, <2>2, <1>2, <1>3, <1>4, <1>7
<1>8. CASE f.tag = 37
  <2>1. FlowKeyTake(k, f) = [k EXCEPT !.dstIp = Ipv4(f.val)]
    BY <1>8 DEF FlowKeyTake
  <2>2. ASSUME NEW v \in Ips PROVE [k EXCEPT !.dstIp = v] \in FlowKeys
    BY DEF FlowKeys
  <2> QED
    BY <2>1, <2>2, <1>2, <1>3, <1>4, <1>8
<1>9. CASE f.tag = 42
  <2>1. FlowKeyTake(k, f) = [k EXCEPT !.dstIp = Ipv6(IPv6Parse(Mutable(k.dstIp), f.data))]
    BY <1>9 DEF FlowKeyTake
  <2>2. ASSUME NEW v \in Ips PROVE [k EXCEPT !.dstIp = v] \in FlowKeys
    BY DEF FlowKeys
  <2> QED
    BY <2>1, <2>2, <1>2, <1>3, <1>4, <1>9
<1>10. CASE f.tag = 53
  <2>1. FlowKeyTake(k, f) = [k EXCEPT !.srcIp = Ipv4(f.val)]
    BY <1>10 DEF FlowKeyTake
  <2>2. ASSUME NEW v \in Ips PROVE [k EXCEPT !.srcIp = v] \in FlowKeys
    BY DEF FlowKeys
  <2> QED
    BY <2>1, <2>2, <1>2, <1>3, <1>4, <1>10
<1>11. CASE f.tag = 58
  <2>1. FlowKeyTake(k, f) = [k EXCEPT !.srcIp = Ipv6(IPv6Parse(Mutable(k.srcIp), f.data))]
    BY <1>11 DEF FlowKeyTake
  <2>2. ASSUME NEW v \in Ips PROVE [k EXCEPT !.srcIp = v] \in FlowKeys
    BY DEF FlowKeys
  <2> QED
    BY <2>1, <2>2, <1>2, <1>3, <1>4, <1>11
<1>12. CASE f.tag = 64
  <2>1. FlowKeyTake(k, f) = [k EXCEPT !.dstPort = f.val]
    BY <1>12 DEF FlowKeyTake
  <2>2. ASSUME NEW v \in Nat PROVE [k EXCEPT !.dstPort = v] \in FlowKeys
    BY DEF FlowKeys
  <2> QED
    BY <2>1, <2>2, <1>2, <1>3, <1>4, <1>12
<1>13. CASE f.tag = 72
  <2>1. FlowKeyTake(k, f) = [k EXCEPT !.srcPort = f.val]
    BY <1>13 DEF FlowKeyTake
  <2>2. ASSUME NEW v \in Nat PROVE [k EXCEPT !.srcPort = v] \in FlowKeys
    BY DEF FlowKeys
  <2> QED
    BY <2>1, <2>2, <1>2, <1>3, <1>4, <1>13
<1>14. CASE f.tag = 80
  <2>1. FlowKeyTake(k, f) = [k EXCEPT !.protocol = f.val]
    BY <1>14 DEF FlowKeyTake
  <2>2. ASSUME NEW v \in Nat PROVE [k EXCEPT !.protocol = v] \in FlowKeys
    BY DEF FlowKeys
  <2> QED
    BY <2>1, <2>2, <1>2, <1>3, <1>4, <1>14
<1>15. CASE f.tag \notin FlowKeyTags
  <2>1. k.unknown \o f.raw \in Unknowns(FlowKeyTags)
    BY <1>1, <1>15, UnknownMore
  <2>2. FlowKeyTake(k, f) = [k EXCEPT !.unknown = k.unknown \o f.raw]
    BY <1>15 DEF FlowKeyTake, FlowKeyTags
  <2>3. ASSUME NEW v \in Unknowns(FlowKeyTags) PROVE [k EXCEPT !.unknown = v] \in FlowKeys
    BY DEF FlowKeys
  <2> QED
    BY <2>1, <2>2, <2>3
<1>16. \/ f.tag = 8 \/ f.tag = 16 \/ f.tag = 24 \/ f.tag = 37 \/ f.tag = 42 \/ f.tag = 53
       \/ f.tag = 58 \/ f.tag = 64 \/ f.tag = 72 \/ f.tag = 80 \/ f.tag \notin FlowKeyTags
  BY DEF FlowKeyTags
<1> QED
  BY <1>5, <1>6, <1>7, <1>8, <1>9, <1>10, <1>11, <1>12, <1>13, <1>14, <1>15, <1>16

\* So the reader is a function on flow keys.
LEMMA FlowKeyStepIs ==
  /\ FlowKeyStep \in [FlowKeys \X Parts -> FlowKeys]
  /\ \A m \in FlowKeys, f \in Parts : FlowKeyStep[<<m, f>>] = FlowKeyTake(m, f)
<1>1. ASSUME NEW p \in FlowKeys \X Parts PROVE FlowKeyTake(p[1], p[2]) \in FlowKeys
  BY FlowKeyTakeType
<1>2. FlowKeyStep \in [FlowKeys \X Parts -> FlowKeys]
  BY <1>1 DEF FlowKeyStep
<1>3. ASSUME NEW m \in FlowKeys, NEW f \in Parts PROVE FlowKeyStep[<<m, f>>] = FlowKeyTake(m, f)
  BY DEF FlowKeyStep
<1> QED
  BY <1>2, <1>3

\* What is read into a flow key is the run of its reader.
LEMMA FlowKeyParses ==
  ASSUME NEW x \in FlowKeys, NEW b \in ByteSeqs
  PROVE  Folds(FlowKeyStep, x, Fields(b), FlowKeyParse(x, b), {}) /\ FlowKeyParse(x, b) \in FlowKeys
<1> DEFINE fs == Fields(b)
           D == DOMAIN fs
           Is(v) == v = [s \in SUBSET D |-> IF s = {} THEN x
                                           ELSE FlowKeyTake(v[s \ {Max(s)}], fs[Max(s)])]
           v == CHOOSE v : Is(v)
<1>1. FlowKeyParse(x, b) = v[D]
  BY DEF FlowKeyParse, FoldLeft, MapThenFoldSet
<1>2. fs \in Seq(Parts)
  BY FieldsIs
<1> HIDE DEF fs
<1>3. /\ FlowKeyStep \in [FlowKeys \X Parts -> FlowKeys]
      /\ \A m \in FlowKeys, f \in Parts : FlowKeyStep[<<m, f>>] = FlowKeyTake(m, f)
  BY FlowKeyStepIs
<1>4. PICK w \in [SUBSET D -> FlowKeys] : PeelsLeft(w, fs, x, FlowKeyStep)
  BY <1>2, <1>3, FoldLeftSolution
<1>5. ASSUME NEW s \in SUBSET D, s # {} PROVE Max(s) \in s /\ fs[Max(s)] \in Parts
  <2>1. D = 1 .. Len(fs) /\ Len(fs) \in Nat
    BY <1>2
  <2>2. s \in SUBSET (1 .. Len(fs))
    BY <2>1
  <2>3. Max(s) \in s
    BY <1>5, <2>1, <2>2, MaxOf
  <2>4. Max(s) \in 1 .. Len(fs)
    BY <2>2, <2>3
  <2> QED
    BY <1>2, <2>3, <2>4, SeqElements
<1>6. ASSUME NEW s \in SUBSET D
      PROVE  w[s] = IF s = {} THEN x ELSE FlowKeyTake(w[s \ {Max(s)}], fs[Max(s)])
  <2>1. CASE s = {}
    BY <2>1, <1>4 DEF PeelsLeft
  <2>2. CASE s # {}
    <3>1. fs[Max(s)] \in Parts /\ w[s \ {Max(s)}] \in FlowKeys
      BY <2>2, <1>4, <1>5
    <3>2. w[s] = FlowKeyStep[<<w[s \ {Max(s)}], fs[Max(s)]>>]
      BY <2>2, <1>4 DEF PeelsLeft
    <3> QED
      BY <2>2, <3>1, <3>2, <1>3
  <2> QED
    BY <2>1, <2>2
<1>7. w = [s \in SUBSET D |-> w[s]]
  BY <1>4
<1>8. Is(w)
  BY <1>6, <1>7
<1>9. Is(v)
  BY <1>8
<1> HIDE DEF v
<1>10. /\ v[{}] = x
       /\ \A s \in SUBSET D : s # {} => v[s] = FlowKeyTake(v[s \ {Max(s)}], fs[Max(s)])
  BY <1>9
<1>11. \A s \in SUBSET D : s # {} /\ v[s \ {Max(s)}] \in FlowKeys
                              => v[s] = FlowKeyStep[<<v[s \ {Max(s)}], fs[Max(s)]>>]
  BY <1>3, <1>5, <1>10
<1> HIDE DEF Is
<1>12. Unfolds(v, fs, x, FlowKeyStep, FlowKeys)
  BY <1>10, <1>11 DEF Unfolds
<1>13. Folds(FlowKeyStep, x, fs, v[D], {}) /\ v[D] \in FlowKeys
  BY <1>2, <1>3, <1>12, FoldLeftRuns
<1> QED
  BY <1>1, <1>13 DEF fs

\* The bytes of an address, and how many they are.
LEMMA IpBytes ==
  ASSUME NEW i \in Ips, NEW tag4 \in 8 .. 127, NEW tag6 \in 8 .. 127
  PROVE  /\ IpSerialize(i, tag4, tag6) \in ByteSeqs
         /\ Len(IpSerialize(i, tag4, tag6)) = IpByteSize(i)
<1>1. CASE i = NotSet
  BY <1>1, IpIs, NoBytes DEF IpSerialize, IpByteSize
<1>2. CASE \E n \in Fixed(4) : i = Ipv4(n)
  <2>1. PICK n \in Fixed(4) : i = Ipv4(n)
    BY <1>2
  <2>2. i.case = "Ipv4" /\ i.addr = n /\ n \in Nat
    BY <2>1, IpIs DEF Fixed
  <2>3. FixedField(tag4, n, 4) \in ByteSeqs /\ Len(FixedField(tag4, n, 4)) = 1 + 4
    BY <2>2, FixedFieldBytes
  <2> QED
    BY <2>2, <2>3 DEF IpSerialize, IpByteSize
<1>3. CASE \E w \in IPv6s : i = Ipv6(w)
  <2>1. PICK w \in IPv6s : i = Ipv6(w)
    BY <1>3
  <2>2. i.case = "Ipv6" /\ i.addr = w
    BY <2>1, IpIs
  <2> DEFINE b == IPv6Serialize(w)
  <2>3. b \in ByteSeqs /\ Len(b) = IPv6ByteSize(w)
    BY IPv6SerializeType
  <2>4. IpSerialize(i, tag4, tag6) = LenField(tag6, Len(b), b)
    BY <2>2, <2>3 DEF IpSerialize
  <2>5. IpByteSize(i) = LenFieldSize(Len(b))
    BY <2>2, <2>3 DEF IpByteSize
  <2> HIDE DEF b
  <2> QED
    BY <2>3, <2>4, <2>5, LenFieldBytes
<1> QED
  BY <1>1, <1>2, <1>3, IpCases

\* A number that is written unless it is zero.
Scalar(tag, n) == IF n # 0 THEN VarintField(tag, n) ELSE <<>>
ScalarSize(n) == IF n # 0 THEN 1 + VarintSize(n) ELSE 0

\* Its bytes, and how many they are.
LEMMA ScalarBytes ==
  ASSUME NEW tag \in 8 .. 127, NEW n \in Nat
  PROVE  /\ Scalar(tag, n) \in ByteSeqs /\ Len(Scalar(tag, n)) = ScalarSize(n)
         /\ ScalarSize(n) \in Nat
  BY NumberBytes DEF Scalar, ScalarSize

\* A flow key takes the bytes that were counted.
LEMMA FlowKeySize ==
  ASSUME NEW k \in FlowKeys
  PROVE  /\ FlowKeySerialize(k) \in ByteSeqs
         /\ Len(FlowKeySerialize(k)) = FlowKeyByteSize(k)
<1> DEFINE a == Scalar(8, k.dstAs)
           b == Scalar(16, k.srcAs)
           c == Scalar(24, k.flowId)
           d == IpSerialize(k.dstIp, 37, 42)
           e == IpSerialize(k.srcIp, 53, 58)
           p == Scalar(64, k.dstPort)
           q == Scalar(72, k.srcPort)
           r == Scalar(80, k.protocol)
           u == k.unknown
           na == ScalarSize(k.dstAs)
           nb == ScalarSize(k.srcAs)
           nc == ScalarSize(k.flowId)
           nd == IpByteSize(k.dstIp)
           ne == IpByteSize(k.srcIp)
           np == ScalarSize(k.dstPort)
           nq == ScalarSize(k.srcPort)
           nr == ScalarSize(k.protocol)
<1>1. FlowKeySerialize(k) = a \o b \o c \o d \o e \o p \o q \o r \o u
  BY DEF FlowKeySerialize, Scalar
<1>2. FlowKeyByteSize(k) = na + nb + nc + np + nq + nr + nd + ne + Len(u)
  BY DEF FlowKeyByteSize, ScalarSize
<1>3. a \in ByteSeqs /\ Len(a) = na
  <2>1. k.dstAs \in Nat /\ 8 \in 8 .. 127
    BY FlowKeyParts
  <2> QED
    BY <2>1, ScalarBytes
<1>4. b \in ByteSeqs /\ Len(b) = nb
  <2>1. k.srcAs \in Nat /\ 16 \in 8 .. 127
    BY FlowKeyParts
  <2> QED
    BY <2>1, ScalarBytes
<1>5. c \in ByteSeqs /\ Len(c) = nc
  <2>1. k.flowId \in Nat /\ 24 \in 8 .. 127
    BY FlowKeyParts
  <2> QED
    BY <2>1, ScalarBytes
<1>6. d \in ByteSeqs /\ Len(d) = nd
  <2>1. k.dstIp \in Ips /\ 37 \in 8 .. 127 /\ 42 \in 8 .. 127
    BY FlowKeyParts
  <2> QED
    BY <2>1, IpBytes
<1>7. e \in ByteSeqs /\ Len(e) = ne
  <2>1. k.srcIp \in Ips /\ 53 \in 8 .. 127 /\ 58 \in 8 .. 127
    BY FlowKeyParts
  <2> QED
    BY <2>1, IpBytes
<1>8. p \in ByteSeqs /\ Len(p) = np
  <2>1. k.dstPort \in Nat /\ 64 \in 8 .. 127
    BY FlowKeyParts
  <2> QED
    BY <2>1, ScalarBytes
<1>9. q \in ByteSeqs /\ Len(q) = nq
  <2>1. k.srcPort \in Nat /\ 72 \in 8 .. 127
    BY FlowKeyParts
  <2> QED
    BY <2>1, ScalarBytes
<1>10. r \in ByteSeqs /\ Len(r) = nr
  <2>1. k.protocol \in Nat /\ 80 \in 8 .. 127
    BY FlowKeyParts
  <2> QED
    BY <2>1, ScalarBytes
<1>11. u \in ByteSeqs
  BY FlowKeyParts
<1> HIDE DEF a, b, c, d, e, p, q, r, u, na, nb, nc, nd, ne, np, nq, nr
<1>12. /\ a \o b \o c \o d \o e \o p \o q \o r \o u \in ByteSeqs
       /\ Len(a \o b \o c \o d \o e \o p \o q \o r \o u)
            = Len(a) + Len(b) + Len(c) + Len(d) + Len(e) + Len(p) + Len(q) + Len(r) + Len(u)
  <2>1. /\ a \in ByteSeqs /\ b \in ByteSeqs /\ c \in ByteSeqs /\ d \in ByteSeqs /\ e \in ByteSeqs
        /\ p \in ByteSeqs /\ q \in ByteSeqs /\ r \in ByteSeqs /\ u \in ByteSeqs
    BY <1>3, <1>4, <1>5, <1>6, <1>7, <1>8, <1>9, <1>10, <1>11
  <2> DEFINE m == a \o b \o c \o d
             n == m \o e \o p \o q
  <2>2. m \in ByteSeqs /\ Len(m) = Len(a) + Len(b) + Len(c) + Len(d)
    BY ONLY <2>1, FourBytes
  <2> HIDE DEF m
  <2>3. n \in ByteSeqs /\ Len(n) = Len(m) + Len(e) + Len(p) + Len(q)
    BY ONLY <2>1, <2>2, FourBytes
  <2> HIDE DEF n
  <2>4. n \o r \in ByteSeqs /\ Len(n \o r) = Len(n) + Len(r)
    BY ONLY <2>1, <2>3, ConcatLen
  <2>5. n \o r \o u \in ByteSeqs /\ Len(n \o r \o u) = Len(n) + Len(r) + Len(u)
    BY ONLY <2>1, <2>4, ConcatLen
  <2> QED
    BY <2>2, <2>3, <2>5 DEF m, n
<1>13. Len(a) \in Nat /\ Len(b) \in Nat /\ Len(c) \in Nat /\ Len(d) \in Nat
       /\ Len(e) \in Nat /\ Len(p) \in Nat /\ Len(q) \in Nat /\ Len(r) \in Nat /\ Len(u) \in Nat
  BY <1>3, <1>4, <1>5, <1>6, <1>7, <1>8, <1>9, <1>10, <1>11, ByteAt
<1>14. Len(a) + Len(b) + Len(c) + Len(d) + Len(e) + Len(p) + Len(q) + Len(r) + Len(u)
        = na + nb + nc + np + nq + nr + nd + ne + Len(u)
  BY SMTT(30), <1>3, <1>4, <1>5, <1>6, <1>7, <1>8, <1>9, <1>10, <1>13
<1> QED
  BY <1>1, <1>2, <1>12, <1>14

\* Merging an address: into one that is not set it is the address.
LEMMA IpMergeType ==
  ASSUME NEW i \in Ips, NEW j \in Ips
  PROVE  IpMerge(i, j) \in Ips /\ IpMerge(NotSet, j) = j
<1>1. CASE j = NotSet
  BY <1>1, IpIs DEF IpMerge, Merged
<1>2. CASE \E n \in Fixed(4) : j = Ipv4(n)
  BY <1>2, IpIs DEF IpMerge, Merged
<1>3. CASE \E w \in IPv6s : j = Ipv6(w)
  <2>1. PICK w \in IPv6s : j = Ipv6(w) /\ j.case = "Ipv6" /\ j.addr = w
    BY <1>3, IpIs
  <2>2. IpMerge(i, j) = Ipv6(IPv6Merge(Mutable(i), w))
    BY <2>1 DEF IpMerge
  <2>3. Ipv6(IPv6Merge(Mutable(i), w)) \in Ips
    BY IPv6MergeIs, MutableType, IpIs
  <2>4. Mutable(NotSet) = IPv6Address
    BY IpIs DEF Mutable
  <2>5. IpMerge(NotSet, j) = Ipv6(IPv6Merge(Mutable(NotSet), w))
    BY <2>1 DEF IpMerge
  <2>6. IPv6Merge(IPv6Address, w) = w
    BY IPv6MergeEmpty
  <2> QED
    BY <2>1, <2>2, <2>3, <2>4, <2>5, <2>6
<1> QED
  BY <1>1, <1>2, <1>3, IpCases

\* The parts of a merged flow key.
LEMMA FlowKeyMergeIs ==
  ASSUME NEW x \in FlowKeys, NEW y \in FlowKeys
  PROVE  /\ FlowKeyMerge(x, y) = FlowKeyOf(Merged(x.dstAs, y.dstAs, 0), Merged(x.srcAs, y.srcAs, 0),
                                            Merged(x.flowId, y.flowId, 0), IpMerge(x.dstIp, y.dstIp),
                                            IpMerge(x.srcIp, y.srcIp), Merged(x.dstPort, y.dstPort, 0),
                                            Merged(x.srcPort, y.srcPort, 0), Merged(x.protocol, y.protocol, 0),
                                            x.unknown \o y.unknown)
         /\ FlowKeyMerge(x, y) \in FlowKeys
<1> DEFINE a == Merged(x.dstAs, y.dstAs, 0)
           b == Merged(x.srcAs, y.srcAs, 0)
           c == Merged(x.flowId, y.flowId, 0)
           d == IpMerge(x.dstIp, y.dstIp)
           e == IpMerge(x.srcIp, y.srcIp)
           p == Merged(x.dstPort, y.dstPort, 0)
           q == Merged(x.srcPort, y.srcPort, 0)
           r == Merged(x.protocol, y.protocol, 0)
           u == x.unknown \o y.unknown
<1>1. FlowKeyMerge(x, y) = FlowKeyOf(a, b, c, d, e, p, q, r, u)
  BY DEF FlowKeyMerge, FlowKeyOf
<1>2. a \in Nat /\ b \in Nat /\ c \in Nat /\ p \in Nat /\ q \in Nat /\ r \in Nat
  BY FlowKeyParts DEF Merged
<1>3. d \in Ips /\ e \in Ips
  BY FlowKeyParts, IpMergeType
<1>4. u \in Unknowns(FlowKeyTags)
  BY FlowKeyParts, UnknownThen
<1>5. ASSUME NEW a1, NEW b1, NEW c1, NEW d1, NEW e1, NEW p1, NEW q1, NEW r1, NEW u1,
             a1 = a, b1 = b, c1 = c, d1 = d, e1 = e, p1 = p, q1 = q, r1 = r, u1 = u
      PROVE  FlowKeyOf(a1, b1, c1, d1, e1, p1, q1, r1, u1) \in FlowKeys
  <2> HIDE DEF a, b, c, d, e, p, q, r, u
  <2>1. a1 \in Nat /\ b1 \in Nat /\ c1 \in Nat /\ p1 \in Nat /\ q1 \in Nat /\ r1 \in Nat /\ d1 \in Ips
        /\ e1 \in Ips /\ u1 \in Unknowns(FlowKeyTags)
    BY <1>2, <1>3, <1>4, <1>5
  <2> QED
    BY <2>1, FlowKeyOfType
<1> QED
  BY <1>1, <1>5

\* Merging into an empty flow key gives the other one.
LEMMA FlowKeyMergeEmpty ==
  ASSUME NEW y \in FlowKeys
  PROVE  FlowKeyMerge(FlowKey, y) = y
<1> DEFINE x == FlowKey
<1>1. x \in FlowKeys /\ x.dstAs = 0 /\ x.srcAs = 0 /\ x.flowId = 0 /\ x.dstIp = NotSet
      /\ x.srcIp = NotSet /\ x.dstPort = 0 /\ x.srcPort = 0 /\ x.protocol = 0 /\ x.unknown = <<>>
  BY FlowKeyEmptyType, FlowKeyOfIs
<1> HIDE DEF x
<1>2. /\ y = FlowKeyOf(y.dstAs, y.srcAs, y.flowId, y.dstIp, y.srcIp, y.dstPort, y.srcPort, y.protocol, y.unknown)
      /\ y.unknown \in ByteSeqs /\ y.dstIp \in Ips /\ y.srcIp \in Ips
  BY FlowKeyParts
<1>3. /\ Merged(x.dstAs, y.dstAs, 0) = y.dstAs
      /\ Merged(x.srcAs, y.srcAs, 0) = y.srcAs
      /\ Merged(x.flowId, y.flowId, 0) = y.flowId
      /\ Merged(x.dstPort, y.dstPort, 0) = y.dstPort
      /\ Merged(x.srcPort, y.srcPort, 0) = y.srcPort
      /\ Merged(x.protocol, y.protocol, 0) = y.protocol
  BY <1>1 DEF Merged
<1>4. IpMerge(x.dstIp, y.dstIp) = y.dstIp /\ IpMerge(x.srcIp, y.srcIp) = y.srcIp
  BY <1>1, <1>2, IpMergeType
<1>5. x.unknown \o y.unknown = y.unknown
  BY <1>1, <1>2, NothingThen DEF ByteSeqs
<1>6. FlowKeyMerge(x, y) = FlowKeyOf(Merged(x.dstAs, y.dstAs, 0), Merged(x.srcAs, y.srcAs, 0),
                                    Merged(x.flowId, y.flowId, 0), IpMerge(x.dstIp, y.dstIp),
                                    IpMerge(x.srcIp, y.srcIp), Merged(x.dstPort, y.dstPort, 0),
                                    Merged(x.srcPort, y.srcPort, 0), Merged(x.protocol, y.protocol, 0),
                                    x.unknown \o y.unknown)
  BY <1>1, FlowKeyMergeIs
<1>7. FlowKeyMerge(x, y) = y
  BY <1>2, <1>3, <1>4, <1>5, <1>6
<1> QED
  BY <1>7 DEF x

\* When a flow key can be read.
LEMMA FlowKeyReadableIs ==
  ASSUME NEW b
  PROVE  FlowKeyReadable(b) <=>
           \A f \in ToSet(Fields(b)) :
             f # Malformed /\ (f.tag \in {42, 58} => FieldsReadable(f.data))
  BY DEF FlowKeyReadable, Readable, FieldsReadable, AnyBytes

\* An address merged into another is read back as the merged one.
LEMMA IPv6ReadsBack ==
  ASSUME NEW x \in IPv6s, NEW y \in IPv6s
  PROVE  /\ IPv6Serialize(y) \in ByteSeqs /\ Len(IPv6Serialize(y)) = IPv6ByteSize(y)
         /\ IPv6Parse(x, IPv6Serialize(y)) = IPv6Merge(x, y)
         /\ FieldsReadable(IPv6Serialize(y))
<1> DEFINE b == IPv6Serialize(y)
<1>1. b \in ByteSeqs /\ Len(b) = IPv6ByteSize(y)
  BY IPv6SerializeType
<1>2. Folds(IPv6Step, x, Fields(b), IPv6Parse(x, b), {})
  BY <1>1, IPv6Parses
<1>3. Reads(IPv6Step, x, b, IPv6Merge(x, y), {}, Parts)
  BY IPv6Writes
<1> HIDE DEF b
<1>4. IPv6Parse(x, b) = IPv6Merge(x, y) /\ \A f \in ToSet(Fields(b)) : f # Malformed
  BY <1>2, <1>3, ReadsIsRun
<1> QED
  BY <1>1, <1>4 DEF b, FieldsReadable

\* The fields of a flow key whose addresses can be read.
FlowKeyFields == {f \in Parts : f.tag \in {42, 58} => FieldsReadable(f.data)}

\* A field that is no IPv6 address is one of them.
LEMMA FlowKeyFieldsHas ==
  ASSUME NEW f \in Parts, f.tag \notin {42, 58}
  PROVE  f \in FlowKeyFields
  BY DEF FlowKeyFields

\* What a written number leaves of a flow key.
LEMMA ScalarReads ==
  ASSUME NEW tag \in 8 .. 127, tag % 8 = 0, tag \notin {42, 58}, NEW n \in Nat,
         NEW m \in FlowKeys, NEW k, NEW Z,
         n = 0 => k = m,
         n # 0 => m \notin Z /\ k = FlowKeyTake(m, NumberField(tag, n))
  PROVE  Reads(FlowKeyStep, m, Scalar(tag, n), k, Z, FlowKeyFields)
<1> DEFINE f == NumberField(tag, n)
<1>1. f \in Parts /\ f.tag = tag
  BY NumberFieldIs
<1>2. f \in FlowKeyFields
  BY <1>1, FlowKeyFieldsHas
<1>3. FlowKeyStep[<<m, f>>] = FlowKeyTake(m, f)
  BY <1>1, FlowKeyStepIs
<1> QED
  BY <1>2, <1>3, ReadsNumber DEF Scalar

\* What a written fixed32 field holds.
LEMMA WordFieldIs ==
  ASSUME NEW tag \in 8 .. 127, tag % 8 = 5, NEW n \in Fixed(4)
  PROVE  /\ WordField(tag, n, 4) \in Parts /\ WordField(tag, n, 4).tag = tag
         /\ WordField(tag, n, 4).val = n
<1>1. Whole(WordField(tag, n, 4))
  BY WordFieldWhole
<1> QED
  BY <1>1, WholeIsPart DEF WordField

\* What a written address leaves of a flow key.
LEMMA IpReads ==
  ASSUME NEW tag4, NEW tag6, (tag4 = 37 /\ tag6 = 42) \/ (tag4 = 53 /\ tag6 = 58),
         NEW i \in Ips, NEW m \in FlowKeys, NEW k, NEW Z,
         i = NotSet => k = m, i # NotSet => m \notin Z,
         \A n \in Fixed(4) : i = Ipv4(n) => k = FlowKeyTake(m, WordField(tag4, n, 4)),
         \A w \in IPv6s : i = Ipv6(w) => k = FlowKeyTake(m, BytesField(tag6, IPv6Serialize(w)))
  PROVE  Reads(FlowKeyStep, m, IpSerialize(i, tag4, tag6), k, Z, FlowKeyFields)
<1>1. tag4 \in 8 .. 127 /\ tag4 % 8 = 5 /\ tag6 \in 8 .. 127 /\ tag6 % 8 = 2
      /\ tag4 \notin {42, 58}
  OBVIOUS
<1>2. CASE i = NotSet
  <2>1. IpSerialize(i, tag4, tag6) = <<>>
    BY <1>2, IpIs DEF IpSerialize
  <2> QED
    BY <1>2, <2>1, ReadsNothing
<1>3. CASE \E n \in Fixed(4) : i = Ipv4(n)
  <2>1. PICK n \in Fixed(4) : i = Ipv4(n) /\ i.case = "Ipv4" /\ i.addr = n
    BY <1>3, IpIs
  <2> DEFINE f == WordField(tag4, n, 4)
  <2>2. f \in Parts /\ f.tag = tag4
    BY <1>1, WordFieldIs
  <2>3. f \in FlowKeyFields
    BY <1>1, <2>2, FlowKeyFieldsHas
  <2>4. FlowKeyStep[<<m, f>>] = FlowKeyTake(m, f)
    BY <2>2, FlowKeyStepIs
  <2>5. IpSerialize(i, tag4, tag6) = FixedField(tag4, n, 4)
    BY <2>1 DEF IpSerialize
  <2>6. m \notin Z /\ k = FlowKeyTake(m, f)
    BY <2>1, IpIs
  <2>7. Reads(FlowKeyStep, m, FixedField(tag4, n, 4), k, Z, FlowKeyFields)
    BY <1>1, <2>3, <2>4, <2>6, ReadsWord
  <2> QED
    BY <2>5, <2>7
<1>4. CASE \E w \in IPv6s : i = Ipv6(w)
  <2>1. PICK w \in IPv6s : i = Ipv6(w) /\ i.case = "Ipv6" /\ i.addr = w
    BY <1>4, IpIs
  <2> DEFINE b == IPv6Serialize(w)
             f == BytesField(tag6, b)
  <2>2. m \notin Z /\ k = FlowKeyTake(m, f)
    BY <2>1, IpIs
  <2>3. b \in ByteSeqs /\ Len(b) = IPv6ByteSize(w) /\ FieldsReadable(b)
    BY IPv6ReadsBack
  <2>4. IpSerialize(i, tag4, tag6) = LenField(tag6, Len(b), b)
    BY <2>1, <2>3 DEF IpSerialize
  <2> HIDE DEF b
  <2>5. f \in Parts /\ f.data = b
    BY <1>1, <2>3, BytesFieldIs
  <2>6. f \in FlowKeyFields
    BY <2>3, <2>5 DEF FlowKeyFields
  <2>7. FlowKeyStep[<<m, f>>] = FlowKeyTake(m, f)
    BY <2>5, FlowKeyStepIs
  <2>8. Reads(FlowKeyStep, m, LenField(tag6, Len(b), b), k, Z, FlowKeyFields)
    BY <1>1, <2>2, <2>3, <2>6, <2>7, ReadsBytes
  <2> QED
    BY <2>4, <2>8
<1> QED
  BY <1>2, <1>3, <1>4, IpCases

\* The fields of a flow key that the reader does not know are kept.
LEMMA FlowKeySkips ==
  ASSUME NEW of,
         \A w \in Unknowns(FlowKeyTags) :
           /\ of[w] \in FlowKeys
           /\ \A f \in Parts : f.tag \notin FlowKeyTags => FlowKeyTake(of[w], f) = of[w \o f.raw]
  PROVE  Skips(FlowKeyStep, of, FlowKeyTags, FlowKeyFields)
<1>1. ASSUME NEW w \in Unknowns(FlowKeyTags), NEW f \in Parts, f.tag \notin FlowKeyTags
      PROVE  f \in FlowKeyFields /\ FlowKeyStep[<<of[w], f>>] = of[w \o f.raw]
  <2>1. f.tag \notin {42, 58}
    BY <1>1 DEF FlowKeyTags
  <2>2. f \in FlowKeyFields
    BY <2>1, FlowKeyFieldsHas
  <2> QED
    BY <2>2, <1>1, FlowKeyStepIs
<1> QED
  BY <1>1 DEF Skips

\* Reading the bytes of flow key y into flow key x merges y into x.  Into an
\* empty one y is there after the last field, and not before.
LEMMA FlowKeyWrites ==
  ASSUME NEW x \in FlowKeys, NEW y \in FlowKeys, NEW Z, \A z \in Z : z = y /\ x = FlowKey
  PROVE  Reads(FlowKeyStep, x, FlowKeySerialize(y), FlowKeyMerge(x, y), Z, FlowKeyFields)
<1> DEFINE xa == x.dstAs  ya == y.dstAs
           xb == x.srcAs  yb == y.srcAs
           xc == x.flowId  yc == y.flowId
           xd == x.dstIp  yd == y.dstIp
           xe == x.srcIp  ye == y.srcIp
           xp == x.dstPort  yp == y.dstPort
           xq == x.srcPort  yq == y.srcPort
           xr == x.protocol  yr == y.protocol
           xu == x.unknown  yu == y.unknown
           za == Merged(xa, ya, 0)
           zb == Merged(xb, yb, 0)
           zc == Merged(xc, yc, 0)
           zd == IpMerge(xd, yd)
           ze == IpMerge(xe, ye)
           zp == Merged(xp, yp, 0)
           zq == Merged(xq, yq, 0)
           zr == Merged(xr, yr, 0)
           zu == xu \o yu
           s0 == FlowKeyOf(xa, xb, xc, xd, xe, xp, xq, xr, xu)
           s1 == FlowKeyOf(za, xb, xc, xd, xe, xp, xq, xr, xu)
           s2 == FlowKeyOf(za, zb, xc, xd, xe, xp, xq, xr, xu)
           s3 == FlowKeyOf(za, zb, zc, xd, xe, xp, xq, xr, xu)
           s4 == FlowKeyOf(za, zb, zc, zd, xe, xp, xq, xr, xu)
           s5 == FlowKeyOf(za, zb, zc, zd, ze, xp, xq, xr, xu)
           s6 == FlowKeyOf(za, zb, zc, zd, ze, zp, xq, xr, xu)
           s7 == FlowKeyOf(za, zb, zc, zd, ze, zp, zq, xr, xu)
           s8 == FlowKeyOf(za, zb, zc, zd, ze, zp, zq, zr, xu)
           s9 == FlowKeyOf(za, zb, zc, zd, ze, zp, zq, zr, zu)
           of == [w \in Unknowns(FlowKeyTags) |-> FlowKeyOf(za, zb, zc, zd, ze, zp, zq, zr, w)]
<1>1. /\ xa \in Nat /\ xb \in Nat /\ xc \in Nat /\ xp \in Nat /\ xq \in Nat /\ xr \in Nat
      /\ ya \in Nat /\ yb \in Nat /\ yc \in Nat /\ yp \in Nat /\ yq \in Nat /\ yr \in Nat
      /\ xd \in Ips /\ xe \in Ips /\ yd \in Ips /\ ye \in Ips
      /\ xu \in Unknowns(FlowKeyTags) /\ yu \in Unknowns(FlowKeyTags)
  BY FlowKeyParts
<1>2. /\ za \in Nat /\ zb \in Nat /\ zc \in Nat /\ zp \in Nat /\ zq \in Nat /\ zr \in Nat
  BY <1>1 DEF Merged
<1>3. zd \in Ips /\ ze \in Ips /\ zu \in Unknowns(FlowKeyTags)
  BY <1>1, IpMergeType, UnknownThen
<1>4. FlowKeySerialize(y) = Scalar(8, ya) \o Scalar(16, yb) \o Scalar(24, yc) \o IpSerialize(yd, 37, 42) \o IpSerialize(ye, 53, 58) \o Scalar(64, yp) \o Scalar(72, yq) \o Scalar(80, yr) \o yu
  BY DEF FlowKeySerialize, Scalar
<1>5. FlowKeyMerge(x, y) = s9
  BY FlowKeyMergeIs
<1>6. x = s0
  BY FlowKeyParts
<1>7. \A z \in Z : /\ z.dstAs = ya /\ z.srcAs = yb /\ z.flowId = yc /\ z.dstIp = yd /\ z.srcIp = ye
                   /\ z.dstPort = yp /\ z.srcPort = yq /\ z.protocol = yr /\ z.unknown = yu
                   /\ xa = 0 /\ xb = 0 /\ xc = 0 /\ xp = 0 /\ xq = 0 /\ xr = 0
                   /\ xd = NotSet /\ xe = NotSet /\ xu = <<>>
  <2>1. /\ FlowKey.dstAs = 0 /\ FlowKey.srcAs = 0 /\ FlowKey.flowId = 0 /\ FlowKey.dstPort = 0 /\ FlowKey.srcPort = 0 /\ FlowKey.protocol = 0
        /\ FlowKey.dstIp = NotSet /\ FlowKey.srcIp = NotSet /\ FlowKey.unknown = <<>>
    BY FlowKeyEmptyType, FlowKeyOfIs
  <2> QED
    BY <2>1
<1>8. (ya = 0 => za = xa) /\ (ya # 0 => za = ya) /\ (yb = 0 => zb = xb) /\ (yb # 0 => zb = yb)
      /\ (yc = 0 => zc = xc) /\ (yc # 0 => zc = yc)
      /\ (yp = 0 => zp = xp) /\ (yp # 0 => zp = yp)
      /\ (yq = 0 => zq = xq) /\ (yq # 0 => zq = yq)
      /\ (yr = 0 => zr = xr) /\ (yr # 0 => zr = yr)
  BY DEF Merged
<1> HIDE DEF xa, xb, xc, xd, xe, xp, xq, xr, xu, ya, yb, yc, yd, ye, yp, yq, yr, yu, za, zb, zc, zd, ze, zp, zq, zr, zu
<1>9. Reads(FlowKeyStep, s0, Scalar(8, ya), s1, Z, FlowKeyFields)
  <2> DEFINE f == NumberField(8, ya)
  <2>1. s0 \in FlowKeys
    BY <1>1, <1>2, <1>3, FlowKeyOfType
  <2>2. f.tag = 8 /\ f.val = ya
    <3>1. 8 \in 8 .. 127 /\ 8 % 8 = 0
      OBVIOUS
    <3> QED
      BY <3>1, <1>1, NumberFieldIs
  <2>3. s0.dstAs = xa
    BY FlowKeyOfIs
  <2> HIDE DEF f
  <2>4. ya # 0 => FlowKeyTake(s0, f) = s1
    BY <2>2, <1>8, FlowKeyTakeIs
  <2>5. ya # 0 => s0 \notin Z
    BY <2>3, <1>7
  <2>6. ya = 0 => s1 = s0
    BY <1>8
  <2> HIDE DEF s0, s1
  <2>7. 8 \in 8 .. 127 /\ 8 % 8 = 0 /\ 8 \notin {42, 58}
    OBVIOUS
  <2> QED
    BY <2>1, <2>4, <2>5, <2>6, <2>7, <1>1, ScalarReads DEF f
<1>10. Reads(FlowKeyStep, s1, Scalar(16, yb), s2, Z, FlowKeyFields)
  <2> DEFINE f == NumberField(16, yb)
  <2>1. s1 \in FlowKeys
    BY <1>1, <1>2, <1>3, FlowKeyOfType
  <2>2. f.tag = 16 /\ f.val = yb
    <3>1. 16 \in 8 .. 127 /\ 16 % 8 = 0
      OBVIOUS
    <3> QED
      BY <3>1, <1>1, NumberFieldIs
  <2>3. s1.srcAs = xb
    BY FlowKeyOfIs
  <2> HIDE DEF f
  <2>4. yb # 0 => FlowKeyTake(s1, f) = s2
    BY <2>2, <1>8, FlowKeyTakeIs
  <2>5. yb # 0 => s1 \notin Z
    BY <2>3, <1>7
  <2>6. yb = 0 => s2 = s1
    BY <1>8
  <2> HIDE DEF s1, s2
  <2>7. 16 \in 8 .. 127 /\ 16 % 8 = 0 /\ 16 \notin {42, 58}
    OBVIOUS
  <2> QED
    BY <2>1, <2>4, <2>5, <2>6, <2>7, <1>1, ScalarReads DEF f
<1>11. Reads(FlowKeyStep, s2, Scalar(24, yc), s3, Z, FlowKeyFields)
  <2> DEFINE f == NumberField(24, yc)
  <2>1. s2 \in FlowKeys
    BY <1>1, <1>2, <1>3, FlowKeyOfType
  <2>2. f.tag = 24 /\ f.val = yc
    <3>1. 24 \in 8 .. 127 /\ 24 % 8 = 0
      OBVIOUS
    <3> QED
      BY <3>1, <1>1, NumberFieldIs
  <2>3. s2.flowId = xc
    BY FlowKeyOfIs
  <2> HIDE DEF f
  <2>4. yc # 0 => FlowKeyTake(s2, f) = s3
    BY <2>2, <1>8, FlowKeyTakeIs
  <2>5. yc # 0 => s2 \notin Z
    BY <2>3, <1>7
  <2>6. yc = 0 => s3 = s2
    BY <1>8
  <2> HIDE DEF s2, s3
  <2>7. 24 \in 8 .. 127 /\ 24 % 8 = 0 /\ 24 \notin {42, 58}
    OBVIOUS
  <2> QED
    BY <2>1, <2>4, <2>5, <2>6, <2>7, <1>1, ScalarReads DEF f
<1>12. Reads(FlowKeyStep, s3, IpSerialize(yd, 37, 42), s4, Z, FlowKeyFields)
  <2>1. s3 \in FlowKeys
    BY <1>1, <1>2, <1>3, FlowKeyOfType
  <2>2. s3.dstIp = xd
    BY FlowKeyOfIs
  <2>3. yd # NotSet => s3 \notin Z
    BY <2>2, <1>7
  <2>4. yd = NotSet => s4 = s3
    BY IpIs DEF zd, IpMerge, Merged
  <2>5. ASSUME NEW n \in Fixed(4), yd = Ipv4(n)
        PROVE  s4 = FlowKeyTake(s3, WordField(37, n, 4))
    <3> DEFINE f == WordField(37, n, 4)
    <3>1. f.tag = 37 /\ f.val = n
      <4>1. 37 \in 8 .. 127 /\ 37 % 8 = 5
        OBVIOUS
      <4> QED
        BY <4>1, WordFieldIs
    <3>2. zd = Ipv4(n)
      BY <2>5, IpIs DEF zd, IpMerge, Merged
    <3> HIDE DEF f
    <3>3. s4 = FlowKeyTake(s3, f)
      BY <3>1, <3>2, FlowKeyTakeIs
    <3> QED
      BY <3>3 DEF f
  <2>6. ASSUME NEW w \in IPv6s, yd = Ipv6(w)
        PROVE  s4 = FlowKeyTake(s3, BytesField(42, IPv6Serialize(w)))
    <3> DEFINE f == BytesField(42, IPv6Serialize(w))
    <3>1. f.tag = 42 /\ f.data = IPv6Serialize(w)
      <4>1. 42 \in 8 .. 127 /\ 42 % 8 = 2 /\ IPv6Serialize(w) \in ByteSeqs
        BY IPv6SerializeType
      <4> QED
        BY <4>1, BytesFieldIs
    <3>2. Mutable(xd) \in IPv6s
      BY <1>1, MutableType
    <3>3. zd = Ipv6(IPv6Merge(Mutable(xd), w))
      BY <2>6, IpIs DEF zd, IpMerge
    <3>4. zd = Ipv6(IPv6Parse(Mutable(xd), IPv6Serialize(w)))
      BY <3>2, <3>3, IPv6ReadsBack
    <3> HIDE DEF f
    <3>5. s4 = FlowKeyTake(s3, f)
      BY <3>1, <3>4, FlowKeyTakeIs
    <3> QED
      BY <3>5 DEF f
  <2> HIDE DEF s3, s4
  <2> QED
    BY <2>1, <2>3, <2>4, <2>5, <2>6, <1>1, IpReads
<1>13. Reads(FlowKeyStep, s4, IpSerialize(ye, 53, 58), s5, Z, FlowKeyFields)
  <2>1. s4 \in FlowKeys
    BY <1>1, <1>2, <1>3, FlowKeyOfType
  <2>2. s4.srcIp = xe
    BY FlowKeyOfIs
  <2>3. ye # NotSet => s4 \notin Z
    BY <2>2, <1>7
  <2>4. ye = NotSet => s5 = s4
    BY IpIs DEF ze, IpMerge, Merged
  <2>5. ASSUME NEW n \in Fixed(4), ye = Ipv4(n)
        PROVE  s5 = FlowKeyTake(s4, WordField(53, n, 4))
    <3> DEFINE f == WordField(53, n, 4)
    <3>1. f.tag = 53 /\ f.val = n
      <4>1. 53 \in 8 .. 127 /\ 53 % 8 = 5
        OBVIOUS
      <4> QED
        BY <4>1, WordFieldIs
    <3>2. ze = Ipv4(n)
      BY <2>5, IpIs DEF ze, IpMerge, Merged
    <3> HIDE DEF f
    <3>3. s5 = FlowKeyTake(s4, f)
      BY <3>1, <3>2, FlowKeyTakeIs
    <3> QED
      BY <3>3 DEF f
  <2>6. ASSUME NEW w \in IPv6s, ye = Ipv6(w)
        PROVE  s5 = FlowKeyTake(s4, BytesField(58, IPv6Serialize(w)))
    <3> DEFINE f == BytesField(58, IPv6Serialize(w))
    <3>1. f.tag = 58 /\ f.data = IPv6Serialize(w)
      <4>1. 58 \in 8 .. 127 /\ 58 % 8 = 2 /\ IPv6Serialize(w) \in ByteSeqs
        BY IPv6SerializeType
      <4> QED
        BY <4>1, BytesFieldIs
    <3>2. Mutable(xe) \in IPv6s
      BY <1>1, MutableType
    <3>3. ze = Ipv6(IPv6Merge(Mutable(xe), w))
      BY <2>6, IpIs DEF ze, IpMerge
    <3>4. ze = Ipv6(IPv6Parse(Mutable(xe), IPv6Serialize(w)))
      BY <3>2, <3>3, IPv6ReadsBack
    <3> HIDE DEF f
    <3>5. s5 = FlowKeyTake(s4, f)
      BY <3>1, <3>4, FlowKeyTakeIs
    <3> QED
      BY <3>5 DEF f
  <2> HIDE DEF s4, s5
  <2> QED
    BY <2>1, <2>3, <2>4, <2>5, <2>6, <1>1, IpReads
<1>14. Reads(FlowKeyStep, s5, Scalar(64, yp), s6, Z, FlowKeyFields)
  <2> DEFINE f == NumberField(64, yp)
  <2>1. s5 \in FlowKeys
    BY <1>1, <1>2, <1>3, FlowKeyOfType
  <2>2. f.tag = 64 /\ f.val = yp
    <3>1. 64 \in 8 .. 127 /\ 64 % 8 = 0
      OBVIOUS
    <3> QED
      BY <3>1, <1>1, NumberFieldIs
  <2>3. s5.dstPort = xp
    BY FlowKeyOfIs
  <2> HIDE DEF f
  <2>4. yp # 0 => FlowKeyTake(s5, f) = s6
    BY <2>2, <1>8, FlowKeyTakeIs
  <2>5. yp # 0 => s5 \notin Z
    BY <2>3, <1>7
  <2>6. yp = 0 => s6 = s5
    BY <1>8
  <2> HIDE DEF s5, s6
  <2>7. 64 \in 8 .. 127 /\ 64 % 8 = 0 /\ 64 \notin {42, 58}
    OBVIOUS
  <2> QED
    BY <2>1, <2>4, <2>5, <2>6, <2>7, <1>1, ScalarReads DEF f
<1>15. Reads(FlowKeyStep, s6, Scalar(72, yq), s7, Z, FlowKeyFields)
  <2> DEFINE f == NumberField(72, yq)
  <2>1. s6 \in FlowKeys
    BY <1>1, <1>2, <1>3, FlowKeyOfType
  <2>2. f.tag = 72 /\ f.val = yq
    <3>1. 72 \in 8 .. 127 /\ 72 % 8 = 0
      OBVIOUS
    <3> QED
      BY <3>1, <1>1, NumberFieldIs
  <2>3. s6.srcPort = xq
    BY FlowKeyOfIs
  <2> HIDE DEF f
  <2>4. yq # 0 => FlowKeyTake(s6, f) = s7
    BY <2>2, <1>8, FlowKeyTakeIs
  <2>5. yq # 0 => s6 \notin Z
    BY <2>3, <1>7
  <2>6. yq = 0 => s7 = s6
    BY <1>8
  <2> HIDE DEF s6, s7
  <2>7. 72 \in 8 .. 127 /\ 72 % 8 = 0 /\ 72 \notin {42, 58}
    OBVIOUS
  <2> QED
    BY <2>1, <2>4, <2>5, <2>6, <2>7, <1>1, ScalarReads DEF f
<1>16. Reads(FlowKeyStep, s7, Scalar(80, yr), s8, Z, FlowKeyFields)
  <2> DEFINE f == NumberField(80, yr)
  <2>1. s7 \in FlowKeys
    BY <1>1, <1>2, <1>3, FlowKeyOfType
  <2>2. f.tag = 80 /\ f.val = yr
    <3>1. 80 \in 8 .. 127 /\ 80 % 8 = 0
      OBVIOUS
    <3> QED
      BY <3>1, <1>1, NumberFieldIs
  <2>3. s7.protocol = xr
    BY FlowKeyOfIs
  <2> HIDE DEF f
  <2>4. yr # 0 => FlowKeyTake(s7, f) = s8
    BY <2>2, <1>8, FlowKeyTakeIs
  <2>5. yr # 0 => s7 \notin Z
    BY <2>3, <1>7
  <2>6. yr = 0 => s8 = s7
    BY <1>8
  <2> HIDE DEF s7, s8
  <2>7. 80 \in 8 .. 127 /\ 80 % 8 = 0 /\ 80 \notin {42, 58}
    OBVIOUS
  <2> QED
    BY <2>1, <2>4, <2>5, <2>6, <2>7, <1>1, ScalarReads DEF f
<1>17. Reads(FlowKeyStep, s8, yu, s9, Z, FlowKeyFields)
  <2>1. of[xu] = s8 /\ of[xu \o yu] = s9
    BY <1>1, <1>3 DEF zu
  <2>2. ASSUME NEW w \in Unknowns(FlowKeyTags)
        PROVE  /\ of[w] \in FlowKeys /\ of[w].unknown = w
               /\ \A f \in Parts : f.tag \notin FlowKeyTags => FlowKeyTake(of[w], f) = of[w \o f.raw]
    <3>1. of[w] = FlowKeyOf(za, zb, zc, zd, ze, zp, zq, zr, w)
      OBVIOUS
    <3>2. of[w] \in FlowKeys
      BY <3>1, <1>2, <1>3, FlowKeyOfType
    <3>3. of[w].unknown = w
      BY <3>1, FlowKeyOfIs
    <3>4. ASSUME NEW f \in Parts, f.tag \notin FlowKeyTags
          PROVE  FlowKeyTake(of[w], f) = of[w \o f.raw]
      <4>1. w \o f.raw \in Unknowns(FlowKeyTags)
        BY <3>4, UnknownMore
      <4>2. of[w \o f.raw] = FlowKeyOf(za, zb, zc, zd, ze, zp, zq, zr, w \o f.raw)
        BY <4>1
      <4> HIDE DEF of
      <4> QED
        BY <3>1, <3>4, <4>2, FlowKeyTakeIs
    <3> QED
      BY <3>2, <3>3, <3>4
  <2> HIDE DEF of
  <2>3. Skips(FlowKeyStep, of, FlowKeyTags, FlowKeyFields)
    BY <2>2, FlowKeySkips
  <2>4. ASSUME NEW w \in Unknowns(FlowKeyTags), of[w] \in Z
        PROVE  Len(w) >= Len(xu) + Len(yu)
    <3>1. w = yu /\ xu = <<>>
      BY <2>2, <2>4, <1>7
    <3>2. yu \in ByteSeqs
      BY <1>1 DEF Unknowns
    <3>3. Len(yu) \in Nat /\ Len(xu) = 0
      BY <3>1, <3>2, NoBytes, ByteAt
    <3> QED
      BY <3>1, <3>3
  <2>5. Reads(FlowKeyStep, of[xu], yu, of[xu \o yu], Z, FlowKeyFields)
    BY <1>1, <2>3, <2>4, ReadsSkipped
  <2> QED
    BY <2>1, <2>5
<1> HIDE DEF s0, s1, s2, s3, s4, s5, s6, s7, s8, s9
<1> DEFINE t1 == Scalar(8, ya)
           t2 == t1 \o Scalar(16, yb)
           t3 == t2 \o Scalar(24, yc)
           t4 == t3 \o IpSerialize(yd, 37, 42)
           t5 == t4 \o IpSerialize(ye, 53, 58)
           t6 == t5 \o Scalar(64, yp)
           t7 == t6 \o Scalar(72, yq)
           t8 == t7 \o Scalar(80, yr)
<1>18. Reads(FlowKeyStep, s0, t2, s2, Z, FlowKeyFields)
  BY <1>9, <1>10, ReadsThen
<1>19. Reads(FlowKeyStep, s0, t3, s3, Z, FlowKeyFields)
  BY <1>18, <1>11, ReadsThen
<1>20. Reads(FlowKeyStep, s0, t4, s4, Z, FlowKeyFields)
  BY <1>19, <1>12, ReadsThen
<1>21. Reads(FlowKeyStep, s0, t5, s5, Z, FlowKeyFields)
  BY <1>20, <1>13, ReadsThen
<1>22. Reads(FlowKeyStep, s0, t6, s6, Z, FlowKeyFields)
  BY <1>21, <1>14, ReadsThen
<1>23. Reads(FlowKeyStep, s0, t7, s7, Z, FlowKeyFields)
  BY <1>22, <1>15, ReadsThen
<1>24. Reads(FlowKeyStep, s0, t8, s8, Z, FlowKeyFields)
  BY <1>23, <1>16, ReadsThen
<1>25. Reads(FlowKeyStep, s0, t8 \o yu, s9, Z, FlowKeyFields)
  BY <1>24, <1>17, ReadsThen
<1> QED
  BY <1>4, <1>5, <1>6, <1>25

\* A report that was written is read as it was, and takes the bytes announced.
THEOREM ReportReadsBack ==
  ASSUME NEW y \in Reports, NEW order \in Seq(Nat), Covers(order, y.hops)
  PROVE  /\ ReportSerialize(y, order) \in ByteSeqs
         /\ Len(ReportSerialize(y, order)) = ReportByteSize(y, order)
         /\ ReportReadable(ReportSerialize(y, order))
         /\ ReportParse(Report, ReportSerialize(y, order)) = y
<1> DEFINE b == ReportSerialize(y, order)
<1>1. b \in ByteSeqs /\ Len(b) = ReportByteSize(y, order)
  BY ReportSize
<1>2. Report \in Reports
  BY ReportEmptyType
<1>3. Reads(ReportStep, Report, b, y, {}, ReportFields)
  <2>1. Reads(ReportStep, Report, b, ReportMerge(Report, y), {}, ReportFields)
    BY <1>2, ReportWrites
  <2> QED
    BY <2>1, ReportMergeEmpty
<1> HIDE DEF b
<1>4. Folds(ReportStep, Report, Fields(b), ReportParse(Report, b), {})
  BY <1>1, <1>2, ReportParses
<1>5. /\ ReportParse(Report, b) = y
      /\ \A f \in ToSet(Fields(b)) : f \in ReportFields /\ f # Malformed
  BY <1>3, <1>4, ReadsIsRun
<1>6. ReportReadable(b)
  BY <1>5, ReportReadableIs DEF ReportFields
<1> QED
  BY <1>1, <1>5, <1>6 DEF b

\* Reading two reports written one after the other merges the second into the first.
THEOREM ReportsConcatenate ==
  ASSUME NEW x \in Reports, NEW y \in Reports, NEW o \in Seq(Nat), NEW p \in Seq(Nat),
         Covers(o, x.hops), Covers(p, y.hops)
  PROVE  ReportParse(Report, ReportSerialize(x, o) \o ReportSerialize(y, p)) = ReportMerge(x, y)
<1> DEFINE b == ReportSerialize(x, o)
           c == ReportSerialize(y, p)
<1>1. b \in ByteSeqs /\ c \in ByteSeqs
  BY ReportSize
<1>2. Report \in Reports
  BY ReportEmptyType
<1>3. Reads(ReportStep, Report, b, x, {}, ReportFields)
  <2>1. Reads(ReportStep, Report, b, ReportMerge(Report, x), {}, ReportFields)
    BY <1>2, ReportWrites
  <2> QED
    BY <2>1, ReportMergeEmpty
<1>4. Reads(ReportStep, x, c, ReportMerge(x, y), {}, ReportFields)
  BY ReportWrites
<1> HIDE DEF b, c
<1>5. Reads(ReportStep, Report, b \o c, ReportMerge(x, y), {}, ReportFields)
  BY <1>3, <1>4, ReadsThen
<1>6. b \o c \in ByteSeqs
  BY <1>1, ConcatLen
<1>7. Folds(ReportStep, Report, Fields(b \o c), ReportParse(Report, b \o c), {})
  BY <1>2, <1>6, ReportParses
<1>8. ReportParse(Report, b \o c) = ReportMerge(x, y)
  BY <1>5, <1>7, ReadsIsRun
<1> QED
  BY <1>8 DEF b, c

\* The first bytes of a report, if they can be read at all, are another one.
THEOREM ReportCutIsAnother ==
  ASSUME NEW y \in Reports, NEW order \in Seq(Nat), Covers(order, y.hops),
         NEW n \in 0 .. Len(ReportSerialize(y, order)) - 1,
         ReportReadable(SubSeq(ReportSerialize(y, order), 1, n))
  PROVE  ReportParse(Report, SubSeq(ReportSerialize(y, order), 1, n)) # y
<1> DEFINE b == ReportSerialize(y, order)
           c == SubSeq(b, 1, n)
<1>1. b \in ByteSeqs
  BY ReportSize
<1>2. Report \in Reports
  BY ReportEmptyType
<1>3. Reads(ReportStep, Report, b, y, {y}, ReportFields)
  <2>1. Reads(ReportStep, Report, b, ReportMerge(Report, y), {y}, ReportFields)
    BY <1>2, ReportWrites
  <2> QED
    BY <2>1, ReportMergeEmpty
<1>4. ReportReadable(c) /\ n \in 0 .. Len(b) - 1
  OBVIOUS
<1> HIDE DEF b
<1>5. c \in ByteSeqs
  BY <1>1, <1>4, CutInTwo DEF ByteSeqs
<1> HIDE DEF c
<1>6. NoneMalformed(Fields(c))
  <2>1. Fields(c) \in Seq(Parts)
    BY <1>5, FieldsIs
  <2>2. \A f \in ToSet(Fields(c)) : f # Malformed
    BY <1>4, ReportReadableIs
  <2>3. \A i \in 1 .. Len(Fields(c)) : Fields(c)[i] \in ToSet(Fields(c))
    BY <2>1 DEF ToSet
  <2> QED
    BY <2>2, <2>3 DEF NoneMalformed
<1>7. Folds(ReportStep, Report, Fields(c), ReportParse(Report, c), {})
  BY <1>2, <1>5, ReportParses
<1>8. ReportParse(Report, c) # y
  BY <1>3, <1>4, <1>6, <1>7, CutReads DEF c
<1> QED
  BY <1>8 DEF b, c

\* A flow key that was written is read as it was, and takes the bytes announced.
THEOREM FlowKeyReadsBack ==
  ASSUME NEW y \in FlowKeys
  PROVE  /\ FlowKeySerialize(y) \in ByteSeqs
         /\ Len(FlowKeySerialize(y)) = FlowKeyByteSize(y)
         /\ FlowKeyReadable(FlowKeySerialize(y))
         /\ FlowKeyParse(FlowKey, FlowKeySerialize(y)) = y
<1> DEFINE b == FlowKeySerialize(y)
<1>1. b \in ByteSeqs /\ Len(b) = FlowKeyByteSize(y)
  BY FlowKeySize
<1>2. FlowKey \in FlowKeys
  BY FlowKeyEmptyType
<1>3. Reads(FlowKeyStep, FlowKey, b, y, {}, FlowKeyFields)
  <2>1. Reads(FlowKeyStep, FlowKey, b, FlowKeyMerge(FlowKey, y), {}, FlowKeyFields)
    BY <1>2, FlowKeyWrites
  <2> QED
    BY <2>1, FlowKeyMergeEmpty
<1> HIDE DEF b
<1>4. Folds(FlowKeyStep, FlowKey, Fields(b), FlowKeyParse(FlowKey, b), {})
  BY <1>1, <1>2, FlowKeyParses
<1>5. /\ FlowKeyParse(FlowKey, b) = y
      /\ \A f \in ToSet(Fields(b)) : f \in FlowKeyFields /\ f # Malformed
  BY <1>3, <1>4, ReadsIsRun
<1>6. FlowKeyReadable(b)
  BY <1>5, FlowKeyReadableIs DEF FlowKeyFields
<1> QED
  BY <1>1, <1>5, <1>6 DEF b

\* Reading two flow keys written one after the other merges the second into the first.
THEOREM FlowKeysConcatenate ==
  ASSUME NEW x \in FlowKeys, NEW y \in FlowKeys
  PROVE  FlowKeyParse(FlowKey, FlowKeySerialize(x) \o FlowKeySerialize(y)) = FlowKeyMerge(x, y)
<1> DEFINE b == FlowKeySerialize(x)
           c == FlowKeySerialize(y)
<1>1. b \in ByteSeqs /\ c \in ByteSeqs
  BY FlowKeySize
<1>2. FlowKey \in FlowKeys
  BY FlowKeyEmptyType
<1>3. Reads(FlowKeyStep, FlowKey, b, x, {}, FlowKeyFields)
  <2>1. Reads(FlowKeyStep, FlowKey, b, FlowKeyMerge(FlowKey, x), {}, FlowKeyFields)
    BY <1>2, FlowKeyWrites
  <2> QED
    BY <2>1, FlowKeyMergeEmpty
<1>4. Reads(FlowKeyStep, x, c, FlowKeyMerge(x, y), {}, FlowKeyFields)
  BY FlowKeyWrites
<1> HIDE DEF b, c
<1>5. Reads(FlowKeyStep, FlowKey, b \o c, FlowKeyMerge(x, y), {}, FlowKeyFields)
  BY <1>3, <1>4, ReadsThen
<1>6. b \o c \in ByteSeqs
  BY <1>1, ConcatLen
<1>7. Folds(FlowKeyStep, FlowKey, Fields(b \o c), FlowKeyParse(FlowKey, b \o c), {})
  BY <1>2, <1>6, FlowKeyParses
<1>8. FlowKeyParse(FlowKey, b \o c) = FlowKeyMerge(x, y)
  BY <1>5, <1>7, ReadsIsRun
<1> QED
  BY <1>8 DEF b, c

\* The first bytes of a flow key, if they can be read at all, are another one.
THEOREM FlowKeyCutIsAnother ==
  ASSUME NEW y \in FlowKeys,
         NEW n \in 0 .. Len(FlowKeySerialize(y)) - 1,
         FlowKeyReadable(SubSeq(FlowKeySerialize(y), 1, n))
  PROVE  FlowKeyParse(FlowKey, SubSeq(FlowKeySerialize(y), 1, n)) # y
<1> DEFINE b == FlowKeySerialize(y)
           c == SubSeq(b, 1, n)
<1>1. b \in ByteSeqs
  BY FlowKeySize
<1>2. FlowKey \in FlowKeys
  BY FlowKeyEmptyType
<1>3. Reads(FlowKeyStep, FlowKey, b, y, {y}, FlowKeyFields)
  <2>1. Reads(FlowKeyStep, FlowKey, b, FlowKeyMerge(FlowKey, y), {y}, FlowKeyFields)
    BY <1>2, FlowKeyWrites
  <2> QED
    BY <2>1, FlowKeyMergeEmpty
<1>4. FlowKeyReadable(c) /\ n \in 0 .. Len(b) - 1
  OBVIOUS
<1> HIDE DEF b
<1>5. c \in ByteSeqs
  BY <1>1, <1>4, CutInTwo DEF ByteSeqs
<1> HIDE DEF c
<1>6. NoneMalformed(Fields(c))
  <2>1. Fields(c) \in Seq(Parts)
    BY <1>5, FieldsIs
  <2>2. \A f \in ToSet(Fields(c)) : f # Malformed
    BY <1>4, FlowKeyReadableIs
  <2>3. \A i \in 1 .. Len(Fields(c)) : Fields(c)[i] \in ToSet(Fields(c))
    BY <2>1 DEF ToSet
  <2> QED
    BY <2>2, <2>3 DEF NoneMalformed
<1>7. Folds(FlowKeyStep, FlowKey, Fields(c), FlowKeyParse(FlowKey, c), {})
  BY <1>2, <1>5, FlowKeyParses
<1>8. FlowKeyParse(FlowKey, c) # y
  BY <1>3, <1>4, <1>6, <1>7, CutReads DEF c
<1> QED
  BY <1>8 DEF b, c
=============================================================================
