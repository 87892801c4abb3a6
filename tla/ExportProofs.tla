---------------------------- MODULE ExportProofs ----------------------------
(* LossAccounted, StreamInFrames, MessagesFaithful and TypeOK of             *)
(* ReportExport, for any packets, any sizes of the queue and of the socket    *)
(* buffer and any number of faults.  A report given to the producer is with   *)
(* the broker, given up by librdkafka or in the queue while the process       *)
(* lives, and only what was in the queue when it ended is lost besides        *)
(* (LossInv).  While both ends of the TCP connection live, what the receiver  *)
(* has read, what the buffers hold and what is left of the writes in progress *)
(* make up the frames of the reports handed over so far (StreamInv).  The     *)
(* report in progress is that of a packet that has come (FaithInv), and the   *)
(* controller finds in a packet-in what the headers and the stack of the      *)
(* packet hold: where each header, hop and field is, and what its bytes are   *)
(* (HeaderIsRead, FieldTaken, HopTaken).                                      *)
EXTENDS ReportExport, WireProofs, SequenceTheorems

Blank == [topic |-> <<>>, key |-> <<>>, value |-> <<>>]
Sent == {m.message : m \in Messages} \cup {Blank}

LossTypes ==
  /\ current \in Sent
  /\ handled \in Seq(Sent) /\ queue \in Seq(Sent)
  /\ Len(queue) <= QueueLimit

LossInv ==
  /\ LossTypes
  /\ Settled \subseteq ToSet(handled) /\ ToSet(queue) \subseteq ToSet(handled)
  /\ pc # "exit" => ToSet(handled) \ Settled \subseteq ToSet(queue)
  /\ pc = "exit" => /\ queue = <<>>
                    /\ Cardinality(ToSet(handled) \ Settled) <= QueueLimit

lossVars == <<current, handled, queue, log, dropped>>

-----------------------------------------------------------------------------
(* The steps. *)

LEMMA ExportConstants == QueueLimit \in Nat \ {0}
BY ExportAssumption

LEMMA LossInit == Init => LossInv
<1> SUFFICES ASSUME Init PROVE LossInv
  OBVIOUS
<1>1. /\ handled = <<>> /\ queue = <<>> /\ Settled = {} /\ pc = "main"
      /\ current = Blank
  BY DEF Init, Blank, Settled
<1>2. ToSet(<<>>) = {} /\ Len(<<>>) = 0 /\ <<>> \in Seq(Sent)
  BY DEF ToSet
<1> QED
  BY <1>1, <1>2, ExportConstants DEF LossInv, LossTypes, Sent

\* A step of a living process that leaves producer and broker alone.
LEMMA LossUnchanged ==
  ASSUME LossInv, UNCHANGED lossVars, pc = "exit" <=> pc' = "exit"
  PROVE  LossInv'
BY DEF LossInv, LossTypes, lossVars, Settled

\* The end of the process: what is in the queue is lost.
LEMMA LossExit == LossInv /\ pc # "exit" /\ Exit => LossInv'
<1> SUFFICES ASSUME LossInv, pc # "exit", Exit PROVE LossInv'
  OBVIOUS
<1>1. /\ pc' = "exit" /\ queue' = <<>>
      /\ handled' = handled /\ Settled' = Settled /\ current' = current
  BY DEF Exit, Settled
<1>2. /\ queue \in Seq(Sent) /\ Len(queue) <= QueueLimit
      /\ ToSet(handled) \ Settled \subseteq ToSet(queue)
  BY DEF LossInv, LossTypes
<1>3. /\ IsFiniteSet(ToSet(queue)) /\ Cardinality(ToSet(queue)) \in Nat
      /\ Cardinality(ToSet(queue)) <= Len(queue)
  BY <1>2, ToSetCardinality
<1>4. /\ Cardinality(ToSet(handled) \ Settled) \in Nat
      /\ Cardinality(ToSet(handled) \ Settled) <= Cardinality(ToSet(queue))
  BY <1>2, <1>3, FS_Subset, FS_CardinalityType
<1>5. Cardinality(ToSet(handled) \ Settled) <= QueueLimit
  BY <1>2, <1>3, <1>4, ExportConstants
<1>6. ToSet(<<>>) = {} /\ Len(<<>>) = 0 /\ <<>> \in Seq(Sent)
  BY DEF ToSet
<1> QED
  BY <1>1, <1>5, <1>6, ExportConstants DEF LossInv, LossTypes

LEMMA LossHandlePacketIn == LossInv /\ HandlePacketIn => LossInv'
<1> SUFFICES ASSUME LossInv, HandlePacketIn PROVE LossInv'
  OBVIOUS
<1>1. /\ pc = "run" /\ pc' # "exit"
      /\ handled' = handled /\ queue' = queue /\ Settled' = Settled
  BY DEF HandlePacketIn, network, Settled
<1>2. current' \in Sent
  BY DEF HandlePacketIn, LossInv, LossTypes, Sent
<1> QED
  BY <1>1, <1>2 DEF LossInv, LossTypes

LEMMA LossProduce == LossInv /\ Produce => LossInv'
<1> SUFFICES ASSUME LossInv, Produce PROVE LossInv'
  OBVIOUS
<1>1. pc = "produce"
  BY DEF Produce
<1>2. CASE Exit
  BY <1>1, <1>2, LossExit
<1>3. CASE ~Exit
  <2>1. /\ Len(queue) < QueueLimit
        /\ queue' = Append(queue, current) /\ handled' = Append(handled, current)
        /\ pc' # "exit" /\ current' = current /\ Settled' = Settled
    BY <1>3 DEF Produce, Settled
  <2>2. /\ current \in Sent /\ handled \in Seq(Sent) /\ queue \in Seq(Sent)
        /\ Settled \subseteq ToSet(handled) /\ ToSet(queue) \subseteq ToSet(handled)
        /\ ToSet(handled) \ Settled \subseteq ToSet(queue)
    BY <1>1 DEF LossInv, LossTypes
  <2>3. /\ queue' \in Seq(Sent) /\ handled' \in Seq(Sent)
        /\ Len(queue') <= QueueLimit
    BY <2>1, <2>2, ExportConstants
  <2>4. /\ ToSet(queue') = ToSet(queue) \cup {current}
        /\ ToSet(handled') = ToSet(handled) \cup {current}
    BY <2>1, <2>2, ToSetAppend
  <2>5. /\ Settled' \subseteq ToSet(handled') /\ ToSet(queue') \subseteq ToSet(handled')
        /\ ToSet(handled') \ Settled' \subseteq ToSet(queue')
    BY <2>1, <2>2, <2>4
  <2> QED
    BY <2>1, <2>2, <2>3, <2>5 DEF LossInv, LossTypes
<1> QED
  BY <1>2, <1>3

\* After the end nothing is in the queue that could be delivered.
LEMMA QueueAlive == LossInv /\ DOMAIN queue # {} => pc # "exit"
BY DEF LossInv

\* A message leaves the queue, with one fate or the other.
LEMMA LossLeaves ==
  ASSUME LossInv, NEW i \in DOMAIN queue,
         queue' = RemoveAt(queue, i), Settled' = Settled \cup {queue[i]},
         UNCHANGED <<pc, current, handled>>
  PROVE  LossInv'
<1>1. pc # "exit"
  BY QueueAlive
<1>2. /\ current \in Sent /\ handled \in Seq(Sent) /\ queue \in Seq(Sent)
      /\ Len(queue) \in Nat /\ Len(queue) <= QueueLimit
      /\ Settled \subseteq ToSet(handled) /\ ToSet(queue) \subseteq ToSet(handled)
      /\ ToSet(handled) \ Settled \subseteq ToSet(queue)
  BY <1>1 DEF LossInv, LossTypes
<1>3. /\ queue' \in Seq(Sent) /\ Len(queue') = Len(queue) - 1
      /\ ToSet(queue') \subseteq ToSet(queue)
      /\ ToSet(queue) \subseteq ToSet(queue') \cup {queue[i]}
  BY <1>2, ToSetRemoveAt
<1>4. queue[i] \in ToSet(queue)
  BY DEF ToSet
<1>5. Len(queue') <= QueueLimit
  BY <1>2, <1>3, ExportConstants
<1>6. /\ Settled' \subseteq ToSet(handled) /\ ToSet(queue') \subseteq ToSet(handled)
      /\ ToSet(handled) \ Settled' \subseteq ToSet(queue')
  BY <1>2, <1>3, <1>4
<1> QED
  BY <1>1, <1>2, <1>3, <1>5, <1>6 DEF LossInv, LossTypes

LEMMA LossDeliverUnacknowledged ==
  ASSUME LossInv, NEW i \in DOMAIN queue, DeliverUnacknowledged(i) PROVE LossInv'
<1>1. /\ Settled' = Settled \cup {queue[i]} /\ queue' = queue
      /\ handled' = handled /\ current' = current /\ pc' = pc /\ pc # "exit"
  BY QueueAlive DEF DeliverUnacknowledged, process, Settled
<1>2. queue[i] \in ToSet(queue)
  BY DEF ToSet
<1> QED
  BY <1>1, <1>2 DEF LossInv, LossTypes

LEMMA LossController == LossInv /\ Controller => LossInv'
<1> SUFFICES ASSUME LossInv, Controller PROVE LossInv'
  OBVIOUS
<1>1. CASE Main
  <2>1. pc # "exit"
    BY <1>1 DEF Main
  <2>2. CASE ~Exit
    BY <1>1, <2>2, LossUnchanged DEF Main, network, lossVars
  <2> QED
    BY <2>1, <2>2, LossExit
<1>2. CASE Construct
  <2>1. pc # "exit"
    BY <1>2 DEF Construct
  <2>2. CASE ~Exit
    BY <1>2, <2>2, LossUnchanged DEF Construct, network, lossVars
  <2> QED
    BY <2>1, <2>2, LossExit
<1>3. CASE HandlePacketIn
  BY <1>3, LossHandlePacketIn
<1>4. CASE HandlePacketInTraps
  BY <1>4, LossExit DEF HandlePacketInTraps
<1>5. CASE Produce
  BY <1>5, LossProduce
<1>6. ASSUME NextWrite PROVE pc' # "exit"
  BY <1>6 DEF NextWrite
<1>7. CASE Write
  <2>1. UNCHANGED lossVars /\ pc # "exit"
    BY <1>7 DEF Write, lossVars
  <2>2. pc' # "exit"
    BY <1>6, <1>7, <2>1 DEF Write
  <2> QED
    BY <2>1, <2>2, LossUnchanged
<1>8. CASE WriteFails
  <2>1. pc # "exit"
    BY <1>8 DEF WriteFails
  <2>2. CASE ~Exit
    BY <1>6, <1>8, <2>2, LossUnchanged DEF WriteFails, network, lossVars
  <2> QED
    BY <2>1, <2>2, LossExit
<1>9. CASE WriteSkipped
  BY <1>6, <1>9, LossUnchanged DEF WriteSkipped, network, lossVars
<1> QED
  BY <1>1, <1>2, <1>3, <1>4, <1>5, <1>7, <1>8, <1>9 DEF Controller

LEMMA LossNetwork == LossInv /\ Network => LossInv'
<1> SUFFICES ASSUME LossInv, Network PROVE LossInv'
  OBVIOUS
<1>1. ASSUME NEW i \in DOMAIN queue, Deliver(i) \/ Expire(i) \/ Refuse(i) PROVE LossInv'
  <2>1. /\ queue' = RemoveAt(queue, i) /\ Settled' = Settled \cup {queue[i]}
        /\ UNCHANGED <<pc, current, handled>>
    BY <1>1 DEF Deliver, Expire, Refuse, process, Settled
  <2> QED
    BY <2>1, LossLeaves
<1>2. CASE \E i \in DOMAIN queue : DeliverUnacknowledged(i)
  BY <1>2, LossDeliverUnacknowledged
<1>3. CASE BrokerFails \/ BrokerReturns \/ Receive \/ ReceiverLeaves
  BY <1>3, LossUnchanged
  DEF BrokerFails, BrokerReturns, Receive, ReceiverLeaves, process, lossVars
<1> QED
  BY <1>1, <1>2, <1>3 DEF Network, Delivery

LEMMA LossStep == LossInv /\ [Next]_vars => LossInv'
<1> SUFFICES ASSUME LossInv, [Next]_vars PROVE LossInv'
  OBVIOUS
<1>1. CASE Controller
  BY <1>1, LossController
<1>2. CASE RunReturns
  BY <1>2, LossExit DEF RunReturns
<1>3. CASE Network
  BY <1>3, LossNetwork
<1>4. CASE \E clone \in Clones : PacketArrives(clone)
  BY <1>4, LossUnchanged DEF PacketArrives, process, network, lossVars
<1>5. CASE \E b \in Others : OtherArrives(b)
  BY <1>5, LossUnchanged DEF OtherArrives, process, network, lossVars
<1>6. CASE UNCHANGED vars
  BY <1>6, LossUnchanged DEF vars, process, network, lossVars
<1> QED
  BY <1>1, <1>2, <1>3, <1>4, <1>5, <1>6 DEF Next

-----------------------------------------------------------------------------
\* While the process lives at most the queue separates what was produced from
\* what has a fate; at the end that is the bound of what has none.
LEMMA LossImplied == LossInv => LossAccounted
<1> DEFINE missing == ToSet(handled) \ Settled
<1> SUFFICES ASSUME LossInv PROVE LossAccounted
  OBVIOUS
<1>1. Settled \subseteq ToSet(handled)
  BY DEF LossInv
<1>2. CASE pc = "exit"
  BY <1>1, <1>2 DEF LossInv, LossAccounted
<1>3. CASE pc # "exit"
  <2>1. queue \in Seq(Sent) /\ Len(queue) <= QueueLimit /\ missing \subseteq ToSet(queue)
    BY <1>3 DEF LossInv, LossTypes
  <2> HIDE DEF missing
  <2>2. /\ IsFiniteSet(ToSet(queue)) /\ Cardinality(ToSet(queue)) \in Nat
        /\ Cardinality(ToSet(queue)) <= Len(queue)
    BY <2>1, ToSetCardinality
  <2>3. /\ Cardinality(missing) \in Nat
        /\ Cardinality(missing) <= Cardinality(ToSet(queue))
    BY <2>1, <2>2, FS_Subset, FS_CardinalityType
  <2>4. Cardinality(missing) <= QueueLimit
    BY <2>1, <2>2, <2>3, ExportConstants
  <2> QED
    BY <1>1, <2>1, <2>4 DEF LossAccounted, missing
<1> QED
  BY <1>2, <1>3

\* kafkaProducer.cpp gives every report to the producer, which nobody flushes
\* (main.cpp).  Whatever the broker refuses and however long its outages are, a
\* living controller loses no report itself: what neither the broker has nor
\* librdkafka has given up is in the queue, and when the process ends no more than
\* a queue is lost with it.
THEOREM LossAccountedHolds == Spec => []LossAccounted
<1>1. Init => LossInv
  BY LossInit
<1>2. LossInv /\ [Next]_vars => LossInv'
  BY LossStep
<1>3. LossInv => LossAccounted
  BY LossImplied
<1> QED
  BY <1>1, <1>2, <1>3, PTL DEF Spec

-----------------------------------------------------------------------------
(* The folds of the controller: sums, numbers read from digits, the fields of *)
(* a hop and the hops of a stack.                                             *)

\* One step of each: c is the base of the numeral or the payload.
FoldStep(kind, c, x, f) ==
  CASE kind = "sum"     -> x + f
    [] kind = "numeral" -> c * x + f
    [] kind = "field"   -> TakeAsked(c, x, f)
    [] kind = "hop"     -> AddHop(c, x)

\* g has the values of such a fold after 0 .. n elements.
Run(g, kind, c, x, fs, n) ==
  g[0] = x /\ \A k \in 1 .. n : g[k] = FoldStep(kind, c, g[k - 1], fs[k])

\* The recursion FoldLeft is defined by.
Solves(v, kind, c, x, fs, D) ==
  v = [s \in SUBSET D |-> IF s = {} THEN x
                          ELSE FoldStep(kind, c, v[s \ {Max(s)}], fs[Max(s)])]

\* It has a solution, whatever the step is: the largest element is added last.
LEMMA SolutionExists ==
  ASSUME NEW kind, NEW c, NEW x, NEW fs, NEW n \in Nat
  PROVE  \E v : Solves(v, kind, c, x, fs, 1 .. n)
<1> DEFINE T == {m \in Nat : \E v : Solves(v, kind, c, x, fs, 1 .. m)}
<1>1. 0 \in T
  <2> DEFINE v == [s \in SUBSET (1 .. 0) |-> x]
  <2>1. 1 .. 0 = {} /\ \A s \in SUBSET (1 .. 0) : s = {}
    OBVIOUS
  <2>2. Solves(v, kind, c, x, fs, 1 .. 0)
    BY <2>1 DEF Solves
  <2> QED
    BY <2>2
<1>2. ASSUME NEW m \in Nat \ {0}, m - 1 \in T PROVE m \in T
  <2> DEFINE D == 1 .. m - 1
             E == 1 .. m
  <2>1. PICK v : Solves(v, kind, c, x, fs, D)
    BY <1>2
  <2>2. \A s \in SUBSET D : v[s] = IF s = {} THEN x
                                   ELSE FoldStep(kind, c, v[s \ {Max(s)}], fs[Max(s)])
    BY <2>1 DEF Solves
  <2> DEFINE w == [s \in SUBSET E |-> IF m \in s THEN FoldStep(kind, c, v[s \ {m}], fs[m])
                                      ELSE v[s]]
  <2>3. /\ \A s \in SUBSET E : m \notin s => s \in SUBSET D
        /\ \A s \in SUBSET E : s \ {m} \in SUBSET D /\ m \notin s \ {m}
        /\ \A s \in SUBSET D : s \in SUBSET E /\ m \notin s
        /\ m \in Nat
    OBVIOUS
  <2>4. \A s \in SUBSET D : w[s] = v[s]
    BY <2>3
  <2>5. ASSUME NEW s \in SUBSET E
        PROVE  w[s] = IF s = {} THEN x ELSE FoldStep(kind, c, w[s \ {Max(s)}], fs[Max(s)])
    <3>1. CASE m \in s
      <4>1. Max(s) \in s /\ \A y \in s : Max(s) >= y
        BY <3>1, <2>3, MaxOf
      <4>2. Max(s) = m
        <5>1. Max(s) \in 1 .. m /\ Max(s) >= m
          BY <4>1, <3>1
        <5> QED
          BY <5>1
      <4>3. w[s \ {m}] = v[s \ {m}]
        BY <2>3, <2>4
      <4>4. w[s] = FoldStep(kind, c, v[s \ {m}], fs[m])
        BY <3>1
      <4> HIDE DEF w
      <4> QED
        BY <4>2, <4>3, <4>4, <3>1
    <3>2. CASE m \notin s
      <4>1. s \in SUBSET D /\ s \ {Max(s)} \in SUBSET D
        BY <3>2, <2>3
      <4>2. w[s] = v[s] /\ w[s \ {Max(s)}] = v[s \ {Max(s)}]
        BY <4>1, <2>4
      <4> HIDE DEF w
      <4> QED
        BY <4>1, <4>2, <2>2
    <3> QED
      BY <3>1, <3>2
  <2>6. w = [s \in SUBSET E |-> w[s]]
    OBVIOUS
  <2> HIDE DEF w
  <2>7. Solves(w, kind, c, x, fs, E)
    BY <2>5, <2>6 DEF Solves
  <2> QED
    BY <2>7
<1> HIDE DEF T
<1>3. Nat \subseteq T
  BY <1>1, <1>2, NatSetInduction
<1> QED
  BY <1>3 DEF T

\* The value of the fold, as FoldLeft has it.
FoldOf(kind, c, x, fs) ==
  (CHOOSE v : Solves(v, kind, c, x, fs, DOMAIN fs))[DOMAIN fs]

\* The folds of the model, as values of FoldOf.
LEMMA SumOfIs ==
  ASSUME NEW s PROVE SumOf(s) = FoldOf("sum", 0, 0, s)
  BY DEF SumOf, FoldLeft, MapThenFoldSet, FoldOf, Solves, FoldStep

LEMMA NumeralIs ==
  ASSUME NEW d, NEW base PROVE Numeral(d, base) = FoldOf("numeral", base, 0, d)
  BY DEF Numeral, FoldLeft, MapThenFoldSet, FoldOf, Solves, FoldStep

LEMMA TakeFieldsIs ==
  ASSUME NEW b, NEW x
  PROVE  FoldLeft(LAMBDA acc, f : TakeAsked(b, acc, f), x, StackFields)
           = FoldOf("field", b, x, StackFields)
  BY DEF FoldLeft, MapThenFoldSet, FoldOf, Solves, FoldStep

LEMMA AddHopsIs ==
  ASSUME NEW b, NEW x, NEW s
  PROVE  FoldLeft(LAMBDA acc, i : AddHop(b, acc), x, s) = FoldOf("hop", b, x, s)
  BY DEF FoldLeft, MapThenFoldSet, FoldOf, Solves, FoldStep

\* A fold is the end of a run, and of every run.
LEMMA FoldOfRuns ==
  ASSUME NEW kind, NEW c, NEW x, NEW fs, NEW n \in Nat, DOMAIN fs = 1 .. n
  PROVE  \E g : Run(g, kind, c, x, fs, n) /\ FoldOf(kind, c, x, fs) = g[n]
<1> DEFINE D == 1 .. n
           v == CHOOSE v : Solves(v, kind, c, x, fs, D)
           g == [k \in 0 .. n |-> v[1 .. k]]
<1>1. Solves(v, kind, c, x, fs, D)
  BY SolutionExists
<1>2. FoldOf(kind, c, x, fs) = v[D]
  BY DEF FoldOf
<1> HIDE DEF v
<1>3. \A s \in SUBSET D : v[s] = IF s = {} THEN x
                                 ELSE FoldStep(kind, c, v[s \ {Max(s)}], fs[Max(s)])
  BY <1>1 DEF Solves
<1>4. 1 .. 0 = {} /\ {} \in SUBSET D /\ 0 \in 0 .. n /\ n \in 0 .. n
  OBVIOUS
<1>5. g[0] = x /\ g[n] = v[D]
  BY <1>3, <1>4
<1>6. ASSUME NEW k \in 1 .. n PROVE g[k] = FoldStep(kind, c, g[k - 1], fs[k])
  <2>1. /\ 1 .. k \in SUBSET D /\ 1 .. k # {} /\ Max(1 .. k) = k
        /\ (1 .. k) \ {k} = 1 .. k - 1
    BY EndsOfInterval
  <2>2. g[k] = v[1 .. k] /\ g[k - 1] = v[1 .. k - 1]
    OBVIOUS
  <2> HIDE DEF g
  <2> QED
    BY <2>1, <2>2, <1>3
<1>7. Run(g, kind, c, x, fs, n)
  BY <1>5, <1>6 DEF Run
<1> QED
  BY <1>2, <1>5, <1>7

\* Whatever runs from the same start over the same sequence ends there.
LEMMA FoldOfIs ==
  ASSUME NEW kind, NEW c, NEW x, NEW fs, NEW n \in Nat, DOMAIN fs = 1 .. n,
         NEW g, Run(g, kind, c, x, fs, n)
  PROVE  FoldOf(kind, c, x, fs) = g[n]
<1>1. PICK h : Run(h, kind, c, x, fs, n) /\ FoldOf(kind, c, x, fs) = h[n]
  BY FoldOfRuns
<1> DEFINE T == {k \in Nat : k <= n => g[k] = h[k]}
<1>2. 0 \in T
  BY <1>1 DEF Run
<1>3. ASSUME NEW k \in Nat \ {0}, k - 1 \in T PROVE k \in T
  <2>1. SUFFICES ASSUME k <= n PROVE g[k] = h[k]
    OBVIOUS
  <2>2. k \in 1 .. n /\ g[k - 1] = h[k - 1]
    BY <2>1, <1>3
  <2> QED
    BY <2>2, <1>1 DEF Run
<1>4. n \in T
  <2> HIDE DEF T
  <2> QED
    BY <1>2, <1>3, NatSetInduction
<1> QED
  BY <1>1, <1>4
-----------------------------------------------------------------------------
(* Numbers on the wire. *)

\* The digits of a numeral are those of a number in the opposite order.
LEMMA NumeralOfReverse ==
  ASSUME NEW d \in Seq(Nat)
  PROVE  Numeral(Reverse(d), 256) = Number(d, 256)
<1> DEFINE n == Len(d)
           r == Reverse(d)
<1>1. PICK g : NumberTails(g, d, 256) /\ Number(d, 256) = g[0]
  BY NumberIs
<1>2. /\ g[n] = 0 /\ \A i \in 1 .. n : g[i - 1] = d[i] + 256 * g[i]
      /\ \A i \in 0 .. n : g[i] \in Nat
  BY <1>1 DEF NumberTails
<1>3. n \in Nat /\ \A i \in 1 .. n : d[i] \in Nat
  OBVIOUS
<1>4. DOMAIN r = 1 .. n /\ \A k \in 1 .. n : r[k] = d[n - k + 1]
  BY <1>3 DEF Reverse
<1> DEFINE h == [k \in 0 .. n |-> g[n - k]]
<1>5. /\ h[0] = g[n] /\ h[n] = g[0]
      /\ \A k \in 1 .. n : h[k] = g[n - k] /\ h[k - 1] = g[n - k + 1]
  <2>1. /\ 0 \in 0 .. n /\ n \in 0 .. n /\ n - 0 = n /\ n - n = 0
        /\ \A k \in 1 .. n : k \in 0 .. n /\ k - 1 \in 0 .. n /\ n - (k - 1) = n - k + 1
    BY <1>3
  <2> QED
    BY <2>1
<1> HIDE DEF h, r, n
<1>6. ASSUME NEW k \in 1 .. n PROVE h[k] = 256 * h[k - 1] + r[k]
  <2> DEFINE i == n - k + 1
  <2>1. i \in 1 .. n /\ i \in 0 .. n /\ i - 1 = n - k
    BY <1>3
  <2>2. g[i - 1] = d[i] + 256 * g[i] /\ g[i] \in Nat /\ d[i] \in Nat
    BY <2>1, <1>2, <1>3
  <2>3. h[k] = g[i - 1] /\ h[k - 1] = g[i] /\ r[k] = d[i]
    BY <2>1, <1>4, <1>5
  <2> HIDE DEF i
  <2> QED
    BY <2>2, <2>3
<1>7. Run(h, "numeral", 256, 0, r, n)
  BY <1>2, <1>5, <1>6 DEF Run, FoldStep
<1>8. Numeral(r, 256) = h[n]
  BY <1>3, <1>4, <1>7, NumeralIs, FoldOfIs
<1> QED
  BY <1>1, <1>5, <1>8 DEF r

\* toBitstring writes the digits of a number, the highest first.
LEMMA BitstringIs ==
  ASSUME NEW n \in Nat, NEW k \in Nat
  PROVE  /\ toBitstring(k, n) = Reverse(Digits(n, 256, k))
         /\ toBitstring(k, n) \in ByteSeqs /\ Len(toBitstring(k, n)) = k
         /\ \A i \in 1 .. k : toBitstring(k, n)[i] = Digits(n, 256, k)[k - i + 1]
<1> DEFINE d == Digits(n, 256, k)
<1>1. toBitstring(k, n) = Reverse(d)
  BY DEF toBitstring, Digits
<1>2. d \in ByteSeqs /\ Len(d) = k
  BY DigitsBytes
<1> HIDE DEF d
<1>3. Reverse(d) = [i \in 1 .. k |-> d[k - i + 1]]
  BY <1>2 DEF Reverse
<1>4. ASSUME NEW i \in 1 .. k PROVE d[k - i + 1] \in 0 .. 255
  <2>1. k - i + 1 \in 1 .. Len(d)
    BY <1>2
  <2> QED
    BY <2>1, <1>2, ByteAt
<1>5. Reverse(d) \in ByteSeqs /\ Len(Reverse(d)) = k
  BY <1>3, <1>4 DEF ByteSeqs
<1> QED
  BY <1>1, <1>3, <1>5 DEF d

\* What k bytes hold is read back from them.
LEMMA BitstringReadsBack ==
  ASSUME NEW k \in Nat, NEW n \in Fixed(k)
  PROVE  Numeral(toBitstring(k, n), 256) = n
<1>1. n \in Nat /\ Number(Digits(n, 256, k), 256) = n
  BY DEF Fixed
<1>2. Digits(n, 256, k) \in Seq(Nat)
  <2>1. Digits(n, 256, k) \in Seq(0 .. 255) /\ 0 .. 255 \subseteq Nat
    BY <1>1, DigitsBytes DEF ByteSeqs
  <2> HIDE DEF Fixed
  <2> QED
    BY <2>1, SeqMonotonic
<1> QED
  BY <1>1, <1>2, BitstringIs, NumeralOfReverse

\* Two bytes are sixteen bits.
LEMMA TwoBytes ==
  ASSUME NEW n \in Nat
  PROVE  (n \div 256) \div 256 = n \div 65536 /\ n \div 65536 \in Nat /\ n \div 256 \in Nat
  OBVIOUS

\* A number of 16 bits has one word.
LEMMA NoSecondWord ==
  ASSUME NEW n, Fits16(n)
  PROVE  n \in Nat /\ n \div 65536 = 0
BY DEF Fits16

\* Two digits to the base 256 are one word.
LEMMA EveryOtherQuotient ==
  ASSUME NEW n \in Nat, NEW k \in Nat, NEW q, Quotients(q, n, 256, k)
  PROVE  q[0] = n /\ \A i \in 0 .. k : i + 2 <= k => q[i + 2] = q[i] \div 65536
<1>1. /\ q[0] = n /\ \A i \in 1 .. k : q[i] = q[i - 1] \div 256
      /\ \A i \in 0 .. k : q[i] \in Nat
  BY DEF Quotients
<1>2. ASSUME NEW i \in 0 .. k, i + 2 <= k PROVE q[i + 2] = q[i] \div 65536
  <2>1. i + 1 \in 1 .. k /\ i + 2 \in 1 .. k /\ i + 1 - 1 = i /\ i + 2 - 1 = i + 1
    BY <1>2
  <2>2. q[i + 2] = q[i + 1] \div 256 /\ q[i + 1] = q[i] \div 256 /\ q[i] \in Nat
    BY <2>1, <1>1
  <2> QED
    BY <2>2, TwoBytes
<1> QED
  BY <1>1, <1>2

\* The digits of a number whose last quotient is zero are all of them.
LEMMA EnoughDigits ==
  ASSUME NEW n \in Nat, NEW k \in Nat,
         \A q : Quotients(q, n, 256, k) => q[k] = 0
  PROVE  n \in Fixed(k)
<1>1. 256 \in Bases
  BY DEF Bases
<1>2. PICK q : Quotients(q, n, 256, k) /\ DigitsFrom(q, n, 256, k)
  BY <1>1, DigitsAre
<1> QED
  BY <1>1, <1>2, NumberOfDigits DEF Fixed

\* A number of so many bits fits in the bytes these make, and in more.
LEMMA FitsWider ==
  ASSUME NEW n
  PROVE  /\ Fits16(n) => Fits32(n) /\ n \in Nat
         /\ Fits32(n) => Fits48(n) /\ n \in Nat
         /\ Fits48(n) => Fits64(n) /\ n \in Nat
         /\ Fits64(n) => n \in Nat
<1>1. ASSUME NEW m, Fits16(m) PROVE Fits32(m) /\ m \in Nat
  <2>1. m \in Nat /\ m \div 65536 = 0
    BY <1>1, NoSecondWord
  <2> QED
    BY <2>1 DEF Fits32, Fits16
<1>2. ASSUME NEW m, Fits32(m) PROVE Fits48(m) /\ m \in Nat
  BY <1>1, <1>2 DEF Fits32, Fits48
<1>3. ASSUME NEW m, Fits48(m) PROVE Fits64(m) /\ m \in Nat
  BY <1>2, <1>3 DEF Fits48, Fits64
<1> QED
  BY <1>1, <1>2, <1>3 DEF Fits64

\* The widths of the fields are widths of numbers on the wire.
LEMMA FitsFixed ==
  ASSUME NEW n
  PROVE  /\ Fits16(n) => n \in Fixed(2)
         /\ Fits32(n) => n \in Fixed(4)
         /\ Fits48(n) => n \in Fixed(6)
         /\ Fits64(n) => n \in Fixed(8)
<1>1. ASSUME NEW m, Fits16(m) PROVE m \in Nat /\ m \div 65536 = 0
  BY <1>1, NoSecondWord
<1>2. ASSUME Fits16(n) PROVE n \in Fixed(2)
  <2>1. n \in Nat /\ n \div 65536 = 0
    BY <1>1, <1>2
  <2>2. ASSUME NEW q, Quotients(q, n, 256, 2) PROVE q[2] = 0
    BY <2>1, <2>2, EveryOtherQuotient
  <2> QED
    BY <2>1, <2>2, EnoughDigits
<1>3. ASSUME Fits32(n) PROVE n \in Fixed(4)
  <2>1. n \in Nat /\ (n \div 65536) \div 65536 = 0
    BY <1>1, <1>3 DEF Fits32
  <2>2. ASSUME NEW q, Quotients(q, n, 256, 4) PROVE q[4] = 0
    <3>1. q[0] = n /\ q[0 + 2] = q[0] \div 65536 /\ q[2 + 2] = q[2] \div 65536
      BY <2>1, <2>2, EveryOtherQuotient
    <3> QED
      BY <3>1, <2>1
  <2> QED
    BY <2>1, <2>2, EnoughDigits
<1>4. ASSUME Fits48(n) PROVE n \in Fixed(6)
  <2>1. n \in Nat /\ ((n \div 65536) \div 65536) \div 65536 = 0
    BY <1>1, <1>4 DEF Fits48, Fits32
  <2>2. ASSUME NEW q, Quotients(q, n, 256, 6) PROVE q[6] = 0
    <3>1. /\ q[0] = n /\ q[0 + 2] = q[0] \div 65536 /\ q[2 + 2] = q[2] \div 65536
          /\ q[4 + 2] = q[4] \div 65536
      BY <2>1, <2>2, EveryOtherQuotient
    <3> QED
      BY <3>1, <2>1
  <2> QED
    BY <2>1, <2>2, EnoughDigits
<1>5. ASSUME Fits64(n) PROVE n \in Fixed(8)
  <2>1. n \in Nat /\ (((n \div 65536) \div 65536) \div 65536) \div 65536 = 0
    BY <1>1, <1>5 DEF Fits64, Fits48, Fits32
  <2>2. ASSUME NEW q, Quotients(q, n, 256, 8) PROVE q[8] = 0
    <3>1. /\ q[0] = n /\ q[0 + 2] = q[0] \div 65536 /\ q[2 + 2] = q[2] \div 65536
          /\ q[4 + 2] = q[4] \div 65536 /\ q[6 + 2] = q[6] \div 65536
      BY <2>1, <2>2, EveryOtherQuotient
    <3> QED
      BY <3>1, <2>1
  <2> QED
    BY <2>1, <2>2, EnoughDigits
<1> QED
  BY <1>2, <1>3, <1>4, <1>5

\* A number is a natural one if its digits are.
LEMMA NumeralType ==
  ASSUME NEW d \in Seq(Nat), NEW base \in Nat
  PROVE  Numeral(d, base) \in Nat
<1> DEFINE n == Len(d)
<1>1. n \in Nat /\ DOMAIN d = 1 .. n /\ \A i \in 1 .. n : d[i] \in Nat
  OBVIOUS
<1>2. PICK g : Run(g, "numeral", base, 0, d, n) /\ FoldOf("numeral", base, 0, d) = g[n]
  BY <1>1, FoldOfRuns
<1>3. g[0] = 0 /\ \A k \in 1 .. n : g[k] = base * g[k - 1] + d[k]
  BY <1>2 DEF Run, FoldStep
<1> DEFINE T == {k \in Nat : k <= n => g[k] \in Nat}
<1>4. 0 \in T
  BY <1>3
<1>5. ASSUME NEW k \in Nat \ {0}, k - 1 \in T PROVE k \in T
  <2>1. SUFFICES ASSUME k <= n PROVE g[k] \in Nat
    OBVIOUS
  <2>2. k \in 1 .. n /\ g[k - 1] \in Nat
    BY <2>1, <1>1, <1>5
  <2>3. base * g[k - 1] \in Nat /\ d[k] \in Nat
    BY <2>2, <1>1
  <2>4. g[k] = base * g[k - 1] + d[k]
    BY <2>2, <1>3
  <2> QED
    BY <2>3, <2>4
<1>6. n \in T
  <2> HIDE DEF T
  <2> QED
    BY <1>1, <1>4, <1>5, NatSetInduction
<1> QED
  BY <1>1, <1>2, <1>6, NumeralIs
-----------------------------------------------------------------------------
(* Where the controller finds what the headers hold. *)

\* A string of n bytes, and a string x at pos of another one.
Block(b, n) == b \in ByteSeqs /\ Len(b) = n
Part(b, pos, x) ==
  /\ b \in ByteSeqs /\ x \in ByteSeqs /\ pos \in Nat /\ pos + Len(x) <= Len(b)
  /\ \A i \in 1 .. Len(x) : b[pos + i] = x[i]

\* Strings of known lengths one after the other.
LEMMA BlockJoins ==
  ASSUME NEW a, NEW b, NEW m, NEW n, Block(a, m), Block(b, n)
  PROVE  Block(a \o b, m + n) /\ m \in Nat /\ n \in Nat
<1>1. a \in ByteSeqs /\ b \in ByteSeqs /\ Len(a) = m /\ Len(b) = n
  BY DEF Block
<1>2. /\ a \o b \in ByteSeqs /\ Len(a \o b) = Len(a) + Len(b)
      /\ Len(a) \in Nat /\ Len(b) \in Nat
  BY ONLY <1>1, ConcatLen
<1> QED
  BY ONLY <1>1, <1>2 DEF Block

\* A string is part of itself, of what it begins and of what it ends.
LEMMA PartWhole ==
  ASSUME NEW b \in ByteSeqs
  PROVE  Part(b, 0, b)
<1>1. Len(b) \in Nat
  BY ByteAt
<1>2. 0 + Len(b) <= Len(b) /\ \A i \in 1 .. Len(b) : 0 + i = i
  BY <1>1
<1> QED
  BY <1>2 DEF Part

LEMMA PartLeft ==
  ASSUME NEW a, NEW b \in ByteSeqs, NEW pos, NEW x, Part(a, pos, x)
  PROVE  Part(a \o b, pos, x)
<1>1. /\ a \in ByteSeqs /\ x \in ByteSeqs /\ pos \in Nat /\ pos + Len(x) <= Len(a)
      /\ \A i \in 1 .. Len(x) : a[pos + i] = x[i]
  BY DEF Part
<1>2. /\ a \o b \in ByteSeqs /\ Len(a \o b) = Len(a) + Len(b) /\ Len(a) \in Nat /\ Len(b) \in Nat
      /\ \A i \in 1 .. Len(a) : (a \o b)[i] = a[i]
  BY <1>1, ConcatBytes
<1>3. Len(x) \in Nat
  BY <1>1, ByteAt
<1>4. \A i \in 1 .. Len(x) : pos + i \in 1 .. Len(a)
  BY <1>1, <1>2, <1>3
<1>5. \A i \in 1 .. Len(x) : (a \o b)[pos + i] = x[i]
  BY <1>1, <1>2, <1>4
<1>6. pos + Len(x) <= Len(a \o b)
  BY <1>1, <1>2, <1>3
<1> QED
  BY <1>1, <1>2, <1>5, <1>6 DEF Part

LEMMA PartRight ==
  ASSUME NEW a, NEW m, Block(a, m), NEW b, NEW pos, NEW x, Part(b, pos, x)
  PROVE  Part(a \o b, m + pos, x)
<1>1. /\ b \in ByteSeqs /\ x \in ByteSeqs /\ pos \in Nat /\ pos + Len(x) <= Len(b)
      /\ \A i \in 1 .. Len(x) : b[pos + i] = x[i]
      /\ a \in ByteSeqs /\ Len(a) = m
  BY DEF Part, Block
<1>2. /\ a \o b \in ByteSeqs /\ Len(a \o b) = Len(a) + Len(b) /\ Len(a) \in Nat /\ Len(b) \in Nat
      /\ \A i \in 1 .. Len(b) : (a \o b)[Len(a) + i] = b[i]
  BY <1>1, ConcatBytes
<1>3. Len(x) \in Nat
  BY <1>1, ByteAt
<1>4. \A i \in 1 .. Len(x) : pos + i \in 1 .. Len(b) /\ m + pos + i = Len(a) + (pos + i)
  BY <1>1, <1>2, <1>3
<1>5. \A i \in 1 .. Len(x) : (a \o b)[m + pos + i] = x[i]
  BY <1>1, <1>2, <1>4
<1>6. m + pos \in Nat /\ m + pos + Len(x) <= Len(a \o b)
  BY <1>1, <1>2, <1>3
<1> QED
  BY <1>1, <1>2, <1>5, <1>6 DEF Part

\* And a part of a part.
LEMMA PartOfPart ==
  ASSUME NEW b, NEW pos, NEW x, NEW at, NEW y, Part(b, pos, x), Part(x, at, y)
  PROVE  Part(b, pos + at, y)
<1>1. /\ b \in ByteSeqs /\ x \in ByteSeqs /\ pos \in Nat /\ pos + Len(x) <= Len(b)
      /\ \A i \in 1 .. Len(x) : b[pos + i] = x[i]
      /\ y \in ByteSeqs /\ at \in Nat /\ at + Len(y) <= Len(x)
      /\ \A i \in 1 .. Len(y) : x[at + i] = y[i]
  BY DEF Part
<1>2. Len(b) \in Nat /\ Len(x) \in Nat /\ Len(y) \in Nat
  BY <1>1, ByteAt
<1>3. \A i \in 1 .. Len(y) : at + i \in 1 .. Len(x) /\ pos + at + i = pos + (at + i)
  BY <1>1, <1>2
<1>4. \A i \in 1 .. Len(y) : b[pos + at + i] = y[i]
  BY <1>1, <1>3
<1>5. pos + at \in Nat /\ pos + at + Len(y) <= Len(b)
  BY <1>1, <1>2
<1> QED
  BY <1>1, <1>4, <1>5 DEF Part

\* The bytes from pos on.
LEMMA BytesElements ==
  ASSUME NEW b \in ByteSeqs, NEW pos \in Nat, NEW n \in Nat, pos + n <= Len(b)
  PROVE  /\ Bytes(b, pos, n) \in ByteSeqs /\ Len(Bytes(b, pos, n)) = n
         /\ \A i \in 1 .. n : Bytes(b, pos, n)[i] = b[pos + i]
<1> DEFINE j == pos + 1
           k == pos + n
<1>1. Len(b) \in Nat
  BY ByteAt
<1>2. /\ j \in Nat \ {0} /\ k \in 0 .. Len(b) /\ j <= k + 1 /\ k - j + 1 = n
      /\ \A i \in 1 .. n : i + j - 1 = pos + i
  BY <1>1
<1>3. Bytes(b, pos, n) = SubSeq(b, j, k)
  BY DEF Bytes
<1> HIDE DEF j, k
<1>4. ASSUME NEW S, b \in Seq(S)
      PROVE  /\ SubSeq(b, j, k) \in Seq(S) /\ Len(SubSeq(b, j, k)) = n
             /\ \A i \in 1 .. n : SubSeq(b, j, k)[i] = b[i + j - 1]
  BY ONLY <1>2, <1>4, SubSeqOf
<1>5. /\ SubSeq(b, j, k) \in ByteSeqs /\ Len(SubSeq(b, j, k)) = n
      /\ \A i \in 1 .. n : SubSeq(b, j, k)[i] = b[i + j - 1]
  BY <1>4 DEF ByteSeqs
<1> QED
  BY <1>2, <1>3, <1>5

\* Reading a part gives the part.
LEMMA PartIsRead ==
  ASSUME NEW b, NEW pos, NEW x, NEW n, Part(b, pos, x), Block(x, n)
  PROVE  Bytes(b, pos, n) = x
<1> DEFINE y == Bytes(b, pos, n)
<1>1. /\ b \in ByteSeqs /\ x \in ByteSeqs /\ pos \in Nat /\ n \in Nat
      /\ pos + n <= Len(b) /\ Len(x) = n
      /\ \A i \in 1 .. n : b[pos + i] = x[i]
  BY ByteAt DEF Part, Block
<1>2. y \in ByteSeqs /\ Len(y) = n /\ \A i \in 1 .. n : y[i] = b[pos + i]
  BY <1>1, BytesElements
<1> HIDE DEF y
<1>3. y = x
  BY <1>1, <1>2, SameSequence DEF ByteSeqs
<1> QED
  BY <1>3 DEF y

\* One byte.
LEMMA PartByte ==
  ASSUME NEW b, NEW pos, NEW v \in 0 .. 255, Part(b, pos, <<v>>)
  PROVE  takeUint8(b, pos) = v
<1>1. Len(<<v>>) = 1 /\ 1 \in 1 .. 1 /\ <<v>>[1] = v
  OBVIOUS
<1> QED
  BY <1>1 DEF Part, takeUint8

\* What is read from within is a part.
LEMMA BytesPart ==
  ASSUME NEW b \in ByteSeqs, NEW pos \in Nat, NEW n \in Nat, pos + n <= Len(b)
  PROVE  Part(b, pos, Bytes(b, pos, n)) /\ Block(Bytes(b, pos, n), n)
BY BytesElements DEF Part, Block

\* Bytes nobody looks at, and numbers.
LEMMA FillBlock ==
  ASSUME NEW n \in Nat
  PROVE  Block(Fill(n), n)
BY DEF Fill, Filler, ByteSeqs, Block

\* A number of k bytes.
LEMMA BitstringBlock ==
  ASSUME NEW n \in Nat, NEW k \in Nat
  PROVE  Block(toBitstring(k, n), k)
BY BitstringIs DEF Block

LEMMA PartOf ==
  ASSUME NEW x, NEW n, Block(x, n)
  PROVE  x \in ByteSeqs /\ Part(x, 0, x)
BY PartWhole DEF Block
-----------------------------------------------------------------------------
\* The headers one after the other.
FirstWord(p) == p.qos * 1048576 + p.flow

\* The common header begins with the word of the flow ID.
LEMMA CommonLayout ==
  ASSUME NEW p, FirstWord(p) \in Nat
  PROVE  Block(Common(p), 12) /\ Part(Common(p), 0, toBitstring(4, FirstWord(p)))
<1> DEFINE a == toBitstring(4, FirstWord(p))
           b == Fill(8)
<1>1. Common(p) = a \o b
  BY SMT DEF Common, FirstWord
<1>2. Block(a, 4) /\ Block(b, 8)
  BY BitstringBlock, FillBlock
<1> HIDE DEF a, b
<1>3. Block(a \o b, 4 + 8)
  BY ONLY <1>2, BlockJoins
<1>4. Part(a, 0, a) /\ b \in ByteSeqs
  BY ONLY <1>2, PartOf
<1>5. Part(a \o b, 0, a)
  BY ONLY <1>4, PartLeft
<1>6. 4 + 8 = 12
  OBVIOUS
<1> QED
  BY <1>1, <1>3, <1>5, <1>6 DEF a

\* The address header begins with the destination.
LEMMA AddressesLayout ==
  ASSUME NEW p, p.dst.isd \in Nat, p.dst.as \in Nat, p.shape.dl \in 0 .. 3, p.shape.sl \in 0 .. 3
  PROVE  /\ Block(Addresses(p), AddrLen(p.shape.dl, p.shape.sl))
         /\ AddrLen(p.shape.dl, p.shape.sl) \in 24 .. 48
         /\ Part(Addresses(p), 0, DstKey(p)) /\ Block(DstKey(p), 8)
<1> DEFINE a == toBitstring(2, p.dst.isd)
           b == toBitstring(6, p.dst.as)
           m == 4 * (p.shape.dl + 1)
           n == 4 * (p.shape.sl + 1)
           c == Fill(8)
           d == Fill(m)
           e == Fill(n)
<1>1. Addresses(p) = a \o b \o c \o d \o e /\ DstKey(p) = a \o b
  BY DEF Addresses, DstKey
<1>2. m \in 4 .. 16 /\ n \in 4 .. 16
  OBVIOUS
<1>3. AddrLen(p.shape.dl, p.shape.sl) = 2 + 6 + 8 + m + n
  BY DEF AddrLen
<1>4. Block(a, 2) /\ Block(b, 6)
  BY BitstringBlock
<1> HIDE DEF m, n
<1>5. m \in Nat /\ n \in Nat /\ 2 + 6 + 8 + m + n \in 24 .. 48 /\ 2 + 6 = 8
  BY <1>2
<1>6. Block(c, 8) /\ Block(d, m) /\ Block(e, n)
  BY ONLY <1>5, FillBlock
<1> HIDE DEF a, b, c, d, e
<1>7. Block(a \o b, 2 + 6)
  BY ONLY <1>4, BlockJoins
<1>8. Block(a \o b \o c, 2 + 6 + 8)
  BY ONLY <1>6, <1>7, BlockJoins
<1>9. Block(a \o b \o c \o d, 2 + 6 + 8 + m)
  BY ONLY <1>6, <1>8, BlockJoins
<1>10. Block(a \o b \o c \o d \o e, 2 + 6 + 8 + m + n)
  BY ONLY <1>6, <1>9, BlockJoins
<1>11. Part(a \o b, 0, a \o b) /\ c \in ByteSeqs /\ d \in ByteSeqs /\ e \in ByteSeqs
  BY ONLY <1>6, <1>7, PartOf
<1>12. Part(a \o b \o c \o d \o e, 0, a \o b)
  BY ONLY <1>11, PartLeft
<1> QED
  BY <1>1, <1>3, <1>5, <1>7, <1>10, <1>12

\* The shim holds the length of the INT data.
LEMMA ShimLayout ==
  ASSUME NEW p, p.length \in 0 .. 255
  PROVE  Block(Shim(p), 4) /\ Part(Shim(p), 1, <<p.length>>)
<1> DEFINE a == <<20, p.length>>
           b == Fill(2)
<1>1. Shim(p) = a \o b
  BY DEF Shim
<1>2. Block(a, 2) /\ Part(a, 1, <<p.length>>)
  <2>1. /\ a \in ByteSeqs /\ Len(a) = 2 /\ <<p.length>> \in ByteSeqs /\ Len(<<p.length>>) = 1
        /\ a[2] = p.length /\ <<p.length>>[1] = p.length
    BY DEF ByteSeqs
  <2> HIDE DEF a
  <2>2. \A i \in 1 .. 1 : a[1 + i] = <<p.length>>[i]
    BY <2>1
  <2> QED
    BY <2>1, <2>2 DEF Block, Part
<1>3. Block(b, 2) /\ b \in ByteSeqs
  BY FillBlock, PartOf
<1> HIDE DEF a, b
<1>4. Block(a \o b, 2 + 2) /\ Part(a \o b, 1, <<p.length>>)
  BY ONLY <1>2, <1>3, BlockJoins, PartLeft
<1>5. 2 + 2 = 4
  OBVIOUS
<1> QED
  BY <1>1, <1>4, <1>5

\* The metadata header holds the length of a hop and the bitmaps.
LEMMA MdHeaderLayout ==
  ASSUME NEW p, p.hopML \in 0 .. 31, p.bitmapInt \in Nat, p.bitmapScion \in Nat
  PROVE  /\ Block(MdHeader(p), 12)
         /\ Part(MdHeader(p), 2, <<p.hopML>>)
         /\ Part(MdHeader(p), 4, toBitstring(2, p.bitmapInt))
         /\ Part(MdHeader(p), 8, toBitstring(2, p.bitmapScion))
<1> DEFINE a == <<32, 0, p.hopML, Filler>>
           b == toBitstring(2, p.bitmapInt)
           c == Fill(2)
           d == toBitstring(2, p.bitmapScion)
<1>1. MdHeader(p) = a \o b \o c \o d \o c
  BY DEF MdHeader
<1>2. Block(a, 4) /\ Part(a, 2, <<p.hopML>>)
  <2>1. 32 \in 0 .. 255 /\ 0 \in 0 .. 255 /\ p.hopML \in 0 .. 255 /\ Filler \in 0 .. 255
    BY DEF Filler
  <2>2. /\ a \in ByteSeqs /\ Len(a) = 4 /\ <<p.hopML>> \in ByteSeqs /\ Len(<<p.hopML>>) = 1
        /\ a[3] = p.hopML /\ <<p.hopML>>[1] = p.hopML
    BY <2>1 DEF ByteSeqs
  <2> HIDE DEF a
  <2>3. \A i \in 1 .. 1 : a[2 + i] = <<p.hopML>>[i]
    BY <2>2
  <2> QED
    BY <2>2, <2>3 DEF Block, Part
<1>3. Block(b, 2) /\ Block(d, 2) /\ Block(c, 2)
  BY BitstringBlock, FillBlock
<1> HIDE DEF a, b, c, d
<1>4. /\ Part(b, 0, b) /\ Part(d, 0, d)
      /\ b \in ByteSeqs /\ c \in ByteSeqs /\ d \in ByteSeqs
  BY ONLY <1>3, PartOf
<1>5. Block(a \o b, 4 + 2)
  BY ONLY <1>2, <1>3, BlockJoins
<1>6. Block(a \o b \o c, 4 + 2 + 2)
  BY ONLY <1>3, <1>5, BlockJoins
<1>7. Block(a \o b \o c \o d, 4 + 2 + 2 + 2)
  BY ONLY <1>3, <1>6, BlockJoins
<1>8. Block(a \o b \o c \o d \o c, 4 + 2 + 2 + 2 + 2)
  BY ONLY <1>3, <1>7, BlockJoins
<1>9. Part(a \o b \o c \o d \o c, 2, <<p.hopML>>)
  BY ONLY <1>2, <1>4, PartLeft
<1>10. Part(a \o b \o c \o d \o c, 4 + 0, b)
  <2>1. Part(a \o b, 4 + 0, b)
    BY ONLY <1>2, <1>4, PartRight
  <2> QED
    BY ONLY <2>1, <1>4, PartLeft
<1>11. Part(a \o b \o c \o d \o c, 4 + 2 + 2 + 0, d)
  <2>1. Part(a \o b \o c \o d, 4 + 2 + 2 + 0, d)
    BY ONLY <1>6, <1>4, PartRight
  <2> QED
    BY ONLY <2>1, <1>4, PartLeft
<1>12. 4 + 2 + 2 + 2 + 2 = 12 /\ 4 + 0 = 4 /\ 4 + 2 + 2 + 0 = 8
  OBVIOUS
<1> QED
  BY <1>1, <1>8, <1>9, <1>10, <1>11, <1>12 DEF b, d

\* The segments of a path are full from the first on.
LEMMA SumOfSegments ==
  ASSUME NEW seg \in [1 .. 3 -> 0 .. 63]
  PROVE  SumOf(seg) = seg[1] + seg[2] + seg[3] /\ SumOf(seg) \in 0 .. 189
<1>1. ASSUME NEW n, n = 3
      PROVE  \E g : Run(g, "sum", 0, 0, seg, n) /\ FoldOf("sum", 0, 0, seg) = g[n]
  <2>1. DOMAIN seg = 1 .. n /\ n \in Nat
    BY <1>1
  <2> QED
    BY ONLY <2>1, FoldOfRuns
<1>2. PICK g : Run(g, "sum", 0, 0, seg, 3) /\ FoldOf("sum", 0, 0, seg) = g[3]
  BY <1>1
<1>3. /\ g[0] = 0 /\ \A k \in 1 .. 3 : g[k] = g[k - 1] + seg[k]
  BY <1>2 DEF Run, FoldStep
<1>4. g[1] = g[1 - 1] + seg[1] /\ g[2] = g[2 - 1] + seg[2] /\ g[3] = g[3 - 1] + seg[3]
  BY <1>3
<1>5. seg[1] \in 0 .. 63 /\ seg[2] \in 0 .. 63 /\ seg[3] \in 0 .. 63
  OBVIOUS
<1>6. g[3] = seg[1] + seg[2] + seg[3]
  BY <1>3, <1>4, <1>5
<1>7. SumOf(seg) = g[3]
  BY <1>2, SumOfIs
<1>8. seg[1] + seg[2] + seg[3] \in 0 .. 189
  <2>1. ASSUME NEW i \in 0 .. 63, NEW j \in 0 .. 63, NEW k \in 0 .. 63
        PROVE  i + j + k \in 0 .. 189
    OBVIOUS
  <2> QED
    BY ONLY <2>1, <1>5
<1> QED
  BY ONLY <1>6, <1>7, <1>8

\* One info field for each segment of the path.
LEMMA CountSegments ==
  ASSUME NEW seg \in [1 .. 3 -> 0 .. 63], seg[1] > 0, seg[3] > 0 => seg[2] > 0
  PROVE  /\ Cardinality({i \in 1 .. 3 : seg[i] > 0}) = InfoFields(seg)
         /\ InfoFields(seg) \in 1 .. 3
<1> DEFINE S == {i \in 1 .. 3 : seg[i] > 0}
           k == InfoFields(seg)
<1>1. seg[1] \in 0 .. 63 /\ seg[2] \in 0 .. 63 /\ seg[3] \in 0 .. 63
  OBVIOUS
<1>2. /\ seg[2] = 0 => k = 1
      /\ seg[2] # 0 /\ seg[3] = 0 => k = 2
      /\ seg[2] # 0 /\ seg[3] # 0 => k = 3
  BY <1>1 DEF InfoFields
<1> HIDE DEF k
<1>3. k \in 1 .. 3 /\ S = 1 .. k
  <2>1. CASE seg[2] = 0
    BY <2>1, <1>1, <1>2
  <2>2. CASE seg[2] # 0 /\ seg[3] = 0
    BY <2>2, <1>1, <1>2
  <2>3. CASE seg[2] # 0 /\ seg[3] # 0
    BY <2>3, <1>1, <1>2
  <2> QED
    BY <2>1, <2>2, <2>3
<1>4. 1 \in Int /\ k \in Int /\ ~(1 > k) /\ k - 1 + 1 = k
  BY <1>3
<1>5. Cardinality(1 .. k) = IF 1 > k THEN 0 ELSE k - 1 + 1
  BY ONLY <1>4, FS_Interval
<1> QED
  BY <1>3, <1>4, <1>5 DEF k

\* The path has the length the parser computes from its meta header.
LEMMA PathLayout ==
  ASSUME NEW shape, ShapeOk(shape)
  PROVE  /\ Block(Path(shape.path), PathLen(shape.path))
         /\ PathLen(shape.path) \in Nat /\ PathLen(shape.path) >= 12
         /\ PathLen(shape.path) <= 2400
<1> DEFINE path == shape.path
<1>1. CASE path.type = "ONEHOP"
  <2>1. Path(path) = Fill(32) /\ PathLen(path) = 32
    BY <1>1 DEF Path, PathLen
  <2> QED
    BY <2>1, FillBlock
<1>2. CASE path.type = "SCION"
  <2> DEFINE seg == path.seg
  <2>1. "SCION" # "ONEHOP"
    OBVIOUS
  <2>2. /\ seg \in [1 .. 3 -> 0 .. 63] /\ seg[1] > 0 /\ (seg[3] > 0 => seg[2] > 0)
    BY <1>2 DEF ShapeOk, PathOk
  <2> DEFINE a == Fill(4)
             b == Fill(8 * Cardinality({i \in 1 .. 3 : seg[i] > 0}))
             c == Fill(12 * SumOf(seg))
  <2>3. Path(path) = a \o b \o c
    BY <1>2, <2>1 DEF Path
  <2>4. PathLen(path) = 4 + 8 * InfoFields(seg) + (SumOf(seg) * 96) \div 8
    BY <1>2, <2>1 DEF PathLen
  <2> HIDE DEF seg
  <2>5. SumOf(seg) \in 0 .. 189
    BY <2>2, SumOfSegments
  <2>6. /\ Cardinality({i \in 1 .. 3 : seg[i] > 0}) = InfoFields(seg)
        /\ InfoFields(seg) \in 1 .. 3
    BY <2>2, CountSegments
  <2> DEFINE m == 8 * InfoFields(seg)
             n == 12 * SumOf(seg)
  <2>7. /\ m \in 8 .. 24 /\ n \in 0 .. 2268 /\ PathLen(path) = 4 + m + n
        /\ b = Fill(m) /\ c = Fill(n)
    BY <2>4, <2>5, <2>6
  <2> HIDE DEF m, n, b, c
  <2>8. m \in Nat /\ n \in Nat /\ 4 + m + n >= 12 /\ 4 + m + n <= 2400
    BY <2>7
  <2>9. Block(a, 4) /\ Block(b, m) /\ Block(c, n)
    BY <2>7, <2>8, FillBlock
  <2> HIDE DEF a
  <2>10. Block(a \o b, 4 + m)
    BY ONLY <2>9, BlockJoins
  <2>11. Block(a \o b \o c, 4 + m + n)
    BY ONLY <2>9, <2>10, BlockJoins
  <2> QED
    BY <2>3, <2>7, <2>8, <2>11
<1> QED
  BY <1>1, <1>2 DEF ShapeOk

\* What the assumption says of the header fields of a packet.
LEMMA PacketFields ==
  ASSUME NEW p, PacketOk(p)
  PROVE  /\ ShapeOk(p.shape) /\ p.shape.dl \in 0 .. 3 /\ p.shape.sl \in 0 .. 3
         /\ p.dst.isd \in Nat /\ p.dst.as \in Nat
         /\ p.length \in 0 .. 255 /\ p.hopML \in 0 .. 31
         /\ p.bitmapInt \in Fixed(2) /\ p.bitmapScion \in Fixed(2)
         /\ p.bitmapInt \in Nat /\ p.bitmapScion \in Nat
         /\ p.stack \in ByteSeqs
<1>1. /\ ShapeOk(p.shape) /\ p.length \in 0 .. 255 /\ p.hopML \in 0 .. 31
      /\ p.stack \in Seq(0 .. 255)
      /\ Fits16(p.dst.isd) /\ Fits48(p.dst.as) /\ Fits16(p.bitmapInt) /\ Fits16(p.bitmapScion)
  BY SMT DEF PacketOk
<1>2. p.shape.dl \in 0 .. 3 /\ p.shape.sl \in 0 .. 3
  BY ONLY <1>1 DEF ShapeOk
<1>3. p.dst.isd \in Nat /\ p.dst.as \in Nat /\ p.bitmapInt \in Nat /\ p.bitmapScion \in Nat
  BY ONLY <1>1, FitsWider
<1>4. p.bitmapInt \in Fixed(2) /\ p.bitmapScion \in Fixed(2)
  BY ONLY <1>1, FitsFixed
<1>5. p.stack \in ByteSeqs
  BY ONLY <1>1 DEF ByteSeqs
<1> QED
  BY ONLY <1>1, <1>2, <1>3, <1>4, <1>5

\* Version, traffic class and flow ID fill four bytes.
LEMMA FirstWordFits ==
  ASSUME NEW p, PacketOk(p)
  PROVE  FirstWord(p) \in Fixed(4) /\ FirstWord(p) \in Nat /\ FirstWord(p) % 1048576 = p.flow
<1>1. p.flow \in Nat /\ p.flow < 1048576 /\ p.qos \in Nat /\ p.qos < 4096
  BY SMT DEF PacketOk
<1>2. ASSUME NEW q \in Nat, q < 4096, NEW f \in Nat, f < 1048576
      PROVE  /\ q * 1048576 + f \in Nat
             /\ (q * 1048576 + f) % 1048576 = f
             /\ (q * 1048576 + f) \div 65536 \in Nat
             /\ (q * 1048576 + f) \div 65536 < 65536
  BY SMTT(30), <1>2
<1>3. /\ FirstWord(p) \in Nat /\ FirstWord(p) % 1048576 = p.flow
      /\ FirstWord(p) \div 65536 \in Nat /\ FirstWord(p) \div 65536 < 65536
  BY SMT, <1>1, <1>2 DEF FirstWord
<1>4. Fits32(FirstWord(p))
  BY SMT, <1>3 DEF Fits32, Fits16
<1>5. FirstWord(p) \in Fixed(4)
  BY ONLY <1>4, FitsFixed
<1> QED
  BY SMT, <1>3, <1>5

\* The headers of a packet, and where they start from either end.
HeadersAre(p, H) ==
  /\ H \in Nat /\ H >= 52 /\ H < 65536 /\ Block(Headers(p), H)
  /\ Part(Headers(p), 0, toBitstring(4, FirstWord(p))) /\ Part(Headers(p), 12, DstKey(p))
  /\ Part(Headers(p), H - 15, <<p.length>>) /\ Part(Headers(p), H - 10, <<p.hopML>>)
  /\ Part(Headers(p), H - 8, toBitstring(2, p.bitmapInt))
  /\ Part(Headers(p), H - 4, toBitstring(2, p.bitmapScion))
  /\ Block(DstKey(p), 8)

\* So the headers the switch keeps have that of the CPU header.
LEMMA HeadersLayout ==
  ASSUME NEW p, PacketOk(p), NEW H, H = CpuHdrLen(p.shape)
  PROVE  HeadersAre(p, H)
<1> DEFINE c == Common(p)
           a == Addresses(p)
           r == Path(p.shape.path)
           u == Fill(8)
           s == Shim(p)
           m == MdHeader(p)
           A == AddrLen(p.shape.dl, p.shape.sl)
           R == PathLen(p.shape.path)
           k == toBitstring(4, FirstWord(p))
           d == DstKey(p)
           l == <<p.length>>
           h == <<p.hopML>>
           i == toBitstring(2, p.bitmapInt)
           t == toBitstring(2, p.bitmapScion)
<1>1. Headers(p) = c \o a \o r \o u \o s \o m /\ CpuHdrLen(p.shape) = 12 + A + R + 8 + 4 + 12
  BY DEF Headers, CpuHdrLen
<1>2. Block(c, 12) /\ Part(c, 0, k)
  <2>1. FirstWord(p) \in Nat
    BY SMT, FirstWordFits
  <2> QED
    BY <2>1, CommonLayout
<1>3. Block(a, A) /\ A \in 24 .. 48 /\ Part(a, 0, d) /\ Block(d, 8)
  BY PacketFields, AddressesLayout
<1>4. Block(r, R) /\ R \in Nat /\ R >= 12 /\ R <= 2400
  BY PacketFields, PathLayout
<1>5. Block(u, 8)
  BY FillBlock
<1>6. Block(s, 4) /\ Part(s, 1, l)
  BY PacketFields, ShimLayout
<1>7. Block(m, 12) /\ Part(m, 2, h) /\ Part(m, 4, i) /\ Part(m, 8, t)
  BY PacketFields, MdHeaderLayout
<1> HIDE DEF c, a, r, u, s, m, A, R, k, d, l, h, i, t
<1>8. /\ a \in ByteSeqs /\ r \in ByteSeqs /\ u \in ByteSeqs /\ s \in ByteSeqs /\ m \in ByteSeqs
  BY ONLY <1>3, <1>4, <1>5, <1>6, <1>7, PartOf
<1>9. Block(c \o a, 12 + A)
  BY ONLY <1>2, <1>3, BlockJoins
<1>10. Block(c \o a \o r, 12 + A + R)
  BY ONLY <1>4, <1>9, BlockJoins
<1>11. Block(c \o a \o r \o u, 12 + A + R + 8)
  BY ONLY <1>5, <1>10, BlockJoins
<1>12. Block(c \o a \o r \o u \o s, 12 + A + R + 8 + 4)
  BY ONLY <1>6, <1>11, BlockJoins
<1>13. Block(c \o a \o r \o u \o s \o m, 12 + A + R + 8 + 4 + 12)
  BY ONLY <1>7, <1>12, BlockJoins
<1>14. Part(c \o a \o r \o u \o s \o m, 0, k)
  BY ONLY <1>2, <1>8, PartLeft
<1>15. Part(c \o a \o r \o u \o s \o m, 12 + 0, d)
  <2>1. Part(c \o a, 12 + 0, d)
    BY ONLY <1>2, <1>3, PartRight
  <2> QED
    BY ONLY <2>1, <1>8, PartLeft
<1>16. Part(c \o a \o r \o u \o s \o m, 12 + A + R + 8 + 1, l)
  <2>1. Part(c \o a \o r \o u \o s, 12 + A + R + 8 + 1, l)
    BY ONLY <1>6, <1>11, PartRight
  <2> QED
    BY ONLY <2>1, <1>8, PartLeft
<1>17. /\ Part(c \o a \o r \o u \o s \o m, 12 + A + R + 8 + 4 + 2, h)
       /\ Part(c \o a \o r \o u \o s \o m, 12 + A + R + 8 + 4 + 4, i)
       /\ Part(c \o a \o r \o u \o s \o m, 12 + A + R + 8 + 4 + 8, t)
  BY ONLY <1>7, <1>12, PartRight
<1>18. /\ H = 12 + A + R + 8 + 4 + 12 /\ H \in Nat /\ H >= 52 /\ H < 65536
       /\ 12 + 0 = 12 /\ H - 15 = 12 + A + R + 8 + 1 /\ H - 10 = 12 + A + R + 8 + 4 + 2
       /\ H - 8 = 12 + A + R + 8 + 4 + 4 /\ H - 4 = 12 + A + R + 8 + 4 + 8
  BY SMT, <1>1, <1>3, <1>4
<1> DEFINE b == c \o a \o r \o u \o s \o m
<1>19. Headers(p) = b
  BY SMT, <1>1
<1> HIDE DEF b
<1>20. /\ Block(b, H) /\ Part(b, 0, k) /\ Part(b, 12, d) /\ Part(b, H - 15, l)
       /\ Part(b, H - 10, h) /\ Part(b, H - 8, i) /\ Part(b, H - 4, t)
  BY ONLY <1>13, <1>14, <1>15, <1>16, <1>17, <1>18 DEF b
<1> QED
  BY ONLY <1>3, <1>18, <1>19, <1>20 DEF HeadersAre, k, d, l, h, i, t

\* The packet-in of a packet.
KeptIs(p, H, b) ==
  /\ H \in Nat /\ H >= 52 /\ H < 65536 /\ b \in ByteSeqs /\ 16 + H + Len(p.stack) = Len(b)
  /\ Part(b, 8, toBitstring(8, H)) /\ Part(b, 16, Headers(p))
  /\ Part(b, 16 + H, p.stack)

\* A packet-in: identifier, length of the headers, headers, stack.
LEMMA KeptLayout ==
  ASSUME NEW p, PacketOk(p), NEW H, H = CpuHdrLen(p.shape), NEW b, b = KeepIntCpu(p)
  PROVE  KeptIs(p, H, b)
<1> DEFINE i == toBitstring(8, INT_IDENTIFIER)
           l == toBitstring(8, H)
           h == Headers(p)
           s == p.stack
<1>1. b = i \o l \o h \o s
  BY DEF KeepIntCpu
<1>2. H \in Nat /\ H >= 52 /\ H < 65536 /\ Block(h, H)
  <2>1. HeadersAre(p, H)
    BY HeadersLayout
  <2> QED
    BY ONLY <2>1 DEF HeadersAre
<1>3. INT_IDENTIFIER \in Nat
  BY SMT DEF INT_IDENTIFIER
<1>4. H \in Nat
  BY <1>2
<1>5. Block(i, 8) /\ Block(l, 8)
  BY ONLY <1>3, <1>4, BitstringBlock
<1>6. s \in ByteSeqs /\ Block(s, Len(s)) /\ Len(s) \in Nat
  BY PacketFields, ByteAt DEF Block
<1> HIDE DEF i, l, h, s
<1>7. Block(i \o l, 8 + 8)
  BY ONLY <1>5, BlockJoins
<1>8. Block(i \o l \o h, 8 + 8 + H)
  <2>1. Block(h, H)
    BY ONLY <1>2
  <2> QED
    BY ONLY <2>1, <1>7, BlockJoins
<1>9. Block(i \o l \o h \o s, 8 + 8 + H + Len(s))
  BY ONLY <1>6, <1>8, BlockJoins
<1>10. Part(l, 0, l) /\ Part(h, 0, h) /\ Part(s, 0, s) /\ h \in ByteSeqs
  BY ONLY <1>2, <1>5, <1>6, PartOf
<1>11. Part(i \o l \o h \o s, 8 + 0, l)
  <2>1. Part(i \o l, 8 + 0, l)
    BY ONLY <1>5, <1>10, PartRight
  <2> QED
    BY ONLY <2>1, <1>6, <1>10, PartLeft
<1>12. Part(i \o l \o h \o s, 8 + 8 + 0, h)
  <2>1. Part(i \o l \o h, 8 + 8 + 0, h)
    BY ONLY <1>7, <1>10, PartRight
  <2> QED
    BY ONLY <2>1, <1>6, PartLeft
<1>13. Part(i \o l \o h \o s, 8 + 8 + H + 0, s)
  BY ONLY <1>8, <1>10, PartRight
<1>14. 8 + 0 = 8 /\ 8 + 8 + 0 = 16 /\ 8 + 8 + H + 0 = 16 + H /\ 8 + 8 + H + Len(s) = 16 + H + Len(s)
  BY <1>4, <1>6
<1> DEFINE e == i \o l \o h \o s
<1>15. b = e
  BY <1>1
<1> HIDE DEF e
<1>16. /\ Block(e, 16 + H + Len(s)) /\ Part(e, 8, l) /\ Part(e, 16, h) /\ Part(e, 16 + H, s)
  BY ONLY <1>9, <1>11, <1>12, <1>13, <1>14 DEF e
<1> QED
  BY ONLY <1>2, <1>15, <1>16 DEF KeptIs, Block, l, h, s
-----------------------------------------------------------------------------
\* What the controller takes from the headers.
NumberAt(b, pos, n) == Numeral(Bytes(b, pos, n), 256)

\* The controller reads back a number the switch has written.
LEMMA PartIsNumber ==
  ASSUME NEW b, NEW pos, NEW k \in Nat, NEW n \in Fixed(k), Part(b, pos, toBitstring(k, n))
  PROVE  NumberAt(b, pos, k) = n
<1>1. n \in Nat
  BY DEF Fixed
<1>2. Block(toBitstring(k, n), k)
  BY <1>1, BitstringBlock
<1>3. Bytes(b, pos, k) = toBitstring(k, n)
  BY ONLY <1>2, PartIsRead, Part(b, pos, toBitstring(k, n))
<1>4. Numeral(toBitstring(k, n), 256) = n
  BY BitstringReadsBack
<1> QED
  BY <1>3, <1>4 DEF NumberAt

HeaderRead(p, H, b) ==
  /\ HdrLen(b) = H /\ takeUint32(b, 16) = FirstWord(p) /\ Bytes(b, 16 + 12, 8) = DstKey(p)
  /\ StackSize(b) = p.length - 3 /\ HopSize(b) = p.hopML
  /\ BitmapInt(b) = p.bitmapInt /\ BitmapScion(b) = p.bitmapScion

\* It finds in the headers what they say.
LEMMA HeaderIsRead ==
  ASSUME NEW p, PacketOk(p), NEW H, H = CpuHdrLen(p.shape), NEW b, b = KeepIntCpu(p)
  PROVE  HeaderRead(p, H, b)
<1> DEFINE h == Headers(p)
<1>1. KeptIs(p, H, b) /\ HeadersAre(p, H)
  BY KeptLayout, HeadersLayout
<1>2. H \in Nat /\ H >= 52 /\ H < 65536 /\ Part(b, 8, toBitstring(8, H)) /\ Part(b, 16, h)
  BY <1>1 DEF KeptIs
<1>3. /\ Part(h, 0, toBitstring(4, FirstWord(p))) /\ Part(h, 12, DstKey(p))
      /\ Part(h, H - 15, <<p.length>>) /\ Part(h, H - 10, <<p.hopML>>)
      /\ Part(h, H - 8, toBitstring(2, p.bitmapInt))
      /\ Part(h, H - 4, toBitstring(2, p.bitmapScion))
      /\ Block(DstKey(p), 8)
  BY <1>1 DEF HeadersAre
<1> HIDE DEF h
<1>4. /\ Part(b, 16 + 0, toBitstring(4, FirstWord(p))) /\ Part(b, 16 + 12, DstKey(p))
      /\ Part(b, 16 + (H - 15), <<p.length>>) /\ Part(b, 16 + (H - 10), <<p.hopML>>)
      /\ Part(b, 16 + (H - 8), toBitstring(2, p.bitmapInt))
      /\ Part(b, 16 + (H - 4), toBitstring(2, p.bitmapScion))
  BY ONLY <1>2, <1>3, PartOfPart
<1>5. /\ 16 + 0 = 16 /\ 16 + (H - 15) = 16 + H - 12 - 3 /\ 16 + (H - 10) = 16 + H - 10
      /\ 16 + (H - 8) = 16 + H - 8 /\ 16 + (H - 4) = 16 + H - 4
  BY <1>2
<1>6. HdrLen(b) = H
  <2>1. Fits16(H)
    BY <1>2 DEF Fits16
  <2>2. Fits32(H)
    BY ONLY <2>1, FitsWider
  <2>3. Fits48(H)
    BY ONLY <2>2, FitsWider
  <2>4. Fits64(H)
    BY ONLY <2>3, FitsWider
  <2>5. H \in Fixed(8)
    BY ONLY <2>4, FitsFixed
  <2>6. NumberAt(b, 8, 8) = H
    BY <2>5, <1>2, PartIsNumber
  <2> QED
    BY <2>6 DEF HdrLen, takeUint64, NumberAt
<1>7. takeUint32(b, 16) = FirstWord(p)
  <2>1. FirstWord(p) \in Fixed(4)
    BY SMT, FirstWordFits
  <2>2. NumberAt(b, 16 + 0, 4) = FirstWord(p)
    BY ONLY <2>1, <1>4, PartIsNumber, 4 \in Nat
  <2> QED
    BY <2>2, <1>5 DEF takeUint32, NumberAt
<1>8. Bytes(b, 16 + 12, 8) = DstKey(p)
  BY ONLY <1>3, <1>4, PartIsRead
<1>9. StackSize(b) = p.length - 3
  <2>1. p.length \in 0 .. 255
    BY PacketFields
  <2>2. takeUint8(b, 16 + (H - 15)) = p.length
    BY ONLY <2>1, <1>4, PartByte
  <2> QED
    BY <2>2, <1>5, <1>6 DEF StackSize
<1>10. HopSize(b) = p.hopML
  <2>1. p.hopML \in 0 .. 255 /\ p.hopML % 32 = p.hopML
    <3>1. p.hopML \in 0 .. 31
      BY PacketFields
    <3> QED
      BY ONLY <3>1
  <2>2. takeUint8(b, 16 + (H - 10)) = p.hopML
    BY ONLY <2>1, <1>4, PartByte
  <2> QED
    BY <2>1, <2>2, <1>5, <1>6 DEF HopSize
<1>11. BitmapInt(b) = p.bitmapInt /\ BitmapScion(b) = p.bitmapScion
  <2>1. p.bitmapInt \in Fixed(2) /\ p.bitmapScion \in Fixed(2)
    BY PacketFields
  <2>2. /\ NumberAt(b, 16 + (H - 8), 2) = p.bitmapInt
        /\ NumberAt(b, 16 + (H - 4), 2) = p.bitmapScion
    BY ONLY <2>1, <1>4, PartIsNumber, 2 \in Nat
  <2> QED
    BY <2>2, <1>5, <1>6 DEF BitmapInt, BitmapScion, takeUint16, NumberAt
<1> QED
  BY <1>6, <1>7, <1>8, <1>9, <1>10, <1>11 DEF HeaderRead

\* What the controller takes from the stack.
LEMMA StackIsRead ==
  ASSUME NEW p, PacketOk(p), NEW H, H = CpuHdrLen(p.shape), NEW b, b = KeepIntCpu(p),
         NEW at \in Nat, NEW n \in Nat, at + n <= Len(p.stack)
  PROVE  Bytes(b, 16 + H + at, n) = Bytes(p.stack, at, n)
<1> DEFINE s == p.stack
<1>1. Part(b, 16 + H, s)
  BY KeptLayout DEF KeptIs
<1>2. s \in ByteSeqs
  BY PacketFields
<1> HIDE DEF s
<1>3. at + n <= Len(s)
  BY DEF s
<1>4. Part(s, at, Bytes(s, at, n)) /\ Block(Bytes(s, at, n), n)
  BY ONLY <1>2, <1>3, BytesPart, at \in Nat, n \in Nat
<1>5. Part(b, 16 + H + at, Bytes(s, at, n))
  BY ONLY <1>1, <1>4, PartOfPart
<1>6. Bytes(b, 16 + H + at, n) = Bytes(s, at, n)
  BY ONLY <1>4, <1>5, PartIsRead
<1> QED
  BY <1>6 DEF s

\* The headers that go into the report are bytes.
LEMMA TruncatedBytes ==
  ASSUME NEW p, PacketOk(p), NEW H, H = CpuHdrLen(p.shape), NEW b, b = KeepIntCpu(p)
  PROVE  Bytes(b, 8, HdrLen(b)) \in ByteSeqs
<1>1. KeptIs(p, H, b) /\ HeaderRead(p, H, b)
  BY KeptLayout, HeaderIsRead
<1>2. p.stack \in ByteSeqs
  BY PacketFields
<1>3. Len(p.stack) \in Nat
  BY <1>2, ByteAt
<1>4. HdrLen(b) = H /\ H \in Nat /\ b \in ByteSeqs /\ 16 + H + Len(p.stack) = Len(b)
  BY <1>1 DEF KeptIs, HeaderRead
<1>5. 8 + H <= Len(b)
  BY <1>3, <1>4
<1> QED
  BY <1>4, <1>5, BytesElements
-----------------------------------------------------------------------------
(* The fields of a hop. *)

\* The fields of the stack by their place.
LEMMA FieldIs ==
  ASSUME NEW k \in 1 .. 9
  PROVE  /\ StackFields[k].type = k - 1 /\ StackFields[k].type \in 0 .. 8
         /\ StackFields[k].len = IF k \in {5, 6, 7} THEN 8 ELSE 4
         /\ StackFields[k].len \in Nat
<1>1. k = 1 \/ k = 2 \/ k = 3 \/ k = 4 \/ k = 5 \/ k = 6 \/ k = 7 \/ k = 8 \/ k = 9
  OBVIOUS
<1>2. CASE k = 1
  BY <1>2 DEF StackFields
<1>3. CASE k = 2
  BY <1>3 DEF StackFields
<1>4. CASE k = 3
  BY <1>4 DEF StackFields
<1>5. CASE k = 4
  BY <1>5 DEF StackFields
<1>6. CASE k = 5
  BY <1>6 DEF StackFields
<1>7. CASE k = 6
  BY <1>7 DEF StackFields
<1>8. CASE k = 7
  BY <1>8 DEF StackFields
<1>9. CASE k = 8
  BY <1>9 DEF StackFields
<1>10. CASE k = 9
  BY <1>10 DEF StackFields
<1> QED
  BY <1>1, <1>2, <1>3, <1>4, <1>5, <1>6, <1>7, <1>8, <1>9, <1>10

\* Each field begins where the one before it ends.
LEMMA BeforeIs ==
  ASSUME NEW p
  PROVE  /\ Before(p, 1) = 0
         /\ \A k \in 1 .. 9 : /\ Before(p, k + 1) = Before(p, k) + Width(p, k)
                              /\ Width(p, k) \in Nat
         /\ \A k \in 1 .. 10 : Before(p, k) \in Nat
<1> DEFINE fs(n) == [j \in 1 .. n |-> Width(p, j)]
<1>1. \A k \in 1 .. 9 : Width(p, k) \in Nat
  BY FieldIs DEF Width
<1>2. ASSUME NEW n, n = 9
      PROVE  \E g : Run(g, "sum", 0, 0, fs(n), n)
  <2>1. DOMAIN fs(n) = 1 .. n /\ n \in Nat
    BY <1>2
  <2> HIDE DEF fs
  <2> QED
    BY ONLY <2>1, FoldOfRuns
<1>3. PICK g : Run(g, "sum", 0, 0, fs(9), 9)
  BY <1>2
<1>4. g[0] = 0 /\ \A k \in 1 .. 9 : g[k] = g[k - 1] + Width(p, k)
  <2>1. g[0] = 0 /\ \A k \in 1 .. 9 : g[k] = g[k - 1] + fs(9)[k]
    BY <1>3 DEF Run, FoldStep
  <2> QED
    BY <2>1
<1>5. ASSUME NEW m \in 0 .. 9 PROVE Before(p, m + 1) = g[m]
  <2>1. \A k \in 1 .. m : k \in 1 .. 9
    OBVIOUS
  <2>2. Run(g, "sum", 0, 0, fs(m), m)
    <3>1. \A k \in 1 .. m : fs(m)[k] = Width(p, k)
      OBVIOUS
    <3> HIDE DEF fs
    <3> QED
      BY <2>1, <3>1, <1>4 DEF Run, FoldStep
  <2>3. DOMAIN fs(m) = 1 .. m /\ m \in Nat /\ m + 1 - 1 = m
    OBVIOUS
  <2>4. Before(p, m + 1) = SumOf(fs(m))
    BY <2>3 DEF Before
  <2> HIDE DEF fs
  <2>5. SumOf(fs(m)) = g[m]
    BY ONLY <2>2, <2>3, SumOfIs, FoldOfIs
  <2> QED
    BY <2>4, <2>5
<1> DEFINE T == {k \in Nat : k <= 9 => g[k] \in Nat}
<1>6. 0 \in T
  BY <1>4
<1>7. ASSUME NEW k \in Nat \ {0}, k - 1 \in T PROVE k \in T
  <2>1. SUFFICES ASSUME k <= 9 PROVE g[k] \in Nat
    OBVIOUS
  <2>2. k \in 1 .. 9 /\ g[k - 1] \in Nat
    BY <2>1, <1>7
  <2> QED
    BY <2>2, <1>1, <1>4
<1>8. ASSUME NEW k \in 0 .. 9 PROVE g[k] \in Nat
  <2>1. Nat \subseteq T
    <3> HIDE DEF T
    <3> QED
      BY <1>6, <1>7, NatSetInduction
  <2> QED
    BY <2>1
<1>9. Before(p, 1) = 0
  <2>1. 0 \in 0 .. 9 /\ 0 + 1 = 1
    OBVIOUS
  <2>2. Before(p, 0 + 1) = g[0]
    BY ONLY <2>1, <1>5
  <2> QED
    BY <2>1, <2>2, <1>4
<1>10. ASSUME NEW k \in 1 .. 9 PROVE Before(p, k + 1) = Before(p, k) + Width(p, k)
  <2>1. k \in 0 .. 9 /\ k - 1 \in 0 .. 9 /\ k - 1 + 1 = k
    OBVIOUS
  <2>2. Before(p, k + 1) = g[k] /\ Before(p, k - 1 + 1) = g[k - 1]
    BY ONLY <2>1, <1>5
  <2> QED
    BY <2>1, <2>2, <1>4
<1>11. ASSUME NEW k \in 1 .. 10 PROVE Before(p, k) \in Nat
  <2>1. k - 1 \in 0 .. 9 /\ k - 1 + 1 = k
    OBVIOUS
  <2>2. Before(p, k - 1 + 1) = g[k - 1]
    BY ONLY <2>1, <1>5
  <2> QED
    BY <2>1, <2>2, <1>8
<1> QED
  BY <1>1, <1>9, <1>10, <1>11

\* And within the hop.
LEMMA FieldInHop ==
  ASSUME NEW p
  PROVE  /\ HopLen(p) \in Nat /\ Before(p, 10) \in Nat /\ Before(p, 10) <= HopLen(p)
         /\ p.bitmapScion % 2 = 1 => HopLen(p) = Before(p, 10) + 8
         /\ p.bitmapScion % 2 # 1 => HopLen(p) = Before(p, 10)
         /\ \A k \in 1 .. 9 : /\ Before(p, k) \in Nat
                              /\ Before(p, k) + Width(p, k) <= HopLen(p)
<1>1. \A k \in 1 .. 9 : /\ Before(p, k + 1) = Before(p, k) + Width(p, k)
                        /\ Width(p, k) \in Nat
  BY BeforeIs
<1>2. \A k \in 1 .. 10 : Before(p, k) \in Nat
  BY BeforeIs
<1>3. /\ p.bitmapScion % 2 = 1 => HopLen(p) = Before(p, 10) + 8
      /\ p.bitmapScion % 2 # 1 => HopLen(p) = Before(p, 10) + 0
  BY DEF HopLen
<1>4. 10 \in 1 .. 10 /\ Before(p, 10) \in Nat
  BY <1>2
<1>5. HopLen(p) \in Nat /\ Before(p, 10) <= HopLen(p)
  BY <1>3, <1>4
<1> DEFINE T == {n \in Nat : n <= 9 => Before(p, 10 - n) <= HopLen(p)}
<1>6. 0 \in T
  BY <1>5
<1>7. ASSUME NEW n \in Nat \ {0}, n - 1 \in T PROVE n \in T
  <2>1. SUFFICES ASSUME n <= 9 PROVE Before(p, 10 - n) <= HopLen(p)
    OBVIOUS
  <2> DEFINE k == 10 - n
  <2>2. k \in 1 .. 9 /\ k \in 1 .. 10 /\ k + 1 \in 1 .. 10 /\ 10 - (n - 1) = k + 1
    BY <2>1
  <2>3. Before(p, 10 - (n - 1)) <= HopLen(p)
    BY <1>7, <2>1
  <2> HIDE DEF k
  <2>4. Before(p, k + 1) <= HopLen(p)
    BY <2>2, <2>3
  <2>5. /\ Before(p, k + 1) = Before(p, k) + Width(p, k) /\ Width(p, k) \in Nat
        /\ Before(p, k) \in Nat
    BY <2>2, <1>1, <1>2
  <2>6. Before(p, k) <= HopLen(p)
    BY <2>4, <2>5, <1>5
  <2> QED
    BY <2>6 DEF k
<1>8. ASSUME NEW k \in 1 .. 9
      PROVE  Before(p, k) \in Nat /\ Before(p, k) + Width(p, k) <= HopLen(p)
  <2>1. Nat \subseteq T
    <3> HIDE DEF T
    <3> QED
      BY <1>6, <1>7, NatSetInduction
  <2>2. 9 - k \in Nat /\ 9 - k <= 9 /\ 10 - (9 - k) = k + 1 /\ k \in 1 .. 10
    OBVIOUS
  <2>3. Before(p, 10 - (9 - k)) <= HopLen(p)
    BY <2>1, <2>2
  <2>4. Before(p, k + 1) <= HopLen(p)
    BY <2>2, <2>3
  <2> QED
    BY <2>2, <2>4, <1>1, <1>2
<1>9. HopLen(p) = Before(p, 10) + 0 => HopLen(p) = Before(p, 10)
  BY <1>4
<1> QED
  BY <1>3, <1>4, <1>5, <1>8, <1>9
-----------------------------------------------------------------------------
\* A hop of which the first k fields were read.
TypesUpTo(p, k) ==
  {StackFields[j].type : j \in {i \in 1 .. k : Asks(p.bitmapInt, StackFields[i])}}
NodeUpTo(p, r, k) == IF 0 \in TypesUpTo(p, k) THEN r.nodeId ELSE 0
DataUpTo(p, r, k) == Restrict(r.metadata, TypesUpTo(p, k) \ {0})
HopUpTo(p, r, k)  == HopOf(0, NodeUpTo(p, r, k), DataUpTo(p, r, k), <<>>)
HopOfRecord(r)    == HopOf(r.asn, r.nodeId, r.metadata, <<>>)

\* And where the next field is.
HopAt(p, H, at, r, k) ==
  [pos |-> 16 + H + at + Before(p, k + 1), hop |-> HopUpTo(p, r, k)]

\* One field more is one type more, if it is asked for.
LEMMA TypesStep ==
  ASSUME NEW p, NEW k \in 1 .. 9
  PROVE  /\ Asks(p.bitmapInt, StackFields[k]) =>
              TypesUpTo(p, k) = TypesUpTo(p, k - 1) \cup {StackFields[k].type}
         /\ ~Asks(p.bitmapInt, StackFields[k]) => TypesUpTo(p, k) = TypesUpTo(p, k - 1)
<1>1. 1 .. k = (1 .. k - 1) \cup {k}
  OBVIOUS
<1> QED
  BY <1>1 DEF TypesUpTo

LEMMA TypesEnds ==
  ASSUME NEW p
  PROVE  TypesUpTo(p, 0) = {} /\ TypesUpTo(p, 9) = Types(p)
<1>1. ASSUME NEW n, n = 9 PROVE ToSet(StackFields) = {StackFields[i] : i \in 1 .. n}
  <2>1. DOMAIN StackFields = 1 .. n
    BY <1>1 DEF StackFields
  <2> QED
    BY ONLY <2>1 DEF ToSet
<1>2. ToSet(StackFields) = {StackFields[i] : i \in 1 .. 9}
  BY <1>1
<1>3. 1 .. 0 = {}
  OBVIOUS
<1> QED
  BY <1>2, <1>3 DEF TypesUpTo, Types

\* And one entry of the map more.
LEMMA MergeField ==
  ASSUME NEW D, NEW m, NEW t, NEW g, DOMAIN g = {t}, g[t] = m[t]
  PROVE  MapMerge(Restrict(m, D), g) = Restrict(m, D \cup {t})
<1> DEFINE f == Restrict(m, D)
           E == D \cup {t}
<1>1. DOMAIN f = D /\ \A x \in D : f[x] = m[x]
  BY DEF Restrict
<1> HIDE DEF f
<1>2. \A x \in E : (IF x \in {t} THEN g[x] ELSE f[x]) = m[x]
  BY <1>1
<1>3. MapMerge(f, g) = [x \in E |-> IF x \in {t} THEN g[x] ELSE f[x]]
  BY <1>1 DEF MapMerge
<1> QED
  BY <1>2, <1>3 DEF f, Restrict

\* Room for a field in what is left of the stack.
LEMMA FieldInStack ==
  ASSUME NEW at \in Nat, NEW c \in Nat, NEW l \in Nat, NEW n \in Nat, NEW m \in Nat,
         NEW H \in Nat, c + l <= n, at + n <= m
  PROVE  at + c \in Nat /\ at + c + l <= m /\ 16 + H + at + c = 16 + H + (at + c)
OBVIOUS

\* One field.
LEMMA FieldTaken ==
  ASSUME NEW p, PacketOk(p), NEW H, H = CpuHdrLen(p.shape), NEW b, b = KeepIntCpu(p),
         NEW at \in Nat, at + HopLen(p) <= Len(p.stack), NEW r, RecordOk(p, r, at),
         NEW k \in 1 .. 9
  PROVE  TakeAsked(b, HopAt(p, H, at, r, k - 1), StackFields[k]) = HopAt(p, H, at, r, k)
<1> DEFINE f == StackFields[k]
           pos == 16 + H + at + Before(p, k)
           x == [pos |-> pos, hop |-> HopUpTo(p, r, k - 1)]
           w == Bytes(p.stack, at + Before(p, k), f.len)
           q == 16 + H + at + Before(p, k + 1)
<1>0. HopAt(p, H, at, r, k - 1) = x /\ HopAt(p, H, at, r, k) = [pos |-> q, hop |-> HopUpTo(p, r, k)]
  <2>1. k - 1 + 1 = k
    OBVIOUS
  <2> QED
    BY <2>1 DEF HopAt
<1>1. /\ f.type = k - 1 /\ f.type \in 0 .. 8 /\ f.len \in Nat
      /\ f.len = IF k \in {5, 6, 7} THEN 8 ELSE 4
  BY FieldIs
<1>2. /\ Before(p, k + 1) = Before(p, k) + Width(p, k) /\ Width(p, k) \in Nat
      /\ Before(p, k) \in Nat /\ Before(p, k) + Width(p, k) <= HopLen(p) /\ HopLen(p) \in Nat
  BY BeforeIs, FieldInHop
<1>3. H \in Nat /\ Len(p.stack) \in Nat
  <2>1. p.stack \in ByteSeqs
    BY PacketFields
  <2> QED
    BY <2>1, KeptLayout, ByteAt DEF KeptIs
<1>4. BitmapInt(b) = p.bitmapInt
  BY HeaderIsRead DEF HeaderRead
<1>5. pos \in Nat /\ pos + Width(p, k) = q /\ x.pos = pos /\ x.hop = HopUpTo(p, r, k - 1)
  <2>1. at \in Nat
    OBVIOUS
  <2>2. pos \in Nat /\ pos + Width(p, k) = q
    BY ONLY <1>2, <1>3, <2>1 DEF pos, q
  <2> HIDE DEF pos
  <2> QED
    BY <2>2
<1> HIDE DEF pos, q
<1>6. CASE ~Asks(p.bitmapInt, f)
  <2>1. Width(p, k) = 0
    BY <1>6 DEF Width
  <2>2. pos = q
    BY <1>5, <2>1
  <2>3. TypesUpTo(p, k) = TypesUpTo(p, k - 1)
    BY <1>6, TypesStep
  <2>4. HopUpTo(p, r, k) = HopUpTo(p, r, k - 1)
    BY <2>3 DEF HopUpTo, NodeUpTo, DataUpTo
  <2>5. TakeAsked(b, x, f) = x
    BY <1>4, <1>6 DEF TakeAsked
  <2> QED
    BY <1>0, <2>2, <2>4, <2>5
<1>7. CASE Asks(p.bitmapInt, f)
  <2>1. Width(p, k) = f.len
    BY <1>7 DEF Width
  <2>2. TakeAsked(b, x, f) = TakeField(b, x, f)
    BY <1>4, <1>7 DEF TakeAsked
  <2>3. Bytes(b, pos, f.len) = w
    <3>1. /\ at + Before(p, k) \in Nat /\ at + Before(p, k) + f.len <= Len(p.stack)
          /\ pos = 16 + H + (at + Before(p, k))
      <4>1. f.len \in Nat /\ Before(p, k) + f.len <= HopLen(p)
        BY <1>1, <1>2, <2>1
      <4>2. at + HopLen(p) <= Len(p.stack) /\ at \in Nat
        OBVIOUS
      <4> DEFINE c == Before(p, k)
                 l == f.len
                 m == Len(p.stack)
                 n == HopLen(p)
      <4>3. /\ at \in Nat /\ c \in Nat /\ l \in Nat /\ n \in Nat /\ m \in Nat /\ H \in Nat
            /\ c + l <= n /\ at + n <= m
        BY ONLY <1>2, <1>3, <4>1, <4>2
      <4> HIDE DEF c, l, m, n
      <4>4. at + c \in Nat /\ at + c + l <= m /\ 16 + H + at + c = 16 + H + (at + c)
        BY ONLY <4>3, FieldInStack
      <4> QED
        BY <4>4 DEF c, l, m, n, pos
    <3> QED
      BY <3>1, <1>1, StackIsRead
  <2>4. Written(r, f, w)
    BY <1>7 DEF RecordOk
  <2>5. TypesUpTo(p, k) = TypesUpTo(p, k - 1) \cup {f.type}
    BY <1>7, TypesStep
  <2>6. pos + f.len = q
    BY <1>5, <2>1
  <2>7. CASE f.type = 0
    <3>1. k = 1 /\ f.len = 4 /\ k - 1 = 0
      BY <1>1, <2>7
    <3>2. w = toBitstring(4, r.nodeId)
      BY <2>4, <2>7 DEF Written
    <3>3. r.nodeId \in Fixed(4)
      BY FitsFixed DEF RecordOk
    <3>4. takeUint32(b, pos) = r.nodeId
      BY <2>3, <3>1, <3>2, <3>3, BitstringReadsBack DEF takeUint32
    <3>5. TakeField(b, x, f) = [pos |-> q, hop |-> [x.hop EXCEPT !.nodeId = r.nodeId]]
      BY <1>5, <2>6, <2>7, <3>4 DEF TakeField
    <3>6. /\ TypesUpTo(p, k) \ {0} = TypesUpTo(p, k - 1) \ {0} /\ 0 \in TypesUpTo(p, k)
      BY <2>5, <2>7
    <3>7. DataUpTo(p, r, k) = DataUpTo(p, r, k - 1) /\ NodeUpTo(p, r, k) = r.nodeId
      BY <3>6 DEF DataUpTo, NodeUpTo
    <3>8. [HopUpTo(p, r, k - 1) EXCEPT !.nodeId = r.nodeId] = HopUpTo(p, r, k)
      BY <3>7 DEF HopUpTo, HopOf
    <3> QED
      BY <1>0, <1>5, <2>2, <3>5, <3>8
  <2>8. CASE f.type # 0
    <3> DEFINE v == IF f.type \in {4, 5} THEN toBitstring(8, 1000 * takeUint64(b, pos)) ELSE w
    <3>1. v = r.metadata[f.type]
      <4>1. CASE f.type \in {4, 5}
        <5>1. f.len = 8
          BY <1>1, <4>1
        <5>2. r.metadata[f.type] = toBitstring(8, 1000 * Numeral(w, 256))
          BY <2>4, <2>8, <4>1 DEF Written
        <5>3. takeUint64(b, pos) = Numeral(w, 256)
          BY <2>3, <5>1 DEF takeUint64
        <5> QED
          BY <4>1, <5>2, <5>3
      <4>2. CASE f.type \notin {4, 5}
        BY <2>4, <2>8, <4>2 DEF Written
      <4> QED
        BY <4>1, <4>2
    <3>2. TakeField(b, x, f)
            = [pos |-> q, hop |-> [x.hop EXCEPT !.metadata =
                                      MapMerge(x.hop.metadata, [t \in {f.type} |-> v])]]
      BY <1>5, <2>3, <2>6, <2>8 DEF TakeField
    <3> HIDE DEF v, w
    <3>3. TypesUpTo(p, k) \ {0} = (TypesUpTo(p, k - 1) \ {0}) \cup {f.type}
      BY <2>5, <2>8
    <3>4. 0 \in TypesUpTo(p, k) <=> 0 \in TypesUpTo(p, k - 1)
      BY <2>5, <2>8
    <3>5. NodeUpTo(p, r, k) = NodeUpTo(p, r, k - 1)
      BY <3>4 DEF NodeUpTo
    <3>6. MapMerge(DataUpTo(p, r, k - 1), [t \in {f.type} |-> v]) = DataUpTo(p, r, k)
      <4> DEFINE D == TypesUpTo(p, k - 1) \ {0}
                 E == TypesUpTo(p, k) \ {0}
                 t == f.type
                 m == r.metadata
                 y == [z \in {t} |-> v]
      <4>1. DOMAIN y = {t} /\ y[t] = m[t]
        BY <3>1
      <4>2. E = D \cup {t}
        BY <3>3
      <4> HIDE DEF D, E, t, m, y
      <4>3. MapMerge(Restrict(m, D), y) = Restrict(m, D \cup {t})
        BY ONLY <4>1, MergeField
      <4> QED
        BY <4>2, <4>3 DEF D, E, t, m, y, DataUpTo
    <3>7. HopUpTo(p, r, k - 1).metadata = DataUpTo(p, r, k - 1)
      BY DEF HopUpTo, HopOf
    <3>8. [HopUpTo(p, r, k - 1) EXCEPT !.metadata = DataUpTo(p, r, k)] = HopUpTo(p, r, k)
      BY <3>5 DEF HopUpTo, HopOf
    <3> QED
      BY <1>0, <1>5, <2>2, <3>2, <3>6, <3>7, <3>8
  <2> QED
    BY <2>7, <2>8
<1> QED
  BY <1>6, <1>7

\* A hop is read as its node has recorded it.
LEMMA HopTaken ==
  ASSUME NEW p, PacketOk(p), NEW H, H = CpuHdrLen(p.shape), NEW b, b = KeepIntCpu(p),
         NEW at \in Nat, at + HopLen(p) <= Len(p.stack), NEW r, RecordOk(p, r, at)
  PROVE  TakeHop(b, 16 + H + at) = [pos |-> 16 + H + at + HopLen(p), hop |-> HopOfRecord(r)]
<1> DEFINE S == 16 + H + at
           A == Before(p, 10)
           g == [k \in 0 .. 9 |-> HopAt(p, H, at, r, k)]
           e == S + A
<1>1. H \in Nat /\ Len(p.stack) \in Nat /\ p.stack \in ByteSeqs
  <2>1. p.stack \in ByteSeqs
    BY PacketFields
  <2> QED
    BY <2>1, KeptLayout, ByteAt DEF KeptIs
<1>2. HopLen(p) \in Nat /\ A \in Nat /\ A <= HopLen(p) /\ Before(p, 1) = 0
  BY BeforeIs, FieldInHop
<1>3. g[0] = [pos |-> S, hop |-> Hop]
  <2>1. TypesUpTo(p, 0) = {} /\ {} \ {0} = {}
    BY TypesEnds
  <2>2. NodeUpTo(p, r, 0) = 0 /\ DataUpTo(p, r, 0) = <<>>
    <3>1. DataUpTo(p, r, 0) = [t \in {} |-> r.metadata[t]]
      BY <2>1 DEF DataUpTo, Restrict
    <3> QED
      BY <2>1, <3>1 DEF NodeUpTo
  <2>3. HopUpTo(p, r, 0) = Hop
    BY <2>2, HopEmptyType DEF HopUpTo
  <2>4. 0 + 1 = 1 /\ S + 0 = S /\ 0 \in 0 .. 9
    BY <1>1
  <2>5. g[0] = [pos |-> S + Before(p, 0 + 1), hop |-> HopUpTo(p, r, 0)]
    BY <2>4 DEF HopAt
  <2> HIDE DEF g, S
  <2> QED
    BY <1>2, <2>3, <2>4, <2>5
<1>4. ASSUME NEW k \in 1 .. 9 PROVE g[k] = FoldStep("field", b, g[k - 1], StackFields[k])
  <2>1. k \in 0 .. 9 /\ k - 1 \in 0 .. 9 /\ k - 1 + 1 = k
    OBVIOUS
  <2>2. g[k - 1] = HopAt(p, H, at, r, k - 1) /\ g[k] = HopAt(p, H, at, r, k)
    BY <2>1
  <2>3. TakeAsked(b, HopAt(p, H, at, r, k - 1), StackFields[k]) = HopAt(p, H, at, r, k)
    BY FieldTaken
  <2>4. \A y, z : FoldStep("field", b, y, z) = TakeAsked(b, y, z)
    BY DEF FoldStep
  <2> HIDE DEF g, S
  <2> QED
    BY <2>2, <2>3, <2>4
<1>5. g[9] = [pos |-> e, hop |-> HopUpTo(p, r, 9)]
  <2>1. 9 \in 0 .. 9 /\ 9 + 1 = 10
    OBVIOUS
  <2>2. g[9] = [pos |-> S + Before(p, 9 + 1), hop |-> HopUpTo(p, r, 9)]
    BY <2>1 DEF HopAt
  <2> HIDE DEF g, S
  <2> QED
    BY <2>1, <2>2
<1>6. FoldLeft(LAMBDA acc, f : TakeAsked(b, acc, f), [pos |-> S, hop |-> Hop], StackFields)
        = g[9]
  <2> HIDE DEF g, S
  <2>1. ASSUME NEW n, n = 9
        PROVE  FoldOf("field", b, [pos |-> S, hop |-> Hop], StackFields) = g[n]
    <3>1. DOMAIN StackFields = 1 .. n /\ n \in Nat
      BY <2>1 DEF StackFields
    <3>2. Run(g, "field", b, [pos |-> S, hop |-> Hop], StackFields, n)
      BY <2>1, <1>3, <1>4 DEF Run
    <3> QED
      BY ONLY <3>1, <3>2, FoldOfIs
  <2>2. FoldOf("field", b, [pos |-> S, hop |-> Hop], StackFields) = g[9]
    BY <2>1
  <2> QED
    BY ONLY <2>2, TakeFieldsIs
<1>7. HopUpTo(p, r, 9) = HopOf(0, r.nodeId, r.metadata, <<>>)
  <2>1. /\ TypesUpTo(p, 9) = Types(p) /\ r.metadata \in [Types(p) \ {0} -> Seq(0 .. 255)]
        /\ 0 \in Types(p) \/ r.nodeId = 0
    BY TypesEnds DEF RecordOk
  <2> QED
    <3>1. [t \in Types(p) \ {0} |-> r.metadata[t]] = r.metadata
      BY <2>1
    <3>2. DataUpTo(p, r, 9) = r.metadata
      BY <2>1, <3>1 DEF DataUpTo, Restrict
    <3>3. NodeUpTo(p, r, 9) = r.nodeId
      BY <2>1 DEF NodeUpTo
    <3> QED
      BY <3>2, <3>3 DEF HopUpTo
<1>8. BitmapScion(b) = p.bitmapScion
  BY HeaderIsRead DEF HeaderRead
<1> DEFINE h == [pos |-> e, hop |-> HopOf(0, r.nodeId, r.metadata, <<>>)]
<1>9. TakeHop(b, S) = IF p.bitmapScion % 2 = 1
                      THEN [pos |-> h.pos + 8, hop |-> [h.hop EXCEPT !.asn = takeUint64(b, h.pos)]]
                      ELSE h
  <2> HIDE DEF g, S, e
  <2> QED
    BY <1>5, <1>6, <1>7, <1>8 DEF TakeHop
<1>10. CASE p.bitmapScion % 2 = 1
  <2>1. HopLen(p) = A + 8 /\ e + 8 = S + HopLen(p)
    <3>1. HopLen(p) = A + 8
      BY <1>10, FieldInHop
    <3>2. at \in Nat
      OBVIOUS
    <3> HIDE DEF A
    <3> QED
      BY ONLY <1>1, <1>2, <3>1, <3>2 DEF S, e
  <2>2. takeUint64(b, e) = r.asn
    <3>1. Bytes(b, 16 + H + (at + A), 8) = Bytes(p.stack, at + A, 8)
      <4>1. at + A \in Nat /\ at + A + 8 <= Len(p.stack) /\ 8 \in Nat
        <5>1. /\ at \in Nat /\ at + HopLen(p) <= Len(p.stack) /\ HopLen(p) = A + 8
              /\ A \in Nat /\ Len(p.stack) \in Nat
          BY <1>1, <1>2, <2>1
        <5> HIDE DEF A
        <5> QED
          BY ONLY <5>1
      <4> QED
        BY <4>1, StackIsRead
    <3>2. Bytes(p.stack, at + A, 8) = toBitstring(8, r.asn) /\ r.asn \in Fixed(8)
      BY <1>10, FitsFixed DEF RecordOk
    <3>3. Numeral(toBitstring(8, r.asn), 256) = r.asn
      BY <3>2, BitstringReadsBack
    <3>4. 16 + H + (at + A) = e
      BY <1>1, <1>2
    <3> QED
      BY <3>1, <3>2, <3>3, <3>4 DEF takeUint64
  <2> HIDE DEF S, e
  <2> QED
    <3>1. TakeHop(b, S) = [pos |-> S + HopLen(p),
                           hop |-> [HopOf(0, r.nodeId, r.metadata, <<>>) EXCEPT !.asn = r.asn]]
      BY <1>9, <1>10, <2>1, <2>2
    <3>2. [HopOf(0, r.nodeId, r.metadata, <<>>) EXCEPT !.asn = r.asn] = HopOfRecord(r)
      BY DEF HopOfRecord, HopOf
    <3> QED
      BY <3>1, <3>2 DEF S
<1>11. CASE p.bitmapScion % 2 # 1
  <2>1. HopLen(p) = A /\ e = S + HopLen(p)
    BY <1>11, FieldInHop
  <2>2. r.asn = 0
    BY <1>11 DEF RecordOk
  <2> HIDE DEF S, e
  <2> QED
    <3>1. TakeHop(b, S) = h
      BY <1>9, <1>11
    <3> QED
      BY <2>1, <2>2, <3>1 DEF S, HopOfRecord
<1> QED
  BY <1>10, <1>11
-----------------------------------------------------------------------------
\* What a node has recorded is a hop of a report, and its fields have places.
LEMMA RecordIsHop ==
  ASSUME NEW p, NEW r, NEW at, RecordOk(p, r, at)
  PROVE  /\ HopOfRecord(r) \in Hops
         /\ DOMAIN HopOfRecord(r).metadata \subseteq {Order[j] : j \in 1 .. Len(Order)}
<1>1. /\ Fits32(r.nodeId) /\ Fits64(r.asn)
      /\ r.metadata \in [Types(p) \ {0} -> ByteSeqs]
  BY DEF RecordOk, ByteSeqs
<1>2. r.nodeId \in Nat /\ r.asn \in Nat
  BY <1>1, FitsWider
<1>3. Types(p) \subseteq 0 .. 8
  <2>1. \A k \in 1 .. 9 : StackFields[k].type \in 0 .. 8
    BY FieldIs
  <2>2. TypesUpTo(p, 9) = Types(p)
    BY TypesEnds
  <2> QED
    BY <2>1, <2>2 DEF TypesUpTo
<1>4. Types(p) \ {0} \in SUBSET Nat
  BY <1>3
<1>5. r.metadata \in Metadatas
  BY <1>1, <1>4 DEF Metadatas
<1>6. HopOfRecord(r) \in Hops
  BY <1>2, <1>5, UnknownNothing, HopOfType DEF HopOfRecord
<1>7. DOMAIN HopOfRecord(r).metadata = Types(p) \ {0}
  BY <1>1 DEF HopOfRecord, HopOf
<1>8. ASSUME NEW t \in 1 .. 8 PROVE t \in {Order[j] : j \in 1 .. Len(Order)}
  <2>1. Len(Order) = 8 /\ \A j \in 1 .. 8 : Order[j] = j
    BY DEF Order
  <2> QED
    BY <2>1
<1>9. Types(p) \ {0} \subseteq 1 .. 8
  BY <1>3
<1> QED
  BY <1>6, <1>7, <1>8, <1>9

\* The hops of a stack: how many there are, and where each begins.
LEMMA Quotient ==
  ASSUME NEW k \in Nat \ {0}, NEW n \in Nat
  PROVE  (k * n) \div k = n /\ k * n \in Nat
  OBVIOUS

LEMMA Product ==
  ASSUME NEW l \in Nat, NEW n \in Nat, NEW k \in 1 .. n
  PROVE  /\ (k - 1) * l \in Nat /\ (k - 1) * l + l = k * l /\ k * l <= n * l
<1>1. k - 1 \in Nat /\ n - k \in Nat /\ k \in Nat
  OBVIOUS
<1>2. (k - 1) * l \in Nat /\ (n - k) * l \in Nat /\ k * l \in Nat
  BY <1>1
<1>3. (k - 1) * l + l = k * l /\ k * l + (n - k) * l = n * l
  BY <1>1
<1> QED
  BY <1>2, <1>3

-----------------------------------------------------------------------------
(* The hops of the stack. *)
HopsUpTo(p, k)   == [j \in 1 .. k |-> HopOfRecord(p.recorded[j])]
StackAt(p, H, k) == [pos |-> 16 + H + k * HopLen(p), hops |-> HopsUpTo(p, k)]

\* What the packet says of its hops, in the terms of the controller.
LEMMA Recorded ==
  ASSUME NEW p, PacketOk(p)
  PROVE  /\ Len(p.recorded) \in Nat /\ DOMAIN p.recorded = 1 .. Len(p.recorded)
         /\ \A k \in 1 .. Len(p.recorded) : RecordOk(p, p.recorded[k], (k - 1) * HopLen(p))
         /\ p.length - 3 = p.hopML * Len(p.recorded)
         /\ Len(p.stack) = Len(p.recorded) * HopLen(p)
<1>1. p.recorded \in Seq(ToSet(p.recorded)) /\ \A k \in DOMAIN p.recorded : RecordOk(p, p.recorded[k], (k - 1) * HopLen(p))
  BY DEF PacketOk
<1>2. Len(p.recorded) \in Nat /\ DOMAIN p.recorded = 1 .. Len(p.recorded)
  BY <1>1
<1>3. p.length = 3 + p.hopML * Len(p.recorded) /\ p.hopML \in 0 .. 31
      /\ Len(p.stack) = HopLen(p) * Len(p.recorded)
  BY DEF PacketOk
<1>4. HopLen(p) \in Nat
  BY FieldInHop
<1>5. /\ p.length - 3 = p.hopML * Len(p.recorded)
      /\ Len(p.stack) = Len(p.recorded) * HopLen(p)
  <2> DEFINE m == p.hopML
             n == Len(p.recorded)
             l == HopLen(p)
  <2>0. p.length = 3 + m * n /\ Len(p.stack) = l * n /\ n \in Nat /\ l \in Nat
    BY ONLY <1>2, <1>3, <1>4 DEF m, n, l
  <2>1. m \in Nat /\ n \in Nat /\ l \in Nat /\ p.length = 3 + m * n /\ Len(p.stack) = l * n
    <3>0. p.hopML \in 0 .. 31
      BY PacketFields
    <3>1. p.hopML \in Nat
      BY ONLY <3>0
    <3> QED
      BY ONLY <2>0, <3>1 DEF m
  <2> HIDE DEF m, n, l
  <2>2. m * n \in Nat /\ l * n = n * l
    BY ONLY <2>1
  <2>3. p.length - 3 = m * n /\ Len(p.stack) = n * l
    BY ONLY <2>1, <2>2
  <2> QED
    BY <2>3 DEF m, n, l
<1> QED
  BY <1>1, <1>2, <1>5

\* The hops read so far, and the next one.
LEMMA HopsGrow ==
  ASSUME NEW p, PacketOk(p), NEW k \in 1 .. Len(p.recorded)
  PROVE  /\ Append(HopsUpTo(p, k - 1), HopOfRecord(p.recorded[k])) = HopsUpTo(p, k)
         /\ HopsUpTo(p, k) \in Seq(Hops) /\ Len(HopsUpTo(p, k)) = k
<1>1. ASSUME NEW j \in 1 .. Len(p.recorded) PROVE HopOfRecord(p.recorded[j]) \in Hops
  BY Recorded, RecordIsHop
<1> DEFINE a == HopsUpTo(p, k - 1)
           e == HopOfRecord(p.recorded[k])
           b == HopsUpTo(p, k)
<1>2. Len(p.recorded) \in Nat
  BY Recorded
<1>3. k \in Nat /\ k - 1 \in Nat /\ k - 1 + 1 = k /\ \A j \in 1 .. k : j \in 1 .. Len(p.recorded)
  BY <1>2
<1>4. a \in [1 .. k - 1 -> Hops] /\ b \in [1 .. k -> Hops]
  <2>1. \A j \in 1 .. k - 1 : j \in 1 .. Len(p.recorded)
    BY <1>3
  <2> QED
    BY <1>1, <1>3, <2>1 DEF HopsUpTo
<1>5. a \in Seq(Hops) /\ Len(a) = k - 1 /\ b \in Seq(Hops) /\ Len(b) = k
  BY <1>3, <1>4
<1>6. e \in Hops /\ e = b[k] /\ \A j \in 1 .. k - 1 : a[j] = b[j]
  BY <1>1, <1>3 DEF HopsUpTo
<1> HIDE DEF a, b, e
<1>7. Append(a, e) \in Seq(Hops) /\ Len(Append(a, e)) = k
  BY <1>3, <1>5, <1>6
<1>8. ASSUME NEW j \in 1 .. k PROVE Append(a, e)[j] = b[j]
  <2>1. CASE j = k
    BY <1>3, <1>5, <1>6, <2>1
  <2>2. CASE j \in 1 .. k - 1
    BY <1>3, <1>5, <1>6, <2>2
  <2>3. j = k \/ j \in 1 .. k - 1
    BY <1>3
  <2> QED
    BY ONLY <2>1, <2>2, <2>3
<1>9. Append(a, e) = b
  BY <1>5, <1>7, <1>8, SameSequence
<1> QED
  BY <1>5, <1>9 DEF a, b, e

\* AddHop reads the hop the k-th node has written.
LEMMA HopAdded ==
  ASSUME NEW p, PacketOk(p), NEW H, H = CpuHdrLen(p.shape), NEW b, b = KeepIntCpu(p),
         NEW k \in 1 .. Len(p.recorded)
  PROVE  AddHop(b, StackAt(p, H, k - 1)) = StackAt(p, H, k)
<1> DEFINE l == HopLen(p)
           n == Len(p.recorded)
           at == (k - 1) * l
           r == p.recorded[k]
<1>1. n \in Nat /\ RecordOk(p, r, at) /\ Len(p.stack) = n * l
  BY Recorded
<1>2. l \in Nat
  BY FieldInHop
<1>3. H \in Nat
  BY KeptLayout DEF KeptIs
<1>4. at \in Nat /\ at + l = k * l /\ k * l <= n * l
  BY <1>1, <1>2, Product
<1>5. TakeHop(b, 16 + H + at) = [pos |-> 16 + H + at + l, hop |-> HopOfRecord(r)]
  <2> HIDE DEF at, n, r
  <2>1. at + HopLen(p) <= Len(p.stack)
    BY <1>1, <1>4
  <2> QED
    BY <1>1, <1>4, <2>1, HopTaken
<1>6. StackAt(p, H, k - 1) = [pos |-> 16 + H + at, hops |-> HopsUpTo(p, k - 1)]
  BY DEF StackAt
<1>7. 16 + H + at + l = 16 + H + k * l
  <2> DEFINE m == k * l
  <2>1. at + l = m
    BY <1>4
  <2> HIDE DEF at, l, n, m
  <2>2. 16 + H + at + l = 16 + H + (at + l)
    BY ONLY <1>2, <1>3, <1>4
  <2>3. 16 + H + at + l = 16 + H + m
    BY ONLY <2>1, <2>2
  <2> QED
    BY ONLY <2>3 DEF m
<1>8. AddHop(b, StackAt(p, H, k - 1))
        = [pos |-> 16 + H + at + l, hops |-> Append(HopsUpTo(p, k - 1), HopOfRecord(r))]
  <2> HIDE DEF at, l, r
  <2>1. StackAt(p, H, k - 1).pos = 16 + H + at /\ StackAt(p, H, k - 1).hops = HopsUpTo(p, k - 1)
    BY <1>6
  <2> DEFINE s == StackAt(p, H, k - 1)
             h == TakeHop(b, s.pos)
  <2>2. h.pos = 16 + H + at + l /\ h.hop = HopOfRecord(r)
    BY <1>5, <2>1
  <2>3. AddHop(b, s) = [pos |-> h.pos, hops |-> Append(s.hops, h.hop)]
    BY DEF AddHop
  <2> HIDE DEF h, s
  <2> QED
    BY <2>1, <2>2, <2>3 DEF s
<1>9. Append(HopsUpTo(p, k - 1), HopOfRecord(r)) = HopsUpTo(p, k)
  BY HopsGrow
<1> QED
  BY <1>7, <1>8, <1>9 DEF StackAt

\* The hops of the report are what the nodes have recorded, one after the other.
LEMMA HopsRead ==
  ASSUME NEW p, PacketOk(p), NEW H, H = CpuHdrLen(p.shape), NEW b, b = KeepIntCpu(p), Accepted(b)
  PROVE  HopsOf(b) = HopsUpTo(p, Len(p.recorded))
<1> DEFINE n == Len(p.recorded)
           m == StackSize(b) \div HopSize(b)
           fs == [i \in 1 .. m |-> i]
           x == [pos |-> 16 + HdrLen(b), hops |-> <<>>]
           g == [k \in 0 .. n |-> StackAt(p, H, k)]
<1>1. n \in Nat /\ p.length - 3 = p.hopML * n
  BY Recorded
<1>2. /\ HdrLen(b) = H /\ StackSize(b) = p.length - 3 /\ HopSize(b) = p.hopML
  BY HeaderIsRead DEF HeaderRead
<1>3. p.hopML \in Nat \ {0}
  <2>1. HopSize(b) # 0
    BY DEF Accepted
  <2>2. p.hopML \in 0 .. 31
    BY PacketFields
  <2> QED
    BY <1>2, <2>1, <2>2
<1>4. m = n
  BY <1>1, <1>2, <1>3, Quotient
<1>5. H \in Nat /\ HopLen(p) \in Nat
  BY KeptLayout, FieldInHop DEF KeptIs
<1> HIDE DEF m
<1>6. DOMAIN fs = 1 .. n
  BY <1>4
<1>7. g[0] = x
  <2>1. 0 * HopLen(p) = 0 /\ 16 + H + 0 = 16 + H /\ 0 \in 0 .. n
    BY <1>1, <1>5
  <2>2. HopsUpTo(p, 0) = <<>>
    BY DEF HopsUpTo
  <2>3. g[0] = StackAt(p, H, 0)
    BY <2>1
  <2> HIDE DEF g, n
  <2> QED
    BY <1>2, <2>1, <2>2, <2>3 DEF StackAt
<1>8. ASSUME NEW k \in 1 .. n PROVE g[k] = FoldStep("hop", b, g[k - 1], fs[k])
  <2>1. g[k] = StackAt(p, H, k) /\ g[k - 1] = StackAt(p, H, k - 1)
    BY <1>1
  <2>2. AddHop(b, StackAt(p, H, k - 1)) = StackAt(p, H, k)
    BY HopAdded
  <2>3. \A y, z : FoldStep("hop", b, y, z) = AddHop(b, y)
    BY DEF FoldStep
  <2> HIDE DEF g, fs
  <2> QED
    BY <2>1, <2>2, <2>3
<1>9. Run(g, "hop", b, x, fs, n)
  <2> HIDE DEF g, x, fs, n
  <2> QED
    BY <1>7, <1>8 DEF Run
<1>10. FoldOf("hop", b, x, fs) = g[n]
  <2> HIDE DEF g, x, fs, n
  <2> QED
    BY ONLY <1>1, <1>6, <1>9, FoldOfIs
<1>11. HopsOf(b) = FoldLeft(LAMBDA acc, i : AddHop(b, acc), x, fs).hops
  BY DEF HopsOf, m
<1>12. FoldLeft(LAMBDA acc, i : AddHop(b, acc), x, fs) = FoldOf("hop", b, x, fs)
  <2> HIDE DEF x, fs
  <2> QED
    BY ONLY AddHopsIs
<1>13. g[n] = StackAt(p, H, n)
  BY <1>1
<1>14. StackAt(p, H, n).hops = HopsUpTo(p, n)
  BY DEF StackAt
<1> HIDE DEF g, x, fs
<1> QED
  BY <1>10, <1>11, <1>12, <1>13, <1>14

\* The report has the hops of the packet,
LEMMA ReportFilled ==
  ASSUME NEW h, NEW n, NEW t
  PROVE  [Report EXCEPT !.hops = h, !.packetType = n, !.truncated = t] = ReportWith(h, n, t, <<>>)
<1> DEFINE r == [Report EXCEPT !.hops = h, !.packetType = n, !.truncated = t]
<1>1. DOMAIN Report = {"hops", "packetType", "truncated", "unknown"} /\ Report.unknown = <<>>
  BY DEF Report
<1>2. r.hops = h /\ r.packetType = n /\ r.truncated = t /\ r.unknown = <<>>
  BY <1>1
<1>3. r = [f \in DOMAIN Report |-> r[f]]
  OBVIOUS
<1> HIDE DEF r
<1>4. r = [hops |-> r.hops, packetType |-> r.packetType, truncated |-> r.truncated, unknown |-> r.unknown]
  BY <1>1, <1>3
<1> QED
  BY <1>2, <1>4 DEF ReportWith, r

LEMMA ReportOfIs ==
  ASSUME NEW p, PacketOk(p), NEW H, H = CpuHdrLen(p.shape), NEW b, b = KeepIntCpu(p), Accepted(b)
  PROVE  /\ ReportOf(b) \in Reports /\ Covers(Order, ReportOf(b).hops)
         /\ ReportOf(b).hops = HopsUpTo(p, Len(p.recorded)) /\ ReportOf(b).packetType = 4
<1> DEFINE h == HopsUpTo(p, Len(p.recorded))
           t == Bytes(b, 8, HdrLen(b))
<1>1. ReportOf(b) = ReportWith(h, 4, t, <<>>)
  <2>1. HopsOf(b) = h
    BY HopsRead
  <2> QED
    <3>1. ReportOf(b) = [Report EXCEPT !.hops = h, !.packetType = 4, !.truncated = t]
      BY <2>1 DEF ReportOf
    <3> HIDE DEF h, t
    <3>2. [Report EXCEPT !.hops = h, !.packetType = 4, !.truncated = t] = ReportWith(h, 4, t, <<>>)
      BY ONLY ReportFilled
    <3> QED
      BY <3>1, <3>2
<1>2. Len(p.recorded) \in Nat /\ \A k \in 1 .. Len(p.recorded) : RecordOk(p, p.recorded[k], (k - 1) * HopLen(p))
  BY Recorded
<1>3. h \in [1 .. Len(p.recorded) -> Hops]
  BY <1>2, RecordIsHop DEF HopsUpTo
<1>4. h \in Seq(Hops) /\ Len(h) = Len(p.recorded)
  BY <1>2, <1>3
<1>5. t \in ByteSeqs
  BY TruncatedBytes
<1>6. Covers(Order, h)
  <2>1. ASSUME NEW k \in 1 .. Len(p.recorded)
        PROVE  DOMAIN h[k].metadata \subseteq {Order[j] : j \in 1 .. Len(Order)}
    <3>1. h[k] = HopOfRecord(p.recorded[k])
      BY DEF HopsUpTo
    <3> QED
      BY <1>2, <3>1, RecordIsHop
  <2> HIDE DEF h
  <2> QED
    BY <1>4, <2>1 DEF Covers
<1> HIDE DEF h, t
<1>7. ReportWith(h, 4, t, <<>>) \in Reports
  BY <1>4, <1>5, UnknownNothing, ReportWithType
<1>8. ReportWith(h, 4, t, <<>>).hops = h /\ ReportWith(h, 4, t, <<>>).packetType = 4
  BY DEF ReportWith
<1> QED
  BY <1>1, <1>6, <1>7, <1>8 DEF h

\* and its key the flow ID alone.
LEMMA KeyOfIs ==
  ASSUME NEW p, PacketOk(p), NEW b, b = KeepIntCpu(p)
  PROVE  KeyOf(b) \in FlowKeys /\ KeyOf(b) = [FlowKey EXCEPT !.flowId = p.flow]
<1>1. takeUint32(b, 16) = FirstWord(p) /\ FirstWord(p) % 1048576 = p.flow /\ p.flow \in Nat
  <2>1. p.flow \in Nat
    BY SMT DEF PacketOk
  <2>2. FirstWord(p) % 1048576 = p.flow
    BY SMT, FirstWordFits
  <2>3. takeUint32(b, 16) = FirstWord(p)
    BY SMT, HeaderIsRead DEF HeaderRead
  <2> QED
    BY SMT, <2>1, <2>2, <2>3
<1>2. KeyOf(b) = [FlowKey EXCEPT !.flowId = p.flow]
  BY SMT, <1>1 DEF KeyOf
<1>3. [FlowKey EXCEPT !.flowId = p.flow] = FlowKeyOf(0, 0, p.flow, NotSet, NotSet, 0, 0, 0, <<>>)
  BY DEF FlowKey, FlowKeyOf
<1>4. NotSet \in Ips /\ <<>> \in Unknowns(FlowKeyTags)
  BY UnknownNothing DEF Ips
<1>5. FlowKeyOf(0, 0, p.flow, NotSet, NotSet, 0, 0, 0, <<>>) \in FlowKeys
  <2>1. p.flow \in Nat /\ 0 \in Nat
    BY SMT, <1>1
  <2> QED
    BY ONLY <1>4, <2>1, FlowKeyOfType
<1> QED
  BY SMT, <1>2, <1>3, <1>5
-----------------------------------------------------------------------------
\* A packet-in the controller takes for a report is that of a packet.
LEMMA AcceptedIsPacket ==
  ASSUME NEW b \in Payloads, Accepted(b)
  PROVE  \E p \in ToSet(Packets) : b = KeepIntCpu(p) /\ PacketOk(p)
BY OthersAssumption, PacketsAssumption DEF Payloads

\* Both are read back from the message.
LEMMA MessageReadsBack ==
  ASSUME NEW p, PacketOk(p), NEW b, b = KeepIntCpu(p), Accepted(b)
  PROVE  /\ MessageOf(b).value \in ByteSeqs
         /\ ReportReadable(MessageOf(b).value)
         /\ ReportParse(Report, MessageOf(b).value) = ReportOf(b)
         /\ FlowKeyReadable(MessageOf(b).key)
         /\ FlowKeyParse(FlowKey, MessageOf(b).key) = KeyOf(b)
<1>1. ReportOf(b) \in Reports /\ Covers(Order, ReportOf(b).hops)
  BY ReportOfIs
<1>2. Order \in Seq(Nat)
  BY DEF Order
<1>3. KeyOf(b) \in FlowKeys
  BY KeyOfIs
<1>4. /\ MessageOf(b).value = ReportSerialize(ReportOf(b), Order)
      /\ MessageOf(b).key = FlowKeySerialize(KeyOf(b))
  BY DEF MessageOf
<1>5. /\ ReportSerialize(ReportOf(b), Order) \in ByteSeqs
      /\ ReportReadable(ReportSerialize(ReportOf(b), Order))
      /\ ReportParse(Report, ReportSerialize(ReportOf(b), Order)) = ReportOf(b)
  BY ONLY <1>1, <1>2, ReportReadsBack
<1>6. /\ FlowKeyReadable(FlowKeySerialize(KeyOf(b)))
      /\ FlowKeyParse(FlowKey, FlowKeySerialize(KeyOf(b))) = KeyOf(b)
  BY ONLY <1>3, FlowKeyReadsBack
<1> QED
  BY ONLY <1>4, <1>5, <1>6

\* Reports are byte strings.
LEMMA MessagesSerialized ==
  ASSUME NEW m \in Messages
  PROVE  m.message.value \in Seq(0 .. 255)
<1>1. m.of \in Payloads /\ Accepted(m.of) /\ m.message = MessageOf(m.of)
  BY DEF Messages
<1>2. PICK p \in ToSet(Packets) : m.of = KeepIntCpu(p) /\ PacketOk(p)
  BY <1>1, AcceptedIsPacket
<1>3. MessageOf(m.of).value \in ByteSeqs
  BY <1>1, <1>2, MessageReadsBack
<1> QED
  BY <1>1, <1>3 DEF ByteSeqs

-----------------------------------------------------------------------------
(* The topic. *)

\* The digits of a number with two bytes more.
LEMMA LowWord ==
  ASSUME NEW n \in Nat, NEW h \in Nat, h < 65536
  PROVE  /\ n * 65536 + h \in Nat
         /\ (n * 65536 + h) % 256 = h % 256
         /\ ((n * 65536 + h) \div 256) % 256 = (h \div 256) % 256
         /\ ((n * 65536 + h) \div 256) \div 256 = n
<1>1. (n * 65536 + h) \div 256 = n * 256 + h \div 256 /\ (n * 65536 + h) % 256 = h % 256
  BY SMT
<1>2. h \div 256 \in Nat /\ h \div 256 < 256
  BY SMT
<1>3. (n * 256 + h \div 256) % 256 = h \div 256 /\ (n * 256 + h \div 256) \div 256 = n
  BY SMT, <1>2
<1>4. (h \div 256) % 256 = h \div 256
  BY SMT, <1>2
<1> QED
  BY SMT, <1>1, <1>3, <1>4

\* Two bytes of a number are a word.
LEMMA WordPart ==
  ASSUME NEW b \in ByteSeqs, NEW pos \in Nat, pos + 2 <= Len(b), NEW h \in Nat,
         b[pos + 1] = (h \div 256) % 256, b[pos + 2] = h % 256
  PROVE  Part(b, pos, toBitstring(2, h))
<1> DEFINE w == toBitstring(2, h)
           d == Digits(h, 256, 2)
<1>1. w \in ByteSeqs /\ Len(w) = 2 /\ \A i \in 1 .. 2 : w[i] = d[2 - i + 1]
  <2>1. ASSUME NEW k \in Nat
        PROVE  /\ toBitstring(k, h) \in ByteSeqs /\ Len(toBitstring(k, h)) = k
               /\ \A i \in 1 .. k : toBitstring(k, h)[i] = Digits(h, 256, k)[k - i + 1]
    BY ONLY <2>1, h \in Nat, BitstringIs
  <2>2. 2 \in Nat
    OBVIOUS
  <2> HIDE DEF w, d
  <2> QED
    BY ONLY <2>1, <2>2 DEF w, d
<1>2. 256 \in Bases
  BY DEF Bases
<1>3. PICK q : Quotients(q, h, 256, 2) /\ DigitsFrom(q, h, 256, 2)
  BY <1>2, DigitsAre
<1>4. q[0] = h /\ \A i \in 1 .. 2 : q[i] = q[i - 1] \div 256 /\ d[i] = q[i - 1] % 256
  BY ONLY <1>3 DEF Quotients, DigitsFrom
<1> HIDE DEF d, w
<1>5. d[1] = h % 256 /\ d[2] = (h \div 256) % 256
  <2>1. q[1] = q[1 - 1] \div 256 /\ d[1] = q[1 - 1] % 256 /\ d[2] = q[2 - 1] % 256
    BY ONLY <1>4
  <2> QED
    BY ONLY <2>1, <1>4
<1>6. w[1] = d[2 - 1 + 1] /\ w[2] = d[2 - 2 + 1]
  BY <1>1
<1>7. w[1] = b[pos + 1] /\ w[2] = b[pos + 2]
  BY <1>5, <1>6
<1>8. \A i \in 1 .. 2 : b[pos + i] = w[i]
  BY <1>7
<1> QED
  BY <1>1, <1>8 DEF Part, w

Words(b, x, y, z) ==
  /\ Part(b, 0, toBitstring(2, x)) /\ Part(b, 2, toBitstring(2, y))
  /\ Part(b, 4, toBitstring(2, z))

\* Three words make an AS number, the highest first.
LEMMA ThreeWords ==
  ASSUME NEW x \in Nat, NEW y \in Nat, NEW z \in Nat, x < 65536, y < 65536, z < 65536,
         NEW n, n = (x * 65536 + y) * 65536 + z
  PROVE  Words(toBitstring(6, n), x, y, z)
<1> DEFINE m == x * 65536 + y
           b == toBitstring(6, n)
           d == Digits(n, 256, 6)
<1>1. m \in Nat /\ m % 256 = y % 256 /\ (m \div 256) % 256 = (y \div 256) % 256 /\ (m \div 256) \div 256 = x
  BY LowWord
<1>2. n = m * 65536 + z
  OBVIOUS
<1> HIDE DEF m
<1>3. /\ m * 65536 + z \in Nat /\ (m * 65536 + z) % 256 = z % 256
      /\ ((m * 65536 + z) \div 256) % 256 = (z \div 256) % 256
      /\ ((m * 65536 + z) \div 256) \div 256 = m
  BY ONLY <1>1, LowWord, z \in Nat, z < 65536
<1>4. n \in Nat /\ n % 256 = z % 256 /\ (n \div 256) % 256 = (z \div 256) % 256 /\ (n \div 256) \div 256 = m
  BY ONLY <1>2, <1>3
<1>5. b \in ByteSeqs /\ Len(b) = 6 /\ \A i \in 1 .. 6 : b[i] = d[6 - i + 1]
  <2>1. ASSUME NEW k \in Nat
        PROVE  /\ toBitstring(k, n) \in ByteSeqs /\ Len(toBitstring(k, n)) = k
               /\ \A i \in 1 .. k : toBitstring(k, n)[i] = Digits(n, 256, k)[k - i + 1]
    <3>1. n \in Nat
      BY ONLY <1>4
    <3> QED
      BY ONLY <2>1, <3>1, BitstringIs
  <2>2. 6 \in Nat
    OBVIOUS
  <2> HIDE DEF b, d
  <2> QED
    BY ONLY <2>1, <2>2 DEF b, d
<1>6. 256 \in Bases
  BY DEF Bases
<1>7. PICK q : Quotients(q, n, 256, 6) /\ DigitsFrom(q, n, 256, 6)
  BY <1>4, <1>6, DigitsAre
<1>8. q[0] = n /\ \A i \in 1 .. 6 : q[i] = q[i - 1] \div 256 /\ d[i] = q[i - 1] % 256
  BY <1>7 DEF Quotients, DigitsFrom
<1> HIDE DEF d, b
<1>9. /\ q[1] = q[1 - 1] \div 256 /\ q[2] = q[2 - 1] \div 256 /\ q[3] = q[3 - 1] \div 256
      /\ q[4] = q[4 - 1] \div 256 /\ q[5] = q[5 - 1] \div 256
      /\ d[1] = q[1 - 1] % 256 /\ d[2] = q[2 - 1] % 256 /\ d[3] = q[3 - 1] % 256
      /\ d[4] = q[4 - 1] % 256 /\ d[5] = q[5 - 1] % 256 /\ d[6] = q[6 - 1] % 256
  BY ONLY <1>8
<1>10. /\ 1 - 1 = 0 /\ 2 - 1 = 1 /\ 3 - 1 = 2 /\ 4 - 1 = 3 /\ 5 - 1 = 4 /\ 6 - 1 = 5
       /\ 6 - 1 + 1 = 6 /\ 6 - 2 + 1 = 5 /\ 6 - 3 + 1 = 4 /\ 6 - 4 + 1 = 3 /\ 6 - 5 + 1 = 2
       /\ 6 - 6 + 1 = 1 /\ 0 + 1 = 1 /\ 0 + 2 = 2 /\ 2 + 1 = 3 /\ 2 + 2 = 4 /\ 4 + 1 = 5 /\ 4 + 2 = 6
  OBVIOUS
<1>11. /\ q[0] = n /\ q[1] = q[0] \div 256 /\ q[2] = q[1] \div 256 /\ q[3] = q[2] \div 256
       /\ q[4] = q[3] \div 256 /\ q[5] = q[4] \div 256
       /\ d[1] = q[0] % 256 /\ d[2] = q[1] % 256 /\ d[3] = q[2] % 256
       /\ d[4] = q[3] % 256 /\ d[5] = q[4] % 256 /\ d[6] = q[5] % 256
  BY ONLY <1>8, <1>9, <1>10
<1>12. q[1] = n \div 256 /\ q[2] = m
  <2>1. q[0] = n /\ q[1] = q[0] \div 256 /\ q[2] = q[1] \div 256
    BY ONLY <1>11
  <2>2. (n \div 256) \div 256 = m
    BY ONLY <1>4
  <2> QED
    BY ONLY <2>1, <2>2
<1>13. q[3] = m \div 256 /\ q[4] = x
  <2>1. q[3] = q[2] \div 256 /\ q[4] = q[3] \div 256 /\ q[2] = m
    BY ONLY <1>11, <1>12
  <2>2. (m \div 256) \div 256 = x
    BY ONLY <1>1
  <2> QED
    BY ONLY <2>1, <2>2
<1>14. d[1] = z % 256 /\ d[2] = (z \div 256) % 256
  <2>1. q[0] = n /\ q[1] = n \div 256 /\ d[1] = q[0] % 256 /\ d[2] = q[1] % 256
    BY ONLY <1>11, <1>12
  <2>2. n % 256 = z % 256 /\ (n \div 256) % 256 = (z \div 256) % 256
    BY ONLY <1>4
  <2> QED
    BY ONLY <2>1, <2>2
<1>15. d[3] = y % 256 /\ d[4] = (y \div 256) % 256
  <2>1. q[2] = m /\ q[3] = m \div 256 /\ d[3] = q[2] % 256 /\ d[4] = q[3] % 256
    BY ONLY <1>11, <1>12, <1>13
  <2>2. m % 256 = y % 256 /\ (m \div 256) % 256 = (y \div 256) % 256
    BY ONLY <1>1
  <2> QED
    BY ONLY <2>1, <2>2
<1>16. d[5] = x % 256 /\ d[6] = (x \div 256) % 256
  <2>1. q[4] = x /\ q[5] = q[4] \div 256 /\ d[5] = q[4] % 256 /\ d[6] = q[5] % 256
    BY ONLY <1>11, <1>13
  <2> QED
    BY ONLY <2>1
<1>17. /\ b[1] = d[6] /\ b[2] = d[5] /\ b[3] = d[4] /\ b[4] = d[3] /\ b[5] = d[2] /\ b[6] = d[1]
  <2>1. /\ b[1] = d[6 - 1 + 1] /\ b[2] = d[6 - 2 + 1] /\ b[3] = d[6 - 3 + 1]
        /\ b[4] = d[6 - 4 + 1] /\ b[5] = d[6 - 5 + 1] /\ b[6] = d[6 - 6 + 1]
    BY ONLY <1>5
  <2> QED
    BY ONLY <2>1, <1>10
<1>18. Part(b, 0, toBitstring(2, x))
  <2>1. b[0 + 1] = (x \div 256) % 256 /\ b[0 + 2] = x % 256
    BY ONLY <1>10, <1>16, <1>17
  <2>2. 0 + 2 <= Len(b)
    BY ONLY <1>5
  <2> QED
    BY ONLY <2>1, <2>2, <1>5, WordPart, x \in Nat, 0 \in Nat
<1>19. Part(b, 2, toBitstring(2, y))
  <2>1. b[2 + 1] = (y \div 256) % 256 /\ b[2 + 2] = y % 256
    BY ONLY <1>10, <1>15, <1>17
  <2>2. 2 + 2 <= Len(b)
    BY ONLY <1>5
  <2> QED
    BY ONLY <2>1, <2>2, <1>5, WordPart, y \in Nat, 2 \in Nat
<1>20. Part(b, 4, toBitstring(2, z))
  <2>1. b[4 + 1] = (z \div 256) % 256 /\ b[4 + 2] = z % 256
    BY ONLY <1>10, <1>14, <1>17
  <2>2. 4 + 2 <= Len(b)
    BY ONLY <1>5
  <2> QED
    BY ONLY <2>1, <2>2, <1>5, WordPart, z \in Nat, 4 \in Nat
<1> QED
  BY ONLY <1>18, <1>19, <1>20 DEF b, Words

\* The address of this AS, word by word.
HostWord(i) == Hex(HostText.parts[i])

\* The address the controller was started with, word by word.
LEMMA HostWords ==
  /\ \A i \in 1 .. 3 : HostWord(i) \in Nat /\ HostWord(i) < 65536
  /\ splitScionAddress(HostText).isd \in Nat
  /\ splitScionAddress(HostText).as
       = (HostWord(1) * 65536 + HostWord(2)) * 65536 + HostWord(3)
<1>1. ASSUME NEW d \in Seq(0 .. 15) PROVE Hex(d) \in Nat
  <2>1. d \in Seq(Nat) /\ 16 \in Nat
    OBVIOUS
  <2> QED
    BY <2>1, NumeralType DEF Hex
<1>2. ASSUME NEW i \in 1 .. 3 PROVE HostWord(i) \in Nat /\ HostWord(i) < 65536
  BY <1>1, HostAssumption DEF HostWord
<1>3. splitScionAddress(HostText).isd \in Nat
  <2>1. Hex(HostText.isd) \in Nat
    BY <1>1, HostAssumption
  <2>2. splitScionAddress(HostText).isd = Hex(HostText.isd) % 65536
    BY DEF splitScionAddress
  <2> HIDE DEF Hex
  <2> QED
    BY <2>1, <2>2
<1> DEFINE fs == [i \in DOMAIN HostText.parts |-> Hex(HostText.parts[i])]
<1>4. splitScionAddress(HostText).as = FoldOf("numeral", 65536, 0, fs)
  BY NumeralIs DEF splitScionAddress
<1>5. ASSUME NEW n, n = 3
      PROVE  \E g : Run(g, "numeral", 65536, 0, fs, n) /\ FoldOf("numeral", 65536, 0, fs) = g[n]
  <2>1. DOMAIN fs = 1 .. n /\ n \in Nat
    BY <1>5, HostAssumption
  <2> HIDE DEF fs
  <2> QED
    BY ONLY <2>1, FoldOfRuns
<1>6. PICK g : Run(g, "numeral", 65536, 0, fs, 3) /\ FoldOf("numeral", 65536, 0, fs) = g[3]
  BY <1>5
<1>7. \A i \in 1 .. 3 : fs[i] = HostWord(i)
  BY HostAssumption DEF HostWord
<1> HIDE DEF fs
<1>8. g[0] = 0 /\ \A k \in 1 .. 3 : g[k] = 65536 * g[k - 1] + fs[k]
  BY <1>6 DEF Run, FoldStep
<1>9. /\ g[0] = 0 /\ g[1] = 65536 * g[0] + fs[1] /\ g[2] = 65536 * g[1] + fs[2]
      /\ g[3] = 65536 * g[2] + fs[3]
  <2>1. /\ g[1] = 65536 * g[1 - 1] + fs[1] /\ g[2] = 65536 * g[2 - 1] + fs[2]
        /\ g[3] = 65536 * g[3 - 1] + fs[3] /\ g[0] = 0
    BY ONLY <1>8
  <2>2. 1 - 1 = 0 /\ 2 - 1 = 1 /\ 3 - 1 = 2
    OBVIOUS
  <2> QED
    BY ONLY <2>1, <2>2
<1>10. fs[1] = HostWord(1) /\ fs[2] = HostWord(2) /\ fs[3] = HostWord(3)
  BY ONLY <1>7
<1>11. HostWord(1) \in Nat /\ HostWord(2) \in Nat /\ HostWord(3) \in Nat
  BY ONLY <1>2
<1>12. g[3] = (HostWord(1) * 65536 + HostWord(2)) * 65536 + HostWord(3)
  <2> HIDE DEF HostWord
  <2> QED
    BY ONLY <1>9, <1>10, <1>11
<1> QED
  BY ONLY <1>2, <1>3, <1>4, <1>6, <1>12

\* The topic names this AS, if the packet was for it.
LEMMA TopicIs ==
  ASSUME NEW p, PacketOk(p), NEW b, b = KeepIntCpu(p), DstKey(p) = SinkKey
  PROVE  Topic(b) = [parts |-> [i \in 1 .. 3 |-> Hex(HostText.parts[i])], node |-> NodeId]
<1> DEFINE isd == splitScionAddress(HostText).isd
           as == splitScionAddress(HostText).as
           a == toBitstring(2, isd)
           c == toBitstring(6, as)
<1>1. Bytes(b, 16 + 12, 8) = SinkKey
  BY HeaderIsRead DEF HeaderRead
<1>2. SinkKey = a \o c
  BY DEF SinkKey
<1>3. /\ isd \in Nat /\ as = (HostWord(1) * 65536 + HostWord(2)) * 65536 + HostWord(3)
      /\ HostWord(1) \in Nat /\ HostWord(2) \in Nat /\ HostWord(3) \in Nat
      /\ HostWord(1) < 65536 /\ HostWord(2) < 65536 /\ HostWord(3) < 65536
  <2>1. \A i \in 1 .. 3 : HostWord(i) \in Nat /\ HostWord(i) < 65536
    BY HostWords
  <2>2. /\ HostWord(1) \in Nat /\ HostWord(2) \in Nat /\ HostWord(3) \in Nat
        /\ HostWord(1) < 65536 /\ HostWord(2) < 65536 /\ HostWord(3) < 65536
    BY ONLY <2>1
  <2> QED
    BY ONLY <2>2, HostWords
<1> HIDE DEF isd, as
<1>4. /\ Part(c, 0, toBitstring(2, HostWord(1))) /\ Part(c, 2, toBitstring(2, HostWord(2)))
      /\ Part(c, 4, toBitstring(2, HostWord(3)))
  <2> DEFINE x == HostWord(1)
             y == HostWord(2)
             z == HostWord(3)
  <2>1. /\ x \in Nat /\ y \in Nat /\ z \in Nat /\ x < 65536 /\ y < 65536 /\ z < 65536
        /\ as = (x * 65536 + y) * 65536 + z
    BY ONLY <1>3
  <2> HIDE DEF x, y, z
  <2>2. Words(toBitstring(6, as), x, y, z)
    BY ONLY <2>1, ThreeWords
  <2> QED
    BY ONLY <2>2 DEF x, y, z, c, Words
<1>5. Block(a, 2)
  BY <1>3, BitstringBlock
<1> HIDE DEF a, c
<1>6. /\ Part(a \o c, 2 + 0, toBitstring(2, HostWord(1)))
      /\ Part(a \o c, 2 + 2, toBitstring(2, HostWord(2)))
      /\ Part(a \o c, 2 + 4, toBitstring(2, HostWord(3)))
  BY ONLY <1>4, <1>5, PartRight
<1>7. HostWord(1) \in Fixed(2) /\ HostWord(2) \in Fixed(2) /\ HostWord(3) \in Fixed(2)
  <2>1. Fits16(HostWord(1)) /\ Fits16(HostWord(2)) /\ Fits16(HostWord(3))
    BY ONLY <1>3 DEF Fits16
  <2> QED
    BY ONLY <2>1, FitsFixed
<1>8. /\ NumberAt(a \o c, 2 + 0, 2) = HostWord(1) /\ NumberAt(a \o c, 2 + 2, 2) = HostWord(2)
      /\ NumberAt(a \o c, 2 + 4, 2) = HostWord(3)
  BY ONLY <1>6, <1>7, PartIsNumber, 2 \in Nat
<1> DEFINE s == a \o c
<1>9. ASSUME NEW i \in 1 .. 3
      PROVE  Numeral(SubSeq(s, 2 * i + 1, 2 * i + 2), 256) = HostWord(i)
  <2>1. i = 1 \/ i = 2 \/ i = 3
    OBVIOUS
  <2>2. NumberAt(s, 2 * i, 2) = HostWord(i)
    <3>1. 2 * 1 = 2 + 0 /\ 2 * 2 = 2 + 2 /\ 2 * 3 = 2 + 4
      OBVIOUS
    <3> HIDE DEF s
    <3>2. /\ NumberAt(s, 2 * 1, 2) = HostWord(1) /\ NumberAt(s, 2 * 2, 2) = HostWord(2)
          /\ NumberAt(s, 2 * 3, 2) = HostWord(3)
      BY ONLY <1>8, <3>1 DEF s
    <3> QED
      BY ONLY <2>1, <3>2
  <2> HIDE DEF s
  <2> QED
    BY <2>2 DEF NumberAt, Bytes
<1>10. Topic(b) = [parts |-> [i \in 1 .. 3 |-> Numeral(SubSeq(s, 2 * i + 1, 2 * i + 2), 256)],
                   node |-> NodeId]
  BY <1>1, <1>2 DEF Topic
<1> HIDE DEF s
<1> QED
  BY <1>9, <1>10 DEF HostWord
-----------------------------------------------------------------------------
(* The TCP stream.  The reports are byte strings (MessagesSerialized).  What the *)
(* receiver has, what the buffers hold and what is left of the write is, while *)
(* both ends of the connection live, what was handed over, frame by frame.     *)

Values == {m.value : m \in Sent}
\* What can be in the stream: bytes, and the digits of a length.
Octets == (0 .. 255) \cup UNION {ToSet(LengthBytes(v)) : v \in Values}

Rest == CASE pc = "length" -> out \o current.value
          [] pc = "report" -> out
          [] OTHER         -> <<>>
FrameList(s) == [i \in DOMAIN s |-> Frame(s[i].value)]
FramesOf(s) == FlattenSeq(FrameList(s))

StreamTypes ==
  /\ current \in Sent /\ handled \in Seq(Sent)
  /\ got \in Seq(Octets) /\ wire \in Seq(Octets) /\ out \in Seq(Octets)
  /\ active \in BOOLEAN /\ reading \in BOOLEAN
  /\ Len(wire) <= SocketBuffer

StreamInv ==
  /\ StreamTypes
  /\ pc \in {"main", "construct"} => handled = <<>> /\ got = <<>> /\ wire = <<>>
  /\ active => pc \notin {"main", "construct", "exit"}
  /\ ~reading => wire = <<>>
  /\ IsPrefix(got \o wire, FramesOf(handled))
  /\ active /\ reading => (got \o wire) \o Rest = FramesOf(handled)

\* A length is a sequence of octets, four of them.
LEMMA LengthSequence ==
  ASSUME NEW v \in Values PROVE LengthBytes(v) \in Seq(Octets)
<1> DEFINE d == LengthBytes(v)
<1>1. PICK e : d = [i \in 1 .. 4 |-> e[i]]
  <2> DEFINE q == CHOOSE q : q = [i \in 0 .. 4 |-> IF i = 0 THEN Len(v) ELSE q[i - 1] \div 256]
  <2>1. d = [i \in 1 .. 4 |-> q[i - 1] % 256]
    BY DEF LengthBytes, Digits
  <2> HIDE DEF q
  <2>2. \A i \in 1 .. 4 : d[i] = q[i - 1] % 256
    BY <2>1
  <2> HIDE DEF d
  <2>3. d = [i \in 1 .. 4 |-> d[i]]
    BY <2>1
  <2> QED
    BY <2>3
<1>2. d \in Seq(ToSet(d))
  <2> HIDE DEF d
  <2>1. d \in [1 .. 4 -> ToSet(d)]
    BY <1>1 DEF ToSet
  <2> QED
    BY <2>1, SeqDef
<1>3. ToSet(d) \subseteq Octets
  BY DEF Octets
<1> HIDE DEF d
<1>4. d \in Seq(Octets)
  BY <1>2, <1>3, SeqMonotonic
<1> QED
  BY <1>4 DEF d

LEMMA ValueSequence ==
  ASSUME NEW m \in Sent PROVE m.value \in Values /\ m.value \in Seq(Octets)
<1>1. m.value \in Seq(0 .. 255)
  <2>1. CASE m = Blank
    BY <2>1 DEF Blank
  <2>2. CASE m \in {n.message : n \in Messages}
    BY <2>2, MessagesSerialized
  <2> QED
    BY <2>1, <2>2 DEF Sent
<1>2. 0 .. 255 \subseteq Octets
  BY DEF Octets
<1> QED
  BY <1>1, <1>2, SeqMonotonic DEF Values

LEMMA FrameSequence ==
  ASSUME NEW m \in Sent
  PROVE  /\ Frame(m.value) = LengthBytes(m.value) \o m.value
         /\ Frame(m.value) \in Seq(Octets)
<1>1. /\ LengthBytes(m.value) \in Seq(Octets) /\ m.value \in Seq(Octets)
  BY LengthSequence, ValueSequence
<1>2. Frame(m.value) = LengthBytes(m.value) \o m.value
  BY DEF Frame, LengthBytes
<1> QED
  BY <1>1, <1>2

\* One message more is one frame more.
LEMMA FrameListSequence ==
  ASSUME NEW s \in Seq(Sent)
  PROVE  /\ FrameList(s) \in Seq(Seq(Octets)) /\ Len(FrameList(s)) = Len(s)
         /\ \A i \in 1 .. Len(s) : FrameList(s)[i] = Frame(s[i].value)
<1>1. DOMAIN s = 1 .. Len(s) /\ Len(s) \in Nat /\ \A i \in 1 .. Len(s) : s[i] \in Sent
  OBVIOUS
<1>2. \A i \in 1 .. Len(s) : Frame(s[i].value) \in Seq(Octets)
  BY <1>1, FrameSequence
<1> QED
  BY <1>1, <1>2 DEF FrameList

LEMMA FrameListAppend ==
  ASSUME NEW s \in Seq(Sent), NEW m \in Sent
  PROVE  FrameList(Append(s, m)) = Append(FrameList(s), Frame(m.value))
<1> DEFINE a == Append(s, m)
           l == FrameList(a)
           r == Append(FrameList(s), Frame(m.value))
<1>1. /\ a \in Seq(Sent) /\ Len(a) = Len(s) + 1 /\ Len(s) \in Nat
      /\ a[Len(s) + 1] = m /\ \A i \in 1 .. Len(s) : a[i] = s[i]
  OBVIOUS
<1> HIDE DEF a
<1>2. /\ l \in Seq(Seq(Octets)) /\ Len(l) = Len(a)
      /\ \A i \in 1 .. Len(a) : l[i] = Frame(a[i].value)
  BY <1>1, FrameListSequence
<1>3. /\ FrameList(s) \in Seq(Seq(Octets)) /\ Len(FrameList(s)) = Len(s)
      /\ \A i \in 1 .. Len(s) : FrameList(s)[i] = Frame(s[i].value)
  BY FrameListSequence
<1>4. Frame(m.value) \in Seq(Octets)
  BY FrameSequence
<1>5. /\ r \in Seq(Seq(Octets)) /\ Len(r) = Len(s) + 1
      /\ r[Len(s) + 1] = Frame(m.value)
      /\ \A i \in 1 .. Len(s) : r[i] = FrameList(s)[i]
  BY <1>1, <1>3, <1>4
<1> HIDE DEF l, r
<1>6. ASSUME NEW i \in 1 .. Len(l) PROVE l[i] = r[i]
  <2>1. i \in 1 .. Len(s) \/ i = Len(s) + 1
    BY <1>1, <1>2
  <2>2. l[i] = Frame(a[i].value)
    BY <1>2
  <2>3. CASE i \in 1 .. Len(s)
    BY <1>1, <1>3, <1>5, <2>2, <2>3
  <2>4. CASE i = Len(s) + 1
    BY <1>1, <1>5, <2>2, <2>4
  <2> QED
    BY <2>1, <2>3, <2>4
<1>7. l = r
  BY <1>1, <1>2, <1>5, <1>6, SeqEqual
<1> QED
  BY <1>7 DEF l, r, a

LEMMA FramesGrow ==
  ASSUME NEW s \in Seq(Sent), NEW m \in Sent
  PROVE  /\ FramesOf(s) \in Seq(Octets)
         /\ FramesOf(Append(s, m)) = FramesOf(s) \o Frame(m.value)
<1>1. FrameList(s) \in Seq(Seq(Octets)) /\ Frame(m.value) \in Seq(Octets)
  BY FrameListSequence, FrameSequence
<1> QED
  BY <1>1, FlattenAppend, FrameListAppend DEF FramesOf

LEMMA FramesSequence ==
  FramesOf(<<>>) = <<>> /\ \A s \in Seq(Sent) : FramesOf(s) \in Seq(Octets)
<1>1. FrameList(<<>>) = <<>>
  BY DEF FrameList
<1>2. Blank \in Sent
  BY DEF Sent
<1> QED
  BY <1>1, <1>2, FlattenEmpty, FramesGrow DEF FramesOf

-----------------------------------------------------------------------------
(* Prefixes of the stream. *)

LEMMA PrefixOfConcat ==
  ASSUME NEW S, NEW s \in Seq(S), NEW t \in Seq(S) PROVE IsPrefix(s, s \o t)
<1>1. Len(s \o t) = Len(s) + Len(t) /\ Len(s) \in Nat /\ Len(t) \in Nat
  OBVIOUS
<1>2. SubSeq(s \o t, 1, Len(s)) = s /\ SubSeq(s, 1, Len(s)) = s
  BY CutConcat
<1> QED
  BY <1>1, <1>2 DEF IsPrefix

\* What a prefix lacks.
LEMMA PrefixHasRest ==
  ASSUME NEW S, NEW s \in Seq(S), NEW t \in Seq(S), IsPrefix(s, t)
  PROVE  \E u \in Seq(S) : t = s \o u
<1> DEFINE u == SubSeq(t, Len(s) + 1, Len(t))
<1>1. Len(s) \in Nat /\ Len(t) \in Nat /\ Len(s) <= Len(t) /\ SubSeq(t, 1, Len(s)) = s
  BY DEF IsPrefix
<1>2. SubSeq(t, 1, Len(t)) = t /\ u \in Seq(S)
  BY <1>1
<1>3. SubSeq(t, 1, Len(s)) \o u = SubSeq(t, 1, Len(t))
  <2>1. 1 \in 1 .. Len(t) + 1 /\ Len(s) \in 1 - 1 .. Len(t) /\ Len(t) \in Len(s) .. Len(t)
    BY <1>1
  <2> HIDE <1>1
  <2> QED
    BY <2>1, ConcatAdjacentSubSeq
<1> QED
  BY <1>1, <1>2, <1>3

LEMMA PrefixGrows ==
  ASSUME NEW S, NEW s \in Seq(S), NEW t \in Seq(S), NEW x \in Seq(S), IsPrefix(s, t)
  PROVE  IsPrefix(s, t \o x)
<1>1. PICK u \in Seq(S) : t = s \o u
  BY PrefixHasRest
<1>2. (s \o u) \o x = s \o (u \o x) /\ u \o x \in Seq(S)
  BY ConcatAssociative
<1> QED
  BY <1>1, <1>2, PrefixOfConcat

LEMMA PrefixDrops ==
  ASSUME NEW S, NEW a \in Seq(S), NEW b \in Seq(S), NEW t \in Seq(S), IsPrefix(a \o b, t)
  PROVE  IsPrefix(a, t)
<1>1. a \o b \in Seq(S)
  OBVIOUS
<1>2. PICK u \in Seq(S) : t = (a \o b) \o u
  <2> DEFINE c == a \o b
  <2>1. c \in Seq(S) /\ IsPrefix(c, t)
    BY <1>1
  <2> HIDE DEF c
  <2>2. \E u \in Seq(S) : t = c \o u
    BY ONLY <2>1, t \in Seq(S), PrefixHasRest
  <2> QED
    BY ONLY <2>2 DEF c
<1>3. t = a \o (b \o u) /\ b \o u \in Seq(S)
  BY <1>2, ConcatAssociative
<1> QED
  BY <1>3, PrefixOfConcat

-----------------------------------------------------------------------------
(* The steps of the stream. *)

LEMMA StreamInit == ASSUME Init PROVE StreamInv
<1>1. /\ pc = "main" /\ handled = <<>> /\ got = <<>> /\ wire = <<>> /\ out = <<>>
      /\ active = FALSE /\ reading = TRUE /\ current = Blank
  BY DEF Init, Blank
<1>2. /\ <<>> \in Seq(Octets) /\ <<>> \in Seq(Sent) /\ Len(<<>>) = 0
      /\ <<>> \o <<>> = <<>> /\ Blank \in Sent /\ 0 <= SocketBuffer
  BY ExportAssumption DEF Sent
<1>3. IsPrefix(<<>> \o <<>>, FramesOf(<<>>))
  BY <1>2, FramesSequence, PrefixOfConcat
<1> QED
  BY <1>1, <1>2, <1>3 DEF StreamInv, StreamTypes

LEMMA StreamExit == ASSUME StreamInv, Exit PROVE StreamInv'
<1>1. /\ pc' = "exit" /\ active' = FALSE /\ out' = <<>>
      /\ UNCHANGED <<current, handled, wire, got, reading>>
  BY DEF Exit
<1>2. <<>> \in Seq(Octets)
  OBVIOUS
<1> QED
  BY <1>1, <1>2 DEF StreamInv, StreamTypes

\* A step that leaves the connection and the producer alone.
LEMMA StreamKept ==
  ASSUME StreamInv, UNCHANGED <<handled, got, wire, out, active, reading>>,
         current' \in Sent, Rest' = Rest,
         pc' \in {"main", "construct"} => pc \in {"main", "construct"},
         active' => pc' \notin {"main", "construct", "exit"}
  PROVE  StreamInv'
BY DEF StreamInv, StreamTypes

LEMMA StreamSame ==
  ASSUME StreamInv, UNCHANGED process, UNCHANGED <<got, wire, reading>> PROVE StreamInv'
<1>1. UNCHANGED <<pc, handled, got, wire, out, active, reading, current>>
  BY DEF process
<1>2. Rest' = Rest
  BY <1>1 DEF Rest
<1> QED
  BY <1>1, <1>2, StreamKept DEF StreamInv, StreamTypes

LEMMA StreamMain == ASSUME StreamInv, Main PROVE StreamInv'
<1>1. CASE Exit
  BY <1>1, StreamExit
<1>2. CASE ~Exit
  <2>1. /\ pc = "main" /\ pc' = "construct"
        /\ UNCHANGED <<handled, got, wire, out, active, reading, current>>
    BY <1>2 DEF Main, network
  <2>2. Rest' = Rest
    BY <2>1 DEF Rest
  <2> QED
    BY <2>1, <2>2, StreamKept DEF StreamInv, StreamTypes
<1> QED
  BY <1>1, <1>2

\* Nothing was sent before there is a connection.
LEMMA StreamConstruct == ASSUME StreamInv, Construct PROVE StreamInv'
<1>1. CASE Exit
  BY <1>1, StreamExit
<1>2. CASE ~Exit
  <2>1. /\ pc = "construct" /\ pc' = "run" /\ ConnectTcp
        /\ UNCHANGED <<handled, got, wire, out, reading, current>>
    BY <1>2 DEF Construct, network
  <2>2. active' \in BOOLEAN
    BY <2>1 DEF ConnectTcp
  <2>3. /\ handled = <<>> /\ got = <<>> /\ wire = <<>> /\ Rest' = <<>>
    BY <2>1 DEF StreamInv, Rest
  <2>4. (<<>> \o <<>>) \o <<>> = FramesOf(<<>>)
    BY FramesSequence
  <2>5. (got' \o wire') \o Rest' = FramesOf(handled')
    BY <2>1, <2>3, <2>4
  <2> QED
    BY <2>1, <2>2, <2>5 DEF StreamInv, StreamTypes
<1> QED
  BY <1>1, <1>2

LEMMA StreamHandlePacketIn == ASSUME StreamInv, HandlePacketIn PROVE StreamInv'
<1>1. /\ pc = "run" /\ pc' \in {"run", "produce"}
      /\ UNCHANGED <<handled, got, wire, out, active, reading>>
  BY DEF HandlePacketIn, network
<1>2. current' \in Sent
  BY DEF HandlePacketIn, StreamInv, StreamTypes, Sent
<1>3. Rest' = Rest
  BY <1>1 DEF Rest
<1> QED
  BY <1>1, <1>2, <1>3, StreamKept

\* A report is handed over: its frame is what is to be written.
LEMMA StreamProduce == ASSUME StreamInv, Produce PROVE StreamInv'
<1>1. CASE Exit
  BY <1>1, StreamExit
<1>2. CASE ~Exit
  <2> DEFINE digits == LengthBytes(current.value)
             value  == current.value
             g      == got \o wire
             before == FramesOf(handled)
  <2>1. /\ pc = "produce" /\ handled' = Append(handled, current)
        /\ IF active THEN pc' = "length" /\ out' = digits ELSE pc' = "run" /\ out' = <<>>
        /\ UNCHANGED <<current, active, wire, got, reading>>
    BY <1>2 DEF Produce, SendLength
  <2>2. /\ current \in Sent /\ handled \in Seq(Sent) /\ got \in Seq(Octets) /\ wire \in Seq(Octets)
    BY DEF StreamInv, StreamTypes
  <2>3. /\ value \in Values /\ value \in Seq(Octets) /\ digits \in Seq(Octets)
        /\ Frame(value) = digits \o value /\ Frame(value) \in Seq(Octets)
    BY <2>2, ValueSequence, LengthSequence, FrameSequence
  <2>4. /\ before \in Seq(Octets) /\ FramesOf(handled') = before \o Frame(value)
        /\ handled' \in Seq(Sent)
    <3>1. /\ before \in Seq(Octets)
          /\ FramesOf(Append(handled, current)) = before \o Frame(value)
      BY <2>2, FramesGrow
    <3> HIDE DEF before, value
    <3> QED
      BY <2>1, <2>2, <3>1
  <2>5. g \in Seq(Octets) /\ IsPrefix(g, before) /\ g' = g
    BY <2>1, <2>2 DEF StreamInv
  <2> HIDE DEF g, before, digits, value
  <2>6. IsPrefix(g, before \o Frame(value))
    BY <2>3, <2>4, <2>5, PrefixGrows
  <2>7. ASSUME active, reading PROVE g' \o Rest' = FramesOf(handled')
    <3>1. Rest = <<>> /\ g \o Rest = before
      BY <2>1, <2>7 DEF Rest, StreamInv, g, before
    <3>2. g = before
      BY <2>5, <3>1
    <3>3. Rest' = digits \o value
      BY <2>1, <2>7 DEF Rest, value
    <3> QED
      BY <2>3, <2>4, <2>5, <3>2, <3>3
  <2>8. out' \in Seq(Octets)
    <3>1. <<>> \in Seq(Octets) /\ out' \in {digits, <<>>}
      BY <2>1
    <3> QED
      BY <2>3, <3>1
  <2>9. /\ IsPrefix(g', FramesOf(handled')) /\ pc' \in {"length", "run"}
        /\ active' = active /\ reading' = reading
    BY <2>1, <2>4, <2>5, <2>6
  <2>10. StreamTypes'
    BY <2>1, <2>4, <2>8 DEF StreamInv, StreamTypes
  <2>11. ~reading' => wire' = <<>>
    BY <2>1 DEF StreamInv
  <2>12. IsPrefix(got' \o wire', FramesOf(handled'))
    BY <2>9 DEF g
  <2>13. active' /\ reading' => (got' \o wire') \o Rest' = FramesOf(handled')
    BY <2>7, <2>9 DEF g
  <2> QED
    BY <2>9, <2>10, <2>11, <2>12, <2>13 DEF StreamInv
<1> QED
  BY <1>1, <1>2

\* What the next write will hand to the socket, and what is left after it.
After == IF pc = "length" THEN current.value ELSE <<>>

LEMMA NextWriteStarts ==
  ASSUME StreamInv, pc \in {"length", "report"}, NextWrite, current' = current
  PROVE  /\ pc' \in {"report", "run"} /\ out' \in Seq(Octets) /\ Rest' = After
<1>1. current.value \in Seq(Octets) /\ <<>> \in Seq(Octets)
  BY ValueSequence DEF StreamInv, StreamTypes
<1> QED
  BY <1>1 DEF NextWrite, Rest, After

LEMMA RestIs ==
  ASSUME StreamInv, pc \in {"length", "report"}
  PROVE  After \in Seq(Octets) /\ Rest = out \o After
<1>1. current.value \in Seq(Octets) /\ <<>> \in Seq(Octets) /\ out \in Seq(Octets)
  BY ValueSequence DEF StreamInv, StreamTypes
<1> QED
  BY <1>1, ConcatEmptySeq DEF Rest, After

\* A step after which the connection is of no more use.
LEMMA StreamCut ==
  ASSUME StreamInv, UNCHANGED <<handled, got, wire, reading, current>>,
         active' \in BOOLEAN, out' \in Seq(Octets), pc' \in {"length", "report", "run"},
         ~(active' /\ reading)
  PROVE  StreamInv'
BY DEF StreamInv, StreamTypes

LEMMA MinOfTwo ==
  ASSUME NEW a \in Nat, NEW b \in Nat
  PROVE  Min({a, b}) \in Nat /\ Min({a, b}) <= a /\ Min({a, b}) <= b
<1>1. \E x \in {a, b} : \A y \in {a, b} : x <= y
  <2>1. a <= b \/ b <= a
    OBVIOUS
  <2> QED
    BY <2>1
<1> QED
  BY <1>1 DEF Min

\* Concatenation under a name of its own: the provers find their way through
\* four parts only when they do not know what it is.
Cat(s, t) == s \o t

Associate(s, t, u) == Cat(Cat(s, t), u) = Cat(s, Cat(t, u))

LEMMA CatProperties ==
  \A S : \A s, t, u \in Seq(S) : Cat(s, t) \in Seq(S) /\ Associate(s, t, u)
BY ConcatAssociative DEF Cat, Associate

LEMMA FourParts ==
  ASSUME NEW S, NEW g \in Seq(S), NEW w \in Seq(S), NEW h \in Seq(S), NEW t \in Seq(S),
         NEW a \in Seq(S)
  PROVE  Cat(Cat(g, Cat(w, h)), Cat(t, a)) = Cat(Cat(g, w), Cat(Cat(h, t), a))
<1>1. /\ Cat(g, w) \in Seq(S) /\ Cat(t, a) \in Seq(S)
  BY CatProperties, Zenon
<1>2. Associate(g, w, h) /\ Associate(Cat(g, w), h, Cat(t, a)) /\ Associate(h, t, a)
  BY <1>1, CatProperties, Zenon
<1> HIDE <1>1
<1> QED
  BY <1>2 DEF Associate

\* What was to be written, divided into what is in the buffers now and the rest.
Divided(S, g, w, o, a, n) ==
  /\ SubSeq(o, 1, n) \in Seq(S) /\ SubSeq(o, n + 1, Len(o)) \in Seq(S)
  /\ n = Len(o) => SubSeq(o, n + 1, Len(o)) = <<>>
  /\ w \o SubSeq(o, 1, n) \in Seq(S) /\ Len(w \o SubSeq(o, 1, n)) = Len(w) + n
  /\ (g \o (w \o SubSeq(o, 1, n))) \o (SubSeq(o, n + 1, Len(o)) \o a)
       = (g \o w) \o (o \o a)

LEMMA PartsOfStream ==
  ASSUME NEW S, NEW g \in Seq(S), NEW w \in Seq(S), NEW o \in Seq(S), NEW a \in Seq(S),
         NEW n \in 0 .. Len(o)
  PROVE  Divided(S, g, w, o, a, n)
<1> DEFINE h == SubSeq(o, 1, n)
           t == SubSeq(o, n + 1, Len(o))
<1>1. /\ h \in Seq(S) /\ Len(h) = n /\ t \in Seq(S)
      /\ n = Len(o) => t = <<>>
  OBVIOUS
<1>2. h \o t = o
  <2>1. SubSeq(o, 1, Len(o)) = o
    OBVIOUS
  <2>2. 1 \in 1 .. Len(o) + 1 /\ n \in 1 - 1 .. Len(o) /\ Len(o) \in n .. Len(o)
    OBVIOUS
  <2>3. h \o t = SubSeq(o, 1, Len(o))
    BY <2>2, ConcatAdjacentSubSeq
  <2> QED
    BY <2>1, <2>3
<1> HIDE DEF h, t
<1>3. w \o h \in Seq(S) /\ Len(w \o h) = Len(w) + n
  BY <1>1, ConcatProperties
<1>4. (g \o (w \o h)) \o (t \o a) = (g \o w) \o (o \o a)
  <2>1. Cat(Cat(g, Cat(w, h)), Cat(t, a)) = Cat(Cat(g, w), Cat(Cat(h, t), a))
    BY <1>1, FourParts
  <2>2. Cat(h, t) = o
    BY <1>2 DEF Cat
  <2>3. Cat(Cat(g, Cat(w, h)), Cat(t, a)) = Cat(Cat(g, w), Cat(o, a))
    BY <2>1, <2>2, Zenon
  <2> QED
    BY <2>3 DEF Cat
<1> QED
  BY <1>1, <1>3, <1>4 DEF h, t, Divided

\* Bytes go into the buffers, in their order and no more than they take.
LEMMA StreamWrite == ASSUME StreamInv, Write PROVE StreamInv'
<1> DEFINE n == Min({Len(out), Space})
           more == SubSeq(out, n + 1, Len(out))
<1>1. /\ pc \in {"length", "report"} /\ active
      /\ wire' = IF reading THEN wire \o SubSeq(out, 1, n) ELSE wire
      /\ IF n = Len(out) THEN NextWrite ELSE out' = more /\ pc' = pc
      /\ UNCHANGED <<current, handled, active, got, reading>>
  BY DEF Write
<1>2. /\ current \in Sent /\ handled \in Seq(Sent) /\ got \in Seq(Octets)
      /\ wire \in Seq(Octets) /\ out \in Seq(Octets) /\ Len(wire) <= SocketBuffer
      /\ active \in BOOLEAN /\ reading \in BOOLEAN
      /\ Len(out) \in Nat /\ Len(wire) \in Nat /\ SocketBuffer \in Nat
  BY ExportAssumption DEF StreamInv, StreamTypes
<1>3. Space \in Nat /\ (reading => Space = SocketBuffer - Len(wire))
  BY <1>2 DEF Space
<1>4. n \in 0 .. Len(out) /\ n <= Space
  <2>1. n \in Nat /\ n <= Len(out) /\ n <= Space
    BY <1>2, <1>3, MinOfTwo
  <2> HIDE DEF n
  <2> QED
    BY <1>2, <2>1
<1> HIDE DEF n
<1>5. After \in Seq(Octets) /\ Rest = out \o After
  BY <1>1, RestIs
<1>6. /\ SubSeq(out, 1, n) \in Seq(Octets) /\ more \in Seq(Octets)
      /\ n = Len(out) => more = <<>>
      /\ wire \o SubSeq(out, 1, n) \in Seq(Octets)
      /\ Len(wire \o SubSeq(out, 1, n)) = Len(wire) + n
      /\ (got \o (wire \o SubSeq(out, 1, n))) \o (more \o After)
           = (got \o wire) \o (out \o After)
  <2>1. Divided(Octets, got, wire, out, After, n)
    BY <1>2, <1>4, <1>5, PartsOfStream
  <2> QED
    BY <2>1 DEF Divided, more
<1> HIDE DEF more
<1>7. /\ pc' \in {"length", "report", "run"} /\ out' \in Seq(Octets)
      /\ Rest' = more \o After
  <2>1. CASE n = Len(out)
    <3>1. NextWrite /\ more = <<>>
      BY <1>1, <1>6, <2>1
    <3>2. pc' \in {"report", "run"} /\ out' \in Seq(Octets) /\ Rest' = After
      BY <1>1, <3>1, NextWriteStarts
    <3>3. <<>> \o After = After
      BY <1>5, ConcatEmptySeq
    <3> QED
      BY <3>1, <3>2, <3>3
  <2>2. CASE n # Len(out)
    <3>1. out' = more /\ pc' = pc /\ current' = current
      BY <1>1, <2>2
    <3>2. more \o <<>> = more
      BY <1>6, ConcatEmptySeq
    <3> QED
      BY <1>1, <1>6, <3>1, <3>2 DEF Rest, After
  <2> QED
    BY <2>1, <2>2
<1>8. CASE ~reading
  <2>1. wire' = wire /\ active' \in BOOLEAN
    BY <1>1, <1>2, <1>8
  <2> QED
    BY <1>1, <1>7, <1>8, <2>1, StreamCut
<1>9. CASE reading
  <2>1. /\ wire' = wire \o SubSeq(out, 1, n) /\ wire' \in Seq(Octets)
        /\ Len(wire') <= SocketBuffer
    BY <1>1, <1>2, <1>3, <1>4, <1>6, <1>9
  <2>2. (got' \o wire') \o Rest' = FramesOf(handled')
    <3>1. (got \o wire) \o (out \o After) = FramesOf(handled)
      BY <1>1, <1>5, <1>9 DEF StreamInv
    <3> QED
      BY <1>1, <1>6, <1>7, <2>1, <3>1
  <2>3. IsPrefix(got' \o wire', FramesOf(handled'))
    <3>1. got' \o wire' \in Seq(Octets) /\ Rest' \in Seq(Octets)
      BY <1>1, <1>2, <1>5, <1>6, <1>7, <2>1
    <3>2. IsPrefix(got' \o wire', (got' \o wire') \o Rest')
      BY <3>1, PrefixOfConcat
    <3> QED
      BY <2>2, <3>2
  <2> QED
    BY <1>1, <1>2, <1>7, <1>9, <2>1, <2>2, <2>3 DEF StreamInv, StreamTypes
<1> QED
  BY <1>8, <1>9

LEMMA StreamReceive == ASSUME StreamInv, Receive PROVE StreamInv'
<1>1. /\ got' = got \o wire /\ wire' = <<>>
      /\ UNCHANGED <<pc, current, handled, active, out, reading>>
  BY DEF Receive, process
<1>2. got \in Seq(Octets) /\ wire \in Seq(Octets)
  BY DEF StreamInv, StreamTypes
<1>3. /\ got' \in Seq(Octets) /\ wire' \in Seq(Octets) /\ Len(wire') = 0
      /\ got' \o wire' = got \o wire
  BY <1>1, <1>2, ConcatEmptySeq
<1>4. Rest' = Rest
  BY <1>1 DEF Rest
<1>5. pc \notin {"main", "construct"} \/ got' = <<>>
  BY <1>1, <1>2, ConcatEmptySeq DEF StreamInv
<1>6. Len(wire') <= SocketBuffer
  BY <1>3, ExportAssumption
<1> QED
  BY <1>1, <1>3, <1>4, <1>5, <1>6 DEF StreamInv, StreamTypes

\* What is in the buffers is lost with the receiver.
LEMMA StreamReceiverLeaves == ASSUME StreamInv, ReceiverLeaves PROVE StreamInv'
<1>1. /\ got' = got /\ wire' = <<>> /\ reading' = FALSE
      /\ UNCHANGED <<pc, current, handled, active, out>>
  BY DEF ReceiverLeaves, process
<1>2. got \in Seq(Octets) /\ wire \in Seq(Octets) /\ handled \in Seq(Sent)
  BY DEF StreamInv, StreamTypes
<1>3. FramesOf(handled) \in Seq(Octets) /\ IsPrefix(got \o wire, FramesOf(handled))
  BY <1>2, FramesSequence DEF StreamInv
<1>4. IsPrefix(got, FramesOf(handled))
  BY <1>2, <1>3, PrefixDrops
<1>5. got' \o wire' = got /\ wire' \in Seq(Octets) /\ Len(wire') = 0 /\ 0 <= SocketBuffer
  BY <1>1, <1>2, ConcatEmptySeq, ExportAssumption
<1>6. IsPrefix(got' \o wire', FramesOf(handled'))
  BY <1>1, <1>4, <1>5
<1> QED
  BY <1>1, <1>5, <1>6 DEF StreamInv, StreamTypes

LEMMA StreamController == ASSUME StreamInv, Controller PROVE StreamInv'
<1>1. CASE Main
  BY <1>1, StreamMain
<1>2. CASE Construct
  BY <1>2, StreamConstruct
<1>3. CASE HandlePacketIn
  BY <1>3, StreamHandlePacketIn
<1>4. CASE HandlePacketInTraps
  BY <1>4, StreamExit DEF HandlePacketInTraps
<1>5. CASE Produce
  BY <1>5, StreamProduce
<1>6. CASE Write
  BY <1>6, StreamWrite
<1>7. CASE WriteFails
  <2>1. ASSUME ~Exit
        PROVE  /\ pc \in {"length", "report"} /\ active' = FALSE /\ NextWrite
               /\ UNCHANGED <<handled, got, wire, reading, current>>
    BY <1>7, <2>1 DEF WriteFails, network
  <2> QED
    BY <2>1, NextWriteStarts, StreamCut, StreamExit
<1>8. CASE WriteSkipped
  <2>1. /\ pc \in {"length", "report"} /\ active' = active /\ ~active /\ NextWrite
        /\ UNCHANGED <<handled, got, wire, reading, current>>
    BY <1>8 DEF WriteSkipped, network
  <2>2. active' \in BOOLEAN
    BY <2>1 DEF StreamInv, StreamTypes
  <2> QED
    BY <2>1, <2>2, NextWriteStarts, StreamCut
<1> QED
  BY <1>1, <1>2, <1>3, <1>4, <1>5, <1>6, <1>7, <1>8 DEF Controller

LEMMA StreamNetwork == ASSUME StreamInv, Network PROVE StreamInv'
<1>1. CASE Delivery
  BY <1>1, StreamSame DEF Delivery, Deliver
<1>2. CASE \E i \in DOMAIN queue : DeliverUnacknowledged(i)
  BY <1>2, StreamSame DEF DeliverUnacknowledged
<1>3. CASE BrokerFails \/ BrokerReturns \/ \E i \in DOMAIN queue : Expire(i) \/ Refuse(i)
  BY <1>3, StreamSame DEF BrokerFails, BrokerReturns, Expire, Refuse
<1>4. CASE Receive
  BY <1>4, StreamReceive
<1>5. CASE ReceiverLeaves
  BY <1>5, StreamReceiverLeaves
<1> QED
  BY <1>1, <1>2, <1>3, <1>4, <1>5 DEF Network

LEMMA StreamStep == ASSUME StreamInv, [Next]_vars PROVE StreamInv'
<1>1. CASE Controller
  BY <1>1, StreamController
<1>2. CASE RunReturns
  BY <1>2, StreamExit DEF RunReturns
<1>3. CASE Network
  BY <1>3, StreamNetwork
<1>4. CASE \E clone \in Clones : PacketArrives(clone)
  BY <1>4, StreamSame DEF PacketArrives, network
<1>5. CASE \E b \in Others : OtherArrives(b)
  BY <1>5, StreamSame DEF OtherArrives, network
<1>6. CASE UNCHANGED vars
  BY <1>6, StreamSame DEF vars, network
<1> QED
  BY <1>1, <1>2, <1>3, <1>4, <1>5, <1>6 DEF Next

LEMMA StreamImplied == StreamInv => StreamInFrames
BY DEF StreamInv, StreamInFrames, FramesOf, FrameList

\* tcpClient.cpp writes the length and then the report, in pieces as the
\* buffers take them, and gives the connection up at the first failure: the
\* receiver can cut whatever it has read into frames, the reports in the order
\* in which Kafka got them and none left out.
THEOREM AlwaysInFrames == Spec => []StreamInFrames
<1>1. Init => StreamInv
  BY StreamInit
<1>2. StreamInv /\ [Next]_vars => StreamInv'
  BY StreamStep
<1>3. StreamInv => StreamInFrames
  BY StreamImplied
<1> QED
  BY <1>1, <1>2, <1>3, PTL DEF Spec

-----------------------------------------------------------------------------
(* Types: the queue as in LossInv, the buffers as in StreamInv. *)

ControlTypes ==
  /\ pc \in {"main", "construct", "run", "produce", "length", "report", "exit"}
  /\ arrived \in 0 .. Len(Packets)
  /\ broker \in BOOLEAN /\ faults \in 0 .. MaxFaults

LEMMA PacketSequence ==
  Len(Packets) \in Nat /\ DOMAIN Packets = 1 .. Len(Packets) /\ MaxFaults \in Nat
BY ExportAssumption

LEMMA ControlStep == ControlTypes /\ [Next]_vars => ControlTypes'
<1> SUFFICES ASSUME ControlTypes, [Next]_vars PROVE ControlTypes'
  OBVIOUS
<1>1. ASSUME NextWrite PROVE pc' \in {"report", "run"}
  BY <1>1 DEF NextWrite
<1>2. CASE Controller
  <2>1. UNCHANGED <<arrived, broker, faults>>
    BY <1>2 DEF Controller, Main, Construct, HandlePacketIn, HandlePacketInTraps, Produce,
                Write, WriteFails, WriteSkipped, Exit, network
  <2>2. pc' \in {"construct", "run", "produce", "length", "report", "exit"}
    BY <1>1, <1>2 DEF Controller, Main, Construct, HandlePacketIn, HandlePacketInTraps, Produce,
                Write, WriteFails, WriteSkipped, Exit
  <2> QED
    BY <2>1, <2>2 DEF ControlTypes
<1>3. CASE RunReturns
  BY <1>3 DEF RunReturns, Exit, ControlTypes
<1>4. CASE Delivery \/ Receive \/ \E i \in DOMAIN queue : Expire(i)
  BY <1>4 DEF Delivery, Deliver, Receive, Expire, process, ControlTypes
<1>5. CASE BrokerReturns
  BY <1>5 DEF BrokerReturns, process, ControlTypes
<1>6. CASE \/ BrokerFails \/ ReceiverLeaves
          \/ \E i \in DOMAIN queue : DeliverUnacknowledged(i) \/ Refuse(i)
  <2>1. /\ UNCHANGED <<pc, arrived>> /\ faults < MaxFaults /\ faults' = faults + 1
        /\ broker' \in {broker, FALSE}
    BY <1>6 DEF BrokerFails, ReceiverLeaves, DeliverUnacknowledged, Refuse, process
  <2>2. faults' \in 0 .. MaxFaults
    BY <2>1, PacketSequence DEF ControlTypes
  <2> QED
    BY <2>1, <2>2 DEF ControlTypes
<1>7. CASE \E clone \in Clones : PacketArrives(clone)
  <2>1. PICK clone \in Clones : PacketArrives(clone)
    BY <1>7
  <2>2. clone.nr \in DOMAIN Packets
    BY DEF Clones
  <2>3. arrived' \in 0 .. Len(Packets)
    BY <2>1, <2>2, PacketSequence DEF PacketArrives
  <2> QED
    BY <2>1, <2>3 DEF PacketArrives, process, network, ControlTypes
<1>8. CASE \E b \in Others : OtherArrives(b)
  BY <1>8 DEF OtherArrives, process, network, ControlTypes
<1>9. CASE UNCHANGED vars
  BY <1>9 DEF vars, process, network, ControlTypes
<1> QED
  BY <1>2, <1>3, <1>4, <1>5, <1>6, <1>7, <1>8, <1>9 DEF Next, Network

\* The types of int.cpp, kafkaProducer.cpp and tcpClient.cpp: neither the queue
\* of the producer nor the buffers of the connection ever hold more than they take.
THEOREM TypeCorrect == Spec => []TypeOK
<1> DEFINE Inv == LossInv /\ StreamInv /\ ControlTypes
<1>1. Init => Inv
  <2>1. Init => ControlTypes
    BY PacketSequence DEF Init, ControlTypes
  <2> QED
    BY <2>1, LossInit, StreamInit
<1>2. Inv /\ [Next]_vars => Inv'
  BY LossStep, StreamStep, ControlStep
<1>3. Inv => TypeOK
  BY DEF LossInv, LossTypes, StreamInv, StreamTypes, ControlTypes, TypeOK
<1> QED
  BY <1>1, <1>2, <1>3, PTL DEF Spec
-----------------------------------------------------------------------------
(* MessagesFaithful.  What waits in the stream is the packet-in of a packet   *)
(* that has come, or one that no report is made of, and the report in         *)
(* progress is that of such a packet.                                         *)

\* b is the packet-in of one of the first n packets, which was for this AS.
CameAs(b, j)   == DstKey(Packets[j]) = SinkKey /\ b = KeepIntCpu(Packets[j])
OfPacket(b, n) == \E j \in 1 .. n : CameAs(b, j)

FaithInv ==
  /\ arrived \in 0 .. Len(Packets)
  /\ stream \in Seq(Payloads)
  /\ \A i \in 1 .. Len(stream) : OfPacket(stream[i], arrived) \/ stream[i] \in Others
  /\ pc = "produce" =>
       \E b \in Payloads : Accepted(b) /\ OfPacket(b, arrived) /\ current = MessageOf(b)

\* The packets are those the assumption is about.
LEMMA PacketAt ==
  ASSUME NEW j \in 1 .. Len(Packets)
  PROVE  Packets[j] \in ToSet(Packets) /\ PacketOk(Packets[j]) /\ KeepIntCpu(Packets[j]) \in Payloads
<1>1. Packets \in Seq(ToSet(Packets))
  BY ExportAssumption
<1>2. Packets[j] \in ToSet(Packets)
  BY <1>1
<1> QED
  BY <1>2, PacketsAssumption DEF Payloads

\* The steps.
LEMMA FaithInit == Init => FaithInv
<1> SUFFICES ASSUME Init PROVE FaithInv
  OBVIOUS
<1>1. pc = "main" /\ arrived = 0 /\ stream = <<>>
  BY DEF Init
<1>2. Len(Packets) \in Nat
  <2>1. Packets \in Seq(ToSet(Packets))
    BY ExportAssumption
  <2> QED
    BY <2>1
<1> QED
  BY <1>1, <1>2 DEF FaithInv

\* A step that leaves the stream alone and begins no report.
LEMMA FaithUnchanged ==
  ASSUME FaithInv, arrived' = arrived, stream' = stream,
         pc' # "produce" \/ UNCHANGED <<pc, current>>
  PROVE  FaithInv'
BY DEF FaithInv

LEMMA FaithPacketArrives ==
  ASSUME FaithInv, NEW clone \in Clones, PacketArrives(clone) PROVE FaithInv'
<1>1. PICK j \in DOMAIN Packets :
        /\ DstKey(Packets[j]) = SinkKey /\ clone.nr = j /\ clone.payload = KeepIntCpu(Packets[j])
  BY DEF Clones
<1>2. /\ j = arrived + 1 /\ arrived' = j /\ stream' = Append(stream, clone.payload)
      /\ pc' = pc /\ current' = current
  BY <1>1 DEF PacketArrives, process
<1>3. Packets \in Seq(ToSet(Packets))
  BY ExportAssumption
<1>4. Len(Packets) \in Nat /\ j \in 1 .. Len(Packets)
  BY <1>3
<1> DEFINE b == KeepIntCpu(Packets[j])
<1>5. b \in Payloads /\ CameAs(b, j)
  BY <1>1, <1>4, PacketAt DEF CameAs
<1>6. arrived \in Nat /\ stream \in Seq(Payloads)
  BY <1>4 DEF FaithInv
<1>7. ASSUME NEW x, OfPacket(x, arrived) PROVE OfPacket(x, j)
  <2>1. PICK i \in 1 .. arrived : CameAs(x, i)
    BY <1>7 DEF OfPacket
  <2>2. i \in 1 .. j
    BY <1>2, <1>6
  <2> QED
    BY <2>1, <2>2 DEF OfPacket
<1>8. OfPacket(b, j)
  <2>1. j \in 1 .. j
    BY <1>4
  <2> QED
    BY <1>5, <2>1 DEF OfPacket
<1> HIDE DEF b
<1>9. stream' = Append(stream, b)
  BY <1>1, <1>2 DEF b
<1>10. /\ stream' \in Seq(Payloads) /\ Len(stream') = Len(stream) + 1 /\ Len(stream) \in Nat
       /\ stream'[Len(stream) + 1] = b
       /\ \A i \in 1 .. Len(stream) : stream'[i] = stream[i]
  BY <1>5, <1>6, <1>9
<1>11. ASSUME NEW i \in 1 .. Len(stream')
       PROVE  OfPacket(stream'[i], j) \/ stream'[i] \in Others
  <2>1. i \in 1 .. Len(stream) \/ i = Len(stream) + 1
    BY <1>10
  <2>2. CASE i \in 1 .. Len(stream)
    <3>1. OfPacket(stream[i], arrived) \/ stream[i] \in Others
      BY <2>2 DEF FaithInv
    <3> QED
      BY <2>2, <3>1, <1>7, <1>10
  <2>3. CASE i = Len(stream) + 1
    BY <2>3, <1>8, <1>10
  <2> QED
    BY <2>1, <2>2, <2>3
<1>12. pc' = "produce" =>
         \E x \in Payloads : Accepted(x) /\ OfPacket(x, j) /\ current' = MessageOf(x)
  BY <1>2, <1>7 DEF FaithInv
<1>13. j \in 0 .. Len(Packets)
  BY <1>4
<1> QED
  BY <1>2, <1>10, <1>11, <1>12, <1>13 DEF FaithInv

LEMMA FaithOtherArrives ==
  ASSUME FaithInv, NEW b \in Others, OtherArrives(b) PROVE FaithInv'
<1>1. stream' = <<b>> /\ arrived' = arrived /\ pc' = pc /\ current' = current
  BY DEF OtherArrives, process
<1>2. b \in Payloads
  BY DEF Payloads
<1>3. stream' \in Seq(Payloads) /\ Len(stream') = 1 /\ stream'[1] = b
  BY <1>1, <1>2
<1>4. \A i \in 1 .. Len(stream') : stream'[i] \in Others
  BY <1>3
<1> QED
  BY <1>1, <1>3, <1>4 DEF FaithInv

LEMMA FaithHandlePacketIn ==
  ASSUME FaithInv, HandlePacketIn PROVE FaithInv'
<1>1. /\ pc = "run" /\ stream # <<>> /\ stream' = Tail(stream) /\ arrived' = arrived
      /\ \/ \E m \in Messages : m.of = Head(stream) /\ current' = m.message
         \/ pc' = pc
  BY DEF HandlePacketIn
<1>2. stream \in Seq(Payloads)
  BY DEF FaithInv
<1>3. /\ Head(stream) = stream[1] /\ 1 \in 1 .. Len(stream)
      /\ Tail(stream) \in Seq(Payloads) /\ Len(Tail(stream)) = Len(stream) - 1
      /\ \A i \in 1 .. Len(Tail(stream)) : Tail(stream)[i] = stream[i + 1]
  BY <1>1, <1>2, QueueElements
<1>4. ASSUME NEW i \in 1 .. Len(stream')
      PROVE  OfPacket(stream'[i], arrived) \/ stream'[i] \in Others
  <2>1. i + 1 \in 1 .. Len(stream) /\ stream'[i] = stream[i + 1]
    BY <1>1, <1>3
  <2> QED
    BY <2>1 DEF FaithInv
<1>5. ASSUME pc' = "produce"
      PROVE  \E b \in Payloads : Accepted(b) /\ OfPacket(b, arrived) /\ current' = MessageOf(b)
  <2>1. PICK m \in Messages : m.of = Head(stream) /\ current' = m.message
    BY <1>1, <1>5
  <2>2. m.of \in Payloads /\ Accepted(m.of) /\ m.message = MessageOf(m.of)
    BY DEF Messages
  <2>3. m.of \notin Others
    BY <2>2, OthersAssumption
  <2>4. OfPacket(m.of, arrived)
    BY <1>3, <2>1, <2>3 DEF FaithInv
  <2> QED
    BY <2>1, <2>2, <2>4
<1> QED
  BY <1>1, <1>3, <1>4, <1>5 DEF FaithInv

LEMMA FaithController == ASSUME FaithInv, Controller PROVE FaithInv'
<1>1. ASSUME Exit PROVE FaithInv'
  BY <1>1, FaithUnchanged DEF Exit
<1>2. CASE Main
  <2>1. CASE ~Exit
    BY <1>2, <2>1, FaithUnchanged DEF Main
  <2> QED
    BY <1>1, <2>1
<1>3. CASE Construct
  <2>1. CASE ~Exit
    BY <1>3, <2>1, FaithUnchanged DEF Construct
  <2> QED
    BY <1>1, <2>1
<1>4. CASE HandlePacketIn
  BY <1>4, FaithHandlePacketIn
<1>5. CASE HandlePacketInTraps
  BY <1>1, <1>5 DEF HandlePacketInTraps
<1>6. CASE Produce
  <2>1. CASE ~Exit
    BY <1>6, <2>1, FaithUnchanged DEF Produce
  <2> QED
    BY <1>1, <2>1
<1>7. ASSUME NextWrite PROVE pc' # "produce"
  BY <1>7 DEF NextWrite
<1>8. CASE Write
  <2>1. pc' = pc \/ NextWrite
    BY <1>8 DEF Write
  <2>2. pc' # "produce" /\ arrived' = arrived /\ stream' = stream
    BY <1>7, <1>8, <2>1 DEF Write
  <2> QED
    BY <2>2, FaithUnchanged
<1>9. CASE WriteFails
  <2>1. CASE ~Exit
    BY <1>7, <1>9, <2>1, FaithUnchanged DEF WriteFails
  <2> QED
    BY <1>1, <2>1
<1>10. CASE WriteSkipped
  BY <1>7, <1>10, FaithUnchanged DEF WriteSkipped
<1> QED
  BY <1>2, <1>3, <1>4, <1>5, <1>6, <1>8, <1>9, <1>10 DEF Controller

LEMMA FaithStep == FaithInv /\ [Next]_vars => FaithInv'
<1> SUFFICES ASSUME FaithInv, [Next]_vars PROVE FaithInv'
  OBVIOUS
<1>1. CASE Controller
  BY <1>1, FaithController
<1>2. CASE RunReturns
  BY <1>2, FaithUnchanged DEF RunReturns, Exit
<1>3. CASE Network
  BY <1>3, FaithUnchanged DEF Network, Delivery, Deliver, DeliverUnacknowledged, Expire,
     Refuse, BrokerFails, BrokerReturns, Receive, ReceiverLeaves, process
<1>4. CASE \E clone \in Clones : PacketArrives(clone)
  BY <1>4, FaithPacketArrives
<1>5. CASE \E b \in Others : OtherArrives(b)
  BY <1>5, FaithOtherArrives
<1>6. CASE UNCHANGED vars
  BY <1>6, FaithUnchanged DEF vars, process
<1> QED
  BY <1>1, <1>2, <1>3, <1>4, <1>5, <1>6 DEF Next

\* A message about a packet says what is in it.
LEMMA MessageFaithful ==
  ASSUME NEW p, PacketOk(p), NEW b, b = KeepIntCpu(p), Accepted(b)
  PROVE  LET report == ReportParse(Report, MessageOf(b).value)
             key    == FlowKeyParse(FlowKey, MessageOf(b).key)
         IN  /\ key = [FlowKey EXCEPT !.flowId = p.flow] /\ report.packetType = 4
             /\ Len(report.hops) = Len(p.recorded)
             /\ \A i \in DOMAIN p.recorded : HopRecorded(p, report.hops[i], i)
<1> DEFINE report == ReportParse(Report, MessageOf(b).value)
           key    == FlowKeyParse(FlowKey, MessageOf(b).key)
           n == Len(p.recorded)
<1>1. report = ReportOf(b) /\ key = KeyOf(b)
  BY MessageReadsBack
<1>2. ReportOf(b).hops = HopsUpTo(p, n) /\ ReportOf(b).packetType = 4
  BY ReportOfIs
<1>3. KeyOf(b) = [FlowKey EXCEPT !.flowId = p.flow]
  BY KeyOfIs
<1>4. n \in Nat /\ DOMAIN p.recorded = 1 .. n
  BY Recorded
<1> HIDE DEF n, report, key
<1>5. Len(HopsUpTo(p, n)) = n
  BY <1>4 DEF HopsUpTo
<1>6. ASSUME NEW i \in 1 .. n PROVE HopRecorded(p, HopsUpTo(p, n)[i], i)
  BY DEF HopsUpTo, HopRecorded, HopOfRecord, HopOf
<1>7. /\ key = [FlowKey EXCEPT !.flowId = p.flow] /\ report.packetType = 4
      /\ Len(report.hops) = n
      /\ \A i \in DOMAIN p.recorded : HopRecorded(p, report.hops[i], i)
  BY <1>1, <1>2, <1>3, <1>4, <1>5, <1>6
<1> QED
  BY <1>7 DEF n, report, key

LEMMA FaithImplied == FaithInv => MessagesFaithful
<1> SUFFICES ASSUME FaithInv, pc = "produce" PROVE MessagesFaithful
  BY DEF MessagesFaithful
<1>1. PICK b \in Payloads : Accepted(b) /\ OfPacket(b, arrived) /\ current = MessageOf(b)
  BY DEF FaithInv
<1>2. PICK j \in 1 .. arrived : CameAs(b, j)
  BY <1>1 DEF OfPacket
<1>3. j \in 1 .. Len(Packets)
  BY DEF FaithInv
<1> DEFINE p == Packets[j]
           report == ReportParse(Report, current.value)
           key    == FlowKeyParse(FlowKey, current.key)
<1>4. PacketOk(p) /\ b = KeepIntCpu(p) /\ DstKey(p) = SinkKey
  BY <1>2, <1>3, PacketAt DEF CameAs
<1> HIDE DEF p
<1>5. current.topic = [parts |-> [i \in 1 .. 3 |-> Hex(HostText.parts[i])], node |-> NodeId]
  <2>1. current.topic = Topic(b)
    BY <1>1 DEF MessageOf
  <2> QED
    BY <1>4, <2>1, TopicIs
<1>6. ReportReadable(current.value) /\ FlowKeyReadable(current.key)
  BY <1>1, <1>4, MessageReadsBack
<1>7. /\ key = [FlowKey EXCEPT !.flowId = p.flow] /\ report.packetType = 4
      /\ Len(report.hops) = Len(p.recorded)
      /\ \A i \in DOMAIN p.recorded : HopRecorded(p, report.hops[i], i)
  BY <1>1, <1>4, MessageFaithful
<1> QED
  BY <1>5, <1>6, <1>7 DEF MessagesFaithful, p

\* int.cpp:134-276 and report.pb.cc: whatever packets reach the sink, of any
\* shape, with any bitmaps and any number of hops, what handlePacketIn hands to
\* the producer can be read back, and says of a packet that has come in what its
\* sender and the switches on its way know.
THEOREM AlwaysFaithful == Spec => []MessagesFaithful
<1>1. Init => FaithInv
  BY FaithInit
<1>2. FaithInv /\ [Next]_vars => FaithInv'
  BY FaithStep
<1>3. FaithInv => MessagesFaithful
  BY FaithImplied
<1> QED
  BY <1>1, <1>2, <1>3, PTL DEF Spec
=============================================================================
