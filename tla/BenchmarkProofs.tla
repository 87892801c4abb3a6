--------------------------- MODULE BenchmarkProofs ---------------------------
(***************************************************************************)
(* CountCovered of Benchmark, for any flows, any number of reports, any    *)
(* size of the queue and any faults.  A report that a goroutine has made   *)
(* is in the queue, with the broker or lost; when Flush looks at the queue *)
(* all goroutines are through, so that what is not in the queue by then is *)
(* at least the number main prints.                                        *)
(***************************************************************************)
EXTENDS Benchmark, SequenceLemmas

Gone == log \cup lost
Held == ToSet(queue) \cup Gone
Total == Len(Flows) * PktsPerFlow

TaskInv ==
  /\ task \in [FlowNr -> {"none", "generate", "produce", "done"}]
  /\ made \in [FlowNr -> 0 .. PktsPerFlow]
  /\ wg = Cardinality(AtWork)
  /\ \A i \in FlowNr : task[i] = "done" => made[i] = PktsPerFlow
  /\ \A i \in FlowNr : task[i] = "produce" => made[i] < PktsPerFlow
  /\ pc \in {"wait", "flush", "count", "close", "exit"}
       => \A i \in FlowNr : task[i] # "none"
  /\ pc \in {"flush", "count", "close", "exit"} => \A i \in FlowNr : task[i] = "done"

HeldInv ==
  /\ \E S : queue \in Seq(S)
  /\ IsFiniteSet(Gone)
  /\ pc # "exit" => \A i \in FlowNr : \A n \in 1 .. made[i] :
                      \E m \in Held : m.flow = i /\ m.nr = n

CountInv ==
  /\ pc = "count" => remaining \in Nat /\ Total - remaining <= Cardinality(Gone)
  /\ pc \in {"close", "exit"} => sent \in Int /\ sent <= Cardinality(Gone)

Inv == TaskInv /\ HeldInv /\ CountInv

-----------------------------------------------------------------------------
(* Constants, sets. *)

LEMMA Sizes == /\ Len(Flows) \in Nat \ {0} /\ PktsPerFlow \in Nat \ {0}
               /\ QueueLimit \in Nat \ {0} /\ Total \in Nat
BY BenchmarkAssumption DEF Total

LEMMA AtWorkFinite == IsFiniteSet(AtWork) /\ Cardinality(AtWork) \in Nat
<1>1. IsFiniteSet(FlowNr)
  BY Sizes, FS_Interval DEF FlowNr
<1> QED
  BY <1>1, FS_Subset, FS_CardinalityType DEF AtWork

LEMMA AtWorkFiniteNext == IsFiniteSet(AtWork') /\ Cardinality(AtWork)' \in Nat
<1>1. IsFiniteSet(FlowNr)
  BY Sizes, FS_Interval DEF FlowNr
<1> QED
  BY <1>1, FS_Subset, FS_CardinalityType DEF AtWork

\* A set of pairs of numbers from 1 on.
LEMMA GridCardinality ==
  ASSUME NEW a \in Nat \ {0}, NEW b \in Nat \ {0}
  PROVE  Cardinality((1 .. a) \X (1 .. b)) = a * b
<1>1. ASSUME NEW n \in Nat \ {0} PROVE IsFiniteSet(1 .. n) /\ Cardinality(1 .. n) = n
  <2>1. 1 \in Int /\ n \in Int
    OBVIOUS
  <2>2. /\ IsFiniteSet(1 .. n)
        /\ Cardinality(1 .. n) = IF 1 > n THEN 0 ELSE n - 1 + 1
    BY <2>1, FS_Interval, Zenon
  <2>3. ~(1 > n) /\ n - 1 + 1 = n
    OBVIOUS
  <2> QED
    BY <2>2, <2>3, Zenon
<1>2. Cardinality((1 .. a) \X (1 .. b)) = Cardinality(1 .. a) * Cardinality(1 .. b)
  BY <1>1, FS_Product, Zenon
<1> QED
  BY <1>1, <1>2, Zenon

\* A finite set that tells all reports of all flows apart has Total elements.
LEMMA CoverCardinality ==
  ASSUME NEW H, IsFiniteSet(H),
         \A i \in FlowNr : \A n \in 1 .. PktsPerFlow : \E m \in H : m.flow = i /\ m.nr = n
  PROVE  Total <= Cardinality(H)
<1> DEFINE Id(m) == <<m.flow, m.nr>>
           Pairs == FlowNr \X (1 .. PktsPerFlow)
           Named == {m \in H : Id(m) \in Pairs}
           f == [m \in Named |-> Id(m)]
<1>1. IsFiniteSet(Named) /\ Cardinality(Named) <= Cardinality(H)
  BY FS_Subset
<1>2. f \in Surjection(Named, Pairs)
  <2>1. f \in [Named -> Pairs]
    OBVIOUS
  <2>2. ASSUME NEW p \in Pairs PROVE \E m \in Named : f[m] = p
    <3>1. PICK i \in FlowNr, n \in 1 .. PktsPerFlow : p = <<i, n>>
      OBVIOUS
    <3>2. PICK m \in H : m.flow = i /\ m.nr = n
      OBVIOUS
    <3>3. m \in Named /\ f[m] = p
      BY <3>1, <3>2
    <3> QED
      BY <3>3
  <2> QED
    BY <2>1, <2>2 DEF Surjection
<1>3. Cardinality(Pairs) <= Cardinality(Named)
  <2> HIDE DEF f, Named, Pairs
  <2> QED
    BY <1>1, <1>2, FS_Surjection
<1>4. Cardinality(Pairs) = Total
  BY GridCardinality, Sizes DEF Total, FlowNr
<1>5. Cardinality(Named) \in Nat /\ Cardinality(H) \in Nat
  BY <1>1, FS_CardinalityType
<1> QED
  BY <1>1, <1>3, <1>4, <1>5, Sizes

-----------------------------------------------------------------------------
(* Steps that leave main and the goroutines alone. *)

LEMMA GrowingKept ==
  ASSUME Inv, UNCHANGED <<mainVars, taskVars>>,
         NEW S, queue' \in Seq(S), IsFiniteSet(Gone'), Gone \subseteq Gone',
         Held \subseteq Held'
  PROVE  Inv'
<1>1. /\ IsFiniteSet(Gone) /\ Cardinality(Gone) <= Cardinality(Gone')
      /\ Cardinality(Gone) \in Nat /\ Cardinality(Gone') \in Nat
  BY FS_Subset, FS_CardinalityType DEF Inv, HeldInv
<1>2. TaskInv'
  BY DEF Inv, TaskInv, mainVars, taskVars, AtWork
<1>3. HeldInv'
  BY DEF Inv, HeldInv, mainVars, taskVars
<1>4. CountInv'
  <2>1. pc = "count" => remaining \in Nat /\ Total - remaining <= Cardinality(Gone')
    BY <1>1, Sizes DEF Inv, CountInv
  <2>2. pc \in {"close", "exit"} => sent \in Int /\ sent <= Cardinality(Gone')
    BY <1>1 DEF Inv, CountInv
  <2> QED
    BY <2>1, <2>2 DEF CountInv, mainVars
<1> QED
  BY <1>2, <1>3, <1>4 DEF Inv

LEMMA KafkaKept == Inv /\ Kafka => Inv'
<1> SUFFICES ASSUME Inv, Kafka PROVE Inv'
  OBVIOUS
<1>1. PICK S : queue \in Seq(S)
  BY DEF Inv, HeldInv
<1>2. IsFiniteSet(Gone)
  BY DEF Inv, HeldInv
<1>3. CASE BrokerFails \/ BrokerReturns
  <2>1. /\ UNCHANGED <<mainVars, taskVars>>
        /\ queue' = queue /\ Gone' = Gone /\ Held' = Held
    BY <1>3 DEF BrokerFails, BrokerReturns, Gone, Held
  <2> QED
    BY <1>1, <1>2, <2>1, GrowingKept
<1>4. ASSUME NEW k \in DOMAIN queue, Deliver(k) \/ Expire(k)
      PROVE  Inv'
  <2>1. /\ UNCHANGED <<mainVars, taskVars>>
        /\ queue' = RemoveAt(queue, k) /\ Gone' = Gone \cup {queue[k]}
    BY <1>4 DEF Deliver, Expire, Gone
  <2>2. /\ queue' \in Seq(S)
        /\ ToSet(queue) \subseteq ToSet(queue') \cup {queue[k]}
    BY <1>1, <2>1, ToSetRemoveAt
  <2>3. IsFiniteSet(Gone') /\ Gone \subseteq Gone' /\ Held \subseteq Held'
    BY <1>2, <2>1, <2>2, FS_AddElement DEF Held
  <2> QED
    BY <2>1, <2>2, <2>3, GrowingKept
<1>5. ASSUME NEW k \in DOMAIN queue, DeliverUnacknowledged(k)
      PROVE  Inv'
  <2>1. /\ UNCHANGED <<mainVars, taskVars>>
        /\ queue' = queue /\ Gone' = Gone \cup {queue[k]}
    BY <1>5 DEF DeliverUnacknowledged, Gone
  <2>2. IsFiniteSet(Gone') /\ Gone \subseteq Gone' /\ Held \subseteq Held'
    BY <1>2, <2>1, FS_AddElement DEF Held
  <2> QED
    BY <1>1, <2>1, <2>2, GrowingKept
<1> QED
  BY <1>3, <1>4, <1>5 DEF Kafka

-----------------------------------------------------------------------------
(* The goroutines. *)

LEMMA GenerateKept == ASSUME Inv, NEW i \in FlowNr, Generate(i) PROVE Inv'
<1>1. /\ task[i] = "generate" /\ made[i] < PktsPerFlow
      /\ task' = [task EXCEPT ![i] = "produce"]
      /\ made' = made /\ wg' = wg /\ UNCHANGED <<mainVars, kafkaVars>>
      /\ pc \notin {"exit", "panic"}
  BY DEF Generate, Running
<1>2. AtWork' = AtWork
  BY <1>1 DEF Inv, TaskInv, AtWork
<1>3. TaskInv'
  BY <1>1, <1>2 DEF Inv, TaskInv, mainVars
<1>4. HeldInv' /\ CountInv'
  BY <1>1 DEF Inv, HeldInv, CountInv, Held, Gone, mainVars, kafkaVars
<1> QED
  BY <1>3, <1>4 DEF Inv

LEMMA ProduceKept == ASSUME Inv, NEW i \in FlowNr, Produce(i) PROVE Inv'
<1>1. /\ task[i] = "produce" /\ made[i] \in 0 .. PktsPerFlow /\ made[i] < PktsPerFlow
      /\ task' = [task EXCEPT ![i] = "generate"]
      /\ made' = [made EXCEPT ![i] = @ + 1]
      /\ wg' = wg /\ UNCHANGED mainVars
      /\ pc \notin {"exit", "panic"}
  BY DEF Produce, Running, Inv, TaskInv
<1>2. AtWork' = AtWork
  BY <1>1 DEF Inv, TaskInv, AtWork
<1>3. pc \in {"open", "topics", "start", "wait"} \/ pc \notin {"flush", "count", "close", "exit"}
  BY <1>1 DEF Inv, TaskInv
<1>4. pc \notin {"flush", "count", "close", "exit"}
  BY <1>1 DEF Inv, TaskInv
<1>5. made' \in [FlowNr -> 0 .. PktsPerFlow]
  BY <1>1, Sizes DEF Inv, TaskInv
<1>6. TaskInv'
  BY <1>1, <1>2, <1>4, <1>5 DEF Inv, TaskInv, mainVars
<1>7. PICK S : queue \in Seq(S)
  BY DEF Inv, HeldInv
<1>8. /\ \E T : queue' \in Seq(T)
      /\ IsFiniteSet(Gone')
      /\ Held' = Held \cup {Message(i)}
  <2>1. CASE queue' = Append(queue, Message(i)) /\ lost' = lost /\ log' = log
    <3> DEFINE T == S \cup {Message(i)}
    <3>1. queue \in Seq(T)
      BY <1>7
    <3>2. queue' \in Seq(T) /\ ToSet(queue') = ToSet(queue) \cup {Message(i)}
      <4> HIDE DEF T
      <4>1. Message(i) \in T
        BY DEF T
      <4> QED
        BY <2>1, <3>1, <4>1, ToSetAppend
    <3> QED
      BY <2>1, <3>2 DEF Inv, HeldInv, Held, Gone
  <2>2. CASE queue' = queue /\ lost' = lost \cup {Message(i)} /\ log' = log
    <3>1. Gone' = Gone \cup {Message(i)}
      BY <2>2 DEF Gone
    <3>2. IsFiniteSet(Gone')
      BY <3>1, FS_AddElement DEF Inv, HeldInv
    <3> QED
      BY <1>7, <2>2, <3>1, <3>2 DEF Held
  <2> QED
    BY <2>1, <2>2 DEF Produce
<1>9. ASSUME NEW j \in FlowNr, NEW n \in 1 .. made'[j]
      PROVE  \E m \in Held' : m.flow = j /\ m.nr = n
  <2>1. CASE n \in 1 .. made[j]
    BY <1>1, <1>8, <2>1 DEF Inv, HeldInv
  <2>2. CASE n \notin 1 .. made[j]
    <3>1. j = i /\ n = made[i] + 1
      BY <1>1, <2>2 DEF Inv, TaskInv
    <3>2. Message(i).flow = i /\ Message(i).nr = made[i] + 1
      BY DEF Message
    <3> QED
      BY <1>8, <3>1, <3>2
  <2> QED
    BY <2>1, <2>2
<1>10. HeldInv'
  BY <1>8, <1>9 DEF HeldInv
<1>11. CountInv'
  BY <1>1, <1>4 DEF CountInv, mainVars
<1> QED
  BY <1>6, <1>10, <1>11 DEF Inv

LEMMA FinishKept == ASSUME Inv, NEW i \in FlowNr, Finish(i) PROVE Inv'
<1>1. /\ task[i] = "generate" /\ made[i] = PktsPerFlow
      /\ task' = [task EXCEPT ![i] = "done"]
      /\ made' = made /\ wg' = wg - 1 /\ UNCHANGED <<mainVars, kafkaVars>>
  BY DEF Finish
<1>2. AtWork' = AtWork \ {i} /\ i \in AtWork
  BY <1>1 DEF Inv, TaskInv, AtWork
<1>3. Cardinality(AtWork') = Cardinality(AtWork) - 1
  BY <1>2, AtWorkFinite, FS_RemoveElement
<1>4. TaskInv'
  BY <1>1, <1>3 DEF Inv, TaskInv, mainVars
<1>5. HeldInv' /\ CountInv'
  BY <1>1 DEF Inv, HeldInv, CountInv, Held, Gone, mainVars, kafkaVars
<1> QED
  BY <1>4, <1>5 DEF Inv

-----------------------------------------------------------------------------
(* main. *)

LEMMA StartFlowKept == ASSUME Inv, NEW i \in FlowNr, StartFlow(i) PROVE Inv'
<1>1. /\ pc = "start" /\ task[i] = "none" /\ \A j \in 1 .. i - 1 : task[j] # "none"
      /\ wg' = wg + 1 /\ task' = [task EXCEPT ![i] = "generate"]
      /\ pc' = IF i = Len(Flows) THEN "wait" ELSE "start"
      /\ made' = made /\ UNCHANGED kafkaVars
  BY DEF StartFlow
<1>2. AtWork' = AtWork \cup {i} /\ i \notin AtWork
  BY <1>1 DEF Inv, TaskInv, AtWork
<1>3. Cardinality(AtWork') = Cardinality(AtWork) + 1
  BY <1>2, AtWorkFinite, FS_AddElement
<1>4. ASSUME pc' = "wait", NEW j \in FlowNr PROVE task'[j] # "none"
  <2>1. i = Len(Flows)
    BY <1>1, <1>4
  <2>2. j = i \/ j \in 1 .. i - 1
    BY <2>1, Sizes DEF FlowNr
  <2> QED
    BY <1>1, <2>2 DEF Inv, TaskInv
<1>5. TaskInv'
  BY <1>1, <1>3, <1>4 DEF Inv, TaskInv
<1>6. HeldInv' /\ CountInv'
  BY <1>1 DEF Inv, HeldInv, CountInv, Held, Gone, kafkaVars
<1> QED
  BY <1>5, <1>6 DEF Inv

LEMMA WaitKept == Inv /\ Wait => Inv'
<1> SUFFICES ASSUME Inv, Wait PROVE Inv'
  OBVIOUS
<1>1. /\ pc = "wait" /\ wg = 0 /\ pc' = "flush" /\ UNCHANGED <<taskVars, kafkaVars>>
  BY DEF Wait
<1>2. AtWork = {}
  BY <1>1, AtWorkFinite, FS_EmptySet DEF Inv, TaskInv
<1>3. \A i \in FlowNr : task[i] = "done"
  BY <1>1, <1>2 DEF Inv, TaskInv, AtWork
<1>4. AtWork' = AtWork
  BY <1>1 DEF AtWork, taskVars
<1>5. TaskInv'
  BY <1>1, <1>3, <1>4 DEF Inv, TaskInv, taskVars
<1>6. HeldInv' /\ CountInv'
  BY <1>1 DEF Inv, HeldInv, CountInv, Held, Gone, taskVars, kafkaVars
<1> QED
  BY <1>5, <1>6 DEF Inv

LEMMA FlushKept == Inv /\ Flush => Inv'
<1> SUFFICES ASSUME Inv, Flush PROVE Inv'
  OBVIOUS
<1>1. /\ pc = "flush" /\ pc' = "count" /\ remaining' \in Len(queue)..Len(queue) + faults
      /\ UNCHANGED <<taskVars, kafkaVars>>
  BY DEF Flush
<1>2. PICK S : queue \in Seq(S)
  BY DEF Inv, HeldInv
<1>3. /\ IsFiniteSet(ToSet(queue)) /\ Cardinality(ToSet(queue)) \in Nat
      /\ Cardinality(ToSet(queue)) <= Len(queue) /\ Len(queue) \in Nat
  BY <1>2, ToSetCardinality
<1>4. IsFiniteSet(Gone) /\ Cardinality(Gone) \in Nat
  BY FS_CardinalityType DEF Inv, HeldInv
<1>5. /\ IsFiniteSet(Held) /\ Cardinality(Held) \in Nat
      /\ Cardinality(Held) <= Cardinality(ToSet(queue)) + Cardinality(Gone)
  <2>1. /\ IsFiniteSet(Held)
        /\ Cardinality(Held) = Cardinality(ToSet(queue)) + Cardinality(Gone)
                               - Cardinality(ToSet(queue) \cap Gone)
    BY <1>3, <1>4, FS_Union DEF Held
  <2>2. Cardinality(ToSet(queue) \cap Gone) \in Nat
    BY <1>3, FS_Subset, FS_CardinalityType
  <2>3. Cardinality(Held) \in Nat
    BY <2>1, FS_CardinalityType
  <2> QED
    BY <1>3, <1>4, <2>1, <2>2, <2>3
<1>6. Total <= Cardinality(Held)
  <2>1. \A i \in FlowNr : \A n \in 1 .. PktsPerFlow : \E m \in Held : m.flow = i /\ m.nr = n
    BY <1>1 DEF Inv, TaskInv, HeldInv
  <2> QED
    BY <1>5, <2>1, CoverCardinality
<1>7. Total - Len(queue) <= Cardinality(Gone)
  BY <1>3, <1>4, <1>5, <1>6, Sizes
<1>8. Gone' = Gone /\ AtWork' = AtWork
  BY <1>1 DEF Gone, AtWork, taskVars, kafkaVars
<1>9. CountInv'
  <2>1. remaining' \in Nat /\ Total - remaining' <= Cardinality(Gone)
    BY <1>1, <1>3, <1>4, <1>7, Sizes
  <2> QED
    BY <1>1, <1>8, <2>1 DEF CountInv
<1>10. TaskInv' /\ HeldInv'
  BY <1>1, <1>8 DEF Inv, TaskInv, HeldInv, Held, taskVars, kafkaVars
<1> QED
  BY <1>9, <1>10 DEF Inv

LEMMA CountKept == Inv /\ Count => Inv'
<1> SUFFICES ASSUME Inv, Count PROVE Inv'
  OBVIOUS
<1>1. /\ pc = "count" /\ pc' = "close" /\ sent' = Total - remaining
      /\ UNCHANGED <<taskVars, kafkaVars>>
  BY DEF Count, Total
<1>2. Gone' = Gone /\ AtWork' = AtWork
  BY <1>1 DEF Gone, AtWork, taskVars, kafkaVars
<1>3. CountInv'
  BY <1>1, <1>2, Sizes DEF Inv, CountInv
<1>4. TaskInv' /\ HeldInv'
  BY <1>1, <1>2 DEF Inv, TaskInv, HeldInv, Held, taskVars, kafkaVars
<1> QED
  BY <1>3, <1>4 DEF Inv

LEMMA CloseKept == Inv /\ Close => Inv'
<1> SUFFICES ASSUME Inv, Close PROVE Inv'
  OBVIOUS
<1>1. /\ pc = "close" /\ pc' = "exit" /\ queue' = <<>> /\ sent' = sent
      /\ UNCHANGED <<taskVars, log, lost>>
  BY DEF Close
<1>2. Gone' = Gone /\ AtWork' = AtWork
  BY <1>1 DEF Gone, AtWork, taskVars
<1>3. <<>> \in Seq({})
  OBVIOUS
<1>4. HeldInv'
  BY <1>1, <1>2, <1>3 DEF Inv, HeldInv
<1>5. TaskInv' /\ CountInv'
  BY <1>1, <1>2 DEF Inv, TaskInv, CountInv, taskVars
<1> QED
  BY <1>4, <1>5 DEF Inv

LEMMA MainKept == Inv /\ Main => Inv'
<1> SUFFICES ASSUME Inv, Main PROVE Inv'
  OBVIOUS
<1>1. CASE Open \/ CreateTopics
  <2>1. /\ pc \in {"open", "topics"} /\ pc' \in {"topics", "start", "panic"}
        /\ UNCHANGED <<taskVars, kafkaVars>>
    BY <1>1 DEF Open, CreateTopics
  <2>2. AtWork' = AtWork
    BY <2>1 DEF AtWork, taskVars
  <2>3. TaskInv' /\ CountInv'
    BY <2>1, <2>2 DEF Inv, TaskInv, CountInv, taskVars
  <2>4. HeldInv'
    BY <2>1 DEF Inv, HeldInv, Held, Gone, taskVars, kafkaVars
  <2> QED
    BY <2>3, <2>4 DEF Inv
<1> QED
  BY <1>1, WaitKept, FlushKept, CountKept, CloseKept, StartFlowKept DEF Main

-----------------------------------------------------------------------------
LEMMA HeldInit == Init => Inv
<1> SUFFICES ASSUME Init PROVE Inv
  OBVIOUS
<1>1. AtWork = {} /\ Gone = {}
  BY DEF Init, AtWork, Gone
<1>2. <<>> \in Seq({})
  OBVIOUS
<1>3. TaskInv
  BY <1>1, FS_EmptySet, Sizes DEF Init, TaskInv
<1>4. HeldInv
  BY <1>1, <1>2, FS_EmptySet DEF Init, HeldInv
<1>5. CountInv
  BY DEF Init, CountInv
<1> QED
  BY <1>3, <1>4, <1>5 DEF Inv

LEMMA HeldNext == Inv /\ [Next]_vars => Inv'
<1> SUFFICES ASSUME Inv, [Next]_vars PROVE Inv'
  OBVIOUS
<1>1. CASE Main
  BY <1>1, MainKept
<1>2. CASE Kafka
  BY <1>2, KafkaKept
<1>3. ASSUME NEW i \in FlowNr, Task(i) PROVE Inv'
  BY <1>3, GenerateKept, ProduceKept, FinishKept DEF Task
<1>4. CASE UNCHANGED vars
  BY <1>4 DEF Inv, TaskInv, HeldInv, CountInv, Held, Gone, AtWork, vars, mainVars,
              taskVars, kafkaVars
<1> QED
  BY <1>1, <1>2, <1>3, <1>4 DEF Next

\* main.go:215-226: the number that main prints is covered by reports that the
\* broker has got and reports that the producer has dropped, whatever the
\* interleaving of main, the goroutines and the delivery.
THEOREM CountCoveredHolds == Spec => []CountCovered
<1>1. Inv => CountCovered
  BY DEF Inv, CountInv, CountCovered, Gone
<1> QED
  BY <1>1, HeldInit, HeldNext, PTL DEF Spec

-----------------------------------------------------------------------------
(* The queue. *)

QueueFits == Len(queue) <= QueueLimit

\* What a step does to the queue and to what has left it.
LEMMA QueueSteps ==
  ASSUME Inv, QueueFits, Next
  PROVE  /\ QueueFits'
         /\ \/ InTransit' \subseteq InTransit
            \/ \E i \in FlowNr : Produce(i) /\ InTransit' \subseteq InTransit \cup {Message(i)}
<1>1. PICK S : queue \in Seq(S)
  BY DEF Inv, HeldInv
<1>2. Len(queue) \in Nat /\ QueueLimit \in Nat \ {0} /\ Len(queue) <= QueueLimit
  BY <1>1, Sizes DEF QueueFits
<1>3. ASSUME queue' = queue /\ log' = log
      PROVE  QueueFits' /\ InTransit' \subseteq InTransit
  BY <1>2, <1>3 DEF QueueFits, InTransit
<1>4. ASSUME NEW k \in DOMAIN queue, queue' = RemoveAt(queue, k),
             log' \subseteq log \cup {queue[k]}
      PROVE  QueueFits' /\ InTransit' \subseteq InTransit
  <2>1. /\ Len(queue') = Len(queue) - 1 /\ ToSet(queue') \subseteq ToSet(queue)
    BY <1>1, <1>4, ToSetRemoveAt
  <2>2. queue[k] \in ToSet(queue)
    BY DEF ToSet
  <2> QED
    BY <1>2, <1>4, <2>1, <2>2 DEF QueueFits, InTransit
<1>5. ASSUME NEW k \in DOMAIN queue, DeliverUnacknowledged(k)
      PROVE  QueueFits' /\ InTransit' \subseteq InTransit
  <2>1. queue' = queue /\ log' = log \cup {queue[k]} /\ queue[k] \in ToSet(queue)
    BY <1>5 DEF DeliverUnacknowledged, ToSet
  <2> QED
    BY <1>2, <2>1 DEF QueueFits, InTransit
<1>6. CASE Kafka
  BY <1>3, <1>4, <1>5, <1>6 DEF Kafka, BrokerFails, BrokerReturns, Deliver, Expire
<1>7. CASE Close
  <2>1. queue' = <<>> /\ log' = log /\ ToSet(<<>>) = {} /\ Len(<<>>) = 0
    BY <1>7 DEF Close, ToSet
  <2> QED
    BY <1>2, <2>1 DEF QueueFits, InTransit
<1>8. ASSUME NEW i \in FlowNr, Produce(i)
      PROVE  QueueFits' /\ InTransit' \subseteq InTransit \cup {Message(i)}
  <2>1. CASE queue' = queue /\ log' = log
    BY <1>3, <2>1
  <2>2. CASE Len(queue) < QueueLimit /\ queue' = Append(queue, Message(i)) /\ log' = log
    <3> DEFINE m == Message(i)
    <3> HIDE DEF m
    <3>1. queue \in Seq(S \cup {m}) /\ m \in S \cup {m}
      BY <1>1
    <3>2. Len(Append(queue, m)) = Len(queue) + 1 /\ ToSet(Append(queue, m)) = ToSet(queue) \cup {m}
      BY <3>1, ToSetAppend
    <3> QED
      BY <1>2, <2>2, <3>2 DEF QueueFits, InTransit, m
  <2> QED
    BY <1>8, <2>1, <2>2 DEF Produce
<1>9. CASE Main /\ ~Close
  <2>1. queue' = queue /\ log' = log
    BY <1>9 DEF Main, Open, CreateTopics, Wait, Flush, Count, StartFlow, kafkaVars
  <2> QED
    BY <1>3, <2>1
<1>10. ASSUME NEW i \in FlowNr, Generate(i) \/ Finish(i)
       PROVE  QueueFits' /\ InTransit' \subseteq InTransit
  BY <1>3, <1>10 DEF Generate, Finish, kafkaVars
<1> QED
  BY <1>6, <1>7, <1>8, <1>9, <1>10 DEF Next, Task

LEMMA QueueInit == Init => QueueFits
BY Sizes DEF Init, QueueFits

LEMMA QueueNext == Inv /\ QueueFits /\ [Next]_vars => QueueFits'
<1> SUFFICES ASSUME Inv, QueueFits, [Next]_vars PROVE QueueFits'
  OBVIOUS
<1>1. CASE Next
  BY <1>1, QueueSteps
<1>2. CASE UNCHANGED vars
  BY <1>2 DEF vars, kafkaVars, QueueFits
<1> QED
  BY <1>1, <1>2

-----------------------------------------------------------------------------
(* Types. *)

RestTypes ==
  /\ pc \in {"open", "topics", "start", "wait", "flush", "count", "close", "exit", "panic"}
  /\ remaining \in 0 .. QueueLimit + MaxFaults
  /\ broker \in BOOLEAN /\ faults \in 0 .. MaxFaults

LEMMA RestNext == Inv /\ QueueFits /\ RestTypes /\ [Next]_vars => RestTypes'
<1> SUFFICES ASSUME Inv, QueueFits, RestTypes, [Next]_vars PROVE RestTypes'
  OBVIOUS
<1>1. CASE Main
  <2>1. CASE Flush
    <3>1. Len(queue) \in 0 .. QueueLimit
      BY Sizes DEF Inv, HeldInv, QueueFits
    <3>2. remaining' \in 0 .. QueueLimit + MaxFaults
      BY <2>1, <3>1, BenchmarkAssumption DEF Flush, RestTypes
    <3> QED
      BY <2>1, <3>2 DEF Flush, RestTypes, kafkaVars
  <2>2. CASE ~Flush
    BY <1>1, <2>2 DEF Main, Open, CreateTopics, Wait, Count, Close, StartFlow, RestTypes,
                      kafkaVars
  <2> QED
    BY <2>1, <2>2
<1>2. CASE Kafka
  <2>1. /\ UNCHANGED mainVars
        /\ \/ faults' = faults
           \/ faults < MaxFaults /\ faults' = faults + 1
        /\ \/ broker' = broker
           \/ broker' = TRUE
           \/ broker' = FALSE
    <3>1. CASE BrokerFails \/ BrokerReturns
      BY <3>1, Zenon DEF BrokerFails, BrokerReturns
    <3>2. ASSUME NEW k \in DOMAIN queue, Deliver(k) \/ DeliverUnacknowledged(k) \/ Expire(k)
          PROVE  /\ UNCHANGED mainVars /\ broker' = broker
                 /\ \/ faults' = faults
                    \/ faults < MaxFaults /\ faults' = faults + 1
      BY <3>2, Zenon DEF Deliver, DeliverUnacknowledged, Expire
    <3> QED
      BY <1>2, <3>1, <3>2, Zenon DEF Kafka
  <2>2. broker' = broker \/ broker' = TRUE \/ broker' = FALSE
    BY <2>1, Zenon
  <2>3. broker' \in BOOLEAN
    BY <2>2, Zenon DEF RestTypes
  <2>4. faults' \in 0 .. MaxFaults
    BY <2>1, BenchmarkAssumption DEF RestTypes
  <2> QED
    BY <2>1, <2>3, <2>4 DEF RestTypes, mainVars
<1>3. ASSUME NEW i \in FlowNr, Task(i) PROVE RestTypes'
  BY <1>3 DEF Task, Generate, Produce, Finish, RestTypes, mainVars, kafkaVars
<1>4. CASE UNCHANGED vars
  BY <1>4 DEF RestTypes, vars, mainVars, kafkaVars
<1> QED
  BY <1>1, <1>2, <1>3, <1>4 DEF Next

\* Every variable keeps its type; the counter of the WaitGroup (main.go:77-79) is
\* the number of goroutines at work, and so never negative, which would be a
\* panic; the queue stays within its limit.
THEOREM BenchmarkTypes == Spec => []TypeOK
<1>1. Init => RestTypes
  BY BenchmarkAssumption DEF Init, RestTypes
<1>2. Inv /\ QueueFits /\ RestTypes => TypeOK
  BY DEF Inv, TaskInv, QueueFits, RestTypes, TypeOK
<1> QED
  BY <1>1, <1>2, HeldInit, HeldNext, QueueInit, QueueNext, RestNext, PTL DEF Spec

-----------------------------------------------------------------------------
(* The hops of a report. *)

OfFlow(m) == /\ m.flow \in FlowNr
             /\ m.key = Flows[m.flow].key /\ m.hops = Flows[m.flow].path

OwnInv ==
  /\ hops = [i \in FlowNr |-> hops[i]]
  /\ \A i \in FlowNr : task[i] = "produce" => hops[i] = Flows[i].path
  /\ \A m \in InTransit : OfFlow(m)

LEMMA OwnNext == Inv /\ QueueFits /\ OwnInv /\ [Next]_vars => OwnInv'
<1> SUFFICES ASSUME Inv, QueueFits, OwnInv, [Next]_vars PROVE OwnInv'
  OBVIOUS
<1>1. CASE UNCHANGED vars
  BY <1>1 DEF OwnInv, InTransit, vars, taskVars, kafkaVars
<1>2. ASSUME Next PROVE \A m \in InTransit' : OfFlow(m)
  <2>1. CASE InTransit' \subseteq InTransit
    BY <2>1 DEF OwnInv
  <2>2. ASSUME NEW i \in FlowNr, Produce(i), InTransit' \subseteq InTransit \cup {Message(i)}
        PROVE  \A m \in InTransit' : OfFlow(m)
    <3>1. OfFlow(Message(i))
      BY <2>2 DEF OfFlow, Message, Produce, OwnInv
    <3> QED
      BY <2>2, <3>1 DEF OwnInv
  <2> QED
    BY <1>2, <2>1, <2>2, QueueSteps
<1>3. ASSUME Next
      PROVE  /\ hops' = [i \in FlowNr |-> hops'[i]]
             /\ \A i \in FlowNr : task'[i] = "produce" => hops'[i] = Flows[i].path
  <2>1. CASE Main
    BY <2>1 DEF Main, Open, CreateTopics, Wait, Flush, Count, Close, StartFlow, OwnInv,
                taskVars, Inv, TaskInv
  <2>2. CASE Kafka
    BY <2>2 DEF Kafka, BrokerFails, BrokerReturns, Deliver, DeliverUnacknowledged, Expire,
                OwnInv, taskVars
  <2>3. ASSUME NEW i \in FlowNr, Task(i)
        PROVE  /\ hops' = [j \in FlowNr |-> hops'[j]]
               /\ \A j \in FlowNr : task'[j] = "produce" => hops'[j] = Flows[j].path
    BY <2>3 DEF Task, Generate, Produce, Finish, OwnInv, Inv, TaskInv
  <2> QED
    BY <1>3, <2>1, <2>2, <2>3 DEF Next
<1> QED
  BY <1>1, <1>2, <1>3 DEF OwnInv

LEMMA OwnReports == ASSUME FlowsFit, OwnInv PROVE ReportsOwn
<1>1. ASSUME NEW m \in InTransit
      PROVE  m.flow \in FlowNr /\ Links(m) = Links(FlowReport(m.flow))
  BY <1>1 DEF OwnInv, OfFlow, Links, FlowReport
<1>2. ASSUME NEW m \in InTransit
      PROVE  EndsAt(m) /\ \A link \in Links(m) : \A end \in link : end[2] # 0
  <2>1. EndsAt(m) <=> EndsAt(FlowReport(m.flow))
    BY <1>2 DEF OwnInv, OfFlow, EndsAt, FlowReport
  <2> QED
    BY <1>1, <1>2, <2>1 DEF FlowsFit
<1>3. ASSUME NEW m \in InTransit, NEW n \in InTransit,
             NEW l1 \in Links(m), NEW l2 \in Links(n), l1 \cap l2 # {}
      PROVE  l1 = l2
  BY <1>1, <1>3 DEF FlowsFit
<1> QED
  BY <1>2, <1>3 DEF ReportsOwn

\* main.go:91-104: rep.Hops is emptied and filled again for every report, so that
\* each has the hops of one packet of its flow, whose ends are those of its key,
\* and an interface leads to one other in all of them, if that is so for the flows.
THEOREM ReportsOwnHolds ==
  ASSUME FlowsFit
  PROVE  Spec => []ReportsOwn
<1>1. Init => OwnInv
  BY DEF Init, OwnInv, InTransit, ToSet
<1> QED
  BY <1>1, HeldInit, HeldNext, QueueInit, QueueNext, OwnNext, OwnReports, PTL DEF Spec
=============================================================================
