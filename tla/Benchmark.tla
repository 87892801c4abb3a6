------------------------------ MODULE Benchmark ------------------------------
(* The load generator of src/telemetry/kafka/benchmark: main starts a         *)
(* goroutine for every flow, each of which hands PktsPerFlow reports to one   *)
(* producer and ignores whether it took them; main waits for all of them,     *)
(* flushes the producer for ten seconds at most, and prints how many reports  *)
(* were sent.  main_modified.go does the same with pauses between the         *)
(* reports, random latencies and flows of its own.                            *)
EXTENDS Integers, SequencesExt

CONSTANTS Flows,        \* the flows of main, in the order in which they start
          PktsPerFlow,  \* -pkts-per-flow
          QueueLimit,   \* queue.buffering.max.messages of librdkafka
          MaxFaults

ASSUME BenchmarkAssumption ==
  /\ Len(Flows) \in Nat \ {0} /\ \A f \in ToSet(Flows) : Len(f.path) > 0
  /\ PktsPerFlow \in Nat \ {0} /\ QueueLimit \in Nat \ {0} /\ MaxFaults \in Nat

FlowNr == 1..Len(Flows)

VARIABLES pc,         \* what main is doing
          wg,         \* the counter of the WaitGroup
          task,       \* what the goroutine of each flow is doing
          made,       \* how many reports each goroutine has produced
          hops,       \* rep.Hops of each goroutine
          remaining,  \* what Flush returned
          sent,       \* the number of reports main prints
          queue,      \* the producer's
          log,        \* the messages the broker has
          lost,       \* those it will never get: refused by Produce, or expired
          broker, faults

mainVars == <<pc, remaining, sent>>
taskVars == <<wg, task, made, hops>>
kafkaVars == <<queue, log, lost, broker, faults>>
vars == <<mainVars, taskVars, kafkaVars>>

-----------------------------------------------------------------------------
Init == /\ pc = "open" /\ remaining = 0 /\ sent = 0
        /\ wg = 0 /\ task = [i \in FlowNr |-> "none"]
        /\ made = [i \in FlowNr |-> 0] /\ hops = [i \in FlowNr |-> <<>>]
        /\ queue = <<>> /\ log = {} /\ lost = {} /\ broker = TRUE /\ faults = 0

\* The producer and the admin client are made, or main panics.
Open == /\ pc = "open"
        /\ pc' \in {"topics", "panic"}
        /\ UNCHANGED <<remaining, sent, taskVars, kafkaVars>>

\* A topic that exists is as good as one that was created; anything else, and a
\* broker that does not answer, is a panic.
CreateTopics == /\ pc = "topics"
                /\ \/ broker /\ pc' = "start"
                   \/ pc' = "panic"
                /\ UNCHANGED <<remaining, sent, taskVars, kafkaVars>>

\* wg is incremented before the goroutine starts.
StartFlow(i) ==
  /\ pc = "start" /\ task[i] = "none"
  /\ \A j \in 1..i - 1 : task[j] # "none"
  /\ wg' = wg + 1
  /\ task' = [task EXCEPT ![i] = "generate"]
  /\ pc' = IF i = Len(Flows) THEN "wait" ELSE pc
  /\ UNCHANGED <<remaining, sent, made, hops, kafkaVars>>

\* Mutant: main goes on while there are goroutines at work.
WaitNot == /\ pc = "wait"
           /\ pc' = "flush"
           /\ UNCHANGED <<remaining, sent, taskVars, kafkaVars>>

\* wg.Wait()
Wait == /\ pc = "wait" /\ wg = 0
        /\ pc' = "flush"
        /\ UNCHANGED <<remaining, sent, taskVars, kafkaVars>>

\* prod.Flush(10_000): it returns when nothing is left or its time is up.  What is
\* left are the messages in the queue and the events in the channel of the client:
\* nobody reads them, and without go.delivery.reports they are the errors that
\* outages make, here one for each fault at most.
Flush == /\ pc = "flush"
         /\ remaining' \in Len(queue)..Len(queue) + faults
         /\ pc' = "count"
         /\ UNCHANGED <<sent, taskVars, kafkaVars>>

Count == /\ pc = "count"
         /\ sent' = Len(Flows) * PktsPerFlow - remaining
         /\ pc' = "close"
         /\ UNCHANGED <<remaining, taskVars, kafkaVars>>

\* The deferred calls: prod.Close() gives up what is still in the queue.
Close == /\ pc = "close"
         /\ pc' = "exit" /\ queue' = <<>>
         /\ UNCHANGED <<remaining, sent, taskVars, log, lost, broker, faults>>

-----------------------------------------------------------------------------
(* The goroutine of a flow; all of them end with main.                        *)

Running == pc \notin {"exit", "panic"}

\* Mutant: rep.Hops is not emptied between two reports.
GenerateMore(i) ==
  /\ Running /\ task[i] = "generate" /\ made[i] < PktsPerFlow
  /\ hops' = [hops EXCEPT ![i] = @ \o Flows[i].path]
  /\ task' = [task EXCEPT ![i] = "produce"]
  /\ UNCHANGED <<mainVars, wg, made, kafkaVars>>

\* rep.Hops is emptied and the generator of the flow appends the metadata of its
\* nodes.  The array is the one of the last report, but that went to Produce as the
\* bytes proto.Marshal made of it (see Message): nothing in the queue shares it.
Generate(i) ==
  /\ Running /\ task[i] = "generate" /\ made[i] < PktsPerFlow
  /\ hops' = [hops EXCEPT ![i] = Flows[i].path]
  /\ task' = [task EXCEPT ![i] = "produce"]
  /\ UNCHANGED <<mainVars, wg, made, kafkaVars>>

\* A value of its own, like the bytes of proto.Marshal.
Message(i) == [flow |-> i, nr |-> made[i] + 1, key |-> Flows[i].key, hops |-> hops[i]]

\* flow.prod.Produce: the error that says that the queue is full is dropped.
Produce(i) ==
  /\ Running /\ task[i] = "produce"
  /\ \/ /\ Len(queue) < QueueLimit
        /\ queue' = Append(queue, Message(i)) /\ lost' = lost
     \/ /\ Len(queue) >= QueueLimit
        /\ lost' = lost \cup {Message(i)} /\ queue' = queue
  /\ made' = [made EXCEPT ![i] = @ + 1]
  /\ task' = [task EXCEPT ![i] = "generate"]
  /\ UNCHANGED <<mainVars, wg, hops, log, broker, faults>>

\* Mutant: a goroutine that ends does not tell the WaitGroup.
FinishSilently(i) ==
  /\ Running /\ task[i] = "generate" /\ made[i] = PktsPerFlow
  /\ task' = [task EXCEPT ![i] = "done"]
  /\ UNCHANGED <<mainVars, wg, made, hops, kafkaVars>>

Finish(i) ==
  /\ Running /\ task[i] = "generate" /\ made[i] = PktsPerFlow
  /\ task' = [task EXCEPT ![i] = "done"]
  /\ wg' = wg - 1
  /\ UNCHANGED <<mainVars, made, hops, kafkaVars>>

-----------------------------------------------------------------------------
(* librdkafka and the broker.                                                 *)

Deliver(k) == /\ broker
              /\ log' = log \cup {queue[k]} /\ queue' = RemoveAt(queue, k)
              /\ UNCHANGED <<mainVars, taskVars, lost, broker, faults>>

\* The acknowledgement is lost: the message will be sent again.
DeliverUnacknowledged(k) ==
  /\ broker /\ faults < MaxFaults
  /\ log' = log \cup {queue[k]} /\ faults' = faults + 1
  /\ UNCHANGED <<mainVars, taskVars, queue, lost, broker>>

\* message.timeout.ms has passed; go.delivery.reports is off, nobody is told.
Expire(k) == /\ ~broker
             /\ lost' = lost \cup {queue[k]} /\ queue' = RemoveAt(queue, k)
             /\ UNCHANGED <<mainVars, taskVars, log, broker, faults>>

BrokerFails == /\ broker /\ faults < MaxFaults
               /\ broker' = FALSE /\ faults' = faults + 1
               /\ UNCHANGED <<mainVars, taskVars, queue, log, lost>>

BrokerReturns == /\ ~broker
                 /\ broker' = TRUE
                 /\ UNCHANGED <<mainVars, taskVars, queue, log, lost, faults>>

Main == \/ Open \/ CreateTopics \/ Wait \/ Flush \/ Count \/ Close
        \/ \E i \in FlowNr : StartFlow(i)
Task(i) == Generate(i) \/ Produce(i) \/ Finish(i)
Kafka == \/ BrokerFails \/ BrokerReturns
         \/ \E k \in DOMAIN queue : Deliver(k) \/ DeliverUnacknowledged(k) \/ Expire(k)

Next == Main \/ Kafka \/ \E i \in FlowNr : Task(i)

Spec == Init /\ [][Next]_vars

\* The Go scheduler runs what can run; of Kafka nothing is assumed.
LiveSpec == Spec /\ WF_vars(Main) /\ \A i \in FlowNr : WF_vars(Task(i))

-----------------------------------------------------------------------------
\* The WaitGroup counts the goroutines at work, in all phases of main.
AtWork == {i \in FlowNr : task[i] \in {"generate", "produce"}}
TypeOK ==
  /\ pc \in {"open", "topics", "start", "wait", "flush", "count", "close", "exit", "panic"}
  /\ task \in [FlowNr -> {"none", "generate", "produce", "done"}]
  /\ made \in [FlowNr -> 0..PktsPerFlow]
  /\ wg = Cardinality(AtWork)
  /\ Len(queue) <= QueueLimit /\ remaining \in 0..QueueLimit + MaxFaults
  /\ broker \in BOOLEAN /\ faults \in 0..MaxFaults

\* What main prints is never more than the broker has got and the producer has
\* dropped: it counts after the last report of every goroutine, and whatever is
\* in the queue by then is not counted (main.go:215-226).
CountCovered ==
  pc \in {"close", "exit"} => sent <= Cardinality(log \cup lost)

\* The hops in the direction of the packet, whichever end a report starts with:
\* report.proto has the sink first, main.go makes them with the source first.
FromSource(path) == IF path[1].in = 0 THEN path ELSE Reverse(path)

\* The links between the hops of a report, as pairs of interfaces.
Links(m) ==
  LET path == FromSource(m.hops)
  IN  {{<<path[j].node, path[j].out>>, <<path[j + 1].node, path[j + 1].in>>} :
         j \in 1..Len(path) - 1}

\* The packet enters INT at the source AS of the key and leaves it at the
\* destination AS.
EndsAt(m) ==
  LET path == FromSource(m.hops)
  IN  /\ path[1].node.asn = m.key.src /\ path[1].in = 0
      /\ Last(path).node.asn = m.key.dst /\ Last(path).out = 0

FlowReport(i) == [key |-> Flows[i].key, hops |-> Flows[i].path]

\* The flows fit together: each goes from the source to the destination of its
\* key, and an interface leads to one other (main.go:179-213).
FlowsFit ==
  /\ \A i \in FlowNr :
       /\ EndsAt(FlowReport(i))
       /\ \A link \in Links(FlowReport(i)) : \A end \in link : end[2] # 0
  /\ \A i, j \in FlowNr : \A l1 \in Links(FlowReport(i)), l2 \in Links(FlowReport(j)) :
       l1 \cap l2 # {} => l1 = l2

\* A report is one packet's: it enters at the source AS of its key, leaves at
\* the destination AS, and in all reports of all flows an interface leads to one
\* other, so that a consumer that knows which end comes first can put the topology
\* together (main.go:91-104).  Which end that is is left open.
InTransit == ToSet(queue) \cup log
ReportsOwn ==
  /\ \A m \in InTransit :
       EndsAt(m) /\ \A link \in Links(m) : \A end \in link : end[2] # 0
  /\ LET links == UNION {Links(m) : m \in InTransit}
     IN  \A l1, l2 \in links : l1 \cap l2 # {} => l1 = l2

\* The program ends, also when the broker does not answer any more: nothing it
\* waits for depends on the broker for ever.
Ends == <>(pc \in {"exit", "panic"})
=============================================================================
