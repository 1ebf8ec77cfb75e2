---------------------------- MODULE TaskDispatch ----------------------------
(***************************************************************************)
(* The Kafka side of the background workers:                               *)
(* backend/core/utils/kafka/consumer.py (the dispatcher), producer.py (the *)
(* publisher) and worker.py (the process that runs the dispatcher).        *)
(*                                                                         *)
(* The broker is external: per partition an append-only log and the        *)
(* offset committed by the consumer group, and an assignment of partitions *)
(* to live group members.  A rebalance makes every consumer start again    *)
(* from the committed offsets, also while one of them is in the middle of  *)
(* a handler.                                                              *)
(***************************************************************************)
EXTENDS Integers, Sequences, FiniteSets

CONSTANTS
  Workers,          \* worker.py processes (docker-compose runs two replicas)
  Partitions,       \* partitions of the topic "tenant-tasks"
  TaskModules,      \* modules of _TASK_MODULES; an event belongs to one
  Undecodable,      \* a record whose value is not UTF-8 JSON
  NoObject,         \* a record whose JSON is no object, or whose event is no key
  NoWorker,         \* owner of a partition no live consumer is assigned
  NoTask,           \* what an idle worker works on
  MaxRetries,       \* _MAX_RETRIES
  WorkerPublishes,  \* has the worker's process started producer_service?
  MaxLog,           \* bound: records per partition
  MaxFaults         \* bound: departures of workers and unforced rebalances

ASSUME DispatchAssumption ==
  /\ NoWorker \notin Workers
  /\ Undecodable \notin TaskModules /\ NoObject \notin TaskModules
  /\ NoTask \notin Partitions \X Nat
  /\ MaxRetries \in Nat \ {0}
  /\ WorkerPublishes \in BOOLEAN
  /\ MaxLog \in Nat
  /\ MaxFaults \in Nat

VARIABLES
  log,              \* the records of each partition; offset o is log[p][o + 1]
  committed,        \* the group's committed offset of each partition
  assigned,         \* the live consumer each partition is assigned to
  position,         \* the next offset that consumer will hand out
  running,          \* workers whose consumer is a member of the group
  registry,         \* KafkaConsumerService._handlers, as a set of task modules
  stage,            \* where _handle_message is
  task,             \* the <<partition, offset>> it works on
  tries,            \* failed handler runs of this delivery
  handled,          \* history: tasks whose handler returned
  dropped,          \* history: tasks skipped as undecodable or unregistered
  skipped,          \* history: tasks _run_loop went past, as their dispatch raised
  dead,             \* history: tasks present on the dead-letter topic
  lost,             \* history: tasks given up whose dead-letter publish failed
  faults            \* counts against MaxFaults

broker  == <<log, committed, assigned, position>>
worker  == <<running, registry, stage, task, tries>>
history == <<handled, dropped, skipped, dead, lost>>
vars == <<broker, worker, history, faults>>

Stages == {"idle", "handler", "forward", "commit"}

Payloads == TaskModules \cup {Undecodable, NoObject}

\* Offsets a bounded log can hold, and the identities of its records.
Offsets == 0 .. MaxLog - 1

TaskIds == Partitions \X Offsets

\* What the workers have finished with, one way or another.
Settled == handled \cup dropped \cup skipped \cup dead \cup lost

TypeOK ==
  /\ log \in [Partitions -> Seq(Payloads)]
  /\ committed \in [Partitions -> Nat]
  /\ assigned \in [Partitions -> Workers \cup {NoWorker}]
  /\ position \in [Partitions -> Nat]
  /\ running \subseteq Workers
  /\ registry \in [Workers -> SUBSET TaskModules]
  /\ stage \in [Workers -> Stages]
  /\ task \in [Workers -> TaskIds \cup {NoTask}]
  /\ tries \in [Workers -> 0 .. MaxRetries]
  /\ handled \subseteq TaskIds
  /\ dropped \subseteq TaskIds
  /\ skipped \subseteq TaskIds
  /\ dead \subseteq TaskIds
  /\ lost \subseteq TaskIds
  /\ faults \in 0 .. MaxFaults

Init ==
  /\ log = [p \in Partitions |-> << >>]
  /\ committed = [p \in Partitions |-> 0]
  /\ assigned = [p \in Partitions |-> NoWorker]
  /\ position = [p \in Partitions |-> 0]
  /\ running = {}
  /\ registry = [w \in Workers |-> {}]
  /\ stage = [w \in Workers |-> "idle"]
  /\ task = [w \in Workers |-> NoTask]
  /\ tries = [w \in Workers |-> 0]
  /\ handled = {}
  /\ dropped = {}
  /\ skipped = {}
  /\ dead = {}
  /\ lost = {}
  /\ faults = 0

-----------------------------------------------------------------------------
(***************************************************************************)
(* The broker, and the processes that publish to it.                       *)
(***************************************************************************)

\* producer.publish: send_and_wait without a key, so any partition may be chosen.
Publish(p, m) ==
  /\ Len(log[p]) < MaxLog
  /\ log' = [log EXCEPT ![p] = Append(@, m)]
  /\ UNCHANGED <<committed, assigned, position, worker, history, faults>>

ResumeBeforeCommitted == [p \in Partitions |-> committed[p] - 1]

ResumeAtLogEnd == [p \in Partitions |-> Len(log[p])]

\* Where a consumer resumes the partitions it is given (auto_offset_reset
\* "earliest": offset 0 while nothing is committed).
ResumeFrom == committed

\* The group coordinator gives every partition to a live member and every
\* member resumes from the committed offsets.  It is forced while a partition
\* has no live owner; otherwise a member joined, or exceeded max_poll_interval.
Rebalance ==
  /\ running # {}
  /\ \/ /\ \E p \in Partitions : assigned[p] = NoWorker
        /\ UNCHANGED faults
     \/ /\ \A p \in Partitions : assigned[p] # NoWorker
        /\ faults < MaxFaults
        /\ faults' = faults + 1
  /\ assigned' \in [Partitions -> running]
  /\ position' = ResumeFrom
  /\ UNCHANGED <<log, committed, worker, history>>

-----------------------------------------------------------------------------
(***************************************************************************)
(* Worker processes.                                                       *)
(***************************************************************************)

\* Worker.start / KafkaConsumerService.start: a task module that fails to
\* import is logged and its events stay unregistered.
Start(w) ==
  /\ w \notin running
  /\ running' = running \cup {w}
  /\ \E loaded \in SUBSET TaskModules : registry' = [registry EXCEPT ![w] = loaded]
  /\ UNCHANGED <<broker, stage, task, tries, history, faults>>

\* stop() cancels the consumer task wherever it waits; a crash looks the same
\* to the group: nothing more is committed and the partitions lose their owner.
Leave(w) ==
  /\ w \in running
  /\ faults < MaxFaults
  /\ faults' = faults + 1
  /\ running' = running \ {w}
  /\ assigned' = [p \in Partitions |-> IF assigned[p] = w THEN NoWorker ELSE assigned[p]]
  /\ stage' = [stage EXCEPT ![w] = "idle"]
  /\ task' = [task EXCEPT ![w] = NoTask]
  /\ tries' = [tries EXCEPT ![w] = 0]
  /\ UNCHANGED <<log, committed, position, registry, history>>

\* The consumer hands the worker the next record of the partition.
Receives(w, p) ==
  /\ w \in running
  /\ assigned[p] = w
  /\ stage[w] = "idle"
  /\ position[p] < Len(log[p])
  /\ position' = [position EXCEPT ![p] = @ + 1]

NextRecord(p) == log[p][position[p] + 1]

\* _handle_message up to its first await: decode and look the handler up.
Fetch(w, p) ==
  /\ Receives(w, p)
  /\ NextRecord(p) # NoObject
  /\ LET known == NextRecord(p) \in registry[w]
         id    == <<p, position[p]>>
     IN /\ stage' = [stage EXCEPT ![w] = IF known THEN "handler" ELSE "commit"]
        /\ task' = [task EXCEPT ![w] = id]
        /\ dropped' = IF known THEN dropped ELSE dropped \cup {id}
  /\ tries' = [tries EXCEPT ![w] = 0]
  /\ UNCHANGED <<log, committed, assigned, running, registry,
                 handled, skipped, dead, lost, faults>>

\* payload.get or the lookup raises: _run_loop logs it and goes on with the next record,
\* whose commit acknowledges this one too.
Skip(w, p) ==
  /\ Receives(w, p)
  /\ NextRecord(p) = NoObject
  /\ skipped' = skipped \cup {<<p, position[p]>>}
  /\ UNCHANGED <<log, committed, assigned, worker, handled, dropped, dead, lost, faults>>

HandlerRerunsWhenCommitFails(w) ==
  /\ stage[w] = "handler"
  /\ handled' = handled \cup {task[w]}
  /\ stage' \in {[stage EXCEPT ![w] = "commit"], stage}
  /\ UNCHANGED <<broker, running, registry, task, tries, dropped, skipped, dead, lost, faults>>

\* The handler's own effects are the other modules' subject; here it returns.
HandlerReturns(w) ==
  /\ stage[w] = "handler"
  /\ handled' = handled \cup {task[w]}
  /\ stage' = [stage EXCEPT ![w] = "commit"]
  /\ UNCHANGED <<broker, running, registry, task, tries, dropped, skipped, dead, lost, faults>>

HandlerRetriesForEver(w) ==
  /\ stage[w] = "handler"
  /\ tries' = [tries EXCEPT ![w] = (@ + 1) % MaxRetries]
  /\ UNCHANGED <<broker, running, registry, stage, task, history, faults>>

\* The back-off between two runs changes nothing, so it is not a stage.
HandlerRaises(w) ==
  /\ stage[w] = "handler"
  /\ tries[w] < MaxRetries
  /\ tries' = [tries EXCEPT ![w] = @ + 1]
  /\ stage' = [stage EXCEPT ![w] = IF tries[w] + 1 < MaxRetries THEN @ ELSE "forward"]
  /\ UNCHANGED <<broker, running, registry, task, history, faults>>

\* publish_safe returns False instead of raising; its result is not looked at.
ForwardToDeadLetter(w) ==
  /\ stage[w] = "forward"
  /\ \/ /\ WorkerPublishes
        /\ dead' = dead \cup {task[w]}
        /\ UNCHANGED lost
     \/ /\ lost' = lost \cup {task[w]}
        /\ UNCHANGED dead
  /\ stage' = [stage EXCEPT ![w] = "commit"]
  /\ UNCHANGED <<broker, running, registry, task, tries, handled, dropped, skipped, faults>>

CommitTargetPastNext(t) == t[2] + 2

\* _commit acknowledges one record: {tp: msg.offset + 1}.
CommitTarget(t) == t[2] + 1

\* _commit: the broker refuses a partition assigned elsewhere; every failure
\* is logged and swallowed, and the loop goes on to the next record.
Commit(w) ==
  /\ stage[w] = "commit"
  /\ \/ /\ assigned[task[w][1]] = w
        /\ committed' = [committed EXCEPT ![task[w][1]] = CommitTarget(task[w])]
     \/ UNCHANGED committed
  /\ stage' = [stage EXCEPT ![w] = "idle"]
  /\ task' = [task EXCEPT ![w] = NoTask]
  /\ tries' = [tries EXCEPT ![w] = 0]
  /\ UNCHANGED <<log, assigned, position, running, registry, history, faults>>

-----------------------------------------------------------------------------
Handle(w) == HandlerReturns(w) \/ HandlerRaises(w)

Next ==
  \/ \E p \in Partitions, m \in Payloads : Publish(p, m)
  \/ Rebalance
  \/ \E w \in Workers :
       \/ Start(w)
       \/ Leave(w)
       \/ \E p \in Partitions : Fetch(w, p) \/ Skip(w, p)
       \/ HandlerReturns(w)
       \/ HandlerRaises(w)
       \/ ForwardToDeadLetter(w)
       \/ Commit(w)

SafetySpec == Init /\ [][Next]_vars

(***************************************************************************)
(* Nothing obliges anyone to publish or to fail.  Containers are restarted *)
(* (docker-compose `restart`), the coordinator reassigns orphaned          *)
(* partitions, and an asyncio task that can run is eventually run; every   *)
(* handler either returns or raises, as its database calls are timed out.  *)
(***************************************************************************)
Fairness ==
  /\ WF_vars(Rebalance /\ \E p \in Partitions : assigned[p] = NoWorker)
  /\ \A w \in Workers :
       /\ WF_vars(Start(w))
       /\ WF_vars(\E p \in Partitions : Fetch(w, p) \/ Skip(w, p))
       /\ WF_vars(Handle(w))
       /\ WF_vars(ForwardToDeadLetter(w))
       /\ WF_vars(Commit(w))

Spec == SafetySpec /\ Fairness

-----------------------------------------------------------------------------
(***************************************************************************)
(* Properties.                                                             *)
(***************************************************************************)

\* Within a partition tasks are settled in log order: no crash, rebalance,
\* failed commit or stale commit lets a worker pass over a record that nobody
\* has finished with (_handle_message commits offset + 1, which acknowledges
\* everything below it), nor over one whose dispatch raised before its turn.
InOrder ==
  \A p \in Partitions, i, j \in Offsets :
    (<<p, j>> \in Settled /\ i < j) => <<p, i>> \in Settled

\* The committed offset never acknowledges a record nobody has finished with
\* (consumer.py: manual commit after the handler, at-least-once delivery).  Finished
\* is more than handled: it says that nothing is passed over but what was dropped as
\* unknown, what _run_loop logged and left, and what was given up after the retries.
AckedIsSettled ==
  \A p \in Partitions : \A i \in 0 .. committed[p] - 1 : <<p, i>> \in Settled

\* A commit that fails is made good by the next one of the partition: only a
\* departure or an unforced rebalance makes a handler run again after it returned.
RedeliveryNeedsFault ==
  [][\A w \in Workers : (HandlerReturns(w) /\ task[w] \in handled) => faults > 0]_vars

\* consumer.py: "Offset is committed only after a successful handler run or
\* after the message is forwarded to the dead-letter topic" (records without a
\* handler aside, which are logged and committed, and those that are skipped).
AckedIsHandledOrForwarded ==
  \A p \in Partitions : \A i \in 0 .. committed[p] - 1 :
    <<p, i>> \in handled \cup dropped \cup skipped \cup dead

Published == {t \in TaskIds : t[2] < Len(log[t[1]])}

Acknowledged == {t \in TaskIds : t[2] < committed[t[1]]}

\* The dispatcher implements the abstract queue: what is acknowledged was
\* settled, what is settled was published.
Delivery == INSTANCE TaskDelivery
  WITH Tasks <- TaskIds, published <- Published, settled <- Settled, acked <- Acknowledged

DeliverySafety == Delivery!SafetySpec

\* Every record the broker accepted is settled in the end: a task that always
\* fails, a worker that leaves in the middle of one, a stale assignment or a
\* swallowed commit failure does not hold up the records behind it.
EventuallySettled ==
  \A t \in TaskIds : (t \in Published) ~> (t \in Settled)
=============================================================================
