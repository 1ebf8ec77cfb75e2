------------------------ MODULE TaskDispatch_proofs -------------------------
(***************************************************************************)
(* Proofs about TaskDispatch for any number of workers, partitions,        *)
(* retries, records and faults.  The argument: whoever works on a record,  *)
(* or stands at a position, stands on a settled prefix of the partition,   *)
(* and a rebalance sends everyone back to the committed offset, which is   *)
(* itself the end of a settled prefix.                                     *)
(***************************************************************************)
EXTENDS TaskDispatch, TLAPS

\* The records of partition p below offset n have all been settled.
SettledBelow(p, n) == \A i \in 0 .. n - 1 : <<p, i>> \in Settled

LogBounds ==
  \A p \in Partitions :
    /\ Len(log[p]) <= MaxLog
    /\ committed[p] <= Len(log[p])
    /\ position[p] <= Len(log[p])

\* A busy worker works on a record of the log, all of whose predecessors are settled.
TaskPrefix ==
  \A w \in Workers :
    IF stage[w] = "idle"
    THEN task[w] = NoTask
    ELSE /\ task[w] \in TaskIds
         /\ task[w][2] < Len(log[task[w][1]])
         /\ SettledBelow(task[w][1], task[w][2])

CommitsSettled == \A w \in Workers : stage[w] = "commit" => task[w] \in Settled

\* Below its position a live owner has settled everything but the record in hand.
PositionPrefix ==
  \A p \in Partitions :
    assigned[p] # NoWorker =>
      \A i \in 0 .. position[p] - 1 : <<p, i>> \in Settled \/ task[assigned[p]] = <<p, i>>

IInv ==
  /\ TypeOK
  /\ LogBounds
  /\ TaskPrefix
  /\ CommitsSettled
  /\ PositionPrefix
  /\ AckedIsSettled
  /\ InOrder

-----------------------------------------------------------------------------
LEMMA InitIInv == Init => IInv
<1> SUFFICES ASSUME Init PROVE IInv
  OBVIOUS
<1> USE DispatchAssumption DEF Init
<1>1. TypeOK
  BY DEF TypeOK, Stages, Payloads, TaskIds
<1>2. LogBounds
  BY DEF LogBounds
<1>3. TaskPrefix /\ CommitsSettled /\ PositionPrefix
  BY DEF TaskPrefix, CommitsSettled, PositionPrefix
<1>4. AckedIsSettled /\ InOrder
  BY DEF AckedIsSettled, InOrder, Settled
<1> QED
  BY <1>1, <1>2, <1>3, <1>4 DEF IInv

LEMMA PublishIInv ==
  ASSUME IInv, NEW p \in Partitions, NEW m \in Payloads, Publish(p, m)
  PROVE  IInv'
<1> USE DispatchAssumption DEF IInv, Publish, worker, history
<1>1. Len(log'[p]) = Len(log[p]) + 1 /\ \A q \in Partitions : Len(log'[q]) >= Len(log[q])
  BY DEF TypeOK
<1>2. TypeOK'
  BY DEF TypeOK
<1>3. LogBounds'
  BY <1>1 DEF LogBounds, TypeOK
<1>4. UNCHANGED Settled
  BY DEF Settled
<1>5. TaskPrefix'
  BY <1>1, <1>4 DEF TaskPrefix, SettledBelow, TypeOK, TaskIds, Offsets
<1>6. CommitsSettled' /\ PositionPrefix' /\ AckedIsSettled' /\ InOrder'
  BY <1>4 DEF CommitsSettled, PositionPrefix, AckedIsSettled, InOrder
<1> QED
  BY <1>2, <1>3, <1>5, <1>6

LEMMA RebalanceIInv == ASSUME IInv, Rebalance PROVE IInv'
<1> USE DispatchAssumption DEF IInv, Rebalance, ResumeFrom, worker, history
<1>1. TypeOK'
  BY DEF TypeOK
<1>2. LogBounds'
  BY DEF LogBounds
<1>3. UNCHANGED Settled
  BY DEF Settled
<1>4. TaskPrefix' /\ CommitsSettled' /\ AckedIsSettled' /\ InOrder'
  BY <1>3 DEF TaskPrefix, CommitsSettled, AckedIsSettled, InOrder, SettledBelow
<1>5. PositionPrefix'
  BY <1>3 DEF PositionPrefix, AckedIsSettled
<1> QED
  BY <1>1, <1>2, <1>4, <1>5

LEMMA StartIInv == ASSUME IInv, NEW w \in Workers, Start(w) PROVE IInv'
<1> USE DispatchAssumption DEF IInv, Start, broker, history
<1>1. TypeOK'
  BY DEF TypeOK
<1>2. UNCHANGED Settled
  BY DEF Settled
<1>3. LogBounds' /\ TaskPrefix' /\ CommitsSettled' /\ PositionPrefix'
  BY <1>2 DEF LogBounds, TaskPrefix, CommitsSettled, PositionPrefix, SettledBelow
<1>4. AckedIsSettled' /\ InOrder'
  BY <1>2 DEF AckedIsSettled, InOrder
<1> QED
  BY <1>1, <1>3, <1>4

LEMMA LeaveIInv == ASSUME IInv, NEW w \in Workers, Leave(w) PROVE IInv'
<1> USE DispatchAssumption DEF IInv, Leave, history
<1>1. TypeOK'
  BY DEF TypeOK, Stages
<1>2. UNCHANGED Settled
  BY DEF Settled
<1>3. LogBounds'
  BY DEF LogBounds
<1>4. TaskPrefix' /\ CommitsSettled'
  BY <1>2 DEF TaskPrefix, CommitsSettled, SettledBelow, TypeOK
<1>5. PositionPrefix'
  BY <1>2 DEF PositionPrefix, TypeOK
<1>6. AckedIsSettled' /\ InOrder'
  BY <1>2 DEF AckedIsSettled, InOrder
<1> QED
  BY <1>1, <1>3, <1>4, <1>5, <1>6

LEMMA FetchIInv ==
  ASSUME IInv, NEW w \in Workers, NEW p \in Partitions, Fetch(w, p)
  PROVE  IInv'
<1> DEFINE id == <<p, position[p]>>
<1> USE DispatchAssumption DEF IInv, Fetch, Receives, NextRecord
<1>1. /\ position[p] \in Offsets
      /\ id \in TaskIds
  BY DEF TypeOK, LogBounds, Offsets, TaskIds
<1>2. TypeOK'
  <2>1. /\ stage' \in [Workers -> Stages]
        /\ tries' \in [Workers -> 0 .. MaxRetries]
        /\ position' \in [Partitions -> Nat]
    BY DEF TypeOK, Stages
  <2>2. task' \in [Workers -> TaskIds \cup {NoTask}]
    BY <1>1 DEF TypeOK
  <2>3. dropped' \subseteq TaskIds
    BY <1>1 DEF TypeOK
  <2> QED
    BY <2>1, <2>2, <2>3 DEF TypeOK
<1>3. LogBounds'
  BY DEF LogBounds, TypeOK
<1>4. task[w] = NoTask
  BY DEF TaskPrefix
<1>5. SettledBelow(p, position[p])
  <2> SUFFICES ASSUME NEW i \in 0 .. position[p] - 1
               PROVE  <<p, i>> \in Settled
    BY DEF SettledBelow
  <2>1. <<p, i>> \in Partitions \X Nat
    BY DEF TypeOK
  <2> QED
    BY <1>4, <2>1 DEF PositionPrefix
<1>6. /\ Settled \subseteq Settled'
      /\ Settled' \subseteq Settled \cup {id}
      /\ stage'[w] = "commit" => id \in Settled'
  BY DEF Settled, TypeOK
<1>7. TaskPrefix'
  BY <1>1, <1>5, <1>6 DEF TaskPrefix, SettledBelow, TypeOK, Offsets
<1>8. CommitsSettled'
  BY <1>6 DEF CommitsSettled, TypeOK
<1>9. PositionPrefix'
  <2> SUFFICES ASSUME NEW q \in Partitions, assigned[q] # NoWorker,
                      NEW i \in 0 .. position'[q] - 1
               PROVE  <<q, i>> \in Settled' \/ task'[assigned[q]] = <<q, i>>
    BY DEF PositionPrefix
  <2>1. CASE q = p /\ i = position[p]
    BY <2>1 DEF TypeOK
  <2>2. CASE q = p /\ i # position[p]
    BY <2>2, <1>5, <1>6 DEF SettledBelow, TypeOK
  <2>3. CASE q # p /\ assigned[q] # w
    BY <2>3, <1>6 DEF PositionPrefix, TypeOK
  <2>4. CASE q # p /\ assigned[q] = w
    <3>1. <<q, i>> # NoTask
      BY <2>4 DEF TypeOK
    <3> QED
      BY <2>4, <3>1, <1>4, <1>6 DEF PositionPrefix, TypeOK
  <2> QED
    BY <2>1, <2>2, <2>3, <2>4
<1>10. AckedIsSettled'
  BY <1>6 DEF AckedIsSettled
<1>11. InOrder'
  BY <1>1, <1>5, <1>6 DEF InOrder, SettledBelow, Offsets
<1> QED
  BY <1>2, <1>3, <1>7, <1>8, <1>9, <1>10, <1>11

\* Going past a record that raised is as good as settling it.
LEMMA SkipIInv ==
  ASSUME IInv, NEW w \in Workers, NEW p \in Partitions, Skip(w, p)
  PROVE  IInv'
<1> DEFINE id == <<p, position[p]>>
<1> USE DispatchAssumption DEF IInv, Skip, Receives, worker
<1>1. /\ position[p] \in Offsets
      /\ id \in TaskIds
  BY DEF TypeOK, LogBounds, Offsets, TaskIds
<1>2. TypeOK'
  <2>1. position' \in [Partitions -> Nat]
    BY DEF TypeOK
  <2>2. skipped' \subseteq TaskIds
    BY <1>1 DEF TypeOK
  <2> QED
    BY <2>1, <2>2 DEF TypeOK
<1>3. LogBounds'
  BY DEF LogBounds, TypeOK
<1>4. task[w] = NoTask
  BY DEF TaskPrefix
<1>5. SettledBelow(p, position[p])
  <2> SUFFICES ASSUME NEW i \in 0 .. position[p] - 1
               PROVE  <<p, i>> \in Settled
    BY DEF SettledBelow
  <2>1. <<p, i>> \in Partitions \X Nat
    BY DEF TypeOK
  <2> QED
    BY <1>4, <2>1 DEF PositionPrefix
<1>6. Settled' = Settled \cup {id}
  BY DEF Settled
<1>7. TaskPrefix' /\ CommitsSettled' /\ AckedIsSettled'
  BY <1>6 DEF TaskPrefix, CommitsSettled, AckedIsSettled, SettledBelow
<1>8. PositionPrefix'
  <2> SUFFICES ASSUME NEW q \in Partitions, assigned[q] # NoWorker,
                      NEW i \in 0 .. position'[q] - 1
               PROVE  <<q, i>> \in Settled' \/ task[assigned[q]] = <<q, i>>
    BY DEF PositionPrefix
  <2>1. CASE q = p
    <3>1. i \in 0 .. position[p] - 1 \/ i = position[p]
      BY <2>1 DEF TypeOK
    <3> QED
      BY <2>1, <3>1, <1>5, <1>6 DEF SettledBelow
  <2>2. CASE q # p
    BY <2>2, <1>6 DEF PositionPrefix, TypeOK
  <2> QED
    BY <2>1, <2>2
<1>9. InOrder'
  BY <1>1, <1>5, <1>6 DEF InOrder, SettledBelow, Offsets
<1> QED
  BY <1>2, <1>3, <1>7, <1>8, <1>9

LEMMA HandlerIInv ==
  ASSUME IInv, NEW w \in Workers, HandlerReturns(w) \/ HandlerRaises(w)
  PROVE  IInv'
<1> USE DispatchAssumption DEF IInv, HandlerReturns, HandlerRaises, broker, history
<1>1. task[w] \in TaskIds /\ SettledBelow(task[w][1], task[w][2])
  BY DEF TaskPrefix
<1>2. TypeOK'
  <2>1. CASE HandlerReturns(w)
    BY <2>1, <1>1 DEF TypeOK, Stages
  <2>2. CASE HandlerRaises(w)
    <3>1. tries' \in [Workers -> 0 .. MaxRetries]
      BY <2>2 DEF TypeOK
    <3>2. stage' \in [Workers -> Stages]
      BY <2>2 DEF TypeOK, Stages
    <3> QED
      BY <2>2, <3>1, <3>2 DEF TypeOK
  <2> QED
    BY <2>1, <2>2
<1>3. LogBounds'
  BY DEF LogBounds
<1>4. /\ Settled \subseteq Settled'
      /\ Settled' \subseteq Settled \cup {task[w]}
      /\ stage'[w] = "commit" => task[w] \in Settled'
  BY DEF Settled, TypeOK
<1>5. TaskPrefix'
  BY <1>4 DEF TaskPrefix, SettledBelow, TypeOK
<1>6. CommitsSettled'
  BY <1>4 DEF CommitsSettled, TypeOK
<1>7. PositionPrefix' /\ AckedIsSettled'
  BY <1>4 DEF PositionPrefix, AckedIsSettled
<1>8. InOrder'
  BY <1>1, <1>4 DEF InOrder, SettledBelow, TaskIds, Offsets
<1> QED
  BY <1>2, <1>3, <1>5, <1>6, <1>7, <1>8

LEMMA ForwardIInv ==
  ASSUME IInv, NEW w \in Workers, ForwardToDeadLetter(w)
  PROVE  IInv'
<1> USE DispatchAssumption DEF IInv, ForwardToDeadLetter, broker
<1>1. task[w] \in TaskIds /\ SettledBelow(task[w][1], task[w][2])
  BY DEF TaskPrefix
<1>2. TypeOK'
  BY <1>1 DEF TypeOK, Stages
<1>3. LogBounds'
  BY DEF LogBounds
<1>4. /\ Settled \subseteq Settled'
      /\ Settled' \subseteq Settled \cup {task[w]}
      /\ task[w] \in Settled'
  BY DEF Settled, TypeOK
<1>5. TaskPrefix'
  BY <1>4 DEF TaskPrefix, SettledBelow, TypeOK
<1>6. CommitsSettled' /\ PositionPrefix' /\ AckedIsSettled'
  BY <1>4 DEF CommitsSettled, PositionPrefix, AckedIsSettled, TypeOK
<1>7. InOrder'
  BY <1>1, <1>4 DEF InOrder, SettledBelow, TaskIds, Offsets
<1> QED
  BY <1>2, <1>3, <1>5, <1>6, <1>7

LEMMA CommitIInv == ASSUME IInv, NEW w \in Workers, Commit(w) PROVE IInv'
<1> USE DispatchAssumption DEF IInv, Commit, CommitTarget, history
<1>1. PICK p \in Partitions, o \in Nat : task[w] = <<p, o>>
  BY DEF TaskPrefix, TaskIds, Offsets
<1>2. /\ o < Len(log[p])
      /\ SettledBelow(p, o)
      /\ <<p, o>> \in Settled
  BY <1>1 DEF TaskPrefix, CommitsSettled
<1>3. /\ \A q \in Partitions : committed'[q] = committed[q] \/ (q = p /\ committed'[q] = o + 1)
      /\ committed' \in [Partitions -> Nat]
  <2>1. o + 1 \in Nat /\ CommitTarget(task[w]) = o + 1 /\ task[w][1] = p
    BY <1>1
  <2>2. committed' = [committed EXCEPT ![p] = o + 1] \/ UNCHANGED committed
    BY <2>1
  <2>3. committed \in [Partitions -> Nat]
    BY DEF TypeOK
  <2> HIDE DEF IInv, Commit, CommitTarget
  <2> QED
    BY <2>1, <2>2, <2>3
<1>4. TypeOK'
  BY <1>3 DEF TypeOK, Stages
<1>5. LogBounds'
  BY <1>2, <1>3 DEF LogBounds, TypeOK
<1>6. UNCHANGED Settled
  BY DEF Settled
<1>7. TaskPrefix' /\ CommitsSettled'
  BY <1>6 DEF TaskPrefix, CommitsSettled, SettledBelow, TypeOK
<1>8. PositionPrefix'
  <2> SUFFICES ASSUME NEW q \in Partitions, assigned[q] # NoWorker,
                      NEW i \in 0 .. position[q] - 1
               PROVE  <<q, i>> \in Settled \/ task'[assigned[q]] = <<q, i>>
    BY <1>6 DEF PositionPrefix
  <2>1. CASE assigned[q] # w
    BY <2>1 DEF PositionPrefix, TypeOK
  <2>2. CASE assigned[q] = w
    BY <2>2, <1>1, <1>2 DEF PositionPrefix
  <2> QED
    BY <2>1, <2>2
<1>9. AckedIsSettled'
  <2> SUFFICES ASSUME NEW q \in Partitions, NEW i \in 0 .. committed'[q] - 1
               PROVE  <<q, i>> \in Settled
    BY <1>6 DEF AckedIsSettled
  <2>1. CASE committed'[q] = committed[q]
    BY <2>1 DEF AckedIsSettled
  <2>2. CASE q = p /\ committed'[q] = o + 1
    <3>1. i \in 0 .. o - 1 \/ i = o
      BY <2>2, <1>1
    <3> QED
      BY <2>2, <3>1, <1>2 DEF SettledBelow
  <2> QED
    BY <2>1, <2>2, <1>3
<1>10. InOrder'
  BY <1>6 DEF InOrder
<1> QED
  BY <1>4, <1>5, <1>7, <1>8, <1>9, <1>10

LEMMA NextIInv == IInv /\ [Next]_vars => IInv'
<1> SUFFICES ASSUME IInv, [Next]_vars PROVE IInv'
  OBVIOUS
<1>1. ASSUME NEW p \in Partitions, NEW m \in Payloads, Publish(p, m) PROVE IInv'
  BY <1>1, PublishIInv
<1>2. CASE Rebalance
  BY <1>2, RebalanceIInv
<1>3. ASSUME NEW w \in Workers, Start(w) PROVE IInv'
  BY <1>3, StartIInv
<1>4. ASSUME NEW w \in Workers, Leave(w) PROVE IInv'
  BY <1>4, LeaveIInv
<1>5. ASSUME NEW w \in Workers, NEW p \in Partitions, Fetch(w, p) PROVE IInv'
  BY <1>5, FetchIInv
<1>10. ASSUME NEW w \in Workers, NEW p \in Partitions, Skip(w, p) PROVE IInv'
  BY <1>10, SkipIInv
<1>6. ASSUME NEW w \in Workers, HandlerReturns(w) \/ HandlerRaises(w) PROVE IInv'
  BY <1>6, HandlerIInv
<1>7. ASSUME NEW w \in Workers, ForwardToDeadLetter(w) PROVE IInv'
  BY <1>7, ForwardIInv
<1>8. ASSUME NEW w \in Workers, Commit(w) PROVE IInv'
  BY <1>8, CommitIInv
<1>9. CASE UNCHANGED vars
  BY <1>9 DEF IInv, vars, broker, worker, history, TypeOK, LogBounds, TaskPrefix,
     CommitsSettled, PositionPrefix, AckedIsSettled, InOrder, SettledBelow, Settled
<1> QED
  BY <1>1, <1>2, <1>3, <1>4, <1>5, <1>6, <1>7, <1>8, <1>9, <1>10 DEF Next

LEMMA Invariance == SafetySpec => []IInv
<1> QED
  BY InitIInv, NextIInv, PTL DEF SafetySpec

-----------------------------------------------------------------------------
\* Every variable keeps its type: a busy worker always holds the identity of a
\* record that exists, an idle one holds none.
THEOREM Typing == SafetySpec => []TypeOK
<1>1. IInv => TypeOK
  BY DEF IInv
<1> QED
  BY <1>1, Invariance, PTL

\* At-least-once delivery: whatever crashes, rebalances and failed or stale
\* commits happen, no committed offset passes over an unfinished record.
THEOREM AtLeastOnce == SafetySpec => []AckedIsSettled
<1>1. IInv => AckedIsSettled
  BY DEF IInv
<1> QED
  BY <1>1, Invariance, PTL

\* The records of a partition are finished in log order, for the first time.
THEOREM SettledInOrder == SafetySpec => []InOrder
<1>1. IInv => InOrder
  BY DEF IInv
<1> QED
  BY <1>1, Invariance, PTL

-----------------------------------------------------------------------------
(***************************************************************************)
(* While no fault happened every partition keeps its first owner, which    *)
(* never goes back: a second run of a returned handler needs a fault.      *)
(***************************************************************************)
Unassigned == \E p \in Partitions : assigned[p] = NoWorker

FaultFree ==
  faults = 0 =>
    /\ \A p \in Partitions, i \in Offsets : <<p, i>> \in Settled => i < position[p]
    /\ \A w \in Workers :
         stage[w] # "idle" =>
           /\ assigned[task[w][1]] = w
           /\ task[w][2] < position[task[w][1]]
    /\ \A w \in Workers : stage[w] \in {"handler", "forward"} => task[w] \notin Settled
    /\ Unassigned => /\ \A p \in Partitions : assigned[p] = NoWorker
                     /\ Settled = {}
                     /\ \A w \in Workers : stage[w] = "idle"

LEMMA FetchFaultFree ==
  ASSUME IInv, FaultFree, NEW w \in Workers, NEW p \in Partitions, Fetch(w, p)
  PROVE  FaultFree'
<1> DEFINE id == <<p, position[p]>>
<1> USE DispatchAssumption DEF Fetch, Receives, NextRecord
<1> SUFFICES ASSUME faults = 0 PROVE FaultFree'
  BY DEF FaultFree
<1>1. /\ Settled \subseteq Settled'
      /\ Settled' \subseteq Settled \cup {id}
      /\ stage'[w] = "handler" => Settled' = Settled
      /\ stage'[w] \in {"handler", "commit"}
      /\ task' = [task EXCEPT ![w] = id]
      /\ \A v \in Workers : v # w => stage'[v] = stage[v] /\ task'[v] = task[v]
  BY DEF Settled, IInv, TypeOK
<1>2. /\ position[p] \in Offsets
      /\ id \notin Settled
  BY DEF FaultFree, IInv, TypeOK, LogBounds, Offsets
<1>3. ~ Unassigned /\ ~ Unassigned'
  BY DEF FaultFree, Unassigned
<1>4. \A v \in Workers : v # w /\ stage[v] # "idle" => task[v] # id
  BY DEF FaultFree, IInv, TaskPrefix, TaskIds
<1>5. \A q \in Partitions, i \in Offsets : <<q, i>> \in Settled' => i < position'[q]
  <2> SUFFICES ASSUME NEW q \in Partitions, NEW i \in Offsets, <<q, i>> \in Settled'
               PROVE  i < position'[q]
    OBVIOUS
  <2>1. position'[q] = IF q = p THEN position[p] + 1 ELSE position[q]
    BY DEF IInv, TypeOK
  <2>2. CASE <<q, i>> \in Settled
    BY <2>1, <2>2 DEF FaultFree, IInv, TypeOK, Offsets
  <2>3. CASE <<q, i>> = id
    BY <2>1, <2>3 DEF IInv, TypeOK
  <2> QED
    BY <2>2, <2>3, <1>1
<1>6. ASSUME NEW v \in Workers, stage'[v] # "idle"
      PROVE  assigned[task'[v][1]] = v /\ task'[v][2] < position'[task'[v][1]]
  <2>1. CASE v = w
    BY <2>1, <1>1 DEF IInv, TypeOK
  <2>2. CASE v # w
    <3>1. PICK q \in Partitions, o \in Offsets : task[v] = <<q, o>>
      BY <2>2, <1>1, <1>6 DEF IInv, TaskPrefix, TaskIds
    <3>2. q # p
      BY <2>2, <3>1, <1>1, <1>6 DEF FaultFree
    <3> QED
      BY <2>2, <3>1, <3>2, <1>1, <1>6 DEF FaultFree, IInv, TypeOK
  <2> QED
    BY <2>1, <2>2
<1>7. \A v \in Workers : stage'[v] \in {"handler", "forward"} => task'[v] \notin Settled'
  BY <1>1, <1>2, <1>4 DEF FaultFree, IInv, TypeOK
<1> QED
  BY <1>3, <1>5, <1>6, <1>7 DEF FaultFree

LEMMA SkipFaultFree ==
  ASSUME IInv, FaultFree, NEW w \in Workers, NEW p \in Partitions, Skip(w, p)
  PROVE  FaultFree'
<1> DEFINE id == <<p, position[p]>>
<1> USE DispatchAssumption DEF Skip, Receives, worker
<1> SUFFICES ASSUME faults = 0 PROVE FaultFree'
  BY DEF FaultFree
<1>1. Settled' = Settled \cup {id}
  BY DEF Settled
<1>2. ~ Unassigned /\ ~ Unassigned'
  BY DEF FaultFree, Unassigned
<1>3. \A v \in Workers : stage[v] # "idle" => task[v] # id
  BY DEF FaultFree, IInv, TaskPrefix, TaskIds
<1>4. \A q \in Partitions : position'[q] = IF q = p THEN position[p] + 1 ELSE position[q]
  BY DEF IInv, TypeOK
<1>5. \A q \in Partitions, i \in Offsets : <<q, i>> \in Settled' => i < position'[q]
  BY <1>1, <1>4 DEF FaultFree, IInv, TypeOK, Offsets
<1>6. ASSUME NEW v \in Workers, stage[v] # "idle"
      PROVE  assigned[task[v][1]] = v /\ task[v][2] < position'[task[v][1]]
  <2>1. PICK q \in Partitions, o \in Offsets : task[v] = <<q, o>>
    BY <1>6 DEF IInv, TaskPrefix, TaskIds
  <2> QED
    BY <2>1, <1>4, <1>6 DEF FaultFree, IInv, TypeOK, Offsets
<1> QED
  BY <1>1, <1>2, <1>3, <1>5, <1>6 DEF FaultFree

\* Settling the record in hand keeps FaultFree: no other worker holds it.
LEMMA SettleFaultFree ==
  ASSUME IInv, FaultFree, NEW w \in Workers,
         HandlerReturns(w) \/ HandlerRaises(w) \/ ForwardToDeadLetter(w)
  PROVE  FaultFree'
<1> USE DispatchAssumption DEF HandlerReturns, HandlerRaises, ForwardToDeadLetter, broker, history
<1> SUFFICES ASSUME faults = 0 PROVE FaultFree'
  BY DEF FaultFree
<1>1. /\ Settled \subseteq Settled'
      /\ Settled' \subseteq Settled \cup {task[w]}
      /\ stage'[w] # "commit" => Settled' = Settled
      /\ stage'[w] \in {"handler", "forward", "commit"}
      /\ stage[w] \in {"handler", "forward"}
      /\ \A v \in Workers : v # w => stage'[v] = stage[v]
      /\ UNCHANGED <<task, assigned, position>>
  BY DEF Settled, IInv, TypeOK
<1>2. PICK p \in Partitions, o \in Offsets : task[w] = <<p, o>>
  BY <1>1 DEF IInv, TaskPrefix, TaskIds
<1>3. o < position[p]
  BY <1>1, <1>2 DEF FaultFree
<1>4. ~ Unassigned /\ ~ Unassigned'
  BY <1>1 DEF FaultFree, Unassigned
<1>5. \A v \in Workers : v # w /\ stage[v] # "idle" => task[v] # task[w]
  BY <1>1 DEF FaultFree
<1>6. \A q \in Partitions, i \in Offsets : <<q, i>> \in Settled' => i < position'[q]
  BY <1>1, <1>2, <1>3 DEF FaultFree
<1>7. \A v \in Workers :
        stage'[v] # "idle" => /\ assigned'[task'[v][1]] = v
                              /\ task'[v][2] < position'[task'[v][1]]
  BY <1>1 DEF FaultFree
<1>8. \A v \in Workers : stage'[v] \in {"handler", "forward"} => task'[v] \notin Settled'
  BY <1>1, <1>5 DEF FaultFree
<1> QED
  BY <1>4, <1>6, <1>7, <1>8 DEF FaultFree

LEMMA NextFaultFree == IInv /\ FaultFree /\ [Next]_vars => FaultFree'
<1> SUFFICES ASSUME IInv, FaultFree, [Next]_vars PROVE FaultFree'
  OBVIOUS
<1> USE DispatchAssumption
<1>1. ASSUME NEW p \in Partitions, NEW m \in Payloads, Publish(p, m) PROVE FaultFree'
  BY <1>1 DEF Publish, FaultFree, Unassigned, Settled, worker, history
<1>2. CASE Rebalance
  <2> SUFFICES ASSUME faults' = 0 PROVE FaultFree'
    BY DEF FaultFree
  <2>1. faults = 0 /\ Unassigned
    BY <1>2 DEF Rebalance, Unassigned, IInv, TypeOK
  <2>2. Settled' = {} /\ \A w \in Workers : stage'[w] = "idle"
    BY <1>2, <2>1 DEF Rebalance, FaultFree, Settled, worker, history
  <2>3. \A p \in Partitions : assigned'[p] # NoWorker
    BY <1>2 DEF Rebalance, IInv, TypeOK
  <2> QED
    BY <2>2, <2>3 DEF FaultFree, Unassigned
<1>3. ASSUME NEW w \in Workers, Start(w) PROVE FaultFree'
  BY <1>3 DEF Start, FaultFree, Unassigned, Settled, broker, history
<1>4. ASSUME NEW w \in Workers, Leave(w) PROVE FaultFree'
  BY <1>4 DEF Leave, FaultFree, IInv, TypeOK
<1>5. ASSUME NEW w \in Workers, NEW p \in Partitions, Fetch(w, p) PROVE FaultFree'
  BY <1>5, FetchFaultFree
<1>9. ASSUME NEW w \in Workers, NEW p \in Partitions, Skip(w, p) PROVE FaultFree'
  BY <1>9, SkipFaultFree
<1>6. ASSUME NEW w \in Workers,
             HandlerReturns(w) \/ HandlerRaises(w) \/ ForwardToDeadLetter(w)
      PROVE  FaultFree'
  BY <1>6, SettleFaultFree
<1>7. ASSUME NEW w \in Workers, Commit(w) PROVE FaultFree'
  <2>1. /\ UNCHANGED <<assigned, position, Settled, faults>>
        /\ \A v \in Workers : stage'[v] # "idle" => v # w
        /\ \A v \in Workers : v # w => stage'[v] = stage[v] /\ task'[v] = task[v]
    BY <1>7 DEF Commit, Settled, history, IInv, TypeOK
  <2> QED
    BY <1>7, <2>1 DEF FaultFree, Unassigned, Commit
<1>8. CASE UNCHANGED vars
  BY <1>8 DEF FaultFree, Unassigned, Settled, vars, broker, worker, history
<1> QED
  BY <1>1, <1>2, <1>3, <1>4, <1>5, <1>6, <1>7, <1>8, <1>9 DEF Next

\* Exactly once without faults: a handler that returned runs again only after
\* some worker left or an unforced rebalance happened; a failed commit alone
\* never causes it.
THEOREM OnceWithoutFaults == SafetySpec => RedeliveryNeedsFault
<1>1. Init => FaultFree
  BY DEF Init, FaultFree, Settled, Unassigned
<1>2. IInv /\ FaultFree /\ [Next]_vars
        => [\A w \in Workers : (HandlerReturns(w) /\ task[w] \in handled) => faults > 0]_vars
  <2>1. IInv /\ FaultFree
          => \A w \in Workers : (HandlerReturns(w) /\ task[w] \in handled) => faults > 0
    BY DispatchAssumption DEF FaultFree, HandlerReturns, Settled, IInv, TypeOK
  <2> QED
    BY <2>1
<1> QED
  BY <1>1, <1>2, InitIInv, NextIInv, NextFaultFree, PTL DEF SafetySpec, RedeliveryNeedsFault

-----------------------------------------------------------------------------
(***************************************************************************)
(* Refinement: every step of the dispatcher is a step of TaskDelivery or   *)
(* leaves its three sets alone.                                            *)
(***************************************************************************)
SettledPublished == Settled \subseteq Published

LEMMA SettleRefines ==
  ASSUME IInv, SettledPublished, NEW t \in Published,
         UNCHANGED <<log, committed>>, Settled' \in {Settled, Settled \cup {t}}
  PROVE  SettledPublished' /\ [Delivery!Next]_(Delivery!vars)
<1>1. UNCHANGED <<Published, Acknowledged>>
  BY DEF Published, Acknowledged
<1>2. t \in TaskIds
  BY DEF Published
<1> QED
  BY <1>1, <1>2 DEF SettledPublished, Delivery!Next, Delivery!Settle, Delivery!vars

LEMMA PublishRefines ==
  ASSUME IInv, SettledPublished, NEW p \in Partitions, NEW m \in Payloads, Publish(p, m)
  PROVE  SettledPublished' /\ [Delivery!Next]_(Delivery!vars)
<1> DEFINE id == <<p, Len(log[p])>>
<1> USE DispatchAssumption DEF Publish
<1>1. UNCHANGED <<Settled, Acknowledged>>
  BY DEF Settled, Acknowledged, history
<1>2. Len(log[p]) \in Nat /\ Len(log'[p]) = Len(log[p]) + 1
  BY DEF IInv, TypeOK
<1>3. id \in TaskIds /\ id \notin Published
  BY <1>2 DEF TaskIds, Offsets, Published
<1>4. Published' = Published \cup {id}
  <2>1. \A q \in Partitions : q # p => log'[q] = log[q]
    BY DEF IInv, TypeOK
  <2> QED
    BY <1>2, <1>3, <2>1 DEF Published, TaskIds, Offsets
<1>5. Delivery!Publish(id)
  BY <1>1, <1>3, <1>4 DEF Delivery!Publish
<1> QED
  BY <1>1, <1>3, <1>4, <1>5 DEF SettledPublished, Delivery!Next

LEMMA CommitRefines ==
  ASSUME IInv, SettledPublished, NEW w \in Workers, Commit(w)
  PROVE  SettledPublished' /\ [Delivery!Next]_(Delivery!vars)
<1>1. UNCHANGED <<Published, Settled>>
  BY DEF Commit, Published, Settled, history
<1>2. IInv'
  BY CommitIInv
<1>3. Acknowledged' \subseteq Settled'
  BY <1>2 DEF IInv, AckedIsSettled, Acknowledged, TypeOK, TaskIds, Offsets
<1> QED
  BY <1>1, <1>3 DEF SettledPublished, Delivery!Next, Delivery!Acknowledge

LEMMA NextRefines ==
  IInv /\ SettledPublished /\ [Next]_vars
    => SettledPublished' /\ [Delivery!Next]_(Delivery!vars)
<1> SUFFICES ASSUME IInv, SettledPublished, [Next]_vars
             PROVE  SettledPublished' /\ [Delivery!Next]_(Delivery!vars)
  OBVIOUS
<1>1. ASSUME NEW p \in Partitions, NEW m \in Payloads, Publish(p, m)
      PROVE  SettledPublished' /\ [Delivery!Next]_(Delivery!vars)
  BY <1>1, PublishRefines
<1>2. ASSUME NEW w \in Workers, NEW p \in Partitions, Fetch(w, p) \/ Skip(w, p)
      PROVE  SettledPublished' /\ [Delivery!Next]_(Delivery!vars)
  <2>1. <<p, position[p]>> \in Published
    <3>1. position[p] \in Offsets /\ position[p] < Len(log[p])
      BY <1>2, DispatchAssumption DEF Fetch, Skip, Receives, Offsets, IInv, TypeOK, LogBounds
    <3> QED
      BY <3>1 DEF Published, TaskIds
  <2>2. /\ UNCHANGED <<log, committed>>
        /\ Settled' \in {Settled, Settled \cup {<<p, position[p]>>}}
    BY <1>2 DEF Fetch, Skip, Settled
  <2> QED
    BY <2>1, <2>2, SettleRefines
<1>3. ASSUME NEW w \in Workers,
             HandlerReturns(w) \/ HandlerRaises(w) \/ ForwardToDeadLetter(w)
      PROVE  SettledPublished' /\ [Delivery!Next]_(Delivery!vars)
  <2>1. task[w] \in Published
    BY <1>3 DEF HandlerReturns, HandlerRaises, ForwardToDeadLetter, IInv, TaskPrefix, Published
  <2>2. /\ UNCHANGED <<log, committed>>
        /\ Settled' \in {Settled, Settled \cup {task[w]}}
    BY <1>3 DEF HandlerReturns, HandlerRaises, ForwardToDeadLetter, Settled, broker, history
  <2> QED
    BY <2>1, <2>2, SettleRefines
<1>4. ASSUME NEW w \in Workers, Commit(w)
      PROVE  SettledPublished' /\ [Delivery!Next]_(Delivery!vars)
  BY <1>4, CommitRefines
<1>5. ASSUME UNCHANGED <<log, committed, handled, dropped, skipped, dead, lost>>
      PROVE  SettledPublished' /\ [Delivery!Next]_(Delivery!vars)
  BY <1>5 DEF SettledPublished, Published, Settled, Acknowledged, Delivery!vars
<1>6. Rebalance \/ (\E w \in Workers : Start(w) \/ Leave(w)) \/ UNCHANGED vars
        => UNCHANGED <<log, committed, handled, dropped, skipped, dead, lost>>
  BY DEF Rebalance, Start, Leave, vars, broker, worker, history
<1> QED
  BY <1>1, <1>2, <1>3, <1>4, <1>5, <1>6 DEF Next

\* The dispatcher implements the safety part of the abstract task queue.
THEOREM ImplementsDelivery == SafetySpec => DeliverySafety
<1>1. Init => SettledPublished /\ Delivery!Init
  BY DispatchAssumption
     DEF Init, SettledPublished, Settled, Published, Acknowledged, Delivery!Init, TaskIds, Offsets
<1> QED
  BY <1>1, InitIInv, NextIInv, NextRefines, PTL
     DEF SafetySpec, DeliverySafety, Delivery!SafetySpec
=============================================================================
