------------------------ MODULE AnswerSaving_proofs -------------------------
(***************************************************************************)
(* Proofs about AnswerSaving for any finite set of questions and every     *)
(* bound, whether or not the answers topic is consumed.  The argument: as  *)
(* long as no save of a question fails beside another one, its queue holds *)
(* what is being sent from the queue, and nothing older than that is on    *)
(* the wire, so the save that empties the queue or replaces an entry never *)
(* takes the newest answer with it.                                        *)
(***************************************************************************)
EXTENDS AnswerSaving, FiniteSetTheorems, TLAPS

\* What waits in memory, what nobody waits for and what was published was entered.
AllEntered == Entries(pending) \cup orphans \cup published \subseteq Entered

AcceptedPublished == accepted \subseteq published

\* Without a clash the copy in localStorage is the queue, what is sent from the queue
\* is in it, and every other save on the wire is of a newer answer.
Leads(q) ==
  /\ kept[q] = pending[q]
  /\ batch[q] # 0 => pending[q] = batch[q]
  /\ \A n \in Numbers : <<q, n>> \in direct /\ pending[q] # 0 => n > pending[q]

QueueLeads == \A q \in Questions \ clashed : Leads(q)

\* Outstanding(q), answer by answer.
Waits(q, n) ==
  \/ <<q, n>> \in direct \cup orphans \cup topic
  \/ n \in {batch[q], pending[q], kept[q]}

\* Without a race only the newest answer is outstanding.  Until it is in the table it
\* waits somewhere: once published, in the topic.
NewestOnly(q) ==
  /\ q \notin clashed
  /\ \A n \in Numbers : Waits(q, n) => n = entered[q]
  /\ row[q] # entered[q] => Waits(q, entered[q])
  /\ row[q] # entered[q] /\ <<q, entered[q]>> \in published => <<q, entered[q]>> \in topic

OneOutstanding == \A q \in Questions \ raced : NewestOnly(q)

\* NewestIsOnItsWay of a page that keeps its memory when it is left.
NewestHeld ==
  \A q \in Questions \ clashed :
    entered[q] # 0 => <<q, entered[q]>> \in direct \cup Entries(pending) \cup published

IInv ==
  /\ TypeOK
  /\ AllEntered
  /\ AcceptedPublished
  /\ QueueLeads
  /\ NewestHeld
  /\ OneOutstanding

-----------------------------------------------------------------------------
(***************************************************************************)
(* What the sets of saves stand for.                                       *)
(***************************************************************************)

LEMMA SavesArePairs ==
  ASSUME NEW s \in Saves
  PROVE  s = <<s[1], s[2]>> /\ s[1] \in Questions /\ s[2] \in Numbers
  BY DEF Saves

LEMMA InEntries ==
  ASSUME NEW f, NEW q \in Questions, NEW n \in Numbers
  PROVE  <<q, n>> \in Entries(f) <=> f[q] = n
  BY DEF Entries, Saves

LEMMA InEntered ==
  ASSUME NEW q \in Questions, NEW n \in Numbers
  PROVE  <<q, n>> \in Entered <=> n <= entered[q]
  BY DEF Entered, Saves

LEMMA InOutstanding ==
  ASSUME NEW q \in Questions, NEW n \in Numbers
  PROVE  <<q, n>> \in Outstanding(q) <=> Waits(q, n)
<1>1. \A f : <<q, n>> \in Entries(f) <=> f[q] = n
  BY InEntries
<1> QED
  BY <1>1 DEF OnTheWire, Outstanding, Waits

\* What is in the table was entered, so a row that is behind is behind an answer.
LEMMA RowBehind ==
  ASSUME TypeOK, AllEntered, NEW q \in Questions, row[q] # entered[q]
  PROVE  entered[q] \in Numbers
<1> USE AnswerAssumption DEF Numbers
<1>1. entered[q] \in 0 .. MaxAnswers /\ row[q] \in 0 .. MaxAnswers
  BY DEF TypeOK, Queues
<1>2. ASSUME row[q] # 0 PROVE row[q] <= entered[q]
  <2>1. <<q, row[q]>> \in Entries(row)
    BY <1>1, <1>2, InEntries
  <2> QED
    BY <1>1, <1>2, <2>1, InEntered DEF TypeOK, AllEntered
<1> QED
  BY <1>1, <1>2

\* When a save fails without a clash it was alone on the wire.
LEMMA AloneUnlessClash ==
  ASSUME NEW s \in Saves
  PROVE  /\ clashed \subseteq Clashes(s)
         /\ Clashes(s) \subseteq clashed \cup {s[1]}
         /\ s[1] \notin Clashes(s) =>
              \A n \in Numbers : <<s[1], n>> \in direct \/ batch[s[1]] = n => n = s[2]
<1>1. s[1] \in Questions /\ s[2] \in Numbers
  BY SavesArePairs
<1>2. ASSUME OnTheWire(s[1]) = {s}, NEW n \in Numbers, <<s[1], n>> \in direct \/ batch[s[1]] = n
      PROVE  n = s[2]
  <2>1. <<s[1], n>> \in OnTheWire(s[1])
    BY <1>1, <1>2, InEntries DEF OnTheWire
  <2> QED
    BY <1>2, <2>1
<1> QED
  BY <1>2 DEF Clashes

\* The saves nobody waits for: what has left the wire is at most one more of them.
LEMMA Unawaited ==
  ASSUME NEW s \in Saves, LeavesTheWire(s)
  PROVE  /\ accepted' \subseteq accepted \ {s}
         /\ orphans \subseteq orphans' /\ orphans' \subseteq orphans \cup {s}
  BY DEF LeavesTheWire

\* A save that fails while nothing else of its question waits is alone.
LEMMA NoClash ==
  ASSUME TypeOK, NEW s \in direct \cup Entries(batch), NewestOnly(s[1])
  PROVE  s = <<s[1], entered[s[1]]>> /\ Clashes(s) = clashed
<1>1. s \in Saves /\ s = <<s[1], s[2]>> /\ s[1] \in Questions /\ s[2] \in Numbers
  BY SavesArePairs DEF TypeOK, Entered
<1>2. ASSUME NEW r \in OnTheWire(s[1])
      PROVE  r = <<s[1], entered[s[1]]>>
  <2>1. r \in Saves /\ r[1] = s[1] /\ r \in direct \cup Entries(batch)
    BY DEF OnTheWire, TypeOK, Entered
  <2>2. r = <<s[1], r[2]>> /\ r[2] \in Numbers
    BY <2>1, SavesArePairs
  <2>3. Waits(s[1], r[2])
    BY <1>1, <2>1, <2>2, InEntries DEF Waits
  <2> QED
    BY <2>2, <2>3 DEF NewestOnly
<1>3. s \in OnTheWire(s[1])
  BY DEF OnTheWire
<1> QED
  BY <1>2, <1>3 DEF Clashes

\* The guard of Enter leaves room for one more answer to any question.
LEMMA RoomForOne ==
  ASSUME TypeOK, Cardinality(Entered) < MaxAnswers, NEW q \in Questions
  PROVE  entered[q] + 1 \in Numbers
<1> USE AnswerAssumption DEF Numbers
<1> DEFINE n == entered[q]
           f == [i \in 1 .. n |-> <<q, i>>]
<1>1. n \in 0 .. MaxAnswers
  BY DEF TypeOK, Queues
<1>2. IsFiniteSet(Entered) /\ Cardinality(Entered) \in Nat
  <2>1. IsFiniteSet(Numbers)
    BY FS_Interval
  <2>2. IsFiniteSet(Saves)
    BY <2>1, FS_Product DEF Saves
  <2>3. Entered \in SUBSET Saves
    BY DEF Entered
  <2> QED
    BY <2>2, <2>3, FS_Subset, FS_CardinalityType
<1>3. f \in Injection(1 .. n, Entered)
  <2>1. \A i \in 1 .. n : <<q, i>> \in Entered
    BY <1>1 DEF Entered, Saves
  <2> QED
    BY <2>1 DEF Injection, IsInjective
<1>4. Cardinality(1 .. n) = n
  BY <1>1, FS_Interval
<1>5. Cardinality(1 .. n) <= Cardinality(Entered)
  BY <1>2, <1>3, FS_Injection
<1> QED
  BY <1>1, <1>2, <1>4, <1>5

-----------------------------------------------------------------------------
LEMMA InitIInv == Init => IInv
<1> SUFFICES ASSUME Init PROVE IInv
  OBVIOUS
<1> USE AnswerAssumption DEF Init, Empty
<1>1. /\ Empty \in Queues
      /\ Entries(Empty) = {}
  BY DEF Queues, Entries, Saves, Numbers
<1>2. TypeOK /\ AllEntered /\ AcceptedPublished
  BY <1>1 DEF TypeOK, AllEntered, AcceptedPublished
<1>3. QueueLeads /\ NewestHeld
  BY DEF QueueLeads, Leads, NewestHeld
<1>4. OneOutstanding
  BY DEF OneOutstanding, NewestOnly, Waits, Numbers
<1> QED
  BY <1>2, <1>3, <1>4 DEF IInv

LEMMA EnterIInv == ASSUME IInv, NEW q \in Questions, Enter(q) PROVE IInv'
<1> USE AnswerAssumption DEF IInv, Enter, queue, network
<1> DEFINE n == entered[q] + 1
<1>1. n \in Numbers /\ <<q, n>> \in Saves
  BY RoomForOne DEF Saves
<1>2. /\ entered' \in Queues
      /\ entered'[q] = n
      /\ \A p \in Questions : p # q => entered'[p] = entered[p]
      /\ Entered \subseteq Entered'
      /\ <<q, n>> \in Entered'
      /\ <<q, n>> \notin Entered
  BY <1>1 DEF TypeOK, Queues, Entered, Saves, Numbers
<1>3. direct' = direct \cup {<<q, n>>}
  OBVIOUS
<1>4. \A m \in Numbers : m <= entered[q] => n > m
  BY DEF TypeOK, Queues, Numbers
<1> HIDE DEF n
<1>5. TypeOK' /\ AllEntered' /\ AcceptedPublished'
  <2>1. UNCHANGED <<Entries(batch), Entries(pending), Entries(kept), Entries(row)>>
    BY DEF Entries
  <2> QED
    BY <1>1, <1>2, <1>3, <2>1 DEF TypeOK, AllEntered, AcceptedPublished
<1>6. QueueLeads'
  <2>1. ASSUME pending[q] # 0 PROVE n > pending[q]
    <3>1. pending[q] \in Numbers
      BY <2>1 DEF TypeOK, Queues, Numbers
    <3>2. <<q, pending[q]>> \in Entered
      BY <3>1, InEntries DEF AllEntered
    <3> QED
      BY <1>4, <3>1, <3>2, InEntered
  <2> QED
    BY <1>1, <1>3, <2>1 DEF QueueLeads, Leads
<1>7. NewestHeld'
  BY <1>2, <1>3 DEF NewestHeld
<1>8. OneOutstanding'
  <2>1. ASSUME NEW p \in Questions \ raced', p # q
        PROVE  NewestOnly(p)'
    BY <1>2, <1>3, <2>1 DEF OneOutstanding, NewestOnly, Waits
  <2>2. ASSUME q \notin raced'
        PROVE  NewestOnly(q)'
    <3>1. Outstanding(q) = {} /\ NewestOnly(q)
      BY <2>2 DEF OneOutstanding
    <3>2. \A m \in Numbers : ~Waits(q, m)
      BY <3>1, InOutstanding
    <3>3. \A m \in Numbers : Waits(q, m)' <=> m = n
      BY <1>1, <1>3, <3>2 DEF Waits
    <3>4. <<q, n>> \notin published
      BY <1>2 DEF AllEntered
    <3> QED
      BY <1>1, <1>2, <3>1, <3>3, <3>4 DEF NewestOnly
  <2> QED
    BY <2>1, <2>2 DEF OneOutstanding
<1> QED
  BY <1>5, <1>6, <1>7, <1>8

\* A change of the queue that puts in it what was on the wire, or takes something out,
\* leaves everything entered.
LEMMA QueuesEntered ==
  ASSUME TypeOK, NEW f \in Queues, NEW s \in Saves, s \in Entered, Entries(f) \subseteq Entered
  PROVE  /\ [f EXCEPT ![s[1]] = s[2]] \in Queues
         /\ [f EXCEPT ![s[1]] = 0] \in Queues
         /\ Entries([f EXCEPT ![s[1]] = s[2]]) \subseteq Entries(f) \cup {s}
         /\ Entries([f EXCEPT ![s[1]] = 0]) \subseteq Entries(f) \ {s}
<1> USE AnswerAssumption DEF Queues
<1>1. s = <<s[1], s[2]>> /\ s[1] \in Questions /\ s[2] \in Numbers
  BY SavesArePairs
<1>2. ASSUME NEW r \in Saves, r \in Entries([f EXCEPT ![s[1]] = s[2]])
      PROVE  r \in Entries(f) \cup {s}
  BY <1>1, <1>2, SavesArePairs DEF Entries
<1>3. ASSUME NEW r \in Saves, r \in Entries([f EXCEPT ![s[1]] = 0])
      PROVE  r \in Entries(f) \ {s}
  BY <1>1, <1>3, SavesArePairs DEF Entries, Numbers
<1>4. s[2] \in 0 .. MaxAnswers /\ 0 \in 0 .. MaxAnswers
  BY <1>1 DEF Numbers
<1> QED
  BY <1>1, <1>2, <1>3, <1>4 DEF Entries

LEMMA DirectSavedIInv == ASSUME IInv, NEW s \in Saves, DirectSaved(s) PROVE IInv'
<1> USE AnswerAssumption DEF IInv, DirectSaved, Answered, queue
<1>1. s = <<s[1], s[2]>> /\ s[1] \in Questions /\ s[2] \in Numbers
  BY SavesArePairs
<1>2. s \in published
  BY DEF AcceptedPublished
<1>3. UNCHANGED <<Entered, Entries(batch), Entries(pending), Entries(kept), Entries(row)>>
  BY DEF Entered, Entries
<1>4. TypeOK' /\ AllEntered' /\ AcceptedPublished'
  BY <1>2, <1>3 DEF TypeOK, AllEntered, AcceptedPublished
<1>5. QueueLeads' /\ NewestHeld'
  BY <1>2, <1>3 DEF QueueLeads, Leads, NewestHeld
<1>6. OneOutstanding'
  BY <1>1, <1>2 DEF OneOutstanding, NewestOnly, Waits
<1> QED
  BY <1>4, <1>5, <1>6

LEMMA DirectFailsIInv == ASSUME IInv, NEW s \in Saves, DirectFails(s) PROVE IInv'
<1> USE AnswerAssumption DEF IInv, DirectFails
<1> DEFINE q == s[1]
           n == s[2]
<1>1. s = <<q, n>> /\ q \in Questions /\ n \in Numbers
  BY SavesArePairs
<1>2. s \in Entered /\ UNCHANGED <<Entered, Entries(row)>>
  BY DEF TypeOK, Entered, Entries
<1>3. /\ pending' \in Queues
      /\ Entries(pending') \subseteq Entries(pending) \cup {s}
  BY <1>2, QueuesEntered DEF TypeOK, AllEntered
<1>4. /\ pending'[q] = n
      /\ \A p \in Questions : p # q => pending'[p] = pending[p]
  BY <1>1 DEF TypeOK, Queues
<1>5. kept' = pending' /\ (batch' = batch \/ (batch = Empty /\ batch' = pending'))
  <2>1. kept' = pending' /\ batch' = Sends(pending')
    OBVIOUS
  <2> QED
    BY <2>1 DEF Sends
<1>6. clashed' = Clashes(s) /\ direct' = direct \ {s}
  OBVIOUS
<1>13. /\ accepted' \subseteq accepted \ {s}
       /\ orphans \subseteq orphans' /\ orphans' \subseteq orphans \cup {s}
  BY Unawaited
<1>7. /\ clashed \subseteq clashed'
      /\ clashed' \subseteq clashed \cup {q}
      /\ q \notin clashed' => \A m \in Numbers : <<q, m>> \in direct \/ batch[q] = m => m = n
  BY <1>6, AloneUnlessClash
<1>8. Entries(batch) \subseteq Entries(batch')
  <2>1. Entries(Empty) = {}
    BY DEF Entries, Empty, Saves, Numbers
  <2> QED
    BY <1>5, <2>1
<1> HIDE DEF q, n
<1>9. TypeOK' /\ AllEntered' /\ AcceptedPublished'
  <2>1. Entries(batch)' \subseteq Entered' /\ Entries(kept)' \subseteq Entered' /\ Entries(pending)' \subseteq Entered'
    BY <1>2, <1>3, <1>5 DEF TypeOK, AllEntered
  <2>2. accepted' \subseteq direct' \cup Entries(batch)'
    BY <1>5, <1>6, <1>8, <1>13 DEF TypeOK
  <2>3. clashed' \subseteq Questions
    BY <1>1, <1>7 DEF TypeOK
  <2> QED
    BY <1>2, <1>3, <1>5, <1>13, <2>1, <2>2, <2>3 DEF TypeOK, AllEntered, AcceptedPublished
<1>10. QueueLeads'
  <2>1. ASSUME NEW p \in Questions \ clashed', p # q PROVE Leads(p)'
    BY <1>4, <1>5, <1>6, <1>7, <2>1 DEF QueueLeads, Leads, Empty
  <2>2. ASSUME q \notin clashed' PROVE Leads(q)'
    <3>1. batch[q] # 0 => batch[q] = n
      <4>1. batch[q] # 0 => batch[q] \in Numbers
        BY <1>1 DEF TypeOK, Queues, Numbers
      <4> QED
        BY <1>7, <2>2, <4>1
    <3>2. \A m \in Numbers : <<q, m>> \notin direct'
      BY <1>1, <1>6, <1>7, <2>2
    <3> QED
      BY <1>4, <1>5, <3>1, <3>2 DEF Leads
  <2> QED
    BY <2>1, <2>2 DEF QueueLeads
<1>11. NewestHeld'
  <2>1. ASSUME NEW p \in Questions \ clashed', p # q, entered[p] # 0
        PROVE  <<p, entered[p]>> \in direct' \cup Entries(pending') \cup published
    BY <1>1, <1>4, <1>6, <1>7, <2>1, InEntries DEF NewestHeld, Entries
  <2>2. ASSUME q \notin clashed', entered[q] # 0
        PROVE  <<q, entered[q]>> \in direct' \cup Entries(pending') \cup published
    <3>1. entered[q] \in Numbers /\ <<q, entered[q]>> \in direct \cup Entries(pending) \cup published
      BY <1>1, <1>7, <2>2 DEF NewestHeld, TypeOK, Queues, Numbers
    <3>2. n <= entered[q]
      BY <1>1, <1>2, InEntered
    <3>3. CASE <<q, entered[q]>> \in Entries(pending)
      <4>1. pending[q] = entered[q]
        BY <3>1, <3>3, <1>1, InEntries
      <4>2. n > pending[q]
        BY <1>1, <1>7, <2>2, <4>1 DEF QueueLeads, Leads
      <4> QED
        BY <1>1, <3>1, <3>2, <4>1, <4>2 DEF Numbers
    <3>4. CASE <<q, entered[q]>> = s
      BY <3>1, <3>4, <1>1, <1>4, InEntries
    <3> QED
      BY <1>6, <3>1, <3>3, <3>4
  <2> QED
    BY <2>1, <2>2 DEF NewestHeld
<1>12. OneOutstanding'
  <2>1. ASSUME NEW p \in Questions \ raced, p # q PROVE NewestOnly(p)'
    <3>1. NewestOnly(p) /\ Leads(p) /\ p \notin clashed'
      BY <1>7, <2>1 DEF OneOutstanding, NewestOnly, QueueLeads
    <3>2. \A m \in Numbers : Waits(p, m)' <=> Waits(p, m)
      <4>1. \A m \in Numbers : <<p, m>> \in direct' <=> <<p, m>> \in direct
        BY <1>1, <1>6, <2>1
      <4>2. pending'[p] = pending[p] /\ kept'[p] = kept[p]
        BY <1>4, <1>5, <2>1, <3>1 DEF Leads
      <4>3. batch'[p] = batch[p] \/ (batch[p] = 0 /\ batch'[p] = pending[p])
        BY <1>5, <2>1, <4>2 DEF Empty
      <4>4. UNCHANGED topic /\ \A m \in Numbers : <<p, m>> \in orphans' <=> <<p, m>> \in orphans
        BY <1>1, <1>13, <2>1
      <4> QED
        BY <4>1, <4>2, <4>3, <4>4 DEF Waits, Numbers
    <3>3. row[p] # entered[p] => entered[p] \in Numbers
      BY <2>1, RowBehind
    <3> QED
      BY <3>1, <3>2, <3>3 DEF NewestOnly
  <2>2. ASSUME q \notin raced PROVE NewestOnly(q)'
    <3>1. NewestOnly(q) /\ Leads(q)
      BY <1>1, <2>2 DEF OneOutstanding, NewestOnly, QueueLeads
    <3>2. n = entered[q] /\ clashed' = clashed
      BY <1>1, <1>6, <3>1, NoClash DEF q
    <3>3. \A m \in Numbers : Waits(q, m)' => Waits(q, m) \/ m = n
      BY <1>1, <1>4, <1>5, <1>6, <1>13 DEF Waits
    <3>4. Waits(q, n)'
      BY <1>4 DEF Waits
    <3> QED
      BY <3>1, <3>2, <3>3, <3>4 DEF NewestOnly
  <2> QED
    BY <2>1, <2>2 DEF OneOutstanding
<1> QED
  BY <1>9, <1>10, <1>11, <1>12

\* The interval, and the start of a submit, which both only move what is queued.
LEMMA RetryTickIInv == ASSUME IInv, RetryTick PROVE IInv'
<1> USE AnswerAssumption DEF IInv, RetryTick, network, history
<1>1. batch = Empty /\ batch' = pending
  BY DEF Sends
<1>2. UNCHANGED <<Entered, Entries(pending), Entries(kept), Entries(row)>> /\ Entries(Empty) = {}
  BY DEF Entered, Entries, Empty, Saves, Numbers
<1>3. TypeOK' /\ AllEntered' /\ AcceptedPublished'
  BY <1>1, <1>2 DEF TypeOK, AllEntered, AcceptedPublished
<1>4. QueueLeads' /\ NewestHeld'
  BY <1>1, <1>2 DEF QueueLeads, Leads, NewestHeld
<1>5. OneOutstanding'
  <2>1. ASSUME NEW q \in Questions \ raced PROVE NewestOnly(q)'
    <3>1. NewestOnly(q) /\ batch[q] = 0
      BY <1>1, <2>1 DEF OneOutstanding, Empty
    <3>2. \A n \in Numbers : Waits(q, n)' <=> Waits(q, n)
      BY <1>1, <3>1 DEF Waits, Numbers
    <3>3. row[q] # entered[q] => entered[q] \in Numbers
      BY <2>1, RowBehind
    <3> QED
      BY <3>1, <3>2, <3>3 DEF NewestOnly
  <2> QED
    BY <2>1 DEF OneOutstanding
<1> QED
  BY <1>3, <1>4, <1>5

LEMMA SubmitIInv == ASSUME IInv, Submit PROVE IInv'
<1> USE AnswerAssumption DEF IInv, Submit, network, history
<1>1. UNCHANGED <<Entered, Entries(batch), Entries(kept), Entries(row)>> /\ Entries(pending') = Entries(kept)
  BY DEF Entered, Entries
<1>2. TypeOK' /\ AllEntered' /\ AcceptedPublished'
  BY <1>1 DEF TypeOK, AllEntered, AcceptedPublished
<1>3. QueueLeads'
  BY DEF QueueLeads, Leads
<1>4. NewestHeld'
  <2>1. \A q \in Questions \ clashed : pending'[q] = pending[q]
    BY DEF QueueLeads, Leads
  <2>2. \A q \in Questions \ clashed, n \in Numbers :
          <<q, n>> \in Entries(pending) => <<q, n>> \in Entries(pending')
    BY <2>1, InEntries
  <2>3. \A q \in Questions : entered[q] # 0 => entered[q] \in Numbers
    BY DEF TypeOK, Queues, Numbers
  <2> QED
    BY <2>2, <2>3 DEF NewestHeld
<1>5. OneOutstanding'
  BY DEF OneOutstanding, NewestOnly, Waits, QueueLeads, Leads
<1> QED
  BY <1>2, <1>3, <1>4, <1>5

LEMMA SubmitReturnsIInv == ASSUME IInv, SubmitReturns PROVE IInv'
<1> USE DEF IInv, SubmitReturns, queue, network, history
<1>1. UNCHANGED <<Entered, Entries(batch), Entries(pending), Entries(kept), Entries(row)>>
  BY DEF Entered, Entries
<1>2. TypeOK' /\ AllEntered' /\ AcceptedPublished'
  BY <1>1 DEF TypeOK, AllEntered, AcceptedPublished
<1>3. QueueLeads' /\ NewestHeld' /\ OneOutstanding'
  BY <1>1 DEF QueueLeads, Leads, NewestHeld, OneOutstanding, NewestOnly, Waits
<1> QED
  BY <1>2, <1>3

LEMMA QueueSavedIInv == ASSUME IInv, NEW s \in Saves, QueueSaved(s) PROVE IInv'
<1> USE AnswerAssumption DEF IInv, QueueSaved, Answered
<1> DEFINE q == s[1]
           n == s[2]
<1>1. s = <<q, n>> /\ q \in Questions /\ n \in Numbers
  BY SavesArePairs
<1>2. s \in published /\ s \in Entered
  BY DEF AcceptedPublished, AllEntered
<1>3. /\ batch[q] = n
      /\ batch'[q] = 0 /\ pending'[q] = 0 /\ kept' = pending'
      /\ \A p \in Questions : p # q => batch'[p] = batch[p] /\ pending'[p] = pending[p]
  BY <1>1 DEF TypeOK, Queues, Entries
<1>4. /\ batch' \in Queues /\ Entries(batch') \subseteq Entries(batch) \ {s}
      /\ pending' \in Queues /\ Entries(pending') \subseteq Entries(pending)
  BY <1>2, QueuesEntered DEF TypeOK, AllEntered
<1>5. Entries(batch) \ {s} \subseteq Entries(batch')
  BY <1>1, <1>3, SavesArePairs DEF Entries
<1>6. UNCHANGED <<Entered, Entries(row)>>
  BY DEF Entered, Entries
<1> HIDE DEF q, n
<1>7. TypeOK' /\ AllEntered' /\ AcceptedPublished'
  <2>1. Entries(batch') \cup Entries(kept') \subseteq Entered
    BY <1>3, <1>4 DEF TypeOK, AllEntered
  <2>2. accepted' \subseteq direct \cup Entries(batch')
    BY <1>5 DEF TypeOK
  <2> QED
    BY <1>2, <1>3, <1>4, <1>6, <2>1, <2>2 DEF TypeOK, AllEntered, AcceptedPublished
<1>8. QueueLeads'
  BY <1>3 DEF QueueLeads, Leads
<1>9. NewestHeld'
  <2>1. ASSUME NEW p \in Questions \ clashed, entered[p] # 0, <<p, entered[p]>> \in Entries(pending)
        PROVE  <<p, entered[p]>> \in Entries(pending') \cup published
    <3>1. entered[p] \in Numbers
      BY <2>1 DEF TypeOK, Queues, Numbers
    <3>2. pending[p] = entered[p]
      BY <2>1, <3>1, InEntries
    <3>3. CASE p = q
      BY <1>1, <1>2, <1>3, <2>1, <3>2, <3>3 DEF QueueLeads, Leads, Numbers
    <3>4. CASE p # q
      BY <1>3, <2>1, <3>1, <3>2, <3>4, InEntries
    <3> QED
      BY <3>3, <3>4
  <2> QED
    BY <2>1 DEF NewestHeld
<1>10. OneOutstanding'
  <2>1. ASSUME NEW p \in Questions \ raced PROVE NewestOnly(p)'
    <3>1. NewestOnly(p) /\ kept[p] = pending[p]
      BY <2>1 DEF OneOutstanding, NewestOnly, QueueLeads, Leads
    <3>2. row[p] # entered[p] => entered[p] \in Numbers
      BY <2>1, RowBehind
    <3>3. CASE p # q
      <4>1. \A m \in Numbers : Waits(p, m)' <=> Waits(p, m)
        BY <1>3, <3>1, <3>3 DEF Waits
      <4> QED
        BY <3>1, <3>2, <4>1 DEF NewestOnly
    <3>4. CASE p = q
      <4>1. n = entered[q]
        BY <1>1, <1>3, <3>1, <3>4 DEF NewestOnly, Waits
      <4>2. \A m \in Numbers : Waits(q, m)' => Waits(q, m)
        BY <1>3 DEF Waits, Numbers
      <4> QED
        BY <1>1, <1>2, <3>1, <3>2, <3>4, <4>1, <4>2 DEF NewestOnly, Waits
    <3> QED
      BY <3>3, <3>4
  <2> QED
    BY <2>1 DEF OneOutstanding
<1> QED
  BY <1>7, <1>8, <1>9, <1>10

LEMMA QueueFailsIInv == ASSUME IInv, NEW s \in Saves, QueueFails(s) PROVE IInv'
<1> USE AnswerAssumption DEF IInv, QueueFails
<1> DEFINE q == s[1]
           n == s[2]
<1>1. s = <<q, n>> /\ q \in Questions /\ n \in Numbers
  BY SavesArePairs
<1>2. s \in Entered
  BY DEF TypeOK
<1>3. /\ batch[q] = n
      /\ batch'[q] = 0
      /\ \A p \in Questions : p # q => batch'[p] = batch[p]
  BY <1>1 DEF TypeOK, Queues, Entries
<1>4. batch' \in Queues /\ Entries(batch') \subseteq Entries(batch) \ {s}
  BY <1>2, QueuesEntered DEF TypeOK
<1>5. Entries(batch) \ {s} \subseteq Entries(batch')
  BY <1>1, <1>3, SavesArePairs DEF Entries
<1>6. UNCHANGED <<Entered, Entries(row), Entries(pending), Entries(kept)>>
  BY DEF Entered, Entries
<1>7. /\ clashed \subseteq clashed'
      /\ clashed' \subseteq clashed \cup {q}
  BY AloneUnlessClash
<1>12. /\ accepted' \subseteq accepted \ {s}
       /\ orphans \subseteq orphans' /\ orphans' \subseteq orphans \cup {s}
  BY Unawaited
<1> HIDE DEF q, n
<1>8. TypeOK' /\ AllEntered' /\ AcceptedPublished'
  <2>1. accepted' \subseteq direct \cup Entries(batch')
    BY <1>5, <1>12 DEF TypeOK
  <2> QED
    BY <1>1, <1>2, <1>4, <1>6, <1>7, <1>12, <2>1 DEF TypeOK, AllEntered, AcceptedPublished
<1>9. QueueLeads'
  BY <1>3, <1>7 DEF QueueLeads, Leads
<1>10. NewestHeld'
  BY <1>6, <1>7 DEF NewestHeld
<1>11. OneOutstanding'
  <2>1. ASSUME NEW p \in Questions \ raced PROVE NewestOnly(p)'
    <3>1. NewestOnly(p) /\ Leads(p)
      BY <2>1 DEF OneOutstanding, NewestOnly, QueueLeads
    <3>2. p \notin clashed'
      BY <1>7, <3>1, NoClash DEF NewestOnly, q
    <3>3. \A m \in Numbers : Waits(p, m)' <=> Waits(p, m)
      BY <1>1, <1>3, <1>12, <3>1 DEF Waits, Leads, Numbers
    <3>4. row[p] # entered[p] => entered[p] \in Numbers
      BY <2>1, RowBehind
    <3> QED
      BY <3>1, <3>2, <3>3, <3>4 DEF NewestOnly
  <2> QED
    BY <2>1 DEF OneOutstanding
<1> QED
  BY <1>8, <1>9, <1>10, <1>11

\* The questions of which something was under way are clashed and raced from now on;
\* nothing changes for the others.
LEMMA ReloadIInv == ASSUME IInv, Reload PROVE IInv'
<1> USE AnswerAssumption DEF IInv, Reload
<1> DEFINE cut == {q \in Questions : OnTheWire(q) # {} \/ pending[q] # 0}
<1>1. PICK late \in SUBSET ((direct \cup Entries(batch)) \ accepted) : orphans' = orphans \cup late
  OBVIOUS
<1>2. clashed' = clashed \cup cut /\ raced' = raced \cup cut
  OBVIOUS
<1>3. UNCHANGED <<Entered, Entries(kept), Entries(row)>> /\ Empty \in Queues /\ Entries(Empty) = {}
  BY DEF Entered, Entries, Empty, Saves, Queues, Numbers
<1>4. late \subseteq Entered
  BY <1>1 DEF TypeOK
<1> HIDE DEF cut
<1>5. TypeOK' /\ AllEntered' /\ AcceptedPublished'
  <2>1. cut \subseteq Questions
    BY DEF cut
  <2>2. Entered \subseteq Saves
    BY DEF Entered
  <2> QED
    BY <1>1, <1>2, <1>3, <1>4, <2>1, <2>2 DEF TypeOK, AllEntered, AcceptedPublished
<1>6. ASSUME NEW q \in Questions \ cut
      PROVE  /\ pending[q] = 0
             /\ \A n \in Numbers : <<q, n>> \notin direct \cup Entries(batch)
  BY <1>6 DEF cut, OnTheWire
<1>7. QueueLeads'
  BY <1>2, <1>6 DEF QueueLeads, Leads, Empty
<1>8. NewestHeld'
  <2>1. ASSUME NEW q \in Questions \ clashed', entered[q] # 0
        PROVE  <<q, entered[q]>> \in published
    <3>1. entered[q] \in Numbers /\ pending[q] # entered[q] /\ q \notin cut
      BY <1>2, <1>6, <2>1 DEF TypeOK, Queues, Numbers
    <3> QED
      BY <1>2, <1>6, <2>1, <3>1, InEntries DEF NewestHeld
  <2> QED
    BY <2>1 DEF NewestHeld
<1>9. OneOutstanding'
  <2>1. ASSUME NEW q \in Questions \ raced' PROVE NewestOnly(q)'
    <3>1. NewestOnly(q) /\ q \notin cut /\ q \notin clashed'
      BY <1>2, <2>1 DEF OneOutstanding, NewestOnly
    <3>2. ASSUME NEW n \in Numbers
          PROVE  Waits(q, n)' <=> Waits(q, n)
      <4>1. <<q, n>> \notin direct /\ batch[q] # n /\ pending[q] = 0 /\ <<q, n>> \notin late
        BY <1>1, <1>6, <2>1, <3>1, InEntries
      <4> QED
        BY <1>1, <4>1 DEF Waits, Empty, Numbers
    <3>3. row[q] # entered[q] => entered[q] \in Numbers
      BY <2>1, RowBehind
    <3> QED
      BY <3>1, <3>2, <3>3 DEF NewestOnly
  <2> QED
    BY <2>1 DEF OneOutstanding
<1> QED
  BY <1>5, <1>7, <1>8, <1>9

-----------------------------------------------------------------------------
(***************************************************************************)
(* The API and the workers.                                                *)
(***************************************************************************)

LEMMA AcceptIInv == ASSUME IInv, NEW s \in Saves, Accept(s) \/ AcceptLate(s) PROVE IInv'
<1> USE AnswerAssumption DEF IInv, queue
<1>1. /\ UNCHANGED <<page, entered, direct, queue, row, acked, clashed, raced, faults>>
      /\ topic' = topic \cup {s} /\ published' = published \cup {s}
      /\ s \in direct \cup Entries(batch) \cup orphans
      /\ \/ accepted' = accepted \cup {s} /\ s \in direct \cup Entries(batch) /\ orphans' = orphans
         \/ accepted' = accepted /\ orphans' = orphans \ {s}
  BY DEF Accept, AcceptLate
<1>2. s = <<s[1], s[2]>> /\ s[1] \in Questions /\ s[2] \in Numbers
  BY SavesArePairs
<1>3. UNCHANGED <<Entered, Entries(batch), Entries(pending), Entries(kept), Entries(row)>>
  BY <1>1 DEF Entered, Entries
<1>4. s \in Entered
  BY <1>1 DEF TypeOK, AllEntered
<1>5. TypeOK' /\ AllEntered' /\ AcceptedPublished'
  BY <1>1, <1>3, <1>4 DEF TypeOK, AllEntered, AcceptedPublished
<1>6. QueueLeads' /\ NewestHeld'
  BY <1>1, <1>3 DEF QueueLeads, Leads, NewestHeld
<1>7. OneOutstanding'
  <2>1. ASSUME NEW q \in Questions \ raced' PROVE NewestOnly(q)'
    <3>1. NewestOnly(q)
      BY <1>1, <2>1 DEF OneOutstanding
    <3>2. Waits(s[1], s[2])
      BY <1>1, <1>2, InEntries DEF Waits
    <3>3. \A n \in Numbers \cup {entered[q]} : Waits(q, n)' <=> Waits(q, n)
      BY <1>1, <1>2, <3>2 DEF Waits
    <3>4. s[1] = q => s[2] = entered[q]
      BY <1>2, <3>1, <3>2 DEF NewestOnly
    <3> QED
      BY <1>1, <1>2, <3>1, <3>3, <3>4 DEF NewestOnly
  <2> QED
    BY <2>1 DEF OneOutstanding
<1> QED
  BY <1>5, <1>6, <1>7

LEMMA StoreIInv == ASSUME IInv, NEW s \in Saves, Store(s) PROVE IInv'
<1> USE AnswerAssumption DEF IInv, Store, queue
<1>1. s = <<s[1], s[2]>> /\ s[1] \in Questions /\ s[2] \in Numbers
  BY SavesArePairs
<1>2. UNCHANGED <<Entered, Entries(batch), Entries(pending), Entries(kept)>>
  BY DEF Entered, Entries
<1>3. s \in published /\ s \in Entered /\ topic \ {s} \subseteq topic' /\ topic' \subseteq topic
  BY DEF TypeOK, AllEntered
<1>4. row' \in Queues /\ Entries(row') \subseteq Entries(row) \cup {s}
  <2>1. [row EXCEPT ![s[1]] = s[2]] \in Queues
    BY <1>1 DEF TypeOK, Queues, Numbers
  <2>2. ASSUME NEW r \in Saves, r \in Entries(row') PROVE r \in Entries(row) \cup {s}
    BY <1>1, <2>2, SavesArePairs DEF Entries, TypeOK, Queues
  <2> QED
    BY <2>1, <2>2 DEF Entries
<1>5. TypeOK' /\ AllEntered' /\ AcceptedPublished'
  <2>1. faults' \in 0 .. MaxFaults
    BY DEF TypeOK
  <2> QED
    BY <1>2, <1>3, <1>4, <2>1 DEF TypeOK, AllEntered, AcceptedPublished
<1>6. QueueLeads' /\ NewestHeld'
  BY <1>2 DEF QueueLeads, Leads, NewestHeld
<1>7. OneOutstanding'
  <2>1. ASSUME NEW q \in Questions \ raced PROVE NewestOnly(q)'
    <3>1. NewestOnly(q)
      BY <2>1 DEF OneOutstanding
    <3>2. CASE s[1] = q
      <4>1. row'[q] = s[2]
        BY <1>1, <3>2 DEF TypeOK, Queues
      <4>2. s[2] = entered[q]
        BY <1>1, <3>1, <3>2 DEF NewestOnly, Waits
      <4>3. \A n \in Numbers : Waits(q, n)' => Waits(q, n)
        BY <1>3 DEF Waits
      <4> QED
        BY <3>1, <4>1, <4>2, <4>3 DEF NewestOnly
    <3>3. CASE s[1] # q
      <4>1. row'[q] = row[q]
        BY <3>3 DEF TypeOK, Queues
      <4>2. \A n \in Numbers \cup {entered[q]} :
              (Waits(q, n)' <=> Waits(q, n)) /\ (<<q, n>> \in topic' <=> <<q, n>> \in topic)
        BY <1>1, <1>3, <3>3 DEF Waits
      <4> QED
        BY <3>1, <4>1, <4>2 DEF NewestOnly
    <3> QED
      BY <3>2, <3>3
  <2> QED
    BY <2>1 DEF OneOutstanding
<1> QED
  BY <1>5, <1>6, <1>7

LEMMA GiveUpIInv == ASSUME IInv, NEW s \in Saves, GiveUp(s) PROVE IInv'
<1> USE AnswerAssumption DEF IInv, GiveUp, queue
<1>1. s = <<s[1], s[2]>> /\ s[1] \in Questions /\ s[2] \in Numbers
  BY SavesArePairs
<1>2. UNCHANGED <<Entered, Entries(batch), Entries(pending), Entries(kept), Entries(row)>>
  BY DEF Entered, Entries
<1>3. TypeOK' /\ AllEntered' /\ AcceptedPublished'
  <2>1. faults' \in 0 .. MaxFaults /\ raced' \subseteq Questions
    BY <1>1 DEF TypeOK
  <2> QED
    BY <1>2, <2>1 DEF TypeOK, AllEntered, AcceptedPublished
<1>4. QueueLeads' /\ NewestHeld'
  BY <1>2 DEF QueueLeads, Leads, NewestHeld
<1>5. OneOutstanding'
  <2>1. ASSUME NEW q \in Questions \ raced' PROVE NewestOnly(q)'
    <3>1. NewestOnly(q) /\ s[1] # q
      BY <2>1 DEF OneOutstanding
    <3>2. \A n \in Numbers \cup {entered[q]} :
            (Waits(q, n)' <=> Waits(q, n)) /\ (<<q, n>> \in topic' <=> <<q, n>> \in topic)
      BY <1>1, <3>1 DEF Waits
    <3> QED
      BY <3>1, <3>2 DEF NewestOnly
  <2> QED
    BY <2>1 DEF OneOutstanding
<1> QED
  BY <1>3, <1>4, <1>5

LEMMA NextIInv == IInv /\ [Next]_vars => IInv'
<1> SUFFICES ASSUME IInv, [Next]_vars PROVE IInv'
  OBVIOUS
<1>1. CASE UNCHANGED vars
  <2>1. UNCHANGED <<Entered, Entries(batch), Entries(pending), Entries(kept), Entries(row)>>
    BY <1>1 DEF Entered, Entries, vars, queue
  <2>2. TypeOK' /\ AllEntered' /\ AcceptedPublished'
    BY <1>1, <2>1 DEF IInv, TypeOK, AllEntered, AcceptedPublished, vars, queue, network, history
  <2>3. QueueLeads' /\ NewestHeld' /\ OneOutstanding'
    BY <1>1, <2>1 DEF IInv, QueueLeads, Leads, NewestHeld, OneOutstanding, NewestOnly, Waits,
       vars, queue, network, history
  <2> QED
    BY <2>2, <2>3 DEF IInv
<1>2. CASE \E q \in Questions : Enter(q)
  BY <1>2, EnterIInv
<1>3. CASE RetryTick \/ Submit \/ SubmitReturns \/ Reload
  BY <1>3, RetryTickIInv, SubmitIInv, SubmitReturnsIInv, ReloadIInv
<1>4. ASSUME NEW s \in Saves, DirectSaved(s) \/ DirectFails(s)
      PROVE  IInv'
  BY <1>4, DirectSavedIInv, DirectFailsIInv
<1>5. ASSUME NEW s \in Saves, QueueSaved(s) \/ QueueFails(s)
      PROVE  IInv'
  BY <1>5, QueueSavedIInv, QueueFailsIInv
<1>6. ASSUME NEW s \in Saves, Accept(s) \/ AcceptLate(s) \/ Store(s) \/ GiveUp(s)
      PROVE  IInv'
  BY <1>6, AcceptIInv, StoreIInv, GiveUpIInv
<1> QED
  BY <1>1, <1>2, <1>3, <1>4, <1>5, <1>6 DEF Next

LEMMA Invariance == SafetySpec => []IInv
  BY InitIInv, NextIInv, PTL DEF SafetySpec

\* The state has its type; whatever is sent, queued, published or stored was entered.
THEOREM Typing == SafetySpec => []TypeOK
<1>1. IInv => TypeOK
  BY DEF IInv
<1> QED
  BY <1>1, Invariance, PTL

\* The page (saveAnswerImmediate, enqueueSave, processQueue of TakeExam.tsx) never lets go
\* of the newest answer while it is mounted, short of a clash or a reload.
THEOREM NothingNewestIsLost == SafetySpec => []NewestIsOnItsWay
<1>1. IInv => NewestIsOnItsWay
  BY DEF IInv, NewestHeld, NewestIsOnItsWay
<1> QED
  BY <1>1, Invariance, PTL

\* With nothing of a question outstanding student_answers has its newest answer, unless
\* answers to it overtook each other or an event was given up.
THEOREM TableCatchesUp == SafetySpec => []SettledIsNewest
<1>1. IInv => SettledIsNewest
  <2>1. ASSUME IInv, NEW q \in Questions \ raced, Outstanding(q) = {}, row[q] # entered[q]
        PROVE  FALSE
    <3>1. NewestOnly(q)
      BY <2>1 DEF IInv, OneOutstanding
    <3>2. entered[q] \in Numbers
      BY <2>1, RowBehind DEF IInv
    <3> QED
      BY <2>1, <3>1, <3>2, InOutstanding DEF NewestOnly
  <2> QED
    BY <2>1 DEF SettledIsNewest
<1> QED
  BY <1>1, Invariance, PTL
=============================================================================
