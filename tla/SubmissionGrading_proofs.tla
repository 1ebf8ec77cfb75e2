---------------------- MODULE SubmissionGrading_proofs ----------------------
(***************************************************************************)
(* Proofs about SubmissionGrading for any requests, graders, questions and *)
(* bounds.  Three arguments share one inductive invariant.  Numbering: the *)
(* numbers up to any counter a request has seen are taken.  Races: without *)
(* one, the only submit in flight has seen the counter as it is.  Scores:  *)
(* only recorded attempts are ever pending, handed out or scored, and two  *)
(* graders of one attempt make it doubtful.                                *)
(***************************************************************************)
EXTENDS SubmissionGrading, FiniteSetTheorems, TLAPS

\* A grader that is not idle has an attempt, and retries left until it gives up.
Handed ==
  \A g \in Graders :
    /\ phase[g] = "idle" <=> job[g] = None
    /\ phase[g] # "ack" => tries[g] < MaxRetries

\* Only submits get past the row, only scans carry answers, and an attempt is
\* recorded exactly once.
Staged ==
  /\ \A r \in Requests : stage[r] \in {"answers", "attempt", "emit"} => r \in Submits
  /\ \A r \in Submits :
       /\ stage[r] \in {"new", "insert", "answers", "attempt"} => number[r] = 0
       /\ stage[r] = "emit" => number[r] > 0
  /\ \A r \in Requests : todo[r] # {} => r \in Scans

\* The numbers up to n are numbers of attempts.
Taken(f, n) == \A m \in 1 .. n : \E r \in Submits : f[r] = m

Gapless ==
  /\ Taken(number, attempts)
  /\ \A r \in Submits : Taken(number, number[r])
  /\ \A r \in Requests : Taken(number, seen[r].attempts)

Raceless ==
  ~raced =>
    /\ \A r \in InFlight : seen[r].attempts = attempts
    /\ \A r, s \in InFlight : r = s
    /\ IsFiniteSet(Recorded)
    /\ attempts = Cardinality(Recorded)
    /\ \A r \in Recorded : number[r] <= attempts
    /\ \A r, s \in Recorded : number[r] = number[s] => r = s

\* Nothing but recorded attempts reaches the graders.
OnlyRecorded ==
  /\ pending \cup scored \subseteq Recorded
  /\ \A g \in Graders : job[g] \in Recorded \cup {None}
  /\ Questions = {} => scored = {}

Doubts ==
  /\ \A g, h \in Graders : (g # h /\ job[g] # None /\ job[g] = job[h]) => job[g] \in doubtful
  /\ \A g \in Graders :
       (phase[g] \in {"load", "grading"} /\ job[g] \in scored) => job[g] \in doubtful

IInv ==
  /\ TypeOK
  /\ Handed
  /\ Staged
  /\ Gapless
  /\ Raceless
  /\ OnlyRecorded
  /\ Doubts
  /\ AllScoredIsGraded

\* The disjuncts of Next, by who acts.
RequestStep(r) ==
  \/ Lookup(r) \/ InsertRow(r) \/ (\E q \in Questions : StoreAnswer(r, q))
  \/ Abort(r) \/ Refuse(r) \/ RecordAttempt(r) \/ Emit(r)

GraderStep(g) == (\E r \in Submits : Deliver(g, r)) \/ Run(g) \/ Crash(g)

-----------------------------------------------------------------------------
LEMMA Identities ==
  /\ Submits \subseteq Requests
  /\ Scans \subseteq Submits
  /\ None \notin Requests
  /\ Requests \cap Graders = {}
BY SubmissionAssumption DEF Requests, Submits

LEMMA InitIInv == Init => IInv
<1> SUFFICES ASSUME Init PROVE IInv
  OBVIOUS
<1> USE SubmissionAssumption, Identities DEF Init
<1>1. TypeOK
  <2>1. seen \in [Requests -> [attempts : 0 .. limit, status : Statuses]]
    BY DEF Unseen, Statuses
  <2>2. sheet \in Sheets /\ read \in [Graders -> Sheets]
    BY DEF Sheets, Blank
  <2>3. stage \in [Requests -> Stages] /\ phase \in [Graders -> Phases]
    BY DEF Stages, Phases
  <2>4. tries \in [Graders -> 0 .. MaxRetries] /\ status \in Statuses \ {"grading_in_progress"}
    BY DEF Statuses
  <2>5. number \in [Submits -> 0 .. limit] /\ todo \in [Requests -> SUBSET Questions]
    OBVIOUS
  <2>6. job \in [Graders -> Submits \cup {None}]
    OBVIOUS
  <2>7. attempts \in 0 .. limit /\ faults \in 0 .. MaxFaults
    OBVIOUS
  <2>8. exists \in BOOLEAN /\ raced \in BOOLEAN
    OBVIOUS
  <2>9. /\ limit \in 1 .. MaxAttempts
        /\ latest \in Submits \cup {None}
        /\ lock \in Requests \cup Graders \cup {None}
        /\ scored \subseteq Submits /\ pending \subseteq Submits
        /\ abandoned \subseteq Submits /\ doubtful \subseteq Submits
    OBVIOUS
  <2> QED
    BY ONLY <2>1, <2>2, <2>3, <2>4, <2>5, <2>6, <2>7, <2>8, <2>9 DEF TypeOK
<1>2. Recorded = {} /\ InFlight = {}
  BY DEF Recorded, InFlight
<1>3. Handed /\ Doubts
  BY DEF Handed, Doubts
<1>4. Staged /\ OnlyRecorded /\ AllScoredIsGraded
  BY <1>2 DEF Staged, OnlyRecorded, AllScoredIsGraded
<1>5. Gapless
  BY DEF Gapless, Taken, Unseen
<1>6. Raceless
  BY <1>2, FS_EmptySet DEF Raceless
<1> QED
  BY <1>1, <1>3, <1>4, <1>5, <1>6 DEF IInv

-----------------------------------------------------------------------------
\* Types.

LEMMA RequestTyping ==
  ASSUME IInv, NEW r \in Requests, RequestStep(r)
  PROVE  TypeOK'
<1> USE SubmissionAssumption, Identities DEF IInv, TypeOK, rows, requests, graders, history
<1>1. CASE Lookup(r)
  <2>1. PICK answered \in IF r \in Scans THEN SUBSET Questions ELSE {{}} :
          /\ todo' = [todo EXCEPT ![r] = answered]
          /\ stage' = [stage EXCEPT ![r] =
               IF \/ r \in Submits /\ ~ExamQueryLoads
                  \/ r \in Scans /\ Questions = {}
               THEN "failed"
               ELSE IF exists THEN AfterRow(r, answered) ELSE "insert"]
    BY <1>1 DEF Lookup
  <2>2. stage' \in [Requests -> Stages] /\ todo' \in [Requests -> SUBSET Questions]
    BY <2>1 DEF AfterRow, Stages
  <2>3. seen' \in [Requests -> [attempts : 0 .. limit, status : Statuses]]
    BY <1>1 DEF Lookup
  <2> QED
    BY <1>1, <2>2, <2>3 DEF Lookup
<1>2. CASE InsertRow(r)
  <2>1. exists' \in BOOLEAN
    <3>1. CASE exists
      BY <1>2, <3>1 DEF InsertRow
    <3>2. CASE ~exists
      <4>1. exists' = (r \in Starts)
        BY <1>2, <3>2 DEF InsertRow
      <4> QED
        BY <4>1
    <3> QED
      BY <3>1, <3>2
  <2>2. stage' \in [Requests -> Stages]
    BY <1>2 DEF InsertRow, AfterRow, Stages
  <2>3. lock' \in Requests \cup Graders \cup {None}
    BY <1>2 DEF InsertRow
  <2> QED
    BY <1>2, <2>1, <2>2, <2>3 DEF InsertRow
<1>3. ASSUME NEW q \in Questions, StoreAnswer(r, q) PROVE TypeOK'
  <2>1. r \in Scans
    BY <1>3 DEF StoreAnswer, Staged
  <2>2. sheet' \in Sheets
    <3>1. sheet' = [sheet EXCEPT ![q] = r] \/ sheet' = sheet
      BY <1>3 DEF StoreAnswer
    <3> QED
      BY <2>1, <3>1 DEF Sheets
  <2>3. stage' \in [Requests -> Stages]
    BY <1>3 DEF StoreAnswer, Stages
  <2>4. todo' \in [Requests -> SUBSET Questions]
    BY <1>3 DEF StoreAnswer
  <2>5. exists' \in BOOLEAN
    BY <1>3 DEF StoreAnswer
  <2> QED
    BY <1>3, <2>2, <2>3, <2>4, <2>5 DEF StoreAnswer, Unlock
<1>4. ASSUME NEW outcome \in {"failed", "emit"}, Close(r, outcome)
      PROVE  /\ stage' \in [Requests -> Stages]
             /\ seen' \in [Requests -> [attempts : 0 .. limit, status : Statuses]]
             /\ todo' \in [Requests -> SUBSET Questions]
  BY <1>4 DEF Close, Unseen, Stages, Statuses
<1>5. CASE Abort(r)
  BY <1>4, <1>5 DEF Abort, Unlock
<1>6. CASE Refuse(r)
  BY <1>4, <1>6 DEF Refuse, Unlock
<1>7. CASE RecordAttempt(r)
  <2>1. r \in Submits /\ NextNumber(r) \in 0 .. limit
    BY <1>7 DEF RecordAttempt, Staged, AtLimit, NextNumber
  <2>2. number' \in [Submits -> 0 .. limit]
    BY <1>7, <2>1 DEF RecordAttempt
  <2>3. status' \in Statuses \ {"grading_in_progress"}
    BY <1>7 DEF RecordAttempt, Statuses
  <2> QED
    BY <1>4, <1>7, <2>1, <2>2, <2>3 DEF RecordAttempt
<1>8. CASE Emit(r)
  <2>1. r \in Submits
    BY <1>8 DEF Emit, Staged
  <2> QED
    BY <1>8, <2>1 DEF Emit, Stages
<1> QED
  BY <1>1, <1>2, <1>3, <1>5, <1>6, <1>7, <1>8 DEF RequestStep

LEMMA IdleTyping ==
  ASSUME TypeOK, NEW g \in Graders, Idle(g)
  PROVE  /\ phase' \in [Graders -> Phases]
         /\ job' \in [Graders -> Submits \cup {None}]
         /\ read' \in [Graders -> Sheets]
         /\ tries' \in [Graders -> 0 .. MaxRetries]
BY SubmissionAssumption DEF TypeOK, Idle, Phases, Blank, Sheets

LEMMA GraderTyping ==
  ASSUME IInv, NEW g \in Graders, GraderStep(g)
  PROVE  TypeOK'
<1> USE SubmissionAssumption, Identities DEF IInv, TypeOK, rows, requests, graders, history
<1>1. phase[g] # "idle" => job[g] \in Submits
  BY DEF Handed
<1>2. ASSUME NEW r \in Submits, Deliver(g, r) PROVE TypeOK'
  BY <1>2 DEF Deliver, Phases
<1>3. CASE Check(g)
  BY <1>1, <1>3 DEF Check, Phases
<1>4. CASE Load(g)
  BY <1>4 DEF Load, Phases
<1>5. CASE Score(g)
  BY <1>1, <1>5 DEF Score, Phases, Statuses, StatusWhenScored, Unlock
<1>6. CASE PersistGrades(g)
  BY <1>6 DEF PersistGrades, Phases
<1>7. CASE GradingFails(g)
  <2>1. job[g] \in Submits /\ tries[g] + 1 \in 0 .. MaxRetries
    BY <1>1, <1>7 DEF GradingFails, Handed
  <2>2. /\ read' \in [Graders -> Sheets]
        /\ tries' \in [Graders -> 0 .. MaxRetries]
    BY <1>7, <2>1 DEF GradingFails, Blank, Sheets
  <2>3. phase' \in [Graders -> Phases] /\ abandoned' \subseteq Submits
    BY <1>7, <2>1 DEF GradingFails, Phases
  <2> QED
    BY <1>7, <2>2, <2>3 DEF GradingFails, Unlock
<1>8. CASE Acknowledge(g)
  BY <1>8, IdleTyping DEF Acknowledge
<1>9. CASE Crash(g)
  BY <1>9, IdleTyping DEF Crash, Unlock
<1> QED
  BY <1>2, <1>3, <1>4, <1>5, <1>6, <1>7, <1>8, <1>9 DEF GraderStep, Run

-----------------------------------------------------------------------------
\* What the two kinds of steps leave alone.

LEMMA RequestFrame ==
  ASSUME NEW r \in Requests, RequestStep(r)
  PROVE  UNCHANGED <<graders, scored, latest, doubtful>>
BY DEF RequestStep, Lookup, InsertRow, StoreAnswer, Abort, Refuse, RecordAttempt, Emit,
       rows, graders, history

LEMMA GraderFrame ==
  ASSUME NEW g \in Graders, GraderStep(g)
  PROVE  UNCHANGED <<limit, attempts, number, requests, raced>>
BY DEF GraderStep, Run, Deliver, Check, Load, Score, PersistGrades, GradingFails, Acknowledge,
       Crash, rows, requests, history

-----------------------------------------------------------------------------
\* Stages, numbers and races: the steps of requests.

LEMMA HandedStep == ASSUME IInv, NEW g \in Graders, GraderStep(g) PROVE Handed'
<1> USE SubmissionAssumption, Identities DEF IInv, Handed, TypeOK
<1>1. ASSUME NEW r \in Submits, Deliver(g, r) PROVE Handed'
  BY <1>1 DEF Deliver
<1>2. CASE Check(g)
  BY <1>2 DEF Check
<1>3. CASE Load(g)
  BY <1>3 DEF Load
<1>4. CASE Score(g)
  BY <1>4 DEF Score
<1>5. CASE PersistGrades(g)
  BY <1>5 DEF PersistGrades
<1>6. CASE GradingFails(g)
  BY <1>6 DEF GradingFails
<1>7. CASE Acknowledge(g)
  BY <1>7 DEF Acknowledge, Idle
<1>8. CASE Crash(g)
  BY <1>8 DEF Crash, Idle
<1> QED
  BY <1>1, <1>2, <1>3, <1>4, <1>5, <1>6, <1>7, <1>8 DEF GraderStep, Run

LEMMA StagedStep == ASSUME IInv, NEW r \in Requests, RequestStep(r) PROVE Staged'
<1> USE SubmissionAssumption, Identities DEF IInv, Staged, TypeOK, rows
<1>1. CASE Lookup(r)
  BY <1>1 DEF Lookup, AfterRow, Requests
<1>2. CASE InsertRow(r)
  BY <1>2 DEF InsertRow, AfterRow, Requests
<1>3. ASSUME NEW q \in Questions, StoreAnswer(r, q) PROVE Staged'
  BY <1>3 DEF StoreAnswer
<1>4. CASE Abort(r)
  BY <1>4 DEF Abort, Close
<1>5. CASE Refuse(r)
  BY <1>5 DEF Refuse, Close
<1>6. CASE RecordAttempt(r)
  BY <1>6 DEF RecordAttempt, Close, NextNumber
<1>7. CASE Emit(r)
  BY <1>7 DEF Emit, requests
<1> QED
  BY <1>1, <1>2, <1>3, <1>4, <1>5, <1>6, <1>7 DEF RequestStep

LEMMA GaplessStep == ASSUME IInv, NEW r \in Requests, RequestStep(r) PROVE Gapless'
<1> USE SubmissionAssumption, Identities DEF IInv, TypeOK, rows
<1>1. ASSUME UNCHANGED <<attempts, number>>,
             \A s \in Requests : seen'[s].attempts \in {seen[s].attempts, attempts, 0}
      PROVE  Gapless'
  BY <1>1 DEF Gapless, Taken
<1>2. CASE Lookup(r)
  <2>1. \A s \in Requests : seen'[s].attempts \in {seen[s].attempts, attempts, 0}
    BY <1>2 DEF Lookup
  <2> QED
    BY <1>1, <1>2, <2>1 DEF Lookup
<1>3. CASE InsertRow(r) \/ (\E q \in Questions : StoreAnswer(r, q)) \/ Emit(r)
  BY <1>1, <1>3 DEF InsertRow, StoreAnswer, Emit
<1>4. CASE Abort(r) \/ Refuse(r)
  <2>1. \A s \in Requests : seen'[s].attempts \in {seen[s].attempts, attempts, 0}
    BY <1>4 DEF Abort, Refuse, Close, Unseen
  <2> QED
    BY <1>1, <1>4, <2>1 DEF Abort, Refuse
<1>5. CASE RecordAttempt(r)
  <2> DEFINE n == seen[r].attempts
  <2>1. /\ r \in Submits
        /\ number[r] = 0
        /\ number' = [number EXCEPT ![r] = n + 1]
        /\ attempts' = n + 1
        /\ n \in Nat
    BY <1>5 DEF RecordAttempt, NextNumber, Staged
  <2>2. number'[r] = n + 1 /\ \A s \in Submits : s # r => number'[s] = number[s]
    BY <2>1
  <2>3. ASSUME NEW k \in Nat, Taken(number, k) PROVE Taken(number', k)
    <3>1. ASSUME NEW m \in 1 .. k PROVE \E s \in Submits : number'[s] = m
      <4>1. PICK s \in Submits : number[s] = m
        BY <2>3 DEF Taken
      <4>2. s # r
        BY <2>1, <4>1
      <4> QED
        BY <2>2, <4>1, <4>2
    <3> QED
      BY <3>1 DEF Taken
  <2>4. Taken(number', n + 1)
    <3>1. Taken(number', n)
      BY <2>1, <2>3 DEF Gapless
    <3>2. \A m \in 1 .. n + 1 : m \in 1 .. n \/ m = n + 1
      BY <2>1
    <3>3. ASSUME NEW m \in 1 .. n + 1 PROVE \E s \in Submits : number'[s] = m
      <4>1. CASE m \in 1 .. n
        BY <3>1, <4>1 DEF Taken
      <4>2. CASE m = n + 1
        BY <2>1, <2>2, <4>2
      <4> QED
        BY <3>2, <4>1, <4>2
    <3> QED
      BY <3>3 DEF Taken
  <2>5. \A s \in Submits : Taken(number', number'[s])
    BY <2>2, <2>3, <2>4 DEF Gapless
  <2>6. ASSUME NEW s \in Requests PROVE Taken(number', seen'[s].attempts)
    <3>1. seen'[s].attempts \in {seen[s].attempts, 0}
      BY <1>5 DEF RecordAttempt, Close, Unseen
    <3>2. seen[s].attempts \in Nat /\ Taken(number, seen[s].attempts)
      BY DEF Gapless
    <3>3. Taken(number', 0)
      BY DEF Taken
    <3> QED
      BY <2>3, <3>1, <3>2, <3>3
  <2> QED
    BY <2>1, <2>4, <2>5, <2>6 DEF Gapless
<1> QED
  BY <1>2, <1>3, <1>4, <1>5 DEF RequestStep

LEMMA RacelessStep == ASSUME IInv, NEW r \in Requests, RequestStep(r) PROVE Raceless'
<1> USE SubmissionAssumption, Identities DEF IInv, TypeOK, rows
<1>1. ASSUME UNCHANGED <<attempts, number, raced>>,
             InFlight' \subseteq InFlight,
             \A s \in InFlight' : seen'[s] = seen[s]
      PROVE  Raceless'
  <2>1. UNCHANGED Recorded
    BY <1>1 DEF Recorded
  <2> QED
    BY <1>1, <2>1 DEF Raceless, Recorded
<1>2. CASE Lookup(r)
  <2>1. \A s \in Submits : s # r => stage'[s] = stage[s] /\ seen'[s] = seen[s]
    BY <1>2 DEF Lookup
  <2>2. UNCHANGED <<attempts, number, Recorded>>
    BY <1>2 DEF Lookup, Recorded
  <2>3. CASE r \in Submits
    <3>1. SUFFICES ASSUME ~raced' PROVE Raceless'
      BY DEF Raceless
    <3>2. ~raced /\ InFlight = {}
      BY <1>2, <2>3, <3>1 DEF Lookup
    <3>3. InFlight' \subseteq {r}
      BY <2>1, <3>2 DEF InFlight
    <3>4. seen'[r].attempts = attempts
      BY <1>2 DEF Lookup
    <3> QED
      BY <2>2, <3>2, <3>3, <3>4 DEF Raceless
  <2>4. CASE r \notin Submits
    <3>1. InFlight' = InFlight /\ \A s \in InFlight' : seen'[s] = seen[s]
      BY <2>1, <2>4 DEF InFlight
    <3>2. UNCHANGED raced
      <4>1. raced' = (raced \/ (r \in Submits /\ InFlight # {}))
        BY <1>2 DEF Lookup
      <4> QED
        BY <2>4, <4>1
    <3> QED
      BY <1>1, <2>2, <3>1, <3>2
  <2> QED
    BY <2>3, <2>4
<1>3. CASE InsertRow(r) \/ (\E q \in Questions : StoreAnswer(r, q)) \/ Emit(r)
  <2>1. InFlight' \subseteq InFlight
    BY <1>3 DEF InFlight, InsertRow, StoreAnswer, Emit
  <2>2. UNCHANGED <<attempts, number, raced, seen>>
    BY <1>3 DEF InsertRow, StoreAnswer, Emit, history
  <2> QED
    BY <1>1, <2>1, <2>2
<1>4. CASE Abort(r) \/ Refuse(r)
  <2>1. InFlight' \subseteq InFlight /\ r \notin InFlight'
    BY <1>4 DEF InFlight, Abort, Refuse, Close
  <2>2. \A s \in InFlight' : seen'[s] = seen[s]
    BY <1>4, <2>1 DEF InFlight, Abort, Refuse, Close
  <2>3. UNCHANGED <<attempts, number, raced>>
    BY <1>4 DEF Abort, Refuse, history
  <2> QED
    BY <1>1, <2>1, <2>2, <2>3
<1>5. CASE RecordAttempt(r)
  <2>1. SUFFICES ASSUME ~raced' PROVE Raceless'
    BY DEF Raceless
  <2>2. ~raced
    BY <1>5, <2>1 DEF RecordAttempt, history
  <2>3. r \in InFlight /\ number[r] = 0 /\ r \notin Recorded
    BY <1>5 DEF RecordAttempt, Staged, InFlight, Recorded
  <2>4. InFlight = {r} /\ seen[r].attempts = attempts
    BY <2>2, <2>3 DEF Raceless
  <2>5. attempts' = attempts + 1 /\ number' = [number EXCEPT ![r] = attempts + 1]
    BY <1>5, <2>4 DEF RecordAttempt, NextNumber
  <2>6. InFlight' = {}
    BY <1>5, <2>4 DEF InFlight, RecordAttempt, Close
  <2>7. Recorded' = Recorded \cup {r}
    BY <2>3, <2>5 DEF Recorded, InFlight
  <2>8. IsFiniteSet(Recorded') /\ Cardinality(Recorded') = Cardinality(Recorded) + 1
    BY <2>2, <2>3, <2>7, FS_AddElement DEF Raceless
  <2>9. attempts' = Cardinality(Recorded')
    BY <2>2, <2>5, <2>8 DEF Raceless
  <2>10. number'[r] = attempts + 1 /\ \A s \in Recorded : number'[s] = number[s]
    BY <2>3, <2>5 DEF InFlight, Recorded
  <2>11. \A s \in Recorded : number[s] \in Nat /\ number[s] <= attempts
    BY <2>2 DEF Raceless, Recorded
  <2>12. \A s \in Recorded' : number'[s] <= attempts'
    BY <2>5, <2>7, <2>10, <2>11
  <2>13. \A s, t \in Recorded' : number'[s] = number'[t] => s = t
    BY <2>2, <2>7, <2>10, <2>11 DEF Raceless
  <2> QED
    BY <2>6, <2>8, <2>9, <2>12, <2>13 DEF Raceless
<1> QED
  BY <1>2, <1>3, <1>4, <1>5 DEF RequestStep

-----------------------------------------------------------------------------
\* Scores and deliveries.

LEMMA RequestRecorded ==
  ASSUME IInv, NEW r \in Requests, RequestStep(r)
  PROVE  OnlyRecorded' /\ AllScoredIsGraded'
<1> USE SubmissionAssumption, Identities DEF IInv, TypeOK, rows
<1>1. UNCHANGED <<job, scored, latest>>
  BY RequestFrame DEF graders
<1>2. CASE RecordAttempt(r)
  <2>1. /\ r \in Submits
        /\ number[r] = 0
        /\ number' = [number EXCEPT ![r] = seen[r].attempts + 1]
        /\ seen[r].attempts \in Nat
        /\ pending' = pending
    BY <1>2 DEF RecordAttempt, NextNumber, Staged
  <2>2. Recorded' = Recorded \cup {r}
    BY <2>1 DEF Recorded
  <2>3. r \notin scored
    BY <2>1 DEF OnlyRecorded, Recorded
  <2> QED
    BY <1>1, <2>1, <2>2, <2>3 DEF OnlyRecorded, AllScoredIsGraded
<1>3. CASE Emit(r)
  <2>1. r \in Recorded
    BY <1>3 DEF Emit, Staged, Recorded
  <2>2. UNCHANGED <<Recorded, status>> /\ pending' \subseteq pending \cup {r}
    BY <1>3 DEF Emit, Recorded
  <2> QED
    BY <1>1, <2>1, <2>2 DEF OnlyRecorded, AllScoredIsGraded
<1>4. CASE Lookup(r) \/ InsertRow(r) \/ (\E q \in Questions : StoreAnswer(r, q))
           \/ Abort(r) \/ Refuse(r)
  <2>1. UNCHANGED <<number, status, pending>>
    BY <1>4 DEF Lookup, InsertRow, StoreAnswer, Abort, Refuse
  <2> QED
    BY <1>1, <2>1 DEF OnlyRecorded, AllScoredIsGraded, Recorded
<1> QED
  BY <1>2, <1>3, <1>4 DEF RequestStep

LEMMA GraderRecorded ==
  ASSUME IInv, NEW g \in Graders, GraderStep(g)
  PROVE  OnlyRecorded' /\ AllScoredIsGraded'
<1> USE SubmissionAssumption, Identities DEF IInv, TypeOK, rows
<1>1. UNCHANGED Recorded
  BY GraderFrame DEF Recorded
<1>2. ASSUME NEW r \in Submits, Deliver(g, r) PROVE OnlyRecorded' /\ AllScoredIsGraded'
  BY <1>1, <1>2 DEF Deliver, OnlyRecorded, AllScoredIsGraded
<1>3. CASE Score(g)
  <2>1. job[g] \in Recorded
    BY <1>3 DEF Score, Handed, OnlyRecorded
  <2>2. CASE Questions = {}
    <3>1. scored' = {} /\ UNCHANGED <<job, pending>>
      BY <1>3, <2>2 DEF Score, OnlyRecorded
    <3> QED
      BY <1>1, <3>1 DEF OnlyRecorded, AllScoredIsGraded
  <2>3. CASE Questions # {}
    <3>1. /\ scored' = scored \cup {job[g]}
          /\ latest' = job[g]
          /\ status' = "graded"
          /\ UNCHANGED <<job, pending>>
      BY <1>3, <2>3 DEF Score, StatusWhenScored
    <3> QED
      BY <1>1, <2>1, <2>3, <3>1 DEF OnlyRecorded, AllScoredIsGraded
  <2> QED
    BY <2>2, <2>3
<1>4. CASE Check(g) \/ Load(g) \/ PersistGrades(g) \/ GradingFails(g)
  <2>1. UNCHANGED <<status, latest, scored, job, pending>>
    BY <1>4 DEF Check, Load, PersistGrades, GradingFails
  <2> QED
    BY <1>1, <2>1 DEF OnlyRecorded, AllScoredIsGraded
<1>5. CASE Acknowledge(g) \/ Crash(g)
  <2>1. /\ UNCHANGED <<status, latest, scored>>
        /\ pending' \subseteq pending
        /\ job' = [job EXCEPT ![g] = None]
    BY <1>5 DEF Acknowledge, Crash, Idle
  <2> QED
    BY <1>1, <2>1 DEF OnlyRecorded, AllScoredIsGraded
<1> QED
  BY <1>2, <1>3, <1>4, <1>5 DEF GraderStep, Run

LEMMA DoubtsStep == ASSUME IInv, NEW g \in Graders, GraderStep(g) PROVE Doubts'
<1> USE SubmissionAssumption, Identities DEF IInv, TypeOK, rows
<1>1. phase[g] # "idle" => job[g] \in Submits
  BY DEF Handed
<1>2. ASSUME NEW r \in Submits, Deliver(g, r) PROVE Doubts'
  <2>1. CASE \A h \in Graders : job[h] # r
    BY <1>2, <2>1 DEF Deliver, Doubts
  <2>2. CASE \E h \in Graders : job[h] = r
    <3>1. doubtful' = doubtful \cup {r} /\ UNCHANGED scored
      BY <1>2, <2>2 DEF Deliver
    <3>2. phase' = [phase EXCEPT ![g] = "check"] /\ job' = [job EXCEPT ![g] = r]
      BY <1>2 DEF Deliver
    <3> QED
      BY <3>1, <3>2 DEF Doubts
  <2> QED
    BY <2>1, <2>2
<1>3. CASE Check(g)
  <2>1. UNCHANGED <<job, scored>> /\ doubtful \subseteq doubtful'
    BY <1>3 DEF Check
  <2>2. \A h \in Graders : h # g => phase'[h] = phase[h]
    BY <1>3 DEF Check
  <2>3. phase'[g] = "load" => job[g] \notin scored \/ job[g] \in doubtful'
    BY <1>3 DEF Check, AlreadyGraded
  <2>4. phase'[g] \in {"load", "ack"}
    BY <1>3 DEF Check
  <2> QED
    BY <2>1, <2>2, <2>3, <2>4 DEF Doubts
<1>4. CASE Load(g)
  <2>1. UNCHANGED <<job, doubtful, scored>>
    BY <1>4 DEF Load, history
  <2>2. phase[g] = "load" /\ phase' = [phase EXCEPT ![g] = "grading"]
    BY <1>4 DEF Load
  <2> QED
    BY <2>1, <2>2 DEF Doubts
<1>5. CASE Score(g)
  <2>1. UNCHANGED <<job, doubtful>> /\ scored' \subseteq scored \cup {job[g]}
    BY <1>5 DEF Score, history
  <2>2. phase' = [phase EXCEPT ![g] = "persist"]
    BY <1>5 DEF Score
  <2>3. \A h \in Graders : h # g /\ job[h] = job[g] => job[h] \in doubtful
    BY <1>1, <1>5 DEF Score, Doubts
  <2> QED
    BY <2>1, <2>2, <2>3 DEF Doubts
<1>6. CASE PersistGrades(g)
  BY <1>6 DEF PersistGrades, Doubts, history
<1>7. CASE GradingFails(g)
  <2>1. UNCHANGED <<job, doubtful, scored>>
    BY <1>7 DEF GradingFails
  <2>2. /\ \A h \in Graders : h # g => phase'[h] = phase[h]
        /\ phase'[g] \in {"check", "ack"}
    BY <1>7 DEF GradingFails
  <2> QED
    BY <2>1, <2>2 DEF Doubts
<1>8. CASE Acknowledge(g) \/ Crash(g)
  <2>1. UNCHANGED <<doubtful, scored>>
    BY <1>8 DEF Acknowledge, Crash, history
  <2>2. phase' = [phase EXCEPT ![g] = "idle"] /\ job' = [job EXCEPT ![g] = None]
    BY <1>8 DEF Acknowledge, Crash, Idle
  <2> QED
    BY <2>1, <2>2 DEF Doubts
<1> QED
  BY <1>2, <1>3, <1>4, <1>5, <1>6, <1>7, <1>8 DEF GraderStep, Run

-----------------------------------------------------------------------------
\* The invariant.

LEMMA NextIInv == IInv /\ [Next]_vars => IInv'
<1> SUFFICES ASSUME IInv, [Next]_vars PROVE IInv'
  OBVIOUS
<1>1. ASSUME NEW r \in Requests, RequestStep(r) PROVE IInv'
  <2>1. UNCHANGED <<phase, job, read, tries, scored, doubtful>>
    BY <1>1, RequestFrame DEF graders
  <2>2. Handed' /\ Doubts'
    BY <2>1 DEF IInv, Handed, Doubts
  <2> QED
    BY <1>1, <2>2, RequestTyping, StagedStep, GaplessStep, RacelessStep, RequestRecorded
       DEF IInv
<1>2. ASSUME NEW g \in Graders, GraderStep(g) PROVE IInv'
  <2>1. UNCHANGED <<attempts, number, stage, seen, todo, raced>>
    BY <1>2, GraderFrame DEF requests
  <2>2. UNCHANGED <<Recorded, InFlight>>
    BY <2>1 DEF Recorded, InFlight
  <2>3. Staged' /\ Gapless' /\ Raceless'
    BY <2>1, <2>2 DEF IInv, Staged, Gapless, Taken, Raceless
  <2> QED
    BY <1>2, <2>3, GraderTyping, HandedStep, DoubtsStep, GraderRecorded DEF IInv
<1>3. CASE UNCHANGED vars
  <2> USE <1>3 DEF vars, rows, requests, graders, history
  <2>1. TypeOK'
    BY DEF IInv, TypeOK
  <2>2. Handed' /\ Staged' /\ Doubts'
    BY DEF IInv, Handed, Staged, Doubts
  <2>3. UNCHANGED <<Recorded, InFlight>>
    BY DEF Recorded, InFlight
  <2>4. Gapless' /\ Raceless' /\ OnlyRecorded' /\ AllScoredIsGraded'
    BY <2>3 DEF IInv, Gapless, Taken, Raceless, OnlyRecorded, AllScoredIsGraded
  <2> QED
    BY <2>1, <2>2, <2>4 DEF IInv
<1>4. ASSUME Next PROVE (\E r \in Requests : RequestStep(r)) \/ (\E g \in Graders : GraderStep(g))
  BY <1>4 DEF Next, RequestStep, GraderStep, Run
<1> QED
  BY <1>1, <1>2, <1>3, <1>4

LEMMA Invariance == Spec => []IInv
<1>1. Spec => SafetySpec
  BY DEF Spec
<1> QED
  BY <1>1, InitIInv, NextIInv, PTL DEF SafetySpec

\* Every variable keeps its type: in particular the committed row never says
\* grading_in_progress, and no counter passes the limit of the exam, although
\* each request tests and increments a copy.
THEOREM Types == Spec => []TypeOK
<1>1. IInv => TypeOK
  BY DEF IInv
<1> QED
  BY <1>1, Invariance, PTL

\* The attempts of a submission are numbered 1, 2, ... without a gap, however
\* many submits race and lose updates.
THEOREM NoGap == Spec => []NumbersHaveNoGap
<1>1. IInv => NumbersHaveNoGap
  <2> SUFFICES ASSUME IInv, NEW n \in 1 .. limit,
                      n <= attempts \/ \E r \in Submits : n <= number[r]
               PROVE  \E r \in Submits : number[r] = n
    BY DEF NumbersHaveNoGap
  <2> USE DEF IInv, TypeOK
  <2>1. CASE n <= attempts
    <3>1. n \in 1 .. attempts
      BY <2>1, SubmissionAssumption
    <3> QED
      BY <3>1 DEF Gapless, Taken
  <2>2. ASSUME NEW r \in Submits, n <= number[r] PROVE \E s \in Submits : number[s] = n
    <3>1. n \in 1 .. number[r]
      BY <2>2, SubmissionAssumption
    <3> QED
      BY <3>1 DEF Gapless, Taken
  <2> QED
    BY <2>1, <2>2
<1> QED
  BY <1>1, Invariance, PTL

\* As long as no two submits overlapped, the counter is the number of attempts and
\* their numbers differ, whatever the workers did in between.
THEOREM NumbersWithoutRaces == Spec => []RacelessNumbering
<1>1. IInv => RacelessNumbering
  BY DEF IInv, Raceless, RacelessNumbering
<1> QED
  BY <1>1, Invariance, PTL

\* A submission whose attempts are all scored is graded, whatever crashed, was
\* redelivered or ran twice.
THEOREM ScoredIsGraded == Spec => []AllScoredIsGraded
<1>1. IInv => AllScoredIsGraded
  BY DEF IInv
<1> QED
  BY <1>1, Invariance, PTL

\* Only an attempt that two workers had at once, or whose idempotency check failed,
\* is ever scored a second time.
THEOREM NoSecondScore == Spec => ScoredOnce
<1>1. IInv => \A g \in Graders : (Score(g) /\ job[g] \in scored) => job[g] \in doubtful
  BY DEF IInv, Doubts, Score
<1> QED
  BY <1>1, Invariance, PTL DEF ScoredOnce
=============================================================================
