------------------------ MODULE ExamLifecycle_proofs ------------------------
(***************************************************************************)
(* Proofs about ExamLifecycle for any sets of workers, lecturers and       *)
(* students, any start times and durations, whether or not the forced      *)
(* attempt can be inserted, and every bound.  The argument: the clock only *)
(* advances, so what a handler has found to be due when it read the row is *)
(* still due when it writes, as long as the row has not been edited in     *)
(* between, which is what "disturbed" says.                                *)
(***************************************************************************)
EXTENDS ExamLifecycle, TLAPS

\* A status handler is about to write what the clock allows already.
TargetsAreDue ==
  \A w \in Workers :
    phase[w] = "status_write" =>
      /\ target[w] \in {"in_progress", "finished"}
      /\ "status" \notin disturbed =>
           /\ target[w] = "in_progress" => exam.start <= now
           /\ target[w] = "finished" => End(exam) <= now

\* FORCE_SUBMIT_EXAM is about to be published, waits in the topic or is being handled.
ForceUnderWay ==
  found \/ queue["force"] > 0 \/ \E w \in Workers : phase[w] \in {"force", "force_insert"}

ForceIsDue == ForceUnderWay /\ "force" \notin disturbed => End(exam) <= now

\* Students whose forced submission is inserted and not committed have none of their own,
\* and one handler each.
InsertedHaveNone ==
  /\ \A w \in Workers : \A s \in flushed[w] : submission[s] = "none"
  /\ \A v, w \in Workers : v # w => flushed[v] \cap flushed[w] = {}

IInv ==
  /\ TypeOK
  /\ TargetsAreDue
  /\ StatusNotAheadOfClock
  /\ EndKeepsDuration
  /\ ForceIsDue
  /\ InsertedHaveNone

-----------------------------------------------------------------------------
(***************************************************************************)
(* Rows and edits.                                                         *)
(***************************************************************************)

LEMMA EndIsNat == ASSUME NEW e \in Exams PROVE End(e) \in Nat /\ e.start \in Nat
<1>1. e.start \in StartTimes /\ e.duration \in Nat
  BY DEF Exams
<1>2. e.start \in Nat
  BY <1>1, ExamAssumption
<1> QED
  BY <1>1, <1>2 DEF End

\* A duration, kept to two decimals once or twice.
LEMMA RoundedNat ==
  ASSUME NEW d \in Int
  PROVE  Rounded(Rounded(d)) = Rounded(d) /\ (d \in Nat => Rounded(d) \in Nat)
<1> DEFINE hundredths == (d + 1) \div 3
<1>1. hundredths \in Int /\ (d \in Nat => hundredths \in Nat)
  OBVIOUS
<1>2. Rounded(d) = 3 * hundredths
  BY DEF Rounded
<1> HIDE DEF hundredths
<1>3. (3 * hundredths + 1) \div 3 = hundredths
  BY <1>1
<1> QED
  BY <1>1, <1>2, <1>3 DEF Rounded

LEMMA PartsAreNat == (\A h \in Hours : h \in Nat) /\ (\A m \in Minutes : m \in Nat) /\ (\A t \in StartTimes : t \in Nat)
<1>1. \A m \in 0 .. 59 : m \in Nat
  OBVIOUS
<1> QED
  BY <1>1, ExamAssumption

LEMMA LastingNat == ASSUME NEW h \in Nat, NEW m \in Nat PROVE Lasting(h, m) \in Nat
  BY DEF Lasting

\* What is written column by column is a row again, each field as it was loaded or given.
LEMMA WrittenRow ==
  ASSUME NEW new \in Exams, NEW old \in Exams, NEW row \in Exams
  PROVE  /\ Written(new, old, row) \in Exams
         /\ Written(new, old, row).start = IF new.start = old.start THEN row.start ELSE new.start
         /\ Written(new, old, row).duration =
              IF new.duration = old.duration THEN row.duration ELSE Rounded(new.duration)
         /\ Written(new, old, row).end = IF new.end = old.end THEN row.end ELSE new.end
         /\ Written(new, old, row).status = IF new.status = old.status THEN row.status ELSE new.status
<1>1. DOMAIN row = {"start", "duration", "end", "status"}
  BY DEF Exams
<1> DEFINE written == Written(new, old, row)
<1>2. written = [start    |-> IF new.start = old.start THEN row.start ELSE new.start,
                 duration |-> IF new.duration = old.duration THEN row.duration ELSE Rounded(new.duration),
                 end      |-> IF new.end = old.end THEN row.end ELSE new.end,
                 status   |-> IF new.status = old.status THEN row.status ELSE new.status]
  BY <1>1 DEF Written
<1> HIDE DEF written
<1>3. Rounded(new.duration) \in Nat
  BY RoundedNat DEF Exams
<1> QED
  BY <1>2, <1>3 DEF Exams, written

LEMMA PatchedRow ==
  ASSUME NEW p \in Patches, NEW e \in Exams
  PROVE  /\ Patched(p, e) \in Exams
         /\ Patched(p, e).end = Patched(p, e).start + Patched(p, e).duration
         /\ Patched(p, e).duration = ServiceDuration(p, e)
         /\ Patched(p, e).start = Given(p.start, e.start)
         /\ Patched(p, e).status = PatchedStatus(p, e)
<1> USE ExamAssumption
<1>1. ServiceDuration(p, e) \in Nat
  <2>1. p.hours \in Hours \cup {None} /\ p.minutes \in Minutes \cup {None}
    BY DEF Patches
  <2>2. e.duration \in Nat
    BY DEF Exams
  <2>3. e.duration \div 300 \in Nat /\ (e.duration % 300) \div 5 \in Nat
    BY <2>2
  <2>4. Given(p.hours, e.duration \div 300) \in Nat
    BY <2>1, <2>3 DEF Given
  <2>5. Given(p.minutes, (e.duration % 300) \div 5) \in Nat
    BY <2>1, <2>3, PartsAreNat DEF Given
  <2>6. Lasting(Given(p.hours, e.duration \div 300), Given(p.minutes, (e.duration % 300) \div 5)) \in Nat
    BY <2>4, <2>5, LastingNat
  <2> QED
    BY <2>2, <2>6 DEF ServiceDuration
<1>2. Given(p.start, e.start) \in StartTimes
  BY DEF Given, Patches, Exams
<1>3. Given(p.start, e.start) + ServiceDuration(p, e) \in Nat
  <2>1. Given(p.start, e.start) \in Nat
    BY <1>2
  <2> QED
    BY <1>1, <2>1
<1>4. PatchedStatus(p, e) \in Statuses
  BY DEF Given, Patches, Exams, StatusAt, Statuses, PatchedStatus
<1> QED
  BY <1>1, <1>2, <1>3, <1>4 DEF Patched, Exams

-----------------------------------------------------------------------------
LEMMA InitIInv == Init => IInv
<1> SUFFICES ASSUME Init PROVE IInv
  OBVIOUS
<1> USE ExamAssumption DEF Init
<1>1. PICK t \in StartTimes, h \in Hours, m \in Minutes :
        exam = [start |-> t, duration |-> Rounded(Lasting(h, m)), end |-> t + Lasting(h, m),
                status |-> "not_started"]
  OBVIOUS
<1>2. t \in Nat /\ Rounded(Lasting(h, m)) \in Nat /\ t + Lasting(h, m) \in Nat /\ Lasting(h, m) \in Nat
  <2>1. t \in Nat /\ h \in Nat /\ m \in Nat
    BY PartsAreNat
  <2>2. Lasting(h, m) \in Nat
    BY <2>1, LastingNat
  <2>3. t + Lasting(h, m) \in Nat
    BY <2>1, <2>2
  <2> QED
    BY <2>1, <2>2, <2>3, RoundedNat
<1>3. exam \in Exams
  BY <1>1, <1>2 DEF Exams, Statuses
<1>4. TypeOK
  <2>1. now \in Instants /\ faults \in 0 .. MaxFaults
    OBVIOUS
  <2>2. queue \in [Kinds -> 0 .. MaxQueue] /\ tries \in [Workers -> 0 .. MaxRetries]
    OBVIOUS
  <2>3. phase \in [Workers -> Phases] /\ target \in [Workers -> Statuses \cup {None}]
    BY DEF Phases
  <2> QED
    BY <1>3, <2>1, <2>2, <2>3 DEF TypeOK
<1>5. TargetsAreDue /\ ForceIsDue /\ InsertedHaveNone
  BY DEF TargetsAreDue, ForceIsDue, ForceUnderWay, InsertedHaveNone, Kinds
<1>6. StatusNotAheadOfClock
  BY <1>1 DEF StatusNotAheadOfClock
<1>7. EndKeepsDuration
  <2>1. (t + Lasting(h, m)) - t = Lasting(h, m)
    BY <1>2
  <2> QED
    BY <1>1, <2>1 DEF EndKeepsDuration
<1> QED
  BY <1>4, <1>5, <1>6, <1>7 DEF IInv

LEMMA AdvanceIInv == ASSUME IInv, Advance PROVE IInv'
<1> USE ExamAssumption DEF IInv, Advance, edits, handler, grading
<1>1. now' > now /\ now \in Nat /\ now' \in Instants /\ now' \in Nat
  BY DEF TypeOK
<1>2. exam.start \in Nat /\ exam.end \in Nat /\ End(exam) \in Nat /\ End(exam)' = End(exam)
  BY EndIsNat DEF TypeOK, End, Exams
<1>3. TypeOK'
  BY <1>1 DEF TypeOK
<1>4. TargetsAreDue'
  BY <1>1, <1>2 DEF TargetsAreDue
<1>5. StatusNotAheadOfClock' /\ ForceIsDue'
  BY <1>1, <1>2 DEF StatusNotAheadOfClock, ForceIsDue, ForceUnderWay
<1>6. EndKeepsDuration' /\ InsertedHaveNone'
  BY <1>2 DEF EndKeepsDuration, InsertedHaveNone, End
<1> QED
  BY <1>3, <1>4, <1>5, <1>6

LEMMA TickIInv ==
  ASSUME IInv, TickStatus \/ FindOver \/ PublishForce \/ PublishFails
  PROVE  IInv'
<1> USE ExamAssumption
        DEF IInv, TickStatus, FindOver, PublishForce, PublishFails, Publish, edits, handler, grading
<1>1. /\ found' \in BOOLEAN
      /\ queue' \in [Kinds -> 0 .. MaxQueue]
      /\ found' => found \/ ForceDue
      /\ queue'["force"] > 0 => queue["force"] > 0 \/ found
  <2>1. CASE TickStatus
    BY <2>1 DEF TypeOK, Kinds
  <2>2. CASE PublishForce
    <3>1. queue' \in [Kinds -> 0 .. MaxQueue]
      BY <2>2 DEF TypeOK, Kinds
    <3>2. found /\ found' = FALSE
      BY <2>2
    <3> QED
      BY <3>1, <3>2
  <2>3. CASE FindOver \/ PublishFails
    BY <2>3 DEF TypeOK
  <2> QED
    BY <2>1, <2>2, <2>3
<1>2. TypeOK'
  <2>1. faults' \in 0 .. MaxFaults
    BY DEF TypeOK
  <2> QED
    BY <1>1, <2>1 DEF TypeOK
<1>3. End(exam)' = End(exam) /\ End(exam) \in Nat /\ now \in Nat /\ now' = now /\ disturbed' = disturbed
  BY EndIsNat DEF TypeOK, End
<1>4. ForceIsDue'
  <2>1. UNCHANGED phase
    OBVIOUS
  <2> QED
    BY <1>1, <1>3, <2>1 DEF ForceIsDue, ForceUnderWay, ForceDue
<1>5. TargetsAreDue' /\ StatusNotAheadOfClock' /\ EndKeepsDuration' /\ InsertedHaveNone'
  BY <1>3 DEF TargetsAreDue, StatusNotAheadOfClock, EndKeepsDuration,
     InsertedHaveNone, End
<1> QED
  BY <1>2, <1>4, <1>5

-----------------------------------------------------------------------------
(***************************************************************************)
(* Workers.                                                                *)
(***************************************************************************)

\* A step of a worker that leaves the exam, the edits and the submissions alone: what it
\* has to show about the type, its target, its event and its inserts.
LEMMA WorkerFrame ==
  ASSUME IInv,
         UNCHANGED <<now, exam, edits, submission, disturbed>>,
         TypeOK', TargetsAreDue', ForceUnderWay' => ForceUnderWay, InsertedHaveNone'
  PROVE  IInv'
<1>1. UNCHANGED End(exam) /\ \A l \in Lecturers : UNCHANGED End(loaded[l])
  BY DEF End, edits
<1> QED
  BY <1>1 DEF IInv, StatusNotAheadOfClock, EndKeepsDuration, ForceIsDue, edits

LEMMA TakeIInv == ASSUME IInv, NEW w \in Workers, NEW kind \in Kinds, Take(w, kind) PROVE IInv'
<1> USE ExamAssumption DEF IInv, Take, edits, grading
<1>1. queue' \in [Kinds -> 0 .. MaxQueue] /\ phase' \in [Workers -> Phases]
  BY DEF TypeOK, Kinds, Phases
<1>2. TypeOK'
  BY <1>1 DEF TypeOK
<1>3. TargetsAreDue'
  BY DEF TargetsAreDue, TypeOK, Kinds, End
<1>4. ForceUnderWay' => ForceUnderWay
  BY DEF ForceUnderWay, TypeOK, Kinds
<1>5. InsertedHaveNone'
  BY DEF InsertedHaveNone
<1> QED
  BY <1>2, <1>3, <1>4, <1>5, WorkerFrame

\* A worker that has no event any more.
LEMMA RestType ==
  ASSUME TypeOK, NEW w \in Workers, Rest(w)
  PROVE  /\ phase' \in [Workers -> Phases]
         /\ target' \in [Workers -> Statuses \cup {None}]
         /\ absent' \in [Workers -> SUBSET Students]
         /\ flushed' \in [Workers -> SUBSET Students]
         /\ \A v \in Workers : flushed'[v] \subseteq absent'[v]
         /\ tries' \in [Workers -> 0 .. MaxRetries]
         /\ \A v \in Workers :
              IF v = w THEN phase'[v] = "idle" /\ flushed'[v] = {}
              ELSE phase'[v] = phase[v] /\ target'[v] = target[v] /\ flushed'[v] = flushed[v]
<1> USE ExamAssumption DEF TypeOK, Rest
<1>1. phase' \in [Workers -> Phases] /\ target' \in [Workers -> Statuses \cup {None}]
  BY DEF Phases
<1>2. /\ absent' \in [Workers -> SUBSET Students]
      /\ flushed' \in [Workers -> SUBSET Students]
      /\ \A v \in Workers : flushed'[v] \subseteq absent'[v]
  OBVIOUS
<1>3. tries' \in [Workers -> 0 .. MaxRetries]
  OBVIOUS
<1> QED
  BY <1>1, <1>2, <1>3

\* What the workers' parts of the invariant need of a worker that rests.
LEMMA RestParts ==
  ASSUME IInv, NEW w \in Workers, Rest(w), UNCHANGED <<now, disturbed>>,
         exam'.start = exam.start, exam'.duration = exam.duration,
         \A s \in Students : submission'[s] # submission[s] => s \in flushed[w],
         UNCHANGED <<found, queue>>
  PROVE  TargetsAreDue' /\ InsertedHaveNone' /\ (ForceUnderWay' => ForceUnderWay)
<1> USE ExamAssumption DEF IInv
<1>1. \A v \in Workers :
        IF v = w THEN phase'[v] = "idle" /\ flushed'[v] = {}
        ELSE phase'[v] = phase[v] /\ target'[v] = target[v] /\ flushed'[v] = flushed[v]
  BY RestType
<1>2. TargetsAreDue'
  BY <1>1 DEF TargetsAreDue, End
<1>3. InsertedHaveNone'
  BY <1>1 DEF InsertedHaveNone, TypeOK
<1>4. ForceUnderWay' => ForceUnderWay
  BY <1>1 DEF ForceUnderWay
<1> QED
  BY <1>2, <1>3, <1>4

LEMMA ReadStatusIInv == ASSUME IInv, NEW w \in Workers, ReadStatus(w) PROVE IInv'
<1> USE ExamAssumption DEF IInv, ReadStatus, edits, grading
<1>1. CASE Rest(w)
  <2>1. TypeOK'
    BY <1>1, RestType DEF TypeOK
  <2> QED
    BY <1>1, <2>1, RestParts, WorkerFrame
<1>2. CASE ~Rest(w)
  <2>1. /\ target' = [target EXCEPT ![w] = Advanced(exam)]
        /\ phase' = [phase EXCEPT ![w] = "status_write"]
        /\ Advanced(exam) # exam.status
        /\ UNCHANGED <<absent, flushed, tries>>
    BY <1>2
  <2>2. /\ Advanced(exam) \in {"in_progress", "finished"}
        /\ Advanced(exam) = "in_progress" => exam.start <= now
        /\ Advanced(exam) = "finished" => End(exam) <= now
    <3>1. exam.start \in Nat /\ End(exam) \in Nat /\ now \in Nat
      BY EndIsNat DEF TypeOK
    <3> QED
      BY <2>1, <3>1 DEF Advanced
  <2>3. phase' \in [Workers -> Phases] /\ target' \in [Workers -> Statuses \cup {None}]
    BY <2>1, <2>2 DEF TypeOK, Phases, Statuses
  <2>4. TypeOK'
    BY <2>1, <2>3 DEF TypeOK
  <2>5. TargetsAreDue'
    BY <2>1, <2>2 DEF TargetsAreDue, TypeOK, End
  <2>6. (ForceUnderWay' => ForceUnderWay) /\ InsertedHaveNone'
    BY <2>1 DEF ForceUnderWay, InsertedHaveNone, TypeOK
  <2> QED
    BY <2>4, <2>5, <2>6, WorkerFrame
<1> QED
  BY <1>1, <1>2

LEMMA WriteStatusIInv == ASSUME IInv, NEW w \in Workers, WriteStatus(w) PROVE IInv'
<1> USE ExamAssumption DEF IInv, WriteStatus, edits, grading
<1>1. target[w] \in {"in_progress", "finished"}
  BY DEF TargetsAreDue
<1>2. /\ exam' \in Exams
      /\ exam'.start = exam.start /\ exam'.duration = exam.duration /\ exam'.end = exam.end
      /\ exam'.status = target[w]
  BY <1>1 DEF TypeOK, Exams, Statuses
<1>3. End(exam)' = End(exam)
  BY <1>2 DEF End
<1>4. TypeOK'
  BY <1>2, RestType DEF TypeOK
<1>5. TargetsAreDue' /\ InsertedHaveNone' /\ (ForceUnderWay' => ForceUnderWay)
  BY <1>2, RestParts
<1>6. StatusNotAheadOfClock'
  BY <1>1, <1>2, <1>3 DEF StatusNotAheadOfClock, TargetsAreDue
<1>7. EndKeepsDuration' /\ ForceIsDue'
  BY <1>2, <1>3, <1>5 DEF EndKeepsDuration, ForceIsDue, End
<1> QED
  BY <1>4, <1>5, <1>6, <1>7

LEMMA ReadAbsentIInv == ASSUME IInv, NEW w \in Workers, ReadAbsent(w) PROVE IInv'
<1> USE ExamAssumption DEF IInv, ReadAbsent, edits, grading
<1>1. CASE Rest(w)
  <2>1. TypeOK'
    BY <1>1, RestType DEF TypeOK
  <2> QED
    BY <1>1, <2>1, RestParts, WorkerFrame
<1>2. CASE ~Rest(w)
  <2> DEFINE unsubmitted == {s \in Students : submission[s] = "none"}
  <2>1. /\ absent' = [absent EXCEPT ![w] = unsubmitted]
        /\ phase' = [phase EXCEPT ![w] = "force_insert"]
        /\ UNCHANGED <<target, flushed, tries>>
    BY <1>2
  <2>2. phase' \in [Workers -> Phases] /\ absent' \in [Workers -> SUBSET Students]
    BY <2>1 DEF TypeOK, Phases
  <2>3. flushed[w] \subseteq unsubmitted
    BY DEF InsertedHaveNone, TypeOK
  <2>4. \A v \in Workers : flushed'[v] \subseteq absent'[v]
    BY <2>1, <2>3 DEF TypeOK
  <2>5. TypeOK'
    BY <2>1, <2>2, <2>4 DEF TypeOK
  <2>6. TargetsAreDue' /\ (ForceUnderWay' => ForceUnderWay) /\ InsertedHaveNone'
    BY <2>1 DEF TargetsAreDue, ForceUnderWay, InsertedHaveNone, TypeOK, End
  <2> QED
    BY <2>5, <2>6, WorkerFrame
<1> QED
  BY <1>1, <1>2

LEMMA InsertForcedIInv ==
  ASSUME IInv, NEW w \in Workers, NEW s \in Students, InsertForced(w, s)
  PROVE  IInv'
<1> USE ExamAssumption DEF IInv, InsertForced, edits
<1>1. TypeOK'
  BY DEF TypeOK
<1>2. TargetsAreDue' /\ (ForceUnderWay' => ForceUnderWay)
  BY DEF TargetsAreDue, ForceUnderWay, End
<1>3. InsertedHaveNone'
  BY DEF InsertedHaveNone, Insertable, Locked, TypeOK
<1> QED
  BY <1>1, <1>2, <1>3, WorkerFrame

LEMMA CommitForcedIInv == ASSUME IInv, NEW w \in Workers, CommitForced(w) PROVE IInv'
<1> USE ExamAssumption DEF IInv, CommitForced, edits, grading
<1>1. /\ submission' \in [Students -> {"none", "started", "submitted", "forced"}]
      /\ \A s \in Students : submission[s] = "forced" => submission'[s] = "forced"
      /\ \A s \in Students : submission'[s] # submission[s] => s \in flushed[w]
  BY DEF TypeOK
<1>2. TypeOK'
  BY <1>1, RestType DEF TypeOK
<1>3. TargetsAreDue' /\ InsertedHaveNone' /\ (ForceUnderWay' => ForceUnderWay)
  BY <1>1, RestParts
<1>4. UNCHANGED End(exam)
  BY DEF End
<1>5. StatusNotAheadOfClock' /\ EndKeepsDuration' /\ ForceIsDue'
  BY <1>3, <1>4 DEF StatusNotAheadOfClock, EndKeepsDuration, ForceIsDue, End
<1> QED
  BY <1>2, <1>3, <1>5

\* A failed run of the handler, by the database or otherwise.
LEMMA FailedRunIInv ==
  ASSUME IInv, NEW w \in Workers, InsertFails(w) \/ HandlerFails(w)
  PROVE  IInv'
<1> USE ExamAssumption DEF IInv
<1>1. PICK kind \in Kinds :
        /\ Rerun(w, kind)
        /\ phase[w] # "idle"
        /\ kind = "force" => phase[w] \in {"force", "force_insert"}
        /\ faults' \in 0 .. MaxFaults
  <2>1. CASE InsertFails(w)
    BY <2>1 DEF InsertFails, Kinds, TypeOK
  <2>2. CASE HandlerFails(w)
    <3>1. faults' \in 0 .. MaxFaults
      BY <2>2 DEF HandlerFails, TypeOK
    <3>2. CASE phase[w] \in {"status", "status_write"}
      BY <2>2, <3>1, <3>2 DEF HandlerFails, Kinds
    <3>3. CASE phase[w] \notin {"status", "status_write"}
      <4>1. phase[w] \in {"force", "force_insert"} /\ Rerun(w, "force")
        BY <2>2, <3>3 DEF HandlerFails, TypeOK, Phases
      <4> QED
        BY <3>1, <4>1 DEF Kinds
    <3> QED
      BY <3>2, <3>3
  <2> QED
    BY <2>1, <2>2
<1>2. UNCHANGED <<now, exam, edits, found, queue, submission, graded, disturbed>>
  BY <1>1 DEF Rerun
<1>3. events' \subseteq Students /\ missed' \subseteq Students
  BY <1>1 DEF Rerun, Forget, TypeOK
<1>4. CASE Rest(w)
  <2>1. TypeOK'
    BY <1>1, <1>2, <1>3, <1>4, RestType DEF TypeOK, edits
  <2> QED
    BY <1>2, <1>4, <2>1, RestParts, WorkerFrame
<1>5. CASE ~Rest(w)
  <2>1. /\ tries[w] + 1 < MaxRetries
        /\ tries' = [tries EXCEPT ![w] = @ + 1]
        /\ phase' = [phase EXCEPT ![w] = kind]
        /\ target' = [target EXCEPT ![w] = None]
        /\ absent' = [absent EXCEPT ![w] = {}]
        /\ flushed' = [flushed EXCEPT ![w] = {}]
    BY <1>1, <1>5 DEF Rerun
  <2>2. tries' \in [Workers -> 0 .. MaxRetries]
    BY <2>1 DEF TypeOK
  <2>3. phase' \in [Workers -> Phases] /\ target' \in [Workers -> Statuses \cup {None}]
    BY <2>1 DEF TypeOK, Phases, Kinds
  <2>4. /\ absent' \in [Workers -> SUBSET Students]
        /\ flushed' \in [Workers -> SUBSET Students]
        /\ \A v \in Workers : flushed'[v] \subseteq absent'[v]
    BY <2>1 DEF TypeOK
  <2>5. TypeOK'
    BY <1>1, <1>2, <1>3, <2>2, <2>3, <2>4 DEF TypeOK, edits
  <2>6. \A v \in Workers :
          IF v = w THEN phase'[v] = kind /\ flushed'[v] = {}
          ELSE phase'[v] = phase[v] /\ target'[v] = target[v] /\ flushed'[v] = flushed[v]
    BY <2>1 DEF TypeOK
  <2>7. TargetsAreDue'
    <3>1. kind # "status_write" /\ UNCHANGED <<disturbed, now, exam.start, End(exam)>>
      BY <1>2 DEF Kinds, End
    <3> QED
      BY <2>6, <3>1 DEF TargetsAreDue
  <2>8. InsertedHaveNone'
    <3>1. \A v \in Workers : flushed'[v] \subseteq flushed[v]
      BY <2>6
    <3>2. UNCHANGED submission
      BY <1>2
    <3> QED
      BY <3>1, <3>2 DEF InsertedHaveNone
  <2>9. ForceUnderWay' => ForceUnderWay
    <3>1. UNCHANGED <<found, queue>>
      BY <1>2
    <3>2. \A v \in Workers :
            phase'[v] \in {"force", "force_insert"} => phase[v] \in {"force", "force_insert"}
      BY <1>1, <2>6 DEF Kinds
    <3> QED
      BY <3>1, <3>2 DEF ForceUnderWay
  <2> QED
    BY <1>2, <2>5, <2>7, <2>8, <2>9, WorkerFrame
<1> QED
  BY <1>4, <1>5

LEMMA CrashIInv == ASSUME IInv, NEW w \in Workers, Crash(w) PROVE IInv'
<1> USE ExamAssumption DEF IInv, Crash
<1>1. faults' \in 0 .. MaxFaults /\ queue' \in [Kinds -> 0 .. MaxQueue]
  BY DEF TypeOK, Kinds
<1>2. events' \subseteq Students /\ missed' \subseteq Students
  BY DEF Forget, TypeOK
<1>3. TypeOK'
  BY <1>1, <1>2, RestType DEF TypeOK, edits
<1>4. \A v \in Workers :
        IF v = w THEN phase'[v] = "idle" /\ flushed'[v] = {}
        ELSE phase'[v] = phase[v] /\ target'[v] = target[v] /\ flushed'[v] = flushed[v]
  BY RestType
<1>5. TargetsAreDue' /\ InsertedHaveNone'
  BY <1>4 DEF TargetsAreDue, InsertedHaveNone, End
<1>6. queue'["force"] > 0 => queue["force"] > 0 \/ phase[w] \in {"force", "force_insert"}
  BY DEF TypeOK, Kinds, Phases
<1>7. ForceUnderWay' => ForceUnderWay
  BY <1>4, <1>6 DEF ForceUnderWay
<1> QED
  BY <1>3, <1>5, <1>7, WorkerFrame

LEMMA GradeIInv == ASSUME IInv, NEW s \in Students, GradeForced(s) \/ GiveUp(s) PROVE IInv'
<1> USE DEF IInv, GradeForced, GiveUp, Handled, edits, handler
<1>1. TypeOK'
  BY DEF TypeOK
<1>2. TargetsAreDue' /\ InsertedHaveNone' /\ (ForceUnderWay' => ForceUnderWay)
  BY DEF TargetsAreDue, InsertedHaveNone, ForceUnderWay, End
<1> QED
  BY <1>1, <1>2, WorkerFrame

-----------------------------------------------------------------------------
(***************************************************************************)
(* Lecturers and students.                                                 *)
(***************************************************************************)

LEMMA StudentIInv == ASSUME IInv, NEW s \in Students, StartExam(s) \/ Submit(s) PROVE IInv'
<1> USE DEF IInv, StartExam, Submit, edits, handler, grading
<1>1. TypeOK'
  BY DEF TypeOK
<1>2. InsertedHaveNone'
  BY DEF InsertedHaveNone, Locked, TypeOK
<1>3. UNCHANGED End(exam)
  BY DEF End
<1>4. /\ TargetsAreDue' /\ StatusNotAheadOfClock'
      /\ EndKeepsDuration' /\ ForceIsDue'
  BY <1>3 DEF TargetsAreDue, StatusNotAheadOfClock, EndKeepsDuration,
     ForceIsDue, ForceUnderWay, End
<1> QED
  BY <1>1, <1>2, <1>4

LEMMA OpenEditIInv == ASSUME IInv, NEW l \in Lecturers, OpenEdit(l) PROVE IInv'
<1> USE DEF IInv, OpenEdit, handler, grading
<1>1. TypeOK'
  BY DEF TypeOK
<1>2. UNCHANGED End(exam)
  BY DEF End
<1>4. TargetsAreDue' /\ StatusNotAheadOfClock' /\ EndKeepsDuration' /\ ForceIsDue' /\ InsertedHaveNone'
  BY <1>2 DEF TargetsAreDue, StatusNotAheadOfClock, EndKeepsDuration, ForceIsDue,
     ForceUnderWay, InsertedHaveNone
<1> QED
  BY <1>1, <1>4

LEMMA SaveEditIInv ==
  ASSUME IInv, NEW l \in Lecturers, NEW p \in Patches, SaveEdit(l, p)
  PROVE  IInv'
<1> USE ExamAssumption DEF IInv, SaveEdit, handler, grading
<1> DEFINE old == loaded[l]
           new == Patched(p, old)
<1>1. old \in Exams
  BY DEF TypeOK
<1>2. /\ new \in Exams
      /\ new.end = new.start + new.duration
      /\ new.duration = ServiceDuration(p, old)
      /\ new.start = Given(p.start, old.start)
      /\ new.status = PatchedStatus(p, old)
  BY <1>1, PatchedRow
<1>3. /\ exam' \in Exams
      /\ exam'.start = IF new.start = old.start THEN exam.start ELSE new.start
      /\ exam'.duration =
           IF new.duration = old.duration THEN exam.duration ELSE Rounded(new.duration)
      /\ exam'.end = IF new.end = old.end THEN exam.end ELSE new.end
      /\ exam'.status = IF new.status = old.status THEN exam.status ELSE new.status
  <2>1. exam' = Written(new, old, exam) /\ exam \in Exams
    BY DEF TypeOK
  <2> QED
    BY <1>1, <1>2, <2>1, WrittenRow
<1>4. new.start \in Nat /\ new.duration \in Nat
  BY <1>2 DEF Exams
<1>5. disturbed' = disturbed \cup WhatDisturbs(l, p) /\ disturbed' \subseteq Disturbances
  BY DEF TypeOK, WhatDisturbs
<1> HIDE DEF new
<1>6. TypeOK'
  <2>1. loaded' \in [Lecturers -> Exams \cup {None}] /\ edited' \subseteq Lecturers
    BY DEF TypeOK
  <2> QED
    BY <1>3, <1>5, <2>1 DEF TypeOK
\* The edit found the row as it had loaded it, and computed the status for what it stores.
<1>7. ASSUME "status" \notin disturbed'
      PROVE  /\ \A w \in Workers : phase[w] # "status_write"
             /\ exam'.status = "in_progress" => exam'.start <= now
             /\ exam'.status = "finished" => exam'.end <= now
  <2>1. "status" \notin WhatDisturbs(l, p) /\ "status" \in Disturbances
    BY <1>5, <1>7 DEF Disturbances
  <2>2. /\ Recomputes(p)
        /\ RouteDuration(p) = ServiceDuration(p, old)
        /\ old = exam
        /\ \A w \in Workers : phase[w] # "status_write"
    BY <2>1 DEF WhatDisturbs
  <2>3. /\ exam'.start = p.start
        /\ exam'.end = p.start + RouteDuration(p)
        /\ exam'.status = StatusAt(p.start, RouteDuration(p))
    <3>1. new.status = StatusAt(p.start, RouteDuration(p))
      BY <1>2, <2>2 DEF PatchedStatus
    <3>2. new.start = p.start
      BY <1>2, <2>2 DEF Recomputes, Given
    <3> QED
      BY <1>2, <1>3, <2>2, <3>1, <3>2
  <2>4. p.start \in Nat /\ RouteDuration(p) \in Nat /\ now \in Nat
    <3>1. p.start \in Nat /\ RouteDuration(p) \in Nat
      BY <1>2, <1>4, <2>2 DEF Recomputes, Given
    <3> QED
      BY <3>1 DEF TypeOK
  <2> QED
    BY <2>2, <2>3, <2>4 DEF StatusAt
<1>8. TargetsAreDue' /\ StatusNotAheadOfClock'
  BY <1>7, <1>5 DEF TargetsAreDue, StatusNotAheadOfClock, End
\* The edit had seen the schedule there is.
<1>9. EndKeepsDuration'
  <2>1. ASSUME "end" \notin disturbed'
        PROVE  Rounded(exam'.end - exam'.start) = exam'.duration
    <3>1. "end" \notin disturbed /\ [old EXCEPT !.status = exam.status] = exam
      BY <1>5, <2>1 DEF WhatDisturbs, Disturbances
    <3>2. exam.start = old.start /\ exam.duration = old.duration /\ exam.end = old.end
      BY <1>1, <3>1 DEF Exams
    <3>3. exam'.start = new.start /\ exam'.end = new.start + new.duration
      BY <1>2, <1>3, <3>2
    <3>4. exam'.end - exam'.start = new.duration
      BY <1>4, <3>3
    <3>5. ASSUME new.duration = old.duration PROVE Rounded(new.duration) = exam.duration
      <4>1. exam.duration = Rounded(exam.end - exam.start)
        BY <3>1 DEF EndKeepsDuration
      <4>2. exam.end - exam.start \in Int
        BY EndIsNat DEF TypeOK, Exams
      <4>3. Rounded(exam.duration) = exam.duration
        BY <4>1, <4>2, RoundedNat
      <4> QED
        BY <3>2, <3>5, <4>3
    <3> QED
      BY <1>3, <3>2, <3>4, <3>5
  <2> QED
    BY <2>1 DEF EndKeepsDuration
<1>10. ForceIsDue'
  <2>1. ASSUME ForceUnderWay, "force" \notin disturbed' PROVE FALSE
    BY <1>5, <2>1 DEF WhatDisturbs, Disturbances, ForceUnderWay
  <2> QED
    BY <2>1 DEF ForceIsDue, ForceUnderWay
<1>11. InsertedHaveNone'
  BY DEF InsertedHaveNone
<1> QED
  BY <1>6, <1>8, <1>9, <1>10, <1>11

LEMMA NextIInv == IInv /\ [Next]_vars => IInv'
<1> SUFFICES ASSUME IInv, [Next]_vars PROVE IInv'
  OBVIOUS
<1>1. CASE UNCHANGED vars
  <2>1. TypeOK' /\ TargetsAreDue' /\ InsertedHaveNone' /\ (ForceUnderWay' => ForceUnderWay)
    BY <1>1 DEF vars, edits, handler, grading, IInv, TypeOK, TargetsAreDue, InsertedHaveNone,
       ForceUnderWay, End
  <2> QED
    BY <1>1, <2>1, WorkerFrame DEF vars
<1>2. CASE Advance \/ TickStatus \/ FindOver \/ PublishForce \/ PublishFails
  BY <1>2, AdvanceIInv, TickIInv
<1>3. ASSUME NEW w \in Workers,
             \/ \E kind \in Kinds : Take(w, kind)
             \/ ReadStatus(w)
             \/ WriteStatus(w)
      PROVE  IInv'
  BY <1>3, TakeIInv, ReadStatusIInv, WriteStatusIInv
<1>4. ASSUME NEW w \in Workers,
             \/ ReadAbsent(w)
             \/ \E s \in Students : InsertForced(w, s)
             \/ CommitForced(w)
      PROVE  IInv'
  BY <1>4, ReadAbsentIInv, InsertForcedIInv, CommitForcedIInv
<1>5. ASSUME NEW w \in Workers, InsertFails(w) \/ HandlerFails(w) \/ Crash(w)
      PROVE  IInv'
  BY <1>5, FailedRunIInv, CrashIInv
<1>6. ASSUME NEW s \in Students, GradeForced(s) \/ GiveUp(s) \/ StartExam(s) \/ Submit(s)
      PROVE  IInv'
  BY <1>6, GradeIInv, StudentIInv
<1>7. ASSUME NEW l \in Lecturers, OpenEdit(l) \/ \E p \in Patches : SaveEdit(l, p)
      PROVE  IInv'
  BY <1>7, OpenEditIInv, SaveEditIInv
<1> QED
  BY <1>1, <1>2, <1>3, <1>4, <1>5, <1>6, <1>7 DEF Next

LEMMA Invariance == SafetySpec => []IInv
  BY InitIInv, NextIInv, PTL DEF SafetySpec

\* The state has its type.
THEOREM Typing == SafetySpec => []TypeOK
<1>1. IInv => TypeOK
  BY DEF IInv
<1> QED
  BY <1>1, Invariance, PTL

\* Overlapping, failing and redelivered status handlers (tasks/exam.py) never run ahead of
\* the clock, nor does an edit that computes the status from what it stores.
THEOREM StatusKeepsTime == SafetySpec => []StatusNotAheadOfClock
<1>1. IInv => StatusNotAheadOfClock
  BY DEF IInv
<1> QED
  BY <1>1, Invariance, PTL

\* end_time - start_time rounds to the duration stored (services/academic/exams.py computes
\* both, Numeric(5, 2) rounds one) through edits written column by column, as long as none
\* is saved over a schedule it had not seen.
THEOREM EndStaysInStep == SafetySpec => []EndKeepsDuration
<1>1. IInv => EndKeepsDuration
  BY DEF IInv
<1> QED
  BY <1>1, Invariance, PTL

-----------------------------------------------------------------------------
\* Submissions become forced by the commit of a force handler, and by nothing else.
LEMMA ForcedByCommit ==
  ASSUME TypeOK, [Next]_vars, NEW s \in Students, submission[s] # "forced", submission'[s] = "forced"
  PROVE  \E w \in Workers : CommitForced(w) /\ s \in flushed[w]
<1>1. ASSUME NEW w \in Workers, CommitForced(w)
      PROVE  s \in flushed[w]
  BY <1>1 DEF CommitForced
<1>2. ASSUME NEW r \in Students, StartExam(r) \/ Submit(r)
      PROVE  FALSE
  BY <1>2 DEF StartExam, Submit, TypeOK
<1>3. \/ \E w \in Workers : CommitForced(w)
      \/ \E r \in Students : StartExam(r) \/ Submit(r)
  <2>1. \/ Advance
        \/ TickStatus
        \/ FindOver
        \/ PublishForce
        \/ PublishFails
        \/ \E w \in Workers :
             \/ \E kind \in Kinds : Take(w, kind)
             \/ ReadStatus(w)
             \/ WriteStatus(w)
             \/ ReadAbsent(w)
             \/ \E r \in Students : InsertForced(w, r)
             \/ InsertFails(w)
             \/ HandlerFails(w)
             \/ Crash(w)
        \/ \E r \in Students : GradeForced(r) \/ GiveUp(r)
        \/ \E l \in Lecturers : OpenEdit(l) \/ \E p \in Patches : SaveEdit(l, p)
        \/ UNCHANGED vars
        => submission' = submission
    BY DEF Advance, TickStatus, FindOver, PublishForce, PublishFails, Publish, Take, ReadStatus, WriteStatus, ReadAbsent,
       InsertForced, InsertFails, HandlerFails, Rerun, Crash, GradeForced, GiveUp, Handled, OpenEdit, SaveEdit, vars
  <2> QED
    BY <2>1 DEF Next
<1> QED
  BY <1>1, <1>2, <1>3

\* Nobody is submitted by force before the end of the exam, however long the event waited
\* or how often it was delivered.
THEOREM ForcedOnTime == SafetySpec => ForcedAfterEnd
<1>1. IInv /\ [Next]_vars
        => [\A s \in Students :
              (submission[s] # "forced" /\ submission'[s] = "forced") =>
                now >= End(exam) \/ "force" \in disturbed]_vars
  <2> SUFFICES ASSUME IInv, [Next]_vars, NEW s \in Students,
                      submission[s] # "forced", submission'[s] = "forced"
               PROVE  now >= End(exam) \/ "force" \in disturbed
    OBVIOUS
  <2>1. ForceUnderWay
    BY ForcedByCommit DEF IInv, CommitForced, ForceUnderWay
  <2>2. now \in Nat /\ End(exam) \in Nat
    BY EndIsNat, ExamAssumption DEF IInv, TypeOK
  <2> QED
    BY <2>1, <2>2 DEF IInv, ForceIsDue
<1> QED
  BY <1>1, Invariance, PTL DEF SafetySpec, ForcedAfterEnd

\* The force handler takes the place of no submission a student has started or made, in
\* whatever step of the handler that was.
THEOREM OwnStands == SafetySpec => OwnSubmissionStands
<1>1. IInv /\ [Next]_vars
        => [\A s \in Students :
              submission[s] \in {"started", "submitted"} => submission'[s] # "forced"]_vars
  BY ForcedByCommit DEF IInv, InsertedHaveNone
<1> QED
  BY <1>1, Invariance, PTL DEF SafetySpec, OwnSubmissionStands
=============================================================================
