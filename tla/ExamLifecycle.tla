---------------------------- MODULE ExamLifecycle ----------------------------
(***************************************************************************)
(* One exam from its creation to its end: the clock, the scheduler that    *)
(* publishes UPDATE_EXAM_STATUS and FORCE_SUBMIT_EXAM (backend/            *)
(* scheduler.py), the workers that handle them (tasks/exam.py), lecturers  *)
(* who edit the exam meanwhile (routes/academic/exams.py and               *)
(* services/academic/exams.py) and students who start or submit.           *)
(*                                                                         *)
(* Each of them reads the exam row in one step and writes it in another.   *)
(* SQLAlchemy writes the columns that differ from what it loaded, and      *)
(* those only.  Time is counted in 12 seconds, of which an hour has 300, a  *)
(* minute 5 and a hundredth of an hour 3: the column duration keeps two    *)
(* decimals of the hours, end_time is computed from all of them.           *)
(*                                                                         *)
(* ExamService.get and submit_exam load with selectinload(Exam.course), a  *)
(* relationship the committed models do not map, and so raise              *)
(* (ExamQueryLoads is FALSE of them): edits and submits are modelled as    *)
(* they run once it is mapped.  ExamService.create commits before it loads *)
(* the exam that way, so there are exams in either case.                   *)
(***************************************************************************)
EXTENDS Integers, FiniteSets

CONSTANTS
  Workers,          \* worker.py processes
  Lecturers,        \* PUT /exams/{exam_id} requests
  Students,         \* students enrolled in the exam's course
  None,             \* a field the request leaves out; nothing loaded
  StartTimes,       \* start_time of the exam, before and after an edit
  Hours, Minutes,   \* duration_hours and duration_minutes, before and after an edit
  ExamQueryLoads,   \* does Exam map the relationships the services load it with?
  AttemptNumbered,  \* does the forced attempt carry its NOT NULL attempt_number?
  MaxRetries,       \* handler runs per delivery, as in TaskDispatch
  MaxQueue,         \* bound: undelivered events of each kind
  Instants,         \* bound: the instants at which something is looked at
  MaxFaults         \* bound: failed handler runs and crashes

ASSUME ExamAssumption ==
  /\ StartTimes \subseteq Nat
  /\ Hours \subseteq Nat \ {0}
  /\ Minutes \subseteq 0 .. 59
  /\ None \notin Nat
  /\ ExamQueryLoads \in BOOLEAN
  /\ AttemptNumbered \in BOOLEAN
  /\ MaxRetries \in Nat \ {0}
  /\ MaxQueue \in Nat \ {0}
  /\ Instants \subseteq Nat /\ 0 \in Instants
  /\ MaxFaults \in Nat

VARIABLES
  now,              \* datetime.now(timezone.utc)
  exam,             \* the committed row
  loaded,           \* the row each edit request loaded, None before and after
  edited,           \* edit requests that are over
  found,            \* has _trigger_force_submit_exams found the exam over?
  queue,            \* undelivered events of each kind
  phase,            \* where each worker is
  target,           \* the status an UPDATE_EXAM_STATUS run is about to write
  absent,           \* students a FORCE_SUBMIT_EXAM run found without submission
  flushed,          \* those it has inserted and not committed
  tries,            \* failed runs of this delivery
  submission,       \* what each student's submission row is
  events,           \* students whose forced attempt has a grade event in the topic
  graded,           \* students whose forced attempt is graded
  missed,           \* history: students whose grade event was lost: not published,
                    \* handled before the commit, or given up
  disturbed,        \* history: what edits have put out of step
  faults            \* counts against MaxFaults

edits   == <<loaded, edited>>
handler == <<phase, target, absent, flushed, tries>>
grading == <<events, graded, missed>>
vars == <<now, exam, edits, found, queue, handler, submission, grading, disturbed, faults>>

Statuses == {"not_started", "in_progress", "finished"}
Kinds    == {"status", "force"}
Phases   == {"idle", "status", "status_write", "force", "force_insert"}

\* What an edit may put out of step: the status with the clock, end_time with the
\* schedule, a FORCE_SUBMIT_EXAM on its way with the end of the exam.
Disturbances == {"status", "end", "force"}

Exams == [start : StartTimes, duration : Nat, end : Nat, status : Statuses]

TypeOK ==
  /\ now \in Instants
  /\ exam \in Exams
  /\ loaded \in [Lecturers -> Exams \cup {None}]
  /\ edited \subseteq Lecturers
  /\ found \in BOOLEAN
  /\ queue \in [Kinds -> 0 .. MaxQueue]
  /\ phase \in [Workers -> Phases]
  /\ target \in [Workers -> Statuses \cup {None}]
  /\ absent \in [Workers -> SUBSET Students]
  /\ flushed \in [Workers -> SUBSET Students]
  /\ \A w \in Workers : flushed[w] \subseteq absent[w]
  /\ tries \in [Workers -> 0 .. MaxRetries]
  /\ submission \in [Students -> {"none", "started", "submitted", "forced"}]
  /\ events \subseteq Students
  /\ graded \subseteq {s \in Students : submission[s] = "forced"}
  /\ missed \subseteq Students
  /\ disturbed \subseteq Disturbances
  /\ faults \in 0 .. MaxFaults

\* Hours and minutes in units of 12 seconds.
Lasting(hours, minutes) == 300 * hours + 5 * minutes

\* Numeric(5, 2): what the column keeps of a duration.
Rounded(duration) == 3 * ((duration + 1) \div 3)

\* ExamService.create: end_time from the hours and minutes given, the duration as
\* the column keeps it; the form sends not_started.
Init ==
  /\ now = 0
  /\ exam \in {[start |-> t, duration |-> Rounded(Lasting(h, m)), end |-> t + Lasting(h, m),
                status |-> "not_started"] : t \in StartTimes, h \in Hours, m \in Minutes}
  /\ loaded = [l \in Lecturers |-> None]
  /\ edited = {}
  /\ found = FALSE
  /\ queue = [k \in Kinds |-> 0]
  /\ phase = [w \in Workers |-> "idle"]
  /\ target = [w \in Workers |-> None]
  /\ absent = [w \in Workers |-> {}]
  /\ flushed = [w \in Workers |-> {}]
  /\ tries = [w \in Workers |-> 0]
  /\ submission = [s \in Students |-> "none"]
  /\ events = {}
  /\ graded = {}
  /\ missed = {}
  /\ disturbed = {}
  /\ faults = 0

Advance ==
  /\ now' \in {t \in Instants : now < t}
  /\ UNCHANGED <<exam, edits, found, queue, handler, submission, grading, disturbed, faults>>

-----------------------------------------------------------------------------
(***************************************************************************)
(* The scheduler.  APScheduler runs one instance of a job at a time.       *)
(***************************************************************************)

\* What the scheduler and the handlers take for the end: not end_time.
End(e) == e.start + e.duration

Publish(kind) ==
  /\ queue[kind] < MaxQueue
  /\ queue' = [queue EXCEPT ![kind] = @ + 1]
  /\ UNCHANGED <<now, exam, edits, handler, submission, grading, disturbed, faults>>

\* _trigger_exam_update
TickStatus == Publish("status") /\ UNCHANGED found

ForceWithoutClock == exam.status = "in_progress"

\* The exams _trigger_force_submit_exams publishes for.
ForceDue == exam.status = "in_progress" /\ now >= End(exam)

\* Its select; the event of this exam is published after those of others.
FindOver ==
  /\ ~found
  /\ ForceDue
  /\ found' = TRUE
  /\ UNCHANGED <<now, exam, edits, queue, handler, submission, grading, disturbed, faults>>

PublishForce == found /\ found' = FALSE /\ Publish("force")

\* publish_safe returns FALSE.
PublishFails ==
  /\ found
  /\ faults < MaxFaults
  /\ found' = FALSE
  /\ faults' = faults + 1
  /\ UNCHANGED <<now, exam, edits, queue, handler, submission, grading, disturbed>>

-----------------------------------------------------------------------------
(***************************************************************************)
(* Workers.                                                                *)
(***************************************************************************)

Take(w, kind) ==
  /\ phase[w] = "idle"
  /\ queue[kind] > 0
  /\ queue' = [queue EXCEPT ![kind] = @ - 1]
  /\ phase' = [phase EXCEPT ![w] = kind]
  /\ UNCHANGED <<now, exam, edits, found, target, absent, flushed, tries,
                 submission, grading, disturbed, faults>>

Rest(w) ==
  /\ phase' = [phase EXCEPT ![w] = "idle"]
  /\ target' = [target EXCEPT ![w] = None]
  /\ absent' = [absent EXCEPT ![w] = {}]
  /\ flushed' = [flushed EXCEPT ![w] = {}]
  /\ tries' = [tries EXCEPT ![w] = 0]

AdvancedIgnoringStart(e) ==
  IF e.status = "not_started" /\ now < End(e) THEN "in_progress"
  ELSE IF now >= End(e) THEN "finished" ELSE e.status

OnlyRunningFinish(e) ==
  IF e.status = "not_started" /\ e.start <= now /\ now < End(e) THEN "in_progress"
  ELSE IF e.status = "in_progress" /\ now >= End(e) THEN "finished" ELSE e.status

\* The transition _update_exam_statuses makes, from the status it loaded.
Advanced(e) ==
  IF now >= End(e) THEN "finished"
  ELSE IF e.status = "not_started" /\ e.start <= now THEN "in_progress" ELSE e.status

\* The select; a commit with nothing to write changes nothing.
ReadStatus(w) ==
  /\ phase[w] = "status"
  /\ IF Advanced(exam) = exam.status
       THEN Rest(w)
       ELSE /\ target' = [target EXCEPT ![w] = Advanced(exam)]
            /\ phase' = [phase EXCEPT ![w] = "status_write"]
            /\ UNCHANGED <<absent, flushed, tries>>
  /\ UNCHANGED <<now, exam, edits, found, queue, submission, grading, disturbed, faults>>

\* The commit.
WriteStatus(w) ==
  /\ phase[w] = "status_write"
  /\ exam' = [exam EXCEPT !.status = target[w]]
  /\ Rest(w)
  /\ UNCHANGED <<now, edits, found, queue, submission, grading, disturbed, faults>>

\* handle_force_submit_exam up to its inserts.  Any submission row counts as
\* submitted, that of a student who only started included.
ReadAbsent(w) ==
  /\ phase[w] = "force"
  /\ LET unsubmitted == {s \in Students : submission[s] = "none"} IN
       IF unsubmitted = {}
         THEN Rest(w)
         ELSE /\ absent' = [absent EXCEPT ![w] = unsubmitted]
              /\ phase' = [phase EXCEPT ![w] = "force_insert"]
              /\ UNCHANGED <<target, flushed, tries>>
  /\ UNCHANGED <<now, exam, edits, found, queue, submission, grading, disturbed, faults>>

\* Is the student's row inserted by a transaction that has not ended?
Locked(s) == \E w \in Workers : s \in flushed[w]

InsertsOverSubmission(s) == AttemptNumbered

\* The unique index on student and exam, and NOT NULL of attempt_number.
Insertable(s) == AttemptNumbered /\ submission[s] = "none"

\* Insert submission and attempt, flush, emit the grade event: before the commit.
InsertForced(w, s) ==
  /\ phase[w] = "force_insert"
  /\ s \in absent[w]
  /\ ~Locked(s)
  /\ Insertable(s)
  /\ flushed' = [flushed EXCEPT ![w] = @ \cup {s}]
  /\ \/ events' = events \cup {s} /\ UNCHANGED missed
     \/ missed' = missed \cup {s} /\ UNCHANGED events
  /\ UNCHANGED <<now, exam, edits, found, queue, phase, target, absent, tries,
                 submission, graded, disturbed, faults>>

CommitForced(w) ==
  /\ phase[w] = "force_insert"
  /\ flushed[w] = absent[w]
  /\ submission' = [s \in Students |-> IF s \in flushed[w] THEN "forced" ELSE submission[s]]
  /\ Rest(w)
  /\ UNCHANGED <<now, exam, edits, found, queue, grading, disturbed, faults>>

\* The attempts of a transaction that rolled back do not exist: a grade event
\* for one is dropped by grade_attempt_background ("not found").
Forget(w) ==
  /\ events' = events \ flushed[w]
  /\ missed' = missed \ flushed[w]

\* Rollback, and another run of the handler until the dispatcher gives up.
Rerun(w, kind) ==
  /\ Forget(w)
  /\ IF tries[w] + 1 < MaxRetries
       THEN /\ tries' = [tries EXCEPT ![w] = @ + 1]
            /\ phase' = [phase EXCEPT ![w] = kind]
            /\ target' = [target EXCEPT ![w] = None]
            /\ absent' = [absent EXCEPT ![w] = {}]
            /\ flushed' = [flushed EXCEPT ![w] = {}]
       ELSE Rest(w)
  /\ UNCHANGED <<now, exam, edits, found, queue, submission, graded, disturbed>>

\* An insert the database refuses.
InsertFails(w) ==
  /\ phase[w] = "force_insert"
  /\ \E s \in absent[w] \ flushed[w] : ~Insertable(s)
  /\ Rerun(w, "force")
  /\ UNCHANGED faults

\* A statement that times out, a lost connection.
HandlerFails(w) ==
  /\ phase[w] # "idle"
  /\ faults < MaxFaults
  /\ faults' = faults + 1
  /\ Rerun(w, IF phase[w] \in {"status", "status_write"} THEN "status" ELSE "force")

\* The worker dies: rollback, and the event is delivered again.
Crash(w) ==
  /\ phase[w] # "idle"
  /\ faults < MaxFaults
  /\ faults' = faults + 1
  /\ LET kind == IF phase[w] \in {"status", "status_write"} THEN "status" ELSE "force" IN
       /\ queue[kind] < MaxQueue
       /\ queue' = [queue EXCEPT ![kind] = @ + 1]
  /\ Forget(w)
  /\ Rest(w)
  /\ UNCHANGED <<now, exam, edits, found, submission, graded, disturbed>>

\* The event leaves the topic.
Handled(s) ==
  /\ s \in events
  /\ events' = events \ {s}
  /\ UNCHANGED <<now, exam, edits, found, queue, handler, submission, disturbed, faults>>

GradesUncommitted(s) == Handled(s) /\ graded' = graded \cup {s} /\ UNCHANGED missed

GradesWhileInProgress(s) ==
  /\ Handled(s)
  /\ IF submission[s] = "forced"
       THEN graded' = (IF exam.status = "in_progress" THEN graded \cup {s} ELSE graded) /\ UNCHANGED missed
       ELSE missed' = missed \cup {s} /\ UNCHANGED graded

\* The grader of SubmissionGrading, which finds the attempt only once it is
\* committed and returns otherwise.  A run of it that fails changes nothing here.
GradeForced(s) ==
  /\ Handled(s)
  /\ IF submission[s] = "forced"
       THEN graded' = graded \cup {s} /\ UNCHANGED missed
       ELSE missed' = missed \cup {s} /\ UNCHANGED graded

\* The dispatcher gives the event up after the last of its runs.
GiveUp(s) ==
  /\ Handled(s)
  /\ missed' = missed \cup {s}
  /\ UNCHANGED graded

-----------------------------------------------------------------------------
(***************************************************************************)
(* Lecturers and students.                                                 *)
(***************************************************************************)

\* ExamService.get: the row the request works on until it saves.
OpenEdit(l) ==
  /\ ExamQueryLoads
  /\ loaded[l] = None
  /\ l \notin edited
  /\ loaded' = [loaded EXCEPT ![l] = exam]
  /\ UNCHANGED <<now, exam, edited, found, queue, handler, submission, grading, disturbed, faults>>

\* What a request may ask for; a field it does not name is None.
Patches ==
  [start : StartTimes \cup {None}, hours : Hours \cup {None},
   minutes : Minutes \cup {None}, status : Statuses \cup {None}]

Given(value, otherwise) == IF value = None THEN otherwise ELSE value

\* The duration the route computes the status with: a missing part counts as 0.
RouteDuration(p) == Lasting(Given(p.hours, 0), Given(p.minutes, 0))

\* The duration the service computes end_time with: a missing part is that of the
\* loaded row, cut to whole minutes.
ServiceDuration(p, e) ==
  IF p.hours = None /\ p.minutes = None
    THEN e.duration
    ELSE Lasting(Given(p.hours, e.duration \div 300), Given(p.minutes, (e.duration % 300) \div 5))

\* The route computes the status only from a patch with start and duration.
Recomputes(p) == p.start # None /\ RouteDuration(p) > 0

StatusAt(start, duration) ==
  IF now < start THEN "not_started" ELSE IF now < start + duration THEN "in_progress" ELSE "finished"

\* The status after the patch.
PatchedStatus(p, e) ==
  IF Recomputes(p) THEN StatusAt(p.start, RouteDuration(p)) ELSE Given(p.status, e.status)

StaleEnd(p, e) ==
  [e EXCEPT !.start = Given(p.start, @), !.duration = ServiceDuration(p, e), !.status = PatchedStatus(p, e)]

\* The loaded row after the patch; end_time is recomputed from it.
Patched(p, e) ==
  LET start    == Given(p.start, e.start)
      duration == ServiceDuration(p, e)
  IN [start |-> start, duration |-> duration, end |-> start + duration, status |-> PatchedStatus(p, e)]

\* Only the columns that differ from the loaded row reach the table, the duration
\* as the column keeps it.
Written(new, old, row) ==
  [f \in DOMAIN row |->
     IF new[f] = old[f] THEN row[f] ELSE IF f = "duration" THEN Rounded(new[f]) ELSE new[f]]

\* The status is only in step after an edit that recomputes it from the duration
\* it stores, from the row as it still is, and with no status handler between
\* its read and its write.
WhatDisturbs(l, p) ==
  {d \in Disturbances :
     \/ /\ d = "status"
        /\ \/ ~Recomputes(p)
           \/ RouteDuration(p) # ServiceDuration(p, loaded[l])
           \/ loaded[l] # exam
           \/ \E w \in Workers : phase[w] = "status_write"
     \/ d = "end" /\ [loaded[l] EXCEPT !.status = exam.status] # exam
     \/ /\ d = "force"
        /\ found \/ queue["force"] > 0 \/ \E w \in Workers : phase[w] \in {"force", "force_insert"}}

SaveEdit(l, p) ==
  /\ loaded[l] # None
  /\ Rounded(ServiceDuration(p, loaded[l])) > 0
  /\ exam' = Written(Patched(p, loaded[l]), loaded[l], exam)
  /\ disturbed' = disturbed \cup WhatDisturbs(l, p)
  /\ loaded' = [loaded EXCEPT ![l] = None]
  /\ edited' = edited \cup {l}
  /\ UNCHANGED <<now, found, queue, handler, submission, grading, faults>>

\* create_submission; neither the clock nor the exam's status is looked at.
StartExam(s) ==
  /\ submission[s] = "none"
  /\ ~Locked(s)
  /\ submission' = [submission EXCEPT ![s] = "started"]
  /\ UNCHANGED <<now, exam, edits, found, queue, handler, grading, disturbed, faults>>

\* submit_exam, first attempt (SubmissionGrading has the steps of it).
Submit(s) ==
  /\ ExamQueryLoads
  /\ submission[s] \in {"none", "started"}
  /\ ~Locked(s)
  /\ submission' = [submission EXCEPT ![s] = "submitted"]
  /\ UNCHANGED <<now, exam, edits, found, queue, handler, grading, disturbed, faults>>

-----------------------------------------------------------------------------
Step(w) ==
  \/ ReadStatus(w) \/ WriteStatus(w)
  \/ ReadAbsent(w) \/ (\E s \in Students : InsertForced(w, s)) \/ CommitForced(w) \/ InsertFails(w)

Next ==
  \/ Advance
  \/ TickStatus
  \/ FindOver
  \/ PublishForce
  \/ PublishFails
  \/ \E w \in Workers :
       \/ \E kind \in Kinds : Take(w, kind)
       \/ ReadStatus(w)
       \/ WriteStatus(w)
       \/ ReadAbsent(w)
       \/ \E s \in Students : InsertForced(w, s)
       \/ CommitForced(w)
       \/ InsertFails(w)
       \/ HandlerFails(w)
       \/ Crash(w)
  \/ \E s \in Students : GradeForced(s) \/ GiveUp(s) \/ StartExam(s) \/ Submit(s)
  \/ \E l \in Lecturers : OpenEdit(l) \/ \E p \in Patches : SaveEdit(l, p)

SafetySpec == Init /\ [][Next]_vars

(***************************************************************************)
(* The clock runs, APScheduler fires its interval jobs for ever, and       *)
(* workers run what is queued.  Nobody has to edit, start or submit.       *)
(***************************************************************************)
Fairness ==
  /\ WF_vars(Advance) /\ WF_vars(TickStatus)
  /\ WF_vars(FindOver) /\ WF_vars(PublishForce)
  /\ \A kind \in Kinds : SF_vars(\E w \in Workers : Take(w, kind))
  /\ \A w \in Workers : WF_vars(Step(w))
  /\ \A s \in Students : WF_vars(GradeForced(s) \/ GiveUp(s))

Spec == SafetySpec /\ Fairness

-----------------------------------------------------------------------------
(***************************************************************************)
(* Properties.                                                             *)
(***************************************************************************)

\* The status never runs ahead of the clock, however handlers overlap, fail or
\* are redelivered: no exam is in progress before its start, or finished before
\* both its end_time and the end its rounded duration gives, unless an edit put
\* it out of step.
StatusNotAheadOfClock ==
  "status" \notin disturbed =>
    /\ exam.status = "in_progress" => exam.start <= now
    /\ exam.status = "finished" => exam.end <= now \/ End(exam) <= now

\* end_time - start_time rounds to the duration stored, whichever of the three was
\* edited and from whichever parts of a duration, unless an edit was saved over
\* another one it had not seen.
EndKeepsDuration == "end" \notin disturbed => Rounded(exam.end - exam.start) = exam.duration

\* A student is only submitted by force once the exam is over, also when the
\* event waits in the topic or is handled again after a crash, unless the exam
\* was edited after the scheduler had found it over.
ForcedAfterEnd ==
  [][\A s \in Students :
       (submission[s] # "forced" /\ submission'[s] = "forced") =>
         now >= End(exam) \/ "force" \in disturbed]_vars

\* The force handler never takes the place of a submission the student made
\* between its query and its inserts, and no student is forced twice.
OwnSubmissionStands ==
  [][\A s \in Students : submission[s] \in {"started", "submitted"} => submission'[s] # "forced"]_vars

\* A forced attempt is graded, unless its event was not published, reached the
\* grader before the commit or was given up: what a rolled-back run emitted does
\* not stand in for the event of the run that committed.
ForcedIsGraded ==
  \A s \in Students : (submission[s] = "forced") ~> (s \in graded \cup missed)

\* Once the clock has passed the end of the exam it is finished and stays so,
\* whatever edits and handlers did before, overlapping or stale.
FinishedInTheEnd == <>[](exam.status = "finished")

\* handle_force_submit_exam: "Auto-submit students who have not submitted before
\* exam expiry."
NobodyLeftUnsubmitted ==
  \A s \in Students : <>(submission[s] \in {"submitted", "forced"})

\* models/academic/exam.py of end_time: "Exam end time: start_time + duration
\* (persisted)"
EndIsStartPlusDuration == exam.end = End(exam)
=============================================================================
