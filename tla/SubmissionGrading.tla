-------------------------- MODULE SubmissionGrading --------------------------
(***************************************************************************)
(* One student's submissions to one exam: the API requests of              *)
(* backend/routes/academic/submissions.py (start, submit, scan) and the    *)
(* workers that grade the attempts (tasks/submission.py), both running     *)
(* services/academic/submissions.py against the same rows:                 *)
(* academic.submissions (one row per student and exam),                    *)
(* academic.submission_attempts and academic.student_answers.              *)
(*                                                                         *)
(* A request or a grading job is a sequence of database steps; between two *)
(* of them any other process may run.  Writes that are not committed yet   *)
(* hold the lock of the submission row and are invisible.  A request is    *)
(* named by its identity, and so is the attempt it records.                *)
(***************************************************************************)
EXTENDS Integers, FiniteSets

CONSTANTS
  Starts,           \* POST /submissions/start
  Digital,          \* POST /submissions/ (the answers were saved earlier)
  Scans,            \* POST /submissions/scan/ (carries an answer per question)
  Graders,          \* worker processes
  Questions,        \* the questions of the exam
  None,             \* no lock holder, no attempt, no answer
  MaxAttempts,      \* bound: the largest Exam.max_attempts
  MaxRetries,       \* handler runs per delivery, as in TaskDispatch
  ExamQueryLoads,   \* does selectinload(Exam.course) name a mapped relationship?
  AnswersStorable,  \* does student_answers accept a row without tenant_id?
  MaxFaults         \* bound: crashes, overlapping deliveries, failed checks

Submits  == Digital \cup Scans
Requests == Starts \cup Submits

ASSUME SubmissionAssumption ==
  /\ Starts \cap Submits = {}
  /\ Digital \cap Scans = {}
  /\ Requests \cap Graders = {}
  /\ None \notin Requests \cup Graders
  /\ MaxAttempts \in Nat \ {0}
  /\ MaxRetries \in Nat \ {0}
  /\ ExamQueryLoads \in BOOLEAN
  /\ AnswersStorable \in BOOLEAN
  /\ MaxFaults \in Nat

VARIABLES
  limit,            \* Exam.max_attempts of this exam
  exists,           \* is the submission row committed?
  attempts,         \* submissions.attempts
  status,           \* submissions.status
  latest,           \* the attempt submissions.latest_score comes from
  number,           \* attempt_number of each recorded attempt, 0 if not recorded
  scored,           \* attempts whose score is set
  sheet,            \* student_answers: whose answer each question holds
  lock,             \* who holds the row lock of the submission
  stage,            \* where each request is
  seen,             \* attempts and status as the request loaded them
  todo,             \* questions whose answer the request has still to store
  pending,          \* grade events in the topic and not acknowledged
  phase,            \* where each grader is
  job,              \* the attempt it was handed
  read,             \* the answers it read
  tries,            \* failed runs of this delivery
  abandoned,        \* history: attempts given up by some delivery
  raced,            \* history: were two submits ever in flight at once?
  doubtful,         \* history: attempts delivered twice at once, or unchecked
  faults            \* counts against MaxFaults

rows     == <<exists, attempts, status, latest, number, scored, sheet>>
requests == <<stage, seen, todo>>
graders  == <<phase, job, read, tries>>
history  == <<abandoned, raced, doubtful>>
vars == <<limit, rows, lock, requests, pending, graders, history, faults>>

Statuses == {"pending", "submitted", "grading_in_progress", "graded"}
Stages   == {"new", "insert", "answers", "attempt", "emit", "done", "failed"}
Phases   == {"idle", "check", "load", "grading", "persist", "ack"}
Sheets   == [Questions -> Scans \cup {None}]
Recorded == {r \in Submits : number[r] > 0}
InFlight == {r \in Submits : stage[r] \in {"insert", "answers", "attempt"}}

\* A committed row always has one of the Statuses; the value grading_in_progress
\* is only ever written by a transaction that overwrites it before it commits.
TypeOK ==
  /\ limit \in 1 .. MaxAttempts
  /\ exists \in BOOLEAN
  /\ attempts \in 0 .. limit
  /\ status \in Statuses \ {"grading_in_progress"}
  /\ latest \in Submits \cup {None}
  /\ number \in [Submits -> 0 .. limit]
  /\ scored \subseteq Submits
  /\ sheet \in Sheets
  /\ lock \in Requests \cup Graders \cup {None}
  /\ stage \in [Requests -> Stages]
  /\ seen \in [Requests -> [attempts : 0 .. limit, status : Statuses]]
  /\ todo \in [Requests -> SUBSET Questions]
  /\ pending \subseteq Submits
  /\ phase \in [Graders -> Phases]
  /\ job \in [Graders -> Submits \cup {None}]
  /\ read \in [Graders -> Sheets]
  /\ tries \in [Graders -> 0 .. MaxRetries]
  /\ abandoned \subseteq Submits
  /\ raced \in BOOLEAN
  /\ doubtful \subseteq Submits
  /\ faults \in 0 .. MaxFaults

Unseen == [attempts |-> 0, status |-> "pending"]

Blank == [q \in Questions |-> None]

Init ==
  /\ limit \in 1 .. MaxAttempts
  /\ exists = FALSE
  /\ attempts = 0
  /\ status = "pending"
  /\ latest = None
  /\ number = [r \in Submits |-> 0]
  /\ scored = {}
  /\ sheet = Blank
  /\ lock = None
  /\ stage = [r \in Requests |-> "new"]
  /\ seen = [r \in Requests |-> Unseen]
  /\ todo = [r \in Requests |-> {}]
  /\ pending = {}
  /\ phase = [g \in Graders |-> "idle"]
  /\ job = [g \in Graders |-> None]
  /\ read = [g \in Graders |-> Blank]
  /\ tries = [g \in Graders |-> 0]
  /\ abandoned = {}
  /\ raced = FALSE
  /\ doubtful = {}
  /\ faults = 0

-----------------------------------------------------------------------------
(***************************************************************************)
(* Requests.                                                               *)
(***************************************************************************)

Unlock(holder) == IF lock = holder THEN None ELSE lock

\* What follows once the submission row is there for the request.
AfterRow(r, answered) ==
  IF r \in Starts THEN "done" ELSE IF answered = {} THEN "attempt" ELSE "answers"

\* The exam query of submit_exam and _get_by_student_exam: the row is loaded into
\* the session and not read again (expire_on_commit is off).  A scan carries the
\* answers the parser extracted, for some of the questions.
Lookup(r) ==
  /\ stage[r] = "new"
  /\ \E answered \in IF r \in Scans THEN SUBSET Questions ELSE {{}} :
       /\ todo' = [todo EXCEPT ![r] = answered]
       /\ stage' = [stage EXCEPT ![r] =
            IF \/ r \in Submits /\ ~ExamQueryLoads
               \/ r \in Scans /\ Questions = {}
            THEN "failed"
            ELSE IF exists THEN AfterRow(r, answered) ELSE "insert"]
  /\ seen' = [seen EXCEPT ![r] = [attempts |-> attempts, status |-> status]]
  /\ raced' = (raced \/ (r \in Submits /\ InFlight # {}))
  /\ UNCHANGED <<limit, rows, lock, pending, graders, abandoned, doubtful, faults>>

\* db.flush of the new row (submit) or its commit (start).  The unique index on
\* student and exam makes a second insert wait for the first and then fail.
InsertRow(r) ==
  /\ stage[r] = "insert"
  /\ lock = None
  /\ IF exists
       THEN /\ stage' = [stage EXCEPT ![r] = "failed"]
            /\ UNCHANGED <<exists, lock>>
       ELSE /\ stage' = [stage EXCEPT ![r] = AfterRow(r, todo[r])]
            /\ exists' = (r \in Starts)
            /\ lock' = IF r \in Starts THEN None ELSE r
  /\ UNCHANGED <<limit, attempts, status, latest, number, scored, sheet, seen, todo,
                 pending, graders, history, faults>>

\* StudentAnswerService.upsert for one question.  It commits, which publishes a
\* row inserted above.  A statement that fails is caught, but it has aborted the
\* transaction: everything after it fails too, and so does the request.
StoreAnswer(r, q) ==
  /\ stage[r] = "answers"
  /\ q \in todo[r]
  /\ IF AnswersStorable
       THEN /\ sheet' = [sheet EXCEPT ![q] = r]
            /\ exists' = TRUE
            /\ todo' = [todo EXCEPT ![r] = @ \ {q}]
            /\ stage' = [stage EXCEPT ![r] = IF todo[r] = {q} THEN "attempt" ELSE @]
       ELSE /\ stage' = [stage EXCEPT ![r] = "failed"]
            /\ UNCHANGED <<sheet, exists, todo>>
  /\ lock' = Unlock(r)
  /\ UNCHANGED <<limit, attempts, status, latest, number, scored, seen,
                 pending, graders, history, faults>>

\* The request ends its session.
Close(r, outcome) ==
  /\ stage' = [stage EXCEPT ![r] = outcome]
  /\ seen' = [seen EXCEPT ![r] = Unseen]
  /\ todo' = [todo EXCEPT ![r] = {}]

\* A statement fails or exceeds its timeout (900 ms, also while it waits for the
\* row lock a grader holds), the client goes away, or the process dies: the
\* session rolls back what it has not committed.
Abort(r) ==
  /\ stage[r] \in {"insert", "answers", "attempt"}
  /\ Close(r, "failed")
  /\ lock' = Unlock(r)
  /\ UNCHANGED <<limit, rows, pending, graders, history, faults>>

AtLimitOffByOne(r) == seen[r].attempts > limit

\* The check of max_attempts, against the counter as the request loaded it.
AtLimit(r) == seen[r].attempts >= limit

\* "Maximum attempts reached": ValueError, answered with 400.
Refuse(r) ==
  /\ stage[r] = "attempt"
  /\ AtLimit(r)
  /\ Close(r, "failed")
  /\ lock' = Unlock(r)
  /\ UNCHANGED <<limit, rows, pending, graders, history, faults>>

NumberSkipsOne(r) == seen[r].attempts + 2

NumberAlwaysFirst(r) == 1

\* The number the request gives its attempt, and the counter it writes.
NextNumber(r) == seen[r].attempts + 1

\* Inserts the attempt, updates the row and commits.  SQLAlchemy writes the
\* columns that differ from what it loaded, so a status loaded as submitted is
\* not written.
RecordAttempt(r) ==
  /\ stage[r] = "attempt"
  /\ ~AtLimit(r)
  /\ lock \in {None, r}
  /\ exists' = TRUE
  /\ attempts' = NextNumber(r)
  /\ status' = IF seen[r].status = "submitted" THEN status ELSE "submitted"
  /\ number' = [number EXCEPT ![r] = NextNumber(r)]
  /\ lock' = None
  /\ Close(r, "emit")
  /\ UNCHANGED <<limit, latest, scored, sheet, pending, graders, history, faults>>

\* emit_grade_attempt: publish_safe returns False when it fails, and the process
\* may die first; either way the attempt stays and no event exists.
Emit(r) ==
  /\ stage[r] = "emit"
  /\ pending' \in {pending \cup {r}, pending}
  /\ stage' = [stage EXCEPT ![r] = "done"]
  /\ UNCHANGED <<limit, rows, lock, seen, todo, graders, history, faults>>

-----------------------------------------------------------------------------
(***************************************************************************)
(* Grading jobs.  TaskDispatch models the delivery: at least once, by one  *)
(* worker unless a rebalance hands it out again while the first one still  *)
(* runs.  A worker handles one event at a time, so the per-tenant          *)
(* semaphore of grade_attempt_background never makes it wait.              *)
(***************************************************************************)

Deliver(g, r) ==
  /\ phase[g] = "idle"
  /\ r \in pending
  /\ IF \A h \in Graders : job[h] # r
       THEN UNCHANGED <<doubtful, faults>>
       ELSE /\ faults < MaxFaults
            /\ faults' = faults + 1
            /\ doubtful' = doubtful \cup {r}
  /\ phase' = [phase EXCEPT ![g] = "check"]
  /\ job' = [job EXCEPT ![g] = r]
  /\ tries' = [tries EXCEPT ![g] = 0]
  /\ UNCHANGED <<limit, rows, lock, requests, pending, read, abandoned, raced>>

NeverGraded(g) == FALSE

SubmissionHasScore(g) == latest # None

\* attempt.score is not None.
AlreadyGraded(g) == job[g] \in scored

\* _check_idempotency in a session of its own; when it fails, grading goes on.
Check(g) ==
  /\ phase[g] = "check"
  /\ \/ /\ phase' = [phase EXCEPT ![g] = IF AlreadyGraded(g) THEN "ack" ELSE "load"]
        /\ UNCHANGED <<doubtful, faults>>
     \/ /\ faults < MaxFaults
        /\ faults' = faults + 1
        /\ doubtful' = doubtful \cup {job[g]}
        /\ phase' = [phase EXCEPT ![g] = "load"]
  /\ UNCHANGED <<limit, rows, lock, requests, pending, job, read, tries, abandoned, raced>>

\* Load attempt and submission, flush status GRADING_IN_PROGRESS and read the
\* answers.  The flushed row stays locked, and the status invisible, until the
\* commit after the AI call.
Load(g) ==
  /\ phase[g] = "load"
  /\ lock = None
  /\ lock' = g
  /\ read' = [read EXCEPT ![g] = sheet]
  /\ phase' = [phase EXCEPT ![g] = "grading"]
  /\ UNCHANGED <<limit, rows, requests, pending, job, tries, history, faults>>

StatusForgotten == status

\* The status the submission is left with.
StatusWhenScored == "graded"

\* Score, latest score and status GRADED in one commit.  An exam without
\* questions scores None, which leaves the attempt unscored.
Score(g) ==
  /\ phase[g] = "grading"
  /\ scored' = IF Questions = {} THEN scored ELSE scored \cup {job[g]}
  /\ latest' = IF Questions = {} THEN None ELSE job[g]
  /\ status' = StatusWhenScored
  /\ lock' = Unlock(g)
  /\ phase' = [phase EXCEPT ![g] = "persist"]
  /\ UNCHANGED <<limit, exists, attempts, number, sheet, requests, pending, job, read, tries,
                 history, faults>>

\* _bulk_upsert_graded_answers writes the answers it read back, with the grades.
PersistGrades(g) ==
  /\ phase[g] = "persist"
  /\ AnswersStorable
  /\ sheet' = read[g]
  /\ phase' = [phase EXCEPT ![g] = "ack"]
  /\ UNCHANGED <<limit, exists, attempts, status, latest, number, scored, lock,
                 requests, pending, job, read, tries, history, faults>>

\* A statement raises (a row lock held too long included): the session rolls back,
\* the dispatcher runs the handler again or gives up.  An error of the bulk write
\* is caught, but it has aborted the transaction the queries after it run in.
GradingFails(g) ==
  /\ phase[g] \in {"load", "grading", "persist"}
  /\ lock' = Unlock(g)
  /\ read' = [read EXCEPT ![g] = Blank]
  /\ tries' = [tries EXCEPT ![g] = @ + 1]
  /\ IF tries[g] + 1 < MaxRetries
       THEN /\ phase' = [phase EXCEPT ![g] = "check"]
            /\ UNCHANGED abandoned
       ELSE /\ phase' = [phase EXCEPT ![g] = "ack"]
            /\ abandoned' = abandoned \cup {job[g]}
  /\ UNCHANGED <<limit, rows, requests, pending, job, raced, doubtful, faults>>

Idle(g) ==
  /\ phase' = [phase EXCEPT ![g] = "idle"]
  /\ job' = [job EXCEPT ![g] = None]
  /\ read' = [read EXCEPT ![g] = Blank]
  /\ tries' = [tries EXCEPT ![g] = 0]

\* The offset is committed.
Acknowledge(g) ==
  /\ phase[g] = "ack"
  /\ pending' = pending \ {job[g]}
  /\ Idle(g)
  /\ UNCHANGED <<limit, rows, lock, requests, history, faults>>

\* The worker dies or its commit is refused: the event is delivered again.
Crash(g) ==
  /\ phase[g] # "idle"
  /\ faults < MaxFaults
  /\ faults' = faults + 1
  /\ lock' = Unlock(g)
  /\ Idle(g)
  /\ UNCHANGED <<limit, rows, requests, pending, history>>

-----------------------------------------------------------------------------
Run(g) == Check(g) \/ Load(g) \/ Score(g) \/ PersistGrades(g) \/ GradingFails(g) \/ Acknowledge(g)

Next ==
  \/ \E r \in Requests :
       \/ Lookup(r)
       \/ InsertRow(r)
       \/ \E q \in Questions : StoreAnswer(r, q)
       \/ Abort(r)
       \/ Refuse(r)
       \/ RecordAttempt(r)
       \/ Emit(r)
  \/ \E g \in Graders :
       \/ \E r \in Submits : Deliver(g, r)
       \/ Check(g)
       \/ Load(g)
       \/ Score(g)
       \/ PersistGrades(g)
       \/ GradingFails(g)
       \/ Acknowledge(g)
       \/ Crash(g)

SafetySpec == Init /\ [][Next]_vars

(***************************************************************************)
(* Workers run what they are handed (TaskDispatch, EventuallySettled); a   *)
(* request in flight ends, as its statements are timed out; nobody has to  *)
(* send a request.                                                         *)
(***************************************************************************)
Fairness ==
  /\ \A g \in Graders : WF_vars(\E r \in Submits : Deliver(g, r)) /\ WF_vars(Run(g))
  /\ \A r \in Requests : WF_vars(Abort(r)) /\ WF_vars(Emit(r))

Spec == SafetySpec /\ Fairness

-----------------------------------------------------------------------------
(***************************************************************************)
(* Properties.                                                             *)
(***************************************************************************)

\* attempt_number leaves no gap, whatever races: an attempt numbered n means
\* that attempts 1 .. n exist, and the counter is 0 or names an attempt.
NumbersHaveNoGap ==
  \A n \in 1 .. limit :
    (n <= attempts \/ \E r \in Submits : n <= number[r]) => \E r \in Submits : number[r] = n

\* Without concurrent submits no two attempts share a number, so the limit of
\* submit_exam holds and the counter is the number of attempts.
RacelessNumbering ==
  ~raced =>
    /\ attempts = Cardinality(Recorded)
    /\ \A r, s \in Recorded : number[r] = number[s] => r = s

\* When every recorded attempt has its score, the row says so: it is graded, and
\* its latest score is the score of one of them.  No grader that lost its lock,
\* was overtaken or was run twice leaves the row behind.
AllScoredIsGraded ==
  (Recorded # {} /\ Recorded \subseteq scored) => status = "graded" /\ latest \in Recorded

\* A score is written once, also when the event is delivered again after a crash
\* between the commit of the score and the commit of the offset, unless two
\* workers had the event at once or the idempotency check itself failed.
ScoredOnce ==
  [][\A g \in Graders : (Score(g) /\ job[g] \in scored) => job[g] \in doubtful]_vars

\* An attempt whose event reached the topic is scored or given up after the
\* retries: no lock, crash or redelivery leaves it ungraded silently.
EventuallyResolved ==
  \A r \in Submits : (r \in pending) ~> (r \in scored \cup abandoned)
=============================================================================
