# Wazire in TLA+

Wazire is an examination platform for schools: a FastAPI backend with PostgreSQL
and Redis, Kafka for background work, worker processes that consume it, a
scheduler, and a React frontend. This directory holds TLA+ modules for the parts
whose correctness depends on the order in which several processes act, the TLC
configurations that check them, and proofs about the five modules of the backend's
protocols and about the exam page, the session and the pages of the frontend.
Paths below are relative to the repository; `backend/` is `src/backend/`.

## 1. Inventory

### The parts and how they interact

    exam page --PATCH--> API --events--> Kafka --> worker x2 --> PostgreSQL
                          ^                ^          |
    lecturers, admins ----+     scheduler -+          +--> AI service, payment gateway
                          ^                                          |
                          +------------------- webhooks -------------+

| Part | State it keeps | Operations | What makes it correct |
|---|---|---|---|
| Task queue (`core/utils/kafka/`, `worker.py`) | log and committed offsets per partition; handler registry, current record and tries per worker | publish, fetch, run handler with retries, dead-letter, commit, start, stop | nothing acknowledged that nobody finished with; order within a partition; no rerun without a fault; no record stuck |
| Submissions and grading (`services/academic/submissions.py`, `tasks/submission.py`) | submission row (counter, status, latest score), attempts, answers; per request and per job what it loaded | start, submit, scan, grade | numbering and limit of attempts, one score per attempt, row agrees with the attempts, no attempt silently ungraded, stored answers survive |
| Exam lifecycle (`scheduler.py`, `tasks/exam.py`, `routes/academic/exams.py`, `services/academic/exams.py`) | exam row (start, duration, end, status), events under way, forced submissions | create, edit, status tick, force tick, both handlers, start, submit | status in step with the clock, end time consistent, nobody forced early or over their own submission, the exam finishes |
| Semester billing (`scheduler.py`, `tasks/billing.py`, `services/billings/`, `routes/billings/`) | semester (ended, billed), invoices (status, reference), gateway transactions | billing job, initiate, webhooks, edits | paid means charged, paid stays paid, a payment reaches its invoice |
| Answer autosave (`frontend/src/pages/TakeExam.tsx`, `routes/academic/answers.py`, `tasks/question.py`) | page queue, localStorage copy, saves in flight, answers topic, `student_answers` | enter, save, retry, submit, reload, publish, store | the newest answer is not dropped while the page is open, arrives, and what is queued is sent before the exam is submitted |
| Question bank, detection, preload cache (`tasks/question.py`, `routes/academic/questions.py`) | questions, Redis key and sentinel | CRUD, preload, cached read, answer detection | readers see the questions as edited |
| Courses, enrolments | rows with unique keys | CRUD, bulk enrolment | a bulk insert that meets a duplicate reports what it did |
| Tenants, users, tokens, auth cache (`core/middleware/auth.py`, `services/account/`) | rows, tokens, per-process cache | login, register, create an institution, token checks, invalidation | a deactivated user or tenant is refused |
| Session and routes (`frontend/src/` `App.tsx`, `contexts/AuthContext.tsx`, `config.ts`, `apis/client.ts`) | token and user in localStorage, user and URL of each tab | load, sign in and out, register, go to, call, 401 | memory and store name the same user, a refused tab leaves, no blank page stays |
| Exam page (`frontend/src/pages/TakeExam.tsx`, `components/Layout.tsx`) | two mounted copies: deadline, answers, locks; the URL | start, continue, answer, count down, submit | the time is neither extended nor cut short, an open exam is submitted, one submit per copy |
| Course page (`CourseDetail.tsx`) | rows, page, filter, dialogs, locks, per tab of the page | load, list, enrol, remove, delete the course | no lock stays, no empty page, the spinner ends with the last query |
| List pages (`Exams.tsx`, `Courses.tsx`, `UserManagement.tsx`, `Submissions.tsx`) | React Query's cache by key, page, filter, dialog | list, turn pages, filter, create, delete, refetch | the settled list is current, students see their own |
| Question editor (`ExamQuestions.tsx`) | list, one form for two dialogs, one lock | create, edit, delete, upload, filter | the list is current after saves and deletions, one save at a time |
| Pages of one record (`EditExam.tsx`, `EditCourse.tsx`, `tenants/EditTenant.tsx`, `ExamDetail.tsx`, `Tenants.tsx`) | the record as loaded, the form | load, edit, save, browser history | a save keeps what was not touched, a view shows the record it names |
| AI engines, key rotator (`services/engine/`, `core/utils/key_balancer.py`) | key states and cool-downs | grade, take key, mark key | no limited key is handed out while another is free |
| Payment methods, plans, usage | rows | CRUD, set default | one default method |
| Dashboard, e-mail, shell (settings, middleware), schemas, billing and dashboard pages | derived or none | reads, external calls | no state of their own to go wrong |

The pages speak to the API only; the worker, the scheduler and the API share
tables and Kafka. The tabs of a browser share localStorage.

### What is hard to test

Delivery is at least once: a worker can leave between its work and its offset
commit, or be overtaken by a rebalance, so every handler can run twice, even at
the same time. Every handler and request reads rows in one statement and writes
them in another, without locks in between; SQLAlchemy writes the columns that
differ from what was *loaded*. Events are published before the commit they
announce (billing, forced submissions) or after it (grading), and either order
has its own way of losing something. The exam page runs several saves of one
question at once. In the frontend every answer comes back to a page that may have
been turned, filtered, closed or reopened since it asked; forms send fields
nobody touched; and `Layout.tsx` mounts every page twice, so two copies of the
exam page count down and submit. `PROJECT.json` lists these hazards at their lines, each with
the properties that cover it or the reason none does.

## 2. Modules

| Module | What it is |
|---|---|
| `TaskDelivery` | abstract at-least-once queue: tasks are published, settled, acknowledged |
| `TaskDispatch` | dispatcher, worker and producer over partitions, offsets and group assignment; implements `TaskDelivery` |
| `SubmissionGrading` | one student's submissions to one exam: API requests and grading jobs over shared rows |
| `ExamLifecycle` | one exam: clock, scheduler, workers, lecturers, students |
| `SemesterBilling` | one semester: billing job, workers, gateway, webhooks, administrators |
| `AnswerSaving` | one student's answers from the exam page to the table |
| `ExamSitting` | one student at the exam page, in one or two copies, and the clock |
| `Session` | the tabs of a browser, localStorage, routes and the account endpoints |
| `CourseRoster`, `CourseExams` | the two tabs of a course's page |
| `ListPages` | the four pages that list through React Query |
| `ExamQuestions` | the question editor of an exam |
| `RecordPages` | forms and views of one exam, course or institution |
| `Pages` | the five modules above as one application with one page open |
| `TaskDispatch_proofs`, `SubmissionGrading_proofs`, `ExamLifecycle_proofs`, `SemesterBilling_proofs`, `AnswerSaving_proofs`, `ExamSitting_proofs`, `Session_proofs`, `Pages_proofs` | theorems about the module each is named after |

`SubmissionGrading`, `ExamLifecycle`, `SemesterBilling` and `AnswerSaving` take
what `TaskDispatch` guarantees as their model of delivery: an event stays until it
is acknowledged, is handed to one worker unless a fault hands it out again, and is
given up after `MaxRetries` failed runs. `ExamLifecycle` leaves the steps of a
submission to `SubmissionGrading`, and `ExamSitting` the way of an answer to
`AnswerSaving`.

### TaskDispatch

One action per step of `_handle_message`: `Fetch` decodes and looks up the
handler, `HandlerReturns` / `HandlerRaises` are its runs, `ForwardToDeadLetter`
and `Commit` what follows. A record that decodes to something that is no JSON
object, or whose event is unhashable (`NoObject`), makes `payload.get` or the
lookup raise (`consumer.py:164-166`): nothing of `_handle_message` catches that,
`_run_loop` logs it (`l.137-139`) and takes the next record. This is `Skip`; the
record was neither handled nor dropped nor dead-lettered, and the next commit of
the partition acknowledges it. `Settled` therefore means finished with: handled,
dropped as unknown, skipped, dead-lettered or given up. `log`, `committed`, `assigned` and `position` are the
broker's; `Rebalance` is forced while a partition has no owner and counts as a
fault otherwise. `Commit` may fail silently, as `_commit` swallows every error.
`WorkerPublishes` says whether the process has started `producer_service`:
`worker.py` never does, so `FALSE` is the system as deployed, and a failing
record is then acknowledged without being forwarded (run `dispatch_deployed`,
with the code's `MaxRetries` of 3: the record fails three times).

### SubmissionGrading

`stage` is where a request is between its database steps (`Lookup`, `InsertRow`,
`StoreAnswer`, `RecordAttempt`, `Emit`; `Refuse` and `Abort` end it), `phase` the
same for a grading job (`Check`, `Load`, `Score`, `PersistGrades`,
`Acknowledge`). `seen` and `read` are what each loaded; `lock` is the row lock of
the submission, held by whoever has flushed and not committed. Two constants say
whether what stops every submission in the code as committed is in the way:
`ExamQueryLoads` is `FALSE` there, as `selectinload(Exam.course)` names a
relationship no model declares and `submit_exam` raises at once;
`AnswersStorable` is `FALSE`, as `student_answers.tenant_id` is NOT NULL and the
service inserts NULL. With either `FALSE` the steps behind it are never reached,
so the run sets them `TRUE` and looks at the code behind; the theorems hold for
either value. That a scan overwrites the answers saved at the exam page is
modelled (`StoreAnswer`), but no run makes a claim about it: the code as committed
never gets there. Two submits that race both pass the check of `max_attempts`, so a
student may get one attempt more than the exam allows.

### ExamLifecycle

Time is counted in 12 seconds: 300 to the hour, 5 to the minute, 3 to the
hundredth of an hour. This is what `duration` needs, a `Numeric(5, 2)` of hours:
`Lasting` is what hours and minutes amount to, `Rounded` what the column keeps of
it, and `end_time` is computed from the former. An exam of 1 h 40 min ends 500
units after its start and has a duration of 501 (run `exam_rounding`); the
scheduler and the handlers go by the duration (`End`), everybody else by
`end_time`. `RouteDuration` and `ServiceDuration` keep apart the duration the
route computes the status with and the one the service computes `end_time` with,
which cuts what it takes from the loaded row to whole minutes.

`TickStatus` publishes. The force tick reads the exams first (`FindOver`, which
sets `found`) and then awaits one publish after another (`PublishForce`, or
`PublishFails`), so an edit may fall between the two.
`ReadStatus`/`WriteStatus` and `ReadAbsent`/`InsertForced`/`CommitForced` are the
two handlers; `GradeForced` is the grader of a forced attempt when it succeeds, or
finds no attempt, and `GiveUp` the dispatcher after the last failed run of it.
`OpenEdit`/`SaveEdit` are an edit, whose `Patched` row is written column by
column, the duration rounded (`Written`). `disturbed` records what an edit may
legitimately put out of step; the invariants excuse exactly that.

Two constants say what stops parts of this in the code as committed.
`ExamQueryLoads` is `FALSE` there: `ExamService.get`, `create`, `update` and
`list` load with `selectinload(Exam.course)` and `.submissions`
(`services/academic/exams.py:60-61, 68-69, 117-118`), which no model declares, so
every edit, list and submission raises before it has done anything. A creation
raises too, but only after its commit (`l.55`): exams exist. `AttemptNumbered` is
`FALSE`: the forced attempt lacks its NOT NULL number and the batch rolls back.
The passing run takes both as repaired, the runs `exam_abandoned` and
`exam_rounding` take both as committed.

### SemesterBilling

`DraftInvoice` flushes and publishes, `CommitInvoice` commits; `Initiate` opens a
gateway transaction and `Persist` stores its reference over any earlier one;
`Charge` is the school paying, `ReadHook`/`CommitHook` the webhook. `Matching`
compares the reference a webhook carries with the stored one. For Monnify these
come from different fields (`payment_gateway.py:177` and `:210`), so no payment is
ever found; the run uses Paystack, the theorems hold for both. Administrators end
and edit the semester (`EndSemester`, `EditSemester`), set the status of an invoice
(`EditInvoice`) and create one themselves (`CreateInvoice`, POST
`/billing/invoices`), for a billed semester too: nothing keeps a semester from
being invoiced twice, so no property says so. `GivenByHand` are the statuses they
give. A `payment_reference` written by hand (PUT `/billing/invoices/{id}` takes
one) is not modelled: the references in the model are the gateway's.

### AnswerSaving

`Enter` sends an answer at once (`direct`); `DirectFails` puts it into `pending`
(pendingRef, with `kept` its localStorage copy) and starts processQueue, whose
snapshot is `batch`; `QueueSaved` deletes the question from the queue whatever is
there by now. `Accept` is the API publishing, `Store` the worker. A save that
failed for the client may have timed out only there: `LeavesTheWire` keeps it
among the `orphans`, and `AcceptLate` is the API publishing it after all, perhaps
over a newer answer. `Submit` copies the queue back from localStorage and submits,
and once the page is left its interval is gone and with it what was queued.

`BodyHasAnswer` is `FALSE` as committed: the route reads `body.answer`
(`routes/academic/answers.py:44`), which `AnswerCreate`
(`schemas/academic/answer.py:10-20`) does not declare, so every save is an error
before anything is published. `AnswersConsumed` is `FALSE` too: the only consumer
subscribes to another topic. The run `answers` takes both as repaired and looks at
the protocol behind; `answers_submit` takes the code as it is, where every answer
ends in the queue and the submit leaves it there. `Layout.tsx` mounts two copies of
the page, which share localStorage; this module has the one the student sees and
answers on, and leaves out that the queue of the other copy can be written over it.

### ExamSitting

`copy` is the state of each mounted copy of `TakeExam`; the student sees and uses
one of them. `Visit` is a link, a reload or a typed URL (new copies), `Back` the
way from the exam to its start screen (the copies stay, both load again), `Leave`
every other link. `Start`, `Continue`, `Answer`, `Turn` and `Submit` are the
student's. `Second` is the passing of a second, after which the interval of
each copy may fire once (`due`, `Timer`): `NextLeft` is the remaining time by the
deadline, or one second less where there is none, and at 0 the copy submits
(`SubmitBy`, unless it is submitting). The effect of the interval depends on
`handleSubmitExam`, and this on the answers (`TakeExam.tsx:267, 289`): every choice
and every keystroke starts the second anew (`Answer` clears `due` of that copy), as do
a load, a submit and the way between the two screens. A student who never pauses for
a second is never submitted; the other copy, whose answers do not change, goes on
counting. What is entered and how it reaches the server is left to `AnswerSaving`.

`Serve`, `Lose`, `Arrive` are the request at the server, lost, and answered; a copy
that is gone is no longer answered (`Orphaned`), though its submit still leaves the
page. A submit without a start makes the submission (`Begun`). Both copies submit when
the time runs out, and the server records an attempt for each. An exam loaded
after its end has no time left, so its interval never runs and it is never
submitted automatically, whatever `TakeExam.tsx:537` says; the liveness property
speaks of those loaded before. Loading is taken to work (`ExamQueryLoads`).

### Session

`store` is localStorage, shared by the tabs; `tab` is what each has in memory.
`Boot` is `AuthProvider`'s effect, `Land` the redirections of the routes in
`App.tsx`, `Allowed` its roles. Every form sends one request and locks its button
(`Send`); `Serve` answers, with 403 to a call without a token and 401 to one with
an expired token; `ArriveEnding` is the interceptor of `client.ts`, which clears
the store and loads `/login` whoever the 401 was for, a wrong password included.
`past.elsewhere` names the tabs behind whose back another tab signed in or out,
`past.late` says that an answer to an earlier session was stored; the invariants
excuse these. `Institute` leaves an administrator without an institution:
`tenants.py:150-155` gives the link the id of a row that has none yet, so the
application keeps asking for one.

### Pages

Each of the page modules has the same three-step requests (sent, served or lost,
arrived) and keeps what the page keeps: which dialog is open, what it is about,
the locks of the buttons, the rows and the query they answer (`of`).

- `CourseRoster`: `Enrol`, `Remove` and the relists that follow them, the paging
  and the filter (semester and year behave alike and are one filter).
- `CourseExams`: the list by year, the deletion of the course, *Try again*. The
  route counts the exams of the tenant whatever course and year it lists
  (`routes/academic/exams.py:111-133`), so `More` offers a next page by all of
  them, those of other courses (`others`) included. In both tabs a jump of the
  browser's history to another course, which does not mount the page anew, is left
  out.
- `ListPages`: `cache` is React Query's, by the key of page, filter and
  enrolments (`Key`); `Observe` fetches a key that is not cached. `Refetch` cancels
  the fetch under way and asks again only if the key has data; during the first
  load it joins that load, which may be older than the change (`early` remembers
  it). `ExamsAnswer`, `CoursesAnswer`, `UsersAnswer`, `SubmissionsAnswer` are the
  four lists. The objects `lib/types.ts` puts into an answer (the course of an exam,
  its lecturer) are taken to be there, though the server sends ids (`Exams.tsx:73`,
  `Courses.tsx:108`), else the pages show nothing to look at. An exam submitted
  without hours leaves the button of the form locked for good (`Exams.tsx:151`).
  The edit dialog of `UserManagement.tsx` is left out.
- `ExamQuestions`: one `form` serves the dialog that creates and the one that
  edits, and one lock serves both and the upload. The route the upload calls does
  not exist. The *Delete Question* button has no lock (`ExamQuestions.tsx:1197-1202`):
  `ConfirmDelete` may send the same deletion twice.
- `RecordPages`: `Filled` is what a form makes of an answer, `Sent` what it sends
  of it and `Written` what the server makes of that: PUT `/academic/exams/{id}` sets
  the status by the start, the duration and the clock, whatever is sent. Here the
  missing nested objects are modelled, as they decide which field a save overwrites.
  `Jump` is the browser's history, which takes a mounted page to another record;
  `Other` is an edit by somebody else, `Attempt` an attempt recorded elsewhere while
  the page is open. `past` remembers what was loaded and touched, which exams had an
  attempt when the page was opened, and whether the check for one failed: a failed
  check counts as none, and *Take Exam* is offered (`ExamDetail.tsx:74-76`).

The lists and records of exams are taken to load (`ExamQueryLoads`): as committed
their routes raise, and the pages show an error.

`Pages` composes them: `open` says which page a behaviour is of, the variables
are shared, and each module is an `INSTANCE ... WITH` over them. Its properties
are one per kind of hazard, with a case per page.

Rows are kept as sets: a page of a listing is the rows with the right number of
others before them (newest first, or as `Before` says), which is how `OFFSET` and
`LIMIT` cut a sorted list. Requests and answers are records. `PagesAssumption` says what the pages need of
the constants: finitely many students; a positive page size and number of
questions; the answers `None`, `Ok` and `Failed` differ from each other, and
`Failed` from a list; an empty field (`Blank`) is no value, `None` no record.

## 3. Runs

| Run | Instance | Shows |
|---|---|---|
| `dispatch` | 2 workers, 1 partition, 2 records, 2 faults, 2 tries | order, acknowledgement, rerun only after faults, refinement of `TaskDelivery`, every record settled |
| `dispatch_deployed` | the worker without a producer | violated: acknowledged means handled or forwarded |
| `submission` | a start, a submit, a scan, 2 graders, limit 1 or 2, 1 fault | numbering, status, one score, nothing silently ungraded |
| `exam` | 2 workers, 1 lecturer, 1 student, 2 starts, 1 h 40 min, 4 instants, 1 fault | status not ahead of the clock, end time keeps the duration, forced submissions, the exam finishes |
| `exam_abandoned` | as committed, 1 student, no edits | violated: nobody is left unsubmitted |
| `exam_rounding` | as committed, durations of 1 h and 1 h 40 min | violated: `end_time` is start plus duration |
| `billing` | 2 invoices, 2 Paystack transactions, 1 worker, 2 webhooks, 1 fault | paid was charged and stays, a charge is recorded |
| `answers` | 2 questions, 2 answers, 1 reload or fault | newest answer kept and stored, what is queued is sent again |
| `answers_submit` | as committed, 1 answer | violated: what is queued is saved before the submit |
| `pages` | each page; pages of 1 row, 2 or 3 rows, 1 failure, 1 edit by others | locks, current lists, what students may see, spinners, saves that keep the rest |
| `sitting` | 1 or 2 copies, 2 seconds, 2 questions, limit 2, 1 visit, 1 failure | the time is not extended or cut short, one submit per copy, an open exam is submitted |
| `session` | 2 tabs, an administrator, a student, 2 tokens, 2 calls, 1 reload, 1 lost request | memory and store agree, a refused tab leaves, a loading tab gives way |

The violated runs are disagreements between the code and a statement of the
repository; `PROJECT.json` quotes the statements under "findings". In `session`
and `sitting` the type invariant is a conjunct of `SessionIsConsistent` and
`SittingIsConsistent`.

Bounds. Two actors of a kind are what every race here needs: the interleavings
are between two handlers, a handler and a request, two requests, two tabs or two
copies of a page. One fault suffices for a redelivery, which puts two runs of a
handler side by side; the dispatcher gets two, so that a worker can leave after a
rebalance. Two records in one partition are the least in which order matters.
An exam may start at once or at 100 and moves between the two, and its one duration is
one that rounding changes; of the instants looked at (`Instants`: 0, 100, 500, 700) the
first two are the starts, 500 is the end of the earlier exam by its `end_time` and not yet
by its duration, and 700 is past every end. Two
answers, to one question or to two, are enough for one to overtake, replace or
hold up the other. In `pages` a page holds one row (`PerPage` 1), so that two
items already make two pages, three make a page before and after the one that
empties, and a deletion changes how many pages there are; two filters, records
and students are the least that can be confused; two requests beside the list's
(`MaxChanges`, `MaxOpens`) can be answered in either order, and one failure or
edit by others (`MaxFailures`, `MaxEvents`, `MaxFaults`) is what the properties
excuse or must survive; a course of exams stands beside no exams of other courses or a
page of them. It has 1.5 million states up to renaming students, terms,
courses and years, which the pages treat alike (`Symmetry`; the run has no
liveness property). In `sitting` the exam lasts two seconds, so that a load can
come before, at and after its end; in `session` two tokens are a sign-in by
each user or one again after the first. Bounds are in the guards of faults,
publications, entries, visits and sends only; each is a constant with the comment
"bound".

Deadlock checking is off in every configuration: requests, edits and faults are
finite by their bounds, and the system may stop once they are used up. That it
does not stop early is what the liveness properties say.

Fairness. Workers take what is queued and run what they took: asyncio runs a
task that can run, database calls are timed out, containers are restarted
(`docker-compose` `restart`). APScheduler fires its interval jobs for ever, and
the clock runs. In `ExamLifecycle` taking an event is strongly fair, as workers
are busy with other events in between. The gateway repeats a webhook until it is
answered with 200. In `AnswerSaving` the page's interval fires while it is mounted and
the client's time-out ends every request; that one of them ever gets through is not
assumed. In `ExamSitting` time goes on,
the interval of a mounted copy fires, and requests are served and answered (axios
and the server both time out; a lost one is answered by an error); in `Session`
a page that loads runs its effect, and requests are served and answered. Nobody
has to submit, edit, pay, enter or open anything, and no fault has to happen.

## 4. Proofs

Every theorem is about the safety part of a specification (`SafetySpec`; of
`SubmissionGrading` and `Pages`, `Spec`) and holds for every value of the constants
that the module's assumption allows: any sets of workers, requests, students,
questions, invoices, records, and every bound. Each module of proofs states one
inductive invariant `IInv` (`PagesInv` in `Pages_proofs`, with a case per page),
proves that the initial states and every action keep it, and takes the properties
from it.

| Module | Theorem | Property |
|---|---|---|
| `TaskDispatch_proofs` | `Typing` | `TypeOK` |
| | `AtLeastOnce` | `AckedIsSettled` |
| | `SettledInOrder` | `InOrder` |
| | `OnceWithoutFaults` | `RedeliveryNeedsFault` |
| | `ImplementsDelivery` | `DeliverySafety`, the refinement of `TaskDelivery` |
| `SubmissionGrading_proofs` | `Types` | `TypeOK` |
| | `NoGap` | `NumbersHaveNoGap` |
| | `NumbersWithoutRaces` | `RacelessNumbering` |
| | `ScoredIsGraded` | `AllScoredIsGraded` |
| | `NoSecondScore` | `ScoredOnce` |
| `ExamLifecycle_proofs` | `Typing` | `TypeOK` |
| | `StatusKeepsTime` | `StatusNotAheadOfClock` |
| | `EndStaysInStep` | `EndKeepsDuration` |
| | `ForcedOnTime` | `ForcedAfterEnd` |
| | `OwnStands` | `OwnSubmissionStands` |
| `SemesterBilling_proofs` | `Typing` | `TypeOK` |
| | `PaidIsCharged` | `PaidWasCharged` |
| | `PaymentStands` | `PaidStays` |
| `AnswerSaving_proofs` | `Typing` | `TypeOK` |
| | `NothingNewestIsLost` | `NewestIsOnItsWay` |
| | `TableCatchesUp` | `SettledIsNewest` |
| `ExamSitting_proofs` | `TimeStands` | `SittingIsConsistent` |
| | `NeverEarly` | `NotSubmittedEarly` |
| `Session_proofs` | `ShownIsSignedIn` | `SessionIsConsistent` |
| `Pages_proofs` | `TypeCorrect` | `TypeOK` |
| | `LocksAreRequests` | `OneRequestAtATime` |
| | `SettledPages` | `SettledPageIsCurrent` |
| | `ChecksComeFirst` | `ShownAfterTheCheck` |
| | `SpinnerEnds` | `SpinnerEndsWithQuery` |
| | `SavesKeep` | `SavesKeepTheRest` |

*Task queue.* `AckedIsSettled` is not inductive: a commit acknowledges
`offset + 1`, that is everything below its record, so it needs that everything
below the record a worker holds is settled; and that needs that a consumer never
reads past a record it has not settled. The inductive invariant therefore says,
per partition, that all records below the committed offset and below the record
being worked on are settled, and that the owner's next position is at most one
past what is settled, a skipped record included, or in its hands. A rebalance restores it because consumers
resume at the committed offset, a stale worker because the broker refuses its
commit. Order, reruns and the refinement follow from it and from lemmas about what
each action adds to the settled set.

*Submissions.* One inductive invariant carries three arguments. Numbering: a
request numbers its attempt one past the counter it loaded, so it is not enough
that the numbers up to the counter are taken; it must hold for every counter any
request still has in its session (`Gapless`). Races: without one, at most one
submit is between its lookup and its commit, and the counter it loaded is still
the counter (`Raceless`). Scores: only recorded attempts are ever pending, handed
out or scored (`OnlyRecorded`), and of two graders with the same attempt, or one
with an attempt already scored, the history says that a fault brought it about
(`Doubts`). The proofs go by who acts: a request leaves the graders' state alone
and a grader the numbering, so each part is disturbed by one kind of step only
(`RequestFrame`, `GraderFrame`).

*Exams.* A handler writes what it found to be due when it read the row. The clock
only advances, so that is still due when it writes, unless the row was edited in
between, which `disturbed` records (`TargetsAreDue`). The same goes for the force tick
from its read on: found, published late, queued or in hand, an event is due
(`ForceUnderWay`, `ForceIsDue`). `end_time` needs that what an edit writes column by
column, with the duration rounded, is what it would have been as one: rounding the
minutes the service cuts from a stored duration gives that duration again. A
student is forced only by a commit of inserts made while there was no submission
of theirs, and no two handlers hold inserts for one student: the unique row
keeps the second out (`InsertedHaveNone`).

*Billing.* A transaction never changes the invoice it was opened for. So what a
worker or a webhook holds since an earlier step, be it the reference it is about
to store or the invoice it has found, still names one and the same invoice when it
writes, however often the row's reference was replaced meanwhile
(`WorkersAgree`, `HooksAgree`); ids of rows made by hand are not the job's
(`RowsAreUsed`).

*Answers.* As long as no save of a question failed beside another one, the queue
holds what is being sent from it, and every other save on the wire is newer
(`QueueLeads`); so the save that empties the queue, or replaces an entry, never
takes the newest answer with it. The invariant speaks of a page that keeps its memory
when it is left (`NewestHeld`), the property only of one that is open. Without a race
only the newest answer is outstanding anywhere, with the saves nobody waits for any more
and the API may still publish, and until it is in the table it waits somewhere
(`OneOutstanding`). The set of questions has to be finite, as the bound
on entries counts them over all questions.

*Exam page.* One submit per copy is a matter of the lock: the button shows progress
while that copy's submit is in flight, the only one (`SubmitsAgree`). That the time
is not extended rests on a count. A load that was served before the student had
started says so whenever it is answered (`Blind`); a copy that believes it late
could start, or take the start of the exam, with no deadline. `FewOnStart` and
`FewInExam` bound how many such loads are left: while the copy offers to start or
is starting, none, or only the last load of all; in the exam none beside a start;
otherwise one, or two as long as the copy shows its spinner on the start screen.
Every other answer, and what the copy shows, agrees with the server
(`AnswersTrue`, `ShownTrue`). All of that is about runs without a failure, because a
load without the submission looks like a student who has none. That the interval
submits no exam early follows for the copy that is seen; the hidden one has what it
takes the student to have started by from one load, which says when (`OthersTrue`).

*Session.* What a page stores or shows comes with an answer, and a request carries
the token it was sent with (`AnswersNameUsers`). So an answer names the user of the
session in the store, or it is late, and the history says so; the user and the token
beside it, and the user of a tab no other tab has replaced, agree.

*Pages.* The locks are the same argument five times, said once (`Locks`): there is at
most one request of the kind, and there is one exactly while the button is locked.
What each page adds:

- Roster: a list in flight is for the page and filter that are chosen, since
  choosing waits for the spinner; so whichever answer ends the spinner is the one
  that was asked for (`RosterInv`).
- Exams of a course: there is one list in flight, that of the query chosen, asked for
  from a page with rows (`ExamsLists`); an answer says how many rows there were and
  whether there are more, and nothing on this page takes an exam away except with the
  course; so, if the tenant has no other exams, the next page a student turns to has
  rows (`ExamsSays`, `ExamsRows`).
- Lists: with no change the page has yet to hear of, or heard of before it had a list
  (`ListsUnheard`, `early`), every answer to the current query, and what is cached under
  it, is what the server would say (`ListsFresh`); when the page hears of a change it
  stops waiting for the fetches under way and asks again, so no answer from before the
  change is cached after it. A student's keys carry the enrolments they wait for
  (`ListsOwn`).
- Questions: the same with `QuestionsUnheard`.
- Forms: a field nobody touched is in the form as the answer gave it
  (`FormsFilled`), and a save carries it so (`FormsSent`) or leaves it out; a view
  shows the record it names or waits for it (`FormsView`); the check for an attempt
  comes after the load it belongs to, and finds those there were when the page was
  opened, as attempts stay (`FormsCheck`).

Left to TLC: liveness and `ENABLED`, which the prover does not handle
(`ForcedIsGraded` and `ChargeIsRecorded` are liveness too), and the properties the
code does not keep. Each inductive invariant was checked by TLC on instances like
those of the runs before it was proved.

## 5. Not modelled

`PROJECT.json` gives the reason for each part. In short: contents (answers,
grades, amounts, e-mails) are abstracted to what the properties tell apart; the AI
service, OCR, hashing and rendering are external or pure. Left out, though they
have state:

- the cache of users of an API process (`auth.py:91`), the preload cache of
  questions and the key rotator: each is private to a process or expires, and
  nothing in the repository says what a reader may expect of it;
- manual grading, deletions of submissions and invoices, invigilators;
- a payment reference given to an invoice by hand;
- the second copy of the exam page as a writer of the queue of answers;
- the edit dialog of the users' list, and the browser's history on a course's page;
- `set_default` of payment methods, and the bulk enrolment, which no page calls;
- the billing page, which shows sample data, and the dashboards, which read.

`backend/services/academic/submission.py` is an older copy of `submissions.py`
that nothing imports.

Seen while modelling, and not the subject of a run: besides what section 2
mentions (the relationships that are not declared and what they stop, the field the
answers route reads, the record that is skipped, the limit of attempts under two
submits, Monnify's reference, the second invoice of a semester, the institution that
is never linked, the exam loaded after its end or by a student who never pauses, the
two copies that both submit, the count of exams over the tenant, the *Delete Question*
button, *Take Exam* after a failed check, the locked form of an exam without hours),
the route that lists enrolments has no `year`, and an answer entered as "a" where the
route expects "A" is refused with 422. The events of answers carry no key
(`kafka_manager.emit`), so they may be stored in any order.

## 6. State of the work

Modelled, checked and proved: the five backend protocols, the exam page, the
session, and the pages with a state of their own; every safety and action property
of the passing runs is a theorem. What would come next, by weight: the preload
cache against edits of questions (a module like `ListPages`, with an expiry); the
per-process user cache against deactivation; manual grading and deletion as further
requests of `SubmissionGrading`, which would take their part of its proofs; and an
abstract ledger of attempts (each scored at most once) and an abstract payment
register, refined by `SubmissionGrading` and `SemesterBilling`.
