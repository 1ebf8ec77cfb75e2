----------------------------- MODULE AnswerSaving -----------------------------
(***************************************************************************)
(* How the answers a student enters reach academic.student_answers: the    *)
(* exam page (frontend/src/pages/TakeExam.tsx) sends each of them at once  *)
(* and keeps those it could not send in a queue, the API                   *)
(* (backend/routes/academic/answers.py) publishes UPSERT_STUDENT_ANSWER    *)
(* and answers "Answer saved", a worker (tasks/question.py) writes the     *)
(* row.                                                                    *)
(*                                                                         *)
(* The answers to a question are numbered in the order they are entered; 0 *)
(* is no answer.  Every step of the page runs up to its next await.        *)
(*                                                                         *)
(* As committed the route reads body.answer, a field AnswerCreate does not *)
(* declare, and raises before it publishes (BodyHasAnswer is FALSE of it), *)
(* and no consumer is started for "wazire-answers" (AnswersConsumed).      *)
(* Layout mounts two copies of the page; this is the one the student sees  *)
(* and answers on.                                                         *)
(***************************************************************************)
EXTENDS Integers, FiniteSets

CONSTANTS
  Questions,        \* the questions of the exam
  BodyHasAnswer,    \* does AnswerCreate declare the field the route reads?
  AnswersConsumed,  \* does any consumer subscribe to "wazire-answers"?
  MaxAnswers,       \* bound: answers entered
  MaxFaults         \* bound: reloads and events a worker fails or repeats

ASSUME AnswerAssumption ==
  /\ IsFiniteSet(Questions)
  /\ BodyHasAnswer \in BOOLEAN
  /\ AnswersConsumed \in BOOLEAN
  /\ MaxAnswers \in Nat \ {0}
  /\ MaxFaults \in Nat

VARIABLES
  page,             \* the exam page
  entered,          \* the newest answer to each question
  direct,           \* saves of saveAnswerImmediate in flight
  batch,            \* saves of processQueue in flight; 0 where there is none
  pending,          \* pendingRef: the queue of answers still to be saved, as long as
                    \* the page or a save it waits for is there
  kept,             \* its copy in localStorage
  accepted,         \* saves in flight whose event is in the topic
  orphans,          \* saves no page waits for and the API may still publish
  topic,            \* events not handled yet
  row,              \* student_answers
  published,        \* history: answers whose event reached the topic
  acked,           \* history: answers the page was told are saved
  clashed,          \* history: see Outstanding
  raced,            \* history: see Outstanding
  faults            \* counts against MaxFaults

queue   == <<batch, pending, kept>>
network == <<accepted, orphans, topic>>
history == <<published, acked, clashed, raced>>
vars == <<page, entered, direct, queue, network, row, history, faults>>

Numbers == 1 .. MaxAnswers
Saves   == Questions \X Numbers
Queues  == [Questions -> 0 .. MaxAnswers]
Empty   == [q \in Questions |-> 0]

\* The answers entered so far.
Entered == {s \in Saves : s[2] <= entered[s[1]]}

\* A queue as the saves it stands for.
Entries(f) == {s \in Saves : f[s[1]] = s[2]}

TypeOK ==
  /\ page \in {"open", "submitting", "error", "left"}
  /\ entered \in Queues
  /\ direct \subseteq Saves
  /\ batch \in Queues
  /\ pending \in Queues
  /\ kept \in Queues
  /\ direct \cup Entries(batch) \cup Entries(kept) \subseteq Entered
  /\ accepted \subseteq direct \cup Entries(batch)
  /\ orphans \subseteq Saves
  /\ row \in Queues
  /\ acked \cup topic \cup Entries(row) \subseteq published
  /\ published \subseteq Saves
  /\ clashed \subseteq Questions
  /\ raced \subseteq Questions
  /\ faults \in 0 .. MaxFaults

Init ==
  /\ page = "open"
  /\ entered = Empty
  /\ direct = {}
  /\ batch = Empty
  /\ pending = Empty
  /\ kept = Empty
  /\ accepted = {}
  /\ orphans = {}
  /\ topic = {}
  /\ row = Empty
  /\ published = {}
  /\ acked = {}
  /\ clashed = {}
  /\ raced = {}
  /\ faults = 0

\* Answers to q on the wire, and everywhere short of the table.  A question is
\* clashed when a save of it failed while another was on the wire, or when the
\* page was reloaded before it was published; it is raced when an answer was
\* entered before the one in front of it was in the table, or an event failed.
OnTheWire(q) == {s \in direct \cup Entries(batch) : s[1] = q}

Outstanding(q) ==
  OnTheWire(q) \cup {s \in orphans \cup topic \cup Entries(pending) \cup Entries(kept) : s[1] = q}

-----------------------------------------------------------------------------
(***************************************************************************)
(* The page.                                                               *)
(***************************************************************************)

\* handleAnswer and saveAnswerImmediate up to the request.
Enter(q) ==
  /\ page \in {"open", "submitting"}
  /\ Cardinality(Entered) < MaxAnswers
  /\ entered' = [entered EXCEPT ![q] = @ + 1]
  /\ direct' = direct \cup {<<q, entered[q] + 1>>}
  /\ raced' = IF Outstanding(q) = {} THEN raced ELSE raced \cup {q}
  /\ UNCHANGED <<page, queue, network, row, published, acked, clashed, faults>>

SendsFirstOnly(contents) == IF batch = Empty /\ kept = Empty THEN contents ELSE batch

\* processQueue: one run at a time, which takes what is queued now.
Sends(contents) == IF batch = Empty THEN contents ELSE batch

\* The save that failed leaves the wire; another one of its question clashes.
Clashes(s) == IF OnTheWire(s[1]) = {s} THEN clashed ELSE clashed \cup {s[1]}

AnsweredAlways(s) == TRUE

\* The API answers "Answer saved" once the broker has the event, else 503.
Answered(s) == s \in accepted

DirectSaved(s) ==
  /\ s \in direct
  /\ Answered(s)
  /\ direct' = direct \ {s}
  /\ accepted' = accepted \ {s}
  /\ acked' = acked \cup {s}
  /\ UNCHANGED <<page, entered, queue, orphans, topic, row, published, clashed, raced,
                 faults>>

\* 503 or another error, or the client's time-out, after which the API may still
\* publish the save.
LeavesTheWire(s) ==
  /\ accepted' = accepted \ {s}
  /\ \/ UNCHANGED orphans
     \/ s \notin accepted /\ orphans' = orphans \cup {s}

\* enqueueSave, over whatever is queued for the question, and processQueue.
DirectFails(s) ==
  /\ s \in direct
  /\ direct' = direct \ {s}
  /\ LeavesTheWire(s)
  /\ pending' = [pending EXCEPT ![s[1]] = s[2]]
  /\ kept' = pending'
  /\ batch' = Sends(pending')
  /\ clashed' = Clashes(s)
  /\ UNCHANGED <<page, entered, topic, row, published, acked, raced, faults>>

\* "online", or the interval of five seconds, while the page is mounted.
RetryTick ==
  /\ page # "left"
  /\ batch' = Sends(pending)
  /\ batch' # batch
  /\ UNCHANGED <<page, entered, direct, pending, kept, network, row, history, faults>>

\* The save of a queued answer returns: the question leaves the queue, also when a
\* newer answer has taken its place there.
QueueSaved(s) ==
  /\ s \in Entries(batch)
  /\ Answered(s)
  /\ batch' = [batch EXCEPT ![s[1]] = 0]
  /\ pending' = [pending EXCEPT ![s[1]] = 0]
  /\ kept' = pending'
  /\ accepted' = accepted \ {s}
  /\ acked' = acked \cup {s}
  /\ UNCHANGED <<page, entered, direct, orphans, topic, row, published, clashed, raced,
                 faults>>

QueueFailsForGood(s) ==
  /\ s \in Entries(batch)
  /\ batch' = [batch EXCEPT ![s[1]] = 0]
  /\ pending' = [pending EXCEPT ![s[1]] = 0]
  /\ kept' = pending'
  /\ LeavesTheWire(s)
  /\ clashed' = Clashes(s)
  /\ UNCHANGED <<page, entered, direct, topic, row, published, acked, raced, faults>>

\* "leave in queue for next attempt"
QueueFails(s) ==
  /\ s \in Entries(batch)
  /\ batch' = [batch EXCEPT ![s[1]] = 0]
  /\ LeavesTheWire(s)
  /\ clashed' = Clashes(s)
  /\ UNCHANGED <<page, entered, direct, pending, kept, topic, row, published, acked, raced,
                 faults>>

\* handleSubmitExam: the queue is read back from localStorage, and not sent.
Submit ==
  /\ page \in {"open", "error"}
  /\ page' = "submitting"
  /\ pending' = kept
  /\ UNCHANGED <<entered, direct, batch, kept, network, row, history, faults>>

\* Navigation away from the page, or the error screen.  The interval ends with the
\* page; what is in memory is sent once more only if a save on the wire fails.
SubmitReturns ==
  /\ page = "submitting"
  /\ page' \in {"left", "error"}
  /\ UNCHANGED <<entered, direct, queue, network, row, history, faults>>

\* The page starts afresh; requests on their way may still be served.
Reload ==
  /\ page # "left"
  /\ faults < MaxFaults
  /\ faults' = faults + 1
  /\ page' = "open"
  /\ direct' = {}
  /\ batch' = Empty
  /\ pending' = Empty
  /\ accepted' = {}
  /\ \E late \in SUBSET ((direct \cup Entries(batch)) \ accepted) : orphans' = orphans \cup late
  /\ LET cut == {q \in Questions : OnTheWire(q) # {} \/ pending[q] # 0} IN
       /\ clashed' = clashed \cup cut
       /\ raced' = raced \cup cut
  /\ UNCHANGED <<entered, kept, topic, row, published, acked>>

-----------------------------------------------------------------------------
(***************************************************************************)
(* The API and the workers.  kafka_manager.emit drops the partition key,   *)
(* so events are handled in any order.                                     *)
(***************************************************************************)

Accept(s) ==
  /\ BodyHasAnswer
  /\ s \in (direct \cup Entries(batch)) \ accepted
  /\ accepted' = accepted \cup {s}
  /\ topic' = topic \cup {s}
  /\ published' = published \cup {s}
  /\ UNCHANGED <<page, entered, direct, queue, orphans, row, acked, clashed, raced, faults>>

AcceptLate(s) ==
  /\ BodyHasAnswer
  /\ s \in orphans
  /\ orphans' = orphans \ {s}
  /\ topic' = topic \cup {s}
  /\ published' = published \cup {s}
  /\ UNCHANGED <<page, entered, direct, queue, accepted, row, acked, clashed, raced,
                 faults>>

StoreOrKeep(s) ==
  /\ AnswersConsumed
  /\ s \in topic
  /\ row' = [row EXCEPT ![s[1]] = IF @ = 0 THEN s[2] ELSE @]
  /\ topic' = topic \ {s}
  /\ UNCHANGED <<page, entered, direct, queue, accepted, orphans, published, acked, clashed,
                 raced, faults>>

\* handle_upsert_student_answer; without the commit of the offset the event is
\* delivered again.
Store(s) ==
  /\ AnswersConsumed
  /\ s \in topic
  /\ row' = [row EXCEPT ![s[1]] = s[2]]
  /\ \/ topic' = topic \ {s} /\ UNCHANGED faults
     \/ faults < MaxFaults /\ faults' = faults + 1 /\ UNCHANGED topic
  /\ UNCHANGED <<page, entered, direct, queue, accepted, orphans, published, acked,
                 clashed, raced>>

\* Every run of the handler raises: the dead-letter topic of TaskDispatch.
GiveUp(s) ==
  /\ AnswersConsumed
  /\ s \in topic
  /\ faults < MaxFaults
  /\ faults' = faults + 1
  /\ topic' = topic \ {s}
  /\ raced' = raced \cup {s[1]}
  /\ UNCHANGED <<page, entered, direct, queue, accepted, orphans, row, published, acked,
                 clashed>>

-----------------------------------------------------------------------------
Next ==
  \/ \E q \in Questions : Enter(q)
  \/ RetryTick
  \/ Submit
  \/ SubmitReturns
  \/ Reload
  \/ \E s \in Saves :
       \/ DirectSaved(s)
       \/ DirectFails(s)
       \/ QueueSaved(s)
       \/ QueueFails(s)
       \/ Accept(s)
       \/ AcceptLate(s)
       \/ Store(s)
       \/ GiveUp(s)

SafetySpec == Init /\ [][Next]_vars

(***************************************************************************)
(* The interval fires while the page is mounted, and the client's time-out *)
(* ends every request.  Nobody has to be there to answer one.              *)
(***************************************************************************)
Fairness ==
  /\ WF_vars(RetryTick)
  /\ \A q \in Questions :
       WF_vars(\E n \in Numbers : QueueSaved(<<q, n>>) \/ QueueFails(<<q, n>>))

Spec == SafetySpec /\ Fairness

-----------------------------------------------------------------------------
(***************************************************************************)
(* Properties.                                                             *)
(***************************************************************************)

\* As long as it is mounted the page loses no newest answer: it is on the wire, in
\* the queue or in the topic, through failed and timed-out saves, retries and
\* submits that fail, unless a save failed while another one of the question was
\* on the wire, or the page was reloaded.  Leaving the page loses its queue.
NewestIsOnItsWay ==
  page # "left" =>
    \A q \in Questions \ clashed :
      entered[q] # 0 => <<q, entered[q]>> \in direct \cup Entries(pending) \cup published

\* Once nothing of a question is outstanding, a save the page gave up on included,
\* the table has its newest answer, also when saves and events were repeated,
\* unless it was entered before the one in front of it had arrived.
SettledIsNewest ==
  \A q \in Questions \ raced : Outstanding(q) = {} => row[q] = entered[q]

\* While the page is mounted an answer in its queue is sent again and again, until
\* it is saved or gives way to a newer one: no save holds up another for ever,
\* whatever the network and the API do.
QueuedIsSent ==
  \A s \in Saves :
    (s \in Entries(pending)) ~> (s \in Entries(batch) \/ s \notin Entries(pending) \/ page = "left")

\* TakeExam.tsx of handleSubmitExam: "Save any pending answers before submitting":
\* the API has all that is queued when the submit is sent.
PendingSavedFirst ==
  [][(page # "submitting" /\ page' = "submitting") => Entries(kept) \subseteq acked]_vars
=============================================================================
