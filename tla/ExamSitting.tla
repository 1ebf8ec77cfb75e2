----------------------------- MODULE ExamSitting -----------------------------
(***************************************************************************)
(* A student at the exam page (frontend/src/pages/TakeExam.tsx), from the  *)
(* start screen to the submission.  Layout.tsx mounts every page twice,    *)
(* for wide and for narrow screens, and hides one of them: each copy       *)
(* loads, counts down and submits for itself.  The window keeps its width. *)
(* The runs look at one copy by itself, too.                               *)
(* How the answers reach the server is the matter of AnswerSaving: here an *)
(* answer only restarts the interval that counts down.  The queries of the *)
(* exam are taken to load, which they do not as committed                  *)
(* (ExamQueryLoads of SubmissionGrading): every load fails then.           *)
(***************************************************************************)
EXTENDS Integers, FiniteSets, FiniteSetsExt

CONSTANTS
  Copies,           \* the copies of the page that may be mounted
  None, Ok, Failed,
  Duration,         \* seconds of the exam
  Limit,            \* exam.max_attempts
  Questions,        \* number of questions
  LastSecond,       \* bound: of the clock, which then stands still
  MaxVisits,        \* bound: times the page is opened again, reloaded or gone back
                    \* from
  MaxFailures       \* bound: requests that fail; a second copy counts as one of each

ASSUME SittingAssumption ==
  /\ None \notin Int \cup Copies \cup {"started", "submitted"}
  /\ {Duration, Limit, Questions} \subseteq Nat \ {0}
  /\ IsFiniteSet(Copies)
  /\ Cardinality(Copies) \in 1 .. Min({MaxVisits, MaxFailures}) + 1
  /\ {LastSecond, MaxVisits, MaxFailures} \subseteq Nat

VARIABLES
  place,            \* the URL: the start screen (take), the exam (active), elsewhere
  seen,             \* the copy that is not hidden
  copy,             \* the state of each copy that is mounted
  net,              \* requests in flight
  server,           \* the submission of the student: its row and its attempts
  exam,             \* exam.end_time
  clock,
  bounds

vars == <<place, seen, copy, net, server, exam, clock, bounds>>

Items == 1 .. Questions
Mounted == DOMAIN copy

\* What a copy keeps, and what it is mounted with.
CopyState == [loading : BOOLEAN, failed : BOOLEAN, left : Nat, deadline : Nat \cup {None},
              own : {None, "started", "submitted"}, starting : BOOLEAN, submitting : BOOLEAN,
              at : Items, due : BOOLEAN]

Fresh == [loading |-> TRUE, failed |-> FALSE, left |-> 0, deadline |-> None, own |-> None,
          starting |-> FALSE, submitting |-> FALSE, at |-> 1, due |-> FALSE]

\* A request of a copy, or of none that waits for it.  A load is answered with the
\* submission and when it began.
Answers == [own : {None, "started", "submitted"}, since : Nat \cup {None}]
Message == [op : {"load", "start", "submit"}, by : Mounted \cup {None}, n : Nat,
            got : {None, Ok, Failed} \cup Answers]
Request(op, c, n) == [op |-> op, by |-> c, n |-> n, got |-> None]
Loads(n)          == {Request("load", c, n) : c \in Mounted}
InFlight(op, c)   == {r \in net : r.op = op /\ r.by = c}

TypeOK ==
  /\ place \in {"take", "active", "away"}
  /\ seen \in Mounted /\ Mounted \subseteq Copies
  /\ copy \in [Mounted -> CopyState]
  /\ net \subseteq Message
  /\ \A r \in net : r.op = "load" => r.got \in {None, Failed} \cup Answers
  /\ server \in [since : Nat \cup {None}, attempts : 0 .. Limit]
  /\ exam \in [end : Nat \cup {None}]
  /\ clock \in 0 .. LastSecond
  /\ bounds \in [visits : 0 .. MaxVisits, backs : 0 .. MaxVisits, failures : 0 .. MaxFailures]

Init ==
  /\ place = "take"
  /\ \E cs \in SUBSET Copies :
       /\ seen \in cs
       /\ copy = [c \in cs |-> Fresh]
       /\ bounds = [visits |-> Cardinality(cs) - 1, backs |-> 0, failures |-> 0]
  /\ net = Loads(bounds.visits)
  /\ server = [since |-> None, attempts |-> 0]
  /\ exam \in [end : {None, Duration}]
  /\ clock = 0

-----------------------------------------------------------------------------
(***************************************************************************)
(* The server.                                                             *)
(***************************************************************************)

Own == IF server.attempts > 0 THEN "submitted"
       ELSE IF server.since # None THEN "started" ELSE None

Begun == [server EXCEPT !.since = IF Own = None THEN clock ELSE @]

MayFail == bounds.failures + Cardinality(Mounted) - 1 < MaxFailures

\* The load answers with the submission, which may fail without the load failing.  A
\* start returns the submission there is; a submit without one makes it.
Serve(r) ==
  /\ r \in net
  /\ r.got = None
  /\ LET Say(answer) == net' = (net \ {r}) \cup {[r EXCEPT !.got = answer]} IN
       \/ /\ r.op = "load"
          /\ Say([own |-> Own, since |-> server.since])
          /\ UNCHANGED <<server, bounds>>
       \/ /\ r.op = "load"
          /\ MayFail
          /\ Say([own |-> None, since |-> None])
          /\ bounds' = [bounds EXCEPT !.failures = @ + 1]
          /\ UNCHANGED server
       \/ /\ r.op = "start"
          /\ Say(Ok)
          /\ server' = Begun
          /\ UNCHANGED bounds
       \/ /\ r.op = "submit"
          /\ Say(IF server.attempts < Limit THEN Ok ELSE Failed)
          /\ server' = [Begun EXCEPT !.attempts = Min({@ + 1, Limit})]
          /\ UNCHANGED bounds
  /\ UNCHANGED <<place, seen, copy, exam, clock>>

Lose(r) ==
  /\ r \in net
  /\ r.got # Failed
  /\ MayFail
  /\ bounds' = [bounds EXCEPT !.failures = @ + 1]
  /\ net' = (net \ {r}) \cup {[r EXCEPT !.got = Failed]}
  /\ UNCHANGED <<place, seen, copy, server, exam, clock>>

-----------------------------------------------------------------------------
(***************************************************************************)
(* Opening and leaving.                                                    *)
(***************************************************************************)

\* What was asked for by copies that are gone is not waited for, but may still be served.
Orphaned(rs) ==
  {[r EXCEPT !.by = None] : r \in {q \in rs : q.op = "submit" \/ (q.op = "start" /\ q.got = None)}}

\* The effects on [id, isActiveExam] load again and restart the interval, in both copies.
Reloading(cs) ==
  [c \in Mounted |-> [cs[c] EXCEPT !.loading = TRUE, !.failed = FALSE, !.due = FALSE]]

\* A link, a typed URL or a reload: two new copies.
Visit ==
  /\ bounds.visits < MaxVisits
  /\ place' \in {"take", "active"}
  /\ copy' = [c \in Mounted |-> Fresh]
  /\ net' = Orphaned(net) \cup Loads(bounds.visits + 1)
  /\ bounds' = [bounds EXCEPT !.visits = @ + 1]
  /\ UNCHANGED <<seen, server, exam, clock>>

\* The way back from the exam to the start screen keeps the copies.
Back ==
  /\ place = "active"
  /\ bounds.visits < MaxVisits
  /\ place' = "take"
  /\ copy' = Reloading(copy)
  /\ net' = net \cup Loads(bounds.visits + 1)
  /\ bounds' = [bounds EXCEPT !.visits = @ + 1, !.backs = @ + 1]
  /\ UNCHANGED <<seen, server, exam, clock>>

\* Back to Exams, View Submissions and every other link.
Leave ==
  /\ place # "away"
  /\ place' = "away"
  /\ net' = Orphaned(net)
  /\ copy' = [c \in Mounted |-> Fresh]
  /\ UNCHANGED <<seen, server, exam, clock, bounds>>

-----------------------------------------------------------------------------
(***************************************************************************)
(* The start screen.                                                       *)
(***************************************************************************)

Seen   == copy[seen]
Usable == ~Seen.loading /\ ~Seen.failed

\* handleStartExam, on the last of the start screens: no submission yet.
Start ==
  /\ place = "take"
  /\ Usable
  /\ Seen.own = None
  /\ ~Seen.starting
  /\ copy' = [copy EXCEPT ![seen].starting = TRUE]
  /\ net' = net \cup {Request("start", seen, bounds.visits)}
  /\ UNCHANGED <<place, seen, server, exam, clock, bounds>>

\* "Continue Exam".  A submission with attempts has no way on from here.
Continue ==
  /\ place = "take"
  /\ Usable
  /\ Seen.own = "started"
  /\ place' = "active"
  /\ copy' = Reloading(copy)
  /\ net' = net \cup Loads(bounds.visits)
  /\ UNCHANGED <<seen, server, exam, clock, bounds>>

-----------------------------------------------------------------------------
(***************************************************************************)
(* The exam.                                                               *)
(***************************************************************************)

Sitting == place = "active" /\ Usable

\* handleAnswer, with every choice and every keystroke, and "Clear All Answers": the
\* interval depends on handleSubmitExam, and this on the answers, so it starts anew.
Answer ==
  /\ Sitting
  /\ copy' = [copy EXCEPT ![seen].due = FALSE]
  /\ UNCHANGED <<place, seen, net, server, exam, clock, bounds>>

\* Previous, Next, the numbers of the navigator and the jump to the first unanswered.
Turn ==
  /\ Sitting
  /\ \E i \in Items : i # Seen.at /\ copy' = [copy EXCEPT ![seen].at = i]
  /\ UNCHANGED <<place, seen, net, server, exam, clock, bounds>>

NeverSubmitting(c) == FALSE

Submitting(c) == copy[c].submitting

\* handleSubmitExam; what it does to the queue is in AnswerSaving.  The interval depends
\* on submitting, too.
SubmitBy(c, cs) ==
  IF Submitting(c)
  THEN copy' = cs /\ UNCHANGED net
  ELSE /\ copy' = [cs EXCEPT ![c].submitting = TRUE, ![c].due = FALSE]
       /\ net' = net \cup {Request("submit", c, IF InFlight("submit", c) = {} THEN 0 ELSE 1)}

\* "Submit Exam", after the last question and a dialog.
Submit ==
  /\ Sitting
  /\ Seen.at = Questions
  /\ ~Seen.submitting
  /\ SubmitBy(seen, copy)
  /\ UNCHANGED <<place, seen, server, exam, clock, bounds>>

Second ==
  /\ clock' = Min({clock + 1, LastSecond})
  /\ copy' = [c \in Mounted |-> [copy[c] EXCEPT !.due = place = "active" /\ copy[c].left > 0]]
  /\ UNCHANGED <<place, seen, net, server, exam, bounds>>

NextLeft(c) == IF copy[c].deadline # None THEN Max({0, copy[c].deadline - clock})
               ELSE Max({0, copy[c].left - 1})

ExpiresBelow(left) == left < 0

ExpiresEarly(left) == left <= 1

Expires(left) == left <= 0

\* The interval of a copy, a second after it was started, also while the copy loads or
\* shows an error: it runs while there is time left, so a copy that loads after the
\* deadline has none.
Timer(c) ==
  /\ place = "active"
  /\ copy[c].due /\ copy[c].left > 0
  /\ LET left == NextLeft(c)
         cs   == [copy EXCEPT ![c].left = left, ![c].due = FALSE]
     IN  IF Expires(left) THEN SubmitBy(c, cs) ELSE copy' = cs /\ UNCHANGED net
  /\ UNCHANGED <<place, seen, server, exam, clock, bounds>>

-----------------------------------------------------------------------------
(***************************************************************************)
(* Answers of the server.                                                  *)
(***************************************************************************)

FromStart(r) == exam.end = None /\ r.got.since # None

\* The end of the exam, else the end of the student's own time, else none.
Deadline(r) == IF exam.end # None THEN exam.end
               ELSE IF FromStart(r) THEN r.got.since + Duration ELSE None

\* loadExam.  Another time left and saved answers restart the interval.
LoadArrives(r) ==
  /\ r.op = "load" /\ r.by # None
  /\ \E again \in BOOLEAN : copy' = [copy EXCEPT ![r.by] =
       IF r.got = Failed THEN [@ EXCEPT !.loading = FALSE, !.failed = TRUE]
       ELSE [@ EXCEPT !.loading = FALSE,
                      !.own = r.got.own,
                      !.due = copy[r.by].due /\ again,
                      !.deadline = Deadline(r),
                      !.left = IF Deadline(r) = None THEN Duration
                               ELSE Max({0, Deadline(r) - clock})]]
  /\ net' = net \ {r}
  /\ UNCHANGED place

StartArrives(r) ==
  /\ r.op = "start" /\ r.by # None
  /\ IF r.got = Failed
     THEN /\ copy' = [copy EXCEPT ![r.by].starting = FALSE, ![r.by].failed = TRUE]
          /\ net' = net \ {r}
          /\ UNCHANGED place
     ELSE /\ place' = "active"
          /\ copy' = LET cs == [copy EXCEPT ![r.by].starting = FALSE, ![r.by].own = "started"]
                     IN  IF place = "take" THEN Reloading(cs) ELSE cs
          /\ net' = (net \ {r}) \cup (IF place = "take" THEN Loads(bounds.visits) ELSE {})

\* A submit that succeeds leaves the page, also one whose copy is gone; one that fails
\* puts an error in the place of the exam, and is not sent again.
SubmitArrives(r) ==
  /\ r.op = "submit"
  /\ IF r.got = Ok
     THEN /\ place' = "away"
          /\ copy' = [c \in Mounted |-> Fresh]
          /\ net' = Orphaned(net \ {r})
     ELSE /\ copy' = IF r.by = None THEN copy
                     ELSE [copy EXCEPT ![r.by].failed = TRUE, ![r.by].submitting = FALSE,
                                  ![r.by].due = FALSE]
          /\ net' = net \ {r}
          /\ UNCHANGED place

\* An answer nobody waits for.
Unheard(r) ==
  /\ r.by = None /\ r.op # "submit"
  /\ net' = net \ {r}
  /\ UNCHANGED <<place, copy>>

Arrive(r) ==
  /\ r \in net
  /\ r.got # None
  /\ LoadArrives(r) \/ StartArrives(r) \/ SubmitArrives(r) \/ Unheard(r)
  /\ UNCHANGED <<seen, server, exam, clock, bounds>>

Next ==
  \/ Visit
  \/ Back
  \/ Leave
  \/ Start
  \/ Continue
  \/ Answer
  \/ Turn
  \/ Submit
  \/ Second
  \/ \E c \in Mounted : Timer(c)
  \/ \E r \in net : Serve(r) \/ Lose(r) \/ Arrive(r)

SafetySpec == Init /\ [][Next]_vars

\* Time goes on, intervals fire and requests end.  Nothing is asked of the student.
Fairness ==
  /\ WF_vars(Second)
  /\ \A c \in Copies : WF_vars(c \in Mounted /\ Timer(c))
  /\ WF_vars(\E r \in net : Serve(r))
  /\ WF_vars(\E r \in net : Arrive(r))

Spec == SafetySpec /\ Fairness

-----------------------------------------------------------------------------
(***************************************************************************)
(* Properties.                                                             *)
(***************************************************************************)

\* A copy has one submit in flight while its button shows progress, and none otherwise:
\* the end of the time during a submit by hand does not send a second one.
OneSubmitPerCopy ==
  \A c \in Mounted : Cardinality(InFlight("submit", c)) = IF copy[c].submitting THEN 1 ELSE 0

\* Without failures a student whom the page takes to have started sees the exam end when
\* it ends, or after the time since the start, however often the page is opened again,
\* left for the start screen or started anew, whichever load is answered last.
TimeIsNotExtended ==
  place = "active" /\ Usable /\ Seen.own = "started" /\ bounds.failures = 0
    => Seen.deadline = IF exam.end # None THEN exam.end ELSE server.since + Duration

\* The copies agree with the clock, the server and what they have sent, and have their type.
SittingIsConsistent ==
  /\ TypeOK
  /\ OneSubmitPerCopy
  /\ TimeIsNotExtended

\* No exam is submitted for the student before its time: while nothing fails and the
\* copy takes the student to have started, hidden or not, the interval submits only when
\* the exam, or the student's own time, is over, whatever the copy counted down from, on
\* whichever visit, before.
NotSubmittedEarly ==
  [][\A c \in Mounted :
       (/\ Timer(c) /\ net' # net
        /\ ~copy[c].loading /\ ~copy[c].failed /\ copy[c].own = "started"
        /\ bounds.failures = 0)
         => clock >= IF exam.end # None THEN exam.end ELSE server.since + Duration]_vars

\* Who has the exam open while there is time, and stays, leaves it submitted: the time
\* runs out, also for a tab that slept, and the submission is answered, unless the attempts
\* are used up.  A load that is still under way, after a way back, may end the time
\* without a submission, and a student who never pauses for a second puts it off.
OpenExamIsSubmitted == <>[][~Answer]_vars =>
  \A n \in 0 .. MaxVisits :
    (/\ Sitting
     /\ Seen.left > 0
     /\ Seen.deadline \in 1 .. LastSecond
     /\ InFlight("load", seen) = {}
     /\ bounds.visits = n)
      ~> (place # "active" \/ bounds.visits # n \/ bounds.failures > 0
          \/ server.attempts = Limit)
=============================================================================
