------------------------------ MODULE CourseExams ------------------------------
(***************************************************************************)
(* The exams tab of a course and the deletion of the course                *)
(* (frontend/src/pages/CourseDetail.tsx).  The exams of the tenant do not  *)
(* change while the page is open, and their queries are taken to load      *)
(* (ExamQueryLoads of SubmissionGrading).  A jump of the browser's history *)
(* to another course, which does not mount the page anew, is left out.     *)
(***************************************************************************)
EXTENDS Integers, Sequences, FiniteSets

CONSTANTS
  Years,            \* the years of the exams of the tenant
  All,              \* no year chosen
  None, Ok, Failed, \* no answer, and the answers without a list
  PerPage,
  MaxExams,         \* bound: exams of the course
  MaxFailures       \* bound: requests that fail

VARIABLES
  view,             \* the state of the page, and "of": the query its rows answer
  calls,            \* requests in flight
  course,           \* the years of its exams, newest first, how many the tenant has besides,
                    \* and whether it exists
  lost              \* counts against MaxFailures

vars == <<view, calls, course, lost>>

Pages   == Nat \ {0}
Queries == Pages \X (Years \cup {All})
Start   == <<1, All>>
Query(v) == <<v.page, v.year>>

Call(op, at) == [op |-> op, at |-> at, got |-> None]

TypeOK ==
  /\ view \in [phase : {"loading", "shown", "failed", "left"}, page : Pages,
               year : Years \cup {All}, rows : Nat, more : BOOLEAN,
               of : Queries \cup {None}, busy : BOOLEAN, error : BOOLEAN,
               confirm : BOOLEAN, deleting : BOOLEAN]
  /\ calls \subseteq [op : {"load", "list", "delete"}, at : Queries,
                     got : {None, Ok, Failed} \cup [rows : Nat, more : BOOLEAN]]
  /\ course \in [exams : UNION {[1 .. n -> Years] : n \in 0 .. MaxExams}, others : Nat,
                 exists : BOOLEAN]
  /\ lost \in 0 .. MaxFailures

Init ==
  /\ view = [phase |-> "loading", page |-> 1, year |-> All, rows |-> 0, more |-> FALSE,
             of |-> None, busy |-> TRUE, error |-> FALSE, confirm |-> FALSE,
             deleting |-> FALSE]
  /\ calls = {Call("load", Start)}
  /\ course \in [exams : UNION {[1 .. n -> Years] : n \in 0 .. MaxExams}, others : {0, PerPage},
                 exists : {TRUE}]
  /\ lost = 0

-----------------------------------------------------------------------------
\* The exams of a year, which go with the course, and how many of them are on a page.
OfYear(y) == {i \in 1 .. Len(course.exams) : course.exists /\ y \in {All, course.exams[i]}}

\* The route counts the exams of the tenant: neither the course nor the year matters.
More(q) == Cardinality(OfYear(All)) + course.others > q[1] * PerPage

\* GET /academic/exams?course_id=...
Listing(q) ==
  LET after == Cardinality(OfYear(q[2])) - (q[1] - 1) * PerPage
  IN  [rows |-> IF after < 0 THEN 0 ELSE IF after > PerPage THEN PerPage ELSE after,
       more |-> More(q)]

Serve(c) ==
  /\ c \in calls
  /\ c.got = None
  /\ LET answer == CASE c.op = "list"      -> Listing(c.at)
                     [] ~course.exists     -> Failed
                     [] c.op = "delete"    -> Ok
                     [] OTHER              -> Listing(c.at)
     IN calls' = (calls \ {c}) \cup {[c EXCEPT !.got = answer]}
  /\ course' = [course EXCEPT !.exists = @ /\ c.op # "delete"]
  /\ UNCHANGED <<view, lost>>

\* The request, or the answer of one that was served, is lost.
Lose(c) ==
  /\ c \in calls
  /\ c.got # Failed
  /\ lost < MaxFailures
  /\ lost' = lost + 1
  /\ calls' = (calls \ {c}) \cup {[c EXCEPT !.got = Failed]}
  /\ UNCHANGED <<view, course>>

-----------------------------------------------------------------------------
\* The dropdown and the pagination are there only with the rows: a spinner, an
\* error and "No Exams Yet" take their place.
RowsShown == view.phase = "shown" /\ ~view.busy /\ ~view.error /\ ~view.confirm /\ view.rows > 0

\* The effect on [id, examsPage, examsYear] skips page 1 without a year.
Move(v) ==
  IF Query(v) \in {Query(view), Start}
  THEN view' = v /\ UNCHANGED calls
  ELSE /\ view' = [v EXCEPT !.busy = TRUE]
       /\ calls' = calls \cup {Call("list", Query(v))}

\* setExamsPage.
TurnPage ==
  /\ RowsShown
  /\ \/ view.more /\ Move([view EXCEPT !.page = @ + 1])
     \/ view.page > 1 /\ Move([view EXCEPT !.page = @ - 1])
  /\ UNCHANGED <<course, lost>>

\* setExamsYear leaves the page as it is.
ChooseYear ==
  /\ RowsShown
  /\ \E y \in Years \cup {All} : Move([view EXCEPT !.year = y])
  /\ UNCHANGED <<course, lost>>

\* The Delete button of who may delete, Cancel and the backdrop, the latter also
\* while the course is being deleted.
Confirm ==
  /\ view.phase = "shown"
  /\ view' = [view EXCEPT !.confirm = ~@]
  /\ UNCHANGED <<calls, course, lost>>

\* handleDelete.
Delete ==
  /\ view.phase = "shown" /\ view.confirm
  /\ ~view.deleting
  /\ view' = [view EXCEPT !.deleting = TRUE]
  /\ calls' = calls \cup {Call("delete", Query(view))}
  /\ UNCHANGED <<course, lost>>

-----------------------------------------------------------------------------
Rows(v, c) == [v EXCEPT !.rows = c.got.rows, !.more = c.got.more, !.of = c.at, !.busy = FALSE]

\* loadData: the error page if any of its requests fails.
LoadArrives(c) ==
  /\ c.op = "load"
  /\ view' = IF c.got = Failed THEN [view EXCEPT !.phase = "failed", !.busy = FALSE]
             ELSE [Rows(view, c) EXCEPT !.phase = "shown"]

\* fetchExams: a failure shows its message in place of the rows, which stay.
ListArrives(c) ==
  /\ c.op = "list"
  /\ view' = IF c.got = Failed THEN [view EXCEPT !.error = TRUE, !.busy = FALSE]
             ELSE Rows(view, c)

\* The rest of handleDelete: to the courses, or the error page in place of this one.
DeleteArrives(c) ==
  /\ c.op = "delete"
  /\ view' = IF c.got = Ok THEN [view EXCEPT !.phase = "left"]
             ELSE [view EXCEPT !.phase = "failed", !.deleting = FALSE, !.confirm = FALSE]

\* Answers that arrive after the page was left change nothing.
Arrive(c) ==
  /\ c \in calls
  /\ c.got # None
  /\ IF view.phase = "left" THEN UNCHANGED view
     ELSE LoadArrives(c) \/ ListArrives(c) \/ DeleteArrives(c)
  /\ calls' = calls \ {c}
  /\ UNCHANGED <<course, lost>>

\* "Try Again" reloads the page: a failed load may be a course that is gone.
TryAgain ==
  /\ view.phase = "failed"
  /\ calls = {}
  /\ view' = [phase |-> "loading", page |-> 1, year |-> All, rows |-> 0, more |-> FALSE,
              of |-> None, busy |-> TRUE, error |-> FALSE, confirm |-> FALSE,
              deleting |-> FALSE]
  /\ calls' = {Call("load", Start)}
  /\ UNCHANGED <<course, lost>>

Next ==
  \/ TurnPage
  \/ ChooseYear
  \/ Confirm
  \/ Delete
  \/ TryAgain
  \/ \E c \in calls : Serve(c) \/ Lose(c) \/ Arrive(c)

Spec == Init /\ [][Next]_vars

-----------------------------------------------------------------------------
(***************************************************************************)
(* Properties.                                                             *)
(***************************************************************************)

\* The dialog may be left and opened again while the course is being deleted: there
\* is one request to delete it at a time, and the page is left only for a course
\* that is gone.
DeletedOnce ==
  /\ Cardinality({c \in calls : c.op = "delete"}) =
       IF view.deleting /\ view.phase = "shown" THEN 1 ELSE 0
  /\ view.phase = "left" => ~course.exists

\* "No Exams Yet" takes the pagination away with the rows, so an empty page is a dead
\* end: turning pages alone never leads there while the course has exams and there are
\* no others, which the Next button counts, too.
PagesHaveRows ==
  view.phase = "shown" /\ view.rows = 0 /\ view.year = All /\ course.exists /\ course.others = 0
    => course.exams = <<>>

\* The spinner gives way to the exams of the page and the year chosen.
SpinnerEnds ==
  view.busy /\ ~view'.busy /\ view'.phase = "shown" /\ ~view'.error => view'.of = Query(view')
=============================================================================
