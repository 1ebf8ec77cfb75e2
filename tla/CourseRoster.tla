----------------------------- MODULE CourseRoster -----------------------------
(***************************************************************************)
(* The students tab of a course (frontend/src/pages/CourseDetail.tsx): a   *)
(* list of enrolments by page and filter, a dialog that enrols, one that   *)
(* removes and one that filters.  Every request is three steps: the page   *)
(* sends it, the server serves it, the page gets the answer.  The filters  *)
(* by semester and by year work alike and are one filter here.  A jump of  *)
(* the browser's history to another course, which does not mount the page  *)
(* anew, is left out.                                                      *)
(***************************************************************************)
EXTENDS Integers, Sequences, FiniteSets, Functions

CONSTANTS
  Students,
  Terms,
  All,              \* no filter
  None,             \* nobody, nothing
  Ok, Failed,       \* answers of requests that return nothing, or fail
  PerPage,          \* rows of a page
  MaxChanges,       \* bound: enrolments and removals asked for
  MaxFailures       \* bound: requests that fail

VARIABLES
  ui,               \* the state of the page, and "of": the query its rows answer
  net,              \* requests in flight
  db,               \* the enrolments of the course, newest first
  bounds            \* what counts against the bounds

vars == <<ui, net, db, bounds>>

Filters == Terms \cup {All}
Pages   == 1 .. Cardinality(Students) + 1
Queries == Pages \X Filters
Start   == <<1, All>>

Enrolment == [student : Students, term : Terms]
Dialogs   == {"none", "enrol", "remove", "filter"}

\* The rows of a page, whose order no step looks at.
PageRows  == [rows : SUBSET Enrolment, more : BOOLEAN]

\* A request: what it asks for, the query its list is to answer, and its answer.
Changes == {"enrol", "remove"}
Lists   == {"load", "list", "relist", "rerow"}
Request == [op : Changes \cup Lists, at : Queries, arg : Enrolment \cup {None},
            got : {None, Ok, Failed} \cup PageRows]

WellFormed(r) ==
  /\ r.op \in Changes => r.arg \in Enrolment
  /\ r.got \notin {None, Failed} => IF r.op \in Lists THEN r.got \in PageRows ELSE r.got = Ok

Ask(op, at, arg) == [op |-> op, at |-> at, arg |-> arg, got |-> None]

Query(u)  == <<u.page, u.filter>>
ShownIn(u) == {e.student : e \in u.rows}
InFlight(ops) == {r \in net : r.op \in ops}

TypeOK ==
  /\ ui \in [phase : {"loading", "shown", "failed"}, page : Pages, filter : Filters,
             rows : SUBSET Enrolment, more : BOOLEAN, of : Queries \cup {None},
             busy : BOOLEAN, dialog : Dialogs, picked : Students \cup {None},
             enrolling : BOOLEAN, target : Enrolment \cup {None},
             removing : Enrolment \cup {None}]
  /\ net \subseteq Request
  /\ \A r \in net : WellFormed(r)
  /\ db \in Seq(Enrolment)
  /\ bounds \in [changes : 0 .. MaxChanges, failures : 0 .. MaxFailures]

Init ==
  /\ ui = [phase |-> "loading", page |-> 1, filter |-> All, rows |-> {},
           more |-> FALSE, of |-> None, busy |-> TRUE, dialog |-> "none",
           picked |-> None, enrolling |-> FALSE, target |-> None, removing |-> None]
  /\ net = {Ask("load", Start, None)}
  /\ db \in {<<>>} \cup {<<e>> : e \in Enrolment}
  /\ bounds = [changes |-> 0, failures |-> 0]

-----------------------------------------------------------------------------
(***************************************************************************)
(* The server.                                                             *)
(***************************************************************************)

\* GET /academic/enrollments/: a page of the enrolments of the course.
Listing(q) ==
  LET found     == {i \in DOMAIN db : q[2] \in {All, db[i].term}}
      before(i) == Cardinality({j \in found : j < i})
  IN  [rows |-> {db[i] : i \in {j \in found : before(j) \div PerPage = q[1] - 1}},
       more |-> Cardinality(found) > q[1] * PerPage]

\* POST refuses a student who is enrolled already, DELETE an enrolment that is gone.
Serve(r) ==
  /\ r \in net
  /\ r.got = None
  /\ LET accepts == CASE r.op = "enrol"  -> \A e \in Range(db) : e.student # r.arg.student
                      [] r.op = "remove" -> r.arg \in Range(db)
                      [] OTHER           -> FALSE
     IN  /\ \/ r.op = "enrol" /\ accepts /\ db' = <<r.arg>> \o db
            \/ r.op = "remove" /\ accepts
               /\ \E i \in DOMAIN db :
                    /\ db[i] = r.arg
                    /\ db' = SubSeq(db, 1, i - 1) \o SubSeq(db, i + 1, Len(db))
            \/ ~accepts /\ UNCHANGED db
         /\ net' = (net \ {r}) \cup {[r EXCEPT !.got = IF r.op \in Lists THEN Listing(r.at)
                                                      ELSE IF accepts THEN Ok ELSE Failed]}
  /\ UNCHANGED <<ui, bounds>>

\* The request, or the answer of one that was served, is lost.
Lose(r) ==
  /\ r \in net
  /\ r.got # Failed
  /\ bounds.failures < MaxFailures
  /\ bounds' = [bounds EXCEPT !.failures = @ + 1]
  /\ net' = (net \ {r}) \cup {[r EXCEPT !.got = Failed]}
  /\ UNCHANGED <<ui, db>>

-----------------------------------------------------------------------------
(***************************************************************************)
(* The page sends requests.                                                *)
(***************************************************************************)

ListShownWhileBusy == ui.phase = "shown" /\ ui.dialog = "none"

\* The tab shows its list and its buttons instead of the spinner, and no dialog
\* covers them.
ListShown == ui.phase = "shown" /\ ~ui.busy /\ ui.dialog = "none"

\* The effect on [id, page, filters]: it fires when one of them changed, and skips
\* page 1 without filters, "already loaded in main effect".
Move(u) ==
  IF Query(u) = Query(ui) \/ Query(u) = Start
  THEN ui' = u /\ UNCHANGED net
  ELSE ui' = [u EXCEPT !.busy = TRUE] /\ net' = net \cup {Ask("list", Query(u), None)}

\* The pagination is below the rows: an empty list has none.
TurnPage ==
  /\ ListShown
  /\ ui.rows # {}
  /\ \/ ui.more /\ ui.page + 1 \in Pages /\ Move([ui EXCEPT !.page = @ + 1])
     \/ ui.page > 1 /\ Move([ui EXCEPT !.page = @ - 1])
  /\ UNCHANGED <<db, bounds>>

\* The chip of an active filter.
DropChip ==
  /\ ListShown
  /\ ui.filter # All
  /\ Move([ui EXCEPT !.filter = All, !.page = 1])
  /\ UNCHANGED <<db, bounds>>

\* applyFilters and clearFilters.
ApplyFilter(f) == Move([ui EXCEPT !.filter = f, !.page = 1, !.dialog = "none"])

\* openFilterModal, the dropdowns with what they apply, and closeFilterModal.
FilterDialog ==
  /\ \/ ListShown /\ ui' = [ui EXCEPT !.dialog = "filter"] /\ UNCHANGED net
     \/ /\ ui.dialog = "filter"
        /\ \/ \E f \in Filters : ApplyFilter(f)
           \/ ui' = [ui EXCEPT !.dialog = "none"] /\ UNCHANGED net
  /\ UNCHANGED <<db, bounds>>

\* What the dropdown of the dialog offers: the users of the tenant, which the effect
\* on [isEnrollModalOpen, enrollments] asks for, without those of the rows shown.
Options == Students \ ShownIn(ui)

OpenEnrol ==
  /\ ListShown
  /\ ui' = [ui EXCEPT !.dialog = "enrol"]
  /\ UNCHANGED <<net, db, bounds>>

PickStudent ==
  /\ ui.dialog = "enrol"
  /\ \E s \in Options : ui' = [ui EXCEPT !.picked = s]
  /\ UNCHANGED <<net, db, bounds>>

EnrolTwice ==
  /\ ui.dialog = "enrol"
  /\ ui.picked # None
  /\ \E t \in Terms : net' = net \cup {Ask("enrol", Query(ui), [student |-> ui.picked, term |-> t])}
  /\ ui' = [ui EXCEPT !.enrolling = TRUE]
  /\ bounds.changes < MaxChanges
  /\ bounds' = [bounds EXCEPT !.changes = @ + 1]
  /\ UNCHANGED db

\* handleEnrollStudent; the button is off while one is on its way, and when there is
\* nobody to pick.
Enrol ==
  /\ ui.dialog = "enrol"
  /\ ui.picked # None
  /\ Options # {}
  /\ ~ui.enrolling
  /\ \E t \in Terms : net' = net \cup {Ask("enrol", Query(ui), [student |-> ui.picked, term |-> t])}
  /\ ui' = [ui EXCEPT !.enrolling = TRUE]
  /\ bounds.changes < MaxChanges
  /\ bounds' = [bounds EXCEPT !.changes = @ + 1]
  /\ UNCHANGED db

\* closeEnrollModal: the backdrop and Escape close it while it is busy, too.
CloseEnrol ==
  /\ ui.dialog = "enrol"
  /\ ui' = [ui EXCEPT !.dialog = "none", !.picked = None]
  /\ UNCHANGED <<net, db, bounds>>

\* openUnenrollConfirm: off for the row that is being removed.
OpenRemove ==
  /\ ListShown
  /\ \E e \in ui.rows \ {ui.removing} :
       ui' = [ui EXCEPT !.dialog = "remove", !.target = e]
  /\ UNCHANGED <<net, db, bounds>>

\* The backdrop, also while a removal is on its way.  The target is only read while
\* the dialog is open, so it is forgotten here.
LeaveRemove ==
  /\ ui.dialog = "remove"
  /\ ui' = [ui EXCEPT !.dialog = "none", !.target = None]
  /\ UNCHANGED <<net, db, bounds>>

\* handleUnenrollStudent; the button shows the progress of any removal.
Remove ==
  /\ ui.dialog = "remove"
  /\ ui.target # None
  /\ ui.removing = None
  /\ ui' = [ui EXCEPT !.removing = ui.target]
  /\ net' = net \cup {Ask("remove", Query(ui), ui.target)}
  /\ bounds.changes < MaxChanges
  /\ bounds' = [bounds EXCEPT !.changes = @ + 1]
  /\ UNCHANGED db

-----------------------------------------------------------------------------
(***************************************************************************)
(* The page gets answers.                                                  *)
(***************************************************************************)

\* setEnrollments and setEnrollmentsHasNext.
Rows(u, r) == [u EXCEPT !.rows = r.got.rows, !.more = r.got.more, !.of = r.at]

\* loadData: one request that fails, of the four it waits for, is an error page.
LoadArrives(r) ==
  /\ r.op = "load"
  /\ ui' = IF r.got = Failed
           THEN [ui EXCEPT !.phase = "failed", !.busy = FALSE]
           ELSE [Rows(ui, r) EXCEPT !.phase = "shown", !.busy = FALSE]
  /\ net' = net \ {r}

\* fetchEnrollments: a failure empties the list.
ListArrives(r) ==
  /\ r.op = "list"
  /\ ui' = IF r.got = Failed
           THEN [ui EXCEPT !.rows = {}, !.of = r.at, !.busy = FALSE]
           ELSE [Rows(ui, r) EXCEPT !.busy = FALSE]
  /\ net' = net \ {r}

\* The rest of handleEnrollStudent: a second request for the list, with the page and
\* the filters of the click.
EnrolArrives(r) ==
  /\ \/ r.op = "enrol" /\ r.got = Ok
        /\ ui' = [ui EXCEPT !.picked = None]
        /\ net' = (net \ {r}) \cup {Ask("relist", r.at, None)}
     \/ r.op \in {"enrol", "relist"} /\ r.got = Failed
        /\ ui' = [ui EXCEPT !.enrolling = FALSE]
        /\ net' = net \ {r}
     \/ r.op = "relist" /\ r.got # Failed
        /\ ui' = [Rows(ui, r) EXCEPT !.enrolling = FALSE]
        /\ net' = net \ {r}

\* The rest of handleUnenrollStudent: the list again, and whatever removal dialog is
\* open by then is closed.  A failure leaves it open.
RemoveArrives(r) ==
  /\ \/ r.op = "remove" /\ r.got = Ok
        /\ UNCHANGED ui
        /\ net' = (net \ {r}) \cup {Ask("rerow", r.at, None)}
     \/ r.op \in {"remove", "rerow"} /\ r.got = Failed
        /\ ui' = [ui EXCEPT !.removing = None]
        /\ net' = net \ {r}
     \/ r.op = "rerow" /\ r.got # Failed
        /\ ui' = [Rows(ui, r) EXCEPT !.removing = None, !.target = None,
                                     !.dialog = IF @ = "remove" THEN "none" ELSE @]
        /\ net' = net \ {r}

Arrive(r) ==
  /\ r \in net
  /\ r.got # None
  /\ \/ LoadArrives(r)
     \/ ListArrives(r)
     \/ EnrolArrives(r)
     \/ RemoveArrives(r)
  /\ UNCHANGED <<db, bounds>>

User ==
  \/ TurnPage
  \/ DropChip
  \/ FilterDialog
  \/ OpenEnrol
  \/ PickStudent
  \/ Enrol
  \/ CloseEnrol
  \/ OpenRemove
  \/ LeaveRemove
  \/ Remove

Next ==
  \/ User
  \/ \E r \in net : Serve(r) \/ Lose(r) \/ Arrive(r)

Spec == Init /\ [][Next]_vars

-----------------------------------------------------------------------------
(***************************************************************************)
(* Properties.                                                             *)
(***************************************************************************)

\* A flag of the page is set exactly while the request it stands for, or the
\* refresh that follows it, is on its way: no button is locked for ever, and none
\* sends a second request beside the first, whichever dialogs were left.
BusyWhileInFlight ==
  LET On(flag, ops) == Cardinality(InFlight(ops)) = IF flag THEN 1 ELSE 0 IN
  /\ On(ui.busy, {"load", "list"})
  /\ On(ui.enrolling, {"enrol", "relist"})
  /\ On(ui.removing # None, {"remove", "rerow"})

\* The spinner gives way to the answer of the page and the filter chosen, however
\* many requests were on their way.
SpinnerEnds ==
  ui.busy /\ ~ui'.busy /\ ui'.phase = "shown" => ui'.of = Query(ui')
=============================================================================
