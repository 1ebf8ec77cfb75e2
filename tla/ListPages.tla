------------------------------- MODULE ListPages -------------------------------
(***************************************************************************)
(* The pages that list through React Query (frontend/src/pages): Exams,    *)
(* Courses, UserManagement and Submissions.  An answer is cached under the *)
(* key it was asked with and shown again whenever the page returns to that *)
(* key; refetch asks once more for the key of the moment.  One of the four *)
(* pages is open, with one user, for less than the time its cache is       *)
(* fresh.  Answers are taken to hold the course that lib/types.ts gives    *)
(* exams and enrolments, and the pages read; the server sends its id.  The *)
(* queries of exams and submissions are taken to load (ExamQueryLoads of   *)
(* SubmissionGrading).  The edit dialog of UserManagement is left out.     *)
(***************************************************************************)
EXTENDS Integers, Sequences, FiniteSets, Functions, TLC

CONSTANTS
  Groups,           \* courses of exams, lecturers of courses; else no matter
  All,              \* no filter
  None, Ok, Failed, \* no answer, and the answers without a list
  PerPage,
  MaxItems,         \* bound: items there ever are
  MaxMoves,         \* bound: changes of the page number and of the filter
  MaxChanges,       \* bound: items created and deleted through the page
  MaxFailures       \* bound: requests that fail

VARIABLES
  page,             \* the open page: which one, of whom, and its state; "early": whether
                    \* there was no list yet when the last change was answered (history)
  cache,            \* the cached answers by key
  wire,             \* requests in flight
  items,            \* the server's items; lists have the newest, the highest, first
  bounds            \* what counts against the bounds

vars == <<page, cache, wire, items, bounds>>

Kinds == {"exams", "courses", "users", "submissions"}
Ids   == 1 .. MaxItems

\* The group of an item, and the groups the student is enrolled in.
GroupOf(i) == page.group[i]
Mine(i)    == GroupOf(i) \in page.mine

\* queryKey: for the exams of a student it has the enrolments, once known.
Key(p) == <<p.at, p.filter, p.known>>

Fetch(k)         == [op |-> "fetch", key |-> k, arg |-> None, got |-> None]
Send(op, arg)    == [op |-> op, key |-> Key(page), arg |-> arg, got |-> None]
InFlight(op)     == {r \in wire : r.op = op}
FetchesOf(w, k)  == {r \in w : r.op = "fetch" /\ r.key = k}

Keys    == (Nat \ {0}) \X (Groups \cup {All}) \X ({None} \cup SUBSET Groups)
Answers == [rows : SUBSET Ids, pages : Nat, next : BOOLEAN]

\* The requests there can be, with their answers.
Requests ==
  LET Of(op, args, answers) ==
        [op : {op}, key : Keys, arg : args, got : answers \cup {None, Failed}]
  IN  Of("fetch", {None}, Answers) \cup Of("create", Ids, {Ok}) \cup Of("delete", Ids, {Ok})
      \cup Of("enrolments", {None}, {Ok})

TypeOK ==
  /\ page \in [kind : Kinds, role : {"student", "staff"}, group : [Ids -> Groups],
               mine : SUBSET Groups, at : Nat \ {0}, filter : Groups \cup {All},
               known : {None} \cup SUBSET Groups, dialog : {"none", "form", "delete"},
               target : Ids \cup {None}, creating : BOOLEAN, zero : BOOLEAN,
               deleting : BOOLEAN, early : BOOLEAN, errors : SUBSET Keys]
  /\ DOMAIN cache \subseteq Keys /\ \A k \in DOMAIN cache : cache[k] \in Answers
  /\ wire \subseteq Requests
  /\ items \subseteq Ids
  /\ bounds \in [moves : 0 .. MaxMoves, changes : 0 .. MaxChanges,
                 failures : 0 .. MaxFailures, ids : 0 .. MaxItems]

\* enabled: the exams of a student wait for the enrolments, and for one at least.
Enabled(p) ==
  p.kind = "exams" /\ p.role = "student" => p.known \notin {None, {}}

Init ==
  /\ page \in [kind : Kinds, role : {"student", "staff"}, group : [Ids -> Groups],
               mine : SUBSET Groups, at : {1}, filter : {All}, known : {None},
               dialog : {"none"}, target : {None}, creating : {FALSE}, zero : {FALSE},
               deleting : {FALSE}, early : {FALSE}, errors : {{}}]
  /\ page.kind = "users" => page.role = "staff"
  /\ page.role = "staff" => page.mine = {}
  /\ page.kind \in {"users", "submissions"} => Cardinality(Range(page.group)) = 1
  /\ cache = <<>>
  /\ wire = IF page.kind = "exams" /\ page.role = "student"
            THEN {Send("enrolments", None)} ELSE {Fetch(Key(page))}
  /\ bounds \in [moves : {0}, changes : {0}, failures : {0}, ids : 0 .. MaxItems]
  /\ items = 1 .. bounds.ids

-----------------------------------------------------------------------------
(***************************************************************************)
(* What a page gets for a key.                                             *)
(***************************************************************************)

PagesFor(n) == (n + PerPage - 1) \div PerPage

\* One page of what the server finds, with the pagination it makes of its count.
Served(found, count, at) ==
  LET place(i) == Cardinality({j \in found : j >= i})
  IN  [rows  |-> {i \in found : PagesFor(place(i)) = at},
       pages |-> PagesFor(count),
       next  |-> at < PagesFor(count)]

\* The page of a student: what is left of one page of the server, and the
\* pagination of that.
Kept(answer, at, groups) ==
  LET rows  == {i \in answer.rows : GroupOf(i) \in groups}
      count == Cardinality(rows)
  IN  [rows |-> rows, pages |-> PagesFor(count), next |-> at < PagesFor(count)]

Filtered(found, k) == {i \in found : k[2] \in {All, GroupOf(i)}}

\* The server finds a student the exams of the enrolments there are, and so does the page
\* with those it knows; the count of the server knows nothing of the filter.
ExamsAnswer(k) ==
  LET found  == {i \in items : page.role = "student" => Mine(i)}
      answer == Served(Filtered(found, k), Cardinality(found), k[1])
  IN  IF page.role = "student" /\ k[3] \notin {None, {}}
      THEN Kept(answer, k[1], k[3])
      ELSE answer

\* The server finds students all courses.
CoursesAnswer(k) ==
  LET found  == Filtered(items, k)
      answer == Served(found, Cardinality(found), k[1])
  IN  IF page.role = "student" THEN Kept(answer, k[1], page.mine) ELSE answer

UsersAnswer(k) == Served(items, Cardinality(items), k[1])

\* Students get all their submissions on one page.
SubmissionsAnswer(k) ==
  IF page.role = "student"
  THEN [rows |-> items, pages |-> 1, next |-> FALSE]
  ELSE Served(items, Cardinality(items), k[1])

Answer(k) == CASE page.kind = "exams"   -> ExamsAnswer(k)
               [] page.kind = "courses" -> CoursesAnswer(k)
               [] page.kind = "users"   -> UsersAnswer(k)
               [] OTHER                 -> SubmissionsAnswer(k)

\* getStudentEnrollment fails inside the query of the courses, which goes on with none.
Nothing == [rows |-> {}, pages |-> 0, next |-> FALSE]

Serve(r) ==
  /\ r \in wire
  /\ r.got = None
  /\ items' = CASE r.op = "create" -> items \cup {r.arg}
                [] r.op = "delete" -> items \ {r.arg}
                [] OTHER           -> items
  /\ \/ /\ wire' = (wire \ {r}) \cup
             {[r EXCEPT !.got = IF r.op = "fetch" THEN Answer(r.key)
                                ELSE IF r.op = "delete" /\ r.arg \notin items
                                THEN Failed ELSE Ok]}
        /\ UNCHANGED bounds
     \/ /\ r.op = "fetch" /\ page.kind = "courses" /\ page.role = "student"
        /\ bounds.failures < MaxFailures
        /\ wire' = (wire \ {r}) \cup {[r EXCEPT !.got = Nothing]}
        /\ bounds' = [bounds EXCEPT !.failures = @ + 1]
  /\ UNCHANGED <<page, cache>>

\* The request and its retry, or the answer of a change that was served, are lost.
Lose(r) ==
  /\ r \in wire
  /\ r.got # Failed
  /\ bounds.failures < MaxFailures
  /\ wire' = (wire \ {r}) \cup {[r EXCEPT !.got = Failed]}
  /\ bounds' = [bounds EXCEPT !.failures = @ + 1]
  /\ UNCHANGED <<page, cache, items>>

-----------------------------------------------------------------------------
(***************************************************************************)
(* React Query.                                                            *)
(***************************************************************************)

Cached(p) == Key(p) \in DOMAIN cache

\* The last request for the key failed.  What was cached for it stays.
InError(p) == Key(p) \in p.errors

\* The page shows the key of p from now on.
Observe(p) ==
  /\ page' = p
  /\ wire' = IF Enabled(p) /\ (~Cached(p) \/ InError(p)) /\ FetchesOf(wire, Key(p)) = {}
             THEN wire \cup {Fetch(Key(p))} ELSE wire

RefetchOrJoin(w, k) == IF FetchesOf(w, k) = {} THEN w \cup {Fetch(k)} ELSE w

\* refetch: what is on its way for the key is not waited for any more, unless there is no
\* list for the key yet: the first load is joined.
Refetch(w, k) ==
  IF k \in DOMAIN cache THEN (w \ FetchesOf(w, k)) \cup {Fetch(k)} ELSE RefetchOrJoin(w, k)

FetchArrives(r) ==
  /\ r.op = "fetch"
  /\ cache' = IF r.got = Failed THEN cache
              ELSE [k \in DOMAIN cache \cup {r.key} |-> IF k = r.key THEN r.got ELSE cache[k]]
  /\ wire' = wire \ {r}
  /\ page' = [page EXCEPT !.errors = IF r.got = Failed THEN @ \cup {r.key} ELSE @ \ {r.key}]

\* student-enrollments: known from now on, which is a new key.  A failure leaves the
\* page without a list.
EnrolmentsArrive(r) ==
  /\ r.op = "enrolments"
  /\ LET p == [page EXCEPT !.known = IF r.got = Failed THEN None ELSE page.mine] IN
       /\ page' = p
       /\ wire' = (wire \ {r}) \cup (IF Enabled(p) THEN {Fetch(Key(p))} ELSE {})
  /\ UNCHANGED cache

\* "Try Again", in place of a list that could not be had or refreshed.
TryAgain ==
  /\ InError(page)
  /\ FetchesOf(wire, Key(page)) = {}
  /\ wire' = Refetch(wire, Key(page))
  /\ UNCHANGED <<page, cache, items, bounds>>

-----------------------------------------------------------------------------
(***************************************************************************)
(* The user.  A dialog covers the page.                                    *)
(***************************************************************************)

Free == page.dialog = "none"

\* After an error only the table of the users is still shown.
Shown      == Cached(page) /\ (InError(page) => page.kind = "users")
Rows       == IF Shown THEN cache[Key(page)].rows ELSE {}
PageCount  == IF Cached(page) THEN cache[Key(page)].pages ELSE 0
HasNext    == Cached(page) /\ cache[Key(page)].next

\* Where the pagination is shown, and what it offers: the numbers of its window
\* (five pages, more than the bound), Next and Previous.
Paginated ==
  CASE page.kind = "exams" -> Rows # {}
    [] page.kind = "users" -> TRUE
    [] OTHER               -> PageCount > 1 /\ Rows # {}

TurnPage ==
  /\ Free /\ Paginated
  /\ bounds.moves < MaxMoves
  /\ \E n \in (1 .. PageCount) \cup (IF HasNext THEN {page.at + 1} ELSE {})
              \cup (IF page.at > 1 THEN {page.at - 1} ELSE {}) :
       Observe([page EXCEPT !.at = n])
  /\ bounds' = [bounds EXCEPT !.moves = @ + 1]
  /\ UNCHANGED <<cache, items>>

\* handleSearch of Exams, the dropdown of the lecturers of Courses: page 1 of another
\* filter.  The search is off while the page has no list.
Filter ==
  /\ Free
  /\ \/ page.kind = "exams" /\ Cached(page)
     \/ page.kind = "courses" /\ page.role = "staff"
  /\ bounds.moves < MaxMoves
  /\ \E g \in Groups \cup {All} : Observe([page EXCEPT !.filter = g, !.at = 1])
  /\ bounds' = [bounds EXCEPT !.moves = @ + 1]
  /\ UNCHANGED <<cache, items>>

\* Staff may create and delete; submissions are neither.
Edits == page.role = "staff" /\ page.kind # "submissions"

\* The dialogs open and close; the backdrop and Escape close them while they are busy,
\* too, and what is on its way goes on.
OpenForm ==
  /\ Free /\ Edits
  /\ page' = [page EXCEPT !.dialog = "form"]
  /\ UNCHANGED <<cache, wire, items, bounds>>

\* Exams that are finished and courses that have exams have no Delete button.
OpenDelete ==
  /\ Free /\ Edits
  /\ \E i \in Rows : page' = [page EXCEPT !.dialog = "delete", !.target = i]
  /\ UNCHANGED <<cache, wire, items, bounds>>

CloseDialog ==
  /\ ~Free
  /\ page' = [page EXCEPT !.dialog = "none", !.target = None]
  /\ UNCHANGED <<cache, wire, items, bounds>>

Change(op, arg) ==
  /\ bounds.changes < MaxChanges
  /\ arg \in Ids
  /\ bounds' = [bounds EXCEPT !.changes = @ + 1, !.ids = IF op = "create" THEN arg ELSE @]
  /\ wire' = wire \cup {Send(op, arg)}
  /\ UNCHANGED <<cache, items>>

\* handleCreateExam locks the form before it looks at the hours: with none, it
\* returns, and nothing unlocks it.
ExamsCreate ==
  /\ page.kind = "exams"
  /\ page.dialog = "form"
  /\ ~page.creating
  /\ \/ page' = [page EXCEPT !.creating = TRUE, !.zero = TRUE]
        /\ UNCHANGED <<cache, wire, items, bounds>>
     \/ page' = [page EXCEPT !.creating = TRUE]
        /\ Change("create", bounds.ids + 1)

\* handleCreateCourse and handleCreate of UserManagement.
Create ==
  /\ page.kind \in {"courses", "users"}
  /\ page.dialog = "form"
  /\ ~page.creating
  /\ page' = [page EXCEPT !.creating = TRUE]
  /\ Change("create", bounds.ids + 1)

Delete ==
  /\ page.dialog = "delete"
  /\ ~page.deleting
  /\ page' = [page EXCEPT !.deleting = TRUE]
  /\ Change("delete", page.target)

-----------------------------------------------------------------------------
(***************************************************************************)
(* The answers of the changes.  Whatever dialog is open by then is closed, *)
(* also when it was opened for something else.                             *)
(***************************************************************************)

Unlock(op)  == IF op = "create" THEN [page EXCEPT !.creating = page.zero]
                                ELSE [page EXCEPT !.deleting = FALSE]
Done(op)    == [Unlock(op) EXCEPT !.early = ~Cached(page)]
Closed(p, d) == IF p.dialog = d THEN [p EXCEPT !.dialog = "none", !.target = None] ELSE p
DialogOf(op) == IF op = "create" THEN "form" ELSE "delete"

\* handleCreateExam, handleDeleteExam: a failure is shown in the dialog.
ExamsChanged(r) ==
  /\ page.kind = "exams"
  /\ IF r.got = Ok
     THEN /\ page' = Closed(Done(r.op), DialogOf(r.op))
          /\ wire' = Refetch(wire \ {r}, Key(page))
     ELSE page' = Unlock(r.op) /\ wire' = wire \ {r}

\* handleCreateCourse, handleDeleteCourse: a failed deletion closes its dialog.
CoursesChanged(r) ==
  /\ page.kind = "courses"
  /\ IF r.got = Ok
     THEN /\ page' = Closed(Done(r.op), DialogOf(r.op))
          /\ wire' = Refetch(wire \ {r}, Key(page))
     ELSE /\ page' = IF r.op = "delete" THEN Closed(Unlock(r.op), "delete") ELSE Unlock(r.op)
          /\ wire' = wire \ {r}

\* handleCreate goes to page 1 and refetches: the key of the page it was on, as the
\* query is told of the new number only after this.
UsersChanged(r) ==
  /\ page.kind = "users"
  /\ LET done  == Done(r.op)
         moved == IF r.op = "create" THEN [done EXCEPT !.at = 1] ELSE done
         key1  == Key([page EXCEPT !.at = 1])
         again == Refetch(wire \ {r}, Key(page))
     IN  IF r.got = Ok
         THEN /\ page' = Closed(moved, DialogOf(r.op))
              /\ wire' = IF r.op = "create" /\ key1 \notin DOMAIN cache
                            /\ FetchesOf(again, key1) = {}
                         THEN again \cup {Fetch(key1)} ELSE again
         ELSE /\ page' = IF r.op = "delete" THEN Closed(Unlock(r.op), "delete") ELSE Unlock(r.op)
              /\ wire' = wire \ {r}

ChangeArrives(r) ==
  /\ r.op \in {"create", "delete"}
  /\ ExamsChanged(r) \/ CoursesChanged(r) \/ UsersChanged(r)
  /\ UNCHANGED cache

Arrive(r) ==
  /\ r \in wire
  /\ r.got # None
  /\ FetchArrives(r) \/ EnrolmentsArrive(r) \/ ChangeArrives(r)
  /\ UNCHANGED <<items, bounds>>

Next ==
  \/ TurnPage
  \/ Filter
  \/ OpenForm
  \/ OpenDelete
  \/ CloseDialog
  \/ ExamsCreate
  \/ Create
  \/ Delete
  \/ TryAgain
  \/ \E r \in wire : Serve(r) \/ Lose(r) \/ Arrive(r)

Spec == Init /\ [][Next]_vars

-----------------------------------------------------------------------------
(***************************************************************************)
(* Properties.                                                             *)
(***************************************************************************)

\* Students see exams and courses they are enrolled in, and no others, whenever their
\* enrolments become known and whatever fails.
StudentsSeeTheirOwn ==
  page.role = "student" /\ page.kind \in {"exams", "courses"} =>
    \A i \in Rows : Mine(i)

\* With nothing on its way, no failure and no other page or filter visited, the list
\* is that of the server: own changes are followed by a fetch that started later,
\* also when an older one was on its way.  A change that ends before the first list is
\* there joins its load, which may be older, until the next change.
SettledListIsCurrent ==
  wire = {} /\ bounds.moves = 0 /\ bounds.failures = 0 /\ Cached(page) /\ ~page.early =>
    cache[Key(page)] = Answer(Key(page))

\* One creation and one deletion at a time, and a form is locked only while one is on
\* its way, or for ever once it was submitted with no hours.
LockedWhileInFlight ==
  /\ Cardinality(InFlight("delete")) = IF page.deleting THEN 1 ELSE 0
  /\ ~page.zero => Cardinality(InFlight("create")) = IF page.creating THEN 1 ELSE 0
=============================================================================
