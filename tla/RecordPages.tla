------------------------------ MODULE RecordPages ------------------------------
(***************************************************************************)
(* The pages about one record: the forms of an exam, a course and an       *)
(* institution (frontend/src/pages/EditExam.tsx, EditCourse.tsx and        *)
(* tenants/EditTenant.tsx) and the pages that show an exam and the         *)
(* institution (ExamDetail.tsx, Tenants.tsx).  One page is open at a time; *)
(* the browser's history moves a page from one record to another without   *)
(* mounting it anew.  The queries of exams are taken to load               *)
(* (ExamQueryLoads of SubmissionGrading).                                  *)
(***************************************************************************)
EXTENDS Integers, FiniteSets, TLC

CONSTANTS
  Records, Values,
  Own,              \* the record that is the institution of an administrator
  Blank,            \* an empty field
  None, Ok, Failed,
  MaxOpens, MaxSaves, MaxFaults   \* bounds: a fault is a jump, an edit by others, a failure

VARIABLES
  page,             \* the page that is open
  net,              \* requests in flight
  rows,             \* the records on the server
  past,             \* history: what the form was loaded with, what was done since, the
                    \* attempts there were when the page was opened, and whether its check
                    \* for them failed
  bounds

vars == <<page, net, rows, past, bounds>>

\* The fields of a record by how they travel.  name: required and always sent (title of
\* an exam; name and code of a course; name of an institution).  rest: always sent (the
\* hours of an exam, which are required; the description; is_active).  link: the course of
\* an exam, the lecturer of a course, the domain and the logo of an institution.
\* status: of an exam; the form sends it, but what is written is what the clock says.
Fields  == {"name", "rest", "link", "status"}
Contents == [Fields -> Values \cup {Blank}]
Forms   == {"exam form", "new exam", "course form", "institution form"}
Views   == {"exam", "institution"}
Kinds   == Forms \cup Views \cup {"elsewhere"}
Empty   == [f \in Fields |-> Blank]

\* "to": the page a save leads to.  "own" is FALSE for a load the page has no use for, and
\* for a save of a record the form was not filled with.  "base" and "touched": history.
Ask(op, rec, by, nth) ==
  [op |-> op, about |-> rec, by |-> by, nth |-> nth, body |-> Empty, to |-> None,
   own |-> TRUE, base |-> Empty, touched |-> {}, got |-> None]

\* The requests there can be, with their answers.
Requests ==
  LET Of(op, abouts, bodies, answers) ==
        [op : {op}, about : abouts, by : Nat, nth : Nat, body : bodies,
         to : Views \cup {"elsewhere", None}, own : BOOLEAN, base : Contents,
         touched : SUBSET Fields, got : answers \cup {None, Failed}]
  IN  Of("load", Records, {Empty}, Contents)
      \cup Of("check", Records, {Empty}, BOOLEAN)
      \cup Of("save", Records \cup {None}, UNION {[F -> Values \cup {Blank}] : F \in SUBSET Fields}, {Ok})

Faults == bounds.jumps + bounds.others + bounds.failures

TypeOK ==
  /\ page \in [kind : Kinds, n : Nat, role : {"student", "lecturer", "admin"}, at : Records,
               loading : BOOLEAN, has : Records \cup {None}, values : Contents,
               failed : BOOLEAN, saving : BOOLEAN, submitted : BOOLEAN]
  /\ net \subseteq Requests
  /\ \A r \in net : r.by <= page.n
  /\ rows \in [content : [Records -> Contents], attempted : SUBSET Records, made : Nat]
  /\ \A rec \in Records : rows.content[rec].name # Blank
  /\ past \in [base : Contents, touched : SUBSET Fields, strayed : BOOLEAN,
               before : SUBSET Records, unchecked : BOOLEAN]
  /\ bounds \in [opens : 0 .. MaxOpens, jumps : 0 .. MaxFaults, saves : 0 .. MaxSaves,
                 others : 0 .. MaxFaults, failures : 0 .. MaxFaults]

Init ==
  /\ page \in [kind : {"elsewhere"}, n : {0}, role : {"student", "lecturer", "admin"},
               at : {Own}, loading : {FALSE}, has : {None}, values : {Empty},
               failed : {FALSE}, saving : {FALSE}, submitted : {FALSE}]
  /\ net = {}
  /\ rows \in [content : [Records -> {c \in Contents : /\ c.name # Blank /\ c.rest = c.name
                                                       /\ c.status = Blank}],
               attempted : SUBSET Records, made : {0}]
  /\ page.role # "student" => rows.attempted = {}
  /\ \A a, b \in Records : a # b => rows.content[a] # rows.content[b]
  /\ past = [base |-> Empty, touched |-> {}, strayed |-> FALSE, before |-> {},
             unchecked |-> FALSE]
  /\ bounds = [opens |-> 0, jumps |-> 0, saves |-> 0, others |-> 0, failures |-> 0]

-----------------------------------------------------------------------------
(***************************************************************************)
(* Opening.                                                                *)
(***************************************************************************)

\* The routes of App.tsx.
May(role, kind) ==
  CASE kind \in {"exam", "elsewhere"}                       -> TRUE
    [] kind \in {"exam form", "new exam", "course form"}    -> role # "student"
    [] OTHER                                                -> role = "admin"

\* A new page waits for nothing that was asked for by the one before; a save is still
\* listened to, and leads away from the new page when it succeeds.  Only the course form
\* and that of a new exam start without a spinner.
Mount(kind, rec, values, rs) ==
  /\ page' = [page EXCEPT !.kind = kind, !.n = @ + 1, !.at = rec,
                          !.loading = kind \notin {"new exam", "course form", "elsewhere"},
                          !.has = None, !.values = values, !.failed = FALSE,
                          !.saving = FALSE, !.submitted = FALSE]
  /\ LET saves == {r \in rs : r.op = "save"} IN
       /\ net' = saves \cup IF kind \in {"new exam", "elsewhere"} THEN {}
                            ELSE {Ask("load", rec, page.n + 1, bounds.jumps)}
       /\ past' = [past EXCEPT !.touched = {}, !.strayed = saves # {},
                               !.before = rows.attempted, !.unchecked = FALSE]

\* Links, buttons ("Cancel", "Back to Exam", "Edit", "Try again") and typed URLs.
Open ==
  /\ bounds.opens < MaxOpens
  /\ bounds' = [bounds EXCEPT !.opens = @ + 1]
  /\ \E kind \in Kinds, rec \in Records :
       /\ May(page.role, kind)
       /\ kind \in {"institution", "institution form"} => rec = Own
       /\ kind \in {"new exam", "elsewhere"} => rec = page.at
       /\ \/ kind # "new exam" /\ Mount(kind, rec, Empty, net)
          \/ /\ kind = "new exam"
             /\ \E v \in Values : Mount(kind, rec, [Empty EXCEPT !.link = v], net)
  /\ UNCHANGED rows

\* The history leads to the same page of another record.  ExamDetail has an
\* initialFetchDone: it asks for nothing, and has no use for the load it waits for.
Jump ==
  /\ Faults < MaxFaults
  /\ bounds' = [bounds EXCEPT !.jumps = @ + 1]
  /\ page.kind \in {"exam", "exam form", "course form"}
  /\ \E rec \in Records \ {page.at} :
       /\ page' = [page EXCEPT !.at = rec,
                               !.loading = @ \/ page.kind = "exam form",
                               !.failed  = (@ /\ page.kind # "exam form")]
       /\ net' = IF page.kind = "exam"
                 THEN {IF r.op = "load" THEN [r EXCEPT !.own = FALSE] ELSE r : r \in net}
                 ELSE net \cup {Ask("load", rec, page.n, bounds.jumps + 1)}
  /\ past' = [past EXCEPT !.strayed = TRUE]
  /\ UNCHANGED rows

-----------------------------------------------------------------------------
(***************************************************************************)
(* The server.                                                             *)
(***************************************************************************)

\* What a save writes.  PUT /academic/exams/{id} sets the status by the start, the
\* duration and the clock, whatever is sent.
Written(r, status) ==
  [f \in Fields |-> IF f \in DOMAIN r.body THEN r.body[f]
                   ELSE IF f = "status" /\ r.to = "exam" THEN status
                   ELSE rows.content[r.about][f]]

Serve(r) ==
  /\ r \in net
  /\ r.got = None
  /\ LET Say(answer) == net' = (net \ {r}) \cup {[r EXCEPT !.got = answer]} IN
       \/ r.op = "load"  /\ Say(rows.content[r.about]) /\ UNCHANGED rows
       \/ r.op = "check" /\ Say(r.about \in rows.attempted) /\ UNCHANGED rows
       \/ /\ r.op = "save"
          /\ Say(Ok)
          /\ IF r.about = None
             THEN rows' = [rows EXCEPT !.made = @ + 1]
             ELSE \E status \in Values \cup {Blank} :
                    rows' = [rows EXCEPT !.content[r.about] = Written(r, status)]
  /\ UNCHANGED <<page, past, bounds>>

\* A request is refused or lost, or its answer is.
Lose(r) ==
  /\ r \in net
  /\ r.got # Failed
  /\ Faults < MaxFaults
  /\ bounds' = [bounds EXCEPT !.failures = @ + 1]
  /\ net' = (net \ {r}) \cup {[r EXCEPT !.got = Failed]}
  /\ UNCHANGED <<page, rows, past>>

\* Somebody else edits a record, or the status moves with the clock.
Other ==
  /\ Faults < MaxFaults
  /\ bounds' = [bounds EXCEPT !.others = @ + 1]
  /\ \E rec \in Records, f \in Fields, v \in Values :
       /\ v # rows.content[rec][f]
       /\ rows' = [rows EXCEPT !.content[rec][f] = v]
  /\ UNCHANGED <<page, net, past>>

\* An attempt of the student is recorded: one submitted in another tab, or by the
\* scheduler.
Attempt ==
  /\ page.role = "student"
  /\ Faults < MaxFaults
  /\ bounds' = [bounds EXCEPT !.others = @ + 1]
  /\ \E rec \in Records \ rows.attempted : rows' = [rows EXCEPT !.attempted = @ \cup {rec}]
  /\ UNCHANGED <<page, net, past>>

-----------------------------------------------------------------------------
(***************************************************************************)
(* The forms.                                                              *)
(***************************************************************************)

\* Where the form is on the screen.  The lecturer of a course is in the answer by id
\* only, and the form compares lecturer.id: it is for administrators.
FormShown ==
  CASE page.kind = "new exam"         -> TRUE
    [] page.kind = "exam form"        -> ~page.loading /\ page.has # None
    [] page.kind = "course form"      -> page.role = "admin" /\ (page.failed => page.has # None)
    [] page.kind = "institution form" -> ~page.loading
    [] OTHER                          -> FALSE

\* handleInputChange, handleChange and the setters of EditTenant: a message goes away,
\* except there.  The fields of a course are locked while it is saved.  Bound: a field is
\* edited once after each time the form was filled.
Edit ==
  /\ FormShown
  /\ page.kind = "course form" => ~page.saving
  /\ \E f \in {"name", "rest", "link"} \ past.touched, v \in Values \cup {Blank} :
       /\ v # page.values[f]
       /\ page' = [page EXCEPT !.values[f] = v, !.failed = @ /\ page.kind = "institution form"]
       /\ past' = [past EXCEPT !.touched = @ \cup {f}]
  /\ UNCHANGED <<net, rows, bounds>>

RequiredOfExams ==
  CASE page.kind \in {"exam form", "new exam"} -> {"name", "rest", "link"}
    [] OTHER                                   -> {}

Required ==
  CASE page.kind \in {"exam form", "new exam"} -> {"name", "rest", "link"}
    [] OTHER                                   -> {"name"}

SentBlanks ==
  IF page.kind = "exam form" THEN {"name", "rest"} ELSE {"name", "rest", "link"}

\* What the server takes of what is sent: the course of an exam is no field of its update,
\* an empty lecturer, domain or logo is not sent.
Sent ==
  CASE page.kind = "new exam"    -> {"name", "rest", "link"}
    [] page.kind = "exam form"   -> {"name", "rest"}
    [] page.values.link = Blank  -> {"name", "rest"}
    [] OTHER                     -> {"name", "rest", "link"}

\* The button.
Submits == FormShown /\ ~page.saving /\ \A f \in Required : page.values[f] # Blank

\* The exam, the institution; the courses, and an exam that is new, are elsewhere.
Target == CASE page.kind = "exam form"        -> "exam"
            [] page.kind = "institution form" -> "institution"
            [] OTHER                          -> "elsewhere"

\* handleSubmit and handleSave.
Submit ==
  /\ Submits
  /\ bounds.saves < MaxSaves
  /\ bounds' = [bounds EXCEPT !.saves = @ + 1]
  /\ page' = [page EXCEPT !.saving = TRUE, !.failed = FALSE]
  /\ net' = net \cup {[op |-> "save", about |-> IF page.kind = "new exam" THEN None ELSE page.at,
                       by |-> page.n, nth |-> bounds.saves,
                       body |-> [f \in Sent |-> page.values[f]], to |-> Target,
                       own |-> page.has = page.at, base |-> past.base,
                       touched |-> past.touched, got |-> None]}
  /\ UNCHANGED <<rows, past>>

-----------------------------------------------------------------------------
(***************************************************************************)
(* Answers.                                                                *)
(***************************************************************************)

\* The answers for an exam and a course have the ids of their course and lecturer, where
\* the forms look for the course and the lecturer.
Filled(content) ==
  IF page.kind \in {"exam form", "course form"} THEN [content EXCEPT !.link = Blank] ELSE content

LoadArrivesShown(r) ==
  /\ r.op = "load"
  /\ IF r.got = Failed \/ ~r.own
     THEN /\ page' = [page EXCEPT !.loading = FALSE, !.failed = TRUE]
          /\ net' = net \ {r}
          /\ UNCHANGED past
     ELSE LET checks == page.kind = "exam" /\ page.role = "student" IN
          /\ page' = [page EXCEPT !.has = r.about, !.values = Filled(r.got), !.loading = FALSE]
          /\ net' = (net \ {r}) \cup IF checks THEN {Ask("check", r.about, page.n, 0)} ELSE {}
          /\ past' = [past EXCEPT !.base = r.got, !.touched = {}]

\* The last of several loads that is answered fills the form, whatever it was for.
LoadArrives(r) ==
  /\ r.op = "load"
  /\ IF r.got = Failed \/ ~r.own
     THEN /\ page' = [page EXCEPT !.loading = FALSE, !.failed = TRUE]
          /\ net' = net \ {r}
          /\ UNCHANGED past
     ELSE LET checks == page.kind = "exam" /\ page.role = "student" IN
          /\ page' = [page EXCEPT !.has = r.about, !.values = Filled(r.got), !.loading = checks]
          /\ net' = (net \ {r}) \cup IF checks THEN {Ask("check", r.about, page.n, 0)} ELSE {}
          /\ past' = [past EXCEPT !.base = r.got, !.touched = {}]

\* getMySubmission; a failure counts as no submission.
CheckArrives(r) ==
  /\ r.op = "check"
  /\ page' = [page EXCEPT !.loading = FALSE, !.submitted = r.got = TRUE]
  /\ net' = net \ {r}
  /\ past' = [past EXCEPT !.unchecked = r.got = Failed]

\* navigate, also after the form was left.  Who is there already stays on the page as it is.
SavedArrives(r) ==
  /\ r.op = "save" /\ r.got = Ok
  /\ IF page.kind = r.to /\ (r.to = "exam" => page.at = r.about)
     THEN net' = net \ {r} /\ UNCHANGED <<page, past>>
     ELSE Mount(r.to, IF r.about = None THEN page.at ELSE r.about, Empty, net \ {r})

SaveFails(r) ==
  /\ r.op = "save" /\ r.got = Failed
  /\ page' = IF r.by = page.n THEN [page EXCEPT !.saving = FALSE, !.failed = TRUE] ELSE page
  /\ net' = net \ {r}
  /\ UNCHANGED past

Arrive(r) ==
  /\ r \in net
  /\ r.got # None
  /\ LoadArrives(r) \/ CheckArrives(r) \/ SavedArrives(r) \/ SaveFails(r)
  /\ UNCHANGED <<rows, bounds>>

Next ==
  \/ Open
  \/ Jump
  \/ Edit
  \/ Submit
  \/ Other
  \/ Attempt
  \/ \E r \in net : Serve(r) \/ Lose(r) \/ Arrive(r)

Spec == Init /\ [][Next]_vars

-----------------------------------------------------------------------------
(***************************************************************************)
(* Properties.                                                             *)
(***************************************************************************)

\* A form has one save on its way while its button shows progress, and none otherwise,
\* whichever record it was moved to and whatever arrives late.
OneSavePerForm ==
  Cardinality({r \in net : r.op = "save" /\ r.by = page.n}) = IF page.saving THEN 1 ELSE 0

\* The forms send fields nobody touched.  A form that was filled with the record it saves
\* leaves those of them as they are which nobody else changed since: what the answer
\* does not have, the lecturer of a course, or the form cannot show, is not sent.  What
\* somebody else has changed since is overwritten, and the status of an exam is the
\* server's.
UntouchedStays ==
  \A rec \in Records, f \in Fields \ {"status"} :
    rows'.content[rec][f] # rows.content[rec][f] =>
      \/ bounds'.others # bounds.others
      \/ \E r \in net : /\ r.op = "save" /\ r.about = rec /\ r.got = None
                        /\ \/ f \in r.touched
                           \/ ~r.own
                           \/ rows.content[rec][f] # r.base[f]

\* The page of an exam or the institution shows the record as it is, also after a save
\* or while older requests end, unless it was opened with a save on its way, moved by
\* the history, or somebody else edited.
ViewIsCurrent ==
  page.kind \in Views /\ ~page.loading /\ page.has # None /\ ~past.strayed /\ bounds.others = 0
    => page.values = rows.content[page.at]

\* "Take Exam" is not offered to students who had an attempt when the page was opened,
\* unless the check for one failed, which counts as none: an attempt recorded since may be
\* missed.
TakeIsChecked ==
  page.kind = "exam" /\ page.role = "student" /\ ~page.loading /\ page.has = page.at
  /\ ~page.submitted /\ ~past.unchecked
    => page.at \notin past.before
=============================================================================
