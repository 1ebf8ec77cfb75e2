---------------------------- MODULE ExamQuestions ----------------------------
(***************************************************************************)
(* The questions of an exam (frontend/src/pages/ExamQuestions.tsx), seen   *)
(* by a lecturer: the list by type and page, one dialog that creates and   *)
(* edits over one form, one that deletes, and the upload of a document.    *)
(* The creation and the edit share the form, its lock and the dialog, and  *)
(* the upload shares the lock.  No questions of it are preloaded into      *)
(* Redis (tasks/question.py): the list is read from the tables.            *)
(***************************************************************************)
EXTENDS Integers, FiniteSets, FiniteSetsExt

CONSTANTS
  None, Ok, Failed, \* no value, and the answers without a list
  PerPage,
  MaxQuestions,     \* bound: questions there ever are
  MaxChanges,       \* bound: requests other than the list's
  MaxEvents         \* bound: requests that fail, changes of the type and of the page

VARIABLES
  view,             \* the page: which dialog, what it is about, the locks, the list's page
  form,             \* formData
  list,             \* the cached questions, None before they are known; see Before
  out,              \* requests in flight
  bank,             \* the questions of the exam on the server
  used              \* what counts against the bounds

vars == <<view, form, list, out, bank, used>>

Kinds   == {"choice", "blank", "theory"}
Ids     == 1 .. MaxQuestions
Numbers == 1 .. MaxQuestions + MaxChanges + 1
Types   == {"all", "objective", "theory"}

Question == [id : Ids, number : Numbers, kind : Kinds]

\* One list request at a time; every other request has its own n.
Request(op, about, n) == [op |-> op, about |-> about, n |-> n, got |-> None]
Listing               == Request("list", None, 0)
InFlight(ops)         == {r \in out : r.op \in ops}
Saves                 == {"create", "update"}

\* The requests there can be, with their answers.
Requests ==
  LET Of(op, abouts, answers) ==
        [op : {op}, about : abouts, n : Nat, got : answers \cup {None, Failed}]
  IN  Of("list", {None}, [list : SUBSET Question])
      \cup Of("create", [number : Numbers, kind : Kinds, solved : BOOLEAN], {Ok})
      \cup Of("update", [id : Ids \cup {None}, number : Numbers, kind : Kinds, solved : BOOLEAN], {Ok})
      \cup Of("delete", [id : Ids \cup {None}], {Ok})
      \cup Of("upload", {None}, {})

\* formData: "qtype" is only in the one the page starts with, which has no "kind" yet
\* (question_type); "solved": two options and one of them chosen as correct.
FirstForm == [kind |-> None, qtype |-> "choice", text |-> FALSE, solved |-> FALSE]
EmptyForm == [kind |-> "choice", qtype |-> None, text |-> FALSE, solved |-> FALSE]

TypeOK ==
  /\ view \in [dialog : {"none", "create", "edit", "delete"}, about : Ids \cup {None},
               locked : BOOLEAN, broken : BOOLEAN, processing : BOOLEAN, uploaded : BOOLEAN,
               at : Nat \ {0}, type : Types]
  /\ form \in [kind : Kinds \cup {None}, qtype : {"choice", None},
               text : BOOLEAN, solved : BOOLEAN]
  /\ list # None => list \subseteq Question
  /\ out \subseteq Requests
  /\ bank \subseteq Question
  /\ used \in [moves : 0 .. MaxEvents, changes : 0 .. MaxChanges, failures : 0 .. MaxEvents, ids : 0 .. MaxQuestions]

Init ==
  /\ view = [dialog |-> "none", about |-> None, locked |-> FALSE, broken |-> FALSE,
             processing |-> FALSE, uploaded |-> FALSE, at |-> 1, type |-> "all"]
  /\ form = FirstForm
  /\ list = None
  /\ out = {Listing}
  /\ bank \in {{}} \cup {{[id |-> 1, number |-> 1, kind |-> k]} : k \in Kinds}
  /\ used = [moves |-> 0, changes |-> 0, failures |-> 0, ids |-> Cardinality(bank)]

-----------------------------------------------------------------------------
(***************************************************************************)
(* The server.                                                             *)
(***************************************************************************)

\* The order of the list: all questions of the exam, by type and number.
Rank(k)      == CASE k = "choice" -> 1 [] k = "theory" -> 2 [] OTHER -> 3
Before(p, q) == \/ Rank(p.kind) < Rank(q.kind)
                \/ Rank(p.kind) = Rank(q.kind) /\ p.number < q.number
                \/ Rank(p.kind) = Rank(q.kind) /\ p.number = q.number /\ p.id < q.id

Stored(r, q) == [q EXCEPT !.number = r.about.number, !.kind = r.about.kind]

\* QuestionBase: "answer" is one of "A" .. "Z" and options go with objective kinds only;
\* the page sends answers as "a" .. "z", so what has an answer is refused.
Refused(r) == r.op \in Saves /\ r.about.solved

\* The service: a creation is stored before it is compared with the others of the exam;
\* one of the same number and text is refused, and stays outside the exam.
Twin(r) == r.op = "create" /\ \E q \in bank : q.number = r.about.number /\ q.kind = r.about.kind

\* The route of the upload ("/upload") is not one of the server's ("/upload-exam-paper").
Serve(r) ==
  /\ r \in out
  /\ r.got = None
  /\ LET gone == r.op \in {"update", "delete"} /\ \A q \in bank : q.id # r.about.id
         Say(answer) == out' = (out \ {r}) \cup {[r EXCEPT !.got = answer]}
     IN  \/ r.op = "list" /\ Say([list |-> bank]) /\ UNCHANGED <<bank, used>>
         \/ /\ r.op = "upload" \/ Refused(r) \/ gone \/ Twin(r)
            /\ Say(Failed)
            /\ UNCHANGED <<bank, used>>
         \/ /\ r.op = "create" /\ ~Refused(r)
            /\ used.ids < MaxQuestions
            /\ used' = [used EXCEPT !.ids = @ + 1]
            /\ bank' = bank \cup {[id |-> used.ids + 1, number |-> r.about.number,
                                   kind |-> r.about.kind]}
            /\ Say(Ok)
         \/ /\ r.op = "update" /\ ~Refused(r) /\ ~gone
            /\ bank' = {IF q.id = r.about.id THEN Stored(r, q) ELSE q : q \in bank}
            /\ Say(Ok)
            /\ UNCHANGED used
         \/ /\ r.op = "delete" /\ ~gone
            /\ bank' = {q \in bank : q.id # r.about.id}
            /\ Say(Ok)
            /\ UNCHANGED used
  /\ UNCHANGED <<view, form, list>>

\* The request (and its retry), or the answer of one that was served, is lost.
Lose(r) ==
  /\ r \in out
  /\ r.got # Failed
  /\ used.moves + used.failures < MaxEvents
  /\ used' = [used EXCEPT !.failures = @ + 1]
  /\ out' = (out \ {r}) \cup {[r EXCEPT !.got = Failed]}
  /\ UNCHANGED <<view, form, list, bank>>

-----------------------------------------------------------------------------
(***************************************************************************)
(* What the page shows.                                                    *)
(***************************************************************************)

\* filteredQuestions, by the type dropdown; the search is one more such filter.
Filtered == {q \in list : CASE view.type = "all"       -> TRUE
                            [] view.type = "objective" -> q.kind # "theory"
                            [] OTHER                   -> q.kind = "theory"}

\* totalPages and paginatedQuestions.
TotalPages == Max({1, (Cardinality(Filtered) + PerPage - 1) \div PerPage})
Shown      == {q \in Filtered :
                 Cardinality({p \in Filtered : Before(p, q)}) \div PerPage = view.at - 1}

\* Until the list is known there is a skeleton; the last request for it failed: an error
\* in place of the page and its dialogs, without a way to try again.
Loaded == list # None /\ ~view.broken
Free   == Loaded /\ view.dialog = "none"

Moved == used.moves + used.failures < MaxEvents /\ used' = [used EXCEPT !.moves = @ + 1]

\* The page number is left as it is when the filter changes.
ChooseType ==
  /\ Free
  /\ \E t \in Types \ {view.type} : view' = [view EXCEPT !.type = t]
  /\ Moved
  /\ UNCHANGED <<form, list, out, bank>>

\* handlePageChange, handleNextPage and handlePrevPage, below a list that is not empty.
TurnPage ==
  /\ Free
  /\ Filtered # {}
  /\ \E n \in (1 .. TotalPages) \cup (IF view.at > 1 THEN {view.at - 1} ELSE {}) :
       view' = [view EXCEPT !.at = n]
  /\ Moved
  /\ UNCHANGED <<form, list, out, bank>>

-----------------------------------------------------------------------------
(***************************************************************************)
(* The form.                                                               *)
(***************************************************************************)

\* "Add Question" in the header and in an empty list: the form is as it was left.
OpenCreate ==
  /\ Free
  /\ view' = [view EXCEPT !.dialog = "create"]
  /\ UNCHANGED <<form, list, out, bank, used>>

\* handleEditQuestion.  The list has no answers, so none is chosen in the form.
OpenEdit ==
  /\ Free
  /\ \E q \in Shown :
       /\ view' = [view EXCEPT !.dialog = "edit", !.about = q.id]
       /\ form' = [kind |-> q.kind, qtype |-> None, text |-> TRUE, solved |-> FALSE]
  /\ UNCHANGED <<list, out, bank, used>>

FormOpen == Loaded /\ view.dialog \in {"create", "edit"}

\* The two dropdowns of the category.
ChooseKind ==
  /\ FormOpen
  /\ \E k \in Kinds : form' = [form EXCEPT !.kind = k]
  /\ UNCHANGED <<view, list, out, bank, used>>

\* The text, and what is shown for the kind: options and the correct one for a choice;
\* the other kinds have one field, over the same correct_answer.
Fill ==
  /\ FormOpen
  /\ form.kind # None
  /\ \E s \in BOOLEAN :
       /\ s => form.kind = "choice"
       /\ form' = [form EXCEPT !.text = TRUE, !.solved = s]
  /\ UNCHANGED <<view, list, out, bank, used>>

\* "Cancel" keeps what was entered.
Cancel ==
  /\ FormOpen
  /\ view' = [view EXCEPT !.dialog = "none", !.about = None]
  /\ UNCHANGED <<form, list, out, bank, used>>

\* The backdrop, the cross and Escape clear it.
Dismiss ==
  /\ FormOpen
  /\ view' = [view EXCEPT !.dialog = "none", !.about = None]
  /\ form' = EmptyForm
  /\ UNCHANGED <<list, out, bank, used>>

\* The submit button.
Submits == Loaded /\ ~view.locked /\ form.text /\ form.kind # None

Send(op, about) ==
  /\ used.changes < MaxChanges
  /\ used' = [used EXCEPT !.changes = @ + 1]
  /\ out' = out \cup {Request(op, about, used.changes + 1)}
  /\ UNCHANGED <<list, bank>>

NextNumber == IF list = {} THEN 1 ELSE Max({q.number : q \in list}) + 1

\* handleCreateQuestion looks at qtype, which a form that was cleared does not have:
\* options and an answer are only asked for, and sent, by the page's first form.
SubmitCreate ==
  /\ view.dialog = "create"
  /\ Submits
  /\ form.qtype = "choice" => form.solved
  /\ NextNumber \in Numbers
  /\ view' = [view EXCEPT !.locked = TRUE]
  /\ Send("create", [number |-> NextNumber, kind |-> form.kind,
                     solved |-> form.qtype = "choice" /\ form.solved])
  /\ UNCHANGED form

\* handleUpdateQuestion: the number is that of the Order field.
SubmitUpdate ==
  /\ view.dialog = "edit"
  /\ Submits
  /\ form.kind = "choice" => form.solved
  /\ view' = [view EXCEPT !.locked = TRUE]
  /\ \E n \in 1 .. 2 :
       Send("update", [id |-> view.about, number |-> n, kind |-> form.kind,
                       solved |-> form.kind = "choice" /\ form.solved])
  /\ UNCHANGED form

\* handleDeleteQuestion and cancelDelete.
OpenDelete ==
  /\ Free
  /\ \E q \in Shown : view' = [view EXCEPT !.dialog = "delete", !.about = q.id]
  /\ UNCHANGED <<form, list, out, bank, used>>

CloseDelete ==
  /\ Loaded /\ view.dialog = "delete"
  /\ view' = [view EXCEPT !.dialog = "none", !.about = None]
  /\ UNCHANGED <<form, list, out, bank, used>>

\* confirmDeleteQuestion: nothing keeps the button from being pressed again.
ConfirmDelete ==
  /\ Loaded /\ view.dialog = "delete"
  /\ Send("delete", [id |-> view.about])
  /\ UNCHANGED <<view, form>>

\* handleDocumentUpload.  A document of a wrong type or size is refused at once.
Upload ==
  /\ Free
  /\ view' = [view EXCEPT !.locked = TRUE, !.processing = TRUE, !.uploaded = TRUE]
  /\ Send("upload", None)
  /\ UNCHANGED form

-----------------------------------------------------------------------------
(***************************************************************************)
(* Answers.                                                                *)
(***************************************************************************)

\* refetch: the answer of a list that is on its way is not waited for any more.
Refetched(rs) == (rs \ InFlight({"list"})) \cup {Listing}

ListArrives(r) ==
  /\ r.op = "list"
  /\ list' = IF r.got = Failed THEN list ELSE r.got.list
  /\ view' = [view EXCEPT !.broken = r.got = Failed]
  /\ out' = out \ {r}
  /\ UNCHANGED form

\* After a creation or an update: the form is cleared, whatever question it is about by
\* then; the dialog closes if it is of the kind that was submitted.
SaveArrives(r) ==
  /\ r.op \in Saves
  /\ IF r.got = Ok
     THEN /\ form' = EmptyForm
          /\ LET mine == IF r.op = "create" THEN "create" ELSE "edit"
             IN  view' = [view EXCEPT !.locked = FALSE, !.at = 1,
                                      !.about = IF view.dialog = mine THEN None ELSE @,
                                      !.dialog = IF @ = mine THEN "none" ELSE @]
          /\ out' = Refetched(out \ {r})
     ELSE /\ view' = [view EXCEPT !.locked = FALSE]
          /\ out' = out \ {r}
          /\ UNCHANGED form
  /\ UNCHANGED list

\* A failure is not shown: the dialog closes either way.
DeleteArrives(r) ==
  /\ r.op = "delete"
  /\ view' = [view EXCEPT !.at = IF r.got = Ok THEN 1 ELSE @,
                          !.about = IF view.dialog = "delete" THEN None ELSE @,
                          !.dialog = IF @ = "delete" THEN "none" ELSE @]
  /\ out' = IF r.got = Ok THEN Refetched(out \ {r}) ELSE out \ {r}
  /\ UNCHANGED <<form, list>>

\* A document without pages is never sent, and leaves the indicator on.
EmptyDocument(r) ==
  /\ r.op = "upload" /\ r.got = None
  /\ view' = [view EXCEPT !.locked = FALSE]
  /\ out' = out \ {r}
  /\ UNCHANGED <<form, list, bank, used>>

UploadArrives(r) ==
  /\ r.op = "upload"
  /\ view' = [view EXCEPT !.locked = FALSE, !.processing = FALSE]
  /\ out' = out \ {r}
  /\ UNCHANGED <<form, list>>

Arrive(r) ==
  /\ r \in out
  /\ r.got # None
  /\ \/ ListArrives(r)
     \/ SaveArrives(r)
     \/ DeleteArrives(r)
     \/ UploadArrives(r)
  /\ UNCHANGED <<bank, used>>

Next ==
  \/ ChooseType
  \/ TurnPage
  \/ OpenCreate
  \/ OpenEdit
  \/ ChooseKind
  \/ Fill
  \/ Cancel
  \/ Dismiss
  \/ SubmitCreate
  \/ SubmitUpdate
  \/ OpenDelete
  \/ CloseDelete
  \/ ConfirmDelete
  \/ Upload
  \/ \E r \in out : Serve(r) \/ Lose(r) \/ Arrive(r) \/ EmptyDocument(r)

Spec == Init /\ [][Next]_vars

-----------------------------------------------------------------------------
(***************************************************************************)
(* Properties.                                                             *)
(***************************************************************************)

\* The form is submitted once at a time, as long as no document was uploaded: the end
\* of an upload unlocks the form of a save that is still on its way.  It is not about the
\* Delete button, which is never locked and may ask for the same deletion twice.
OneSaveAtATime ==
  ~view.uploaded => Cardinality(InFlight(Saves)) = IF view.locked THEN 1 ELSE 0

\* With nothing on its way and no failure, the list is that of the server, in whatever
\* order the saves, the deletions and the lists they asked for were answered.
ListIsCurrent ==
  out = {} /\ used.failures = 0 => list = bank
=============================================================================
