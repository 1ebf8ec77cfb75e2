--------------------------------- MODULE Pages ---------------------------------
(***************************************************************************)
(* The pages of the application that keep a state of their own, behind its *)
(* router: one is open at a time, and a behaviour is that of the one.  The *)
(* variables are shared: the state of the page, the requests in flight,    *)
(* the rows of the server, and what else a page keeps.                     *)
(***************************************************************************)
EXTENDS Integers, FiniteSets, TLC

CONSTANTS
  Students, Terms, Years, Groups, Records, Values, Own,
  All, None, Ok, Failed, Blank,
  PerPage,
  MaxExams, MaxItems, MaxQuestions,                             \* bounds: rows there are
  MaxMoves, MaxOpens, MaxSaves, MaxChanges, MaxFailures,
  MaxEvents, MaxFaults                                          \* bounds: steps

VARIABLES open, page, kept, cache, net, server, bounds

vars == <<open, page, kept, cache, net, server, bounds>>

Roster    == INSTANCE CourseRoster WITH ui <- page, db <- server
Exams     == INSTANCE CourseExams WITH view <- page, calls <- net, course <- server, lost <- bounds
Lists     == INSTANCE ListPages WITH wire <- net, items <- server
Questions == INSTANCE ExamQuestions WITH view <- page, form <- kept, list <- cache, out <- net,
                                         bank <- server, used <- bounds
Forms     == INSTANCE RecordPages WITH rows <- server, past <- kept

ASSUME PagesAssumption ==
  /\ IsFiniteSet(Students)
  /\ PerPage \in Nat \ {0}
  /\ None # Ok /\ None # Failed /\ Ok # Failed
  /\ Blank \notin Values
  /\ None \notin Records
  /\ Failed \notin Lists!Answers /\ Failed \notin [list : SUBSET Questions!Question]
  /\ Own \in Records
  /\ MaxQuestions \in Nat \ {0}
  /\ {MaxExams, MaxItems, MaxMoves, MaxOpens, MaxSaves, MaxChanges, MaxFailures,
      MaxEvents, MaxFaults} \subseteq Nat

Init ==
  \/ open = "roster"    /\ Roster!Init    /\ kept = None /\ cache = None
  \/ open = "exams"     /\ Exams!Init     /\ kept = None /\ cache = None
  \/ open = "lists"     /\ Lists!Init     /\ kept = None
  \/ open = "questions" /\ Questions!Init
  \/ open = "records"   /\ Forms!Init     /\ cache = None

Next ==
  /\ UNCHANGED open
  /\ \/ open = "roster"    /\ Roster!Next    /\ UNCHANGED <<kept, cache>>
     \/ open = "exams"     /\ Exams!Next     /\ UNCHANGED <<kept, cache>>
     \/ open = "lists"     /\ Lists!Next     /\ UNCHANGED kept
     \/ open = "questions" /\ Questions!Next
     \/ open = "records"   /\ Forms!Next     /\ UNCHANGED cache

Spec == Init /\ [][Next]_vars

-----------------------------------------------------------------------------
(***************************************************************************)
(* Properties: those of the pages.                                         *)
(***************************************************************************)

\* Every page keeps its types.
TypeOK ==
  CASE open = "roster"    -> Roster!TypeOK
    [] open = "exams"     -> Exams!TypeOK
    [] open = "lists"     -> Lists!TypeOK
    [] open = "questions" -> Questions!TypeOK
    [] OTHER              -> Forms!TypeOK

\* Every button that sends a change is locked exactly while one is on its way, or the
\* refresh after it: none is locked for ever, and none sends a second request beside the
\* first, whichever dialogs, pages and records were left or opened meanwhile.  The lists
\* excuse an exam submitted with no hours, which locks its form for good, and ExamQuestions
\* the upload of a document, which shares the lock, and the Delete button, which has none.
OneRequestAtATime ==
  CASE open = "roster"    -> Roster!BusyWhileInFlight
    [] open = "exams"     -> Exams!DeletedOnce
    [] open = "lists"     -> Lists!LockedWhileInFlight
    [] open = "questions" -> Questions!OneSaveAtATime
    [] OTHER              -> Forms!OneSavePerForm

\* A page with nothing on its way shows what the server has, whatever was saved and deleted
\* there, in whatever order the answers came: the lists of React Query, the questions of an
\* exam, the record of a view.  Not promised after a failure or an edit by somebody else,
\* nor by a list that returns to a page or filter it still has in its cache, or whose
\* first load was still on its way when the last change ended.  Turning the pages of a
\* course's exams never leads to an empty one, which has no way back, while the tenant has
\* no exams of other courses.
SettledPageIsCurrent ==
  CASE open = "exams"     -> Exams!PagesHaveRows
    [] open = "lists"     -> Lists!SettledListIsCurrent
    [] open = "questions" -> Questions!ListIsCurrent
    [] open = "records"   -> Forms!ViewIsCurrent
    [] OTHER              -> TRUE

\* Students are shown nothing before the check that it is theirs: in Exams and Courses no
\* course without an enrolment, whenever the answers come and whatever fails; in ExamDetail
\* no "Take Exam" when there was an attempt as the page was opened, unless the check for it
\* fails.
ShownAfterTheCheck ==
  /\ open = "lists" => Lists!StudentsSeeTheirOwn
  /\ open = "records" => Forms!TakeIsChecked

\* CourseDetail: the spinner of the students, or of the exams, gives way to the answer of
\* the page and the filter chosen, also when several requests for the list were on their
\* way.
SpinnerEndsWithQuery == [][/\ open = "roster" => Roster!SpinnerEnds
                           /\ open = "exams" => Exams!SpinnerEnds]_vars

\* A save keeps what it is not about: the fields of an exam, a course or an institution
\* that nobody touched since the form was filled with them stay as they are, though the
\* forms send more than what was touched and lack what the answers do not have.  What
\* somebody else has changed meanwhile is overwritten, and the server sets the status of an
\* exam anew with every save.
SavesKeepTheRest == [][open = "records" => Forms!UntouchedStays]_vars

\* Renaming what the pages treat alike.
Symmetry == Permutations(Students) \cup Permutations(Terms) \cup Permutations(Groups)
            \cup Permutations(Years)
=============================================================================
