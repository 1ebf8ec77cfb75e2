----------------------------- MODULE Pages_proofs -----------------------------
(***************************************************************************)
(* Proofs about Pages for any students, records, pages and bounds.         *)
(***************************************************************************)
EXTENDS Pages, FiniteSetTheorems, SequenceTheorems, TLAPS

LEMMA Constants ==
  /\ PerPage \in Nat /\ PerPage > 0
  /\ None # Ok /\ None # Failed /\ Ok # Failed
  /\ Own \in Records /\ None \notin Records /\ Blank \notin Values
  /\ MaxQuestions \in Nat /\ MaxQuestions > 0
  /\ MaxExams \in Nat /\ MaxItems \in Nat /\ MaxMoves \in Nat /\ MaxOpens \in Nat
  /\ MaxSaves \in Nat /\ MaxChanges \in Nat /\ MaxFailures \in Nat /\ MaxEvents \in Nat
  /\ MaxFaults \in Nat
  BY PagesAssumption

\* A lock and the requests it stands for: at most one, and one exactly while it is held.
Locks(S, flag) == (\A a, b \in S : a = b) /\ (flag <=> S # {})

LEMMA LocksCount ==
  ASSUME NEW S, NEW flag \in BOOLEAN, Locks(S, flag)
  PROVE  Cardinality(S) = IF flag THEN 1 ELSE 0
<1>1. CASE S = {}
  BY <1>1, FS_EmptySet DEF Locks
<1>2. CASE S # {}
  <2>1. PICK a \in S : TRUE
    BY <1>2
  <2>2. S = {a}
    BY <2>1 DEF Locks
  <2> QED
    BY <2>2, <1>2, FS_Singleton DEF Locks
<1> QED
  BY <1>1, <1>2

LEMMA LocksSwap ==
  ASSUME NEW S, NEW flag, Locks(S, flag), NEW r \in S, NEW q
  PROVE  Locks((S \ {r}) \cup {q}, flag)
  BY DEF Locks

LEMMA LocksTake ==
  ASSUME NEW S, NEW flag, Locks(S, flag), ~flag, NEW q
  PROVE  Locks(S \cup {q}, TRUE)
  BY DEF Locks

LEMMA LocksRelease ==
  ASSUME NEW S, NEW flag, Locks(S, flag), NEW r \in S
  PROVE  Locks(S \ {r}, FALSE)
  BY DEF Locks

LEMMA SeqOne == \A S : <<>> \in Seq(S) /\ \A e \in S : <<e>> \in Seq(S)
  OBVIOUS

-----------------------------------------------------------------------------
(***************************************************************************)
(* CourseRoster.                                                           *)
(***************************************************************************)

RosterSpin   == {r \in net : r.op \in {"load", "list"}}
RosterEnrol  == {r \in net : r.op \in {"enrol", "relist"}}
RosterRemove == {r \in net : r.op \in {"remove", "rerow"}}

RosterInv ==
  /\ Roster!TypeOK
  /\ Locks(RosterSpin, page.busy)
  /\ Locks(RosterEnrol, page.enrolling)
  /\ Locks(RosterRemove, page.removing # None)
  /\ \A r \in RosterSpin : r.at = Roster!Query(page)
  /\ page.dialog # "none" => ~page.busy

RosterState ==
  [phase : {"loading", "shown", "failed"}, page : Roster!Pages, filter : Roster!Filters,
   rows : SUBSET Roster!Enrolment, more : BOOLEAN, of : Roster!Queries \cup {None},
   busy : BOOLEAN, dialog : Roster!Dialogs, picked : Students \cup {None},
   enrolling : BOOLEAN, target : Roster!Enrolment \cup {None},
   removing : Roster!Enrolment \cup {None}]

LEMMA RosterPages ==
  /\ 1 \in Roster!Pages
  /\ \A n \in Roster!Pages : n \in Nat /\ (n > 1 => n - 1 \in Roster!Pages)
<1>1. Cardinality(Students) \in Nat
  BY PagesAssumption, FS_CardinalityType
<1>2. Roster!Cardinality(Students) = Cardinality(Students)
  BY DEF Roster!Cardinality, Cardinality
<1> QED
  BY <1>1, <1>2 DEF Roster!Pages

LEMMA RosterInit ==
  ASSUME Roster!Init
  PROVE  RosterInv
<1> USE DEF Roster!Init
<1>1. Roster!Start \in Roster!Queries
  BY RosterPages DEF Roster!Start, Roster!Queries, Roster!Filters
<1>2. net \subseteq Roster!Request /\ \A r \in net : Roster!WellFormed(r)
  BY <1>1 DEF Roster!Request, Roster!WellFormed, Roster!Ask, Roster!Changes, Roster!Lists
<1>3. server \in Seq(Roster!Enrolment)
  BY SeqOne
<1>4. bounds \in [changes : 0..MaxChanges, failures : 0..MaxFailures]
  BY Constants
<1>5. Roster!TypeOK
  BY <1>2, <1>3, <1>4, RosterPages DEF Roster!TypeOK, Roster!Filters, Roster!Dialogs
<1>6. RosterSpin = net /\ RosterEnrol = {} /\ RosterRemove = {}
  BY DEF RosterSpin, RosterEnrol, RosterRemove, Roster!Ask
<1>7. \A r \in net : r.at = Roster!Query(page)
  BY DEF Roster!Ask, Roster!Query, Roster!Start
<1> QED
  BY <1>5, <1>6, <1>7 DEF RosterInv, Locks

LEMMA RosterTypes ==
  /\ Roster!TypeOK <=>
       /\ page \in RosterState
       /\ net \subseteq Roster!Request
       /\ \A r \in net : Roster!WellFormed(r)
       /\ server \in Seq(Roster!Enrolment)
       /\ bounds \in [changes : 0 .. MaxChanges, failures : 0 .. MaxFailures]
  /\ Roster!TypeOK' <=>
       /\ page' \in RosterState
       /\ net' \subseteq Roster!Request
       /\ \A r \in net' : Roster!WellFormed(r)
       /\ server' \in Seq(Roster!Enrolment)
       /\ bounds' \in [changes : 0 .. MaxChanges, failures : 0 .. MaxFailures]
  BY DEF Roster!TypeOK, RosterState

LEMMA RosterQuery == \A u \in RosterState : Roster!Query(u) \in Roster!Queries
  BY DEF RosterState, Roster!Query, Roster!Queries

\* A request is put in the place of another of its lock.
LEMMA RosterSwap ==
  ASSUME RosterInv, NEW r \in net, NEW q \in Roster!Request, Roster!WellFormed(q), q.at = r.at,
         \/ q.op = r.op
         \/ r.op = "enrol" /\ q.op = "relist"
         \/ r.op = "remove" /\ q.op = "rerow",
         net' = (net \ {r}) \cup {q}, UNCHANGED page,
         server' \in Seq(Roster!Enrolment),
         bounds' \in [changes : 0 .. MaxChanges, failures : 0 .. MaxFailures]
  PROVE  RosterInv'
<1> r.op \in Roster!Changes \cup Roster!Lists
  BY RosterTypes DEF RosterInv, Roster!Request
<1> USE DEF RosterInv
<1>1. Roster!TypeOK'
  BY RosterTypes
<1>2. Locks(RosterSpin, page.busy)' /\ \A s \in RosterSpin' : s.at = Roster!Query(page')
  <2>1. CASE r \in RosterSpin
    <3>1. RosterSpin' = (RosterSpin \ {r}) \cup {q}
      BY <2>1 DEF RosterSpin
    <3> QED
      BY <3>1, <2>1, LocksSwap
  <2>2. CASE r \notin RosterSpin
    <3>1. RosterSpin' = RosterSpin
      BY <2>2 DEF RosterSpin
    <3> QED
      BY <3>1
  <2> QED
    BY <2>1, <2>2
<1>3. Locks(RosterEnrol, page.enrolling)'
  <2>1. CASE r \in RosterEnrol
    <3>1. RosterEnrol' = (RosterEnrol \ {r}) \cup {q}
      BY <2>1 DEF RosterEnrol
    <3> QED
      BY <3>1, <2>1, LocksSwap
  <2>2. CASE r \notin RosterEnrol
    <3>1. RosterEnrol' = RosterEnrol
      BY <2>2 DEF RosterEnrol
    <3> QED
      BY <3>1
  <2> QED
    BY <2>1, <2>2
<1>4. Locks(RosterRemove, page.removing # None)'
  <2>1. CASE r \in RosterRemove
    <3>1. RosterRemove' = (RosterRemove \ {r}) \cup {q}
      BY <2>1 DEF RosterRemove
    <3> QED
      BY <3>1, <2>1, LocksSwap
  <2>2. CASE r \notin RosterRemove
    <3>1. RosterRemove' = RosterRemove
      BY <2>2 DEF RosterRemove
    <3> QED
      BY <3>1
  <2> QED
    BY <2>1, <2>2
<1> QED
  BY <1>1, <1>2, <1>3, <1>4

LEMMA RosterServe ==
  ASSUME RosterInv, NEW r \in net, Roster!Serve(r)
  PROVE  RosterInv'
<1> USE DEF RosterInv
<1> DEFINE accepts == CASE r.op = "enrol"  -> \A e \in Roster!Range(server) : e.student # r.arg.student
                        [] r.op = "remove" -> r.arg \in Roster!Range(server)
                        [] OTHER           -> FALSE
           q == [r EXCEPT !.got = IF r.op \in Roster!Lists THEN Roster!Listing(r.at)
                                  ELSE IF accepts THEN Ok ELSE Failed]
<1>1. /\ server \in Seq(Roster!Enrolment)
      /\ r \in Roster!Request /\ Roster!WellFormed(r)
      /\ UNCHANGED <<page, bounds>>
      /\ bounds \in [changes : 0 .. MaxChanges, failures : 0 .. MaxFailures]
      /\ net' = (net \ {r}) \cup {q}
  BY RosterTypes DEF Roster!Serve
<1>2. server' \in Seq(Roster!Enrolment)
  <2>1. CASE r.op = "enrol" /\ accepts /\ server' = <<r.arg>> \o server
    <3>1. r.arg \in Roster!Enrolment
      BY <1>1, <2>1 DEF Roster!WellFormed, Roster!Changes
    <3> QED
      BY <3>1, <2>1, <1>1, SeqOne, ConcatProperties
  <2>2. ASSUME NEW i \in DOMAIN server,
               server' = SubSeq(server, 1, i - 1) \o SubSeq(server, i + 1, Len(server))
        PROVE  server' \in Seq(Roster!Enrolment)
    <3>1. SubSeq(server, 1, i - 1) \in Seq(Roster!Enrolment)
      BY <1>1
    <3>2. SubSeq(server, i + 1, Len(server)) \in Seq(Roster!Enrolment)
      BY <1>1
    <3> QED
      BY <2>2, <3>1, <3>2, ConcatProperties
  <2> QED
    BY <1>1, <2>1, <2>2 DEF Roster!Serve
<1>3. Roster!Listing(r.at) \in Roster!PageRows
  <2>1. \A i \in DOMAIN server : server[i] \in Roster!Enrolment
    BY <1>1
  <2> DEFINE found == {j \in DOMAIN server : r.at[2] \in {All, server[j].term}}
             shown == {j \in found : Roster!Cardinality({k \in found : k < j}) \div PerPage
                                       = r.at[1] - 1}
             rows == {server[i] : i \in shown}
             more == Roster!Cardinality(found) > r.at[1] * PerPage
  <2>2. Roster!Listing(r.at) = [rows |-> rows, more |-> more]
    BY DEF Roster!Listing
  <2>3. shown \subseteq DOMAIN server
    OBVIOUS
  <2> HIDE DEF shown
  <2>4. rows \subseteq Roster!Enrolment
    BY <2>1, <2>3
  <2>5. more \in BOOLEAN
    OBVIOUS
  <2> HIDE DEF rows, more
  <2> QED
    BY <2>2, <2>4, <2>5 DEF Roster!PageRows
<1>4. q \in Roster!Request /\ Roster!WellFormed(q) /\ q.at = r.at /\ q.op = r.op
  <2>1. CASE r.op \in Roster!Lists
    BY <2>1, <1>1, <1>3 DEF Roster!Request, Roster!WellFormed
  <2>2. CASE r.op \notin Roster!Lists
    BY <2>2, <1>1 DEF Roster!Request, Roster!WellFormed
  <2> QED
    BY <2>1, <2>2
<1> HIDE DEF q
<1> QED
  BY <1>1, <1>2, <1>4, RosterSwap

LEMMA RosterLose ==
  ASSUME RosterInv, NEW r \in net, Roster!Lose(r)
  PROVE  RosterInv'
<1> USE DEF RosterInv
<1> DEFINE q == [r EXCEPT !.got = Failed]
<1>1. /\ r \in Roster!Request /\ Roster!WellFormed(r)
      /\ UNCHANGED <<page, server>> /\ server \in Seq(Roster!Enrolment)
      /\ net' = (net \ {r}) \cup {q}
  BY RosterTypes DEF Roster!Lose
<1>2. bounds' \in [changes : 0 .. MaxChanges, failures : 0 .. MaxFailures]
  <2>1. bounds \in [changes : 0 .. MaxChanges, failures : 0 .. MaxFailures]
    BY RosterTypes
  <2> QED
    BY <2>1, Constants DEF Roster!Lose
<1>3. q \in Roster!Request /\ Roster!WellFormed(q) /\ q.at = r.at /\ q.op = r.op
  BY <1>1 DEF Roster!Request, Roster!WellFormed
<1> HIDE DEF q
<1> QED
  BY <1>1, <1>2, <1>3, RosterSwap

\* A page that stands still, or sends the request for what it turns to.
LEMMA RosterMove ==
  ASSUME RosterInv, NEW u \in RosterState, Roster!Move(u), UNCHANGED <<server, bounds>>,
         ~page.busy, ~u.busy, u.dialog = "none",
         u.enrolling = page.enrolling, u.removing = page.removing
  PROVE  RosterInv'
<1> USE DEF RosterInv
<1>1. CASE page' = u /\ UNCHANGED net
  <2>1. Roster!TypeOK'
    BY <1>1, RosterTypes
  <2>2. RosterSpin' = {} /\ RosterEnrol' = RosterEnrol /\ RosterRemove' = RosterRemove
    BY <1>1 DEF RosterSpin, RosterEnrol, RosterRemove, Locks
  <2> QED
    BY <1>1, <2>1, <2>2 DEF Locks
<1>2. CASE /\ page' = [u EXCEPT !.busy = TRUE]
           /\ net' = net \cup {Roster!Ask("list", Roster!Query(u), None)}
  <2> DEFINE q == Roster!Ask("list", Roster!Query(u), None)
  <2>1. q \in Roster!Request /\ Roster!WellFormed(q) /\ q.op = "list" /\ q.at = Roster!Query(u)
    BY RosterQuery DEF Roster!Ask, Roster!Request, Roster!WellFormed, Roster!Changes, Roster!Lists
  <2>2. /\ page' \in RosterState /\ Roster!Query(page') = Roster!Query(u) /\ page'.busy
        /\ page'.dialog = "none"
        /\ page'.enrolling = page.enrolling /\ page'.removing = page.removing
    BY <1>2 DEF RosterState, Roster!Query
  <2>3. net' = net \cup {q}
    BY <1>2
  <2> HIDE DEF q
  <2>4. Roster!TypeOK'
    BY <2>1, <2>2, <2>3, RosterTypes
  <2>5. RosterSpin' = {q} /\ RosterEnrol' = RosterEnrol /\ RosterRemove' = RosterRemove
    BY <2>1, <2>3 DEF RosterSpin, RosterEnrol, RosterRemove, Locks
  <2> QED
    BY <2>1, <2>2, <2>4, <2>5 DEF Locks
<1> QED
  BY <1>1, <1>2 DEF Roster!Move

\* Dialogs and what is picked in them.
LEMMA RosterDialog ==
  ASSUME RosterInv, page' \in RosterState, UNCHANGED <<net, server, bounds>>,
         page'.page = page.page, page'.filter = page.filter, page'.busy = page.busy,
         page'.enrolling = page.enrolling, page'.removing = page.removing,
         page'.dialog # "none" => ~page.busy
  PROVE  RosterInv'
<1> USE DEF RosterInv
<1>1. Roster!TypeOK'
  BY RosterTypes
<1>2. RosterSpin' = RosterSpin /\ RosterEnrol' = RosterEnrol /\ RosterRemove' = RosterRemove
  BY DEF RosterSpin, RosterEnrol, RosterRemove
<1> QED
  BY <1>1, <1>2 DEF Roster!Query

\* A button that takes its lock and sends its request.
LEMMA RosterTake ==
  ASSUME RosterInv, NEW q \in Roster!Request, Roster!WellFormed(q), q.op \in Roster!Changes,
         net' = net \cup {q}, UNCHANGED server, page' \in RosterState,
         bounds' = [bounds EXCEPT !.changes = @ + 1], bounds.changes < MaxChanges,
         page'.page = page.page, page'.filter = page.filter, page'.busy = page.busy,
         page'.dialog = page.dialog,
         \/ /\ q.op = "enrol" /\ ~page.enrolling
            /\ page'.enrolling /\ page'.removing = page.removing
         \/ /\ q.op = "remove" /\ page.removing = None
            /\ page'.removing # None /\ page'.enrolling = page.enrolling
  PROVE  RosterInv'
<1> USE DEF RosterInv, Roster!Changes
<1>1. bounds' \in [changes : 0 .. MaxChanges, failures : 0 .. MaxFailures]
  <2>1. bounds \in [changes : 0 .. MaxChanges, failures : 0 .. MaxFailures]
    BY RosterTypes
  <2> QED
    BY <2>1, Constants
<1>2. Roster!TypeOK'
  BY <1>1, RosterTypes
<1>3. RosterSpin' = RosterSpin /\ Roster!Query(page') = Roster!Query(page)
  BY DEF RosterSpin, Roster!Query
<1>4. CASE q.op = "enrol"
  <2>1. RosterEnrol' = RosterEnrol \cup {q} /\ RosterRemove' = RosterRemove
    BY <1>4 DEF RosterEnrol, RosterRemove
  <2> QED
    BY <1>2, <1>3, <1>4, <2>1 DEF Locks
<1>5. CASE q.op = "remove"
  <2>1. RosterRemove' = RosterRemove \cup {q} /\ RosterEnrol' = RosterEnrol
    BY <1>5 DEF RosterEnrol, RosterRemove
  <2> QED
    BY <1>2, <1>3, <1>5, <2>1 DEF Locks
<1> QED
  BY <1>4, <1>5

LEMMA RosterUser ==
  ASSUME RosterInv, Roster!User
  PROVE  RosterInv'
<1> USE DEF RosterInv
<1>1. page \in RosterState
  BY RosterTypes
<1>2. CASE Roster!TurnPage
  <2>1. page.page - 1 \in Roster!Pages \/ ~(page.page > 1)
    BY <1>1, RosterPages DEF RosterState
  <2>2. ASSUME NEW n \in Roster!Pages
        PROVE  [page EXCEPT !.page = n] \in RosterState
    BY <1>1 DEF RosterState
  <2>3. PICK n \in Roster!Pages : Roster!Move([page EXCEPT !.page = n])
    BY <1>2, <1>1, <2>1, RosterPages DEF Roster!TurnPage, RosterState
  <2> QED
    BY <1>1, <1>2, <2>2, <2>3, RosterMove DEF Roster!TurnPage, Roster!ListShown, RosterState
<1>3. CASE Roster!DropChip
  <2>1. [page EXCEPT !.filter = All, !.page = 1] \in RosterState
    BY <1>1, RosterPages DEF RosterState, Roster!Filters
  <2> QED
    BY <1>1, <1>3, <2>1, RosterMove DEF Roster!DropChip, Roster!ListShown, RosterState
<1>4. CASE Roster!FilterDialog
  <2>1. CASE /\ Roster!ListShown /\ page' = [page EXCEPT !.dialog = "filter"]
             /\ UNCHANGED <<net, server, bounds>>
    BY <1>1, <2>1, RosterDialog DEF RosterState, Roster!Dialogs, Roster!ListShown
  <2>2. CASE page.dialog = "filter" /\ \E f \in Roster!Filters : Roster!ApplyFilter(f)
    <3>1. PICK f \in Roster!Filters : Roster!ApplyFilter(f)
      BY <2>2
    <3> DEFINE u == [page EXCEPT !.filter = f, !.page = 1, !.dialog = "none"]
    <3>2. u \in RosterState
      BY <1>1, RosterPages DEF RosterState, Roster!Dialogs
    <3>3. ~page.busy
      BY <2>2
    <3>4. u.busy = page.busy /\ u.dialog = "none" /\ u.enrolling = page.enrolling
          /\ u.removing = page.removing
      BY <1>1 DEF RosterState
    <3>5. Roster!Move(u) /\ UNCHANGED <<server, bounds>>
      BY <3>1, <1>4 DEF Roster!ApplyFilter, Roster!FilterDialog
    <3> HIDE DEF u
    <3> QED
      BY <3>2, <3>3, <3>4, <3>5, RosterMove
  <2>3. CASE page.dialog = "filter" /\ page' = [page EXCEPT !.dialog = "none"]
             /\ UNCHANGED <<net, server, bounds>>
    BY <1>1, <2>3, RosterDialog DEF RosterState, Roster!Dialogs
  <2> QED
    BY <1>4, <2>1, <2>2, <2>3 DEF Roster!FilterDialog
<1>5. CASE Roster!OpenEnrol
  BY <1>1, <1>5, RosterDialog DEF Roster!OpenEnrol, RosterState, Roster!Dialogs, Roster!ListShown
<1>6. CASE Roster!PickStudent
  BY <1>1, <1>6, RosterDialog DEF Roster!PickStudent, Roster!Options, RosterState
<1>7. CASE Roster!Enrol
  <2>1. PICK t \in Terms :
          net' = net \cup {Roster!Ask("enrol", Roster!Query(page),
                                      [student |-> page.picked, term |-> t])}
    BY <1>7 DEF Roster!Enrol
  <2> DEFINE q == Roster!Ask("enrol", Roster!Query(page), [student |-> page.picked, term |-> t])
  <2>2. page.picked \in Students
    BY <1>1, <1>7 DEF Roster!Enrol, RosterState
  <2>3. q \in Roster!Request /\ Roster!WellFormed(q) /\ q.op = "enrol"
    BY <1>1, <2>2, RosterQuery
       DEF Roster!Ask, Roster!Request, Roster!WellFormed, Roster!Changes, Roster!Lists, Roster!Enrolment
  <2>4. net' = net \cup {q}
    BY <2>1
  <2> HIDE DEF q
  <2> QED
    BY <1>1, <1>7, <2>3, <2>4, RosterTake DEF Roster!Enrol, RosterState, Roster!Changes
<1>8. CASE Roster!CloseEnrol
  BY <1>1, <1>8, RosterDialog DEF Roster!CloseEnrol, RosterState, Roster!Dialogs
<1>9. CASE Roster!OpenRemove
  BY <1>1, <1>9, RosterDialog DEF Roster!OpenRemove, RosterState, Roster!Dialogs, Roster!ListShown
<1>10. CASE Roster!LeaveRemove
  BY <1>1, <1>10, RosterDialog DEF Roster!LeaveRemove, RosterState, Roster!Dialogs
<1>11. CASE Roster!Remove
  <2> DEFINE q == Roster!Ask("remove", Roster!Query(page), page.target)
  <2>2. page.target \in Roster!Enrolment
    BY <1>1, <1>11 DEF Roster!Remove, RosterState
  <2>3. q \in Roster!Request /\ Roster!WellFormed(q) /\ q.op = "remove"
    BY <1>1, <2>2, RosterQuery
       DEF Roster!Ask, Roster!Request, Roster!WellFormed, Roster!Changes, Roster!Lists
  <2>4. net' = net \cup {q}
    BY <1>11 DEF Roster!Remove
  <2> HIDE DEF q
  <2> QED
    BY <1>1, <1>11, <2>2, <2>3, <2>4, RosterTake DEF Roster!Remove, RosterState, Roster!Changes
<1> QED
  BY <1>2, <1>3, <1>4, <1>5, <1>6, <1>7, <1>8, <1>9, <1>10, <1>11 DEF Roster!User

\* An answer that ends its request and releases the lock.
LEMMA RosterRelease ==
  ASSUME RosterInv, NEW r \in net, net' = net \ {r}, UNCHANGED <<server, bounds>>,
         page' \in RosterState, page'.page = page.page, page'.filter = page.filter,
         page'.dialog \in {page.dialog, "none"},
         \/ /\ r \in RosterSpin /\ ~page'.busy
            /\ page'.enrolling = page.enrolling /\ page'.removing = page.removing
         \/ /\ r \in RosterEnrol /\ ~page'.enrolling
            /\ page'.busy = page.busy /\ page'.removing = page.removing
         \/ /\ r \in RosterRemove /\ page'.removing = None
            /\ page'.busy = page.busy /\ page'.enrolling = page.enrolling
  PROVE  RosterInv'
<1> USE DEF RosterInv
<1>1. Roster!TypeOK'
  BY RosterTypes
<1>2. Roster!Query(page') = Roster!Query(page) /\ RosterSpin' \subseteq RosterSpin
  BY DEF Roster!Query, RosterSpin
<1>3. CASE r \in RosterSpin
  <2>1. /\ RosterSpin' = RosterSpin \ {r}
        /\ RosterEnrol' = RosterEnrol /\ RosterRemove' = RosterRemove
    BY <1>3 DEF RosterSpin, RosterEnrol, RosterRemove
  <2>2. r \notin RosterEnrol /\ r \notin RosterRemove
    BY <1>3 DEF RosterSpin, RosterEnrol, RosterRemove
  <2> QED
    BY <1>1, <1>2, <1>3, <2>1, <2>2 DEF Locks
<1>4. CASE r \in RosterEnrol
  <2>1. /\ RosterEnrol' = RosterEnrol \ {r}
        /\ RosterSpin' = RosterSpin /\ RosterRemove' = RosterRemove
    BY <1>4 DEF RosterSpin, RosterEnrol, RosterRemove
  <2>2. r \notin RosterSpin /\ r \notin RosterRemove
    BY <1>4 DEF RosterSpin, RosterEnrol, RosterRemove
  <2> QED
    BY <1>1, <1>2, <1>4, <2>1, <2>2 DEF Locks
<1>5. CASE r \in RosterRemove
  <2>1. /\ RosterRemove' = RosterRemove \ {r}
        /\ RosterSpin' = RosterSpin /\ RosterEnrol' = RosterEnrol
    BY <1>5 DEF RosterSpin, RosterEnrol, RosterRemove
  <2>2. r \notin RosterSpin /\ r \notin RosterEnrol
    BY <1>5 DEF RosterSpin, RosterEnrol, RosterRemove
  <2> QED
    BY <1>1, <1>2, <1>5, <2>1, <2>2 DEF Locks
<1> QED
  BY <1>3, <1>4, <1>5

LEMMA RosterRows ==
  ASSUME RosterInv, NEW r \in net, r.op \in Roster!Lists, r.got \notin {None, Failed}
  PROVE  /\ Roster!Rows(page, r) \in RosterState
         /\ Roster!Rows(page, r).of = r.at
         /\ \A f \in {"page", "filter", "busy", "dialog", "enrolling", "removing"} :
              Roster!Rows(page, r)[f] = page[f]
<1>1. page \in RosterState /\ r \in Roster!Request /\ Roster!WellFormed(r)
  BY RosterTypes DEF RosterInv
<1>2. r.got \in Roster!PageRows
  BY <1>1 DEF Roster!WellFormed
<1> QED
  BY <1>1, <1>2 DEF Roster!Rows, RosterState, Roster!PageRows, Roster!Request

LEMMA RosterArrive ==
  ASSUME RosterInv, NEW r \in net, Roster!Arrive(r)
  PROVE  RosterInv' /\ Roster!SpinnerEnds
<1> USE DEF RosterInv
<1>1. /\ page \in RosterState
      /\ r \in Roster!Request /\ Roster!WellFormed(r) /\ r.got # None
      /\ UNCHANGED <<server, bounds>>
      /\ server \in Seq(Roster!Enrolment)
      /\ bounds \in [changes : 0 .. MaxChanges, failures : 0 .. MaxFailures]
  BY RosterTypes DEF Roster!Arrive
<1> DEFINE v == Roster!Rows(page, r)
<1>2. ASSUME r.op \in Roster!Lists, r.got # Failed
      PROVE  v \in RosterState /\ v.of = r.at /\ v.page = page.page /\ v.filter = page.filter
             /\ v.busy = page.busy /\ v.dialog = page.dialog
             /\ v.enrolling = page.enrolling /\ v.removing = page.removing
  BY <1>1, <1>2, RosterRows
<1> HIDE DEF v
<1>3. r \in RosterSpin => r.at = Roster!Query(page)
  OBVIOUS
<1>4. CASE Roster!LoadArrives(r)
  <2>1. r \in RosterSpin /\ r.op \in Roster!Lists /\ net' = net \ {r}
    BY <1>4 DEF Roster!LoadArrives, RosterSpin, Roster!Lists
  <2>2. CASE r.got = Failed
    <3>1. page' = [page EXCEPT !.phase = "failed", !.busy = FALSE]
      BY <1>4, <2>2 DEF Roster!LoadArrives
    <3>2. RosterInv'
      BY <1>1, <2>1, <3>1, RosterRelease DEF RosterState
    <3> QED
      BY <1>1, <3>1, <3>2 DEF Roster!SpinnerEnds, RosterState
  <2>3. CASE r.got # Failed
    <3>1. page' = [v EXCEPT !.phase = "shown", !.busy = FALSE]
      BY <1>4, <2>3 DEF Roster!LoadArrives, v
    <3>2. RosterInv'
      BY <1>1, <1>2, <2>1, <2>3, <3>1, RosterRelease DEF RosterState
    <3>3. page'.of = Roster!Query(page')
      BY <1>2, <1>3, <2>1, <2>3, <3>1 DEF RosterState, Roster!Query
    <3> QED
      BY <3>2, <3>3 DEF Roster!SpinnerEnds
  <2> QED
    BY <2>2, <2>3
<1>5. CASE Roster!ListArrives(r)
  <2>1. r \in RosterSpin /\ r.op \in Roster!Lists /\ net' = net \ {r}
    BY <1>5 DEF Roster!ListArrives, RosterSpin, Roster!Lists
  <2>2. CASE r.got = Failed
    <3>1. page' = [page EXCEPT !.rows = {}, !.of = r.at, !.busy = FALSE]
      BY <1>5, <2>2 DEF Roster!ListArrives
    <3>2. page' \in RosterState
      BY <1>1, <3>1 DEF RosterState, Roster!Request
    <3>3. RosterInv'
      BY <1>1, <2>1, <3>1, <3>2, RosterRelease DEF RosterState
    <3>4. page'.of = Roster!Query(page')
      BY <1>1, <1>3, <2>1, <3>1 DEF RosterState, Roster!Query
    <3> QED
      BY <3>3, <3>4 DEF Roster!SpinnerEnds
  <2>3. CASE r.got # Failed
    <3>1. page' = [v EXCEPT !.busy = FALSE]
      BY <1>5, <2>3 DEF Roster!ListArrives, v
    <3>2. RosterInv'
      BY <1>1, <1>2, <2>1, <2>3, <3>1, RosterRelease DEF RosterState
    <3>3. page'.of = Roster!Query(page')
      BY <1>2, <1>3, <2>1, <2>3, <3>1 DEF RosterState, Roster!Query
    <3> QED
      BY <3>2, <3>3 DEF Roster!SpinnerEnds
  <2> QED
    BY <2>2, <2>3
<1>6. CASE Roster!EnrolArrives(r)
  <2>1. r \in RosterEnrol
    BY <1>6 DEF Roster!EnrolArrives, RosterEnrol
  <2>2. CASE /\ r.op = "enrol" /\ r.got = Ok /\ page' = [page EXCEPT !.picked = None]
             /\ net' = (net \ {r}) \cup {Roster!Ask("relist", r.at, None)}
    <3> DEFINE q == Roster!Ask("relist", r.at, None)
    <3>1. q \in Roster!Request /\ Roster!WellFormed(q) /\ q.at = r.at /\ q.op = "relist"
      BY <1>1 DEF Roster!Ask, Roster!Request, Roster!WellFormed, Roster!Changes, Roster!Lists
    <3>2. net' = (net \ {r}) \cup {q}
      BY <2>2
    <3> HIDE DEF q
    <3>3. RosterSpin' = RosterSpin /\ RosterRemove' = RosterRemove
          /\ RosterEnrol' = (RosterEnrol \ {r}) \cup {q}
      BY <2>2, <3>1, <3>2 DEF RosterSpin, RosterRemove, RosterEnrol
    <3>4. Locks(RosterEnrol', page.enrolling)
      BY <2>1, <3>3, LocksSwap
    <3>5. /\ page' \in RosterState /\ Roster!Query(page') = Roster!Query(page)
          /\ page'.busy = page.busy /\ page'.dialog = page.dialog
          /\ page'.enrolling = page.enrolling /\ page'.removing = page.removing
      BY <1>1, <2>2 DEF RosterState, Roster!Query
    <3>6. Roster!TypeOK'
      BY <1>1, <3>1, <3>2, <3>5, RosterTypes
    <3> QED
      BY <3>3, <3>4, <3>5, <3>6 DEF Roster!SpinnerEnds
  <2>3. CASE r.got = Failed /\ page' = [page EXCEPT !.enrolling = FALSE] /\ net' = net \ {r}
    <3>1. RosterInv'
      BY <1>1, <2>1, <2>3, RosterRelease DEF RosterState
    <3> QED
      BY <1>1, <2>3, <3>1 DEF RosterState, Roster!SpinnerEnds
  <2>4. CASE /\ r.op = "relist" /\ r.got # Failed
             /\ page' = [v EXCEPT !.enrolling = FALSE] /\ net' = net \ {r}
    <3>1. r.op \in Roster!Lists
      BY <2>4 DEF Roster!Lists
    <3>2. RosterInv'
      BY <1>1, <1>2, <2>1, <2>4, <3>1, RosterRelease DEF RosterState
    <3> QED
      BY <1>2, <2>4, <3>1, <3>2 DEF RosterState, Roster!SpinnerEnds
  <2> QED
    BY <1>6, <2>2, <2>3, <2>4 DEF Roster!EnrolArrives, v
<1>7. CASE Roster!RemoveArrives(r)
  <2>1. r \in RosterRemove
    BY <1>7 DEF Roster!RemoveArrives, RosterRemove
  <2>2. CASE /\ r.op = "remove" /\ r.got = Ok /\ UNCHANGED page
             /\ net' = (net \ {r}) \cup {Roster!Ask("rerow", r.at, None)}
    <3> DEFINE q == Roster!Ask("rerow", r.at, None)
    <3>1. q \in Roster!Request /\ Roster!WellFormed(q) /\ q.at = r.at /\ q.op = "rerow"
      BY <1>1 DEF Roster!Ask, Roster!Request, Roster!WellFormed, Roster!Changes, Roster!Lists
    <3>2. net' = (net \ {r}) \cup {q}
      BY <2>2
    <3> HIDE DEF q
    <3>3. RosterInv'
      BY <1>1, <2>2, <3>1, <3>2, RosterSwap
    <3> QED
      BY <2>2, <3>3 DEF Roster!SpinnerEnds
  <2>3. CASE r.got = Failed /\ page' = [page EXCEPT !.removing = None] /\ net' = net \ {r}
    <3>1. RosterInv'
      BY <1>1, <2>1, <2>3, RosterRelease DEF RosterState
    <3> QED
      BY <1>1, <2>3, <3>1 DEF RosterState, Roster!SpinnerEnds
  <2>4. CASE /\ r.op = "rerow" /\ r.got # Failed
             /\ page' = [v EXCEPT !.removing = None, !.target = None,
                                  !.dialog = IF @ = "remove" THEN "none" ELSE @]
             /\ net' = net \ {r}
    <3>1. r.op \in Roster!Lists
      BY <2>4 DEF Roster!Lists
    <3>2. page' \in RosterState
      BY <1>2, <2>4, <3>1 DEF RosterState, Roster!Dialogs
    <3>3. RosterInv'
      BY <1>1, <1>2, <2>1, <2>4, <3>1, <3>2, RosterRelease DEF RosterState
    <3> QED
      BY <1>2, <2>4, <3>1, <3>3 DEF RosterState, Roster!SpinnerEnds
  <2> QED
    BY <1>7, <2>2, <2>3, <2>4 DEF Roster!RemoveArrives, v
<1> QED
  BY <1>4, <1>5, <1>6, <1>7 DEF Roster!Arrive

LEMMA RosterUserSpins ==
  ASSUME RosterInv, Roster!User
  PROVE  Roster!SpinnerEnds
<1>1. page \in RosterState
  BY RosterTypes DEF RosterInv
<1>2. CASE page.busy
  <2>1. ~Roster!ListShown /\ page.dialog = "none"
    BY <1>2 DEF Roster!ListShown, RosterInv
  <2> QED
    BY <1>1, <2>1
       DEF Roster!User, Roster!TurnPage, Roster!DropChip, Roster!FilterDialog, Roster!OpenEnrol,
           Roster!PickStudent, Roster!Enrol, Roster!CloseEnrol, Roster!OpenRemove,
           Roster!LeaveRemove, Roster!Remove
<1> QED
  BY <1>2 DEF Roster!SpinnerEnds

LEMMA RosterNext ==
  ASSUME RosterInv, Roster!Next
  PROVE  RosterInv' /\ Roster!SpinnerEnds
<1>1. CASE Roster!User
  BY <1>1, RosterUser, RosterUserSpins
<1>2. ASSUME NEW r \in net, Roster!Serve(r) \/ Roster!Lose(r)
      PROVE  RosterInv' /\ Roster!SpinnerEnds
  <2>1. UNCHANGED page
    BY <1>2 DEF Roster!Serve, Roster!Lose
  <2> QED
    BY <1>2, <2>1, RosterServe, RosterLose DEF Roster!SpinnerEnds
<1>3. ASSUME NEW r \in net, Roster!Arrive(r)
      PROVE  RosterInv' /\ Roster!SpinnerEnds
  BY <1>3, RosterArrive
<1> QED
  BY <1>1, <1>2, <1>3 DEF Roster!Next


LEMMA RosterStays ==
  ASSUME RosterInv, UNCHANGED vars
  PROVE  RosterInv' /\ Roster!SpinnerEnds
<1> USE DEF vars
<1>1. Roster!TypeOK'
  BY RosterTypes DEF RosterInv
<1>2. Roster!SpinnerEnds
  BY DEF Roster!SpinnerEnds
<1> QED
  BY <1>1, <1>2 DEF RosterInv, RosterSpin, RosterEnrol, RosterRemove, Locks, Roster!Query

LEMMA RosterPromises ==
  ASSUME RosterInv
  PROVE  Roster!TypeOK /\ Roster!BusyWhileInFlight
<1>1. \A S : Roster!Cardinality(S) = Cardinality(S)
  BY DEF Roster!Cardinality, Cardinality
<1>2. page \in RosterState
  BY RosterTypes DEF RosterInv
<1>3. page.busy \in BOOLEAN /\ page.enrolling \in BOOLEAN /\ (page.removing # None) \in BOOLEAN
  BY <1>2 DEF RosterState
<1>4. /\ Cardinality(RosterSpin) = IF page.busy THEN 1 ELSE 0
      /\ Cardinality(RosterEnrol) = IF page.enrolling THEN 1 ELSE 0
      /\ Cardinality(RosterRemove) = IF page.removing # None THEN 1 ELSE 0
  BY <1>3, LocksCount DEF RosterInv
<1> QED
  BY <1>1, <1>4 DEF RosterInv, Roster!BusyWhileInFlight, Roster!InFlight, RosterSpin, RosterEnrol, RosterRemove
-----------------------------------------------------------------------------
(***************************************************************************)
(* CourseExams.                                                            *)
(***************************************************************************)

ExamsDeletes == {c \in net : c.op = "delete"}
ExamsGoing   == page.deleting /\ page.phase = "shown"
ExamsCount   == Len(server.exams)

ExamsListing == [rows : Nat, more : BOOLEAN]

\* The course is there, and the tenant has no exams besides its own.
ExamsAlone == server.exists /\ server.others = 0

\* What an answer says: a deletion that the course is gone, a list what there is.
ExamsSays(c) ==
  c.got \notin {None, Failed} =>
    IF c.op = "delete" THEN c.got = Ok /\ ~server.exists
    ELSE c.got \in ExamsListing /\ (server.exists => c.got = Exams!Listing(c.at))

\* The load is the only request of a page that is loading.
ExamsLoads ==
  /\ page.phase = "loading" =>
       /\ ~page.deleting
       /\ Exams!Query(page) = Exams!Start
       /\ \A c \in net : c.op = "load" /\ c.at = Exams!Start
  /\ \A c \in net : c.op = "load" => page.phase = "loading"
  /\ \A a, b \in net : a.op = "load" /\ b.op = "load" => a = b

\* One list at a time, that of the query chosen, asked for from a page that has rows.
ExamsLists ==
  /\ \A a, b \in net : a.op = "list" /\ b.op = "list" => a = b
  /\ \A c \in net :
       c.op = "list" /\ page.phase = "shown" =>
         page.busy /\ page.rows > 0 /\ c.at = Exams!Query(page)

\* Where there are rows, and where there are more.
ExamsRows ==
  page.phase = "shown" /\ ExamsAlone =>
    /\ page.rows > 0 => ExamsCount > (page.page - 1) * PerPage
    /\ page.more /\ ~page.busy /\ ~page.error => ExamsCount > page.page * PerPage
    /\ page.rows = 0 /\ page.year = All => server.exams = <<>>

ExamsInv ==
  /\ Exams!TypeOK
  /\ \A c \in net : ExamsSays(c)
  /\ Locks(ExamsDeletes, ExamsGoing)
  /\ page.phase = "left" => ~server.exists
  /\ ExamsLoads
  /\ ExamsLists
  /\ ExamsRows

ExamsState ==
  [phase : {"loading", "shown", "failed", "left"}, page : Exams!Pages,
   year : Years \cup {All}, rows : Nat, more : BOOLEAN, of : Exams!Queries \cup {None},
   busy : BOOLEAN, error : BOOLEAN, confirm : BOOLEAN, deleting : BOOLEAN]

ExamsCall ==
  [op : {"load", "list", "delete"}, at : Exams!Queries,
   got : {None, Ok, Failed} \cup ExamsListing]

ExamsCourse ==
  [exams : UNION {[1 .. n -> Years] : n \in 0 .. MaxExams}, others : Nat, exists : BOOLEAN]

LEMMA ExamsTypes ==
  /\ Exams!TypeOK <=> /\ page \in ExamsState /\ net \subseteq ExamsCall
                      /\ server \in ExamsCourse /\ bounds \in 0 .. MaxFailures
  /\ Exams!TypeOK' <=> /\ page' \in ExamsState /\ net' \subseteq ExamsCall
                       /\ server' \in ExamsCourse /\ bounds' \in 0 .. MaxFailures
  BY DEF Exams!TypeOK, ExamsState, ExamsCall, ExamsListing, ExamsCourse

\* A product with PerPage is no smaller, and grows with the page.
LEMMA Products ==
  /\ \A n \in Nat : n * PerPage \in Nat /\ n <= n * PerPage /\ (n + 1) * PerPage = n * PerPage + PerPage
  /\ 0 * PerPage = 0
  BY Constants

\* The exams of a year are some of those there are.
LEMMA ExamsOfYear ==
  ASSUME server \in ExamsCourse
  PROVE  /\ ExamsCount \in 0 .. MaxExams
         /\ ExamsCount = 0 => server.exams = <<>>
         /\ server.exists => Exams!Cardinality(Exams!OfYear(All)) = ExamsCount
         /\ \A y : Exams!Cardinality(Exams!OfYear(y)) \in 0 .. ExamsCount
<1>1. PICK n \in 0 .. MaxExams : server.exams \in [1 .. n -> Years]
  BY DEF ExamsCourse
<1>2. n \in Nat
  BY <1>1, Constants
<1>3. server.exams \in Seq(Years)
  BY <1>1, <1>2
<1>4. ExamsCount = n
  BY <1>1, <1>2, <1>3, LenProperties DEF ExamsCount
<1>5. ExamsCount = 0 => server.exams = <<>>
  BY <1>3, <1>4, EmptySeq DEF ExamsCount
<1>6. \A S : Exams!Cardinality(S) = Cardinality(S)
  BY DEF Exams!Cardinality, Cardinality
<1>7. IsFiniteSet(1 .. n) /\ Cardinality(1 .. n) = n
  BY <1>2, FS_Interval
<1>8. server.exists => Exams!OfYear(All) = 1 .. n
  BY <1>4 DEF Exams!OfYear, ExamsCount
<1>9. ASSUME NEW y
      PROVE  Exams!Cardinality(Exams!OfYear(y)) \in 0 .. ExamsCount
  <2>1. Exams!OfYear(y) \subseteq 1 .. n
    BY <1>4 DEF Exams!OfYear, ExamsCount
  <2>2. Cardinality(Exams!OfYear(y)) \in Nat /\ Cardinality(Exams!OfYear(y)) <= n
    BY <2>1, <1>7, FS_Subset, FS_CardinalityType
  <2> QED
    BY <2>2, <1>4, <1>6, <1>2
<1> QED
  BY <1>1, <1>4, <1>5, <1>6, <1>7, <1>8, <1>9

LEMMA ExamsInit ==
  ASSUME Exams!Init
  PROVE  ExamsInv
<1> USE DEF Exams!Init
<1>1. Exams!Start \in Exams!Queries /\ 1 \in Exams!Pages
  BY Constants DEF Exams!Start, Exams!Queries, Exams!Pages
<1>2. net \subseteq ExamsCall /\ \A c \in net : c.op = "load" /\ c.at = Exams!Start /\ c.got = None
  BY <1>1 DEF ExamsCall, Exams!Call
<1>3. Exams!TypeOK
  <2>1. page \in ExamsState
    BY <1>1 DEF ExamsState
  <2>2. server \in ExamsCourse
    <3>1. PICK exams \in UNION {[1 .. n -> Years] : n \in 0 .. MaxExams}, others \in {0, PerPage} :
            server = [exams |-> exams, others |-> others, exists |-> TRUE]
      OBVIOUS
    <3>2. others \in Nat
      BY Constants
    <3> QED
      BY <3>1, <3>2 DEF ExamsCourse
  <2>3. bounds \in 0 .. MaxFailures
    BY Constants
  <2> QED
    BY <1>2, <2>1, <2>2, <2>3, ExamsTypes
<1>4. ExamsDeletes = {} /\ ~ExamsGoing
  BY <1>2 DEF ExamsDeletes, ExamsGoing
<1>5. ExamsLoads
  BY <1>2 DEF ExamsLoads, Exams!Query, Exams!Start
<1> QED
  BY <1>2, <1>3, <1>4, <1>5 DEF ExamsInv, Locks, ExamsSays, ExamsLists, ExamsRows

\* What a page of the list says of the exams there are.
LEMMA ExamsListed ==
  ASSUME server \in ExamsCourse, NEW q \in Exams!Queries
  PROVE  /\ Exams!Listing(q) \in ExamsListing
         /\ ExamsAlone =>
              /\ Exams!Listing(q).rows > 0 => ExamsCount > (q[1] - 1) * PerPage
              /\ Exams!Listing(q).rows = 0 /\ q[2] = All => ExamsCount <= (q[1] - 1) * PerPage
              /\ Exams!Listing(q).more => ExamsCount > q[1] * PerPage
<1> DEFINE count  == Exams!Cardinality(Exams!OfYear(q[2]))
           all    == Exams!Cardinality(Exams!OfYear(All))
           before == (q[1] - 1) * PerPage
           after  == count - before
           rows   == IF after < 0 THEN 0 ELSE IF after > PerPage THEN PerPage ELSE after
           more   == all + server.others > q[1] * PerPage
<1>1. Exams!Listing(q) = [rows |-> rows, more |-> more]
  BY DEF Exams!Listing, Exams!More
<1>2. q[1] - 1 \in Nat /\ (q[1] - 1) + 1 = q[1]
  BY Constants DEF Exams!Queries, Exams!Pages
<1>3. before \in Nat /\ q[1] * PerPage = before + PerPage
  BY <1>2, Products
<1>4. count \in 0 .. ExamsCount /\ ExamsCount \in Nat
  BY ExamsOfYear, Constants
<1>5. /\ ExamsAlone /\ q[2] = All => count = ExamsCount
      /\ ExamsAlone => all = ExamsCount /\ server.others = 0
  BY ExamsOfYear DEF ExamsAlone
<1> HIDE DEF count, all, before
<1>6. rows \in Nat /\ more \in BOOLEAN
  BY <1>3, <1>4, Constants
<1>7. /\ rows > 0 => count > before
      /\ rows = 0 => count <= before
  BY <1>3, <1>4, Constants
<1>11. ExamsAlone /\ more => ExamsCount > q[1] * PerPage
  BY <1>4, <1>5
<1> HIDE DEF rows, more
<1>8. Exams!Listing(q).rows = rows /\ Exams!Listing(q).more = more
  BY <1>1
<1>9. Exams!Listing(q) \in ExamsListing
  BY <1>1, <1>6 DEF ExamsListing
<1>10. before = (q[1] - 1) * PerPage
  BY DEF before
<1> QED
  BY <1>3, <1>4, <1>5, <1>7, <1>8, <1>9, <1>10, <1>11, Constants

\* A call is replaced by itself with its answer.
LEMMA ExamsSwap ==
  ASSUME ExamsInv, NEW c \in net, NEW q \in ExamsCall, q.op = c.op, q.at = c.at,
         net' = (net \ {c}) \cup {q}, UNCHANGED page, bounds' \in 0 .. MaxFailures,
         server' \in ExamsCourse, server'.exams = server.exams, server'.others = server.others,
         server'.exists => server.exists, ExamsSays(q)'
  PROVE  ExamsInv'
<1> USE DEF ExamsInv
<1>1. Exams!TypeOK'
  BY ExamsTypes
<1>2. server'.exists => \A y : Exams!Listing(y)' = Exams!Listing(y)
  BY DEF Exams!Listing, Exams!More, Exams!OfYear
<1>3. \A a \in net' : ExamsSays(a)'
  BY <1>2 DEF ExamsSays
<1>4. Locks(ExamsDeletes, ExamsGoing)'
  <2>1. CASE c.op = "delete"
    <3>1. ExamsDeletes' = (ExamsDeletes \ {c}) \cup {q} /\ c \in ExamsDeletes
      BY <2>1 DEF ExamsDeletes
    <3> QED
      BY <3>1, LocksSwap DEF ExamsGoing
  <2>2. CASE c.op # "delete"
    <3>1. ExamsDeletes' = ExamsDeletes
      BY <2>2 DEF ExamsDeletes
    <3> QED
      BY <3>1 DEF ExamsGoing
  <2> QED
    BY <2>1, <2>2
<1>5. ExamsLoads'
  BY DEF ExamsLoads
<1>6. ExamsLists'
  BY DEF ExamsLists
<1>7. ExamsRows' /\ (page'.phase = "left" => ~server'.exists)
  BY DEF ExamsRows, ExamsCount, ExamsAlone
<1> QED
  BY <1>1, <1>3, <1>4, <1>5, <1>6, <1>7

LEMMA ExamsServe ==
  ASSUME ExamsInv, NEW c \in net, Exams!Serve(c)
  PROVE  ExamsInv'
<1> PICK answer : answer = CASE c.op = "list"   -> Exams!Listing(c.at)
                             [] ~server.exists  -> Failed
                             [] c.op = "delete" -> Ok
                             [] OTHER           -> Exams!Listing(c.at)
  OBVIOUS
<1> DEFINE q == [c EXCEPT !.got = answer]
<1>1. /\ page \in ExamsState /\ net \subseteq ExamsCall /\ server \in ExamsCourse
      /\ bounds \in 0 .. MaxFailures /\ UNCHANGED <<page, bounds>>
      /\ net' = (net \ {c}) \cup {q}
      /\ server' = [server EXCEPT !.exists = server.exists /\ c.op # "delete"]
  BY ExamsTypes DEF ExamsInv, Exams!Serve
<1>2. /\ server' \in ExamsCourse /\ server'.exams = server.exams
      /\ server'.others = server.others /\ (server'.exists => server.exists)
      /\ (c.op = "delete" => ~server'.exists)
  BY <1>1 DEF ExamsCourse
<1>3. Exams!Listing(c.at) \in ExamsListing
  BY <1>1, ExamsListed DEF ExamsCall
<1>4. q \in ExamsCall /\ q.op = c.op /\ q.at = c.at /\ q.got = answer
  BY <1>1, <1>3 DEF ExamsCall
<1>5. ExamsSays(q)'
  <2>1. server'.exists => \A y : Exams!Listing(y)' = Exams!Listing(y)
    BY <1>2 DEF Exams!Listing, Exams!More, Exams!OfYear
  <2>2. CASE c.op = "delete"
    BY <1>2, <1>4, <2>2 DEF ExamsSays
  <2>3. CASE c.op # "delete"
    BY <1>3, <1>4, <2>1, <2>3 DEF ExamsSays
  <2> QED
    BY <2>2, <2>3
<1> HIDE DEF q
<1> QED
  BY <1>1, <1>2, <1>4, <1>5, ExamsSwap

LEMMA ExamsLose ==
  ASSUME ExamsInv, NEW c \in net, Exams!Lose(c)
  PROVE  ExamsInv'
<1> DEFINE q == [c EXCEPT !.got = Failed]
<1>1. /\ net \subseteq ExamsCall /\ server \in ExamsCourse /\ UNCHANGED <<page, server>>
      /\ bounds \in 0 .. MaxFailures /\ bounds' = bounds + 1 /\ bounds < MaxFailures
      /\ net' = (net \ {c}) \cup {q}
  BY ExamsTypes DEF ExamsInv, Exams!Lose
<1>2. bounds' \in 0 .. MaxFailures
  BY <1>1, Constants
<1>3. q \in ExamsCall /\ q.op = c.op /\ q.at = c.at /\ q.got = Failed
  BY <1>1 DEF ExamsCall
<1>4. ExamsSays(q)'
  BY <1>3 DEF ExamsSays
<1> HIDE DEF q
<1> QED
  BY <1>1, <1>2, <1>3, <1>4, ExamsSwap

\* The page stands still, or sends the request for the query it turns to.
LEMMA ExamsMove ==
  ASSUME ExamsInv, Exams!RowsShown, NEW n \in Exams!Pages, NEW y \in Years \cup {All},
         Exams!Move([page EXCEPT !.page = n, !.year = y]), UNCHANGED <<server, bounds>>,
         n <= page.page \/ (page.more /\ n = page.page + 1)
  PROVE  ExamsInv'
<1> DEFINE v == [page EXCEPT !.page = n, !.year = y]
<1>1. /\ page \in ExamsState /\ net \subseteq ExamsCall /\ server \in ExamsCourse
      /\ bounds \in 0 .. MaxFailures
  BY ExamsTypes DEF ExamsInv
<1>2. /\ page.phase = "shown" /\ ~page.busy /\ ~page.error /\ page.rows > 0
  BY DEF Exams!RowsShown
<1>3. v \in ExamsState /\ [v EXCEPT !.busy = TRUE] \in ExamsState
  BY <1>1 DEF ExamsState
<1>4. v.page = n /\ v.year = y /\ Exams!Query(v) = <<n, y>>
  BY <1>1 DEF ExamsState, Exams!Query
<1>5. ExamsCount \in Nat /\ page.page \in Nat /\ page.page > 0 /\ n \in Nat /\ n > 0
  BY <1>1, ExamsOfYear, Constants DEF ExamsState, Exams!Pages
\* There are rows up to the page turned to.
<1>6. ExamsAlone => ExamsCount > (n - 1) * PerPage
  <2> SUFFICES ASSUME ExamsAlone PROVE ExamsCount > (n - 1) * PerPage
    OBVIOUS
  <2>1. ExamsCount > (page.page - 1) * PerPage /\ (page.more => ExamsCount > page.page * PerPage)
    BY <1>2 DEF ExamsInv, ExamsRows
  <2>2. CASE n <= page.page
    <3>1. (n - 1) * PerPage <= (page.page - 1) * PerPage
      <4>1. PICK d \in Nat : page.page - 1 = (n - 1) + d
        <5>1. page.page - n \in Nat /\ page.page - 1 = (n - 1) + (page.page - n)
          BY <1>5, <2>2
        <5> QED
          BY <5>1
      <4>2. ((n - 1) + d) * PerPage = (n - 1) * PerPage + d * PerPage
        BY <1>5, Constants
      <4>3. d * PerPage \in Nat /\ (n - 1) * PerPage \in Nat
        BY <1>5, Products
      <4> QED
        BY <4>1, <4>2, <4>3
    <3>2. (n - 1) * PerPage \in Int /\ (page.page - 1) * PerPage \in Int
      BY <1>5, Constants
    <3> QED
      BY <1>5, <2>1, <3>1, <3>2
  <2>3. CASE page.more /\ n = page.page + 1
    <3>1. n - 1 = page.page
      BY <1>5, <2>3
    <3> QED
      BY <2>1, <2>3, <3>1
  <2> QED
    BY <2>2, <2>3
<1>7. \A c \in net : c.op \notin {"load", "list"}
  BY <1>2 DEF ExamsInv, ExamsLoads, ExamsLists
<1>8. CASE page' = v /\ UNCHANGED net /\ Exams!Query(v) \in {Exams!Query(page), Exams!Start}
  <2>1. /\ page' \in ExamsState /\ page'.phase = "shown" /\ page'.rows = page.rows
        /\ page'.page = n /\ page'.year = y /\ page'.deleting = page.deleting
        /\ page'.more = page.more /\ page'.busy = page.busy /\ page'.error = page.error
    BY <1>1, <1>2, <1>3, <1>8 DEF ExamsState
  <2>2. Exams!TypeOK' /\ \A c \in net' : ExamsSays(c)'
    <3>1. \A z : Exams!Listing(z)' = Exams!Listing(z)
      BY DEF Exams!Listing, Exams!More, Exams!OfYear
    <3> QED
      BY <1>1, <1>8, <2>1, <3>1, ExamsTypes DEF ExamsInv, ExamsSays
  <2>3. Locks(ExamsDeletes, ExamsGoing)'
    <3>1. ExamsDeletes' = ExamsDeletes /\ (ExamsGoing' <=> ExamsGoing)
      BY <1>2, <1>8, <2>1 DEF ExamsDeletes, ExamsGoing
    <3> QED
      BY <3>1 DEF ExamsInv, Locks
  <2>4. ExamsLoads' /\ ExamsLists'
    BY <1>7, <1>8, <2>1 DEF ExamsLoads, ExamsLists
  <2>5. ExamsRows'
    <3>1. n <= page.page
      BY <1>4, <1>5, <1>8 DEF Exams!Query, Exams!Start
    <3>2. page.more /\ ExamsAlone => ExamsCount > n * PerPage
      <4> SUFFICES ASSUME ExamsAlone PROVE page.more => ExamsCount > n * PerPage
        OBVIOUS
      <4>1. CASE n = page.page
        BY <4>1, <1>2 DEF ExamsInv, ExamsRows
      <4>2. CASE n = 1
        <5>1. page.more => ExamsCount > page.page * PerPage
          BY <1>2 DEF ExamsInv, ExamsRows
        <5>2. page.page - 1 \in Nat /\ (page.page - 1) + 1 = page.page
          BY <1>5
        <5>3. page.page * PerPage = (page.page - 1) * PerPage + PerPage
              /\ (page.page - 1) * PerPage \in Nat
          BY <5>2, Products
        <5> QED
          BY <1>5, <4>2, <5>1, <5>3, Constants
      <4> QED
        BY <1>4, <1>8, <4>1, <4>2 DEF Exams!Query, Exams!Start
    <3> QED
      BY <1>2, <1>5, <1>6, <2>1, <3>2 DEF ExamsRows, ExamsCount, ExamsAlone
  <2> QED
    BY <2>1, <2>2, <2>3, <2>4, <2>5 DEF ExamsInv
<1>9. CASE page' = [v EXCEPT !.busy = TRUE] /\ net' = net \cup {Exams!Call("list", Exams!Query(v))}
  <2> DEFINE q == Exams!Call("list", Exams!Query(v))
  <2>1. /\ page' \in ExamsState /\ page'.phase = "shown" /\ page'.rows = page.rows
        /\ page'.page = n /\ page'.year = y /\ page'.deleting = page.deleting /\ page'.busy
        /\ Exams!Query(page') = Exams!Query(v)
    BY <1>1, <1>2, <1>3, <1>4, <1>9 DEF ExamsState, Exams!Query
  <2>2. q \in ExamsCall /\ q.op = "list" /\ q.at = Exams!Query(page') /\ q.got = None
    BY <1>4, <2>1 DEF Exams!Call, ExamsCall, Exams!Queries
  <2>3. net' = net \cup {q}
    BY <1>9
  <2> HIDE DEF q
  <2>4. Exams!TypeOK' /\ \A c \in net' : ExamsSays(c)'
    <3>1. \A z : Exams!Listing(z)' = Exams!Listing(z)
      BY DEF Exams!Listing, Exams!More, Exams!OfYear
    <3> QED
      BY <1>1, <2>1, <2>2, <2>3, <3>1, ExamsTypes DEF ExamsInv, ExamsSays
  <2>5. Locks(ExamsDeletes, ExamsGoing)'
    <3>1. ExamsDeletes' = ExamsDeletes /\ (ExamsGoing' <=> ExamsGoing)
      BY <1>2, <2>1, <2>2, <2>3 DEF ExamsDeletes, ExamsGoing
    <3> QED
      BY <3>1 DEF ExamsInv, Locks
  <2>6. ExamsLoads'
    BY <1>2, <1>7, <2>1, <2>2, <2>3 DEF ExamsLoads
  <2>7. ExamsLists'
    BY <1>2, <1>7, <2>1, <2>2, <2>3 DEF ExamsLists
  <2>8. ExamsRows'
    BY <1>2, <1>5, <1>6, <2>1 DEF ExamsRows, ExamsCount, ExamsAlone
  <2> QED
    BY <2>1, <2>4, <2>5, <2>6, <2>7, <2>8 DEF ExamsInv
<1> QED
  BY <1>8, <1>9 DEF Exams!Move

LEMMA ExamsUser ==
  ASSUME ExamsInv, Exams!TurnPage \/ Exams!ChooseYear \/ Exams!Confirm \/ Exams!Delete \/ Exams!TryAgain
  PROVE  ExamsInv'
<1>1. /\ page \in ExamsState /\ net \subseteq ExamsCall /\ server \in ExamsCourse
      /\ bounds \in 0 .. MaxFailures
  BY ExamsTypes DEF ExamsInv
<1>2. page.page \in Exams!Pages /\ page.page \in Nat /\ page.year \in Years \cup {All}
  BY <1>1, Constants DEF ExamsState, Exams!Pages
<1>3. CASE Exams!TurnPage
  <2>1. page.page + 1 \in Exams!Pages
    BY <1>2 DEF Exams!Pages
  <2>2. page.page > 1 => page.page - 1 \in Exams!Pages
    BY <1>2, Constants DEF Exams!Pages
  <2>3. \A n \in Exams!Pages :
          [page EXCEPT !.page = n] = [page EXCEPT !.page = n, !.year = page.year]
    BY <1>1 DEF ExamsState
  <2>4. PICK n \in Exams!Pages :
          /\ n <= page.page \/ (page.more /\ n = page.page + 1)
          /\ Exams!Move([page EXCEPT !.page = n])
    <3>1. CASE page.more /\ Exams!Move([page EXCEPT !.page = page.page + 1])
      BY <3>1, <2>1
    <3>2. CASE page.page > 1 /\ Exams!Move([page EXCEPT !.page = page.page - 1])
      BY <3>2, <2>2, <1>2
    <3> QED
      BY <1>3, <3>1, <3>2 DEF Exams!TurnPage
  <2> QED
    BY <1>2, <1>3, <2>3, <2>4, ExamsMove DEF Exams!TurnPage
<1>4. CASE Exams!ChooseYear
  <2>1. PICK y \in Years \cup {All} : Exams!Move([page EXCEPT !.year = y])
    BY <1>4 DEF Exams!ChooseYear
  <2>2. [page EXCEPT !.year = y] = [page EXCEPT !.page = page.page, !.year = y]
    BY <1>1 DEF ExamsState
  <2>3. Exams!Move([page EXCEPT !.page = page.page, !.year = y])
    BY <2>1, <2>2
  <2>4. Exams!RowsShown /\ UNCHANGED <<server, bounds>> /\ page.page <= page.page
    BY <1>2, <1>4 DEF Exams!ChooseYear
  <2> QED
    BY <1>2, <2>3, <2>4, ExamsMove
<1>5. ASSUME page' \in ExamsState, UNCHANGED <<server, bounds>>, net' \subseteq ExamsCall,
             page.phase = "shown", page'.phase = "shown",
             page'.page = page.page, page'.year = page.year, page'.rows = page.rows,
             page'.more = page.more, page'.busy = page.busy, page'.error = page.error,
             \A c \in net' : c \in net \/ (c.op = "delete" /\ c.got = None),
             Locks(ExamsDeletes, ExamsGoing)'
      PROVE  ExamsInv'
  <2>1. \A y : Exams!Listing(y)' = Exams!Listing(y)
    BY <1>5 DEF Exams!Listing, Exams!More, Exams!OfYear
  <2>2. \A c \in net' : ExamsSays(c)'
    BY <1>5, <2>1 DEF ExamsInv, ExamsSays
  <2>3. Exams!TypeOK'
    BY <1>1, <1>5, ExamsTypes
  <2>4. ExamsLoads' /\ ExamsLists'
    BY <1>5 DEF ExamsInv, ExamsLoads, ExamsLists, Exams!Query
  <2>5. ExamsRows'
    BY <1>5 DEF ExamsInv, ExamsRows, ExamsCount, ExamsAlone
  <2> QED
    BY <1>5, <2>2, <2>3, <2>4, <2>5 DEF ExamsInv
<1>6. CASE Exams!Confirm
  <2>1. /\ page.phase = "shown" /\ page' = [page EXCEPT !.confirm = ~page.confirm]
        /\ UNCHANGED <<net, server, bounds>>
    BY <1>6 DEF Exams!Confirm
  <2>2. page' \in ExamsState /\ page'.deleting = page.deleting /\ page'.phase = "shown"
    BY <1>1, <2>1 DEF ExamsState
  <2>3. Locks(ExamsDeletes, ExamsGoing)'
    BY <2>1, <2>2 DEF ExamsInv, ExamsDeletes, ExamsGoing, Locks
  <2>4. /\ page'.page = page.page /\ page'.year = page.year /\ page'.rows = page.rows
        /\ page'.more = page.more /\ page'.busy = page.busy /\ page'.error = page.error
    BY <1>1, <2>1 DEF ExamsState
  <2> QED
    BY <1>1, <2>1, <2>2, <2>3, <2>4, <1>5
<1>7. CASE Exams!Delete
  <2> DEFINE q == Exams!Call("delete", Exams!Query(page))
  <2>1. /\ page.phase = "shown" /\ ~page.deleting /\ page' = [page EXCEPT !.deleting = TRUE]
        /\ net' = net \cup {q} /\ UNCHANGED <<server, bounds>>
    BY <1>7 DEF Exams!Delete
  <2>2. page' \in ExamsState /\ page'.deleting /\ page'.phase = "shown"
    BY <1>1, <2>1 DEF ExamsState
  <2>3. q \in ExamsCall /\ q.op = "delete" /\ q.got = None
    BY <1>2 DEF Exams!Call, ExamsCall, Exams!Query, Exams!Queries
  <2> HIDE DEF q
  <2>4. Locks(ExamsDeletes, ExamsGoing)'
    <3>1. ExamsDeletes' = ExamsDeletes \cup {q} /\ ~ExamsGoing /\ ExamsGoing'
      BY <2>1, <2>2, <2>3 DEF ExamsDeletes, ExamsGoing
    <3> QED
      BY <3>1, LocksTake DEF ExamsInv, Locks
  <2> QED
    BY <1>1, <2>1, <2>2, <2>3, <2>4, <1>5 DEF ExamsState
<1>8. CASE Exams!TryAgain
  <2>1. /\ net' = {Exams!Call("load", Exams!Start)} /\ UNCHANGED <<server, bounds>>
        /\ Exams!Start \in Exams!Queries
    BY <1>8, Constants DEF Exams!TryAgain, Exams!Start, Exams!Queries, Exams!Pages
  <2>2. /\ page' \in ExamsState /\ page'.phase = "loading" /\ ~page'.deleting
        /\ Exams!Query(page') = Exams!Start
    <3>1. 1 \in Exams!Pages
      BY Constants DEF Exams!Pages
    <3> QED
      BY <1>8, <3>1 DEF Exams!TryAgain, ExamsState, Exams!Query, Exams!Start
  <2>3. /\ net' \subseteq ExamsCall
        /\ \A c \in net' : c.op = "load" /\ c.at = Exams!Start /\ c.got = None
    BY <2>1 DEF ExamsCall, Exams!Call
  <2>4. Exams!TypeOK'
    BY <1>1, <2>1, <2>2, <2>3, ExamsTypes
  <2>5. ExamsDeletes' = {} /\ ~ExamsGoing'
    BY <2>2, <2>3 DEF ExamsDeletes, ExamsGoing
  <2>6. ExamsLoads'
    BY <2>1, <2>2, <2>3 DEF ExamsLoads
  <2> QED
    BY <2>2, <2>3, <2>4, <2>5, <2>6 DEF ExamsInv, Locks, ExamsSays, ExamsLists, ExamsRows
<1> QED
  BY <1>3, <1>4, <1>6, <1>7, <1>8

\* An answer with rows, on a page that asked for them.
LEMMA ExamsRowsArrive ==
  ASSUME ExamsInv, NEW c \in net, c.op # "delete", c.got \notin {None, Failed}
  PROVE  /\ Exams!Rows(page, c) \in ExamsState
         /\ server.exists => /\ Exams!Rows(page, c).rows = Exams!Listing(c.at).rows
                             /\ Exams!Rows(page, c).more = Exams!Listing(c.at).more
         /\ ~Exams!Rows(page, c).busy /\ Exams!Rows(page, c).of = c.at
         /\ \A f \in {"phase", "page", "year", "error", "confirm", "deleting"} :
              Exams!Rows(page, c)[f] = page[f]
<1>1. page \in ExamsState /\ c \in ExamsCall /\ server \in ExamsCourse
  BY ExamsTypes DEF ExamsInv
<1>2. /\ server.exists => c.got = Exams!Listing(c.at)
      /\ c.got \in ExamsListing /\ c.at \in Exams!Queries
  BY <1>1, ExamsListed DEF ExamsInv, ExamsSays, ExamsCall
<1> QED
  BY <1>1, <1>2 DEF Exams!Rows, ExamsState, ExamsListing

\* The exams on the page asked for, when the answer is in.
LEMMA ExamsShown ==
  ASSUME server \in ExamsCourse, ExamsAlone, NEW q \in Exams!Queries, NEW rows, NEW more,
         rows = Exams!Listing(q).rows, more = Exams!Listing(q).more,
         q = Exams!Start \/ ExamsCount > (q[1] - 1) * PerPage
  PROVE  /\ rows > 0 => ExamsCount > (q[1] - 1) * PerPage
         /\ more => ExamsCount > q[1] * PerPage
         /\ rows = 0 /\ q[2] = All => server.exams = <<>>
<1>1. ExamsCount \in Nat /\ (ExamsCount = 0 => server.exams = <<>>)
  BY ExamsOfYear, Constants
<1>2. q = Exams!Start => (q[1] - 1) * PerPage = 0
  BY Products DEF Exams!Start
<1>3. q[1] - 1 \in Nat
  BY Constants DEF Exams!Queries, Exams!Pages
<1>4. (q[1] - 1) * PerPage \in Nat
  BY <1>3, Products
<1> QED
  BY <1>1, <1>2, <1>4, ExamsListed

LEMMA ExamsArrive ==
  ASSUME ExamsInv, NEW c \in net, Exams!Arrive(c)
  PROVE  ExamsInv' /\ Exams!SpinnerEnds
<1>1. /\ page \in ExamsState /\ net \subseteq ExamsCall /\ server \in ExamsCourse
      /\ bounds \in 0 .. MaxFailures /\ c \in ExamsCall /\ c.got # None
      /\ net' = net \ {c} /\ UNCHANGED <<server, bounds>>
  BY ExamsTypes DEF ExamsInv, Exams!Arrive
<1>2. \A y : Exams!Listing(y)' = Exams!Listing(y)
  BY <1>1 DEF Exams!Listing, Exams!More, Exams!OfYear
<1>3. \A a \in net' : ExamsSays(a)'
  BY <1>1, <1>2 DEF ExamsInv, ExamsSays
<1>4. ASSUME page' \in ExamsState
      PROVE  Exams!TypeOK'
  BY <1>1, <1>4, ExamsTypes
<1>5. ExamsDeletes' = ExamsDeletes \ {c}
  BY <1>1 DEF ExamsDeletes
<1> DEFINE v == Exams!Rows(page, c)
<1>6. ASSUME c.op # "delete", c.got # Failed
      PROVE  /\ v \in ExamsState /\ v.phase = page.phase /\ v.page = page.page
             /\ v.year = page.year /\ v.error = page.error /\ v.deleting = page.deleting
             /\ server.exists => /\ v.rows = Exams!Listing(c.at).rows
                                 /\ v.more = Exams!Listing(c.at).more
             /\ ~v.busy /\ v.of = c.at
  BY <1>1, <1>6, ExamsRowsArrive
<1> HIDE DEF v
<1>7. CASE page.phase = "left"
  <2>1. UNCHANGED page
    BY <1>7 DEF Exams!Arrive
  <2>2. ExamsDeletes = {} /\ ~ExamsGoing /\ ~ExamsGoing'
    BY <1>7, <2>1 DEF ExamsInv, Locks, ExamsGoing
  <2>3. ExamsLoads' /\ ExamsLists' /\ ExamsRows'
    BY <1>1, <1>7, <2>1 DEF ExamsInv, ExamsLoads, ExamsLists, ExamsRows
  <2> QED
    BY <1>1, <1>3, <1>4, <1>5, <1>7, <2>1, <2>2, <2>3 DEF ExamsInv, Locks, Exams!SpinnerEnds
<1>8. CASE page.phase # "left" /\ Exams!LoadArrives(c)
  <2>1. /\ c.op = "load" /\ page.phase = "loading" /\ ~page.deleting
        /\ c.at = Exams!Query(page) /\ c.at = Exams!Start
    BY <1>8 DEF Exams!LoadArrives, ExamsInv, ExamsLoads
  <2>2. net' = {} /\ ExamsDeletes' = {}
    <3>1. net = {c}
      BY <2>1 DEF ExamsInv, ExamsLoads
    <3> QED
      BY <1>1, <3>1 DEF ExamsDeletes
  <2>3. CASE c.got = Failed
    <3>1. page' = [page EXCEPT !.phase = "failed", !.busy = FALSE]
      BY <1>8, <2>3 DEF Exams!LoadArrives
    <3>2. page' \in ExamsState /\ page'.phase = "failed"
      BY <1>1, <3>1 DEF ExamsState
    <3> QED
      BY <1>3, <1>4, <2>2, <3>2
         DEF ExamsInv, Locks, ExamsGoing, ExamsLoads, ExamsLists, ExamsRows, Exams!SpinnerEnds
  <2>4. CASE c.got # Failed
    <3>1. page' = [v EXCEPT !.phase = "shown"]
      BY <1>8, <2>4 DEF Exams!LoadArrives, v
    <3>2. /\ page' \in ExamsState /\ page'.phase = "shown" /\ ~page'.deleting
          /\ server.exists => /\ page'.rows = Exams!Listing(c.at).rows
                              /\ page'.more = Exams!Listing(c.at).more
          /\ page'.page = page.page /\ page'.year = page.year /\ page'.of = c.at
      BY <1>6, <2>1, <2>4, <3>1 DEF ExamsState
    <3>3. c.at \in Exams!Queries /\ page'.page = c.at[1] /\ page'.year = c.at[2]
      BY <1>1, <2>1, <3>2 DEF ExamsCall, Exams!Query
    <3>4. ExamsRows'
      BY <1>1, <2>1, <3>2, <3>3, ExamsShown DEF ExamsRows, ExamsCount, ExamsAlone
    <3>5. Exams!SpinnerEnds
      BY <2>1, <3>2 DEF Exams!SpinnerEnds, Exams!Query
    <3> QED
      BY <1>3, <1>4, <2>2, <3>2, <3>4, <3>5
         DEF ExamsInv, Locks, ExamsGoing, ExamsLoads, ExamsLists
  <2> QED
    BY <2>3, <2>4
<1>9. CASE page.phase # "left" /\ Exams!ListArrives(c)
  <2>1. c.op = "list" /\ page.phase \in {"shown", "failed"}
    BY <1>1, <1>9 DEF Exams!ListArrives, ExamsInv, ExamsLoads, ExamsState
  <2>2. ExamsDeletes' = ExamsDeletes
    BY <1>5, <2>1 DEF ExamsDeletes
  <2>3. /\ \A a \in net' : a.op # "list"
        /\ \A a \in net' : a.op # "load"
    BY <1>1, <2>1 DEF ExamsInv, ExamsLists, ExamsLoads
  <2>4. page.phase = "shown" => page.rows > 0 /\ c.at = Exams!Query(page)
    BY <2>1 DEF ExamsInv, ExamsLists
  <2>5. ASSUME page' \in ExamsState, page'.phase = page.phase, page'.deleting = page.deleting,
               ExamsRows'
        PROVE  ExamsInv'
    <3>1. ExamsGoing' <=> ExamsGoing
      BY <2>5 DEF ExamsGoing
    <3> QED
      BY <1>1, <1>3, <1>4, <2>1, <2>2, <2>3, <2>5, <3>1
         DEF ExamsInv, Locks, ExamsLoads, ExamsLists
  <2>6. CASE c.got = Failed
    <3>1. page' = [page EXCEPT !.error = TRUE, !.busy = FALSE]
      BY <1>9, <2>6 DEF Exams!ListArrives
    <3>2. /\ page' \in ExamsState /\ page'.phase = page.phase /\ page'.deleting = page.deleting
          /\ page'.rows = page.rows /\ page'.page = page.page /\ page'.error
      BY <1>1, <3>1 DEF ExamsState
    <3>3. ExamsRows'
      BY <1>1, <2>4, <3>2 DEF ExamsInv, ExamsRows, ExamsCount, ExamsAlone
    <3>4. Exams!SpinnerEnds
      BY <3>2 DEF Exams!SpinnerEnds
    <3> QED
      BY <2>5, <3>2, <3>3, <3>4
  <2>7. CASE c.got # Failed
    <3>1. page' = v
      BY <1>9, <2>7 DEF Exams!ListArrives, v
    <3>2. /\ page' \in ExamsState /\ page'.phase = page.phase /\ page'.deleting = page.deleting
          /\ server.exists => /\ page'.rows = Exams!Listing(c.at).rows
                              /\ page'.more = Exams!Listing(c.at).more
          /\ page'.page = page.page /\ page'.year = page.year /\ page'.of = c.at
      BY <1>6, <2>1, <2>7, <3>1
    <3>3. ASSUME page.phase = "shown"
          PROVE  c.at \in Exams!Queries /\ page'.page = c.at[1] /\ page'.year = c.at[2]
                 /\ (ExamsAlone => ExamsCount > (c.at[1] - 1) * PerPage)
      BY <1>1, <2>4, <3>2, <3>3 DEF ExamsCall, Exams!Query, ExamsInv, ExamsRows
    <3>4. ExamsRows'
      BY <1>1, <3>2, <3>3, ExamsShown DEF ExamsRows, ExamsCount, ExamsAlone
    <3>5. Exams!SpinnerEnds
      BY <2>4, <3>2 DEF Exams!SpinnerEnds, Exams!Query
    <3> QED
      BY <2>5, <3>2, <3>4, <3>5
  <2> QED
    BY <2>6, <2>7
<1>10. CASE page.phase # "left" /\ Exams!DeleteArrives(c)
  <2>1. c \in ExamsDeletes /\ ExamsGoing /\ page.phase = "shown"
    BY <1>10 DEF Exams!DeleteArrives, ExamsDeletes, ExamsInv, Locks, ExamsGoing
  <2>2. ExamsDeletes' = {}
    BY <1>5, <2>1 DEF ExamsInv, Locks
  <2>3. /\ page' \in ExamsState /\ page'.phase \in {"left", "failed"}
        /\ page'.phase = "left" => c.got = Ok
    BY <1>1, <1>10 DEF Exams!DeleteArrives, ExamsState
  <2>4. page'.phase = "left" => ~server.exists
    BY <1>1, <2>1, <2>3, PagesAssumption DEF ExamsInv, ExamsSays, ExamsDeletes
  <2>5. ExamsLoads' /\ ExamsLists' /\ ExamsRows'
    BY <1>1, <2>1, <2>3 DEF ExamsInv, ExamsLoads, ExamsLists, ExamsRows
  <2> QED
    BY <1>1, <1>3, <1>4, <2>2, <2>3, <2>4, <2>5 DEF ExamsInv, Locks, ExamsGoing, Exams!SpinnerEnds
<1> QED
  BY <1>7, <1>8, <1>9, <1>10 DEF Exams!Arrive

LEMMA ExamsNext ==
  ASSUME ExamsInv, Exams!Next
  PROVE  ExamsInv' /\ Exams!SpinnerEnds
<1>1. ASSUME NEW c \in net, Exams!Serve(c) \/ Exams!Lose(c)
      PROVE  ExamsInv' /\ Exams!SpinnerEnds
  <2>1. UNCHANGED page
    BY <1>1 DEF Exams!Serve, Exams!Lose
  <2> QED
    BY <1>1, <2>1, ExamsServe, ExamsLose DEF Exams!SpinnerEnds
<1>2. ASSUME NEW c \in net, Exams!Arrive(c)
      PROVE  ExamsInv' /\ Exams!SpinnerEnds
  BY <1>2, ExamsArrive
<1>3. CASE Exams!TurnPage \/ Exams!ChooseYear
  <2>1. ~page.busy
    BY <1>3 DEF Exams!TurnPage, Exams!ChooseYear, Exams!RowsShown
  <2> QED
    BY <1>3, <2>1, ExamsUser DEF Exams!SpinnerEnds
<1>4. CASE Exams!Confirm \/ Exams!Delete
  <2>1. page \in ExamsState
    BY ExamsTypes DEF ExamsInv
  <2>2. page'.busy = page.busy
    BY <1>4, <2>1 DEF Exams!Confirm, Exams!Delete, ExamsState
  <2> QED
    BY <1>4, <2>2, ExamsUser DEF Exams!SpinnerEnds
<1>5. CASE Exams!TryAgain
  BY <1>5, ExamsUser DEF Exams!TryAgain, Exams!SpinnerEnds
<1> QED
  BY <1>1, <1>2, <1>3, <1>4, <1>5 DEF Exams!Next


LEMMA ExamsStays ==
  ASSUME ExamsInv, UNCHANGED vars
  PROVE  ExamsInv' /\ Exams!SpinnerEnds
<1> USE DEF vars
<1>1. Exams!TypeOK'
  BY ExamsTypes DEF ExamsInv
<1>2. \A q : Exams!Listing(q)' = Exams!Listing(q)
  BY DEF Exams!Listing, Exams!More, Exams!OfYear
<1>3. \A c \in net' : ExamsSays(c)'
  BY <1>2 DEF ExamsInv, ExamsSays
<1>4. ExamsLoads' /\ ExamsLists' /\ ExamsRows'
  BY DEF ExamsInv, ExamsLoads, ExamsLists, ExamsRows, ExamsCount, ExamsAlone, Exams!Query
<1>5. Exams!SpinnerEnds
  BY DEF Exams!SpinnerEnds
<1> QED
  BY <1>1, <1>3, <1>4, <1>5 DEF ExamsInv, ExamsDeletes, ExamsGoing, Locks

LEMMA ExamsPromises ==
  ASSUME ExamsInv
  PROVE  Exams!TypeOK /\ Exams!DeletedOnce /\ Exams!PagesHaveRows
<1>1. \A S : Exams!Cardinality(S) = Cardinality(S)
  BY DEF Exams!Cardinality, Cardinality
<1>2. page \in ExamsState
  BY ExamsTypes DEF ExamsInv
<1>3. ExamsGoing \in BOOLEAN
  BY <1>2 DEF ExamsState, ExamsGoing
<1>4. Cardinality(ExamsDeletes) = IF ExamsGoing THEN 1 ELSE 0
  BY <1>3, LocksCount DEF ExamsInv
<1>5. Exams!DeletedOnce
  BY <1>1, <1>4 DEF ExamsInv, Exams!DeletedOnce, ExamsDeletes, ExamsGoing
<1> QED
  BY <1>5 DEF ExamsInv, ExamsRows, ExamsAlone, Exams!PagesHaveRows
-----------------------------------------------------------------------------
(***************************************************************************)
(* ExamQuestions.                                                          *)
(***************************************************************************)

QuestionsSaves == {r \in net : r.op \in {"create", "update"}}

\* A change of the questions that the page has not heard of.
QuestionsUnheard == \E r \in net : r.op \in {"create", "update", "delete"} /\ r.got = Ok

\* Without one, an answer with the list is that of the questions there are, and so is the
\* list shown once no answer is waited for.
QuestionsCurrent ==
  bounds.failures = 0 /\ ~QuestionsUnheard =>
    /\ \A r \in net : r.op = "list" /\ r.got # None => r.got = [list |-> server]
    /\ (\A r \in net : r.op # "list") => cache = server

QuestionsInv ==
  /\ Questions!TypeOK
  /\ ~page.uploaded => Locks(QuestionsSaves, page.locked)
  /\ \A r \in net : r.op = "upload" => page.uploaded
  /\ QuestionsCurrent

QuestionsState ==
  [dialog : {"none", "create", "edit", "delete"}, about : Questions!Ids \cup {None},
   locked : BOOLEAN, broken : BOOLEAN, processing : BOOLEAN, uploaded : BOOLEAN,
   at : Nat \ {0}, type : Questions!Types]

QuestionsForm ==
  [kind : Questions!Kinds \cup {None}, qtype : {"choice", None}, text : BOOLEAN,
   solved : BOOLEAN]

QuestionsUsed ==
  [moves : 0 .. MaxEvents, changes : 0 .. MaxChanges, failures : 0 .. MaxEvents,
   ids : 0 .. MaxQuestions]

LEMMA QuestionsTypes ==
  /\ Questions!TypeOK <=>
       /\ page \in QuestionsState
       /\ kept \in QuestionsForm
       /\ cache # None => cache \subseteq Questions!Question
       /\ net \subseteq Questions!Requests
       /\ server \subseteq Questions!Question
       /\ bounds \in QuestionsUsed
  /\ Questions!TypeOK' <=>
       /\ page' \in QuestionsState
       /\ kept' \in QuestionsForm
       /\ cache' # None => cache' \subseteq Questions!Question
       /\ net' \subseteq Questions!Requests
       /\ server' \subseteq Questions!Question
       /\ bounds' \in QuestionsUsed
  BY DEF Questions!TypeOK, QuestionsState, QuestionsForm, QuestionsUsed

\* A request, by what it is for.
LEMMA QuestionsRequest ==
  ASSUME NEW r \in Questions!Requests
  PROVE  /\ r = [op |-> r.op, about |-> r.about, n |-> r.n, got |-> r.got]
         /\ r.op \in {"list", "create", "update", "delete", "upload"}
         /\ r.op = "list" =>
              r.got \in [list : SUBSET Questions!Question] \cup {None, Failed}
         /\ r.op \in {"create", "update"} =>
              /\ r.about.number \in Questions!Numbers
              /\ r.about.kind \in Questions!Kinds
              /\ r.about.solved \in BOOLEAN
         /\ r.op # "list" => r.got \in {Ok, None, Failed}
  BY DEF Questions!Requests

\* It stays one with an answer it can have.
LEMMA QuestionsAnswered ==
  ASSUME NEW r \in Questions!Requests, NEW answer,
         \/ answer = Failed
         \/ answer = Ok /\ r.op \in {"create", "update", "delete"}
         \/ answer \in [list : SUBSET Questions!Question] /\ r.op = "list"
  PROVE  [r EXCEPT !.got = answer] \in Questions!Requests
  BY DEF Questions!Requests

LEMMA QuestionsNumbers ==
  /\ 1 \in Questions!Numbers /\ 2 \in Questions!Numbers
  /\ 1 \in Questions!Ids
  BY Constants DEF Questions!Numbers, Questions!Ids

LEMMA QuestionsInit ==
  ASSUME Questions!Init
  PROVE  QuestionsInv
<1> USE DEF Questions!Init
<1>1. page \in QuestionsState /\ ~page.locked /\ ~page.uploaded
  BY DEF QuestionsState, Questions!Types
<1>2. kept \in QuestionsForm
  BY DEF QuestionsForm, Questions!FirstForm
<1>3. net = {Questions!Listing} /\ Questions!Listing \in Questions!Requests
      /\ Questions!Listing.op = "list" /\ Questions!Listing.got = None
  BY DEF Questions!Listing, Questions!Request, Questions!Requests
<1>4. server \subseteq Questions!Question
  <2>1. CASE server = {}
    BY <2>1
  <2>2. CASE server # {}
    <3>1. PICK k \in Questions!Kinds :
            server = {[id |-> 1, number |-> 1, kind |-> k]}
      BY <2>2
    <3>2. [id |-> 1, number |-> 1, kind |-> k] \in Questions!Question
      BY QuestionsNumbers DEF Questions!Question
    <3> QED
      BY <3>1, <3>2
  <2> QED
    BY <2>1, <2>2
<1>5. bounds \in QuestionsUsed
  <2>1. CASE server = {}
    <3>1. Questions!Cardinality({}) = 0
      BY FS_EmptySet DEF Questions!Cardinality, Cardinality
    <3> QED
      BY <2>1, <3>1, Constants DEF QuestionsUsed
  <2>2. CASE server # {}
    <3>1. PICK q : server = {q}
      BY <2>2
    <3>2. Questions!Cardinality({q}) = 1
      BY FS_Singleton DEF Questions!Cardinality, Cardinality
    <3> QED
      BY <3>1, <3>2, Constants DEF QuestionsUsed
  <2> QED
    BY <2>1, <2>2
<1>6. Questions!TypeOK
  BY <1>1, <1>2, <1>3, <1>4, <1>5, QuestionsTypes
<1>7. QuestionsSaves = {}
  BY <1>3 DEF QuestionsSaves
<1> QED
  BY <1>1, <1>3, <1>6, <1>7 DEF QuestionsInv, Locks, QuestionsCurrent

\* What the user does without a request.
LEMMA QuestionsDialog ==
  ASSUME QuestionsInv, page' \in QuestionsState, kept' \in QuestionsForm,
         page'.locked = page.locked, page'.uploaded = page.uploaded,
         UNCHANGED <<cache, net, server>>, bounds' \in QuestionsUsed,
         bounds'.failures = bounds.failures
  PROVE  QuestionsInv'
<1> USE DEF QuestionsInv
<1>1. Questions!TypeOK'
  BY QuestionsTypes
<1>2. QuestionsCurrent'
  BY DEF QuestionsCurrent, QuestionsUnheard
<1> QED
  BY <1>1, <1>2 DEF QuestionsSaves, Locks

LEMMA QuestionsUser ==
  ASSUME QuestionsInv,
         \/ Questions!ChooseType \/ Questions!TurnPage \/ Questions!OpenCreate
         \/ Questions!OpenEdit \/ Questions!ChooseKind \/ Questions!Fill \/ Questions!Cancel
         \/ Questions!Dismiss \/ Questions!OpenDelete \/ Questions!CloseDelete
  PROVE  QuestionsInv'
<1>1. /\ page \in QuestionsState /\ kept \in QuestionsForm /\ bounds \in QuestionsUsed
      /\ cache # None => cache \subseteq Questions!Question
  BY QuestionsTypes DEF QuestionsInv
<1>2. Questions!Moved => bounds' \in QuestionsUsed /\ bounds'.failures = bounds.failures
  BY <1>1, Constants DEF Questions!Moved, QuestionsUsed
<1>3. \A q \in Questions!Shown :
        Questions!Loaded => q.id \in Questions!Ids /\ q.kind \in Questions!Kinds
  BY <1>1 DEF Questions!Shown, Questions!Filtered, Questions!Loaded, Questions!Question
<1>4. CASE Questions!ChooseType
  <2>1. PICK t \in Questions!Types : page' = [page EXCEPT !.type = t]
    BY <1>4 DEF Questions!ChooseType
  <2>2. page' \in QuestionsState /\ page'.locked = page.locked /\ page'.uploaded = page.uploaded
    BY <1>1, <2>1 DEF QuestionsState
  <2> QED
    BY <1>1, <1>2, <1>4, <2>2, QuestionsDialog DEF Questions!ChooseType
<1>5. CASE Questions!TurnPage
  <2>1. page.at \in Nat \ {0}
    BY <1>1 DEF QuestionsState
  <2>2. PICK n \in Nat \ {0} : page' = [page EXCEPT !.at = n]
    <3>1. PICK n \in (1 .. Questions!TotalPages) \cup (IF page.at > 1 THEN {page.at - 1} ELSE {}) :
            page' = [page EXCEPT !.at = n]
      BY <1>5 DEF Questions!TurnPage
    <3>2. n \in Nat \ {0}
      BY <2>1
    <3> QED
      BY <3>1, <3>2
  <2>3. page' \in QuestionsState /\ page'.locked = page.locked /\ page'.uploaded = page.uploaded
    BY <1>1, <2>2 DEF QuestionsState
  <2> QED
    BY <1>1, <1>2, <1>5, <2>3, QuestionsDialog DEF Questions!TurnPage
<1>6. CASE Questions!OpenCreate
  <2>1. page' \in QuestionsState /\ page'.locked = page.locked /\ page'.uploaded = page.uploaded
    BY <1>1, <1>6 DEF Questions!OpenCreate, QuestionsState
  <2> QED
    BY <1>1, <1>6, <2>1, QuestionsDialog DEF Questions!OpenCreate
<1>7. CASE Questions!OpenEdit
  <2>1. PICK q \in Questions!Shown :
          /\ page' = [page EXCEPT !.dialog = "edit", !.about = q.id]
          /\ kept' = [kind |-> q.kind, qtype |-> None, text |-> TRUE, solved |-> FALSE]
    BY <1>7 DEF Questions!OpenEdit
  <2>2. q.id \in Questions!Ids /\ q.kind \in Questions!Kinds
    BY <1>3, <1>7 DEF Questions!OpenEdit, Questions!Free
  <2>3. /\ page' \in QuestionsState /\ page'.locked = page.locked
        /\ page'.uploaded = page.uploaded /\ kept' \in QuestionsForm
    BY <1>1, <2>1, <2>2 DEF QuestionsState, QuestionsForm
  <2> QED
    BY <1>1, <1>7, <2>3, QuestionsDialog DEF Questions!OpenEdit
<1>8. CASE Questions!ChooseKind
  <2>1. kept' \in QuestionsForm
    BY <1>1, <1>8 DEF Questions!ChooseKind, QuestionsForm
  <2> QED
    BY <1>1, <1>8, <2>1, QuestionsDialog DEF Questions!ChooseKind
<1>9. CASE Questions!Fill
  <2>1. kept' \in QuestionsForm
    BY <1>1, <1>9 DEF Questions!Fill, QuestionsForm
  <2> QED
    BY <1>1, <1>9, <2>1, QuestionsDialog DEF Questions!Fill
<1>10. CASE Questions!Cancel
  <2>1. page' \in QuestionsState /\ page'.locked = page.locked /\ page'.uploaded = page.uploaded
    BY <1>1, <1>10 DEF Questions!Cancel, QuestionsState
  <2> QED
    BY <1>1, <1>10, <2>1, QuestionsDialog DEF Questions!Cancel
<1>11. CASE Questions!Dismiss
  <2>1. page' \in QuestionsState /\ page'.locked = page.locked /\ page'.uploaded = page.uploaded
    BY <1>1, <1>11 DEF Questions!Dismiss, QuestionsState
  <2>2. kept' \in QuestionsForm
    BY <1>11 DEF Questions!Dismiss, Questions!EmptyForm, QuestionsForm, Questions!Kinds
  <2> QED
    BY <1>1, <1>11, <2>1, <2>2, QuestionsDialog DEF Questions!Dismiss
<1>12. CASE Questions!OpenDelete
  <2>1. PICK q \in Questions!Shown : page' = [page EXCEPT !.dialog = "delete", !.about = q.id]
    BY <1>12 DEF Questions!OpenDelete
  <2>2. q.id \in Questions!Ids
    BY <1>3, <1>12 DEF Questions!OpenDelete, Questions!Free
  <2>3. page' \in QuestionsState /\ page'.locked = page.locked /\ page'.uploaded = page.uploaded
    BY <1>1, <2>1, <2>2 DEF QuestionsState
  <2> QED
    BY <1>1, <1>12, <2>3, QuestionsDialog DEF Questions!OpenDelete
<1>13. CASE Questions!CloseDelete
  <2>1. page' \in QuestionsState /\ page'.locked = page.locked /\ page'.uploaded = page.uploaded
    BY <1>1, <1>13 DEF Questions!CloseDelete, QuestionsState
  <2> QED
    BY <1>1, <1>13, <2>1, QuestionsDialog DEF Questions!CloseDelete
<1> QED
  BY <1>4, <1>5, <1>6, <1>7, <1>8, <1>9, <1>10, <1>11, <1>12, <1>13

\* A request is sent: one that saves with the lock, one that uploads with its mark.
LEMMA QuestionsSend ==
  ASSUME QuestionsInv, NEW op, NEW about, Questions!Send(op, about),
         Questions!Request(op, about, bounds.changes + 1) \in Questions!Requests,
         page' \in QuestionsState, kept' \in QuestionsForm,
         \/ op \in {"create", "update"} /\ ~page.locked /\ page'.locked
            /\ page'.uploaded = page.uploaded
         \/ op = "delete" /\ UNCHANGED page
         \/ op = "upload" /\ page'.uploaded
  PROVE  QuestionsInv'
<1> PICK q \in Questions!Requests : q = Questions!Request(op, about, bounds.changes + 1)
  OBVIOUS
<1>1. q.op = op /\ q.about = about /\ q.got = None
  BY DEF Questions!Request
<1>2. /\ net' = net \cup {q} /\ UNCHANGED <<cache, server>>
      /\ bounds.changes < MaxChanges /\ bounds' = [bounds EXCEPT !.changes = bounds.changes + 1]
  BY DEF Questions!Send
<1>3. bounds' \in QuestionsUsed /\ bounds'.failures = bounds.failures
  BY <1>2, QuestionsTypes, Constants DEF QuestionsInv, QuestionsUsed
<1> USE DEF QuestionsInv
<1>4. Questions!TypeOK'
  BY <1>2, <1>3, QuestionsTypes
<1>5. ~page'.uploaded => Locks(QuestionsSaves, page.locked)'
  <2>1. CASE op \in {"create", "update"}
    <3>1. QuestionsSaves' = QuestionsSaves \cup {q}
      BY <1>1, <1>2, <2>1 DEF QuestionsSaves
    <3> QED
      BY <2>1, <3>1, LocksTake DEF Locks
  <2>2. CASE op = "delete"
    <3>1. QuestionsSaves' = QuestionsSaves
      BY <1>1, <1>2, <2>2 DEF QuestionsSaves
    <3> QED
      BY <2>2, <3>1
  <2>3. CASE op = "upload"
    BY <2>3
  <2> QED
    BY <2>1, <2>2, <2>3
<1>6. \A r \in net' : r.op = "upload" => page'.uploaded
  BY <1>1, <1>2
<1>7. QuestionsCurrent'
  BY <1>1, <1>2, <1>3, Constants DEF QuestionsCurrent, QuestionsUnheard
<1> QED
  BY <1>4, <1>5, <1>6, <1>7

LEMMA QuestionsSends ==
  ASSUME QuestionsInv,
         \/ Questions!SubmitCreate \/ Questions!SubmitUpdate \/ Questions!ConfirmDelete
         \/ Questions!Upload
  PROVE  QuestionsInv'
<1>1. /\ page \in QuestionsState /\ kept \in QuestionsForm /\ bounds \in QuestionsUsed
  BY QuestionsTypes DEF QuestionsInv
<1>2. bounds.changes + 1 \in Nat
  BY <1>1, Constants DEF QuestionsUsed
<1>3. CASE Questions!SubmitCreate
  <2> DEFINE about == [number |-> Questions!NextNumber, kind |-> kept.kind,
                       solved |-> kept.qtype = "choice" /\ kept.solved]
  <2>1. Questions!Send("create", about)
    BY <1>3 DEF Questions!SubmitCreate
  <2>2. about \in [number : Questions!Numbers, kind : Questions!Kinds, solved : BOOLEAN]
    <3>1. kept.kind \in Questions!Kinds /\ (kept.qtype = "choice" /\ kept.solved) \in BOOLEAN
      BY <1>1, <1>3 DEF Questions!SubmitCreate, Questions!Submits, QuestionsForm
    <3> QED
      BY <1>3, <3>1 DEF Questions!SubmitCreate
  <2> HIDE DEF about
  <2>3. Questions!Request("create", about, bounds.changes + 1) \in Questions!Requests
    BY <1>2, <2>2 DEF Questions!Requests, Questions!Request
  <2>4. /\ ~page.locked /\ page' = [page EXCEPT !.locked = TRUE] /\ UNCHANGED kept
    BY <1>3 DEF Questions!SubmitCreate, Questions!Submits
  <2>5. page' \in QuestionsState /\ page'.locked /\ page'.uploaded = page.uploaded
    BY <1>1, <2>4 DEF QuestionsState
  <2> QED
    BY <1>1, <2>1, <2>3, <2>4, <2>5, QuestionsSend
<1>4. CASE Questions!SubmitUpdate
  <2>1. PICK n \in 1 .. 2 :
          Questions!Send("update", [id |-> page.about, number |-> n, kind |-> kept.kind,
                                    solved |-> kept.kind = "choice" /\ kept.solved])
    BY <1>4 DEF Questions!SubmitUpdate
  <2> DEFINE about == [id |-> page.about, number |-> n, kind |-> kept.kind,
                       solved |-> kept.kind = "choice" /\ kept.solved]
  <2>2. about \in [id : Questions!Ids \cup {None}, number : Questions!Numbers,
                   kind : Questions!Kinds, solved : BOOLEAN]
    <3>1. kept.kind \in Questions!Kinds /\ (kept.kind = "choice" /\ kept.solved) \in BOOLEAN
      BY <1>1, <1>4 DEF Questions!SubmitUpdate, Questions!Submits, QuestionsForm
    <3>2. n \in Questions!Numbers /\ page.about \in Questions!Ids \cup {None}
      BY <1>1, QuestionsNumbers DEF QuestionsState
    <3> QED
      BY <3>1, <3>2
  <2>3. Questions!Send("update", about)
    BY <2>1
  <2> HIDE DEF about
  <2>4. Questions!Request("update", about, bounds.changes + 1) \in Questions!Requests
    BY <1>2, <2>2 DEF Questions!Requests, Questions!Request
  <2>5. /\ ~page.locked /\ page' = [page EXCEPT !.locked = TRUE] /\ UNCHANGED kept
    BY <1>4 DEF Questions!SubmitUpdate, Questions!Submits
  <2>6. page' \in QuestionsState /\ page'.locked /\ page'.uploaded = page.uploaded
    BY <1>1, <2>5 DEF QuestionsState
  <2> QED
    BY <1>1, <2>3, <2>4, <2>5, <2>6, QuestionsSend
<1>5. CASE Questions!ConfirmDelete
  <2>1. Questions!Send("delete", [id |-> page.about]) /\ UNCHANGED <<page, kept>>
    BY <1>5 DEF Questions!ConfirmDelete
  <2>2. Questions!Request("delete", [id |-> page.about], bounds.changes + 1) \in Questions!Requests
    BY <1>1, <1>2 DEF Questions!Requests, Questions!Request, QuestionsState
  <2> QED
    BY <1>1, <2>1, <2>2, QuestionsSend
<1>6. CASE Questions!Upload
  <2>1. /\ Questions!Send("upload", None) /\ UNCHANGED kept
        /\ page' = [page EXCEPT !.locked = TRUE, !.processing = TRUE, !.uploaded = TRUE]
    BY <1>6 DEF Questions!Upload
  <2>2. Questions!Request("upload", None, bounds.changes + 1) \in Questions!Requests
    BY <1>2 DEF Questions!Requests, Questions!Request
  <2>3. page' \in QuestionsState /\ page'.uploaded
    BY <1>1, <2>1 DEF QuestionsState
  <2> QED
    BY <1>1, <2>1, <2>2, <2>3, QuestionsSend
<1> QED
  BY <1>3, <1>4, <1>5, <1>6

\* A request is replaced by itself with its answer.
LEMMA QuestionsSwap ==
  ASSUME QuestionsInv, NEW r \in net, NEW q \in Questions!Requests, q.op = r.op,
         q.about = r.about, net' = (net \ {r}) \cup {q}, UNCHANGED <<page, kept, cache>>,
         bounds' \in QuestionsUsed, server' \subseteq Questions!Question,
         QuestionsCurrent'
  PROVE  QuestionsInv'
<1> USE DEF QuestionsInv
<1>1. Questions!TypeOK'
  BY QuestionsTypes
<1>2. ~page'.uploaded => Locks(QuestionsSaves, page.locked)'
  <2>1. CASE r.op \in {"create", "update"}
    <3>1. QuestionsSaves' = (QuestionsSaves \ {r}) \cup {q} /\ r \in QuestionsSaves
      BY <2>1 DEF QuestionsSaves
    <3> QED
      BY <3>1, LocksSwap
  <2>2. CASE r.op \notin {"create", "update"}
    <3>1. QuestionsSaves' = QuestionsSaves
      BY <2>2 DEF QuestionsSaves
    <3> QED
      BY <3>1
  <2> QED
    BY <2>1, <2>2
<1>3. \A s \in net' : s.op = "upload" => page'.uploaded
  OBVIOUS
<1> QED
  BY <1>1, <1>2, <1>3

LEMMA QuestionsServe ==
  ASSUME QuestionsInv, NEW r \in net, Questions!Serve(r)
  PROVE  QuestionsInv'
<1>1. /\ r \in Questions!Requests /\ r.got = None /\ UNCHANGED <<page, kept, cache>>
      /\ server \subseteq Questions!Question /\ bounds \in QuestionsUsed
  BY QuestionsTypes DEF QuestionsInv, Questions!Serve
<1>2. \A answer : [r EXCEPT !.got = answer].op = r.op
                  /\ [r EXCEPT !.got = answer].about = r.about
                  /\ [r EXCEPT !.got = answer].got = answer
  BY <1>1, QuestionsRequest
<1> PICK gone : gone <=> (r.op \in {"update", "delete"} /\ \A q \in server : q.id # r.about.id)
  OBVIOUS
<1>3. CASE /\ r.op = "list" /\ net' = (net \ {r}) \cup {[r EXCEPT !.got = [list |-> server]]}
           /\ UNCHANGED <<server, bounds>>
  <2>1. [r EXCEPT !.got = [list |-> server]] \in Questions!Requests
    BY <1>1, <1>3, QuestionsAnswered
  <2>2. PICK q \in Questions!Requests : q = [r EXCEPT !.got = [list |-> server]]
    BY <2>1
  <2>3. q.op = "list" /\ q.about = r.about /\ q.got = [list |-> server]
    BY <1>2, <1>3, <2>2
  <2>4. net' = (net \ {r}) \cup {q}
    BY <1>3, <2>2
  <2>5. QuestionsUnheard' => QuestionsUnheard
    BY <2>3, <2>4 DEF QuestionsUnheard
  <2>6. QuestionsUnheard => QuestionsUnheard'
    BY <1>3, <2>3, <2>4 DEF QuestionsUnheard
  <2>7. QuestionsCurrent'
    BY <1>3, <2>3, <2>4, <2>6 DEF QuestionsInv, QuestionsCurrent
  <2> QED
    BY <1>1, <1>3, <2>3, <2>4, <2>7, QuestionsSwap
<1>4. CASE /\ r.op # "list" /\ net' = (net \ {r}) \cup {[r EXCEPT !.got = Failed]}
           /\ UNCHANGED <<server, bounds>>
  <2>1. PICK q \in Questions!Requests : q = [r EXCEPT !.got = Failed]
    BY <1>1, QuestionsAnswered
  <2>2. q.op = r.op /\ q.about = r.about /\ q.got = Failed
    BY <1>2, <2>1
  <2>3. net' = (net \ {r}) \cup {q}
    BY <1>4, <2>1
  <2>4. QuestionsUnheard => QuestionsUnheard'
    BY <1>1, <2>3, Constants DEF QuestionsUnheard
  <2>5. QuestionsCurrent'
    <3>1. \A s : s.op = "list" => (s \in net' <=> s \in net)
      BY <1>4, <2>2, <2>3
    <3> QED
      BY <1>1, <1>4, <2>4, <3>1 DEF QuestionsInv, QuestionsCurrent
  <2> QED
    BY <1>1, <1>4, <2>2, <2>3, <2>5, QuestionsSwap
<1>5. ASSUME r.op \in {"create", "update", "delete"}, bounds' \in QuestionsUsed,
             net' = (net \ {r}) \cup {[r EXCEPT !.got = Ok]},
             server' \subseteq Questions!Question
      PROVE  QuestionsInv'
  <2>1. PICK q \in Questions!Requests : q = [r EXCEPT !.got = Ok]
    BY <1>1, <1>5, QuestionsAnswered
  <2>2. q.op = r.op /\ q.about = r.about /\ q.got = Ok
    BY <1>2, <2>1
  <2>3. net' = (net \ {r}) \cup {q}
    BY <1>5, <2>1
  <2>4. QuestionsCurrent'
    BY <1>5, <2>2, <2>3 DEF QuestionsCurrent, QuestionsUnheard
  <2> QED
    BY <1>1, <1>5, <2>2, <2>3, <2>4, QuestionsSwap
<1>6. CASE /\ r.op = "create" /\ bounds.ids < MaxQuestions
           /\ bounds' = [bounds EXCEPT !.ids = bounds.ids + 1]
           /\ server' = server \cup {[id |-> bounds.ids + 1, number |-> r.about.number,
                                      kind |-> r.about.kind]}
           /\ net' = (net \ {r}) \cup {[r EXCEPT !.got = Ok]}
  <2>1. bounds' \in QuestionsUsed /\ bounds.ids + 1 \in Questions!Ids
    BY <1>1, <1>6, Constants DEF QuestionsUsed, Questions!Ids
  <2>2. r.about.number \in Questions!Numbers /\ r.about.kind \in Questions!Kinds
    BY <1>1, <1>6, QuestionsRequest
  <2>3. server' \subseteq Questions!Question
    <3>1. [id |-> bounds.ids + 1, number |-> r.about.number, kind |-> r.about.kind]
            \in Questions!Question
      BY <2>1, <2>2 DEF Questions!Question
    <3> QED
      BY <1>1, <1>6, <3>1
  <2> QED
    BY <1>5, <1>6, <2>1, <2>3
<1>7. CASE /\ r.op = "update" /\ ~Questions!Refused(r) /\ UNCHANGED bounds
           /\ server' = {IF q.id = r.about.id THEN Questions!Stored(r, q) ELSE q : q \in server}
           /\ net' = (net \ {r}) \cup {[r EXCEPT !.got = Ok]}
  <2>1. r.about.number \in Questions!Numbers /\ r.about.kind \in Questions!Kinds
    BY <1>1, <1>7, QuestionsRequest
  <2>2. ASSUME NEW q \in server
        PROVE  Questions!Stored(r, q) \in Questions!Question
    BY <1>1, <1>7, <2>1, <2>2 DEF Questions!Stored, Questions!Question
  <2>3. server' \subseteq Questions!Question
    <3>1. ASSUME NEW p \in server'
          PROVE  p \in Questions!Question
      <4>1. PICK q \in server : p = IF q.id = r.about.id THEN Questions!Stored(r, q) ELSE q
        BY <1>7, <3>1
      <4> QED
        BY <1>1, <2>2, <4>1
    <3> QED
      BY <3>1
  <2> QED
    BY <1>1, <1>5, <1>7, <2>3
<1>8. CASE /\ r.op = "delete" /\ UNCHANGED bounds
           /\ server' = {q \in server : q.id # r.about.id}
           /\ net' = (net \ {r}) \cup {[r EXCEPT !.got = Ok]}
  <2>1. server' \subseteq Questions!Question
    BY <1>1, <1>8
  <2> QED
    BY <1>1, <1>5, <1>8, <2>1
<1> QED
  BY <1>3, <1>4, <1>6, <1>7, <1>8
     DEF Questions!Serve, Questions!Refused, Questions!Twin, Questions!Saves

LEMMA QuestionsLose ==
  ASSUME QuestionsInv, NEW r \in net, Questions!Lose(r)
  PROVE  QuestionsInv'
<1>1. /\ r \in Questions!Requests /\ server \subseteq Questions!Question
      /\ bounds \in QuestionsUsed /\ UNCHANGED <<page, kept, cache, server>>
      /\ bounds.moves + bounds.failures < MaxEvents
      /\ bounds' = [bounds EXCEPT !.failures = bounds.failures + 1]
      /\ net' = (net \ {r}) \cup {[r EXCEPT !.got = Failed]}
  BY QuestionsTypes DEF QuestionsInv, Questions!Lose
<1>2. bounds' \in QuestionsUsed /\ bounds'.failures # 0
  BY <1>1, Constants DEF QuestionsUsed
<1>3. PICK q \in Questions!Requests : q = [r EXCEPT !.got = Failed]
  BY <1>1, QuestionsAnswered
<1>4. q.op = r.op /\ q.about = r.about
  BY <1>1, <1>3, QuestionsRequest
<1>5. QuestionsCurrent'
  BY <1>2 DEF QuestionsCurrent
<1> QED
  BY <1>1, <1>2, <1>3, <1>4, <1>5, QuestionsSwap

\* The answer of a request other than the list's, or a document that is not sent.
LEMMA QuestionsTake ==
  ASSUME QuestionsInv, NEW r \in net, r.op # "list", net' = net \ {r}, r.got # Ok,
         page' \in QuestionsState, UNCHANGED <<kept, cache, server, bounds>>,
         page'.uploaded = page.uploaded,
         \/ r.op \in {"create", "update"} /\ ~page'.locked
         \/ r.op = "upload"
         \/ r.op = "delete" /\ page'.locked = page.locked
  PROVE  QuestionsInv'
<1> USE DEF QuestionsInv
<1>1. Questions!TypeOK'
  BY QuestionsTypes
<1>2. ~page'.uploaded => Locks(QuestionsSaves, page.locked)'
  <2>1. CASE r.op \in {"create", "update"}
    <3>1. QuestionsSaves' = QuestionsSaves \ {r} /\ r \in QuestionsSaves
      BY <2>1 DEF QuestionsSaves
    <3> QED
      BY <2>1, <3>1, LocksRelease DEF Locks
  <2>2. CASE r.op = "upload"
    BY <2>2
  <2>3. CASE r.op = "delete" /\ page'.locked = page.locked
    <3>1. QuestionsSaves' = QuestionsSaves
      BY <2>3 DEF QuestionsSaves
    <3> QED
      BY <2>3, <3>1
  <2> QED
    BY <2>1, <2>2, <2>3
<1>3. QuestionsCurrent'
  <2>1. QuestionsUnheard => QuestionsUnheard'
    BY DEF QuestionsUnheard
  <2> QED
    BY <2>1 DEF QuestionsCurrent
<1> QED
  BY <1>1, <1>2, <1>3

\* The answer of a change that was made: the list is asked for once more.
LEMMA QuestionsRefetch ==
  ASSUME QuestionsInv, NEW r \in net, r.op # "list", net' = Questions!Refetched(net \ {r}),
         page' \in QuestionsState, kept' \in QuestionsForm, UNCHANGED <<cache, server, bounds>>,
         page'.uploaded = page.uploaded,
         \/ r.op \in {"create", "update"} /\ ~page'.locked
         \/ r.op = "delete" /\ page'.locked = page.locked
  PROVE  QuestionsInv'
<1> DEFINE q == Questions!Listing
<1>1. /\ q \in Questions!Requests /\ q.op = "list" /\ q.got = None
      /\ \A s \in net' : s \in net \/ s = q
      /\ \A s \in net : s.op # "list" /\ s # r => s \in net'
      /\ \A s \in net' : s.op = "list" => s = q
      /\ q \in net' /\ r \notin net'
  <2>1. q \in Questions!Requests /\ q.op = "list" /\ q.got = None
    BY DEF Questions!Listing, Questions!Request, Questions!Requests
  <2>2. net' = ((net \ {r}) \ {s \in net : s.op = "list"}) \cup {q}
    BY DEF Questions!Refetched, Questions!InFlight
  <2> QED
    BY <2>1, <2>2
<1> HIDE DEF q
<1> USE DEF QuestionsInv
<1>2. Questions!TypeOK'
  BY <1>1, QuestionsTypes
<1>3. ~page'.uploaded => Locks(QuestionsSaves, page.locked)'
  <2>1. CASE r.op \in {"create", "update"}
    <3>1. QuestionsSaves' = QuestionsSaves \ {r} /\ r \in QuestionsSaves
      BY <1>1, <2>1 DEF QuestionsSaves
    <3> QED
      BY <2>1, <3>1, LocksRelease DEF Locks
  <2>2. CASE r.op = "delete" /\ page'.locked = page.locked
    <3>1. QuestionsSaves' = QuestionsSaves
      BY <1>1, <2>2 DEF QuestionsSaves
    <3> QED
      BY <2>2, <3>1
  <2> QED
    BY <2>1, <2>2
<1>4. QuestionsCurrent'
  BY <1>1 DEF QuestionsCurrent
<1>5. \A s \in net' : s.op = "upload" => page'.uploaded
  BY <1>1
<1> QED
  BY <1>2, <1>3, <1>4, <1>5

LEMMA QuestionsListArrives ==
  ASSUME QuestionsInv, NEW r \in net, r.got # None, Questions!ListArrives(r),
         UNCHANGED <<server, bounds>>
  PROVE  QuestionsInv'
<1>1. /\ page \in QuestionsState /\ r \in Questions!Requests /\ r.op = "list"
      /\ net' = net \ {r} /\ UNCHANGED kept
  BY QuestionsTypes DEF QuestionsInv, Questions!ListArrives
<1>2. page' \in QuestionsState /\ page'.locked = page.locked /\ page'.uploaded = page.uploaded
  <2>1. PICK b \in BOOLEAN : b = (r.got = Failed)
    OBVIOUS
  <2>2. page' = [page EXCEPT !.broken = b]
    BY <2>1 DEF Questions!ListArrives
  <2> QED
    BY <1>1, <2>2 DEF QuestionsState
<1>3. cache' = cache \/ (cache' = r.got.list /\ r.got # Failed)
  BY DEF Questions!ListArrives
<1>4. r.got # Failed => r.got.list \subseteq Questions!Question
  BY <1>1, QuestionsRequest
<1>5. Questions!TypeOK'
  BY <1>1, <1>2, <1>3, <1>4, QuestionsTypes DEF QuestionsInv
<1>6. QuestionsSaves' = QuestionsSaves
  BY <1>1 DEF QuestionsSaves
<1>7. QuestionsCurrent'
  <2>1. QuestionsUnheard => QuestionsUnheard'
    BY <1>1 DEF QuestionsUnheard
  <2>2. ASSUME bounds.failures = 0, ~QuestionsUnheard
        PROVE  cache' = server
    <3>1. r.got = [list |-> server]
      BY <1>1, <2>2 DEF QuestionsInv, QuestionsCurrent
    <3>2. server \subseteq Questions!Question
      BY QuestionsTypes DEF QuestionsInv
    <3>3. [list |-> server] # Failed
      BY <3>2, PagesAssumption
    <3> QED
      BY <3>1, <3>3 DEF Questions!ListArrives
  <2> QED
    BY <1>1, <2>1, <2>2 DEF QuestionsInv, QuestionsCurrent
<1> QED
  BY <1>1, <1>2, <1>5, <1>6, <1>7 DEF QuestionsInv

LEMMA QuestionsArrive ==
  ASSUME QuestionsInv, NEW r \in net, Questions!Arrive(r) \/ Questions!EmptyDocument(r)
  PROVE  QuestionsInv'
<1>1. /\ page \in QuestionsState /\ kept \in QuestionsForm /\ r \in Questions!Requests
      /\ UNCHANGED <<server, bounds>>
  BY QuestionsTypes DEF QuestionsInv, Questions!Arrive, Questions!EmptyDocument
<1>2. None # Ok
  BY Constants
<1>3. Questions!EmptyForm \in QuestionsForm
  BY DEF Questions!EmptyForm, QuestionsForm, Questions!Kinds
<1>4. CASE Questions!EmptyDocument(r)
  <2>1. page' = [page EXCEPT !.locked = FALSE] /\ r.op = "upload" /\ r.got = None
    BY <1>4 DEF Questions!EmptyDocument
  <2>2. page' \in QuestionsState /\ page'.uploaded = page.uploaded
    BY <1>1, <2>1 DEF QuestionsState
  <2> QED
    BY <1>1, <1>2, <1>4, <2>1, <2>2, QuestionsTake DEF Questions!EmptyDocument
<1>5. CASE r.got # None /\ Questions!UploadArrives(r)
  <2>1. page' = [page EXCEPT !.locked = FALSE, !.processing = FALSE] /\ r.op = "upload"
    BY <1>5 DEF Questions!UploadArrives
  <2>2. page' \in QuestionsState /\ page'.uploaded = page.uploaded
    BY <1>1, <2>1 DEF QuestionsState
  <2>3. r.got # Ok
    BY <1>1, <2>1, <1>2, Constants DEF Questions!Requests
  <2> QED
    BY <1>1, <1>5, <2>1, <2>2, <2>3, QuestionsTake DEF Questions!UploadArrives
<1>6. CASE r.got # None /\ Questions!SaveArrives(r)
  <2>1. r.op \in {"create", "update"}
    BY <1>6 DEF Questions!SaveArrives, Questions!Saves
  <2>2. CASE r.got = Ok
    <3>1. PICK d \in {"none", "create", "edit", "delete"}, a \in Questions!Ids \cup {None} :
            page' = [page EXCEPT !.locked = FALSE, !.at = 1, !.about = a, !.dialog = d]
      <4> DEFINE mine == IF r.op = "create" THEN "create" ELSE "edit"
                 d    == IF page.dialog = mine THEN "none" ELSE page.dialog
                 a    == IF page.dialog = mine THEN None ELSE page.about
      <4>1. d \in {"none", "create", "edit", "delete"} /\ a \in Questions!Ids \cup {None}
        BY <1>1 DEF QuestionsState
      <4>2. page' = [page EXCEPT !.locked = FALSE, !.at = 1, !.about = a, !.dialog = d]
        BY <1>6, <2>2 DEF Questions!SaveArrives
      <4> QED
        BY <4>1, <4>2
    <3>2. page' \in QuestionsState /\ ~page'.locked /\ page'.uploaded = page.uploaded
      <4>1. page' \in QuestionsState
        <5>1. PICK n \in Nat \ {0} : n = 1
          OBVIOUS
        <5>2. page' = [page EXCEPT !.locked = FALSE, !.at = n, !.about = a, !.dialog = d]
          BY <3>1, <5>1
        <5> QED
          BY <1>1, <5>2 DEF QuestionsState
      <4>2. ~page'.locked /\ page'.uploaded = page.uploaded
        BY <1>1, <3>1 DEF QuestionsState
      <4> QED
        BY <4>1, <4>2
    <3>3. net' = Questions!Refetched(net \ {r}) /\ kept' = Questions!EmptyForm /\ UNCHANGED cache
      BY <1>6, <2>2 DEF Questions!SaveArrives
    <3> QED
      BY <1>1, <1>3, <2>1, <3>2, <3>3, QuestionsRefetch
  <2>3. CASE r.got # Ok
    <3>1. page' = [page EXCEPT !.locked = FALSE] /\ net' = net \ {r} /\ UNCHANGED <<kept, cache>>
      BY <1>6, <2>3 DEF Questions!SaveArrives
    <3>2. page' \in QuestionsState /\ ~page'.locked /\ page'.uploaded = page.uploaded
      BY <1>1, <3>1 DEF QuestionsState
    <3> QED
      BY <1>1, <2>1, <2>3, <3>1, <3>2, QuestionsTake
  <2> QED
    BY <2>2, <2>3
<1>7. CASE r.got # None /\ Questions!DeleteArrives(r)
  <2>1. PICK n \in Nat \ {0}, d \in {"none", "create", "edit", "delete"},
             a \in Questions!Ids \cup {None} :
          page' = [page EXCEPT !.at = n, !.about = a, !.dialog = d]
    <3> DEFINE n == IF r.got = Ok THEN 1 ELSE page.at
               d == IF page.dialog = "delete" THEN "none" ELSE page.dialog
               a == IF page.dialog = "delete" THEN None ELSE page.about
    <3>1. /\ n \in Nat \ {0} /\ d \in {"none", "create", "edit", "delete"}
          /\ a \in Questions!Ids \cup {None}
      BY <1>1 DEF QuestionsState
    <3>2. page' = [page EXCEPT !.at = n, !.about = a, !.dialog = d]
      BY <1>7 DEF Questions!DeleteArrives
    <3> QED
      BY <3>1, <3>2
  <2>2. /\ page' \in QuestionsState /\ page'.locked = page.locked
        /\ page'.uploaded = page.uploaded
    BY <1>1, <2>1 DEF QuestionsState
  <2>3. r.op = "delete" /\ UNCHANGED <<kept, cache>>
    BY <1>7 DEF Questions!DeleteArrives
  <2>4. CASE r.got = Ok
    <3>1. net' = Questions!Refetched(net \ {r})
      BY <1>7, <2>4 DEF Questions!DeleteArrives
    <3> QED
      BY <1>1, <2>2, <2>3, <3>1, QuestionsRefetch
  <2>5. CASE r.got # Ok
    <3>1. net' = net \ {r}
      BY <1>7, <2>5 DEF Questions!DeleteArrives
    <3> QED
      BY <1>1, <2>2, <2>3, <2>5, <3>1, QuestionsTake
  <2> QED
    BY <2>4, <2>5
<1> QED
  BY <1>1, <1>4, <1>5, <1>6, <1>7, QuestionsListArrives DEF Questions!Arrive

LEMMA QuestionsNext ==
  ASSUME QuestionsInv, Questions!Next
  PROVE  QuestionsInv'
<1>1. ASSUME NEW r \in net,
             \/ Questions!Serve(r) \/ Questions!Lose(r) \/ Questions!Arrive(r)
             \/ Questions!EmptyDocument(r)
      PROVE  QuestionsInv'
  BY <1>1, QuestionsServe, QuestionsLose, QuestionsArrive
<1> QED
  BY <1>1, QuestionsUser, QuestionsSends DEF Questions!Next

LEMMA QuestionsStays ==
  ASSUME QuestionsInv, UNCHANGED vars
  PROVE  QuestionsInv'
<1>1. page \in QuestionsState /\ kept \in QuestionsForm /\ bounds \in QuestionsUsed
  BY QuestionsTypes DEF QuestionsInv
<1> QED
  BY <1>1, QuestionsDialog DEF vars

LEMMA QuestionsPromises ==
  ASSUME QuestionsInv
  PROVE  Questions!TypeOK /\ Questions!OneSaveAtATime /\ Questions!ListIsCurrent
<1>1. \A S : Questions!Cardinality(S) = Cardinality(S)
  BY DEF Questions!Cardinality, Cardinality
<1>2. page \in QuestionsState
  BY QuestionsTypes DEF QuestionsInv
<1>3. page.locked \in BOOLEAN
  BY <1>2 DEF QuestionsState
<1>4. ~page.uploaded => Cardinality(QuestionsSaves) = IF page.locked THEN 1 ELSE 0
  BY <1>3, LocksCount DEF QuestionsInv
<1>5. Questions!OneSaveAtATime
  BY <1>1, <1>4
     DEF Questions!OneSaveAtATime, Questions!InFlight, Questions!Saves, QuestionsSaves
<1>6. Questions!ListIsCurrent
  BY DEF QuestionsInv, QuestionsCurrent, QuestionsUnheard, Questions!ListIsCurrent
<1> QED
  BY <1>5, <1>6 DEF QuestionsInv
-----------------------------------------------------------------------------
(***************************************************************************)
(* RecordPages.                                                            *)
(***************************************************************************)

FormsSaves == {r \in net : r.op = "save" /\ r.by = page.n}

\* What is on its way in a save: a name, nothing untouched but what the form was filled
\* with, and where it leads.
FormsSent(r) ==
  /\ r.to \in Forms!Views \cup {"elsewhere"}
  /\ "name" \in DOMAIN r.body => r.body.name # Blank
  /\ r.own => \A f \in DOMAIN r.body \ r.touched : r.body[f] = r.base[f]

\* A form that was filled shows the record but where it was touched, and where it looks
\* for the course or the lecturer in vain.
FormsFilled ==
  page.has # None =>
    \A f \in Forms!Fields \ kept.touched :
      \/ page.values[f] = kept.base[f]
      \/ /\ f = "link" /\ page.values.link = Blank
         /\ page.kind \in {"exam form", "course form"}

\* A view with no save on its way waits for, or shows, its record as it is.
FormsView ==
  page.kind \in Forms!Views /\ ~kept.strayed =>
    /\ \A r \in net : r.op # "save"
    /\ bounds.others = 0 =>
         /\ \A r \in net :
              r.op = "load" =>
                r.about = page.at
                /\ (r.got \notin {None, Failed} => r.got = server.content[page.at])
         /\ page.has # None => page.values = server.content[page.at]

\* The answer that there is no attempt.
FormsNothing(answer) == answer \notin {None, Failed, TRUE}

\* A student's exam is loaded, then checked.  Attempts stay, so a check that is answered
\* finds those there were when the page was opened.
FormsCheck ==
  page.kind = "exam" /\ page.role = "student" =>
    /\ \A a, b \in net : a.op # "save" /\ b.op # "save" => a = b
    /\ \A r \in net : r.op = "load" => page.has = None
    /\ \A r \in net : r.op = "check" =>
         /\ page.loading /\ page.has = r.about
         /\ FormsNothing(r.got) => r.about \notin kept.before
    /\ page.has # None /\ ~page.submitted /\ ~kept.unchecked
       /\ (\A r \in net : r.op # "check")
         => page.has \notin kept.before

FormsInv ==
  /\ Forms!TypeOK
  /\ Locks(FormsSaves, page.saving)
  /\ page.saving => page.kind \in Forms!Forms
  /\ \A r \in net : r.op = "save" => FormsSent(r)
  /\ FormsFilled
  /\ FormsView
  /\ kept.before \subseteq server.attempted
  /\ FormsCheck

FormsState ==
  [kind : Forms!Kinds, n : Nat, role : {"student", "lecturer", "admin"}, at : Records,
   loading : BOOLEAN, has : Records \cup {None}, values : Forms!Contents,
   failed : BOOLEAN, saving : BOOLEAN, submitted : BOOLEAN]

FormsRows == [content : [Records -> Forms!Contents], attempted : SUBSET Records, made : Nat]

FormsPast ==
  [base : Forms!Contents, touched : SUBSET Forms!Fields, strayed : BOOLEAN,
   before : SUBSET Records, unchecked : BOOLEAN]

FormsBounds ==
  [opens : 0 .. MaxOpens, jumps : 0 .. MaxFaults, saves : 0 .. MaxSaves,
   others : 0 .. MaxFaults, failures : 0 .. MaxFaults]

LEMMA FormsTypes ==
  /\ Forms!TypeOK <=>
       /\ page \in FormsState
       /\ net \subseteq Forms!Requests
       /\ \A r \in net : r.by <= page.n
       /\ server \in FormsRows
       /\ \A rec \in Records : server.content[rec].name # Blank
       /\ kept \in FormsPast
       /\ bounds \in FormsBounds
  /\ Forms!TypeOK' <=>
       /\ page' \in FormsState
       /\ net' \subseteq Forms!Requests
       /\ \A r \in net' : r.by <= page'.n
       /\ server' \in FormsRows
       /\ \A rec \in Records : server'.content[rec].name # Blank
       /\ kept' \in FormsPast
       /\ bounds' \in FormsBounds
  BY DEF Forms!TypeOK, FormsState, FormsRows, FormsPast, FormsBounds

\* A request, by what it is for.
LEMMA FormsRequest ==
  ASSUME NEW r \in Forms!Requests
  PROVE  /\ r = [op |-> r.op, about |-> r.about, by |-> r.by, nth |-> r.nth,
                 body |-> r.body, to |-> r.to, own |-> r.own, base |-> r.base,
                 touched |-> r.touched, got |-> r.got]
         /\ r.op \in {"load", "check", "save"} /\ r.by \in Nat /\ r.own \in BOOLEAN
         /\ r.op = "load" => r.about \in Records /\ r.got \in Forms!Contents \cup {None, Failed}
         /\ r.op = "check" => r.about \in Records /\ r.got \in BOOLEAN \cup {None, Failed}
         /\ r.op = "save" =>
              /\ r.about \in Records \cup {None} /\ r.got \in {Ok, None, Failed}
              /\ DOMAIN r.body \subseteq Forms!Fields
              /\ \A f \in DOMAIN r.body : r.body[f] \in Values \cup {Blank}
  BY DEF Forms!Requests

\* It stays one with an answer it can have, and when it is of no use any more.
LEMMA FormsAnswered ==
  ASSUME NEW r \in Forms!Requests
  PROVE  /\ \A answer :
              \/ answer = Failed
              \/ answer = Ok /\ r.op = "save"
              \/ answer \in BOOLEAN /\ r.op = "check"
              \/ answer \in Forms!Contents /\ r.op = "load"
              => [r EXCEPT !.got = answer] \in Forms!Requests
         /\ [r EXCEPT !.own = FALSE] \in Forms!Requests
  BY DEF Forms!Requests

LEMMA FormsContents ==
  /\ Forms!Empty \in Forms!Contents
  /\ {"name", "rest", "link", "status"} = Forms!Fields
  BY DEF Forms!Empty, Forms!Contents, Forms!Fields

LEMMA FormsAsk ==
  ASSUME NEW rec \in Records, NEW n \in Nat, NEW nth \in Nat, NEW op \in {"load", "check"}
  PROVE  Forms!Ask(op, rec, n, nth) \in Forms!Requests
<1>1. Forms!Empty \in Forms!Contents /\ {} \in SUBSET Forms!Fields
  BY FormsContents
<1>2. CASE op = "load"
  BY <1>1, <1>2 DEF Forms!Ask, Forms!Requests
<1>3. CASE op = "check"
  BY <1>1, <1>3 DEF Forms!Ask, Forms!Requests
<1> QED
  BY <1>2, <1>3

LEMMA FormsInit ==
  ASSUME Forms!Init
  PROVE  FormsInv
<1> USE DEF Forms!Init
<1>1. page \in FormsState /\ page.kind = "elsewhere" /\ ~page.saving /\ page.has = None
  <2>1. Forms!Empty \in Forms!Contents /\ "elsewhere" \in Forms!Kinds /\ Own \in Records
    BY FormsContents, Constants DEF Forms!Kinds
  <2>2. PICK role \in {"student", "lecturer", "admin"} :
          page = [kind |-> "elsewhere", n |-> 0, role |-> role, at |-> Own, loading |-> FALSE,
                  has |-> None, values |-> Forms!Empty, failed |-> FALSE, saving |-> FALSE,
                  submitted |-> FALSE]
    OBVIOUS
  <2>3. page \in FormsState
    BY <2>1, <2>2 DEF FormsState
  <2> QED
    BY <2>2, <2>3
<1>2. server \in FormsRows /\ \A rec \in Records : server.content[rec].name # Blank
  <2>1. server.content \in [Records -> {c \in Forms!Contents : /\ c.name # Blank /\ c.rest = c.name
                                                              /\ c.status = Blank}]
    OBVIOUS
  <2>2. server.content \in [Records -> Forms!Contents]
        /\ \A rec \in Records : server.content[rec].name # Blank
    BY <2>1
  <2> QED
    BY <2>2 DEF FormsRows
<1>3. kept \in FormsPast
  BY FormsContents DEF FormsPast
<1>4. bounds \in FormsBounds
  BY Constants DEF FormsBounds
<1>5. Forms!TypeOK
  BY <1>1, <1>2, <1>3, <1>4, FormsTypes
<1>6. FormsSaves = {}
  BY DEF FormsSaves
<1> QED
  BY <1>1, <1>5, <1>6 DEF FormsInv, Locks, FormsFilled, FormsView, FormsCheck, Forms!Views

\* A page is opened.
LEMMA FormsMount ==
  ASSUME FormsInv, NEW kind \in Forms!Kinds, NEW rec \in Records, NEW values \in Forms!Contents,
         NEW rs \in SUBSET net, Forms!Mount(kind, rec, values, rs), UNCHANGED server,
         bounds' \in FormsBounds
  PROVE  FormsInv'
<1> DEFINE saves == {r \in rs : r.op = "save"}
           q     == Forms!Ask("load", rec, page.n + 1, bounds.jumps)
<1>1. /\ page \in FormsState /\ net \subseteq Forms!Requests /\ \A r \in net : r.by <= page.n
      /\ server \in FormsRows /\ \A r \in Records : server.content[r].name # Blank
      /\ kept \in FormsPast /\ bounds \in FormsBounds
  BY FormsTypes DEF FormsInv
<1>2. page.n \in Nat /\ page.n + 1 \in Nat /\ bounds.jumps \in Nat
  BY <1>1, Constants DEF FormsState, FormsBounds
<1>3. /\ page' \in FormsState /\ page'.n = page.n + 1 /\ page'.kind = kind /\ page'.at = rec
      /\ page'.has = None /\ ~page'.saving /\ page'.role = page.role
  <2>1. PICK loading \in BOOLEAN :
          loading = (kind \notin {"new exam", "course form", "elsewhere"})
    OBVIOUS
  <2>2. page' = [page EXCEPT !.kind = kind, !.n = page.n + 1, !.at = rec, !.loading = loading,
                             !.has = None, !.values = values, !.failed = FALSE,
                             !.saving = FALSE, !.submitted = FALSE]
    BY <2>1 DEF Forms!Mount
  <2> QED
    BY <1>1, <1>2, <2>2 DEF FormsState
<1>4. /\ q \in Forms!Requests /\ q.op = "load" /\ q.by = page.n + 1 /\ q.got = None
      /\ q.about = rec
  BY <1>2, FormsAsk DEF Forms!Ask
<1>5. /\ net' = saves \cup IF kind \in {"new exam", "elsewhere"} THEN {} ELSE {q}
      /\ kept' = [kept EXCEPT !.touched = {}, !.strayed = saves # {},
                             !.before = server.attempted, !.unchecked = FALSE]
  BY DEF Forms!Mount
<1> HIDE DEF q
<1>6. \A r \in net' : r = q \/ (r \in net /\ r.op = "save")
  BY <1>5
<1>7. /\ kept' \in FormsPast /\ (kept'.strayed <=> saves # {})
      /\ kept'.before = server.attempted
  <2>1. PICK strayed \in BOOLEAN : strayed = (saves # {})
    OBVIOUS
  <2>2. kept' = [kept EXCEPT !.touched = {}, !.strayed = strayed,
                             !.before = server.attempted, !.unchecked = FALSE]
    BY <1>5, <2>1
  <2>3. server.attempted \in SUBSET Records
    BY <1>1 DEF FormsRows
  <2> QED
    BY <1>1, <2>1, <2>2, <2>3 DEF FormsPast
<1>8. Forms!TypeOK'
  <2>1. \A r \in net' : r \in Forms!Requests /\ r.by <= page'.n
    <3> SUFFICES ASSUME NEW r \in net'
                 PROVE  r \in Forms!Requests /\ r.by <= page'.n
      OBVIOUS
    <3>1. CASE r = q
      BY <1>2, <1>3, <1>4, <3>1
    <3>2. CASE r \in net
      BY <1>1, <1>2, <1>3, <3>2, FormsRequest
    <3> QED
      BY <1>6, <3>1, <3>2
  <2> QED
    BY <1>1, <1>3, <1>7, <2>1, FormsTypes
<1>9. FormsSaves' = {}
  <2>1. \A r \in net' : r.op = "save" => r.by # page.n + 1
    BY <1>1, <1>2, <1>4, <1>6, FormsRequest
  <2> QED
    BY <1>3, <2>1 DEF FormsSaves
<1>10. \A r \in net' : r.op = "save" => FormsSent(r)'
  BY <1>4, <1>6 DEF FormsInv, FormsSent
<1>11. FormsView'
  BY <1>3, <1>4, <1>5, <1>7 DEF FormsView
<1>12. FormsCheck' /\ FormsFilled'
  BY <1>3, <1>4, <1>6 DEF FormsCheck, FormsFilled
<1> QED
  BY <1>3, <1>7, <1>8, <1>9, <1>10, <1>11, <1>12 DEF FormsInv, Locks

LEMMA FormsOpen ==
  ASSUME FormsInv, Forms!Open
  PROVE  FormsInv'
<1>1. bounds \in FormsBounds /\ bounds.opens < MaxOpens
      /\ bounds' = [bounds EXCEPT !.opens = bounds.opens + 1] /\ UNCHANGED server
  BY FormsTypes DEF FormsInv, Forms!Open
<1>2. bounds' \in FormsBounds
  BY <1>1, Constants DEF FormsBounds
<1>3. \A v \in Values : [Forms!Empty EXCEPT !.link = v] \in Forms!Contents
  BY DEF Forms!Empty, Forms!Contents
<1>4. PICK kind \in Forms!Kinds, rec \in Records, values \in Forms!Contents :
        Forms!Mount(kind, rec, values, net)
  BY <1>3, FormsContents DEF Forms!Open
<1> QED
  BY <1>1, <1>2, <1>4, FormsMount

LEMMA FormsJump ==
  ASSUME FormsInv, Forms!Jump
  PROVE  FormsInv'
<1>1. /\ page \in FormsState /\ net \subseteq Forms!Requests /\ \A r \in net : r.by <= page.n
      /\ server \in FormsRows /\ \A r \in Records : server.content[r].name # Blank
      /\ kept \in FormsPast /\ bounds \in FormsBounds
  BY FormsTypes DEF FormsInv
<1>2. PICK rec \in Records :
        /\ page' = [page EXCEPT !.at = rec,
                                !.loading = page.loading \/ page.kind = "exam form",
                                !.failed = (page.failed /\ page.kind # "exam form")]
        /\ net' = IF page.kind = "exam"
                  THEN {IF r.op = "load" THEN [r EXCEPT !.own = FALSE] ELSE r : r \in net}
                  ELSE net \cup {Forms!Ask("load", rec, page.n, bounds.jumps + 1)}
  BY DEF Forms!Jump
<1>3. /\ kept' = [kept EXCEPT !.strayed = TRUE] /\ UNCHANGED server
      /\ bounds' = [bounds EXCEPT !.jumps = bounds.jumps + 1]
      /\ bounds.jumps + bounds.others + bounds.failures < MaxFaults
      /\ page.kind \in {"exam", "exam form", "course form"}
  BY DEF Forms!Jump, Forms!Faults
<1>4. bounds' \in FormsBounds
  <2>1. bounds.jumps \in Nat /\ bounds.others \in Nat /\ bounds.failures \in Nat
    BY <1>1, Constants DEF FormsBounds
  <2>2. bounds.jumps + 1 \in 0 .. MaxFaults
    <3>1. bounds.jumps + bounds.others + bounds.failures < MaxFaults /\ MaxFaults \in Nat
      BY <1>3, Constants
    <3>2. \A i, j, k, m \in Nat : i + j + k < m => i + 1 \in 0 .. m
      OBVIOUS
    <3> QED
      BY <2>1, <3>1, <3>2
  <2> QED
    BY <1>1, <1>3, <2>2 DEF FormsBounds
<1>5. /\ kept' \in FormsPast /\ kept'.strayed /\ kept'.touched = kept.touched
      /\ kept'.base = kept.base /\ kept'.before = kept.before
      /\ kept'.unchecked = kept.unchecked
  BY <1>1, <1>3 DEF FormsPast
<1>6. /\ page' \in FormsState /\ page'.kind = page.kind /\ page'.n = page.n
      /\ page'.has = page.has /\ page'.values = page.values /\ page'.saving = page.saving
      /\ page'.role = page.role /\ page'.submitted = page.submitted
      /\ page.kind = "exam" => page'.loading = page.loading
  <2>1. PICK loading \in BOOLEAN, failed \in BOOLEAN :
          /\ loading = (page.loading \/ page.kind = "exam form")
          /\ failed = (page.failed /\ page.kind # "exam form")
    OBVIOUS
  <2>2. page' = [page EXCEPT !.at = rec, !.loading = loading, !.failed = failed]
    BY <1>2, <2>1
  <2>3. page.kind = "exam" => loading = page.loading
    BY <1>1, <2>1 DEF FormsState
  <2> QED
    BY <1>1, <2>2, <2>3 DEF FormsState
<1>7. FormsView'
  BY <1>5 DEF FormsView
<1>8. FormsFilled'
  BY <1>5, <1>6 DEF FormsInv, FormsFilled
<1>9. CASE page.kind = "exam"
  <2>1. \A r \in net : r \in Forms!Requests
    BY <1>1
  <2>2. \A s \in net' : \E r \in net : s = IF r.op = "load" THEN [r EXCEPT !.own = FALSE] ELSE r
    BY <1>2, <1>9
  <2>3. \A s \in net' :
          /\ s \in Forms!Requests /\ s.by <= page.n
          /\ s.op # "load" => s \in net
          /\ s.op = "load" => \E r \in net : r.op = "load" /\ s = [r EXCEPT !.own = FALSE]
    <3> SUFFICES ASSUME NEW r \in net,
                        NEW s, s = IF r.op = "load" THEN [r EXCEPT !.own = FALSE] ELSE r
                 PROVE  /\ s \in Forms!Requests /\ s.by = r.by /\ s.op = r.op
                        /\ s.op # "load" => s = r
                        /\ s.op = "load" => s = [r EXCEPT !.own = FALSE]
      BY <1>1, <2>2
    <3>1. CASE r.op = "load"
      <4>1. [r EXCEPT !.own = FALSE].by = r.by /\ [r EXCEPT !.own = FALSE].op = r.op
        BY <2>1, FormsRequest
      <4> QED
        BY <2>1, <3>1, <4>1, FormsAnswered
    <3>2. CASE r.op # "load"
      BY <2>1, <3>2
    <3> QED
      BY <3>1, <3>2
  <2>4. \A r \in net : r.op # "load" => r \in net'
    BY <1>2, <1>9
  <2>5. Forms!TypeOK'
    BY <1>1, <1>3, <1>4, <1>5, <1>6, <2>3, FormsTypes
  <2>6. FormsSaves' = FormsSaves
    BY <1>6, <2>3, <2>4 DEF FormsSaves
  <2>7. FormsCheck'
    <3>1. ASSUME page.role = "student", NEW a \in net', NEW b \in net', a.op # "save", b.op # "save"
          PROVE  a = b
      <4>1. PICK c \in net : a = IF c.op = "load" THEN [c EXCEPT !.own = FALSE] ELSE c
        BY <2>2
      <4>2. PICK d \in net : b = IF d.op = "load" THEN [d EXCEPT !.own = FALSE] ELSE d
        BY <2>2
      <4>3. c.op # "save" /\ d.op # "save"
        BY <3>1, <4>1, <4>2
      <4>4. c = d
        BY <1>9, <3>1, <4>3 DEF FormsInv, FormsCheck
      <4> QED
        BY <4>1, <4>2, <4>4
    <3>2. \A s \in net' : s.op = "load" => \E r \in net : r.op = "load"
      BY <2>3
    <3>3. \A s : s.op = "check" => (s \in net' <=> s \in net)
      BY <2>3, <2>4
    <3> QED
      BY <1>5, <1>6, <1>9, <3>1, <3>2, <3>3 DEF FormsInv, FormsCheck
  <2> QED
    BY <1>3, <1>5, <1>6, <1>7, <1>8, <2>3, <2>5, <2>6, <2>7 DEF FormsInv, FormsSent
<1>10. CASE page.kind # "exam"
  <2> DEFINE q == Forms!Ask("load", rec, page.n, bounds.jumps + 1)
  <2>1. net' = net \cup {q}
    BY <1>2, <1>10
  <2>2. page.n \in Nat /\ bounds.jumps + 1 \in Nat
    BY <1>1, Constants DEF FormsState, FormsBounds
  <2>3. q \in Forms!Requests /\ q.op = "load" /\ q.by = page.n
    BY <2>2, FormsAsk DEF Forms!Ask
  <2> HIDE DEF q
  <2>4. Forms!TypeOK'
    <3>1. \A r \in net' : r \in Forms!Requests /\ r.by <= page'.n
      BY <1>1, <1>6, <2>1, <2>2, <2>3
    <3> QED
      BY <1>1, <1>3, <1>4, <1>5, <1>6, <3>1, FormsTypes
  <2>5. FormsSaves' = FormsSaves
    BY <1>6, <2>1, <2>3 DEF FormsSaves
  <2>6. FormsCheck'
    BY <1>6, <1>10 DEF FormsCheck
  <2> QED
    BY <1>3, <1>5, <1>6, <1>7, <1>8, <2>1, <2>3, <2>4, <2>5, <2>6 DEF FormsInv, FormsSent
<1> QED
  BY <1>9, <1>10

\* A request is replaced by itself with its answer.
LEMMA FormsSwap ==
  ASSUME FormsInv, NEW r \in net, NEW q \in Forms!Requests,
         q.op = r.op, q.about = r.about, q.by = r.by, q.body = r.body, q.to = r.to,
         q.own = r.own, q.base = r.base, q.touched = r.touched,
         net' = (net \ {r}) \cup {q}, UNCHANGED <<page, kept>>,
         server' \in FormsRows, \A rec \in Records : server'.content[rec].name # Blank,
         server'.attempted = server.attempted, bounds' \in FormsBounds,
         bounds'.others = bounds.others, r.op = "save" \/ UNCHANGED server,
         r.op = "load" /\ q.got \notin {None, Failed} => q.got = server.content[r.about],
         r.op = "check" /\ FormsNothing(q.got) => r.about \notin kept.before
  PROVE  FormsInv'
<1>1. /\ page \in FormsState /\ net \subseteq Forms!Requests /\ \A s \in net : s.by <= page.n
      /\ kept \in FormsPast /\ r \in Forms!Requests
  BY FormsTypes DEF FormsInv
<1> USE DEF FormsInv
<1>4. Forms!TypeOK'
  BY <1>1, FormsTypes
<1>5. Locks(FormsSaves, page.saving)'
  <2>1. CASE r \in FormsSaves
    <3>1. FormsSaves' = (FormsSaves \ {r}) \cup {q}
      BY <2>1 DEF FormsSaves
    <3> QED
      BY <2>1, <3>1, LocksSwap
  <2>2. CASE r \notin FormsSaves
    <3>1. FormsSaves' = FormsSaves
      BY <2>2 DEF FormsSaves
    <3> QED
      BY <3>1
  <2> QED
    BY <2>1, <2>2
<1>6. \A s \in net' : s.op = "save" => FormsSent(s)'
  <2>1. FormsSent(r) => FormsSent(q)'
    BY DEF FormsSent
  <2>2. \A s : FormsSent(s)' <=> FormsSent(s)
    BY DEF FormsSent
  <2> QED
    BY <2>1, <2>2
<1>7. FormsFilled'
  BY DEF FormsFilled
<1>8. FormsView'
  <2>1. ASSUME \A s \in net : s.op # "save"
        PROVE  (\A s \in net' : s.op # "save") /\ UNCHANGED server
    BY <2>1
  <2> QED
    BY <2>1 DEF FormsView
<1>9. FormsCheck'
  <2>1. ASSUME \A a, b \in net : a.op # "save" /\ b.op # "save" => a = b
        PROVE  \A a, b \in net' : a.op # "save" /\ b.op # "save" => a = b
    BY <2>1
  <2>2. (\A s \in net' : s.op # "check") => \A s \in net : s.op # "check"
    OBVIOUS
  <2> QED
    BY <2>1, <2>2 DEF FormsCheck
<1> QED
  BY <1>4, <1>5, <1>6, <1>7, <1>8, <1>9

LEMMA FormsAnswer ==
  ASSUME FormsInv, NEW r \in net, NEW answer,
         [r EXCEPT !.got = answer] \in Forms!Requests,
         net' = (net \ {r}) \cup {[r EXCEPT !.got = answer]}, UNCHANGED <<page, kept>>,
         server' \in FormsRows, \A rec \in Records : server'.content[rec].name # Blank,
         server'.attempted = server.attempted, bounds' \in FormsBounds,
         bounds'.others = bounds.others, r.op = "save" \/ UNCHANGED server,
         r.op = "load" /\ answer \notin {None, Failed} => answer = server.content[r.about],
         r.op = "check" /\ FormsNothing(answer) => r.about \notin kept.before
  PROVE  FormsInv'
<1>1. PICK q \in Forms!Requests : q = [r EXCEPT !.got = answer]
  OBVIOUS
<1>2. r \in Forms!Requests
  BY FormsTypes DEF FormsInv
<1>3. /\ q.op = r.op /\ q.about = r.about /\ q.by = r.by /\ q.body = r.body /\ q.to = r.to
      /\ q.own = r.own /\ q.base = r.base /\ q.touched = r.touched /\ q.got = answer
  BY <1>1, <1>2, FormsRequest
<1>4. net' = (net \ {r}) \cup {q}
  BY <1>1
<1> QED
  BY <1>3, <1>4, FormsSwap

LEMMA FormsServe ==
  ASSUME FormsInv, NEW r \in net, Forms!Serve(r)
  PROVE  FormsInv' /\ Forms!UntouchedStays
<1>1. /\ page \in FormsState /\ r \in Forms!Requests /\ server \in FormsRows
      /\ \A rec \in Records : server.content[rec].name # Blank
      /\ kept \in FormsPast /\ bounds \in FormsBounds /\ UNCHANGED <<page, kept, bounds>>
      /\ r.got = None
  BY FormsTypes DEF FormsInv, Forms!Serve
<1>2. CASE r.op = "load"
  <2>1. /\ net' = (net \ {r}) \cup {[r EXCEPT !.got = server.content[r.about]]}
        /\ UNCHANGED server
    BY <1>2 DEF Forms!Serve
  <2>2. server.content[r.about] \in Forms!Contents
    BY <1>1, <1>2, FormsRequest DEF FormsRows
  <2>3. PICK answer \in Forms!Contents : answer = server.content[r.about]
    BY <2>2
  <2>4. [r EXCEPT !.got = answer] \in Forms!Requests
    BY <1>1, <1>2, FormsAnswered
  <2> QED
    BY <1>1, <1>2, <2>1, <2>3, <2>4, FormsAnswer DEF Forms!UntouchedStays
<1>3. CASE r.op = "check"
  <2>1. PICK answer \in BOOLEAN : answer = (r.about \in server.attempted)
    <3>1. (r.about \in server.attempted) \in BOOLEAN
      OBVIOUS
    <3> QED
      BY <3>1, Zenon
  <2>2. /\ net' = (net \ {r}) \cup {[r EXCEPT !.got = answer]}
        /\ UNCHANGED server
    BY <1>3, <2>1 DEF Forms!Serve
  <2>3. [r EXCEPT !.got = answer] \in Forms!Requests
    BY <1>1, <1>3, FormsAnswered
  <2>4. FormsNothing(answer) => r.about \notin kept.before
    BY <2>1 DEF FormsInv, FormsNothing
  <2> QED
    BY <1>1, <1>3, <2>2, <2>3, <2>4, FormsAnswer DEF Forms!UntouchedStays
<1>4. CASE r.op = "save"
  <2>1. net' = (net \ {r}) \cup {[r EXCEPT !.got = Ok]}
    BY <1>4 DEF Forms!Serve
  <2>2. [r EXCEPT !.got = Ok] \in Forms!Requests
    BY <1>1, <1>4, FormsAnswered
  <2>3. ASSUME server' \in FormsRows, \A rec \in Records : server'.content[rec].name # Blank,
               server'.attempted = server.attempted
        PROVE  FormsInv'
    BY <1>1, <1>4, <2>1, <2>2, <2>3, FormsAnswer
  <2>4. CASE r.about = None
    <3>1. server' = [server EXCEPT !.made = server.made + 1]
      BY <1>4, <2>4 DEF Forms!Serve
    <3>2. /\ server' \in FormsRows /\ server'.content = server.content
          /\ server'.attempted = server.attempted
      BY <1>1, <3>1 DEF FormsRows
    <3> QED
      BY <1>1, <2>3, <3>2 DEF Forms!UntouchedStays
  <2>5. CASE r.about # None
    <3> DEFINE old == server.content[r.about]
    <3>0. PICK status \in Values \cup {Blank} :
            server' = [server EXCEPT !.content[r.about] = Forms!Written(r, status)]
      BY <1>4, <2>5 DEF Forms!Serve
    <3> DEFINE new == [f \in Forms!Fields |->
                         IF f \in DOMAIN r.body THEN r.body[f]
                         ELSE IF f = "status" /\ r.to = "exam" THEN status ELSE old[f]]
    <3>1. server' = [server EXCEPT !.content[r.about] = new]
      BY <3>0 DEF Forms!Written
    <3>2. r.about \in Records /\ DOMAIN r.body \subseteq Forms!Fields
          /\ \A f \in DOMAIN r.body : r.body[f] \in Values \cup {Blank}
      BY <1>1, <1>4, <2>5, FormsRequest
    <3>3. old \in Forms!Contents /\ old.name # Blank
      BY <1>1, <3>2 DEF FormsRows
    <3>4. new \in Forms!Contents
      BY <3>2, <3>3 DEF Forms!Contents
    <3>5. FormsSent(r)
      BY <1>4 DEF FormsInv
    <3>6. new.name # Blank
      BY <3>3, <3>5, FormsContents DEF FormsSent
    <3> HIDE DEF new
    <3>7. /\ server' \in FormsRows /\ server'.attempted = server.attempted
          /\ \A rec \in Records :
               server'.content[rec] = IF rec = r.about THEN new ELSE server.content[rec]
      BY <1>1, <3>1, <3>2, <3>4 DEF FormsRows
    <3>8. \A rec \in Records : server'.content[rec].name # Blank
      BY <1>1, <3>6, <3>7
    <3>9. Forms!UntouchedStays
      <4> SUFFICES ASSUME NEW rec \in Records, NEW f \in Forms!Fields \ {"status"},
                          server'.content[rec][f] # server.content[rec][f]
                   PROVE  \/ f \in r.touched \/ ~r.own \/ server.content[rec][f] # r.base[f]
                   /\ r.about = rec
        BY <1>1, <1>4 DEF Forms!UntouchedStays
      <4>1. rec = r.about /\ new[f] # old[f]
        BY <3>7
      <4>2. f \in DOMAIN r.body /\ new[f] = r.body[f]
        BY <4>1 DEF new
      <4> QED
        BY <3>5, <4>1, <4>2 DEF FormsSent
    <3> QED
      BY <2>3, <3>7, <3>8, <3>9
  <2> QED
    BY <2>4, <2>5
<1> QED
  BY <1>1, <1>2, <1>3, <1>4, FormsRequest

LEMMA FormsLose ==
  ASSUME FormsInv, NEW r \in net, Forms!Lose(r)
  PROVE  FormsInv' /\ Forms!UntouchedStays
<1>1. /\ r \in Forms!Requests /\ server \in FormsRows /\ bounds \in FormsBounds
      /\ \A rec \in Records : server.content[rec].name # Blank
      /\ UNCHANGED <<page, server, kept>> /\ Forms!Faults < MaxFaults
      /\ bounds' = [bounds EXCEPT !.failures = bounds.failures + 1]
      /\ net' = (net \ {r}) \cup {[r EXCEPT !.got = Failed]}
  BY FormsTypes DEF FormsInv, Forms!Lose
<1>2. /\ bounds' \in FormsBounds /\ bounds'.failures # 0 /\ bounds'.others = bounds.others
  <2>1. bounds.jumps \in Nat /\ bounds.others \in Nat /\ bounds.failures \in Nat
    BY <1>1, Constants DEF FormsBounds
  <2>2. bounds.jumps + bounds.others + bounds.failures < MaxFaults /\ MaxFaults \in Nat
    BY <1>1, Constants DEF Forms!Faults
  <2>3. \A i, j, k, m \in Nat : i + j + k < m => k + 1 \in 0 .. m /\ k + 1 # 0
    OBVIOUS
  <2>4. bounds.failures + 1 \in 0 .. MaxFaults /\ bounds.failures + 1 # 0
    BY <2>1, <2>2, <2>3
  <2> QED
    BY <1>1, <2>4 DEF FormsBounds
<1>3. [r EXCEPT !.got = Failed] \in Forms!Requests
  BY <1>1, FormsAnswered
<1> QED
  BY <1>1, <1>2, <1>3, FormsAnswer DEF FormsNothing, Forms!UntouchedStays

LEMMA FormsOther ==
  ASSUME FormsInv, Forms!Other
  PROVE  FormsInv' /\ Forms!UntouchedStays
<1>1. /\ page \in FormsState /\ net \subseteq Forms!Requests /\ \A r \in net : r.by <= page.n
      /\ server \in FormsRows /\ \A rec \in Records : server.content[rec].name # Blank
      /\ kept \in FormsPast /\ bounds \in FormsBounds
  BY FormsTypes DEF FormsInv
<1>2. /\ UNCHANGED <<page, net, kept>> /\ Forms!Faults < MaxFaults
      /\ bounds' = [bounds EXCEPT !.others = bounds.others + 1]
  BY DEF Forms!Other
<1>3. PICK rec \in Records, f \in Forms!Fields, v \in Values :
        server' = [server EXCEPT !.content[rec][f] = v]
  BY DEF Forms!Other
<1>4. bounds' \in FormsBounds /\ bounds'.others # 0 /\ bounds'.others # bounds.others
  <2>1. bounds.jumps \in Nat /\ bounds.others \in Nat /\ bounds.failures \in Nat
    BY <1>1, Constants DEF FormsBounds
  <2>2. bounds.jumps + bounds.others + bounds.failures < MaxFaults /\ MaxFaults \in Nat
    BY <1>2, Constants DEF Forms!Faults
  <2>3. \A i, j, k, m \in Nat : i + j + k < m => j + 1 \in 0 .. m /\ j + 1 # 0 /\ j + 1 # j
    OBVIOUS
  <2>4. /\ bounds.others + 1 \in 0 .. MaxFaults /\ bounds.others + 1 # 0
        /\ bounds.others + 1 # bounds.others
    BY <2>1, <2>2, <2>3
  <2> QED
    BY <1>1, <1>2, <2>4 DEF FormsBounds
<1>5. /\ server' \in FormsRows /\ server'.attempted = server.attempted
      /\ \A a \in Records : server'.content[a].name # Blank
  <2> DEFINE new == [server.content[rec] EXCEPT ![f] = v]
  <2>1. server.content[rec] \in Forms!Contents /\ v # Blank
    BY <1>1, PagesAssumption DEF FormsRows
  <2>2. new \in Forms!Contents /\ new.name # Blank
    BY <1>1, <2>1 DEF Forms!Contents
  <2>3. server' = [server EXCEPT !.content[rec] = new]
    BY <1>3
  <2> HIDE DEF new
  <2>4. /\ server' \in FormsRows /\ server'.attempted = server.attempted
        /\ \A a \in Records : server'.content[a] = IF a = rec THEN new ELSE server.content[a]
    BY <1>1, <2>2, <2>3 DEF FormsRows
  <2> QED
    BY <1>1, <2>2, <2>4
<1>6. Forms!TypeOK'
  BY <1>1, <1>2, <1>4, <1>5, FormsTypes
<1>7. FormsSaves' = FormsSaves /\ FormsFilled' /\ \A r \in net' : r.op = "save" => FormsSent(r)'
  BY <1>2 DEF FormsInv, FormsSaves, FormsFilled, FormsSent
<1>8. FormsView'
  BY <1>2, <1>4 DEF FormsInv, FormsView
<1>9. FormsCheck'
  BY <1>2 DEF FormsInv, FormsCheck
<1> QED
  BY <1>2, <1>4, <1>5, <1>6, <1>7, <1>8, <1>9 DEF FormsInv, Forms!UntouchedStays

LEMMA FormsAttempt ==
  ASSUME FormsInv, Forms!Attempt
  PROVE  FormsInv' /\ Forms!UntouchedStays
<1>1. /\ page \in FormsState /\ net \subseteq Forms!Requests /\ \A r \in net : r.by <= page.n
      /\ server \in FormsRows /\ \A rec \in Records : server.content[rec].name # Blank
      /\ kept \in FormsPast /\ bounds \in FormsBounds
  BY FormsTypes DEF FormsInv
<1>2. /\ UNCHANGED <<page, net, kept>> /\ Forms!Faults < MaxFaults
      /\ bounds' = [bounds EXCEPT !.others = bounds.others + 1]
  BY DEF Forms!Attempt
<1>3. PICK rec \in Records :
        server' = [server EXCEPT !.attempted = server.attempted \cup {rec}]
  BY DEF Forms!Attempt
<1>4. bounds' \in FormsBounds /\ bounds'.others # 0
  <2>1. bounds.jumps \in Nat /\ bounds.others \in Nat /\ bounds.failures \in Nat
    BY <1>1, Constants DEF FormsBounds
  <2>2. bounds.jumps + bounds.others + bounds.failures < MaxFaults /\ MaxFaults \in Nat
    BY <1>2, Constants DEF Forms!Faults
  <2>3. \A i, j, k, m \in Nat : i + j + k < m => j + 1 \in 0 .. m /\ j + 1 # 0
    OBVIOUS
  <2>4. bounds.others + 1 \in 0 .. MaxFaults /\ bounds.others + 1 # 0
    BY <2>1, <2>2, <2>3
  <2> QED
    BY <1>1, <1>2, <2>4 DEF FormsBounds
<1>5. /\ server' \in FormsRows /\ server'.content = server.content
      /\ server.attempted \subseteq server'.attempted
  BY <1>1, <1>3 DEF FormsRows
<1>6. Forms!TypeOK'
  BY <1>1, <1>2, <1>4, <1>5, FormsTypes
<1>7. FormsSaves' = FormsSaves /\ FormsFilled' /\ \A r \in net' : r.op = "save" => FormsSent(r)'
  BY <1>2 DEF FormsInv, FormsSaves, FormsFilled, FormsSent
<1>8. FormsView' /\ FormsCheck'
  BY <1>2, <1>4 DEF FormsInv, FormsView, FormsCheck
<1>9. Forms!UntouchedStays
  BY <1>5 DEF Forms!UntouchedStays
<1> QED
  BY <1>2, <1>5, <1>6, <1>7, <1>8, <1>9 DEF FormsInv

LEMMA FormsEdit ==
  ASSUME FormsInv, Forms!Edit
  PROVE  FormsInv'
<1>1. /\ page \in FormsState /\ net \subseteq Forms!Requests /\ \A r \in net : r.by <= page.n
      /\ server \in FormsRows /\ \A rec \in Records : server.content[rec].name # Blank
      /\ kept \in FormsPast /\ bounds \in FormsBounds
  BY FormsTypes DEF FormsInv
<1>2. PICK f \in {"name", "rest", "link"} \ kept.touched, v \in Values \cup {Blank} :
        /\ page' = [page EXCEPT !.values[f] = v,
                                !.failed = page.failed /\ page.kind = "institution form"]
        /\ kept' = [kept EXCEPT !.touched = kept.touched \cup {f}]
  BY DEF Forms!Edit
<1>10. f \in Forms!Fields
  BY FormsContents
<1>3. page.kind \notin Forms!Views /\ UNCHANGED <<net, server, bounds>>
  BY DEF Forms!Edit, Forms!FormShown, Forms!Views
<1>4. /\ page' \in FormsState /\ page'.kind = page.kind /\ page'.n = page.n
      /\ page'.has = page.has /\ page'.saving = page.saving
      /\ \A g \in Forms!Fields : g # f => page'.values[g] = page.values[g]
  <2> DEFINE values == [page.values EXCEPT ![f] = v]
  <2>1. PICK failed \in BOOLEAN : failed = (page.failed /\ page.kind = "institution form")
    <3>1. (page.failed /\ page.kind = "institution form") \in BOOLEAN
      OBVIOUS
    <3> QED
      BY <3>1, Zenon
  <2>2. page' = [page EXCEPT !.values = values, !.failed = failed]
    BY <1>2, <2>1
  <2>3. page.values \in Forms!Contents
    BY <1>1 DEF FormsState
  <2>4. /\ values \in Forms!Contents
        /\ \A g \in Forms!Fields : g # f => values[g] = page.values[g]
    BY <1>10, <2>3 DEF Forms!Contents
  <2> HIDE DEF values
  <2>5. page' \in FormsState /\ page'.values = values
    BY <1>1, <2>2, <2>4 DEF FormsState
  <2>6. /\ page'.kind = page.kind /\ page'.n = page.n /\ page'.has = page.has
        /\ page'.saving = page.saving
    BY <1>1, <2>2 DEF FormsState
  <2> QED
    BY <2>4, <2>5, <2>6
<1>5. /\ kept' \in FormsPast /\ kept'.touched = kept.touched \cup {f}
      /\ kept'.base = kept.base /\ kept'.before = kept.before
  BY <1>1, <1>2, <1>10 DEF FormsPast
<1>6. Forms!TypeOK'
  BY <1>1, <1>3, <1>4, <1>5, FormsTypes
<1>7. FormsSaves' = FormsSaves
  BY <1>3, <1>4 DEF FormsSaves
<1>8. FormsFilled'
  <2>1. "link" \in Forms!Fields
    BY FormsContents
  <2>2. ASSUME page.has # None, NEW g \in Forms!Fields \ kept'.touched
        PROVE  \/ page'.values[g] = kept'.base[g]
               \/ /\ g = "link" /\ page'.values.link = Blank
                  /\ page'.kind \in {"exam form", "course form"}
    <3>1. g # f /\ g \in Forms!Fields \ kept.touched
      BY <1>5, <2>2
    <3>2. page'.values[g] = page.values[g] /\ (g = "link" => page'.values.link = page.values.link)
      BY <1>4, <2>1, <3>1
    <3> QED
      BY <1>4, <1>5, <2>2, <3>1, <3>2 DEF FormsInv, FormsFilled
  <2> QED
    BY <1>4, <2>2 DEF FormsFilled
<1>9. FormsView' /\ FormsCheck'
  BY <1>3, <1>4 DEF FormsView, FormsCheck, Forms!Views
<1> QED
  BY <1>3, <1>4, <1>5, <1>6, <1>7, <1>8, <1>9 DEF FormsInv, FormsSent

LEMMA FormsSubmit ==
  ASSUME FormsInv, Forms!Submit
  PROVE  FormsInv'
<1>1. /\ page \in FormsState /\ net \subseteq Forms!Requests /\ \A r \in net : r.by <= page.n
      /\ server \in FormsRows /\ \A rec \in Records : server.content[rec].name # Blank
      /\ kept \in FormsPast /\ bounds \in FormsBounds
  BY FormsTypes DEF FormsInv
<1>2. /\ ~page.saving /\ bounds.saves < MaxSaves
      /\ bounds' = [bounds EXCEPT !.saves = bounds.saves + 1]
      /\ page' = [page EXCEPT !.saving = TRUE, !.failed = FALSE]
      /\ UNCHANGED <<server, kept>>
  BY DEF Forms!Submit, Forms!Submits
<1>3. page.kind \in Forms!Forms /\ page.kind \notin Forms!Views
  BY DEF Forms!Submit, Forms!Submits, Forms!FormShown, Forms!Forms, Forms!Views
<1>4. page.values.name # Blank
  <2>1. "name" \in Forms!Required
    BY DEF Forms!Required, Forms!Fields
  <2> QED
    BY <2>1 DEF Forms!Submit, Forms!Submits
<1>5. /\ page' \in FormsState /\ page'.saving /\ page'.kind = page.kind /\ page'.n = page.n
      /\ page'.has = page.has /\ page'.values = page.values
  BY <1>1, <1>2 DEF FormsState
<1>6. bounds' \in FormsBounds
  BY <1>1, <1>2, Constants DEF FormsBounds
<1>7. PICK about \in Records \cup {None}, own \in BOOLEAN, to \in Forms!Views \cup {"elsewhere"} :
        /\ about = IF page.kind = "new exam" THEN None ELSE page.at
        /\ own = (page.has = page.at)
        /\ to = Forms!Target
  <2>1. (IF page.kind = "new exam" THEN None ELSE page.at) \in Records \cup {None}
    BY <1>1 DEF FormsState
  <2>2. (page.has = page.at) \in BOOLEAN
    OBVIOUS
  <2>3. Forms!Target \in Forms!Views \cup {"elsewhere"}
    BY DEF Forms!Target, Forms!Views
  <2> QED
    BY <2>1, <2>2, <2>3, Zenon
<1> DEFINE body == [f \in Forms!Sent |-> page.values[f]]
           q    == [op |-> "save", about |-> about, by |-> page.n, nth |-> bounds.saves,
                    body |-> body, to |-> to, own |-> own, base |-> kept.base,
                    touched |-> kept.touched, got |-> None]
<1>8. net' = net \cup {q}
  BY <1>7 DEF Forms!Submit
<1>9. Forms!Sent \in SUBSET Forms!Fields
  BY DEF Forms!Sent, Forms!Fields
<1>10. page.values \in [Forms!Fields -> Values \cup {Blank}]
  BY <1>1 DEF FormsState, Forms!Contents
<1>11. /\ body \in [Forms!Sent -> Values \cup {Blank}]
       /\ DOMAIN body = Forms!Sent /\ \A f \in Forms!Sent : body[f] = page.values[f]
  BY <1>9, <1>10
<1> HIDE DEF body
<1>12. q \in Forms!Requests
  <2>1. body \in UNION {[F -> Values \cup {Blank}] : F \in SUBSET Forms!Fields}
    BY <1>9, <1>11
  <2>2. /\ page.n \in Nat /\ bounds.saves \in Nat /\ kept.base \in Forms!Contents
        /\ kept.touched \in SUBSET Forms!Fields
    BY <1>1, Constants DEF FormsState, FormsBounds, FormsPast
  <2>3. q \in [op : {"save"}, about : Records \cup {None}, by : Nat, nth : Nat,
               body : UNION {[F -> Values \cup {Blank}] : F \in SUBSET Forms!Fields},
               to : Forms!Views \cup {"elsewhere", None}, own : BOOLEAN, base : Forms!Contents,
               touched : SUBSET Forms!Fields, got : {Ok} \cup {None, Failed}]
    BY <2>1, <2>2
  <2> QED
    BY <2>3 DEF Forms!Requests
<1>13. /\ q.op = "save" /\ q.by = page.n /\ q.to = to /\ q.own = own /\ q.body = body
       /\ q.base = kept.base /\ q.touched = kept.touched
  OBVIOUS
<1> HIDE DEF q
<1>14. FormsSent(q)
  <2>1. "name" \in DOMAIN body => body.name # Blank
    BY <1>4, <1>11
  <2>2. ASSUME own, NEW f \in Forms!Sent \ kept.touched
        PROVE  body[f] = kept.base[f]
    <3>1. page.has # None /\ f \in Forms!Fields
      <4>1. page.at \in Records /\ page.has = page.at
        BY <1>1, <1>7, <2>2 DEF FormsState
      <4> QED
        BY <1>9, <2>2, <4>1, Constants
    <3>2. \/ page.values[f] = kept.base[f]
          \/ /\ f = "link" /\ page.values.link = Blank
             /\ page.kind \in {"exam form", "course form"}
      BY <2>2, <3>1 DEF FormsInv, FormsFilled
    <3>3. page.kind \in {"exam form", "course form"} /\ page.values.link = Blank
            => "link" \notin Forms!Sent
      BY DEF Forms!Sent
    <3> QED
      BY <1>11, <2>2, <3>2, <3>3
  <2> QED
    BY <1>11, <1>13, <2>1, <2>2 DEF FormsSent
<1>15. Forms!TypeOK'
  <2>1. page.n \in Nat
    BY <1>1 DEF FormsState
  <2>2. \A r \in net' : r \in Forms!Requests /\ r.by <= page'.n
    BY <1>1, <1>5, <1>8, <1>12, <1>13, <2>1
  <2> QED
    BY <1>1, <1>2, <1>5, <1>6, <2>2, FormsTypes
<1>16. Locks(FormsSaves, page.saving)'
  <2>1. FormsSaves' = FormsSaves \cup {q}
    BY <1>5, <1>8, <1>13 DEF FormsSaves
  <2> QED
    BY <1>2, <1>5, <2>1, LocksTake DEF FormsInv, Locks
<1>17. \A r \in net' : r.op = "save" => FormsSent(r)'
  BY <1>8, <1>14 DEF FormsInv, FormsSent
<1>18. FormsFilled'
  BY <1>2, <1>5 DEF FormsInv, FormsFilled
<1>19. FormsView' /\ FormsCheck'
  BY <1>3, <1>5 DEF FormsView, FormsCheck, Forms!Views
<1> QED
  BY <1>2, <1>3, <1>5, <1>15, <1>16, <1>17, <1>18, <1>19 DEF FormsInv

LEMMA FormsLoadArrives ==
  ASSUME FormsInv, NEW r \in net, r.got # None, Forms!LoadArrives(r), UNCHANGED <<server, bounds>>
  PROVE  FormsInv'
<1>1. /\ page \in FormsState /\ net \subseteq Forms!Requests /\ \A s \in net : s.by <= page.n
      /\ server \in FormsRows /\ \A rec \in Records : server.content[rec].name # Blank
      /\ kept \in FormsPast /\ bounds \in FormsBounds /\ r.op = "load"
  BY FormsTypes DEF FormsInv, Forms!LoadArrives
<1>2. r.about \in Records /\ r.got \in Forms!Contents \cup {Failed}
  BY <1>1, FormsRequest
<1>3. CASE r.got = Failed \/ ~r.own
  <2>1. /\ page' = [page EXCEPT !.loading = FALSE, !.failed = TRUE]
        /\ net' = net \ {r} /\ UNCHANGED kept
    BY <1>3 DEF Forms!LoadArrives
  <2>2. /\ page' \in FormsState /\ page'.n = page.n /\ page'.kind = page.kind
        /\ page'.at = page.at /\ page'.has = page.has /\ page'.values = page.values
        /\ page'.saving = page.saving /\ page'.role = page.role
        /\ page'.submitted = page.submitted
    BY <1>1, <2>1 DEF FormsState
  <2>3. Forms!TypeOK'
    BY <1>1, <2>1, <2>2, FormsTypes
  <2>4. FormsSaves' = FormsSaves /\ FormsFilled' /\ \A s \in net' : s.op = "save" => FormsSent(s)'
    BY <1>1, <2>1, <2>2 DEF FormsInv, FormsSaves, FormsFilled, FormsSent
  <2>5. FormsView'
    BY <2>1, <2>2 DEF FormsInv, FormsView
  <2>6. FormsCheck'
    BY <1>1, <2>1, <2>2 DEF FormsInv, FormsCheck
  <2> QED
    BY <2>1, <2>2, <2>3, <2>4, <2>5, <2>6 DEF FormsInv
<1>4. CASE ~(r.got = Failed \/ ~r.own)
  <2>1. PICK checks \in BOOLEAN : checks = (page.kind = "exam" /\ page.role = "student")
    <3>1. (page.kind = "exam" /\ page.role = "student") \in BOOLEAN
      OBVIOUS
    <3> QED
      BY <3>1, Zenon
  <2> DEFINE q      == Forms!Ask("check", r.about, page.n, 0)
             values == Forms!Filled(r.got)
  <2>2. /\ page' = [page EXCEPT !.has = r.about, !.values = values, !.loading = checks]
        /\ net' = (net \ {r}) \cup IF checks THEN {q} ELSE {}
        /\ kept' = [kept EXCEPT !.base = r.got, !.touched = {}]
    BY <1>4, <2>1 DEF Forms!LoadArrives
  <2>3. r.got \in Forms!Contents /\ page.n \in Nat
    BY <1>1, <1>2, <1>4 DEF FormsState
  <2>4. /\ q \in Forms!Requests /\ q.op = "check" /\ q.by = page.n /\ q.about = r.about
        /\ q.got = None
    BY <1>2, <2>3, FormsAsk DEF Forms!Ask
  <2>5. /\ values \in Forms!Contents
        /\ page.kind \notin {"exam form", "course form"} => values = r.got
        /\ \A f \in Forms!Fields : values[f] = r.got[f]
             \/ (f = "link" /\ values.link = Blank /\ page.kind \in {"exam form", "course form"})
    BY <2>3 DEF Forms!Filled, Forms!Contents, Forms!Fields
  <2> HIDE DEF q, values
  <2>6. /\ page' \in FormsState /\ page'.n = page.n /\ page'.kind = page.kind
        /\ page'.at = page.at /\ page'.has = r.about /\ page'.values = values
        /\ page'.saving = page.saving /\ page'.role = page.role
        /\ (page'.loading <=> checks)
    BY <1>1, <1>2, <2>2, <2>5 DEF FormsState
  <2>7. kept' \in FormsPast /\ kept'.base = r.got /\ kept'.touched = {}
        /\ kept'.strayed = kept.strayed /\ kept'.before = kept.before
    BY <1>1, <2>2, <2>3 DEF FormsPast
  <2>8. \A s \in net' : (s \in net /\ s # r) \/ (s = q /\ checks)
    BY <2>2
  <2>9. Forms!TypeOK'
    <3>1. \A s \in net' : s \in Forms!Requests /\ s.by <= page'.n
      BY <1>1, <2>3, <2>4, <2>6, <2>8
    <3> QED
      BY <1>1, <2>6, <2>7, <3>1, FormsTypes
  <2>10. FormsSaves' = FormsSaves
    BY <1>1, <2>2, <2>4, <2>6 DEF FormsSaves
  <2>11. \A s \in net' : s.op = "save" => FormsSent(s)'
    BY <2>4, <2>8 DEF FormsInv, FormsSent
  <2>12. FormsFilled'
    BY <2>5, <2>6, <2>7 DEF FormsFilled
  <2>13. FormsView'
    <3>1. ASSUME page.kind \in Forms!Views, ~kept.strayed, bounds.others = 0
          PROVE  values = server.content[page.at]
      <4>1. r.got \notin {None, Failed}
        BY <1>4
      <4>2. r.got = server.content[page.at]
        BY <1>1, <3>1, <4>1 DEF FormsInv, FormsView
      <4> QED
        BY <2>5, <3>1, <4>2 DEF Forms!Views
    <3>2. \A s \in net' : (s.op = "load" \/ s.op = "save") => s \in net
      BY <2>4, <2>8
    <3> QED
      BY <2>6, <2>7, <3>1, <3>2 DEF FormsInv, FormsView
  <2>14. FormsCheck'
    <3>1. ASSUME page.kind = "exam", page.role = "student"
          PROVE  checks /\ q \in net' /\ \A s \in net' : s.op # "save" => s = q
      BY <1>1, <2>1, <2>2, <2>8, <3>1 DEF FormsInv, FormsCheck
    <3> QED
      BY <2>4, <2>6, <3>1 DEF FormsCheck, FormsNothing
  <2> QED
    BY <2>6, <2>7, <2>9, <2>10, <2>11, <2>12, <2>13, <2>14 DEF FormsInv
<1> QED
  BY <1>3, <1>4

LEMMA FormsCheckArrives ==
  ASSUME FormsInv, NEW r \in net, r.got # None, Forms!CheckArrives(r), UNCHANGED <<server, bounds>>
  PROVE  FormsInv'
<1>1. /\ page \in FormsState /\ net \subseteq Forms!Requests /\ \A s \in net : s.by <= page.n
      /\ server \in FormsRows /\ \A rec \in Records : server.content[rec].name # Blank
      /\ kept \in FormsPast /\ bounds \in FormsBounds /\ r.op = "check"
      /\ net' = net \ {r}
  BY FormsTypes DEF FormsInv, Forms!CheckArrives
<1>2. PICK found \in BOOLEAN, failed \in BOOLEAN :
        (found <=> r.got = TRUE) /\ (failed <=> r.got = Failed)
        /\ page' = [page EXCEPT !.loading = FALSE, !.submitted = found]
        /\ kept' = [kept EXCEPT !.unchecked = failed]
  <2>1. (r.got = TRUE) \in BOOLEAN /\ (r.got = Failed) \in BOOLEAN
    OBVIOUS
  <2>2. /\ page' = [page EXCEPT !.loading = FALSE, !.submitted = (r.got = TRUE)]
        /\ kept' = [kept EXCEPT !.unchecked = (r.got = Failed)]
    BY DEF Forms!CheckArrives
  <2> QED
    BY <2>1, <2>2, Zenon
<1>3. /\ page' \in FormsState /\ page'.n = page.n /\ page'.kind = page.kind
      /\ page'.at = page.at /\ page'.has = page.has /\ page'.values = page.values
      /\ page'.saving = page.saving /\ page'.role = page.role
      /\ page'.submitted = found
  BY <1>1, <1>2 DEF FormsState
<1>4. /\ kept' \in FormsPast /\ kept'.base = kept.base /\ kept'.touched = kept.touched
      /\ kept'.strayed = kept.strayed /\ kept'.before = kept.before
      /\ kept'.unchecked = failed
  BY <1>1, <1>2 DEF FormsPast
<1>5. Forms!TypeOK'
  BY <1>1, <1>3, <1>4, FormsTypes
<1>6. FormsSaves' = FormsSaves /\ FormsFilled' /\ \A s \in net' : s.op = "save" => FormsSent(s)'
  BY <1>1, <1>3, <1>4 DEF FormsInv, FormsSaves, FormsFilled, FormsSent
<1>7. FormsView'
  BY <1>1, <1>3, <1>4 DEF FormsInv, FormsView
<1>8. FormsCheck'
  <2> SUFFICES ASSUME page.kind = "exam", page.role = "student"
               PROVE  FormsCheck'
    BY <1>3 DEF FormsCheck
  <2>1. \A s \in net' : s.op = "save"
    BY <1>1 DEF FormsInv, FormsCheck
  <2>2. ~found /\ ~failed => page.has \notin kept.before
    <3>1. page.has = r.about
      BY <1>1 DEF FormsInv, FormsCheck
    <3>2. FormsNothing(r.got) => r.about \notin kept.before
      BY <1>1 DEF FormsInv, FormsCheck
    <3> QED
      BY <1>2, <3>1, <3>2 DEF FormsNothing
  <2> QED
    BY <1>3, <1>4, <2>1, <2>2 DEF FormsCheck
<1> QED
  BY <1>3, <1>4, <1>5, <1>6, <1>7, <1>8 DEF FormsInv

\* The answer of a save is taken without leaving the page.
LEMMA FormsTake ==
  ASSUME FormsInv, NEW r \in net, r.op = "save", net' = net \ {r},
         UNCHANGED <<server, kept, bounds>>,
         \/ UNCHANGED page /\ (r.by # page.n \/ page.kind \notin Forms!Forms)
         \/ page' = [page EXCEPT !.saving = FALSE, !.failed = TRUE] /\ r.by = page.n
  PROVE  FormsInv'
<1>1. /\ page \in FormsState /\ net \subseteq Forms!Requests /\ \A s \in net : s.by <= page.n
      /\ server \in FormsRows /\ \A rec \in Records : server.content[rec].name # Blank
      /\ kept \in FormsPast /\ bounds \in FormsBounds
  BY FormsTypes DEF FormsInv
<1>2. /\ page' \in FormsState /\ page'.n = page.n /\ page'.kind = page.kind
      /\ page'.at = page.at /\ page'.has = page.has /\ page'.values = page.values
      /\ page'.role = page.role /\ page'.loading = page.loading
      /\ page'.submitted = page.submitted
      /\ page'.saving => page.saving
      /\ r.by # page.n \/ page.kind \notin Forms!Forms => page'.saving = page.saving
      /\ r.by = page.n => ~page'.saving
  <2>1. CASE UNCHANGED page /\ (r.by # page.n \/ page.kind \notin Forms!Forms)
    BY <1>1, <2>1 DEF FormsInv
  <2>2. CASE page' = [page EXCEPT !.saving = FALSE, !.failed = TRUE] /\ r.by = page.n
    <3>1. page.kind \in Forms!Forms
      BY <2>2 DEF FormsInv, Locks, FormsSaves
    <3> QED
      BY <1>1, <2>2, <3>1 DEF FormsState
  <2> QED
    BY <2>1, <2>2
<1>3. Forms!TypeOK'
  BY <1>1, <1>2, FormsTypes
<1>4. Locks(FormsSaves, page.saving)'
  <2>1. CASE r.by = page.n
    <3>1. FormsSaves' = FormsSaves \ {r} /\ r \in FormsSaves
      BY <1>2, <2>1 DEF FormsSaves
    <3> QED
      BY <1>2, <2>1, <3>1, LocksRelease DEF FormsInv, Locks
  <2>2. CASE r.by # page.n
    <3>1. FormsSaves' = FormsSaves
      BY <1>2, <2>2 DEF FormsSaves
    <3> QED
      BY <1>2, <2>2, <3>1 DEF FormsInv
  <2> QED
    BY <2>1, <2>2
<1>5. FormsFilled' /\ \A s \in net' : s.op = "save" => FormsSent(s)'
  BY <1>2 DEF FormsInv, FormsFilled, FormsSent
<1>6. FormsView' /\ FormsCheck'
  BY <1>2 DEF FormsInv, FormsView, FormsCheck
<1> QED
  BY <1>2, <1>3, <1>4, <1>5, <1>6 DEF FormsInv

LEMMA FormsArrive ==
  ASSUME FormsInv, NEW r \in net, Forms!Arrive(r)
  PROVE  FormsInv' /\ Forms!UntouchedStays
<1>1. UNCHANGED <<server, bounds>> /\ r.got # None /\ r \in Forms!Requests
      /\ page \in FormsState /\ bounds \in FormsBounds
  BY FormsTypes DEF FormsInv, Forms!Arrive
<1>2. Forms!UntouchedStays
  BY <1>1 DEF Forms!UntouchedStays
<1>3. CASE Forms!SavedArrives(r)
  <2>1. r.op = "save" /\ r.to \in Forms!Views \cup {"elsewhere"}
    BY <1>3 DEF Forms!SavedArrives, FormsInv, FormsSent
  <2>2. CASE page.kind = r.to /\ (r.to = "exam" => page.at = r.about)
    <3>1. net' = net \ {r} /\ UNCHANGED <<page, kept>>
      BY <1>3, <2>2 DEF Forms!SavedArrives
    <3>2. page.kind \notin Forms!Forms
      BY <2>1, <2>2 DEF Forms!Views, Forms!Forms
    <3> QED
      BY <1>1, <1>2, <2>1, <3>1, <3>2, FormsTake
  <2>3. CASE ~(page.kind = r.to /\ (r.to = "exam" => page.at = r.about))
    <3> DEFINE rec == IF r.about = None THEN page.at ELSE r.about
    <3>1. Forms!Mount(r.to, rec, Forms!Empty, net \ {r})
      BY <1>3, <2>3 DEF Forms!SavedArrives
    <3>2. rec \in Records
      BY <1>1, <2>1, FormsRequest DEF FormsState
    <3>3. r.to \in Forms!Kinds
      BY <2>1 DEF Forms!Kinds
    <3> HIDE DEF rec
    <3> QED
      BY <1>1, <1>2, <3>1, <3>2, <3>3, FormsMount, FormsContents
  <2> QED
    BY <2>2, <2>3
<1>4. CASE Forms!SaveFails(r)
  BY <1>1, <1>2, <1>4, FormsTake DEF Forms!SaveFails
<1>5. CASE Forms!LoadArrives(r)
  BY <1>1, <1>2, <1>5, FormsLoadArrives
<1>6. CASE Forms!CheckArrives(r)
  BY <1>1, <1>2, <1>6, FormsCheckArrives
<1> QED
  BY <1>3, <1>4, <1>5, <1>6 DEF Forms!Arrive

LEMMA FormsNext ==
  ASSUME FormsInv, Forms!Next
  PROVE  FormsInv' /\ Forms!UntouchedStays
<1>1. ASSUME NEW r \in net, Forms!Serve(r) \/ Forms!Lose(r) \/ Forms!Arrive(r)
      PROVE  FormsInv' /\ Forms!UntouchedStays
  BY <1>1, FormsServe, FormsLose, FormsArrive
<1>2. CASE Forms!Open \/ Forms!Jump \/ Forms!Edit \/ Forms!Submit
  <2>1. UNCHANGED server
    BY <1>2 DEF Forms!Open, Forms!Jump, Forms!Edit, Forms!Submit
  <2> QED
    BY <1>2, <2>1, FormsOpen, FormsJump, FormsEdit, FormsSubmit DEF Forms!UntouchedStays
<1> QED
  BY <1>1, <1>2, FormsOther, FormsAttempt DEF Forms!Next

LEMMA FormsStays ==
  ASSUME FormsInv, UNCHANGED vars
  PROVE  FormsInv' /\ Forms!UntouchedStays
<1> USE DEF vars
<1>1. Forms!TypeOK'
  BY FormsTypes DEF FormsInv
<1>2. Forms!UntouchedStays
  BY DEF Forms!UntouchedStays
<1>3. FormsSaves' = FormsSaves /\ \A r \in net' : r.op = "save" => FormsSent(r)'
  BY DEF FormsInv, FormsSaves, FormsSent
<1>4. FormsFilled' /\ FormsView' /\ FormsCheck'
  BY DEF FormsInv, FormsFilled, FormsView, FormsCheck
<1> QED
  BY <1>1, <1>2, <1>3, <1>4 DEF FormsInv

LEMMA FormsPromises ==
  ASSUME FormsInv
  PROVE  Forms!TypeOK /\ Forms!OneSavePerForm /\ Forms!ViewIsCurrent /\ Forms!TakeIsChecked
<1>1. \A S : Forms!Cardinality(S) = Cardinality(S)
  BY DEF Forms!Cardinality, Cardinality
<1>2. page \in FormsState
  BY FormsTypes DEF FormsInv
<1>3. page.saving \in BOOLEAN /\ page.at \in Records
  BY <1>2 DEF FormsState
<1>4. Cardinality(FormsSaves) = IF page.saving THEN 1 ELSE 0
  BY <1>3, LocksCount DEF FormsInv
<1>5. Forms!OneSavePerForm
  BY <1>1, <1>4 DEF Forms!OneSavePerForm, FormsSaves
<1>6. Forms!ViewIsCurrent
  BY DEF FormsInv, FormsView, Forms!ViewIsCurrent
<1>7. Forms!TakeIsChecked
  BY <1>3, Constants DEF FormsInv, FormsCheck, Forms!TakeIsChecked
<1> QED
  BY <1>5, <1>6, <1>7 DEF FormsInv
-----------------------------------------------------------------------------
(***************************************************************************)
(* ListPages.                                                              *)
(***************************************************************************)

ListsOf(op) == {r \in net : r.op = op}

\* A change of the items that the page has not heard of.
ListsUnheard == \E r \in net : r.op \in {"create", "delete"} /\ r.got = Ok

\* Students change nothing, and only they have enrolments.
ListsRoles ==
  /\ page.role = "student" =>
       page.dialog = "none" /\ \A r \in net : r.op \notin {"create", "delete"}
  /\ \A r \in net : r.op = "enrolments" => page.role = "student"

\* Staff that did not turn to another page or filter know one key.
ListsKeys ==
  bounds.moves = 0 =>
    /\ page.at = 1
    /\ page.role = "staff" =>
         /\ \A r \in net : r.op = "fetch" => r.key = Lists!Key(page)
         /\ \A k \in DOMAIN cache : k = Lists!Key(page)

\* What students get of the exams and courses is theirs.
ListsOwn ==
  page.role = "student" /\ page.kind \in {"exams", "courses"} =>
    /\ \A k \in DOMAIN cache : \A i \in cache[k].rows : Lists!Mine(i)
    /\ \A r \in net :
         r.op = "fetch" /\ r.got \notin {None, Failed} => \A i \in r.got.rows : Lists!Mine(i)

\* Without a change the page has not heard of, or heard of too early, the answers are those of the items there
\* are, and so is what is cached once no answer is waited for.
ListsFresh ==
  bounds.moves = 0 /\ bounds.failures = 0 /\ ~ListsUnheard /\ ~page.early =>
    /\ \A r \in net : r.op = "fetch" /\ r.got # None => r.got = Lists!Answer(r.key)
    /\ \A k \in DOMAIN cache :
         (\A r \in net : r.op = "fetch" => r.key # k) => cache[k] = Lists!Answer(k)

ListsInv ==
  /\ Lists!TypeOK
  /\ Locks(ListsOf("delete"), page.deleting)
  /\ ~page.zero => Locks(ListsOf("create"), page.creating)
  /\ ListsRoles
  /\ ListsKeys
  /\ ListsOwn
  /\ ListsFresh

ListsState ==
  [kind : Lists!Kinds, role : {"student", "staff"}, group : [Lists!Ids -> Groups],
   mine : SUBSET Groups, at : Nat \ {0}, filter : Groups \cup {All},
   known : {None} \cup SUBSET Groups, dialog : {"none", "form", "delete"},
   target : Lists!Ids \cup {None}, creating : BOOLEAN, zero : BOOLEAN, deleting : BOOLEAN,
   early : BOOLEAN, errors : SUBSET Lists!Keys]

ListsBounds ==
  [moves : 0 .. MaxMoves, changes : 0 .. MaxChanges, failures : 0 .. MaxFailures,
   ids : 0 .. MaxItems]

LEMMA ListsTypes ==
  /\ Lists!TypeOK <=>
       /\ page \in ListsState
       /\ DOMAIN cache \subseteq Lists!Keys
       /\ \A k \in DOMAIN cache : cache[k] \in Lists!Answers
       /\ net \subseteq Lists!Requests
       /\ server \subseteq Lists!Ids
       /\ bounds \in ListsBounds
  /\ Lists!TypeOK' <=>
       /\ page' \in ListsState
       /\ DOMAIN cache' \subseteq Lists!Keys
       /\ \A k \in DOMAIN cache' : cache'[k] \in Lists!Answers
       /\ net' \subseteq Lists!Requests
       /\ server' \subseteq Lists!Ids
       /\ bounds' \in ListsBounds
  BY DEF Lists!TypeOK, ListsState, ListsBounds

\* A request, by what it is for.
LEMMA ListsRequest ==
  ASSUME NEW r \in Lists!Requests
  PROVE  /\ r = [op |-> r.op, key |-> r.key, arg |-> r.arg, got |-> r.got]
         /\ r.op \in {"fetch", "create", "delete", "enrolments"} /\ r.key \in Lists!Keys
         /\ r.op = "fetch" => r.got \in Lists!Answers \cup {None, Failed}
         /\ r.op # "fetch" => r.got \in {Ok, None, Failed}
         /\ r.op \in {"create", "delete"} => r.arg \in Lists!Ids
  BY DEF Lists!Requests

\* It stays one with an answer it can have.
LEMMA ListsAnswered ==
  ASSUME NEW r \in Lists!Requests, NEW answer,
         \/ answer = Failed
         \/ answer = Ok /\ r.op # "fetch"
         \/ answer \in Lists!Answers /\ r.op = "fetch"
  PROVE  [r EXCEPT !.got = answer] \in Lists!Requests
  BY DEF Lists!Requests

LEMMA ListsKey ==
  ASSUME NEW p \in ListsState
  PROVE  /\ Lists!Key(p) \in Lists!Keys
         /\ Lists!Fetch(Lists!Key(p)) \in Lists!Requests
         /\ Lists!Fetch(Lists!Key(p)).op = "fetch"
         /\ Lists!Fetch(Lists!Key(p)).key = Lists!Key(p)
         /\ Lists!Fetch(Lists!Key(p)).got = None
<1>1. Lists!Key(p) \in Lists!Keys
  BY DEF Lists!Key, Lists!Keys, ListsState
<1> QED
  BY <1>1 DEF Lists!Fetch, Lists!Requests

\* There is a number of pages.
LEMMA ListsPagesFor ==
  ASSUME NEW n \in Nat
  PROVE  Lists!PagesFor(n) \in Nat
<1>1. PerPage \in Nat /\ PerPage > 0
  BY Constants
<1>2. \A a \in Nat, b \in Nat \ {0} : a \div b \in Nat
  OBVIOUS
<1>3. n + PerPage - 1 \in Nat
  BY <1>1
<1> QED
  BY <1>1, <1>2, <1>3 DEF Lists!PagesFor

LEMMA ListsCount ==
  ASSUME NEW S \in SUBSET Lists!Ids
  PROVE  Lists!Cardinality(S) \in Nat
<1>1. IsFiniteSet(Lists!Ids)
  BY FS_Interval, Constants DEF Lists!Ids
<1>2. Cardinality(S) \in Nat
  BY <1>1, FS_Subset, FS_CardinalityType
<1> QED
  BY <1>2 DEF Lists!Cardinality, Cardinality

LEMMA ListsServed ==
  ASSUME NEW S \in SUBSET Lists!Ids, NEW T \in SUBSET Lists!Ids, NEW n
  PROVE  /\ Lists!Served(S, Lists!Cardinality(T), n) \in Lists!Answers
         /\ Lists!Served(S, Lists!Cardinality(T), n).rows \subseteq S
<1> DEFINE place(i) == Lists!Cardinality({j \in S : j >= i})
           rows  == {i \in S : Lists!PagesFor(place(i)) = n}
           pages == Lists!PagesFor(Lists!Cardinality(T))
<1>1. Lists!Served(S, Lists!Cardinality(T), n) = [rows |-> rows, pages |-> pages, next |-> n < pages]
  BY DEF Lists!Served
<1>2. rows \subseteq S
  OBVIOUS
<1>3. pages \in Nat
  BY ListsCount, ListsPagesFor
<1> HIDE DEF rows, pages
<1>4. (n < pages) \in BOOLEAN
  OBVIOUS
<1>5. [rows |-> rows, pages |-> pages, next |-> n < pages] \in Lists!Answers
  BY <1>2, <1>3, <1>4 DEF Lists!Answers
<1> QED
  BY <1>1, <1>2, <1>5

LEMMA ListsKept ==
  ASSUME NEW answer \in Lists!Answers, NEW n, NEW G
  PROVE  /\ Lists!Kept(answer, n, G) \in Lists!Answers
         /\ \A i \in Lists!Kept(answer, n, G).rows : i \in answer.rows /\ Lists!GroupOf(i) \in G
<1> DEFINE rows  == {i \in answer.rows : Lists!GroupOf(i) \in G}
           pages == Lists!PagesFor(Lists!Cardinality(rows))
<1>1. Lists!Kept(answer, n, G) = [rows |-> rows, pages |-> pages, next |-> n < pages]
  BY DEF Lists!Kept
<1>2. rows \in SUBSET Lists!Ids /\ \A i \in rows : i \in answer.rows /\ Lists!GroupOf(i) \in G
  BY DEF Lists!Answers
<1> HIDE DEF rows
<1>3. pages \in Nat
  BY <1>2, ListsCount, ListsPagesFor
<1> HIDE DEF pages
<1>4. (n < pages) \in BOOLEAN
  OBVIOUS
<1>5. [rows |-> rows, pages |-> pages, next |-> n < pages] \in Lists!Answers
  BY <1>2, <1>3, <1>4 DEF Lists!Answers
<1> QED
  BY <1>1, <1>2, <1>5

\* The server answers with items there are, a student with what is theirs.
LEMMA ListsAnswer ==
  ASSUME page \in ListsState, server \subseteq Lists!Ids, NEW k
  PROVE  /\ Lists!Answer(k) \in Lists!Answers
         /\ page.role = "student" /\ page.kind \in {"exams", "courses"} =>
              \A i \in Lists!Answer(k).rows : Lists!Mine(i)
<1>1. CASE page.kind = "exams"
  <2> DEFINE found  == {i \in server : page.role = "student" => Lists!Mine(i)}
             answer == Lists!Served(Lists!Filtered(found, k), Lists!Cardinality(found), k[1])
  <2>1. found \in SUBSET Lists!Ids /\ (page.role = "student" => \A i \in found : Lists!Mine(i))
    OBVIOUS
  <2>2. Lists!Filtered(found, k) \subseteq found
    BY DEF Lists!Filtered
  <2> HIDE DEF found
  <2>3. Lists!Filtered(found, k) \in SUBSET Lists!Ids
    BY <2>1, <2>2
  <2>4. answer \in Lists!Answers /\ answer.rows \subseteq Lists!Filtered(found, k)
    BY <2>1, <2>3, ListsServed
  <2> HIDE DEF answer
  <2>5. Lists!Answer(k) = IF page.role = "student" /\ k[3] \notin {None, {}}
                          THEN Lists!Kept(answer, k[1], k[3]) ELSE answer
    BY <1>1 DEF Lists!Answer, Lists!ExamsAnswer, answer, found
  <2>6. /\ Lists!Kept(answer, k[1], k[3]) \in Lists!Answers
        /\ \A i \in Lists!Kept(answer, k[1], k[3]).rows : i \in answer.rows
    BY <2>4, ListsKept
  <2> QED
    BY <2>1, <2>2, <2>4, <2>5, <2>6
<1>2. CASE page.kind = "courses"
  <2> DEFINE found  == Lists!Filtered(server, k)
             answer == Lists!Served(found, Lists!Cardinality(found), k[1])
  <2>1. found \in SUBSET Lists!Ids
    BY DEF Lists!Filtered
  <2> HIDE DEF found
  <2>2. answer \in Lists!Answers
    BY <2>1, ListsServed
  <2> HIDE DEF answer
  <2>3. Lists!Answer(k) = IF page.role = "student" THEN Lists!Kept(answer, k[1], page.mine) ELSE answer
    BY <1>2 DEF Lists!Answer, Lists!CoursesAnswer, answer, found
  <2>4. /\ Lists!Kept(answer, k[1], page.mine) \in Lists!Answers
        /\ \A i \in Lists!Kept(answer, k[1], page.mine).rows : Lists!Mine(i)
    BY <2>2, ListsKept DEF Lists!Mine
  <2> QED
    BY <2>2, <2>3, <2>4
<1>3. Lists!Served(server, Lists!Cardinality(server), k[1]) \in Lists!Answers
  BY ListsServed
<1>4. CASE page.kind = "users"
  BY <1>3, <1>4 DEF Lists!Answer, Lists!UsersAnswer
<1>5. CASE page.kind = "submissions"
  <2>1. [rows |-> server, pages |-> 1, next |-> FALSE] \in Lists!Answers
    BY DEF Lists!Answers
  <2> QED
    BY <1>3, <1>5, <2>1 DEF Lists!Answer, Lists!SubmissionsAnswer
<1> QED
  BY <1>1, <1>2, <1>4, <1>5 DEF ListsState, Lists!Kinds

\* It depends on nothing else of the page.
LEMMA ListsSame ==
  ASSUME page'.kind = page.kind, page'.role = page.role, page'.group = page.group,
         page'.mine = page.mine, UNCHANGED server
  PROVE  \A k : Lists!Answer(k)' = Lists!Answer(k)
  BY DEF Lists!Answer, Lists!ExamsAnswer, Lists!CoursesAnswer, Lists!UsersAnswer,
         Lists!SubmissionsAnswer, Lists!Served, Lists!Kept, Lists!Filtered, Lists!Mine,
         Lists!GroupOf

LEMMA ListsInit ==
  ASSUME Lists!Init
  PROVE  ListsInv
<1> USE DEF Lists!Init
<1>1. /\ page.at = 1 /\ page.filter = All /\ page.known = None /\ page.dialog = "none"
      /\ page.target = None /\ page.creating = FALSE /\ page.zero = FALSE
      /\ page.deleting = FALSE /\ page.errors = {} /\ page.kind \in Lists!Kinds
      /\ page.role \in {"student", "staff"}
  OBVIOUS
<1>2. page \in ListsState
  <2>1. PICK n \in Nat \ {0} : n = 1
    OBVIOUS
  <2>2. page \in [kind : Lists!Kinds, role : {"student", "staff"}, group : [Lists!Ids -> Groups],
                  mine : SUBSET Groups, at : {n}, filter : {All}, known : {None},
                  dialog : {"none"}, target : {None}, creating : {FALSE}, zero : {FALSE},
                  deleting : {FALSE}, early : {FALSE}, errors : {{}}]
    BY <2>1
  <2> QED
    BY <2>2 DEF ListsState
<1>3. DOMAIN cache = {}
  OBVIOUS
<1>4. /\ net \subseteq Lists!Requests
      /\ \A r \in net :
           /\ r.got = None /\ r.key = Lists!Key(page)
           /\ r.op = "fetch" \/ (r.op = "enrolments" /\ page.role = "student")
  <2>1. CASE page.kind = "exams" /\ page.role = "student"
    <3>1. net = {Lists!Send("enrolments", None)}
      BY <2>1
    <3> QED
      BY <1>2, <2>1, <3>1, ListsKey DEF Lists!Send, Lists!Requests
  <2>2. CASE ~(page.kind = "exams" /\ page.role = "student")
    <3>1. net = {Lists!Fetch(Lists!Key(page))}
      BY <2>2
    <3> QED
      BY <1>2, <3>1, ListsKey
  <2> QED
    BY <2>1, <2>2
<1>5. bounds \in ListsBounds /\ server \subseteq Lists!Ids
  <2>1. /\ bounds \in [moves : {0}, changes : {0}, failures : {0}, ids : 0 .. MaxItems]
        /\ server = 1 .. bounds.ids
    OBVIOUS
  <2>2. bounds \in ListsBounds
    BY <2>1, Constants DEF ListsBounds
  <2>3. bounds.ids \in 0 .. MaxItems
    BY <2>1
  <2> QED
    BY <2>1, <2>2, <2>3, Constants DEF Lists!Ids
<1>6. Lists!TypeOK
  BY <1>2, <1>3, <1>4, <1>5, ListsTypes
<1>7. ListsOf("delete") = {} /\ ListsOf("create") = {}
  BY <1>4 DEF ListsOf
<1>8. ListsRoles /\ ListsKeys /\ ListsOwn /\ ListsFresh
  <2>1. ListsRoles
    BY <1>1, <1>4 DEF ListsRoles
  <2>2. ListsKeys
    BY <1>1, <1>3, <1>4 DEF ListsKeys
  <2>3. ListsOwn
    BY <1>3, <1>4 DEF ListsOwn
  <2>4. ListsFresh
    BY <1>3, <1>4 DEF ListsFresh
  <2> QED
    BY <2>1, <2>2, <2>3, <2>4
<1> QED
  BY <1>1, <1>6, <1>7, <1>8 DEF ListsInv, Locks

\* What the user looks at, and the fetch for it.
LEMMA ListsLook ==
  ASSUME ListsInv, page' \in ListsState, page'.kind = page.kind, page'.role = page.role,
         page'.group = page.group, page'.mine = page.mine, page'.known = page.known,
         page'.deleting = page.deleting, page'.early = page.early,
         page'.zero \/ (page'.zero = page.zero /\ page'.creating = page.creating),
         page'.dialog = "none" \/ page.role = "staff",
         net \subseteq net', \A r \in net' : r \in net \/ r = Lists!Fetch(Lists!Key(page')),
         UNCHANGED <<cache, server>>, bounds' \in ListsBounds,
         bounds'.failures = bounds.failures,
         \/ bounds'.moves # 0
         \/ bounds'.moves = bounds.moves /\ page'.at = page.at /\ page'.filter = page.filter
  PROVE  ListsInv'
<1> USE DEF ListsInv
<1> DEFINE q == Lists!Fetch(Lists!Key(page'))
<1>1. /\ q \in Lists!Requests /\ q.op = "fetch" /\ q.key = Lists!Key(page') /\ q.got = None
  BY ListsKey
<1> HIDE DEF q
<1>2. \A r \in net' : r \in net \/ r = q
  BY DEF q
<1>3. Lists!TypeOK'
  BY <1>1, <1>2, ListsTypes
<1>4. ListsOf("delete")' = ListsOf("delete") /\ ListsOf("create")' = ListsOf("create")
  BY <1>1, <1>2 DEF ListsOf
<1>5. ListsRoles'
  BY <1>1, <1>2 DEF ListsRoles
<1>6. ListsKeys'
  <2>1. bounds'.moves = 0 => Lists!Key(page') = Lists!Key(page)
    BY DEF Lists!Key
  <2> QED
    BY <1>1, <1>2, <2>1 DEF ListsKeys
<1>7. ListsOwn'
  <2>1. \A i : Lists!Mine(i)' <=> Lists!Mine(i)
    BY DEF Lists!Mine, Lists!GroupOf
  <2> QED
    BY <1>1, <1>2, <2>1 DEF ListsOwn
<1>8. ListsFresh'
  <2>1. \A k : Lists!Answer(k)' = Lists!Answer(k)
    BY ListsSame
  <2>2. ListsUnheard => ListsUnheard'
    BY DEF ListsUnheard
  <2> QED
    BY <1>1, <1>2, <2>1, <2>2 DEF ListsFresh
<1> QED
  BY <1>3, <1>4, <1>5, <1>6, <1>7, <1>8

LEMMA ListsMoves ==
  ASSUME ListsInv, bounds.moves < MaxMoves, bounds' = [bounds EXCEPT !.moves = bounds.moves + 1],
         NEW n \in Nat \ {0}, NEW g \in Groups \cup {All}, page.dialog = "none",
         Lists!Observe([page EXCEPT !.at = n, !.filter = g]), UNCHANGED <<cache, server>>
  PROVE  ListsInv'
<1>1. page \in ListsState /\ bounds \in ListsBounds
  BY ListsTypes DEF ListsInv
<1>2. bounds' \in ListsBounds /\ bounds'.moves # 0 /\ bounds'.failures = bounds.failures
  BY <1>1, Constants DEF ListsBounds
<1>3. page' = [page EXCEPT !.at = n, !.filter = g]
  BY DEF Lists!Observe
<1>4. /\ page' \in ListsState /\ page'.kind = page.kind /\ page'.role = page.role
      /\ page'.group = page.group /\ page'.mine = page.mine /\ page'.known = page.known
      /\ page'.deleting = page.deleting /\ page'.zero = page.zero
      /\ page'.creating = page.creating /\ page'.dialog = "none"
      /\ page'.early = page.early
  BY <1>1, <1>3 DEF ListsState
<1>5. net \subseteq net' /\ \A r \in net' : r \in net \/ r = Lists!Fetch(Lists!Key(page'))
  BY <1>3 DEF Lists!Observe
<1> QED
  BY <1>2, <1>4, <1>5, ListsLook

\* A dialog opens or closes.
LEMMA ListsDialog ==
  ASSUME ListsInv, NEW d \in {"none", "form", "delete"}, NEW t \in Lists!Ids \cup {None},
         d = "none" \/ page.role = "staff",
         page' = [page EXCEPT !.dialog = d, !.target = t],
         UNCHANGED <<cache, net, server, bounds>>
  PROVE  ListsInv'
<1>1. page \in ListsState /\ bounds \in ListsBounds
  BY ListsTypes DEF ListsInv
<1>2. /\ page' \in ListsState /\ page'.kind = page.kind /\ page'.role = page.role
      /\ page'.group = page.group /\ page'.mine = page.mine /\ page'.known = page.known
      /\ page'.deleting = page.deleting /\ page'.zero = page.zero
      /\ page'.creating = page.creating /\ page'.dialog = d /\ page'.early = page.early
      /\ page'.at = page.at /\ page'.filter = page.filter
  BY <1>1 DEF ListsState
<1> QED
  BY <1>1, <1>2, ListsLook

LEMMA ListsUser ==
  ASSUME ListsInv,
         \/ Lists!TurnPage \/ Lists!Filter \/ Lists!OpenForm \/ Lists!OpenDelete
         \/ Lists!CloseDialog \/ Lists!TryAgain
  PROVE  ListsInv'
<1>1. /\ page \in ListsState /\ bounds \in ListsBounds /\ net \subseteq Lists!Requests
      /\ \A k \in DOMAIN cache : cache[k] \in Lists!Answers
  BY ListsTypes DEF ListsInv
<1>2. /\ page.at \in Nat \ {0} /\ page.filter \in Groups \cup {All}
      /\ page.target \in Lists!Ids \cup {None}
  BY <1>1 DEF ListsState
<1>3. CASE Lists!TurnPage
  <2>1. PICK n \in (1 .. Lists!PageCount) \cup (IF Lists!HasNext THEN {page.at + 1} ELSE {})
                   \cup (IF page.at > 1 THEN {page.at - 1} ELSE {}) :
          Lists!Observe([page EXCEPT !.at = n])
    BY <1>3 DEF Lists!TurnPage
  <2>2. n \in Nat \ {0}
    BY <1>2
  <2>3. [page EXCEPT !.at = n] = [page EXCEPT !.at = n, !.filter = page.filter]
    BY <1>1 DEF ListsState
  <2>4. /\ page.dialog = "none" /\ bounds.moves < MaxMoves /\ UNCHANGED <<cache, server>>
        /\ bounds' = [bounds EXCEPT !.moves = bounds.moves + 1]
    BY <1>3 DEF Lists!TurnPage, Lists!Free
  <2>5. Lists!Observe([page EXCEPT !.at = n, !.filter = page.filter])
    BY <2>1, <2>3
  <2> QED
    BY <1>2, <2>2, <2>4, <2>5, ListsMoves
<1>4. CASE Lists!Filter
  <2>1. PICK g \in Groups \cup {All} : Lists!Observe([page EXCEPT !.filter = g, !.at = 1])
    BY <1>4 DEF Lists!Filter
  <2>2. [page EXCEPT !.filter = g, !.at = 1] = [page EXCEPT !.at = 1, !.filter = g]
    BY <1>1 DEF ListsState
  <2>3. /\ page.dialog = "none" /\ bounds.moves < MaxMoves /\ UNCHANGED <<cache, server>>
        /\ bounds' = [bounds EXCEPT !.moves = bounds.moves + 1]
    BY <1>4 DEF Lists!Filter, Lists!Free
  <2>4. Lists!Observe([page EXCEPT !.at = 1, !.filter = g])
    BY <2>1, <2>2
  <2>5. PICK n \in Nat \ {0} : n = 1
    OBVIOUS
  <2>6. Lists!Observe([page EXCEPT !.at = n, !.filter = g])
    BY <2>4, <2>5
  <2> QED
    BY <2>3, <2>6, ListsMoves
<1>5. CASE Lists!OpenForm
  <2>1. [page EXCEPT !.dialog = "form"] = [page EXCEPT !.dialog = "form", !.target = page.target]
    BY <1>1 DEF ListsState
  <2>2. /\ page.role = "staff" /\ page' = [page EXCEPT !.dialog = "form", !.target = page.target]
        /\ UNCHANGED <<cache, net, server, bounds>>
    BY <1>5, <2>1 DEF Lists!OpenForm, Lists!Edits
  <2> QED
    BY <1>2, <2>2, ListsDialog
<1>6. CASE Lists!OpenDelete
  <2>1. PICK i \in Lists!Rows : page' = [page EXCEPT !.dialog = "delete", !.target = i]
    BY <1>6 DEF Lists!OpenDelete
  <2>2. i \in Lists!Ids
    BY <1>1 DEF Lists!Rows, Lists!Shown, Lists!Cached, Lists!Answers
  <2>3. page.role = "staff" /\ UNCHANGED <<cache, net, server, bounds>>
    BY <1>6 DEF Lists!OpenDelete, Lists!Edits
  <2> QED
    BY <2>1, <2>2, <2>3, ListsDialog
<1>7. CASE Lists!CloseDialog
  BY <1>7, ListsDialog DEF Lists!CloseDialog
<1>8. CASE Lists!TryAgain
  <2>1. /\ net \subseteq net' /\ \A r \in net' : r \in net \/ r = Lists!Fetch(Lists!Key(page))
        /\ UNCHANGED <<page, cache, server, bounds>>
    BY <1>8 DEF Lists!TryAgain, Lists!Refetch, Lists!RefetchOrJoin
  <2>2. page'.dialog = "none" \/ page.role = "staff"
    BY <1>1, <2>1 DEF ListsInv, ListsRoles, ListsState
  <2>3. Lists!Key(page') = Lists!Key(page)
    BY <2>1
  <2> QED
    BY <1>1, <2>1, <2>2, <2>3, ListsLook
<1> QED
  BY <1>3, <1>4, <1>5, <1>6, <1>7, <1>8

\* The user sends a change, or locks the form of an exam for good.
LEMMA ListsChange ==
  ASSUME ListsInv, NEW op \in {"create", "delete"}, NEW arg, Lists!Change(op, arg),
         page.role = "staff",
         IF op = "create" THEN ~page.creating /\ page' = [page EXCEPT !.creating = TRUE]
                          ELSE ~page.deleting /\ page' = [page EXCEPT !.deleting = TRUE]
  PROVE  ListsInv'
<1> USE DEF ListsInv
<1>1. /\ page \in ListsState /\ bounds \in ListsBounds /\ net \subseteq Lists!Requests
      /\ server \subseteq Lists!Ids /\ UNCHANGED <<cache, server>>
  BY ListsTypes DEF Lists!Change
<1>2. /\ page' \in ListsState /\ page'.kind = page.kind /\ page'.role = page.role
      /\ page'.group = page.group /\ page'.mine = page.mine /\ page'.known = page.known
      /\ page'.zero = page.zero /\ page'.dialog = page.dialog /\ page'.at = page.at
      /\ page'.filter = page.filter /\ Lists!Key(page') = Lists!Key(page)
      /\ page'.early = page.early
      /\ IF op = "create" THEN page'.creating /\ page'.deleting = page.deleting
                          ELSE page'.deleting /\ page'.creating = page.creating
  <2>1. CASE op = "create"
    <3>1. page' = [page EXCEPT !.creating = TRUE]
      BY <2>1
    <3> QED
      BY <1>1, <2>1, <3>1 DEF ListsState, Lists!Key
  <2>2. CASE op = "delete"
    <3>1. page' = [page EXCEPT !.deleting = TRUE]
      BY <2>2
    <3> QED
      BY <1>1, <2>2, <3>1 DEF ListsState, Lists!Key
  <2> QED
    BY <2>1, <2>2
<1>3. /\ bounds' \in ListsBounds /\ bounds'.moves = bounds.moves
      /\ bounds'.failures = bounds.failures
  <2>1. arg \in 0 .. MaxItems
    BY Constants DEF Lists!Change, Lists!Ids
  <2>2. bounds.changes < MaxChanges
    BY DEF Lists!Change
  <2>3. bounds' = [moves |-> bounds.moves, changes |-> bounds.changes + 1,
                   failures |-> bounds.failures,
                   ids |-> IF op = "create" THEN arg ELSE bounds.ids]
    BY <1>1 DEF Lists!Change, ListsBounds
  <2> QED
    BY <1>1, <2>1, <2>2, <2>3, Constants DEF ListsBounds
<1> DEFINE q == Lists!Send(op, arg)
<1>4. q \in Lists!Requests /\ q.op = op /\ q.got = None /\ net' = net \cup {q}
  BY <1>1, ListsKey DEF Lists!Send, Lists!Change, Lists!Requests
<1> HIDE DEF q
<1>5. Lists!TypeOK'
  BY <1>1, <1>2, <1>3, <1>4, ListsTypes
<1>6. Locks(ListsOf("delete"), page.deleting)'
  <2>1. CASE op = "delete"
    <3>1. ListsOf("delete")' = ListsOf("delete") \cup {q}
      BY <1>4, <2>1 DEF ListsOf
    <3> QED
      BY <1>2, <2>1, <3>1, LocksTake DEF Locks
  <2>2. CASE op = "create"
    <3>1. ListsOf("delete")' = ListsOf("delete")
      BY <1>4, <2>2 DEF ListsOf
    <3> QED
      BY <1>2, <2>2, <3>1 DEF Locks
  <2> QED
    BY <2>1, <2>2
<1>7. ~page'.zero => Locks(ListsOf("create"), page.creating)'
  <2> SUFFICES ASSUME ~page.zero
               PROVE  Locks(ListsOf("create"), page.creating)'
    BY <1>2
  <2>1. CASE op = "create"
    <3>1. ListsOf("create")' = ListsOf("create") \cup {q}
      BY <1>4, <2>1 DEF ListsOf
    <3> QED
      BY <1>2, <2>1, <3>1, LocksTake DEF Locks
  <2>2. CASE op = "delete"
    <3>1. ListsOf("create")' = ListsOf("create")
      BY <1>4, <2>2 DEF ListsOf
    <3> QED
      BY <1>2, <2>2, <3>1 DEF Locks
  <2> QED
    BY <2>1, <2>2
<1>8. ListsRoles'
  BY <1>2, <1>4 DEF ListsRoles
<1>9. ListsKeys'
  BY <1>1, <1>2, <1>3, <1>4 DEF ListsKeys
<1>10. ListsOwn'
  <2>1. \A i : Lists!Mine(i)' <=> Lists!Mine(i)
    BY <1>2 DEF Lists!Mine, Lists!GroupOf
  <2> QED
    BY <1>1, <1>2, <1>4, <2>1 DEF ListsOwn
<1>11. ListsFresh'
  <2>1. \A k : Lists!Answer(k)' = Lists!Answer(k)
    BY <1>1, <1>2, ListsSame
  <2>2. ListsUnheard => ListsUnheard'
    BY <1>4 DEF ListsUnheard
  <2> QED
    BY <1>1, <1>2, <1>3, <1>4, <2>1, <2>2 DEF ListsFresh
<1> QED
  BY <1>5, <1>6, <1>7, <1>8, <1>9, <1>10, <1>11

LEMMA ListsChanges ==
  ASSUME ListsInv, Lists!ExamsCreate \/ Lists!Create \/ Lists!Delete
  PROVE  ListsInv'
<1>1. page \in ListsState /\ bounds \in ListsBounds
  BY ListsTypes DEF ListsInv
<1>2. page.dialog # "none" => page.role = "staff"
  BY <1>1 DEF ListsInv, ListsRoles, ListsState
<1>3. CASE page' = [page EXCEPT !.creating = TRUE, !.zero = TRUE]
           /\ UNCHANGED <<cache, net, server, bounds>> /\ page.dialog = "form"
  <2>1. /\ page' \in ListsState /\ page'.kind = page.kind /\ page'.role = page.role
        /\ page'.group = page.group /\ page'.mine = page.mine /\ page'.known = page.known
        /\ page'.deleting = page.deleting /\ page'.zero = TRUE
        /\ page'.at = page.at /\ page'.filter = page.filter /\ page'.early = page.early
    BY <1>1, <1>3 DEF ListsState
  <2> QED
    BY <1>1, <1>2, <1>3, <2>1, ListsLook
<1>4. CASE ~page.creating /\ page' = [page EXCEPT !.creating = TRUE] /\ page.dialog = "form"
           /\ Lists!Change("create", bounds.ids + 1)
  BY <1>2, <1>4, ListsChange
<1>5. CASE Lists!Delete
  <2>1. ~page.deleting /\ page' = [page EXCEPT !.deleting = TRUE] /\ page.dialog = "delete"
        /\ Lists!Change("delete", page.target)
    BY <1>5 DEF Lists!Delete
  <2> QED
    BY <1>2, <2>1, ListsChange
<1> QED
  BY <1>3, <1>4, <1>5 DEF Lists!ExamsCreate, Lists!Create

\* A request is answered or lost.
LEMMA ListsSwap ==
  ASSUME ListsInv, NEW r \in net, NEW q \in Lists!Requests, q.op = r.op, q.key = r.key,
         net' = (net \ {r}) \cup {q}, UNCHANGED <<page, cache>>, server' \subseteq Lists!Ids,
         bounds' \in ListsBounds, bounds'.moves = bounds.moves,
         page.role = "student" /\ page.kind \in {"exams", "courses"} /\ r.op = "fetch"
           /\ q.got \notin {None, Failed} => \A i \in q.got.rows : Lists!Mine(i),
         \/ bounds'.failures # 0
         \/ r.op \in {"create", "delete"} /\ q.got = Ok
         \/ /\ UNCHANGED server /\ bounds'.failures = bounds.failures /\ r.got # Ok
            /\ r.op = "fetch" => q.got = Lists!Answer(r.key)
  PROVE  ListsInv'
<1> USE DEF ListsInv
<1>1. Lists!TypeOK'
  BY ListsTypes
<1>2. \A op : Locks(ListsOf(op), TRUE) /\ r.op = op => Locks(ListsOf(op), TRUE)'
  <2> SUFFICES ASSUME NEW op, Locks(ListsOf(op), TRUE), r.op = op
               PROVE  Locks(ListsOf(op), TRUE)'
    OBVIOUS
  <2>1. ListsOf(op)' = (ListsOf(op) \ {r}) \cup {q}
    BY DEF ListsOf
  <2> QED
    BY <2>1 DEF Locks, ListsOf
<1>3. \A op : r.op # op => ListsOf(op)' = ListsOf(op)
  BY DEF ListsOf
<1>4. Locks(ListsOf("delete"), page.deleting)'
  <2>1. CASE r.op = "delete"
    <3>1. page.deleting /\ Locks(ListsOf("delete"), TRUE)
      BY <2>1 DEF Locks, ListsOf
    <3> QED
      BY <1>2, <2>1, <3>1 DEF Locks
  <2>2. CASE r.op # "delete"
    <3>1. ListsOf("delete")' = ListsOf("delete")
      BY <1>3, <2>2
    <3> QED
      BY <3>1 DEF Locks
  <2> QED
    BY <2>1, <2>2
<1>5. ~page'.zero => Locks(ListsOf("create"), page.creating)'
  <2> SUFFICES ASSUME ~page.zero
               PROVE  Locks(ListsOf("create"), page.creating)'
    OBVIOUS
  <2>1. CASE r.op = "create"
    <3>1. page.creating /\ Locks(ListsOf("create"), TRUE)
      BY <2>1 DEF Locks, ListsOf
    <3> QED
      BY <1>2, <2>1, <3>1 DEF Locks
  <2>2. CASE r.op # "create"
    <3>1. ListsOf("create")' = ListsOf("create")
      BY <1>3, <2>2
    <3> QED
      BY <3>1 DEF Locks
  <2> QED
    BY <2>1, <2>2
<1>6. ListsRoles'
  BY DEF ListsRoles
<1>7. ListsKeys'
  BY DEF ListsKeys
<1>8. ListsOwn'
  <2>1. \A i : Lists!Mine(i)' <=> Lists!Mine(i)
    BY DEF Lists!Mine, Lists!GroupOf
  <2> QED
    BY <2>1 DEF ListsOwn
<1>9. ListsFresh'
  <2> SUFFICES ASSUME bounds'.moves = 0, bounds'.failures = 0, ~ListsUnheard', ~page.early
               PROVE  /\ \A s \in net' : s.op = "fetch" /\ s.got # None =>
                           s.got = Lists!Answer(s.key)'
                      /\ \A k \in DOMAIN cache :
                           (\A s \in net' : s.op = "fetch" => s.key # k) =>
                             cache[k] = Lists!Answer(k)'
    BY DEF ListsFresh
  <2>1. /\ UNCHANGED server /\ bounds.failures = 0 /\ r.got # Ok
        /\ r.op = "fetch" => q.got = Lists!Answer(r.key)
    BY DEF ListsUnheard
  <2>2. \A k : Lists!Answer(k)' = Lists!Answer(k)
    BY <2>1, ListsSame
  <2>3. ~ListsUnheard
    BY <2>1 DEF ListsUnheard
  <2>4. /\ \A s \in net : s.op = "fetch" /\ s.got # None => s.got = Lists!Answer(s.key)
        /\ \A k \in DOMAIN cache :
             (\A s \in net : s.op = "fetch" => s.key # k) => cache[k] = Lists!Answer(k)
    BY <2>1, <2>3 DEF ListsFresh
  <2>5. \A s \in net' : s.op = "fetch" /\ s.got # None => s.got = Lists!Answer(s.key)
    BY <2>1, <2>4
  <2>6. \A k : (\A s \in net' : s.op = "fetch" => s.key # k) =>
               (\A s \in net : s.op = "fetch" => s.key # k)
    OBVIOUS
  <2> QED
    BY <2>2, <2>4, <2>5, <2>6
<1> QED
  BY <1>1, <1>4, <1>5, <1>6, <1>7, <1>8, <1>9

LEMMA ListsServe ==
  ASSUME ListsInv, NEW r \in net, Lists!Serve(r)
  PROVE  ListsInv'
<1>1. /\ page \in ListsState /\ bounds \in ListsBounds /\ net \subseteq Lists!Requests
      /\ server \subseteq Lists!Ids /\ UNCHANGED <<page, cache>> /\ r \in Lists!Requests
      /\ r.got = None
  BY ListsTypes DEF ListsInv, Lists!Serve
<1>2. r.op \in {"fetch", "create", "delete", "enrolments"} /\ None # Ok
  BY <1>1, ListsRequest, Constants
<1>3. PICK q : /\ q.op = r.op /\ q.key = r.key /\ q \in Lists!Requests
               /\ net' = (net \ {r}) \cup {q}
               /\ \/ /\ UNCHANGED bounds
                     /\ q.got = IF r.op = "fetch" THEN Lists!Answer(r.key)
                                ELSE IF r.op = "delete" /\ r.arg \notin server
                                THEN Failed ELSE Ok
                  \/ /\ r.op = "fetch" /\ q.got = Lists!Nothing /\ bounds.failures < MaxFailures
                     /\ bounds' = [bounds EXCEPT !.failures = bounds.failures + 1]
  <2>1. \A v : [r EXCEPT !.got = v].op = r.op /\ [r EXCEPT !.got = v].key = r.key
               /\ [r EXCEPT !.got = v].got = v
    BY <1>1, ListsRequest
  <2>2. CASE r.op = "fetch" /\ net' = (net \ {r}) \cup {[r EXCEPT !.got = Lists!Nothing]}
             /\ bounds.failures < MaxFailures
             /\ bounds' = [bounds EXCEPT !.failures = bounds.failures + 1]
    <3>1. Lists!Nothing \in Lists!Answers
      BY DEF Lists!Nothing, Lists!Answers
    <3>2. [r EXCEPT !.got = Lists!Nothing] \in Lists!Requests
      BY <1>1, <2>2, <3>1, ListsAnswered
    <3> QED
      BY <2>1, <2>2, <3>2
  <2>3. CASE UNCHANGED bounds
             /\ net' = (net \ {r}) \cup
                  {[r EXCEPT !.got = IF r.op = "fetch" THEN Lists!Answer(r.key)
                                     ELSE IF r.op = "delete" /\ r.arg \notin server
                                     THEN Failed ELSE Ok]}
    <3>1. PICK answer : answer = IF r.op = "fetch" THEN Lists!Answer(r.key)
                                 ELSE IF r.op = "delete" /\ r.arg \notin server
                                 THEN Failed ELSE Ok
      OBVIOUS
    <3>2. Lists!Answer(r.key) \in Lists!Answers
      BY <1>1, ListsAnswer
    <3>3. [r EXCEPT !.got = answer] \in Lists!Requests
      BY <1>1, <3>1, <3>2, ListsAnswered
    <3> QED
      BY <2>1, <2>3, <3>1, <3>3
  <2> QED
    BY <2>2, <2>3 DEF Lists!Serve
<1>4. server' = CASE r.op = "create" -> server \cup {r.arg}
                  [] r.op = "delete" -> server \ {r.arg}
                  [] OTHER           -> server
  BY DEF Lists!Serve
<1>5. server' \subseteq Lists!Ids
  BY <1>1, <1>2, <1>4, ListsRequest
<1>6. CASE /\ r.op = "fetch" /\ q.got = Lists!Nothing /\ bounds.failures < MaxFailures
           /\ bounds' = [bounds EXCEPT !.failures = bounds.failures + 1]
  <2>1. bounds' \in ListsBounds /\ bounds'.failures # 0 /\ bounds'.moves = bounds.moves
    BY <1>1, <1>6, Constants DEF ListsBounds
  <2>2. q.got.rows = {}
    BY <1>6 DEF Lists!Nothing
  <2> QED
    BY <1>1, <1>3, <1>5, <2>1, <2>2, ListsSwap
<1>7. CASE /\ UNCHANGED bounds
           /\ q.got = IF r.op = "fetch" THEN Lists!Answer(r.key)
                      ELSE IF r.op = "delete" /\ r.arg \notin server THEN Failed ELSE Ok
  <2>1. CASE r.op = "fetch"
    <3>1. page.role = "student" /\ page.kind \in {"exams", "courses"} =>
            \A i \in q.got.rows : Lists!Mine(i)
      BY <1>1, <1>7, <2>1, ListsAnswer
    <3>2. UNCHANGED server
      BY <1>4, <2>1
    <3> QED
      BY <1>1, <1>2, <1>3, <1>5, <1>7, <2>1, <3>1, <3>2, ListsSwap
  <2>2. CASE r.op = "create" \/ (r.op = "delete" /\ r.arg \in server)
    BY <1>1, <1>2, <1>3, <1>5, <1>7, <2>2, ListsSwap
  <2>3. CASE r.op = "enrolments" \/ (r.op = "delete" /\ r.arg \notin server)
    <3>1. UNCHANGED server
      BY <1>4, <2>3
    <3> QED
      BY <1>1, <1>2, <1>3, <1>5, <1>7, <2>3, <3>1, ListsSwap
  <2> QED
    BY <1>2, <2>1, <2>2, <2>3
<1> QED
  BY <1>3, <1>6, <1>7

LEMMA ListsLose ==
  ASSUME ListsInv, NEW r \in net, Lists!Lose(r)
  PROVE  ListsInv'
<1>1. /\ bounds \in ListsBounds /\ r \in Lists!Requests /\ server \subseteq Lists!Ids
      /\ UNCHANGED <<page, cache, server>> /\ bounds.failures < MaxFailures
      /\ bounds' = [bounds EXCEPT !.failures = bounds.failures + 1]
  BY ListsTypes DEF ListsInv, Lists!Lose
<1>2. PICK q : /\ q.op = r.op /\ q.key = r.key /\ q.got = Failed /\ q \in Lists!Requests
               /\ net' = (net \ {r}) \cup {q}
  <2>1. PICK q : q = [r EXCEPT !.got = Failed]
    OBVIOUS
  <2>2. q \in Lists!Requests
    BY <1>1, <2>1, ListsAnswered
  <2>3. q.op = r.op /\ q.key = r.key /\ q.got = Failed
    BY <1>1, <2>1, ListsRequest
  <2> QED
    BY <2>1, <2>2, <2>3 DEF Lists!Lose
<1>3. bounds' \in ListsBounds /\ bounds'.failures # 0 /\ bounds'.moves = bounds.moves
  BY <1>1, Constants DEF ListsBounds
<1> QED
  BY <1>1, <1>2, <1>3, ListsSwap

LEMMA ListsFetchArrives ==
  ASSUME ListsInv, NEW r \in net, r.got # None, Lists!FetchArrives(r), UNCHANGED <<server, bounds>>
  PROVE  ListsInv'
<1> USE DEF ListsInv
<1>1. /\ page \in ListsState /\ bounds \in ListsBounds /\ net \subseteq Lists!Requests
      /\ DOMAIN cache \subseteq Lists!Keys /\ \A k \in DOMAIN cache : cache[k] \in Lists!Answers
      /\ server \subseteq Lists!Ids /\ r \in Lists!Requests
  BY ListsTypes
<1>2. /\ r.op = "fetch" /\ net' = net \ {r} /\ r.key \in Lists!Keys
      /\ r.got \in Lists!Answers \cup {Failed}
  BY <1>1, ListsRequest DEF Lists!FetchArrives
<1>3. /\ page' \in ListsState /\ page'.kind = page.kind /\ page'.role = page.role
      /\ page'.group = page.group /\ page'.mine = page.mine /\ page'.known = page.known
      /\ page'.zero = page.zero /\ page'.dialog = page.dialog /\ page'.at = page.at
      /\ page'.creating = page.creating /\ page'.deleting = page.deleting
      /\ page'.early = page.early /\ Lists!Key(page') = Lists!Key(page)
  <2>1. PICK e : e = IF r.got = Failed THEN page.errors \cup {r.key} ELSE page.errors \ {r.key}
    OBVIOUS
  <2>2. page' = [page EXCEPT !.errors = e]
    BY <2>1 DEF Lists!FetchArrives
  <2>3. e \in SUBSET Lists!Keys
    BY <1>1, <1>2, <2>1 DEF ListsState
  <2> QED
    BY <1>1, <2>2, <2>3 DEF ListsState, Lists!Key
<1>4. /\ \A k \in DOMAIN cache' : \/ k \in DOMAIN cache /\ cache'[k] = cache[k] /\ (k # r.key \/ r.got = Failed)
                                  \/ k = r.key /\ cache'[k] = r.got /\ r.got # Failed
  BY DEF Lists!FetchArrives
<1>5. Lists!TypeOK'
  BY <1>1, <1>2, <1>3, <1>4, ListsTypes
<1>6. ListsOf("delete")' = ListsOf("delete") /\ ListsOf("create")' = ListsOf("create")
  BY <1>2 DEF ListsOf
<1>7. Locks(ListsOf("delete"), page.deleting)'
  BY <1>3, <1>6 DEF Locks
<1>8. ~page'.zero => Locks(ListsOf("create"), page.creating)'
  BY <1>3, <1>6 DEF Locks
<1>9. ListsRoles'
  BY <1>2, <1>3 DEF ListsRoles
<1>10. ListsKeys'
  BY <1>2, <1>3, <1>4 DEF ListsKeys
<1>11. ListsOwn'
  <2>1. \A i : Lists!Mine(i)' <=> Lists!Mine(i)
    BY <1>3 DEF Lists!Mine, Lists!GroupOf
  <2> QED
    BY <1>2, <1>3, <1>4, <2>1 DEF ListsOwn
<1>12. ListsFresh'
  <2> SUFFICES ASSUME bounds.moves = 0, bounds.failures = 0, ~ListsUnheard', ~page.early
               PROVE  /\ \A s \in net' : s.op = "fetch" /\ s.got # None =>
                           s.got = Lists!Answer(s.key)'
                      /\ \A k \in DOMAIN cache' :
                           (\A s \in net' : s.op = "fetch" => s.key # k) =>
                             cache'[k] = Lists!Answer(k)'
    BY <1>3 DEF ListsFresh
  <2>1. \A k : Lists!Answer(k)' = Lists!Answer(k)
    BY <1>3, ListsSame
  <2>2. ~ListsUnheard
    BY <1>2 DEF ListsUnheard
  <2>3. /\ \A s \in net : s.op = "fetch" /\ s.got # None => s.got = Lists!Answer(s.key)
        /\ \A k \in DOMAIN cache :
             (\A s \in net : s.op = "fetch" => s.key # k) => cache[k] = Lists!Answer(k)
    BY <2>2 DEF ListsFresh
  <2>4. r.got = Lists!Answer(r.key) /\ r.got # Failed
    <3>1. r.got = Lists!Answer(r.key)
      BY <1>2, <2>3
    <3>2. Lists!Answer(r.key) \in Lists!Answers
      BY <1>1, ListsAnswer
    <3> QED
      BY <3>1, <3>2, PagesAssumption
  <2>5. \A k : k # r.key /\ (\A s \in net' : s.op = "fetch" => s.key # k) =>
               (\A s \in net : s.op = "fetch" => s.key # k)
    BY <1>2
  <2> QED
    BY <1>2, <1>4, <2>1, <2>3, <2>4, <2>5
<1> QED
  BY <1>5, <1>7, <1>8, <1>9, <1>10, <1>11, <1>12

LEMMA ListsEnrolmentsArrive ==
  ASSUME ListsInv, NEW r \in net, r.got # None, Lists!EnrolmentsArrive(r),
         UNCHANGED <<server, bounds>>
  PROVE  ListsInv'
<1> USE DEF ListsInv
<1>1. /\ page \in ListsState /\ bounds \in ListsBounds /\ net \subseteq Lists!Requests
      /\ server \subseteq Lists!Ids /\ r \in Lists!Requests /\ r.op = "enrolments"
      /\ UNCHANGED cache
  BY ListsTypes DEF Lists!EnrolmentsArrive
<1>2. page.role = "student"
  BY <1>1 DEF ListsRoles
<1>3. /\ page' \in ListsState /\ page'.kind = page.kind /\ page'.role = page.role
      /\ page'.group = page.group /\ page'.mine = page.mine
      /\ page'.zero = page.zero /\ page'.dialog = page.dialog /\ page'.at = page.at
      /\ page'.creating = page.creating /\ page'.deleting = page.deleting
      /\ page'.early = page.early
  <2>1. PICK g : g = IF r.got = Failed THEN None ELSE page.mine
    OBVIOUS
  <2>2. page' = [page EXCEPT !.known = g]
    BY <2>1 DEF Lists!EnrolmentsArrive
  <2>3. g \in {None} \cup SUBSET Groups
    BY <1>1, <2>1 DEF ListsState
  <2> QED
    BY <1>1, <2>2, <2>3 DEF ListsState
<1> DEFINE q == Lists!Fetch(Lists!Key(page'))
<1>4. q \in Lists!Requests /\ q.op = "fetch" /\ q.got = None
  BY <1>3, ListsKey
<1>5. \A s \in net' : s \in net \ {r} \/ s = q
  BY DEF Lists!EnrolmentsArrive
<1>6. \A s \in net : s # r => s \in net'
  BY DEF Lists!EnrolmentsArrive
<1> HIDE DEF q
<1>7. Lists!TypeOK'
  BY <1>1, <1>3, <1>4, <1>5, ListsTypes
<1>8. ListsOf("delete")' = ListsOf("delete") /\ ListsOf("create")' = ListsOf("create")
  BY <1>1, <1>4, <1>5, <1>6 DEF ListsOf
<1>9. Locks(ListsOf("delete"), page.deleting)'
  BY <1>3, <1>8 DEF Locks
<1>10. ~page'.zero => Locks(ListsOf("create"), page.creating)'
  BY <1>3, <1>8 DEF Locks
<1>11. ListsRoles'
  BY <1>3, <1>4, <1>5 DEF ListsRoles
<1>12. ListsKeys'
  BY <1>2, <1>3 DEF ListsKeys
<1>13. ListsOwn'
  <2>1. \A i : Lists!Mine(i)' <=> Lists!Mine(i)
    BY <1>3 DEF Lists!Mine, Lists!GroupOf
  <2> QED
    BY <1>1, <1>3, <1>4, <1>5, <2>1 DEF ListsOwn
<1>14. ListsFresh'
  <2>1. \A k : Lists!Answer(k)' = Lists!Answer(k)
    BY <1>3, ListsSame
  <2>2. ListsUnheard => ListsUnheard'
    BY <1>1, <1>6 DEF ListsUnheard
  <2>3. \A k : (\A s \in net' : s.op = "fetch" => s.key # k) =>
               (\A s \in net : s.op = "fetch" => s.key # k)
    BY <1>1, <1>6
  <2> QED
    BY <1>1, <1>3, <1>4, <1>5, <2>1, <2>2, <2>3 DEF ListsFresh
<1> QED
  BY <1>7, <1>9, <1>10, <1>11, <1>12, <1>13, <1>14

\* The page after the answer to a change.
LEMMA ListsClosed ==
  ASSUME NEW p \in ListsState, NEW d
  PROVE  /\ Lists!Closed(p, d) \in ListsState
         /\ Lists!Closed(p, d).dialog \in {"none", p.dialog}
         /\ \A f \in {"kind", "role", "group", "mine", "at", "filter", "known", "creating", "zero",
                      "deleting", "early"} : Lists!Closed(p, d)[f] = p[f]
  BY DEF Lists!Closed, ListsState

ListsDone(op) == {Lists!Done(op), [Lists!Done(op) EXCEPT !.at = 1]}

LEMMA ListsUnlocked ==
  ASSUME page \in ListsState, NEW op \in {"create", "delete"},
         NEW p \in {Lists!Unlock(op)} \cup ListsDone(op)
  PROVE  /\ p \in ListsState /\ p.at \in {1, page.at} /\ p.dialog = page.dialog
         /\ p.kind = page.kind /\ p.role = page.role /\ p.group = page.group
         /\ p.mine = page.mine /\ p.filter = page.filter /\ p.known = page.known
         /\ p.zero = page.zero
         /\ IF op = "create" THEN p.creating = page.zero /\ p.deleting = page.deleting
                             ELSE p.deleting = FALSE /\ p.creating = page.creating
         /\ p = Lists!Unlock(op) => p.early = page.early
         /\ p \in ListsDone(op) => (p.early <=> ~Lists!Cached(page))
<1>1. PICK done : done = Lists!Unlock(op)
  OBVIOUS
<1>2. /\ done \in ListsState /\ done.at = page.at /\ done.dialog = page.dialog
      /\ done.kind = page.kind /\ done.role = page.role /\ done.group = page.group
      /\ done.mine = page.mine /\ done.filter = page.filter /\ done.known = page.known
      /\ done.zero = page.zero /\ done.early = page.early
      /\ IF op = "create" THEN done.creating = page.zero /\ done.deleting = page.deleting
                          ELSE done.deleting = FALSE /\ done.creating = page.creating
  <2>1. CASE op = "create"
    <3>1. PICK b \in BOOLEAN : b = page.zero
      BY DEF ListsState
    <3>2. done = [page EXCEPT !.creating = b]
      BY <1>1, <2>1, <3>1 DEF Lists!Unlock
    <3> QED
      BY <2>1, <3>1, <3>2 DEF ListsState
  <2>2. CASE op = "delete"
    <3>1. done = [page EXCEPT !.deleting = FALSE]
      BY <1>1, <2>2 DEF Lists!Unlock
    <3> QED
      BY <2>2, <3>1 DEF ListsState
  <2> QED
    BY <2>1, <2>2
<1>3. PICK e \in BOOLEAN : e <=> ~Lists!Cached(page)
  OBVIOUS
<1>4. PICK marked : marked = [done EXCEPT !.early = e]
  OBVIOUS
<1>5. marked = Lists!Done(op)
  <2>1. (~Lists!Cached(page)) = e
    BY <1>3, Zenon DEF Lists!Cached
  <2> QED
    BY <1>1, <1>4, <2>1 DEF Lists!Done
<1>6. /\ marked \in ListsState /\ marked.at = done.at /\ marked.dialog = done.dialog
      /\ marked.kind = done.kind /\ marked.role = done.role /\ marked.group = done.group
      /\ marked.mine = done.mine /\ marked.filter = done.filter /\ marked.known = done.known
      /\ marked.zero = done.zero /\ marked.creating = done.creating
      /\ marked.deleting = done.deleting /\ marked.early = e
  BY <1>2, <1>4 DEF ListsState
<1>7. PICK first : first = [marked EXCEPT !.at = 1]
  OBVIOUS
<1>8. /\ first \in ListsState /\ first.at = 1 /\ first.dialog = marked.dialog
      /\ first.kind = marked.kind /\ first.role = marked.role /\ first.group = marked.group
      /\ first.mine = marked.mine /\ first.filter = marked.filter /\ first.known = marked.known
      /\ first.zero = marked.zero /\ first.creating = marked.creating
      /\ first.deleting = marked.deleting /\ first.early = marked.early
  <2>1. PICK n \in Nat \ {0} : n = 1
    OBVIOUS
  <2>2. first = [marked EXCEPT !.at = n]
    BY <1>7, <2>1
  <2>3. /\ first \in ListsState /\ first.at = n /\ first.dialog = marked.dialog
        /\ first.kind = marked.kind /\ first.role = marked.role /\ first.group = marked.group
        /\ first.mine = marked.mine /\ first.filter = marked.filter
        /\ first.known = marked.known /\ first.zero = marked.zero
        /\ first.creating = marked.creating /\ first.deleting = marked.deleting
        /\ first.early = marked.early
    BY <1>6, <2>2 DEF ListsState
  <2> QED
    BY <2>1, <2>3
<1>9. p \in {done, marked, first}
  BY <1>1, <1>5, <1>7 DEF ListsDone
<1>10. p \in ListsDone(op) => (p.early <=> ~Lists!Cached(page))
  BY <1>3, <1>5, <1>6, <1>7, <1>8 DEF ListsDone
<1>11. p = Lists!Unlock(op) => p.early = page.early
  BY <1>1, <1>2
<1> QED
  BY <1>2, <1>6, <1>8, <1>9, <1>10, <1>11

\* What is on its way after it, when there is a list for the key and when there is none.
LEMMA ListsRefetch ==
  ASSUME NEW w, NEW k
  PROVE  /\ k \in DOMAIN cache => Lists!Fetch(k) \in Lists!Refetch(w, k)
         /\ \A s \in Lists!Refetch(w, k) :
              \/ s \in w /\ (s.op = "fetch" /\ k \in DOMAIN cache => s.key # k)
              \/ s = Lists!Fetch(k)
         /\ \A s \in w : s.op # "fetch" => s \in Lists!Refetch(w, k)
  BY DEF Lists!Refetch, Lists!RefetchOrJoin, Lists!FetchesOf

LEMMA ListsAfterChange ==
  ASSUME NEW r \in net, Lists!ChangeArrives(r)
  PROVE  /\ r.op \in {"create", "delete"} /\ UNCHANGED cache
         /\ \E p \in IF r.got = Ok THEN ListsDone(r.op)
                                  ELSE {Lists!Unlock(r.op)} :
              page' = p \/ \E d : page' = Lists!Closed(p, d)
         /\ IF r.got = Ok
            THEN /\ \A s \in net' :
                      \/ /\ s \in net \ {r}
                         /\ s.op = "fetch" /\ Lists!Cached(page) => s.key # Lists!Key(page)
                      \/ s = Lists!Fetch(Lists!Key(page))
                      \/ s = Lists!Fetch(Lists!Key([page EXCEPT !.at = 1]))
                 /\ Lists!Cached(page) => Lists!Fetch(Lists!Key(page)) \in net'
                 /\ \A s \in net \ {r} : s.op # "fetch" => s \in net'
            ELSE net' = net \ {r}
<1>1. r.op \in {"create", "delete"} /\ UNCHANGED cache
  BY DEF Lists!ChangeArrives
<1>2. \E p \in IF r.got = Ok THEN ListsDone(r.op)
                            ELSE {Lists!Unlock(r.op)} :
        page' = p \/ \E d : page' = Lists!Closed(p, d)
  <2>1. CASE Lists!ExamsChanged(r)
    BY <2>1 DEF Lists!ExamsChanged, ListsDone
  <2>2. CASE Lists!CoursesChanged(r)
    BY <2>2 DEF Lists!CoursesChanged, ListsDone
  <2>3. CASE Lists!UsersChanged(r)
    BY <2>3 DEF Lists!UsersChanged, ListsDone
  <2> QED
    BY <2>1, <2>2, <2>3 DEF Lists!ChangeArrives
<1>3. CASE r.got = Ok
  <2> DEFINE again == Lists!Refetch(net \ {r}, Lists!Key(page))
             key1  == Lists!Key([page EXCEPT !.at = 1])
  <2>1. net' = again \/ net' = again \cup {Lists!Fetch(key1)}
    <3>1. CASE Lists!ExamsChanged(r) \/ Lists!CoursesChanged(r)
      BY <1>3, <3>1 DEF Lists!ExamsChanged, Lists!CoursesChanged
    <3>2. CASE Lists!UsersChanged(r)
      BY <1>3, <3>2 DEF Lists!UsersChanged
    <3> QED
      BY <3>1, <3>2 DEF Lists!ChangeArrives
  <2>2. /\ Lists!Cached(page) => Lists!Fetch(Lists!Key(page)) \in again
        /\ \A s \in again :
             \/ /\ s \in net \ {r}
                /\ s.op = "fetch" /\ Lists!Cached(page) => s.key # Lists!Key(page)
             \/ s = Lists!Fetch(Lists!Key(page))
        /\ \A s \in net \ {r} : s.op # "fetch" => s \in again
    BY ListsRefetch DEF Lists!Cached
  <2> HIDE DEF again, key1
  <2>3. /\ \A s \in net' :
             \/ /\ s \in net \ {r}
                /\ s.op = "fetch" /\ Lists!Cached(page) => s.key # Lists!Key(page)
             \/ s = Lists!Fetch(Lists!Key(page))
             \/ s = Lists!Fetch(key1)
        /\ Lists!Cached(page) => Lists!Fetch(Lists!Key(page)) \in net'
        /\ \A s \in net \ {r} : s.op # "fetch" => s \in net'
    BY <2>1, <2>2
  <2> QED
    BY <1>1, <1>2, <1>3, <2>3 DEF key1
<1>4. CASE r.got # Ok
  <2>1. net' = net \ {r}
    BY <1>4 DEF Lists!ChangeArrives, Lists!ExamsChanged, Lists!CoursesChanged, Lists!UsersChanged
  <2> QED
    BY <1>1, <1>2, <1>4, <2>1
<1> QED
  BY <1>3, <1>4

LEMMA ListsChangeArrives ==
  ASSUME ListsInv, NEW r \in net, r.got # None, Lists!ChangeArrives(r), UNCHANGED <<server, bounds>>
  PROVE  ListsInv'
<1> USE DEF ListsInv
<1>1. /\ page \in ListsState /\ bounds \in ListsBounds /\ net \subseteq Lists!Requests
      /\ DOMAIN cache \subseteq Lists!Keys /\ \A k \in DOMAIN cache : cache[k] \in Lists!Answers
      /\ server \subseteq Lists!Ids /\ r \in Lists!Requests /\ r.op \in {"create", "delete"}
      /\ UNCHANGED cache
  BY ListsTypes DEF Lists!ChangeArrives
<1>2. page.role = "staff"
  BY <1>1 DEF ListsRoles, ListsState
<1>3. /\ page' \in ListsState /\ page'.at \in {1, page.at} /\ page'.dialog \in {"none", page.dialog}
      /\ page'.kind = page.kind /\ page'.role = page.role /\ page'.group = page.group
      /\ page'.mine = page.mine /\ page'.filter = page.filter /\ page'.known = page.known
      /\ page'.zero = page.zero
      /\ IF r.op = "create" THEN page'.creating = page.zero /\ page'.deleting = page.deleting
                            ELSE page'.deleting = FALSE /\ page'.creating = page.creating
      /\ ~page'.early => IF r.got = Ok THEN Lists!Cached(page) ELSE ~page.early
  <2>1. PICK p \in IF r.got = Ok THEN ListsDone(r.op)
                                ELSE {Lists!Unlock(r.op)} :
          page' = p \/ \E d : page' = Lists!Closed(p, d)
    BY ListsAfterChange
  <2>2. /\ p \in ListsState /\ p.at \in {1, page.at} /\ p.dialog = page.dialog
        /\ p.kind = page.kind /\ p.role = page.role /\ p.group = page.group
        /\ p.mine = page.mine /\ p.filter = page.filter /\ p.known = page.known
        /\ p.zero = page.zero
        /\ IF r.op = "create" THEN p.creating = page.zero /\ p.deleting = page.deleting
                              ELSE p.deleting = FALSE /\ p.creating = page.creating
        /\ ~p.early => IF r.got = Ok THEN Lists!Cached(page) ELSE ~page.early
    <3>1. PICK op : op = r.op
      OBVIOUS
    <3>2. op \in {"create", "delete"}
      BY <1>1, <3>1
    <3>3. CASE r.got = Ok
      <4>1. p \in ListsDone(op)
        BY <2>1, <3>1, <3>3
      <4>2. p \in {Lists!Unlock(op)} \cup ListsDone(op)
        BY <4>1
      <4>3. /\ p \in ListsState /\ p.at \in {1, page.at} /\ p.dialog = page.dialog
            /\ p.kind = page.kind /\ p.role = page.role /\ p.group = page.group
            /\ p.mine = page.mine /\ p.filter = page.filter /\ p.known = page.known
            /\ p.zero = page.zero
            /\ IF op = "create" THEN p.creating = page.zero /\ p.deleting = page.deleting
                                ELSE p.deleting = FALSE /\ p.creating = page.creating
        BY <1>1, <3>2, <4>2, ListsUnlocked
      <4>4. p.early <=> ~Lists!Cached(page)
        BY <1>1, <3>2, <4>1, <4>2, ListsUnlocked
      <4> QED
        BY <3>1, <3>3, <4>3, <4>4
    <3>4. CASE r.got # Ok
      <4>1. p = Lists!Unlock(op)
        BY <2>1, <3>1, <3>4
      <4>2. p \in {Lists!Unlock(op)} \cup ListsDone(op)
        BY <4>1
      <4>3. /\ p \in ListsState /\ p.at \in {1, page.at} /\ p.dialog = page.dialog
            /\ p.kind = page.kind /\ p.role = page.role /\ p.group = page.group
            /\ p.mine = page.mine /\ p.filter = page.filter /\ p.known = page.known
            /\ p.zero = page.zero
            /\ IF op = "create" THEN p.creating = page.zero /\ p.deleting = page.deleting
                                ELSE p.deleting = FALSE /\ p.creating = page.creating
        BY <1>1, <3>2, <4>2, ListsUnlocked
      <4>4. p.early = page.early
        BY <1>1, <3>2, <4>1, <4>2, ListsUnlocked
      <4> QED
        BY <3>1, <3>4, <4>3, <4>4
    <3> QED
      BY <3>3, <3>4
  <2>3. /\ page' \in ListsState /\ page'.dialog \in {"none", p.dialog}
        /\ page'.kind = p.kind /\ page'.role = p.role /\ page'.group = p.group
        /\ page'.mine = p.mine /\ page'.at = p.at /\ page'.filter = p.filter
        /\ page'.known = p.known /\ page'.creating = p.creating /\ page'.zero = p.zero
        /\ page'.deleting = p.deleting /\ page'.early = p.early
    <3>1. CASE page' = p
      BY <2>2, <3>1
    <3>2. CASE page' # p
      <4>1. PICK d : page' = Lists!Closed(p, d)
        BY <2>1, <3>2
      <4> QED
        BY <2>2, <4>1, ListsClosed
    <3> QED
      BY <3>1, <3>2
  <2> QED
    BY <2>2, <2>3
<1> DEFINE key1 == Lists!Key([page EXCEPT !.at = 1])
<1>4. key1 \in Lists!Keys /\ Lists!Fetch(key1) \in Lists!Requests
      /\ Lists!Fetch(key1).op = "fetch" /\ Lists!Fetch(key1).got = None
  <2>1. PICK n \in Nat \ {0} : n = 1
    OBVIOUS
  <2>2. [page EXCEPT !.at = n] \in ListsState
    BY <1>1 DEF ListsState
  <2> QED
    BY <2>1, <2>2, ListsKey
<1>5. Lists!Fetch(Lists!Key(page)) \in Lists!Requests /\ Lists!Fetch(Lists!Key(page)).op = "fetch"
      /\ Lists!Fetch(Lists!Key(page)).got = None
      /\ Lists!Fetch(Lists!Key(page)).key = Lists!Key(page)
  BY <1>1, ListsKey
<1>6. bounds.moves = 0 => key1 = Lists!Key(page) /\ Lists!Key(page') = Lists!Key(page)
  BY <1>1, <1>3 DEF ListsKeys, ListsState, Lists!Key
<1> HIDE DEF key1
<1>7. IF r.got = Ok
      THEN /\ \A s \in net' :
                \/ /\ s \in net \ {r}
                   /\ s.op = "fetch" /\ Lists!Cached(page) => s.key # Lists!Key(page)
                \/ s = Lists!Fetch(Lists!Key(page))
                \/ s = Lists!Fetch(key1)
           /\ Lists!Cached(page) => Lists!Fetch(Lists!Key(page)) \in net'
           /\ \A s \in net \ {r} : s.op # "fetch" => s \in net'
      ELSE net' = net \ {r}
  BY ListsAfterChange DEF key1
<1>8. /\ \A s \in net' : s \in net \ {r} \/ (s \in Lists!Requests /\ s.op = "fetch" /\ s.got = None)
      /\ \A s \in net \ {r} : s.op # "fetch" => s \in net'
  BY <1>4, <1>5, <1>7
<1>9. Lists!TypeOK'
  BY <1>1, <1>3, <1>8, ListsTypes
<1>10. \A op \in {"create", "delete"} : ListsOf(op)' = ListsOf(op) \ {r}
  BY <1>8 DEF ListsOf
<1>11. Locks(ListsOf("delete"), page.deleting)'
  <2>1. CASE r.op = "delete"
    BY <1>3, <1>10, <2>1 DEF Locks, ListsOf
  <2>2. CASE r.op = "create"
    <3>1. ListsOf("delete")' = ListsOf("delete")
      BY <1>10, <2>2 DEF ListsOf
    <3> QED
      BY <1>3, <2>2, <3>1 DEF Locks
  <2> QED
    BY <1>1, <2>1, <2>2
<1>12. ~page'.zero => Locks(ListsOf("create"), page.creating)'
  <2> SUFFICES ASSUME ~page.zero
               PROVE  Locks(ListsOf("create"), page.creating)'
    BY <1>3
  <2>1. CASE r.op = "create"
    BY <1>3, <1>10, <2>1 DEF Locks, ListsOf
  <2>2. CASE r.op = "delete"
    <3>1. ListsOf("create")' = ListsOf("create")
      BY <1>10, <2>2 DEF ListsOf
    <3> QED
      BY <1>3, <2>2, <3>1 DEF Locks
  <2> QED
    BY <1>1, <2>1, <2>2
<1>13. ListsRoles'
  BY <1>2, <1>3, <1>8 DEF ListsRoles
<1>14. ListsKeys'
  <2> SUFFICES ASSUME bounds.moves = 0
               PROVE  /\ page'.at = 1
                      /\ \A s \in net' : s.op = "fetch" => s.key = Lists!Key(page')
                      /\ \A k \in DOMAIN cache : k = Lists!Key(page')
    BY <1>1 DEF ListsKeys
  <2>1. \A s \in net' : s.op = "fetch" => s.key = Lists!Key(page)
    BY <1>2, <1>5, <1>6, <1>7 DEF ListsKeys
  <2> QED
    BY <1>2, <1>3, <1>6, <2>1 DEF ListsKeys
<1>15. ListsOwn'
  BY <1>2, <1>3 DEF ListsOwn
<1>16. ListsFresh'
  <2> SUFFICES ASSUME bounds.moves = 0, bounds.failures = 0, ~ListsUnheard', ~page'.early
               PROVE  /\ \A s \in net' : s.op = "fetch" /\ s.got # None =>
                           s.got = Lists!Answer(s.key)'
                      /\ \A k \in DOMAIN cache :
                           (\A s \in net' : s.op = "fetch" => s.key # k) =>
                             cache[k] = Lists!Answer(k)'
    BY <1>1 DEF ListsFresh
  <2>1. \A k : Lists!Answer(k)' = Lists!Answer(k)
    BY <1>3, ListsSame
  <2>2. CASE r.got = Ok
    <3>1. Lists!Cached(page)
      BY <1>3, <2>2
    <3>2. \A s \in net' : s.op = "fetch" => s.got = None
      BY <1>2, <1>4, <1>5, <1>7, <2>2, <3>1 DEF ListsKeys
    <3>3. \A k \in DOMAIN cache : \E s \in net' : s.op = "fetch" /\ s.key = k
      BY <1>2, <1>5, <1>7, <2>2, <3>1 DEF ListsKeys
    <3> QED
      BY <3>2, <3>3
  <2>3. CASE r.got # Ok
    <3>1. net' = net \ {r}
      BY <1>7, <2>3
    <3>2. ~ListsUnheard /\ ~page.early
      BY <1>3, <2>3, <3>1 DEF ListsUnheard
    <3>3. /\ \A s \in net : s.op = "fetch" /\ s.got # None => s.got = Lists!Answer(s.key)
          /\ \A k \in DOMAIN cache :
               (\A s \in net : s.op = "fetch" => s.key # k) => cache[k] = Lists!Answer(k)
      BY <3>2 DEF ListsFresh
    <3>4. \A k : (\A s \in net' : s.op = "fetch" => s.key # k) =>
                 (\A s \in net : s.op = "fetch" => s.key # k)
      BY <1>1, <3>1
    <3> QED
      BY <2>1, <3>1, <3>3, <3>4
  <2> QED
    BY <2>2, <2>3
<1> QED
  BY <1>9, <1>11, <1>12, <1>13, <1>14, <1>15, <1>16

LEMMA ListsNext ==
  ASSUME ListsInv, Lists!Next
  PROVE  ListsInv'
<1>1. CASE \/ Lists!TurnPage \/ Lists!Filter \/ Lists!OpenForm \/ Lists!OpenDelete
           \/ Lists!CloseDialog \/ Lists!TryAgain
  BY <1>1, ListsUser
<1>2. CASE Lists!ExamsCreate \/ Lists!Create \/ Lists!Delete
  BY <1>2, ListsChanges
<1>3. ASSUME NEW r \in net, Lists!Serve(r)
      PROVE  ListsInv'
  BY <1>3, ListsServe
<1>4. ASSUME NEW r \in net, Lists!Lose(r)
      PROVE  ListsInv'
  BY <1>4, ListsLose
<1>5. ASSUME NEW r \in net, Lists!Arrive(r)
      PROVE  ListsInv'
  BY <1>5, ListsFetchArrives, ListsEnrolmentsArrive, ListsChangeArrives DEF Lists!Arrive
<1> QED
  BY <1>1, <1>2, <1>3, <1>4, <1>5 DEF Lists!Next

LEMMA ListsStays ==
  ASSUME ListsInv, UNCHANGED vars
  PROVE  ListsInv'
<1>1. UNCHANGED <<page, cache, net, server, bounds>>
  BY DEF vars
<1>2. \A k : Lists!Answer(k)' = Lists!Answer(k)
  BY <1>1, ListsSame
<1>3. Lists!TypeOK'
  BY <1>1, ListsTypes DEF ListsInv
<1>4. Locks(ListsOf("delete"), page.deleting)' /\ (~page'.zero => Locks(ListsOf("create"), page.creating)')
  BY <1>1 DEF ListsInv, ListsOf, Locks
<1>5. ListsRoles' /\ ListsKeys' /\ ListsOwn'
  BY <1>1 DEF ListsInv, ListsRoles, ListsKeys, ListsOwn, Lists!Key, Lists!Mine, Lists!GroupOf
<1>6. ListsFresh'
  BY <1>1, <1>2 DEF ListsInv, ListsFresh, ListsUnheard
<1> QED
  BY <1>3, <1>4, <1>5, <1>6 DEF ListsInv

LEMMA ListsPromises ==
  ASSUME ListsInv
  PROVE  /\ Lists!TypeOK /\ Lists!LockedWhileInFlight /\ Lists!StudentsSeeTheirOwn
         /\ Lists!SettledListIsCurrent
<1>1. page \in ListsState
  BY ListsTypes DEF ListsInv
<1>2. page.deleting \in BOOLEAN /\ page.creating \in BOOLEAN
  BY <1>1 DEF ListsState
<1>3. \A op : Lists!Cardinality(Lists!InFlight(op)) = Cardinality(ListsOf(op))
  BY DEF Lists!Cardinality, Cardinality, Lists!InFlight, ListsOf
<1>4. Lists!LockedWhileInFlight
  BY <1>2, <1>3, LocksCount DEF ListsInv, Lists!LockedWhileInFlight
<1>5. Lists!StudentsSeeTheirOwn
  BY DEF ListsInv, ListsOwn, Lists!StudentsSeeTheirOwn, Lists!Rows, Lists!Shown, Lists!Cached
<1>6. Lists!SettledListIsCurrent
  <2> SUFFICES ASSUME net = {}, bounds.moves = 0, bounds.failures = 0, ~page.early,
                      Lists!Key(page) \in DOMAIN cache
               PROVE  cache[Lists!Key(page)] = Lists!Answer(Lists!Key(page))
    BY DEF Lists!SettledListIsCurrent, Lists!Cached
  <2> QED
    BY DEF ListsInv, ListsFresh, ListsUnheard
<1> QED
  BY <1>4, <1>5, <1>6 DEF ListsInv

-----------------------------------------------------------------------------
(***************************************************************************)
(* Pages.                                                                  *)
(***************************************************************************)

Opened == {"roster", "exams", "lists", "questions", "records"}

\* The invariant of the page that is open.
PagesInv ==
  /\ open \in Opened
  /\ open = "roster"    => RosterInv
  /\ open = "exams"     => ExamsInv
  /\ open = "lists"     => ListsInv
  /\ open = "questions" => QuestionsInv
  /\ open = "records"   => FormsInv

LEMMA PagesInit == Init => PagesInv
<1> SUFFICES ASSUME Init
             PROVE  PagesInv
  OBVIOUS
<1>1. CASE open = "roster" /\ Roster!Init
  BY <1>1, RosterInit DEF PagesInv, Opened
<1>2. CASE open = "exams" /\ Exams!Init
  BY <1>2, ExamsInit DEF PagesInv, Opened
<1>3. CASE open = "lists" /\ Lists!Init
  BY <1>3, ListsInit DEF PagesInv, Opened
<1>4. CASE open = "questions" /\ Questions!Init
  BY <1>4, QuestionsInit DEF PagesInv, Opened
<1>5. CASE open = "records" /\ Forms!Init
  BY <1>5, FormsInit DEF PagesInv, Opened
<1> QED
  BY <1>1, <1>2, <1>3, <1>4, <1>5 DEF Init

\* A step, and what the steps of three of the pages keep to.
LEMMA PagesNext ==
  PagesInv /\ [Next]_vars =>
    /\ PagesInv'
    /\ open = "roster" => Roster!SpinnerEnds
    /\ open = "exams" => Exams!SpinnerEnds
    /\ open = "records" => Forms!UntouchedStays
<1> SUFFICES ASSUME PagesInv, [Next]_vars
             PROVE  /\ PagesInv'
                    /\ open = "roster" => Roster!SpinnerEnds
                    /\ open = "exams" => Exams!SpinnerEnds
                    /\ open = "records" => Forms!UntouchedStays
  OBVIOUS
<1>1. open' = open /\ open \in Opened
  BY DEF Next, vars, PagesInv
<1>2. CASE open = "roster"
  <2>1. RosterInv' /\ Roster!SpinnerEnds
    BY <1>2, RosterNext, RosterStays DEF PagesInv, Next
  <2> QED
    BY <1>1, <1>2, <2>1 DEF PagesInv
<1>3. CASE open = "exams"
  <2>1. ExamsInv' /\ Exams!SpinnerEnds
    BY <1>3, ExamsNext, ExamsStays DEF PagesInv, Next
  <2> QED
    BY <1>1, <1>3, <2>1 DEF PagesInv
<1>4. CASE open = "lists"
  <2>1. ListsInv'
    BY <1>4, ListsNext, ListsStays DEF PagesInv, Next
  <2> QED
    BY <1>1, <1>4, <2>1 DEF PagesInv
<1>5. CASE open = "questions"
  <2>1. QuestionsInv'
    BY <1>5, QuestionsNext, QuestionsStays DEF PagesInv, Next
  <2> QED
    BY <1>1, <1>5, <2>1 DEF PagesInv
<1>6. CASE open = "records"
  <2>1. FormsInv' /\ Forms!UntouchedStays
    BY <1>6, FormsNext, FormsStays DEF PagesInv, Next
  <2> QED
    BY <1>1, <1>6, <2>1 DEF PagesInv
<1> QED
  BY <1>1, <1>2, <1>3, <1>4, <1>5, <1>6 DEF Opened

\* The inductive invariant: that of the page that is open, whichever it is.
THEOREM Invariant == Spec => []PagesInv
  BY PagesInit, PagesNext, PTL DEF Spec

\* Every page keeps its types: its state, the requests it has sent with what each of them can
\* be answered with, and the rows of the server.
THEOREM TypeCorrect == Spec => []TypeOK
<1>1. PagesInv => TypeOK
  BY RosterPromises, ExamsPromises, ListsPromises, QuestionsPromises, FormsPromises
  DEF PagesInv, Opened, TypeOK
<1> QED
  BY <1>1, Invariant, PTL

\* A button that sends a change is locked exactly while one is on its way or the refresh after
\* it (handleEnroll, handleDelete, handleCreateExam, the saves of ExamQuestions and of the
\* forms): none sends a second request beside the first and none stays locked for good, but for
\* what the definition excuses; the button that deletes a question is never locked.
THEOREM LocksAreRequests == Spec => []OneRequestAtATime
<1>1. PagesInv => OneRequestAtATime
  BY RosterPromises, ExamsPromises, ListsPromises, QuestionsPromises, FormsPromises
  DEF PagesInv, Opened, OneRequestAtATime
<1> QED
  BY <1>1, Invariant, PTL

\* Once nothing is on its way a page shows what the server has, in whatever order the answers
\* came (refetch, loadQuestions, fetchExam), unless a change ended before the first list was
\* there; turning the pages of a course's exams has not led to an empty one, where the tenant
\* has no exams of other courses.
THEOREM SettledPages == Spec => []SettledPageIsCurrent
<1>1. PagesInv => SettledPageIsCurrent
  BY ExamsPromises, ListsPromises, QuestionsPromises, FormsPromises
  DEF PagesInv, Opened, SettledPageIsCurrent
<1> QED
  BY <1>1, Invariant, PTL

\* Students see no exam or course of others in the lists, whatever fails, and no "Take Exam" in
\* ExamDetail when there was an attempt as the page was opened, unless the check for it fails.
THEOREM ChecksComeFirst == Spec => []ShownAfterTheCheck
<1>1. PagesInv => ShownAfterTheCheck
  BY ListsPromises, FormsPromises DEF PagesInv, ShownAfterTheCheck
<1> QED
  BY <1>1, Invariant, PTL

\* The spinners of CourseDetail's tabs give way to the page and the filter chosen, however many
\* requests for the list were on their way.
THEOREM SpinnerEnds == Spec => SpinnerEndsWithQuery
<1>1. PagesInv /\ [Next]_vars => [/\ open = "roster" => Roster!SpinnerEnds
                                  /\ open = "exams" => Exams!SpinnerEnds]_vars
  BY PagesNext
<1> QED
  BY <1>1, Invariant, PTL DEF Spec, SpinnerEndsWithQuery

\* A save leaves alone what nobody touched since the form was filled: the fields of an exam, a
\* course or an institution that its form left untouched; the status of an exam is the
\* server's, and what somebody else has changed meanwhile is overwritten.
THEOREM SavesKeep == Spec => SavesKeepTheRest
<1>1. PagesInv /\ [Next]_vars => [open = "records" => Forms!UntouchedStays]_vars
  BY PagesNext
<1> QED
  BY <1>1, Invariant, PTL DEF Spec, SavesKeepTheRest
=============================================================================
