-------------------------- MODULE ExamSitting_proofs --------------------------
(***************************************************************************)
(* Proofs about ExamSitting for any copies, durations and bounds.  That    *)
(* the time is not extended rests on a count: a load that was served       *)
(* before the student had started says so whenever it is answered, and a   *)
(* copy that believed it at the wrong time would start, or take the start  *)
(* of the exam, without the deadline.  There are never as many of them     *)
(* left as that takes.                                                     *)
(***************************************************************************)
EXTENDS ExamSitting, FiniteSetTheorems, TLAPS

AtMostOne(S) == \A x, y \in S : x = y
AtMostTwo(S) == \A x, y, z \in S : x = y \/ y = z \/ x = z

\* A copy's button shows progress while its submit is in flight, the only one.
SubmitsAgree ==
  \A c \in Mounted :
    /\ AtMostOne(InFlight("submit", c))
    /\ copy[c].submitting <=> InFlight("submit", c) # {}

\* Only the copy that is seen starts the exam, once at a time.
StartsAgree ==
  \A c \in Mounted :
    /\ AtMostOne(InFlight("start", c))
    /\ InFlight("start", c) # {} => c = seen /\ copy[c].starting

-----------------------------------------------------------------------------
(***************************************************************************)
(* The copy that is seen, as long as nothing fails.                        *)
(***************************************************************************)

LoadsOfSeen == InFlight("load", seen)
Starting    == InFlight("start", seen) # {}

\* Loads that will say that the student has not started.
Blind ==
  {r \in LoadsOfSeen : IF r.got = None THEN Own = None ELSE r.got # Failed /\ r.got.own = None}

\* What a load that was served says of the student's submission is still so.
AnswersTrue ==
  \A r \in LoadsOfSeen :
    r.got \notin {None, Failed} /\ r.got.own # None =>
      /\ r.got.since = server.since
      /\ server.since = None => r.got.own = "submitted" /\ server.attempts > 0

\* What the copy shows is, too, and so is the end it counts down to.
ShownTrue ==
  Usable /\ Seen.own # None =>
    /\ server.since = None => Seen.own = "submitted" /\ server.attempts > 0
    /\ Seen.deadline = IF exam.end # None THEN exam.end
                       ELSE IF server.since # None THEN server.since + Duration ELSE None

StartsServed == \A r \in InFlight("start", seen) : r.got # None => Own # None

FewOnStart ==
  place = "take" =>
    /\ AtMostTwo(LoadsOfSeen) \/ AtMostOne(Blind)
    /\ ~Seen.loading => AtMostOne(Blind)
    /\ (Usable /\ Seen.own = None) \/ Starting => Blind = {} \/ AtMostOne(LoadsOfSeen)
    /\ Starting /\ Usable /\ Seen.own # None => Blind = {}

FewInExam ==
  place = "active" =>
    /\ Blind = {} \/ AtMostOne(LoadsOfSeen) \/ (Own # None /\ AtMostOne(Blind))
    /\ Starting => /\ server.since # None
                   /\ Blind = {}
                   /\ Usable => Seen.own # None

NobodyAway == place = "away" => LoadsOfSeen = {} /\ ~Starting

SeenTrue ==
  bounds.failures = 0 =>
    /\ AnswersTrue
    /\ ShownTrue
    /\ StartsServed
    /\ FewOnStart
    /\ FewInExam
    /\ NobodyAway

\* What every step keeps by itself, and what holds of the copy that is seen.
Basics ==
  /\ TypeOK
  /\ bounds.backs <= bounds.visits
  /\ SubmitsAgree
  /\ StartsAgree

IInv == Basics /\ SeenTrue

-----------------------------------------------------------------------------
(***************************************************************************)
(* Numbers and copies.                                                     *)
(***************************************************************************)

LEMMA MinOfTwo ==
  ASSUME NEW a \in Int, NEW b \in Int
  PROVE  Min({a, b}) \in {a, b} /\ Min({a, b}) <= a /\ Min({a, b}) <= b
<1>1. \E x \in {a, b} : \A y \in {a, b} : x =< y
  OBVIOUS
<1> QED
  BY <1>1 DEF Min

LEMMA MaxIsNat ==
  ASSUME NEW a \in Int
  PROVE  Max({0, a}) \in Nat /\ Max({0, a}) >= a
<1>1. \E x \in {0, a} : \A y \in {0, a} : x >= y
  OBVIOUS
<1> QED
  BY <1>1 DEF Max

LEMMA NoneIsNoNumber ==
  None \notin Int /\ None \notin Copies /\ None # "started" /\ None # "submitted"
  BY SittingAssumption

LEMMA FreshIsState == Fresh \in CopyState
  BY SittingAssumption DEF Fresh, CopyState, Items

\* There is a bound to fail or to open again only if it is not reached.
LEMMA BoundsCount ==
  ASSUME TypeOK
  PROVE  /\ MayFail => bounds.failures < MaxFailures
         /\ IsFiniteSet(Mounted)
<1>1. IsFiniteSet(Mounted)
  BY SittingAssumption, FS_Subset DEF TypeOK
<1>2. Cardinality(Mounted) \in Nat /\ Cardinality(Mounted) # 0
  BY <1>1, FS_CardinalityType, FS_EmptySet DEF TypeOK
<1> QED
  BY <1>1, <1>2, SittingAssumption DEF MayFail, TypeOK

LEMMA CopySet ==
  ASSUME TypeOK, NEW c \in Mounted, NEW s \in CopyState, copy' = [copy EXCEPT ![c] = s]
  PROVE  /\ copy' \in [Mounted -> CopyState]
         /\ \A d \in Mounted : copy'[d] = IF d = c THEN s ELSE copy[d]
  BY DEF TypeOK, Mounted

\* As long as the same copies are mounted, messages are what they were.
LEMMA SameCopies ==
  ASSUME copy' \in [Mounted -> CopyState]
  PROVE  Mounted' = Mounted /\ Message' = Message
<1>1. DOMAIN copy' = Mounted
  OBVIOUS
<1> QED
  BY <1>1 DEF Mounted, Message

-----------------------------------------------------------------------------
(***************************************************************************)
(* Requests come, change and go.                                           *)
(***************************************************************************)

LEMMA FlightOf ==
  ASSUME NEW op, NEW c
  PROVE  /\ \A r : r \in InFlight(op, c) <=> r \in net /\ r.op = op /\ r.by = c
         /\ \A r : r \in InFlight(op, c)' <=> r \in net' /\ r.op = op /\ r.by = c
  BY DEF InFlight

LEMMA RequestIsMessage ==
  ASSUME NEW op \in {"load", "start", "submit"}, NEW c \in Mounted, NEW n \in Nat
  PROVE  /\ Request(op, c, n) \in Message
         /\ Request(op, c, n).op = op /\ Request(op, c, n).by = c
         /\ Request(op, c, n).got = None
  BY DEF Request, Message

LEMMA LoadsAreMessages ==
  ASSUME NEW n \in Nat
  PROVE  /\ Loads(n) \subseteq Message
         /\ \A r \in Loads(n) : r.op = "load" /\ r.got = None
         /\ \A r \in Loads(n), c \in Mounted : r.by = c => r = Request("load", c, n)
  BY RequestIsMessage DEF Loads

LEMMA Answered ==
  ASSUME NEW r \in Message, NEW got \in {None, Ok, Failed} \cup Answers
  PROVE  LET q == [r EXCEPT !.got = got]
         IN  q \in Message /\ q.op = r.op /\ q.by = r.by /\ q.got = got
  BY DEF Message

LEMMA OrphanedAre ==
  ASSUME NEW rs \in SUBSET Message
  PROVE  /\ Orphaned(rs) \subseteq Message
         /\ \A q \in Orphaned(rs) : q.by = None /\ q.op \in {"submit", "start"}
  BY DEF Orphaned, Message

\* One request in the place of another of the same copy and kind.
LEMMA Replaced ==
  ASSUME NEW r \in net, NEW q, q.op = r.op, q.by = r.by, net' = (net \ {r}) \cup {q},
         NEW op, NEW c
  PROVE  /\ r \in InFlight(op, c) => InFlight(op, c)' = (InFlight(op, c) \ {r}) \cup {q}
         /\ r \notin InFlight(op, c) => InFlight(op, c)' = InFlight(op, c)
         /\ AtMostOne(InFlight(op, c)) => AtMostOne(InFlight(op, c)')
         /\ InFlight(op, c)' = {} <=> InFlight(op, c) = {}
<1>1. ASSUME r \in InFlight(op, c) PROVE InFlight(op, c)' = (InFlight(op, c) \ {r}) \cup {q}
  BY <1>1 DEF InFlight
<1>2. ASSUME r \notin InFlight(op, c) PROVE InFlight(op, c)' = InFlight(op, c)
  BY <1>2 DEF InFlight
<1>3. ASSUME AtMostOne(InFlight(op, c)) PROVE AtMostOne(InFlight(op, c)')
  BY <1>1, <1>2, <1>3 DEF AtMostOne
<1>4. InFlight(op, c)' = {} <=> InFlight(op, c) = {}
  BY <1>1, <1>2
<1> QED
  BY <1>1, <1>2, <1>3, <1>4

\* One request more.
LEMMA Added ==
  ASSUME NEW q, net' = net \cup {q}, NEW op, NEW c
  PROVE  InFlight(op, c)' = IF q.op = op /\ q.by = c THEN InFlight(op, c) \cup {q}
                            ELSE InFlight(op, c)
  BY DEF InFlight

\* One less.
LEMMA Taken ==
  ASSUME NEW r, net' = net \ {r}, NEW op, NEW c
  PROVE  InFlight(op, c)' = InFlight(op, c) \ {r}
  BY DEF InFlight

-----------------------------------------------------------------------------
(***************************************************************************)
(* Types, submits and starts.                                              *)
(***************************************************************************)

BoundsType ==
  [visits : 0 .. MaxVisits, backs : 0 .. MaxVisits, failures : 0 .. MaxFailures]

LEMMA TypedAgain ==
  ASSUME TypeOK, place' \in {"take", "active", "away"}, seen' = seen,
         copy' \in [Mounted -> CopyState], net' \subseteq Message,
         \A r \in net' : r.op = "load" => r.got \in {None, Failed} \cup Answers,
         server' \in [since : Nat \cup {None}, attempts : 0 .. Limit],
         exam' = exam, clock' \in 0 .. LastSecond, bounds' \in BoundsType
  PROVE  TypeOK'
<1>1. Mounted' = Mounted /\ Message' = Message
  BY SameCopies
<1> QED
  BY <1>1 DEF TypeOK, BoundsType

LEMMA SubmitsFrame ==
  ASSUME SubmitsAgree, Mounted' = Mounted,
         \A c \in Mounted :
           /\ copy'[c].submitting = copy[c].submitting
           /\ AtMostOne(InFlight("submit", c)) => AtMostOne(InFlight("submit", c)')
           /\ InFlight("submit", c)' = {} <=> InFlight("submit", c) = {}
  PROVE  SubmitsAgree'
  BY DEF SubmitsAgree

LEMMA StartsFrame ==
  ASSUME StartsAgree, Mounted' = Mounted, seen' = seen,
         \A c \in Mounted :
           /\ copy[c].starting => copy'[c].starting
           /\ AtMostOne(InFlight("start", c)) => AtMostOne(InFlight("start", c)')
           /\ InFlight("start", c) = {} => InFlight("start", c)' = {}
  PROVE  StartsAgree'
  BY DEF StartsAgree

\* The copies are mounted anew, and what was asked for is orphaned.
LEMMA MountedAnew ==
  ASSUME Basics, NEW rs \in SUBSET net, NEW n \in Nat, NEW new \in SUBSET Loads(n),
         copy' = [c \in Mounted |-> Fresh], net' = Orphaned(rs) \cup new,
         place' \in {"take", "active", "away"},
         bounds' \in BoundsType, bounds'.backs <= bounds'.visits,
         UNCHANGED <<seen, server, exam, clock>>
  PROVE  /\ Basics'
         /\ \A op : \A c \in Mounted : InFlight(op, c)' \subseteq new
         /\ \A c \in Mounted : InFlight("start", c)' = {}
<1> USE DEF Basics
<1>1. copy' \in [Mounted -> CopyState]
  BY FreshIsState
<1>2. Mounted' = Mounted
  BY <1>1, SameCopies
<1>3. /\ Orphaned(rs) \subseteq Message
      /\ \A q \in Orphaned(rs) : q.by = None /\ q.op \in {"submit", "start"}
  BY OrphanedAre DEF TypeOK
<1>4. new \subseteq Message /\ \A r \in new : r.op = "load" /\ r.got = None
  BY LoadsAreMessages
<1>5. \A c \in Mounted : c # None
  BY NoneIsNoNumber DEF TypeOK
<1>6. \A op : \A c \in Mounted : InFlight(op, c)' \subseteq new
  BY <1>3, <1>5 DEF InFlight
<1>7. \A c \in Mounted : InFlight("start", c)' = {} /\ InFlight("submit", c)' = {}
  BY <1>4, <1>6 DEF InFlight
<1>8. TypeOK'
  BY <1>1, <1>3, <1>4, TypedAgain DEF TypeOK
<1>9. SubmitsAgree' /\ StartsAgree'
  BY <1>2, <1>7 DEF SubmitsAgree, StartsAgree, AtMostOne, Fresh
<1> QED
  BY <1>6, <1>7, <1>8, <1>9

LEMMA VisitBasics ==
  ASSUME Basics, Visit
  PROVE  /\ Basics'
         /\ \A op : \A c \in Mounted : InFlight(op, c)' \subseteq Loads(bounds.visits + 1)
         /\ \A c \in Mounted : InFlight("start", c)' = {}
<1>1. bounds' \in BoundsType /\ bounds'.backs <= bounds'.visits /\ bounds.visits + 1 \in Nat
  BY SittingAssumption DEF Visit, Basics, TypeOK, BoundsType
<1> QED
  BY <1>1, MountedAnew DEF Visit

\* Leave, and the answer to a submit.
LEMMA GoneBasics ==
  ASSUME Basics, NEW rs \in SUBSET net, place' = "away", copy' = [c \in Mounted |-> Fresh],
         net' = Orphaned(rs), UNCHANGED <<seen, server, exam, clock, bounds>>
  PROVE  /\ Basics'
         /\ \A op : \A c \in Mounted : InFlight(op, c)' = {}
<1>1. bounds' \in BoundsType /\ bounds'.backs <= bounds'.visits
  BY DEF Basics, TypeOK, BoundsType
<1>2. /\ Basics'
      /\ \A op : \A c \in Mounted : InFlight(op, c)' \subseteq {}
  <2>1. net' = Orphaned(rs) \cup {} /\ {} \in SUBSET Loads(0) /\ 0 \in Nat
    OBVIOUS
  <2> HIDE DEF Basics
  <2>2. ASSUME NEW new \in SUBSET Loads(0), net' = Orphaned(rs) \cup new
        PROVE  /\ Basics'
               /\ \A op : \A c \in Mounted : InFlight(op, c)' \subseteq new
    BY <1>1, <2>2, 0 \in Nat, MountedAnew
  <2> QED
    BY <2>1, <2>2
<1> QED
  BY <1>2

LEMMA ReloadingKeeps ==
  ASSUME NEW cs \in [Mounted -> CopyState]
  PROVE  /\ Reloading(cs) \in [Mounted -> CopyState]
         /\ \A c \in Mounted : /\ Reloading(cs)[c].submitting = cs[c].submitting
                               /\ Reloading(cs)[c].starting = cs[c].starting
                               /\ Reloading(cs)[c].loading
  BY DEF Reloading, CopyState

LEMMA LoadsAdded ==
  ASSUME TypeOK, NEW n \in Nat, NEW rs \in SUBSET net, net' = rs \cup Loads(n)
  PROVE  /\ net' \subseteq Message
         /\ \A r \in net' : r.op = "load" => r.got \in {None, Failed} \cup Answers
         /\ \A c \in Mounted :
              /\ InFlight("submit", c)' = InFlight("submit", c) \cap rs
              /\ InFlight("start", c)' = InFlight("start", c) \cap rs
              /\ InFlight("load", c)' = (InFlight("load", c) \cap rs) \cup {Request("load", c, n)}
<1>1. /\ Loads(n) \subseteq Message
      /\ \A r \in Loads(n) : r.op = "load" /\ r.got = None
      /\ \A r \in Loads(n), c \in Mounted : r.by = c => r = Request("load", c, n)
  BY LoadsAreMessages
<1>2. \A c \in Mounted : /\ Request("load", c, n) \in Loads(n)
                         /\ Request("load", c, n).op = "load" /\ Request("load", c, n).by = c
  BY RequestIsMessage DEF Loads
<1>3. \A c \in Mounted :
        InFlight("load", c)' = (InFlight("load", c) \cap rs) \cup {Request("load", c, n)}
  BY <1>1, <1>2 DEF InFlight
<1>4. \A c \in Mounted : /\ InFlight("submit", c)' = InFlight("submit", c) \cap rs
                         /\ InFlight("start", c)' = InFlight("start", c) \cap rs
  BY <1>1 DEF InFlight
<1> QED
  BY <1>1, <1>3, <1>4 DEF TypeOK

\* The same copies load again.
LEMMA ReloadingBasics ==
  ASSUME Basics, NEW n \in Nat, copy' = Reloading(copy), net' = net \cup Loads(n),
         place' \in {"take", "active"}, bounds' \in BoundsType, bounds'.backs <= bounds'.visits,
         UNCHANGED <<seen, server, exam, clock>>
  PROVE  Basics'
<1> USE DEF Basics
<1>1. /\ copy' \in [Mounted -> CopyState]
      /\ \A c \in Mounted : /\ copy'[c].submitting = copy[c].submitting
                            /\ copy'[c].starting = copy[c].starting
  BY ReloadingKeeps DEF TypeOK
<1>2. Mounted' = Mounted
  BY <1>1, SameCopies
<1>3. /\ net' \subseteq Message
      /\ \A r \in net' : r.op = "load" => r.got \in {None, Failed} \cup Answers
      /\ \A c \in Mounted : /\ InFlight("submit", c)' = InFlight("submit", c) \cap net
                            /\ InFlight("start", c)' = InFlight("start", c) \cap net
  BY LoadsAdded
<1>4. \A c \in Mounted : /\ InFlight("submit", c)' = InFlight("submit", c)
                         /\ InFlight("start", c)' = InFlight("start", c)
  BY <1>3 DEF InFlight
<1>5. TypeOK'
  BY <1>1, <1>3, TypedAgain DEF TypeOK
<1>6. SubmitsAgree' /\ StartsAgree'
  BY <1>1, <1>2, <1>4, SubmitsFrame, StartsFrame
<1> QED
  BY <1>5, <1>6

LEMMA BackBasics == ASSUME Basics, Back PROVE Basics'
<1>1. /\ bounds.visits < MaxVisits /\ bounds.backs <= bounds.visits
      /\ bounds' = [bounds EXCEPT !.visits = bounds.visits + 1, !.backs = bounds.backs + 1]
      /\ bounds \in BoundsType
  BY DEF Back, Basics, TypeOK, BoundsType
<1> DEFINE visits == bounds.visits + 1
           backs  == bounds.backs + 1
<1>2. visits \in 0 .. MaxVisits /\ backs \in 0 .. MaxVisits /\ backs <= visits
  BY <1>1, SittingAssumption DEF BoundsType
<1>3. bounds' = [bounds EXCEPT !.visits = visits, !.backs = backs]
  BY <1>1
<1> HIDE DEF visits, backs
<1>4. bounds' \in BoundsType /\ bounds'.backs <= bounds'.visits
  BY <1>1, <1>2, <1>3 DEF BoundsType
<1>5. bounds.visits + 1 \in Nat
  BY <1>2 DEF visits
<1> QED
  BY <1>4, <1>5, ReloadingBasics DEF Back

LEMMA ContinueBasics == ASSUME Basics, Continue PROVE Basics'
<1>1. bounds' \in BoundsType /\ bounds'.backs <= bounds'.visits /\ bounds.visits \in Nat
  BY DEF Continue, Basics, TypeOK, BoundsType
<1> QED
  BY <1>1, ReloadingBasics DEF Continue

\* What a copy keeps changes, apart from its submits and starts.
LEMMA CopyBasics ==
  ASSUME Basics, copy' \in [Mounted -> CopyState],
         \A c \in Mounted : /\ copy'[c].submitting = copy[c].submitting
                            /\ copy'[c].starting = copy[c].starting,
         server' \in [since : Nat \cup {None}, attempts : 0 .. Limit],
         clock' \in 0 .. LastSecond,
         UNCHANGED <<place, seen, net, exam, bounds>>
  PROVE  Basics'
<1> USE DEF Basics
<1>1. Mounted' = Mounted
  BY SameCopies
<1>2. TypeOK'
  BY TypedAgain DEF TypeOK, BoundsType
<1>3. \A c \in Mounted : /\ InFlight("submit", c)' = InFlight("submit", c)
                         /\ InFlight("start", c)' = InFlight("start", c)
  BY DEF InFlight
<1>4. SubmitsAgree' /\ StartsAgree'
  BY <1>1, <1>3, SubmitsFrame, StartsFrame
<1> QED
  BY <1>2, <1>4

LEMMA SeenIsState == ASSUME TypeOK PROVE seen \in Mounted /\ Seen \in CopyState
  BY DEF TypeOK, Seen

LEMMA AnswerBasics == ASSUME Basics, Answer PROVE Basics'
<1>1. seen \in Mounted /\ Seen \in CopyState
  BY SeenIsState DEF Basics
<1> DEFINE s == [Seen EXCEPT !.due = FALSE]
<1>2. s \in CopyState /\ s.submitting = Seen.submitting /\ s.starting = Seen.starting
  BY <1>1 DEF CopyState
<1>3. copy' = [copy EXCEPT ![seen] = s]
  BY DEF Answer, Seen
<1> HIDE DEF s
<1>4. /\ copy' \in [Mounted -> CopyState]
      /\ \A c \in Mounted : /\ copy'[c].submitting = copy[c].submitting
                            /\ copy'[c].starting = copy[c].starting
  BY <1>1, <1>2, <1>3, CopySet DEF Basics, Seen
<1> QED
  BY <1>4, CopyBasics DEF Answer, Basics, TypeOK

LEMMA TurnBasics == ASSUME Basics, Turn PROVE Basics'
<1>1. seen \in Mounted /\ Seen \in CopyState
  BY SeenIsState DEF Basics
<1>2. PICK i \in Items : copy' = [copy EXCEPT ![seen].at = i]
  BY DEF Turn
<1> DEFINE s == [Seen EXCEPT !.at = i]
<1>3. s \in CopyState /\ s.submitting = Seen.submitting /\ s.starting = Seen.starting
  BY <1>1 DEF CopyState
<1>4. copy' = [copy EXCEPT ![seen] = s]
  BY <1>2 DEF Seen
<1> HIDE DEF s
<1>5. /\ copy' \in [Mounted -> CopyState]
      /\ \A c \in Mounted : /\ copy'[c].submitting = copy[c].submitting
                            /\ copy'[c].starting = copy[c].starting
  BY <1>1, <1>3, <1>4, CopySet DEF Basics, Seen
<1> QED
  BY <1>5, CopyBasics DEF Turn, Basics, TypeOK

LEMMA SecondBasics == ASSUME Basics, Second PROVE Basics'
<1>1. ASSUME NEW c \in Mounted, NEW due \in BOOLEAN
      PROVE  LET s == [copy[c] EXCEPT !.due = due]
             IN  /\ s \in CopyState
                 /\ s.submitting = copy[c].submitting /\ s.starting = copy[c].starting
  BY DEF Basics, TypeOK, CopyState
<1>2. /\ copy' \in [Mounted -> CopyState]
      /\ \A c \in Mounted : /\ copy'[c].submitting = copy[c].submitting
                            /\ copy'[c].starting = copy[c].starting
  <2> DEFINE due(c) == place = "active" /\ copy[c].left > 0
  <2>1. copy' = [c \in Mounted |-> [copy[c] EXCEPT !.due = due(c)]]
    BY DEF Second
  <2>2. \A c \in Mounted : due(c) \in BOOLEAN
    OBVIOUS
  <2> HIDE DEF due
  <2> QED
    BY <1>1, <2>1, <2>2
<1>3. clock' \in 0 .. LastSecond
  <2>1. clock + 1 \in Int /\ LastSecond \in Int /\ clock \in 0 .. LastSecond
    BY SittingAssumption DEF Basics, TypeOK
  <2> DEFINE next == Min({clock + 1, LastSecond})
  <2>2. next \in {clock + 1, LastSecond} /\ next <= LastSecond
    BY <2>1, MinOfTwo, Zenon
  <2>3. clock' = next
    BY DEF Second
  <2> HIDE DEF next
  <2> QED
    BY <2>1, <2>2, <2>3
<1> QED
  BY <1>2, <1>3, CopyBasics DEF Second, Basics, TypeOK

\* A submit, by hand or at the end of the time, of a copy that may count down with it.
LEMMA SubmitByBasics ==
  ASSUME Basics, NEW c \in Mounted, NEW cs \in [Mounted -> CopyState],
         \A d \in Mounted : /\ cs[d].submitting = copy[d].submitting
                            /\ cs[d].starting = copy[d].starting,
         SubmitBy(c, cs), UNCHANGED <<place, seen, server, exam, clock, bounds>>
  PROVE  Basics'
<1>1. CASE Submitting(c)
  BY <1>1, CopyBasics DEF SubmitBy, Basics, TypeOK
<1>2. CASE ~Submitting(c)
  <2> DEFINE n == IF InFlight("submit", c) = {} THEN 0 ELSE 1
             q == Request("submit", c, n)
             s == [cs[c] EXCEPT !.submitting = TRUE, !.due = FALSE]
  <2>1. /\ q \in Message
        /\ q.op = "submit" /\ q.by = c
    BY RequestIsMessage, n \in Nat
  <2>2. net' = net \cup {q} /\ copy' = [cs EXCEPT ![c] = s]
    BY <1>2 DEF SubmitBy
  <2>3. s \in CopyState /\ s.submitting /\ s.starting = cs[c].starting
    BY DEF CopyState
  <2> HIDE DEF n, q, s
  <2>4. /\ copy' \in [Mounted -> CopyState]
        /\ copy'[c].submitting
        /\ \A d \in Mounted : /\ d # c => copy'[d].submitting = copy[d].submitting
                              /\ copy'[d].starting = copy[d].starting
    BY <2>2, <2>3
  <2>5. Mounted' = Mounted
    BY <2>4, SameCopies
  <2>6. \A d \in Mounted : /\ InFlight("start", d)' = InFlight("start", d)
                           /\ d # c => InFlight("submit", d)' = InFlight("submit", d)
                           /\ d = c => InFlight("submit", d)' = InFlight("submit", d) \cup {q}
    BY <2>1, <2>2, Added
  <2>7. InFlight("submit", c) = {}
    BY <1>2 DEF Basics, SubmitsAgree, Submitting
  <2>8. TypeOK'
    BY <2>1, <2>2, <2>4, TypedAgain DEF Basics, TypeOK, BoundsType
  <2>9. SubmitsAgree'
    <3>1. ASSUME NEW d \in Mounted, d # c
          PROVE  /\ AtMostOne(InFlight("submit", d)')
                 /\ copy'[d].submitting <=> InFlight("submit", d)' # {}
      BY <3>1, <2>4, <2>6 DEF Basics, SubmitsAgree
    <3>2. InFlight("submit", c)' = {q}
      BY <2>6, <2>7
    <3>3. /\ AtMostOne(InFlight("submit", c)')
          /\ copy'[c].submitting <=> InFlight("submit", c)' # {}
      BY <2>4, <3>2 DEF AtMostOne
    <3> QED
      BY <2>5, <3>1, <3>3 DEF SubmitsAgree
  <2>10. StartsAgree'
    BY <2>4, <2>5, <2>6, StartsFrame DEF Basics
  <2> QED
    BY <2>8, <2>9, <2>10 DEF Basics
<1> QED
  BY <1>1, <1>2

LEMMA SubmitBasics == ASSUME Basics, Submit PROVE Basics'
  BY SeenIsState, SubmitByBasics DEF Submit, Basics, TypeOK

LEMMA NextLeftIsNat == ASSUME TypeOK, NEW c \in Mounted PROVE NextLeft(c) \in Nat
<1>1. copy[c].left \in Nat /\ copy[c].deadline \in Nat \cup {None} /\ clock \in Nat
  BY SittingAssumption DEF TypeOK, CopyState
<1>2. copy[c].left - 1 \in Int /\ (copy[c].deadline # None => copy[c].deadline - clock \in Int)
  BY <1>1
<1> QED
  BY <1>2, MaxIsNat DEF NextLeft

\* The copy with the seconds left counted down.
LEMMA CountedDown ==
  ASSUME TypeOK, NEW c \in Mounted, NEW left \in Nat
  PROVE  LET cs == [copy EXCEPT ![c].left = left, ![c].due = FALSE]
         IN  /\ cs \in [Mounted -> CopyState]
             /\ \A d \in Mounted : /\ cs[d].submitting = copy[d].submitting
                                   /\ cs[d].starting = copy[d].starting
                                   /\ cs[d].loading = copy[d].loading
                                   /\ cs[d].failed = copy[d].failed
                                   /\ cs[d].own = copy[d].own
                                   /\ cs[d].deadline = copy[d].deadline
<1> DEFINE s  == [copy[c] EXCEPT !.left = left, !.due = FALSE]
           cs == [copy EXCEPT ![c].left = left, ![c].due = FALSE]
<1>1. cs = [copy EXCEPT ![c] = s]
  BY DEF TypeOK
<1>2. /\ s \in CopyState
      /\ s.submitting = copy[c].submitting /\ s.starting = copy[c].starting
      /\ s.loading = copy[c].loading /\ s.failed = copy[c].failed
      /\ s.own = copy[c].own /\ s.deadline = copy[c].deadline
  <2> DEFINE b == copy[c]
  <2>1. b \in CopyState
    BY DEF TypeOK
  <2> HIDE DEF b
  <2>2. LET u == [b EXCEPT !.left = left, !.due = FALSE]
        IN  /\ u \in CopyState
            /\ u.submitting = b.submitting /\ u.starting = b.starting
            /\ u.loading = b.loading /\ u.failed = b.failed
            /\ u.own = b.own /\ u.deadline = b.deadline
    BY <2>1 DEF CopyState
  <2> QED
    BY <2>2 DEF b
<1> HIDE DEF s, cs
<1>3. /\ cs \in [Mounted -> CopyState]
      /\ \A d \in Mounted : cs[d] = IF d = c THEN s ELSE copy[d]
  BY <1>1, <1>2 DEF TypeOK
<1>4. /\ cs \in [Mounted -> CopyState]
      /\ \A d \in Mounted : /\ cs[d].submitting = copy[d].submitting
                            /\ cs[d].starting = copy[d].starting
                            /\ cs[d].loading = copy[d].loading
                            /\ cs[d].failed = copy[d].failed
                            /\ cs[d].own = copy[d].own
                            /\ cs[d].deadline = copy[d].deadline
  BY <1>2, <1>3
<1> QED
  BY <1>4 DEF cs

LEMMA TimerBasics == ASSUME Basics, NEW c \in Mounted, Timer(c) PROVE Basics'
<1> DEFINE cs == [copy EXCEPT ![c].left = NextLeft(c), ![c].due = FALSE]
<1>1. /\ cs \in [Mounted -> CopyState]
      /\ \A d \in Mounted : /\ cs[d].submitting = copy[d].submitting
                            /\ cs[d].starting = copy[d].starting
  BY NextLeftIsNat, CountedDown DEF Basics
<1>2. /\ SubmitBy(c, cs) \/ (copy' = cs /\ UNCHANGED net)
      /\ UNCHANGED <<place, seen, server, exam, clock, bounds>>
  BY DEF Timer
<1> HIDE DEF cs
<1>3. CASE SubmitBy(c, cs)
  BY <1>1, <1>2, <1>3, SubmitByBasics
<1>4. CASE copy' = cs /\ UNCHANGED net
  BY <1>1, <1>2, <1>4, CopyBasics DEF Basics, TypeOK
<1> QED
  BY <1>2, <1>3, <1>4

LEMMA StartBasics == ASSUME Basics, Start PROVE Basics'
<1> DEFINE q == Request("start", seen, bounds.visits)
           s == [Seen EXCEPT !.starting = TRUE]
<1>1. seen \in Mounted /\ Seen \in CopyState
  BY SeenIsState DEF Basics
<1>2. s \in CopyState /\ s.submitting = Seen.submitting /\ s.starting
  BY <1>1 DEF CopyState
<1>3. q \in Message /\ q.op = "start" /\ q.by = seen
  BY <1>1, RequestIsMessage DEF Basics, TypeOK
<1>4. /\ net' = net \cup {q} /\ copy' = [copy EXCEPT ![seen] = s]
      /\ ~Seen.starting /\ UNCHANGED <<place, seen, server, exam, clock, bounds>>
  BY DEF Start, Seen
<1> HIDE DEF q, s
<1>5. /\ copy' \in [Mounted -> CopyState]
      /\ copy'[seen].starting
      /\ \A d \in Mounted : copy'[d].submitting = copy[d].submitting
  BY <1>1, <1>2, <1>4, CopySet DEF Basics, Seen
<1>6. Mounted' = Mounted
  BY <1>5, SameCopies
<1>7. InFlight("start", seen) = {} /\ \A d \in Mounted : d # seen => InFlight("start", d) = {}
  BY <1>1, <1>4 DEF Basics, StartsAgree, Seen
<1>8. \A d \in Mounted :
        /\ InFlight("submit", d)' = InFlight("submit", d)
        /\ InFlight("start", d)' = IF d = seen THEN {q} ELSE {}
  BY <1>3, <1>4, <1>7, Added
<1>9. TypeOK'
  BY <1>3, <1>4, <1>5, TypedAgain DEF Basics, TypeOK, BoundsType
<1>10. SubmitsAgree'
  BY <1>5, <1>6, <1>8, SubmitsFrame DEF Basics
<1>11. StartsAgree'
  <2>1. \A d \in Mounted : AtMostOne(InFlight("start", d)')
    BY <1>8 DEF AtMostOne
  <2>2. \A d \in Mounted : InFlight("start", d)' # {} => d = seen /\ copy'[d].starting
    BY <1>5, <1>8
  <2> QED
    BY <1>4, <1>6, <2>1, <2>2 DEF StartsAgree
<1> QED
  BY <1>4, <1>9, <1>10, <1>11 DEF Basics

\* A request is answered or fails.
LEMMA ReplacedBasics ==
  ASSUME Basics, NEW r \in net, NEW q \in Message, q.op = r.op, q.by = r.by,
         q.op = "load" => q.got \in {None, Failed} \cup Answers,
         net' = (net \ {r}) \cup {q},
         server' \in [since : Nat \cup {None}, attempts : 0 .. Limit],
         bounds' \in BoundsType, bounds'.backs <= bounds'.visits,
         UNCHANGED <<place, seen, copy, exam, clock>>
  PROVE  Basics'
<1>1. copy' \in [Mounted -> CopyState] /\ Mounted' = Mounted
  BY SameCopies DEF Basics, TypeOK
<1>2. \A c \in Mounted : \A op \in {"submit", "start"} :
        /\ AtMostOne(InFlight(op, c)) => AtMostOne(InFlight(op, c)')
        /\ InFlight(op, c)' = {} <=> InFlight(op, c) = {}
  BY Replaced
<1>3. TypeOK'
  BY <1>1, TypedAgain DEF Basics, TypeOK
<1>4. SubmitsAgree'
  BY <1>1, <1>2, SubmitsFrame DEF Basics
<1>5. StartsAgree'
  BY <1>1, <1>2, StartsFrame DEF Basics
<1> QED
  BY <1>3, <1>4, <1>5 DEF Basics

LEMMA FailureCounts ==
  ASSUME Basics, MayFail, bounds' = [bounds EXCEPT !.failures = @ + 1]
  PROVE  bounds' \in BoundsType /\ bounds'.backs <= bounds'.visits /\ bounds'.failures # 0
<1> DEFINE n == bounds.failures + 1
<1>1. n \in 0 .. MaxFailures /\ n # 0
  BY BoundsCount, SittingAssumption DEF Basics, TypeOK
<1>2. bounds' = [bounds EXCEPT !.failures = n]
  OBVIOUS
<1> HIDE DEF n
<1> QED
  BY <1>1, <1>2 DEF Basics, TypeOK, BoundsType

LEMMA LoseBasics ==
  ASSUME Basics, NEW r \in net, Lose(r)
  PROVE  Basics' /\ bounds'.failures # 0
<1> DEFINE q == [r EXCEPT !.got = Failed]
<1>1. /\ bounds' \in BoundsType /\ bounds'.backs <= bounds'.visits
      /\ bounds'.failures # 0
  BY FailureCounts DEF Lose
<1>2. q \in Message /\ q.op = r.op /\ q.by = r.by /\ q.got = Failed
  BY Answered DEF Basics, TypeOK
<1>3. net' = (net \ {r}) \cup {q} /\ UNCHANGED <<place, seen, copy, server, exam, clock>>
  BY DEF Lose
<1> HIDE DEF q
<1>4. server' \in [since : Nat \cup {None}, attempts : 0 .. Limit]
  BY <1>3 DEF Basics, TypeOK
<1> QED
  BY <1>1, <1>2, <1>3, <1>4, ReplacedBasics

LEMMA OwnIs ==
  /\ server.attempts \in Nat =>
       /\ Own \in {None, "started", "submitted"}
       /\ Own = None <=> server.attempts = 0 /\ server.since = None
       /\ Own # None /\ server.since = None => Own = "submitted" /\ server.attempts > 0
  /\ server'.attempts \in Nat =>
       (Own' = None <=> server'.attempts = 0 /\ server'.since = None)
  BY NoneIsNoNumber DEF Own

ServerType == [since : Nat \cup {None}, attempts : 0 .. Limit]

\* What a load, a start and a submit are answered, and what the server makes of them.
LEMMA ServedAnswer ==
  ASSUME Basics, NEW r \in net, Serve(r), bounds' = bounds
  PROVE  \E got \in {None, Ok, Failed} \cup Answers :
           /\ net' = (net \ {r}) \cup {[r EXCEPT !.got = got]}
           /\ r.op = "load" =>
                /\ got \in Answers /\ got.own = Own /\ got.since = server.since
                /\ server' = server
           /\ r.op = "start" => Own' # None
           /\ server' \in ServerType
           /\ server'.attempts >= server.attempts
           /\ Own # None => server'.since = server.since
<1>1. server \in ServerType /\ clock \in Nat /\ server.attempts \in Nat
  BY SittingAssumption DEF Basics, TypeOK, ServerType
<1>2. CASE r.op = "load"
  <2> DEFINE got == [own |-> Own, since |-> server.since]
  <2>1. \/ net' = (net \ {r}) \cup {[r EXCEPT !.got = got]} /\ server' = server
        \/ bounds' = [bounds EXCEPT !.failures = @ + 1]
    BY <1>2 DEF Serve
  <2>2. bounds' # [bounds EXCEPT !.failures = @ + 1]
    BY DEF Basics, TypeOK
  <2>3. got \in Answers /\ got.own = Own /\ got.since = server.since
    BY <1>1, OwnIs DEF Answers, ServerType
  <2> HIDE DEF got
  <2> QED
    BY <1>1, <1>2, <2>1, <2>2, <2>3
<1>3. CASE r.op = "start"
  <2> DEFINE since == IF Own = None THEN clock ELSE server.since
  <2>1. /\ net' = (net \ {r}) \cup {[r EXCEPT !.got = Ok]}
        /\ server' = [server EXCEPT !.since = since]
    BY <1>3 DEF Serve, Begun
  <2>2. /\ since \in Nat \cup {None} /\ (Own # None => since = server.since)
        /\ since # None \/ server.attempts > 0
    BY <1>1, OwnIs, NoneIsNoNumber DEF ServerType
  <2> HIDE DEF since
  <2>3. server' \in ServerType /\ server'.since = since /\ server'.attempts = server.attempts
    BY <1>1, <2>1, <2>2 DEF ServerType
  <2>4. Own' # None
    BY <1>1, <2>2, <2>3, OwnIs
  <2> QED
    BY <1>1, <1>3, <2>1, <2>2, <2>3, <2>4
<1>4. CASE r.op = "submit"
  <2> DEFINE attempts == Min({server.attempts + 1, Limit})
             since    == IF Own = None THEN clock ELSE server.since
             got      == IF server.attempts < Limit THEN Ok ELSE Failed
  <2>1. /\ net' = (net \ {r}) \cup {[r EXCEPT !.got = got]}
        /\ server' = [[server EXCEPT !.since = since] EXCEPT !.attempts = attempts]
    BY <1>4 DEF Serve, Begun
  <2>2. attempts \in 0 .. Limit /\ attempts >= server.attempts
    <3>1. server.attempts \in 0 .. Limit /\ Limit \in Nat
      BY <1>1, SittingAssumption DEF ServerType
    <3>2. server.attempts + 1 \in Int /\ Limit \in Int
      BY <3>1
    <3>3. attempts \in {server.attempts + 1, Limit} /\ attempts <= Limit
      BY <3>2, MinOfTwo, Zenon
    <3> HIDE DEF attempts
    <3> QED
      BY <3>1, <3>3
  <2>3. got \in {None, Ok, Failed} \cup Answers
    OBVIOUS
  <2>4. since \in Nat \cup {None} /\ (Own # None => since = server.since)
    BY <1>1 DEF ServerType
  <2> HIDE DEF attempts, since, got
  <2>5. server' \in ServerType /\ server'.since = since /\ server'.attempts = attempts
    BY <1>1, <2>1, <2>2, <2>4 DEF ServerType
  <2> QED
    BY <1>1, <1>4, <2>1, <2>2, <2>3, <2>4, <2>5
<1> QED
  BY <1>2, <1>3, <1>4 DEF Basics, TypeOK, Message

LEMMA ServeBasics == ASSUME Basics, NEW r \in net, Serve(r) PROVE Basics'
<1>1. r \in Message
  BY DEF Basics, TypeOK
<1>2. CASE bounds' = bounds
  <2>1. PICK got \in {None, Ok, Failed} \cup Answers :
          /\ net' = (net \ {r}) \cup {[r EXCEPT !.got = got]}
          /\ r.op = "load" => got \in Answers
          /\ server' \in ServerType
    BY <1>2, ServedAnswer
  <2>2. [r EXCEPT !.got = got] \in Message /\ [r EXCEPT !.got = got].op = r.op
        /\ [r EXCEPT !.got = got].by = r.by /\ [r EXCEPT !.got = got].got = got
    BY <1>1, Answered
  <2>3. bounds' \in BoundsType /\ bounds'.backs <= bounds'.visits
    BY <1>2 DEF Basics, TypeOK, BoundsType
  <2>4. UNCHANGED <<place, seen, copy, exam, clock>>
    BY DEF Serve
  <2> QED
    BY <2>1, <2>2, <2>3, <2>4, ReplacedBasics DEF ServerType
<1>3. CASE bounds' # bounds
  <2> DEFINE got == [own |-> None, since |-> None]
  <2>1. /\ MayFail /\ bounds' = [bounds EXCEPT !.failures = @ + 1] /\ server' = server
        /\ net' = (net \ {r}) \cup {[r EXCEPT !.got = got]}
        /\ UNCHANGED <<place, seen, copy, exam, clock>>
    BY <1>3 DEF Serve
  <2>2. got \in Answers
    BY DEF Answers
  <2> HIDE DEF got
  <2>3. [r EXCEPT !.got = got] \in Message /\ [r EXCEPT !.got = got].op = r.op
        /\ [r EXCEPT !.got = got].by = r.by /\ [r EXCEPT !.got = got].got = got
    BY <1>1, <2>2, Answered
  <2>4. bounds' \in BoundsType /\ bounds'.backs <= bounds'.visits
    BY <2>1, FailureCounts
  <2>5. server' \in [since : Nat \cup {None}, attempts : 0 .. Limit]
    BY <2>1 DEF Basics, TypeOK
  <2> QED
    BY <2>1, <2>2, <2>3, <2>4, <2>5, ReplacedBasics
<1> QED
  BY <1>2, <1>3

\* The copy a load has arrived at.
LEMMA LoadedCopy ==
  ASSUME Basics, NEW r \in net, r.got # None, LoadArrives(r)
  PROVE  /\ r.by \in Mounted
         /\ \E s \in CopyState :
              /\ copy' = [copy EXCEPT ![r.by] = s]
              /\ s.submitting = copy[r.by].submitting /\ s.starting = copy[r.by].starting
              /\ ~s.loading
              /\ r.got = Failed => /\ s.failed /\ s.own = copy[r.by].own
                                   /\ s.deadline = copy[r.by].deadline
              /\ r.got # Failed => /\ r.got \in Answers
                                   /\ s.own = r.got.own /\ s.failed = copy[r.by].failed
                                   /\ s.deadline = Deadline(r)
<1> DEFINE b == copy[r.by]
<1>1. r \in Message /\ r.by \in Mounted /\ b \in CopyState
  BY DEF LoadArrives, Basics, TypeOK, Message
<1>2. CASE r.got = Failed
  <2> DEFINE s == [b EXCEPT !.loading = FALSE, !.failed = TRUE]
  <2>1. copy' = [copy EXCEPT ![r.by] = s]
    BY <1>2 DEF LoadArrives
  <2>2. s \in CopyState /\ s.submitting = b.submitting /\ s.starting = b.starting
        /\ ~s.loading /\ s.failed /\ s.own = b.own /\ s.deadline = b.deadline
    BY <1>1 DEF CopyState
  <2> HIDE DEF s
  <2> QED
    BY <1>1, <1>2, <2>1, <2>2
<1>3. CASE r.got # Failed
  <2>1. r.got \in Answers
    BY <1>3 DEF LoadArrives, Basics, TypeOK
  <2>2. Deadline(r) \in Nat \cup {None}
    BY <2>1, SittingAssumption DEF Deadline, FromStart, Answers, Basics, TypeOK
  <2>3. PICK again \in BOOLEAN : copy' = [copy EXCEPT ![r.by] =
          [@ EXCEPT !.loading = FALSE, !.own = r.got.own, !.due = copy[r.by].due /\ again,
                    !.deadline = Deadline(r),
                    !.left = IF Deadline(r) = None THEN Duration
                             ELSE Max({0, Deadline(r) - clock})]]
    BY <1>3 DEF LoadArrives
  <2> DEFINE due  == b.due /\ again
             left == IF Deadline(r) = None THEN Duration ELSE Max({0, Deadline(r) - clock})
             s    == [b EXCEPT !.loading = FALSE, !.own = r.got.own, !.due = due,
                               !.deadline = Deadline(r), !.left = left]
  <2>4. left \in Nat
    BY <2>2, SittingAssumption, MaxIsNat DEF Basics, TypeOK
  <2>5. copy' = [copy EXCEPT ![r.by] = s] /\ due \in BOOLEAN
    BY <2>3
  <2> HIDE DEF due, left
  <2>6. s \in CopyState /\ s.submitting = b.submitting /\ s.starting = b.starting
        /\ ~s.loading /\ s.own = r.got.own /\ s.failed = b.failed /\ s.deadline = Deadline(r)
    BY <1>1, <2>1, <2>2, <2>4, <2>5 DEF CopyState, Answers
  <2> HIDE DEF s
  <2> QED
    BY <1>1, <1>3, <2>1, <2>5, <2>6
<1> QED
  BY <1>2, <1>3

\* A request that is no submit goes, and its copy changes.
LEMMA LoadArrivesBasics ==
  ASSUME Basics, NEW r \in net, r.got # None, LoadArrives(r),
         UNCHANGED <<seen, server, exam, clock, bounds>>
  PROVE  Basics'
<1>1. PICK s \in CopyState :
        /\ copy' = [copy EXCEPT ![r.by] = s]
        /\ s.submitting = copy[r.by].submitting /\ s.starting = copy[r.by].starting
  BY LoadedCopy
<1>2. r.by \in Mounted
  BY LoadedCopy
<1>3. /\ copy' \in [Mounted -> CopyState]
      /\ \A c \in Mounted : /\ copy'[c].submitting = copy[c].submitting
                            /\ copy'[c].starting = copy[c].starting
  BY <1>1, <1>2, CopySet DEF Basics
<1>4. Mounted' = Mounted
  BY <1>3, SameCopies
<1>5. r.op = "load" /\ net' = net \ {r} /\ place' = place
  BY DEF LoadArrives
<1>6. \A c \in Mounted : /\ InFlight("submit", c)' = InFlight("submit", c)
                         /\ InFlight("start", c)' = InFlight("start", c)
  BY <1>5 DEF InFlight
<1>7. TypeOK'
  BY <1>3, <1>5, TypedAgain DEF Basics, TypeOK, BoundsType
<1>8. SubmitsAgree' /\ StartsAgree'
  BY <1>3, <1>4, <1>6, SubmitsFrame, StartsFrame DEF Basics
<1> QED
  BY <1>7, <1>8 DEF Basics

LEMMA UnheardBasics ==
  ASSUME Basics, NEW r \in net, Unheard(r), UNCHANGED <<seen, server, exam, clock, bounds>>
  PROVE  Basics' /\ \A op : \A c \in Mounted : InFlight(op, c)' = InFlight(op, c)
<1>1. \A op : \A c \in Mounted : InFlight(op, c)' = InFlight(op, c)
  BY NoneIsNoNumber DEF Unheard, InFlight, Basics, TypeOK
<1>2. net' = net \ {r} /\ UNCHANGED <<place, copy>>
  BY DEF Unheard
<1>3. copy' \in [Mounted -> CopyState] /\ Mounted' = Mounted
  BY <1>2, SameCopies DEF Basics, TypeOK
<1>4. TypeOK'
  BY <1>2, <1>3, TypedAgain DEF Basics, TypeOK, BoundsType
<1>5. SubmitsAgree' /\ StartsAgree'
  BY <1>1, <1>2, <1>3, SubmitsFrame, StartsFrame DEF Basics
<1> QED
  BY <1>1, <1>4, <1>5 DEF Basics

\* The copy the answer to a start has arrived at is the one that is seen.
LEMMA StartedCopy ==
  ASSUME Basics, NEW r \in net, r.got # None, StartArrives(r)
  PROVE  /\ r.op = "start" /\ r.by = seen /\ InFlight("start", seen) = {r}
         /\ \A c \in Mounted : c # seen => InFlight("start", c) = {}
         /\ \E s \in CopyState :
              /\ s.submitting = Seen.submitting /\ ~s.starting
              /\ s.loading = Seen.loading /\ s.deadline = Seen.deadline
              /\ r.got = Failed =>
                   /\ s.failed /\ copy' = [copy EXCEPT ![seen] = s]
                   /\ net' = net \ {r} /\ place' = place
              /\ r.got # Failed =>
                   /\ s.own = "started" /\ s.failed = Seen.failed /\ place' = "active"
                   /\ place = "take" => /\ copy' = Reloading([copy EXCEPT ![seen] = s])
                                        /\ net' = (net \ {r}) \cup Loads(bounds.visits)
                   /\ place # "take" => /\ copy' = [copy EXCEPT ![seen] = s]
                                        /\ net' = net \ {r}
<1>1. r \in Message /\ r.op = "start" /\ r.by \in Mounted
  BY DEF StartArrives, Basics, TypeOK, Message
<1>2. r \in InFlight("start", r.by)
  BY <1>1 DEF InFlight
<1>3. r.by = seen
  BY <1>1, <1>2 DEF Basics, StartsAgree
<1>4. InFlight("start", seen) = {r} /\ \A c \in Mounted : c # seen => InFlight("start", c) = {}
  BY <1>1, <1>2, <1>3 DEF Basics, StartsAgree, AtMostOne
<1>5. seen \in Mounted /\ Seen \in CopyState
  BY SeenIsState DEF Basics
<1>6. CASE r.got = Failed
  <2> DEFINE s == [Seen EXCEPT !.starting = FALSE, !.failed = TRUE]
  <2>1. copy' = [copy EXCEPT ![seen] = s]
    BY <1>3, <1>5, <1>6 DEF StartArrives, Seen, Basics, TypeOK
  <2>2. net' = net \ {r} /\ place' = place
    BY <1>6 DEF StartArrives
  <2>3. s \in CopyState /\ s.submitting = Seen.submitting /\ ~s.starting /\ s.failed
        /\ s.loading = Seen.loading /\ s.deadline = Seen.deadline
    BY <1>5 DEF CopyState
  <2> HIDE DEF s
  <2> QED
    BY <1>1, <1>3, <1>4, <1>6, <2>1, <2>2, <2>3
<1>7. CASE r.got # Failed
  <2> DEFINE s  == [Seen EXCEPT !.starting = FALSE, !.own = "started"]
             cs == [copy EXCEPT ![r.by].starting = FALSE, ![r.by].own = "started"]
  <2>1. cs = [copy EXCEPT ![seen] = s]
    BY <1>3, <1>5 DEF Seen, Basics, TypeOK
  <2>2. s \in CopyState /\ s.submitting = Seen.submitting /\ ~s.starting /\ s.own = "started"
        /\ s.loading = Seen.loading /\ s.failed = Seen.failed /\ s.deadline = Seen.deadline
    BY <1>5 DEF CopyState
  <2>3. /\ place' = "active"
        /\ copy' = IF place = "take" THEN Reloading(cs) ELSE cs
        /\ net' = (net \ {r}) \cup (IF place = "take" THEN Loads(bounds.visits) ELSE {})
    BY <1>7 DEF StartArrives
  <2> HIDE DEF s, cs
  <2>4. /\ place = "take" => /\ copy' = Reloading(cs)
                             /\ net' = (net \ {r}) \cup Loads(bounds.visits)
        /\ place # "take" => /\ copy' = cs /\ net' = net \ {r}
    BY <2>3
  <2> QED
    BY <1>1, <1>3, <1>4, <1>7, <2>1, <2>2, <2>3, <2>4
<1> QED
  BY <1>6, <1>7

LEMMA StartArrivesBasics ==
  ASSUME Basics, NEW r \in net, r.got # None, StartArrives(r),
         UNCHANGED <<seen, server, exam, clock, bounds>>
  PROVE  Basics' /\ InFlight("start", seen)' = {}
<1>1. /\ r.op = "start" /\ r.by = seen /\ InFlight("start", seen) = {r}
      /\ \A c \in Mounted : c # seen => InFlight("start", c) = {}
  BY StartedCopy
<1>2. PICK s \in CopyState :
        /\ s.submitting = Seen.submitting
        /\ \/ /\ copy' = [copy EXCEPT ![seen] = s]
              /\ net' = net \ {r} /\ place' \in {place, "active"}
           \/ /\ copy' = Reloading([copy EXCEPT ![seen] = s])
              /\ net' = (net \ {r}) \cup Loads(bounds.visits) /\ place' = "active"
  BY StartedCopy
<1> DEFINE cs == [copy EXCEPT ![seen] = s]
<1>3. /\ cs \in [Mounted -> CopyState]
      /\ \A c \in Mounted : cs[c].submitting = copy[c].submitting
  BY <1>2 DEF Basics, TypeOK, Seen
<1> HIDE DEF cs
<1>4. /\ copy' \in [Mounted -> CopyState]
      /\ \A c \in Mounted : copy'[c].submitting = copy[c].submitting
  BY <1>2, <1>3, ReloadingKeeps DEF cs
<1>5. Mounted' = Mounted
  BY <1>4, SameCopies
<1>6. /\ net' \subseteq Message
      /\ \A q \in net' : q.op = "load" => q.got \in {None, Failed} \cup Answers
      /\ \A c \in Mounted : /\ InFlight("submit", c)' = InFlight("submit", c) \ {r}
                            /\ InFlight("start", c)' = InFlight("start", c) \ {r}
  <2>1. CASE net' = net \ {r}
    BY <2>1 DEF InFlight, Basics, TypeOK
  <2>2. CASE net' = (net \ {r}) \cup Loads(bounds.visits)
    <3> DEFINE rs == net \ {r}
    <3>1. rs \in SUBSET net /\ bounds.visits \in Nat /\ TypeOK
      BY DEF Basics, TypeOK
    <3>2. net' = rs \cup Loads(bounds.visits)
      BY <2>2
    <3> HIDE DEF rs
    <3>3. /\ net' \subseteq Message
          /\ \A q \in net' : q.op = "load" => q.got \in {None, Failed} \cup Answers
          /\ \A c \in Mounted :
               /\ InFlight("submit", c)' = InFlight("submit", c) \cap rs
               /\ InFlight("start", c)' = InFlight("start", c) \cap rs
      BY <3>1, <3>2, LoadsAdded
    <3> QED
      BY <3>3 DEF InFlight, rs
  <2> QED
    BY <1>2, <2>1, <2>2
<1>7. \A c \in Mounted : /\ InFlight("submit", c)' = InFlight("submit", c)
                         /\ InFlight("start", c)' = {}
  BY <1>1, <1>6 DEF InFlight
<1>8. TypeOK'
  BY <1>2, <1>4, <1>6, TypedAgain DEF Basics, TypeOK, BoundsType
<1>9. SubmitsAgree'
  BY <1>4, <1>5, <1>7, SubmitsFrame DEF Basics
<1>10. StartsAgree'
  BY <1>5, <1>7 DEF StartsAgree, AtMostOne
<1>11. InFlight("start", seen)' = {}
  <2>1. seen' = seen /\ seen \in Mounted
    BY SeenIsState DEF Basics
  <2> QED
    BY <1>7, <2>1 DEF InFlight
<1> QED
  BY <1>8, <1>9, <1>10, <1>11 DEF Basics

\* A submit that is refused or failed.
LEMMA RefusedBasics ==
  ASSUME Basics, NEW r \in net, r.op = "submit", r.got # Ok, SubmitArrives(r),
         UNCHANGED <<seen, server, exam, clock, bounds>>
  PROVE  /\ Basics'
         /\ copy'[seen].failed \/ copy'[seen] = Seen
         /\ copy'[seen].loading = Seen.loading /\ copy'[seen].own = Seen.own
<1>1. r \in Message /\ r.by \in Mounted \cup {None} /\ net' = net \ {r} /\ place' = place
  BY DEF SubmitArrives, Basics, TypeOK, Message
<1>2. seen \in Mounted /\ \A c \in Mounted : c # None
  BY NoneIsNoNumber DEF Basics, TypeOK
<1>3. \A c \in Mounted : /\ InFlight("start", c)' = InFlight("start", c)
                         /\ InFlight("submit", c)' = InFlight("submit", c) \ {r}
  BY <1>1 DEF InFlight
<1>4. CASE r.by = None
  <2>1. copy' = copy
    BY <1>4 DEF SubmitArrives
  <2>2. copy' \in [Mounted -> CopyState] /\ Mounted' = Mounted
    BY <2>1, SameCopies DEF Basics, TypeOK
  <2>3. \A c \in Mounted : InFlight("submit", c)' = InFlight("submit", c)
    BY <1>2, <1>3, <1>4 DEF InFlight
  <2>4. TypeOK'
    BY <1>1, <2>2, TypedAgain DEF Basics, TypeOK, BoundsType
  <2>5. SubmitsAgree' /\ StartsAgree'
    BY <1>3, <2>1, <2>2, <2>3, SubmitsFrame, StartsFrame DEF Basics
  <2> QED
    BY <2>1, <2>4, <2>5 DEF Basics, Seen
<1>5. CASE r.by \in Mounted
  <2> DEFINE b == copy[r.by]
             s == [b EXCEPT !.failed = TRUE, !.submitting = FALSE, !.due = FALSE]
  <2>1. copy' = [copy EXCEPT ![r.by] = s]
    BY <1>2, <1>5 DEF SubmitArrives, Basics, TypeOK
  <2>2. s \in CopyState /\ ~s.submitting /\ s.starting = b.starting /\ s.failed
        /\ s.loading = b.loading /\ s.own = b.own
    <3>1. b \in CopyState
      BY <1>5 DEF Basics, TypeOK
    <3> HIDE DEF b
    <3> QED
      BY <3>1 DEF CopyState
  <2> HIDE DEF s
  <2>3. /\ copy' \in [Mounted -> CopyState]
        /\ \A c \in Mounted : copy'[c] = IF c = r.by THEN s ELSE copy[c]
    BY <1>5, <2>1, <2>2, CopySet DEF Basics
  <2>4. Mounted' = Mounted
    BY <2>3, SameCopies
  <2>5. r \in InFlight("submit", r.by) /\ InFlight("submit", r.by)' = {}
    BY <1>3, <1>5 DEF InFlight, Basics, SubmitsAgree, AtMostOne
  <2>6. \A c \in Mounted : c # r.by => InFlight("submit", c)' = InFlight("submit", c)
    BY <1>3 DEF InFlight
  <2>7. TypeOK'
    BY <1>1, <2>3, TypedAgain DEF Basics, TypeOK, BoundsType
  <2>8. SubmitsAgree'
    <3>1. ASSUME NEW c \in Mounted
          PROVE  /\ AtMostOne(InFlight("submit", c)')
                 /\ copy'[c].submitting <=> InFlight("submit", c)' # {}
      <4>1. CASE c = r.by
        BY <4>1, <2>2, <2>3, <2>5 DEF AtMostOne
      <4>2. CASE c # r.by
        BY <4>2, <2>3, <2>6 DEF Basics, SubmitsAgree
      <4> QED
        BY <4>1, <4>2
    <3> QED
      BY <2>4, <3>1 DEF SubmitsAgree
  <2>9. StartsAgree'
    BY <1>3, <2>2, <2>3, <2>4, StartsFrame DEF Basics
  <2>10. /\ copy'[seen].failed \/ copy'[seen] = Seen
         /\ copy'[seen].loading = Seen.loading /\ copy'[seen].own = Seen.own
    BY <1>2, <2>2, <2>3 DEF Seen
  <2> QED
    BY <2>7, <2>8, <2>9, <2>10 DEF Basics
<1> QED
  BY <1>1, <1>4, <1>5

LEMMA InitBasics ==
  ASSUME Init
  PROVE  /\ Basics
         /\ bounds.visits \in Nat /\ net = Loads(bounds.visits)
<1>1. PICK cs \in SUBSET Copies :
        /\ seen \in cs
        /\ copy = [c \in cs |-> Fresh]
        /\ bounds = [visits |-> Cardinality(cs) - 1, backs |-> 0, failures |-> 0]
  BY DEF Init
<1>2. Mounted = cs /\ copy \in [Mounted -> CopyState]
  BY <1>1, FreshIsState DEF Mounted
<1>3. Cardinality(cs) \in 1 .. MaxVisits + 1
  <2>1. IsFiniteSet(cs) /\ Cardinality(cs) <= Cardinality(Copies)
    BY SittingAssumption, FS_Subset
  <2>2. Cardinality(cs) \in Nat /\ Cardinality(cs) # 0
    BY <1>1, <2>1, FS_CardinalityType, FS_EmptySet
  <2>3. Cardinality(Copies) <= MaxVisits + 1
    <3>1. MaxVisits \in Nat /\ MaxFailures \in Nat /\ MaxVisits \in Int /\ MaxFailures \in Int
      BY SittingAssumption
    <3> DEFINE least == Min({MaxVisits, MaxFailures})
    <3>2. least \in {MaxVisits, MaxFailures} /\ least <= MaxVisits
      BY <3>1, MinOfTwo, Zenon
    <3>3. Cardinality(Copies) \in 1 .. least + 1
      BY SittingAssumption
    <3> HIDE DEF least
    <3> QED
      BY <3>1, <3>2, <3>3
  <2> QED
    BY <2>1, <2>2, <2>3, SittingAssumption, FS_CardinalityType
<1>4. /\ bounds.visits \in 0 .. MaxVisits /\ bounds.backs <= bounds.visits
      /\ bounds \in [visits : 0 .. MaxVisits, backs : 0 .. MaxVisits, failures : 0 .. MaxFailures]
  BY <1>1, <1>3, SittingAssumption
<1>5. /\ net = Loads(bounds.visits) /\ net \subseteq Message
      /\ \A r \in net : r.op = "load" /\ r.got = None
  BY <1>4, LoadsAreMessages DEF Init
<1>6. server \in [since : Nat \cup {None}, attempts : 0 .. Limit]
  BY SittingAssumption DEF Init
<1>7. TypeOK
  BY <1>1, <1>2, <1>4, <1>5, <1>6, SittingAssumption DEF Init, TypeOK
<1>8. \A c \in Mounted : /\ InFlight("submit", c) = {} /\ InFlight("start", c) = {}
                         /\ ~copy[c].submitting
  BY <1>1, <1>2, <1>5 DEF InFlight, Fresh
<1>9. SubmitsAgree /\ StartsAgree
  BY <1>8 DEF SubmitsAgree, StartsAgree, AtMostOne
<1> QED
  BY <1>4, <1>5, <1>7, <1>9 DEF Basics

-----------------------------------------------------------------------------
(***************************************************************************)
(* The copy that is seen.                                                  *)
(***************************************************************************)

LEMMA Few ==
  ASSUME NEW S, NEW T
  PROVE  /\ T \subseteq S => /\ AtMostOne(S) => AtMostOne(T)
                             /\ AtMostTwo(S) => AtMostTwo(T)
         /\ AtMostOne(S) => AtMostTwo(S)
         /\ S = {} => AtMostOne(S)
         /\ \A x : /\ S = {} => AtMostOne(S \cup {x})
                   /\ AtMostOne(S) => AtMostTwo(S \cup {x})
                   /\ x \in S /\ AtMostOne(S) => S \ {x} = {}
                   /\ x \in S /\ AtMostTwo(S) => AtMostOne(S \ {x})
  BY DEF AtMostOne, AtMostTwo

\* Which loads are blind, before and after a step.
LEMMA BlindOnes ==
  /\ \A r : r \in Blind <=>
       /\ r \in LoadsOfSeen
       /\ r.got = None => Own = None
       /\ r.got # None => r.got # Failed /\ r.got.own = None
  /\ \A r : r \in Blind' <=>
       /\ r \in LoadsOfSeen'
       /\ r.got = None => Own' = None
       /\ r.got # None => r.got # Failed /\ r.got.own = None
  BY DEF Blind

LEMMA FailedIsExcused == bounds'.failures # 0 => SeenTrue'
  BY DEF SeenTrue

\* What the copy shows stays, or gives way to an error, and nothing is asked or answered.
LEMMA SeenFrame ==
  ASSUME SeenTrue, UNCHANGED <<place, seen, exam>>, bounds'.failures = bounds.failures,
         server'.since = server.since, server'.attempts = server.attempts,
         Seen'.loading = Seen.loading,
         Usable' => Usable /\ Seen'.own = Seen.own /\ Seen'.deadline = Seen.deadline,
         InFlight("load", seen)' = InFlight("load", seen),
         InFlight("start", seen)' \subseteq InFlight("start", seen)
  PROVE  SeenTrue'
<1> SUFFICES ASSUME bounds.failures = 0
             PROVE  /\ AnswersTrue' /\ ShownTrue' /\ StartsServed'
                    /\ FewOnStart' /\ FewInExam' /\ NobodyAway'
  BY DEF SeenTrue
<1>1. /\ AnswersTrue /\ ShownTrue /\ StartsServed
      /\ FewOnStart /\ FewInExam /\ NobodyAway
  BY DEF SeenTrue
<1>2. Own' = Own
  BY DEF Own
<1>3. LoadsOfSeen' = LoadsOfSeen /\ (Starting' => Starting)
  BY DEF LoadsOfSeen, Starting
<1>4. Blind' = Blind
  BY <1>2, <1>3, BlindOnes
<1>5. AnswersTrue'
  BY <1>1, <1>3 DEF AnswersTrue
<1>6. ShownTrue'
  BY <1>1 DEF ShownTrue
<1>7. StartsServed'
  BY <1>1, <1>2 DEF StartsServed
<1>8. FewOnStart'
  BY <1>1, <1>3, <1>4 DEF FewOnStart
<1>9. FewInExam'
  BY <1>1, <1>2, <1>3, <1>4 DEF FewInExam
<1>10. NobodyAway'
  BY <1>1, <1>3 DEF NobodyAway
<1> QED
  BY <1>5, <1>6, <1>7, <1>8, <1>9, <1>10

\* Nothing the copy that is seen has asked for is under way but loads just sent.
LEMMA SeenAnew ==
  ASSUME NEW q, InFlight("load", seen)' \subseteq {q}, q.got = None,
         InFlight("start", seen)' = {}, Seen'.loading,
         place' = "away" => InFlight("load", seen)' = {}
  PROVE  SeenTrue'
<1>1. LoadsOfSeen' \subseteq {q} /\ ~Starting' /\ ~Usable'
  BY DEF LoadsOfSeen, Starting, Usable
<1>2. AtMostOne(LoadsOfSeen') /\ Blind' \subseteq LoadsOfSeen'
  BY <1>1, BlindOnes DEF AtMostOne
<1>3. AnswersTrue' /\ ShownTrue' /\ StartsServed'
  BY <1>1 DEF AnswersTrue, ShownTrue, StartsServed
<1>4. FewOnStart'
  BY <1>1, <1>2, Few DEF FewOnStart
<1>5. FewInExam' /\ NobodyAway'
  BY <1>1, <1>2 DEF FewInExam, NobodyAway, LoadsOfSeen
<1> QED
  BY <1>3, <1>4, <1>5 DEF SeenTrue

\* An answer to a load says what is so, and one to a start or a submit can only make
\* loads less blind.
LEMMA SeenServed == ASSUME IInv, NEW r \in net, Serve(r), bounds' = bounds PROVE SeenTrue'
<1> SUFFICES ASSUME bounds.failures = 0
             PROVE  /\ AnswersTrue' /\ ShownTrue' /\ StartsServed'
                    /\ FewOnStart' /\ FewInExam' /\ NobodyAway'
  BY DEF SeenTrue
<1>1. /\ AnswersTrue /\ ShownTrue /\ StartsServed
      /\ FewOnStart /\ FewInExam /\ NobodyAway
  BY DEF IInv, SeenTrue
<1>2. PICK got \in {None, Ok, Failed} \cup Answers :
        /\ net' = (net \ {r}) \cup {[r EXCEPT !.got = got]}
        /\ r.op = "load" => /\ got \in Answers /\ got.own = Own /\ got.since = server.since
                            /\ server' = server
        /\ r.op = "start" => Own' # None
        /\ server' \in ServerType
        /\ server'.attempts >= server.attempts
        /\ Own # None => server'.since = server.since
  BY ServedAnswer DEF IInv
<1> DEFINE q == [r EXCEPT !.got = got]
<1>3. q.op = r.op /\ q.by = r.by /\ q.got = got
  BY <1>2, Answered DEF IInv, Basics, TypeOK
<1>4. /\ UNCHANGED <<place, seen, copy, exam, clock>> /\ r.got = None
      /\ net' = (net \ {r}) \cup {q}
  BY <1>2 DEF Serve
<1> HIDE DEF q
<1>5. /\ Seen' = Seen /\ (Usable' <=> Usable)
      /\ \A op : /\ r \in InFlight(op, seen) =>
                      InFlight(op, seen)' = (InFlight(op, seen) \ {r}) \cup {q}
                 /\ r \notin InFlight(op, seen) => InFlight(op, seen)' = InFlight(op, seen)
                 /\ AtMostOne(InFlight(op, seen)) => AtMostOne(InFlight(op, seen)')
                 /\ InFlight(op, seen)' = {} <=> InFlight(op, seen) = {}
  <2>1. \A op, c : /\ r \in InFlight(op, c) =>
                        InFlight(op, c)' = (InFlight(op, c) \ {r}) \cup {q}
                   /\ r \notin InFlight(op, c) => InFlight(op, c)' = InFlight(op, c)
                   /\ AtMostOne(InFlight(op, c)) => AtMostOne(InFlight(op, c)')
                   /\ InFlight(op, c)' = {} <=> InFlight(op, c) = {}
    BY <1>3, <1>4, Replaced
  <2>2. \A op : InFlight(op, seen)' = {x \in net' : x.op = op /\ x.by = seen}
    BY <1>4 DEF InFlight
  <2>3. \A op, c : InFlight(op, c)' = {x \in net' : x.op = op /\ x.by = c}
    BY DEF InFlight
  <2> QED
    BY <1>4, <2>1, <2>2, <2>3 DEF Seen, Usable
<1>6. /\ r \in LoadsOfSeen => LoadsOfSeen' = (LoadsOfSeen \ {r}) \cup {q}
      /\ r \notin LoadsOfSeen => LoadsOfSeen' = LoadsOfSeen
      /\ Starting' <=> Starting
  BY <1>5 DEF LoadsOfSeen, Starting
<1>7. server.attempts \in Nat /\ server'.attempts \in Nat
  BY <1>2 DEF IInv, Basics, TypeOK, ServerType
<1>8. /\ Own # None => /\ Own' # None /\ server'.since = server.since
      /\ server.attempts > 0 => server'.attempts > 0
      /\ Own = None => server.attempts = 0 /\ server.since = None
  BY <1>2, <1>7, OwnIs
<1>9. /\ r \in LoadsOfSeen => r.op = "load"
      /\ r.op = "load" => Own' = Own
  BY <1>2 DEF LoadsOfSeen, InFlight, Own
<1>10. AtMostOne(LoadsOfSeen) => AtMostOne(LoadsOfSeen')
  BY <1>6 DEF AtMostOne
<1>11. AtMostTwo(LoadsOfSeen) => AtMostTwo(LoadsOfSeen')
  BY <1>6 DEF AtMostTwo
<1>12. (AtMostOne(Blind) => AtMostOne(Blind')) /\ (Blind = {} => Blind' = {})
  <2>1. CASE r \in LoadsOfSeen
    <3>1. \A x \in Blind' : x # q => x \in Blind /\ x # r
      BY <1>6, <1>9, <2>1, BlindOnes
    <3>2. q \in Blind' => r \in Blind
      BY <1>2, <1>3, <1>4, <1>9, <2>1, BlindOnes
    <3> QED
      BY <3>1, <3>2 DEF AtMostOne
  <2>2. CASE r \notin LoadsOfSeen
    <3>1. Blind' \subseteq Blind
      BY <1>6, <1>8, <2>2, BlindOnes
    <3> QED
      BY <3>1, Few
  <2> QED
    BY <2>1, <2>2
<1>13. AnswersTrue'
  <2>1. ASSUME NEW x \in LoadsOfSeen', x.got \notin {None, Failed}, x.got.own # None
        PROVE  /\ x.got.since = server'.since
               /\ server'.since = None => x.got.own = "submitted" /\ server'.attempts > 0
    <3>1. CASE x \in LoadsOfSeen
      <4>1. /\ x.got.since = server.since
            /\ server.since = None => x.got.own = "submitted" /\ server.attempts > 0
        BY <1>1, <2>1, <3>1 DEF AnswersTrue
      <4> QED
        BY <1>7, <1>8, <4>1
    <3>2. CASE x \notin LoadsOfSeen
      <4>1. r \in LoadsOfSeen /\ x = q
        BY <1>6, <2>1, <3>2
      <4>2. x.got.own = Own /\ x.got.since = server.since /\ server' = server
        BY <1>2, <1>3, <1>9, <4>1
      <4> QED
        BY <1>7, <2>1, <4>2, OwnIs
    <3> QED
      BY <3>1, <3>2
  <2> QED
    BY <2>1 DEF AnswersTrue
<1>14. ShownTrue'
  <2>1. Usable /\ Seen.own # None => server'.since = server.since
    BY <1>1, <1>7, <1>8 DEF ShownTrue
  <2> QED
    BY <1>1, <1>4, <1>5, <1>8, <2>1 DEF ShownTrue
<1>15. StartsServed'
  <2>1. ASSUME NEW x \in InFlight("start", seen)', x.got # None PROVE Own' # None
    <3>1. CASE x \in InFlight("start", seen)
      BY <1>1, <1>8, <2>1, <3>1 DEF StartsServed
    <3>2. CASE x \notin InFlight("start", seen)
      <4>1. r \in InFlight("start", seen)
        BY <1>5, <2>1, <3>2
      <4> QED
        BY <1>2, <4>1 DEF InFlight
    <3> QED
      BY <3>1, <3>2
  <2> QED
    BY <2>1 DEF StartsServed
<1>16. FewOnStart'
  BY <1>1, <1>4, <1>5, <1>6, <1>10, <1>11, <1>12 DEF FewOnStart
<1>17. FewInExam'
  <2>1. Starting /\ place = "active" => server'.since # None
    BY <1>1, <1>8 DEF FewInExam
  <2> QED
    BY <1>1, <1>4, <1>5, <1>6, <1>8, <1>10, <1>12, <2>1 DEF FewInExam
<1>18. NobodyAway'
  BY <1>1, <1>4, <1>6 DEF NobodyAway
<1> QED
  BY <1>13, <1>14, <1>15, <1>16, <1>17, <1>18

LEMMA SeenVisit == ASSUME IInv, Visit PROVE SeenTrue'
<1> DEFINE n == bounds.visits + 1
           q == Request("load", seen, n)
<1>1. /\ InFlight("load", seen)' \subseteq Loads(n) /\ InFlight("start", seen)' = {}
      /\ seen \in Mounted /\ n \in Nat /\ seen' = seen /\ place' # "away"
      /\ copy' = [c \in Mounted |-> Fresh]
  <2>1. /\ \A op : \A c \in Mounted : InFlight(op, c)' \subseteq Loads(n)
        /\ \A c \in Mounted : InFlight("start", c)' = {}
    BY VisitBasics DEF IInv
  <2>2. seen \in Mounted /\ n \in Nat /\ seen' = seen /\ place' # "away"
        /\ copy' = [c \in Mounted |-> Fresh]
    BY DEF Visit, IInv, Basics, TypeOK
  <2>3. InFlight("load", seen)' \subseteq Loads(n) /\ InFlight("start", seen)' = {}
    BY <2>1, <2>2 DEF InFlight
  <2> QED
    BY <2>2, <2>3
<1>2. /\ q.got = None
      /\ \A x \in Loads(n) : x.by = seen => x = q
  BY <1>1, LoadsAreMessages, RequestIsMessage
<1>3. InFlight("load", seen)' \subseteq {q}
  BY <1>1, <1>2 DEF InFlight
<1>4. Seen'.loading
  BY <1>1 DEF Seen, Fresh
<1> HIDE DEF q, n
<1> QED
  BY <1>1, <1>2, <1>3, <1>4, SeenAnew

LEMMA SeenGone ==
  ASSUME IInv, NEW rs \in SUBSET net, place' = "away", copy' = [c \in Mounted |-> Fresh],
         net' = Orphaned(rs), UNCHANGED <<seen, server, exam, clock, bounds>>
  PROVE  SeenTrue'
<1>1. \A op : \A c \in Mounted : InFlight(op, c)' = {}
  BY GoneBasics DEF IInv
<1>2. seen \in Mounted
  BY DEF IInv, Basics, TypeOK
<1>3. InFlight("load", seen)' = {} /\ InFlight("start", seen)' = {}
  BY <1>1, <1>2 DEF InFlight
<1>4. Seen'.loading
  BY <1>2 DEF Seen, Fresh
<1> DEFINE q == Request("load", seen, 0)
<1>5. q.got = None
  BY <1>2, RequestIsMessage
<1> HIDE DEF q
<1> QED
  BY <1>3, <1>4, <1>5, SeenAnew

\* The copies load again: one more load under way, blind only if the student has not
\* started.
LEMMA Reloaded ==
  ASSUME Basics, NEW cs \in [Mounted -> CopyState], copy' = Reloading(cs),
         NEW rs \in SUBSET net, NEW n \in Nat, net' = rs \cup Loads(n),
         InFlight("load", seen) \subseteq rs,
         UNCHANGED <<seen, server, exam, clock>>
  PROVE  /\ Seen'.loading /\ ~Usable' /\ Own' = Own
         /\ LoadsOfSeen' = LoadsOfSeen \cup {Request("load", seen, n)}
         /\ Blind' \subseteq Blind \cup {Request("load", seen, n)}
         /\ Own # None => Blind' = Blind
         /\ InFlight("start", seen)' = InFlight("start", seen) \cap rs
         /\ AnswersTrue => AnswersTrue'
         /\ ShownTrue'
<1>1. seen \in Mounted
  BY DEF Basics, TypeOK
<1>2. Request("load", seen, n).got = None
  BY <1>1, RequestIsMessage
<1>3. Seen'.loading /\ ~Usable' /\ Own' = Own
  BY <1>1, ReloadingKeeps DEF Seen, Usable, Own
<1>4. /\ LoadsOfSeen' = LoadsOfSeen \cup {Request("load", seen, n)}
      /\ InFlight("start", seen)' = InFlight("start", seen) \cap rs
  <2>1. \A c \in Mounted :
          /\ InFlight("load", c)' = (InFlight("load", c) \cap rs) \cup {Request("load", c, n)}
          /\ InFlight("start", c)' = InFlight("start", c) \cap rs
    BY LoadsAdded DEF Basics
  <2>2. /\ InFlight("load", seen)' = {x \in net' : x.op = "load" /\ x.by = seen}
        /\ InFlight("start", seen)' = {x \in net' : x.op = "start" /\ x.by = seen}
    BY DEF InFlight
  <2>3. \A op, c : InFlight(op, c)' = {x \in net' : x.op = op /\ x.by = c}
    BY DEF InFlight
  <2>4. InFlight("load", seen)' = InFlight("load", seen) \cup {Request("load", seen, n)}
    BY <1>1, <2>1, <2>2, <2>3
  <2>5. InFlight("start", seen)' = InFlight("start", seen) \cap rs
    BY <1>1, <2>1, <2>2, <2>3
  <2> QED
    BY <2>4, <2>5 DEF LoadsOfSeen
<1>5. Blind' \subseteq Blind \cup {Request("load", seen, n)}
  BY <1>3, <1>4, BlindOnes
<1>6. Own # None => Blind' = Blind
  BY <1>2, <1>3, <1>4, BlindOnes
<1>7. AnswersTrue => AnswersTrue'
  BY <1>2, <1>4 DEF AnswersTrue
<1>8. ShownTrue'
  BY <1>3 DEF ShownTrue
<1> QED
  BY <1>3, <1>4, <1>5, <1>6, <1>7, <1>8

LEMMA SeenBack == ASSUME IInv, Back PROVE SeenTrue'
<1> SUFFICES ASSUME bounds.failures = 0
             PROVE  /\ AnswersTrue' /\ ShownTrue' /\ StartsServed'
                    /\ FewOnStart' /\ FewInExam' /\ NobodyAway'
  BY DEF SeenTrue, Back, IInv, Basics, TypeOK
<1>1. /\ AnswersTrue /\ StartsServed /\ FewInExam
  BY DEF IInv, SeenTrue
<1> DEFINE n == bounds.visits + 1
           q == Request("load", seen, n)
<1>2. /\ Seen'.loading /\ ~Usable' /\ Own' = Own
      /\ LoadsOfSeen' = LoadsOfSeen \cup {q}
      /\ Blind' \subseteq Blind \cup {q}
      /\ Own # None => Blind' = Blind
      /\ InFlight("start", seen)' = InFlight("start", seen)
      /\ AnswersTrue' /\ ShownTrue'
  <2>1. /\ Basics /\ copy \in [Mounted -> CopyState] /\ n \in Nat /\ net \in SUBSET net
        /\ InFlight("load", seen) \subseteq net
        /\ InFlight("start", seen) \cap net = InFlight("start", seen)
    BY DEF IInv, Basics, TypeOK, InFlight
  <2>2. /\ copy' = Reloading(copy) /\ net' = net \cup Loads(n)
        /\ UNCHANGED <<seen, server, exam, clock>>
    BY DEF Back
  <2> HIDE DEF n
  <2> QED
    BY <1>1, <2>1, <2>2, Reloaded
<1> HIDE DEF q, n
<1>3. place = "active" /\ place' = "take"
  BY DEF Back
<1>4. Starting' <=> Starting
  BY <1>2 DEF Starting
<1>5. StartsServed'
  BY <1>1, <1>2 DEF StartsServed
<1>6. /\ Blind = {} \/ AtMostOne(LoadsOfSeen) \/ (Own # None /\ AtMostOne(Blind))
      /\ Starting => Own # None /\ Blind = {}
  BY <1>1, <1>3, OwnIs DEF FewInExam, IInv, Basics, TypeOK
<1>7. AtMostTwo(LoadsOfSeen') \/ AtMostOne(Blind')
  <2>1. CASE Blind = {}
    BY <1>2, <2>1 DEF AtMostOne
  <2>2. CASE AtMostOne(LoadsOfSeen)
    BY <1>2, <2>2 DEF AtMostOne, AtMostTwo
  <2>3. CASE Own # None /\ AtMostOne(Blind)
    BY <1>2, <2>3
  <2> QED
    BY <1>6, <2>1, <2>2, <2>3
<1>8. FewOnStart'
  BY <1>2, <1>4, <1>6, <1>7 DEF FewOnStart
<1>9. FewInExam' /\ NobodyAway'
  BY <1>3 DEF FewInExam, NobodyAway
<1> QED
  BY <1>2, <1>5, <1>8, <1>9

LEMMA SeenContinue == ASSUME IInv, Continue PROVE SeenTrue'
<1> SUFFICES ASSUME bounds.failures = 0
             PROVE  /\ AnswersTrue' /\ ShownTrue' /\ StartsServed'
                    /\ FewOnStart' /\ FewInExam' /\ NobodyAway'
  BY DEF SeenTrue, Continue
<1>1. /\ AnswersTrue /\ ShownTrue /\ StartsServed /\ FewOnStart
  BY DEF IInv, SeenTrue
<1> DEFINE n == bounds.visits
           q == Request("load", seen, n)
<1>2. /\ Seen'.loading /\ ~Usable' /\ Own' = Own
      /\ Own # None => Blind' = Blind
      /\ InFlight("start", seen)' = InFlight("start", seen)
      /\ AnswersTrue' /\ ShownTrue'
  <2>1. /\ Basics /\ copy \in [Mounted -> CopyState] /\ n \in Nat /\ net \in SUBSET net
        /\ InFlight("load", seen) \subseteq net
        /\ InFlight("start", seen) \cap net = InFlight("start", seen)
    BY DEF IInv, Basics, TypeOK, InFlight
  <2>2. /\ copy' = Reloading(copy) /\ net' = net \cup Loads(n)
        /\ UNCHANGED <<seen, server, exam, clock>>
    BY DEF Continue
  <2> HIDE DEF n
  <2> QED
    BY <1>1, <2>1, <2>2, Reloaded
<1> HIDE DEF q, n
<1>3. place = "take" /\ place' = "active" /\ server' = server
      /\ Usable /\ Seen.own = "started" /\ ~Seen.loading
  BY DEF Continue, Usable
<1>4. server.since # None /\ Own # None
  BY <1>1, <1>3, NoneIsNoNumber, OwnIs DEF ShownTrue, IInv, Basics, TypeOK
<1>5. AtMostOne(Blind) /\ (Starting => Blind = {})
  BY <1>1, <1>3, NoneIsNoNumber DEF FewOnStart
<1>6. StartsServed'
  BY <1>1, <1>2 DEF StartsServed
<1>7. Starting' <=> Starting
  BY <1>2 DEF Starting
<1>8. FewInExam'
  BY <1>2, <1>3, <1>4, <1>5, <1>7 DEF FewInExam
<1>9. FewOnStart' /\ NobodyAway'
  BY <1>3 DEF FewOnStart, NobodyAway
<1> QED
  BY <1>2, <1>6, <1>8, <1>9

LEMMA SeenStart == ASSUME IInv, Start PROVE SeenTrue'
<1> SUFFICES ASSUME bounds.failures = 0
             PROVE  /\ AnswersTrue' /\ ShownTrue' /\ StartsServed'
                    /\ FewOnStart' /\ FewInExam' /\ NobodyAway'
  BY DEF SeenTrue, Start
<1>1. /\ AnswersTrue /\ ShownTrue /\ StartsServed /\ FewOnStart
  BY DEF IInv, SeenTrue
<1> DEFINE q == Request("start", seen, bounds.visits)
<1>2. q.op = "start" /\ q.by = seen /\ q.got = None
  BY RequestIsMessage DEF IInv, Basics, TypeOK
<1>3. /\ place = "take" /\ place' = "take" /\ Usable /\ Seen.own = None
      /\ net' = net \cup {q} /\ UNCHANGED <<seen, server, exam>>
  BY DEF Start
<1> HIDE DEF q
<1>4. Seen'.loading = Seen.loading /\ Seen'.failed = Seen.failed /\ Seen'.own = None
  BY <1>3 DEF Start, Seen, IInv, Basics, TypeOK, CopyState
<1>5. LoadsOfSeen' = LoadsOfSeen
  BY <1>2, <1>3 DEF LoadsOfSeen, InFlight
<1>6. InFlight("start", seen)' \subseteq InFlight("start", seen) \cup {q}
  BY <1>3 DEF InFlight
<1>7. Own' = Own
  BY <1>3 DEF Own
<1>8. Blind' = Blind
  BY <1>5, <1>7, BlindOnes
<1>9. AnswersTrue'
  BY <1>1, <1>3, <1>5 DEF AnswersTrue
<1>10. ShownTrue'
  BY <1>4 DEF ShownTrue
<1>11. StartsServed'
  BY <1>1, <1>2, <1>6, <1>7 DEF StartsServed
<1>12. FewOnStart'
  BY <1>1, <1>3, <1>4, <1>5, <1>8 DEF FewOnStart
<1>13. FewInExam' /\ NobodyAway'
  BY <1>3 DEF FewInExam, NobodyAway
<1> QED
  BY <1>9, <1>10, <1>11, <1>12, <1>13

\* An answer to a load of the copy that is seen: one load less, and if the copy now
\* believes that the student has not started it was the last blind one.
LEMMA SeenLoaded ==
  ASSUME IInv, NEW r \in net, r.got # None, LoadArrives(r), r.by = seen,
         UNCHANGED <<seen, server, exam, clock, bounds>>
  PROVE  SeenTrue'
<1> SUFFICES ASSUME bounds.failures = 0
             PROVE  /\ AnswersTrue' /\ ShownTrue' /\ StartsServed'
                    /\ FewOnStart' /\ FewInExam' /\ NobodyAway'
  BY DEF SeenTrue
<1>1. /\ AnswersTrue /\ ShownTrue /\ StartsServed
      /\ FewOnStart /\ FewInExam /\ NobodyAway
  BY DEF IInv, SeenTrue
<1>2. PICK s \in CopyState :
        /\ copy' = [copy EXCEPT ![r.by] = s]
        /\ ~s.loading
        /\ r.got = Failed => s.failed
        /\ r.got # Failed => s.own = r.got.own /\ s.deadline = Deadline(r)
  BY LoadedCopy DEF IInv
<1>3. /\ r.op = "load" /\ net' = net \ {r} /\ place' = place /\ seen' = seen
      /\ seen \in Mounted
  BY DEF LoadArrives, IInv, Basics, TypeOK
<1>4. Seen' = s /\ (Usable' => r.got # Failed)
  BY <1>2, <1>3 DEF Seen, Usable, IInv, Basics, TypeOK
<1>5. /\ r \in LoadsOfSeen /\ LoadsOfSeen' = LoadsOfSeen \ {r}
      /\ InFlight("start", seen)' = InFlight("start", seen)
  BY <1>3 DEF LoadsOfSeen, InFlight
<1>6. Own' = Own /\ (Starting' <=> Starting)
  BY <1>5 DEF Own, Starting
<1>7. Blind' = Blind \ {r}
  BY <1>5, <1>6, BlindOnes
<1>8. Usable' => (r \in Blind <=> s.own = None)
  BY <1>2, <1>4, <1>5, BlindOnes
<1>9. /\ AtMostTwo(LoadsOfSeen) => AtMostOne(LoadsOfSeen')
      /\ AtMostOne(LoadsOfSeen) => LoadsOfSeen' = {}
      /\ AtMostOne(LoadsOfSeen') => AtMostOne(Blind')
      /\ LoadsOfSeen' = {} => Blind' = {}
      /\ AtMostOne(Blind) => AtMostOne(Blind')
      /\ r \in Blind /\ AtMostOne(Blind) => Blind' = {}
      /\ AtMostTwo(LoadsOfSeen) => AtMostTwo(LoadsOfSeen')
  <2>1. Blind' \subseteq LoadsOfSeen'
    BY BlindOnes
  <2> QED
    BY <1>5, <1>7, <2>1 DEF AtMostOne, AtMostTwo
<1>10. AnswersTrue'
  BY <1>1, <1>5 DEF AnswersTrue
<1>11. ShownTrue'
  <2>1. SUFFICES ASSUME Usable', s.own # None
                 PROVE  /\ server.since = None => s.own = "submitted" /\ server.attempts > 0
                        /\ s.deadline = IF exam.end # None THEN exam.end
                                        ELSE IF server.since # None THEN server.since + Duration
                                        ELSE None
    BY <1>4 DEF ShownTrue
  <2>2. /\ r.got.since = server.since
        /\ server.since = None => r.got.own = "submitted" /\ server.attempts > 0
    BY <1>1, <1>2, <1>4, <1>5, <2>1 DEF AnswersTrue
  <2>3. s.own = r.got.own /\ s.deadline = Deadline(r)
    BY <1>2, <1>4, <2>1
  <2> QED
    BY <2>2, <2>3 DEF Deadline, FromStart
<1>12. StartsServed'
  BY <1>1, <1>3, <1>5, <1>6 DEF StartsServed
<1>13. FewOnStart'
  BY <1>1, <1>3, <1>4, <1>6, <1>7, <1>8, <1>9 DEF FewOnStart
<1>14. FewInExam'
  BY <1>1, <1>3, <1>4, <1>6, <1>7, <1>8, <1>9 DEF FewInExam
<1>15. NobodyAway'
  BY <1>1, <1>3, <1>5, <1>6 DEF NobodyAway
<1> QED
  BY <1>10, <1>11, <1>12, <1>13, <1>14, <1>15

\* One of the other copy's.
LEMMA OtherLoaded ==
  ASSUME IInv, NEW r \in net, r.got # None, LoadArrives(r), r.by # seen,
         UNCHANGED <<seen, server, exam, clock, bounds>>
  PROVE  SeenTrue'
<1>1. PICK s \in CopyState : copy' = [copy EXCEPT ![r.by] = s]
  BY LoadedCopy DEF IInv
<1>2. Seen' = Seen
  BY <1>1 DEF Seen, IInv, Basics, TypeOK
<1>3. net' = net \ {r} /\ place' = place
  BY DEF LoadArrives
<1>4. /\ InFlight("load", seen)' = InFlight("load", seen)
      /\ InFlight("start", seen)' = InFlight("start", seen)
  BY <1>3 DEF InFlight
<1> QED
  BY <1>2, <1>3, <1>4, SeenFrame DEF IInv, Usable

\* The answer to a start: the student has started by now, and no load that says otherwise
\* can be left for after the one this sends.
LEMMA SeenStarted ==
  ASSUME IInv, NEW r \in net, r.got # None, StartArrives(r),
         UNCHANGED <<seen, server, exam, clock, bounds>>
  PROVE  SeenTrue'
<1> SUFFICES ASSUME bounds.failures = 0 PROVE SeenTrue'
  BY DEF SeenTrue
<1>1. /\ AnswersTrue /\ ShownTrue /\ StartsServed
      /\ FewOnStart /\ FewInExam /\ NobodyAway
  BY DEF IInv, SeenTrue
<1>2. /\ r.op = "start" /\ r.by = seen /\ InFlight("start", seen) = {r}
      /\ InFlight("start", seen)' = {} /\ Basics /\ seen \in Mounted
  BY StartedCopy, StartArrivesBasics DEF IInv, Basics, TypeOK
<1>3. PICK s \in CopyState :
        /\ s.loading = Seen.loading /\ s.deadline = Seen.deadline
        /\ r.got = Failed =>
             /\ s.failed /\ copy' = [copy EXCEPT ![seen] = s]
             /\ net' = net \ {r} /\ place' = place
        /\ r.got # Failed =>
             /\ s.own = "started" /\ s.failed = Seen.failed /\ place' = "active"
             /\ place = "take" => /\ copy' = Reloading([copy EXCEPT ![seen] = s])
                                  /\ net' = (net \ {r}) \cup Loads(bounds.visits)
             /\ place # "take" => /\ copy' = [copy EXCEPT ![seen] = s]
                                  /\ net' = net \ {r}
  BY StartedCopy DEF IInv
<1>4. Starting /\ ~Starting' /\ Own # None /\ Own' = Own
  BY <1>1, <1>2 DEF Starting, StartsServed, Own
<1>5. ASSUME copy' = [copy EXCEPT ![seen] = s], net' = net \ {r}
      PROVE  Seen' = s /\ InFlight("load", seen)' = InFlight("load", seen)
  BY <1>2, <1>5 DEF Seen, InFlight, IInv, Basics, TypeOK
<1>6. CASE r.got = Failed
  <2>1. Seen'.loading = Seen.loading /\ ~Usable'
    BY <1>3, <1>5, <1>6 DEF Usable
  <2> QED
    BY <1>2, <1>3, <1>5, <1>6, <2>1, SeenFrame DEF IInv
<1>7. CASE r.got # Failed /\ place = "take"
  <2> DEFINE cs == [copy EXCEPT ![seen] = s]
             rs == net \ {r}
             n  == bounds.visits
             q  == Request("load", seen, n)
  <2>1. /\ cs \in [Mounted -> CopyState] /\ rs \in SUBSET net /\ n \in Nat
        /\ InFlight("load", seen) \subseteq rs
    BY <1>2 DEF IInv, Basics, TypeOK, InFlight
  <2>2. /\ copy' = Reloading(cs) /\ net' = rs \cup Loads(n) /\ place' = "active"
    BY <1>3, <1>7
  <2> HIDE DEF cs, rs, n, q
  <2>3. ~Usable' /\ Blind' = Blind /\ AnswersTrue' /\ ShownTrue'
    BY <1>1, <1>2, <1>4, <2>1, <2>2, Reloaded
  <2>4. AtMostOne(Blind)
    <3>1. Blind = {} \/ AtMostOne(LoadsOfSeen)
      BY <1>1, <1>4, <1>7 DEF FewOnStart
    <3>2. Blind \subseteq LoadsOfSeen
      BY BlindOnes
    <3> QED
      BY <3>1, <3>2 DEF AtMostOne
  <2>5. StartsServed' /\ FewOnStart' /\ NobodyAway'
    BY <1>2, <2>2 DEF StartsServed, FewOnStart, NobodyAway
  <2>6. FewInExam'
    BY <1>4, <2>3, <2>4 DEF FewInExam
  <2> QED
    BY <2>3, <2>5, <2>6 DEF SeenTrue
<1>8. CASE r.got # Failed /\ place # "take"
  <2>1. place = "active" /\ place' = "active"
    BY <1>1, <1>3, <1>4, <1>8 DEF NobodyAway, IInv, Basics, TypeOK
  <2>2. /\ Seen' = s /\ LoadsOfSeen' = LoadsOfSeen
        /\ s.own = "started" /\ s.failed = Seen.failed
    BY <1>3, <1>5, <1>8 DEF LoadsOfSeen
  <2>3. Blind' = Blind
    BY <1>4, <2>2, BlindOnes
  <2>4. /\ server.since # None
        /\ Usable => Seen.own # None
    BY <1>1, <1>4, <2>1 DEF FewInExam
  <2>5. Usable' <=> Usable
    BY <1>3, <2>2 DEF Usable
  <2>6. AnswersTrue'
    BY <1>1, <2>2 DEF AnswersTrue
  <2>7. ShownTrue'
    BY <1>1, <1>3, <2>2, <2>4, <2>5 DEF ShownTrue
  <2>8. StartsServed' /\ FewOnStart' /\ NobodyAway'
    BY <1>2, <2>1 DEF StartsServed, FewOnStart, NobodyAway
  <2>9. FewInExam'
    BY <1>1, <1>4, <2>1, <2>2, <2>3 DEF FewInExam
  <2> QED
    BY <2>6, <2>7, <2>8, <2>9 DEF SeenTrue
<1> QED
  BY <1>6, <1>7, <1>8

LEMMA SubmitArrivesIInv ==
  ASSUME IInv, NEW r \in net, SubmitArrives(r),
         UNCHANGED <<seen, server, exam, clock, bounds>>
  PROVE  IInv'
<1>1. CASE r.got = Ok
  <2> DEFINE rs == net \ {r}
  <2>1. /\ place' = "away" /\ copy' = [c \in Mounted |-> Fresh] /\ net' = Orphaned(rs)
        /\ rs \in SUBSET net
    BY <1>1 DEF SubmitArrives
  <2> HIDE DEF rs
  <2> QED
    BY <2>1, GoneBasics, SeenGone DEF IInv
<1>2. CASE r.got # Ok
  <2>1. /\ r.op = "submit" /\ net' = net \ {r} /\ place' = place
    BY <1>2 DEF SubmitArrives
  <2>2. /\ Basics'
        /\ copy'[seen].failed \/ copy'[seen] = Seen
        /\ copy'[seen].loading = Seen.loading /\ copy'[seen].own = Seen.own
    BY <1>2, <2>1, RefusedBasics DEF IInv
  <2>3. /\ Seen'.loading = Seen.loading
        /\ Usable' => Usable /\ Seen'.own = Seen.own /\ Seen'.deadline = Seen.deadline
    BY <2>2 DEF Seen, Usable
  <2>4. /\ InFlight("load", seen)' = InFlight("load", seen)
        /\ InFlight("start", seen)' \subseteq InFlight("start", seen)
    BY <2>1 DEF InFlight
  <2> QED
    BY <2>1, <2>2, <2>3, <2>4, SeenFrame DEF IInv
<1> QED
  BY <1>1, <1>2

LEMMA ArriveIInv == ASSUME IInv, NEW r \in net, Arrive(r) PROVE IInv'
<1>1. r.got # None /\ UNCHANGED <<seen, server, exam, clock, bounds>>
  BY DEF Arrive
<1>2. CASE LoadArrives(r)
  BY <1>1, <1>2, LoadArrivesBasics, SeenLoaded, OtherLoaded DEF IInv
<1>3. CASE StartArrives(r)
  BY <1>1, <1>3, StartArrivesBasics, SeenStarted DEF IInv
<1>4. CASE SubmitArrives(r)
  BY <1>1, <1>4, SubmitArrivesIInv
<1>5. CASE Unheard(r)
  <2>1. Basics' /\ \A op : \A c \in Mounted : InFlight(op, c)' = InFlight(op, c)
    BY <1>1, <1>5, UnheardBasics DEF IInv
  <2>2. UNCHANGED <<place, copy>> /\ seen \in Mounted
    BY <1>5 DEF Unheard, IInv, Basics, TypeOK
  <2>3. /\ InFlight("load", seen)' = InFlight("load", seen)
        /\ InFlight("start", seen)' = InFlight("start", seen)
    BY <1>1, <2>1, <2>2 DEF InFlight
  <2> QED
    BY <1>1, <2>1, <2>2, <2>3, SeenFrame DEF IInv, Seen, Usable
<1> QED
  BY <1>2, <1>3, <1>4, <1>5 DEF Arrive

LEMMA ServeIInv == ASSUME IInv, NEW r \in net, Serve(r) PROVE IInv'
<1>1. Basics'
  BY ServeBasics DEF IInv
<1>2. SeenTrue'
  <2>1. CASE bounds' = bounds
    BY <2>1, SeenServed
  <2>2. CASE bounds' # bounds
    <3>1. MayFail /\ bounds' = [bounds EXCEPT !.failures = @ + 1]
      BY <2>2 DEF Serve
    <3> QED
      BY <3>1, FailureCounts, FailedIsExcused DEF IInv
  <2> QED
    BY <2>1, <2>2
<1> QED
  BY <1>1, <1>2 DEF IInv

-----------------------------------------------------------------------------
(***************************************************************************)
(* What the student and the clock do while nothing is asked or answered.   *)
(***************************************************************************)

LEMMA SubmitByFrame ==
  ASSUME IInv, NEW c \in Mounted, NEW cs \in [Mounted -> CopyState],
         \A d \in Mounted : /\ cs[d].loading = copy[d].loading
                            /\ cs[d].failed = copy[d].failed
                            /\ cs[d].own = copy[d].own
                            /\ cs[d].deadline = copy[d].deadline,
         SubmitBy(c, cs) \/ (copy' = cs /\ UNCHANGED net),
         UNCHANGED <<place, seen, server, exam, bounds>>
  PROVE  SeenTrue'
<1>1. seen \in Mounted
  BY DEF IInv, Basics, TypeOK
<1>2. \/ copy' = cs /\ net' = net
      \/ \E n \in {0, 1} : /\ copy' = [cs EXCEPT ![c].submitting = TRUE, ![c].due = FALSE]
                           /\ net' = net \cup {Request("submit", c, n)}
  BY DEF SubmitBy
<1>3. /\ Seen'.loading = Seen.loading /\ Seen'.failed = Seen.failed
      /\ Seen'.own = Seen.own /\ Seen'.deadline = Seen.deadline
  <2>1. CASE copy' = cs
    BY <1>1, <2>1 DEF Seen
  <2>2. CASE copy' = [cs EXCEPT ![c].submitting = TRUE, ![c].due = FALSE]
    BY <1>1, <2>2 DEF Seen, CopyState
  <2> QED
    BY <1>2, <2>1, <2>2
<1>4. /\ InFlight("load", seen)' = InFlight("load", seen)
      /\ InFlight("start", seen)' = InFlight("start", seen)
  BY <1>2, RequestIsMessage DEF InFlight
<1> QED
  BY <1>3, <1>4, SeenFrame DEF IInv, Usable

LEMMA SubmitIInv == ASSUME IInv, Submit PROVE IInv'
<1>1. Basics'
  BY SubmitBasics DEF IInv
<1>2. seen \in Mounted /\ copy \in [Mounted -> CopyState]
  BY DEF IInv, Basics, TypeOK
<1> QED
  BY <1>1, <1>2, SubmitByFrame DEF Submit, IInv

LEMMA TimerIInv == ASSUME IInv, NEW c \in Mounted, Timer(c) PROVE IInv'
<1>1. Basics'
  BY TimerBasics DEF IInv
<1> DEFINE cs == [copy EXCEPT ![c].left = NextLeft(c), ![c].due = FALSE]
<1>2. /\ cs \in [Mounted -> CopyState]
      /\ \A d \in Mounted : /\ cs[d].loading = copy[d].loading
                            /\ cs[d].failed = copy[d].failed
                            /\ cs[d].own = copy[d].own
                            /\ cs[d].deadline = copy[d].deadline
  BY NextLeftIsNat, CountedDown DEF IInv, Basics
<1>3. /\ SubmitBy(c, cs) \/ (copy' = cs /\ UNCHANGED net)
      /\ UNCHANGED <<place, seen, server, exam, clock, bounds>>
  BY DEF Timer
<1> HIDE DEF cs
<1> QED
  BY <1>1, <1>2, <1>3, SubmitByFrame DEF IInv

LEMMA CopyFrame ==
  ASSUME IInv, UNCHANGED <<place, seen, net, exam, bounds>>,
         server'.since = server.since, server'.attempts = server.attempts,
         /\ Seen'.loading = Seen.loading /\ Seen'.failed = Seen.failed
         /\ Seen'.own = Seen.own /\ Seen'.deadline = Seen.deadline
  PROVE  SeenTrue'
<1>1. /\ InFlight("load", seen)' = InFlight("load", seen)
      /\ InFlight("start", seen)' = InFlight("start", seen)
  BY DEF InFlight
<1> QED
  BY <1>1, SeenFrame DEF IInv, Usable

LEMMA ExamIInv == ASSUME IInv, Answer \/ Turn \/ Second PROVE IInv'
<1>1. Basics'
  BY AnswerBasics, TurnBasics, SecondBasics DEF IInv
<1>2. UNCHANGED <<place, seen, net, exam, bounds>>
  BY DEF Answer, Turn, Second
<1>3. server'.since = server.since /\ server'.attempts = server.attempts
  BY DEF Answer, Turn, Second, IInv, Basics, TypeOK
<1>4. /\ Seen'.loading = Seen.loading /\ Seen'.failed = Seen.failed
      /\ Seen'.own = Seen.own /\ Seen'.deadline = Seen.deadline
  <2>1. seen \in Mounted /\ seen' = seen /\ Seen \in CopyState
    BY <1>2 DEF Seen, IInv, Basics, TypeOK
  <2>2. CASE Answer
    BY <2>1, <2>2 DEF Answer, Seen, IInv, Basics, TypeOK, CopyState
  <2>3. CASE Turn
    BY <2>1, <2>3 DEF Turn, Seen, IInv, Basics, TypeOK, CopyState
  <2>4. CASE Second
    BY <2>1, <2>4 DEF Second, Seen, CopyState
  <2> QED
    BY <2>2, <2>3, <2>4
<1> QED
  BY <1>1, <1>2, <1>3, <1>4, CopyFrame DEF IInv

-----------------------------------------------------------------------------
LEMMA InitIInv == Init => IInv
<1> SUFFICES ASSUME Init PROVE IInv
  OBVIOUS
<1>1. Basics /\ bounds.visits \in Nat /\ net = Loads(bounds.visits)
  BY InitBasics
<1>2. seen \in Mounted /\ Seen.loading /\ place = "take"
  BY <1>1 DEF Init, Seen, Basics, TypeOK, Fresh
<1>3. /\ \A r \in Loads(bounds.visits) : r.op = "load" /\ r.got = None
      /\ \A r \in Loads(bounds.visits), c \in Mounted :
           r.by = c => r = Request("load", c, bounds.visits)
  BY <1>1, LoadsAreMessages
<1>4. LoadsOfSeen \subseteq {Request("load", seen, bounds.visits)} /\ ~Starting
  BY <1>1, <1>2, <1>3 DEF LoadsOfSeen, Starting, InFlight
<1>5. Blind \subseteq LoadsOfSeen /\ AtMostOne(LoadsOfSeen)
  BY <1>4, BlindOnes DEF AtMostOne
<1>6. AnswersTrue /\ ShownTrue /\ StartsServed
  BY <1>1, <1>2, <1>3, <1>4 DEF AnswersTrue, ShownTrue, StartsServed, LoadsOfSeen, Starting,
     InFlight, Usable
<1>7. FewOnStart /\ FewInExam /\ NobodyAway
  BY <1>2, <1>4, <1>5 DEF FewOnStart, FewInExam, NobodyAway, Usable, AtMostOne
<1> QED
  BY <1>1, <1>6, <1>7 DEF IInv, SeenTrue

LEMMA NextIInv == IInv /\ [Next]_vars => IInv'
<1> SUFFICES ASSUME IInv, [Next]_vars PROVE IInv'
  OBVIOUS
<1>1. CASE Visit
  BY <1>1, VisitBasics, SeenVisit DEF IInv
<1>2. CASE Back
  BY <1>2, BackBasics, SeenBack DEF IInv
<1>3. CASE Leave
  <2>1. /\ place' = "away" /\ net' = Orphaned(net) /\ copy' = [c \in Mounted |-> Fresh]
        /\ UNCHANGED <<seen, server, exam, clock, bounds>> /\ net \in SUBSET net
    BY <1>3 DEF Leave
  <2> QED
    BY <2>1, GoneBasics, SeenGone DEF IInv
<1>4. CASE Start
  BY <1>4, StartBasics, SeenStart DEF IInv
<1>5. CASE Continue
  BY <1>5, ContinueBasics, SeenContinue DEF IInv
<1>6. CASE Answer \/ Turn \/ Second
  BY <1>6, ExamIInv
<1>7. CASE Submit
  BY <1>7, SubmitIInv
<1>8. ASSUME NEW c \in Mounted, Timer(c) PROVE IInv'
  BY <1>8, TimerIInv
<1>9. ASSUME NEW r \in net, Serve(r) \/ Arrive(r) PROVE IInv'
  BY <1>9, ServeIInv, ArriveIInv
<1>10. ASSUME NEW r \in net, Lose(r) PROVE IInv'
  BY <1>10, LoseBasics, FailedIsExcused DEF IInv
<1>11. CASE UNCHANGED vars
  <2>1. Basics'
    BY <1>11, SameCopies DEF vars, IInv, Basics, TypeOK, SubmitsAgree, StartsAgree, InFlight
  <2>2. SeenTrue'
    BY <1>11, CopyFrame DEF vars, Seen
  <2> QED
    BY <2>1, <2>2 DEF IInv
<1> QED
  BY <1>1, <1>2, <1>3, <1>4, <1>5, <1>6, <1>7, <1>8, <1>9, <1>10, <1>11 DEF Next

LEMMA IInvImplies == IInv => SittingIsConsistent
<1> SUFFICES ASSUME IInv PROVE SittingIsConsistent
  OBVIOUS
<1>1. TypeOK
  BY DEF IInv, Basics
<1>2. ASSUME NEW c \in Mounted
      PROVE  Cardinality(InFlight("submit", c)) = IF copy[c].submitting THEN 1 ELSE 0
  <2>1. /\ AtMostOne(InFlight("submit", c))
        /\ copy[c].submitting <=> InFlight("submit", c) # {}
    BY DEF IInv, Basics, SubmitsAgree
  <2>2. CASE copy[c].submitting
    <3>1. PICK r : r \in InFlight("submit", c)
      BY <2>1, <2>2
    <3>2. InFlight("submit", c) = {r}
      BY <2>1, <3>1 DEF AtMostOne
    <3> QED
      BY <2>2, <3>2, FS_Singleton
  <2>3. CASE ~copy[c].submitting
    BY <2>1, <2>3, FS_EmptySet
  <2> QED
    BY <2>2, <2>3
<1>3. TimeIsNotExtended
  BY NoneIsNoNumber DEF TimeIsNotExtended, IInv, SeenTrue, ShownTrue
<1> QED
  BY <1>1, <1>2, <1>3 DEF SittingIsConsistent, OneSubmitPerCopy

\* However the student moves between the start screen and the exam, and whatever order
\* the loads and starts of both copies are answered in: a copy has one submit in flight
\* while its button says so, and the exam that is shown ends when it must.
THEOREM TimeStands == SafetySpec => []SittingIsConsistent
<1>1. SafetySpec => []IInv
  BY InitIInv, NextIInv, PTL DEF SafetySpec
<1> QED
  BY <1>1, IInvImplies, PTL

-----------------------------------------------------------------------------
(***************************************************************************)
(* No early submission.  The copy that is hidden counts down, too; what it *)
(* takes the student to have started by, it took from one load.            *)
(***************************************************************************)

\* Loads that say that the student has started say when, and so does what a hidden copy
\* took from one.
OthersTrue ==
  bounds.failures = 0 =>
    /\ \A r \in net : r.op = "load" /\ r.got \notin {None, Failed} /\ r.got.own = "started" =>
         server.since # None /\ r.got.since = server.since
    /\ \A c \in Mounted \ {seen} : copy[c].own = "started" =>
         /\ server.since # None
         /\ copy[c].deadline = IF exam.end # None THEN exam.end ELSE server.since + Duration

\* Nothing is answered, and the hidden copy shows what it showed, or starts afresh.
LEMMA OthersFrame ==
  ASSUME OthersTrue, Mounted' = Mounted, UNCHANGED <<seen, exam>>,
         bounds'.failures = bounds.failures,
         server.since # None => server'.since = server.since,
         \A r \in net' : r \in net \/ r.op # "load" \/ r.got = None,
         \A c \in Mounted \ {seen} :
           \/ copy'[c].own # "started"
           \/ copy'[c].own = copy[c].own /\ copy'[c].deadline = copy[c].deadline
  PROVE  OthersTrue'
  BY DEF OthersTrue

\* Requests that go with their copies, and loads that are sent, have no answer.
LEMMA NewLoads ==
  /\ \A rs \in SUBSET net : \A r \in Orphaned(rs) : r.op = "load" => r \in net
  /\ \A n \in Nat : \A r \in Loads(n) : r.got = None
<1>1. ASSUME NEW rs \in SUBSET net, NEW r \in Orphaned(rs), r.op = "load" PROVE r \in net
  <2>1. PICK q \in rs : /\ q.op = "submit" \/ (q.op = "start" /\ q.got = None)
                        /\ r = [q EXCEPT !.by = None]
    BY DEF Orphaned
  <2> QED
    BY <1>1, <2>1
<1> QED
  BY <1>1 DEF Loads, Request

\* The interval changes what its copy has left, and perhaps submits.
LEMMA TimerCopies ==
  ASSUME IInv, NEW c \in Mounted, Timer(c)
  PROVE  \E cs \in [Mounted -> CopyState] :
           /\ \A d \in Mounted : cs[d].own = copy[d].own /\ cs[d].deadline = copy[d].deadline
           /\ SubmitBy(c, cs) \/ (copy' = cs /\ UNCHANGED net)
           /\ UNCHANGED <<seen, server, exam>>
<1> DEFINE cs == [copy EXCEPT ![c].left = NextLeft(c), ![c].due = FALSE]
<1>1. /\ cs \in [Mounted -> CopyState]
      /\ \A d \in Mounted : /\ cs[d].own = copy[d].own
                            /\ cs[d].deadline = copy[d].deadline
  BY NextLeftIsNat, CountedDown DEF IInv, Basics
<1>2. /\ SubmitBy(c, cs) \/ (copy' = cs /\ UNCHANGED net)
      /\ UNCHANGED <<seen, server, exam>>
  BY DEF Timer
<1> HIDE DEF cs
<1> QED
  BY <1>1, <1>2

LEMMA OthersStep ==
  ASSUME IInv, OthersTrue, [Next]_vars, bounds'.failures = bounds.failures
  PROVE  OthersTrue'
<1>1. /\ TypeOK /\ copy \in [Mounted -> CopyState] /\ seen \in Mounted
      /\ bounds.visits \in Nat /\ bounds.visits + 1 \in Nat /\ Fresh.own = None
  BY DEF IInv, Basics, TypeOK, Fresh
<1>2. None # "started"
  BY NoneIsNoNumber
<1>3. CASE Visit \/ Leave
  <2>1. /\ copy' = [c \in Mounted |-> Fresh] /\ UNCHANGED <<seen, server, exam>>
        /\ \A r \in net' : r.op # "load" \/ r \in net \/ r.got = None
    BY <1>1, <1>3, NewLoads DEF Visit, Leave
  <2>2. Mounted' = Mounted
    BY <2>1 DEF Mounted
  <2> QED
    BY <1>1, <1>2, <2>1, <2>2, OthersFrame
<1>4. CASE Back \/ Continue
  <2>1. /\ copy' = Reloading(copy) /\ UNCHANGED <<seen, server, exam>>
        /\ \A r \in net' : r \in net \/ r.got = None
    BY <1>1, <1>4, NewLoads DEF Back, Continue
  <2>2. /\ Mounted' = Mounted
        /\ \A c \in Mounted : copy'[c].own = copy[c].own /\ copy'[c].deadline = copy[c].deadline
    BY <1>1, <2>1 DEF Mounted, Reloading, CopyState
  <2> QED
    BY <2>1, <2>2, OthersFrame
<1>5. CASE Start \/ Answer \/ Turn
  <2>1. /\ UNCHANGED <<seen, server, exam>> /\ DOMAIN copy' = DOMAIN copy
        /\ \A c \in Mounted \ {seen} : copy'[c] = copy[c]
        /\ \A r \in net' : r \in net \/ r.op # "load"
    BY <1>1, <1>5 DEF Start, Answer, Turn, Request, Seen
  <2> QED
    BY <2>1, OthersFrame DEF Mounted
<1>6. CASE Second
  <2>1. /\ UNCHANGED <<seen, server, exam, net>> /\ DOMAIN copy' = Mounted
        /\ \A c \in Mounted : copy'[c].own = copy[c].own /\ copy'[c].deadline = copy[c].deadline
    BY <1>1, <1>6 DEF Second, CopyState
  <2> QED
    BY <2>1, OthersFrame DEF Mounted
<1>7. ASSUME NEW c \in Mounted, NEW cs \in [Mounted -> CopyState],
             \A d \in Mounted : cs[d].own = copy[d].own /\ cs[d].deadline = copy[d].deadline,
             SubmitBy(c, cs) \/ (copy' = cs /\ UNCHANGED net), UNCHANGED <<seen, server, exam>>
      PROVE  OthersTrue'
  <2>1. \A r \in net' : r \in net \/ r.op # "load"
    BY <1>7 DEF SubmitBy, Request
  <2>2. \/ copy' = cs
        \/ copy' = [cs EXCEPT ![c].submitting = TRUE, ![c].due = FALSE]
    BY <1>7 DEF SubmitBy
  <2>3. /\ DOMAIN copy' = Mounted
        /\ \A d \in Mounted : copy'[d].own = copy[d].own /\ copy'[d].deadline = copy[d].deadline
    BY <1>7, <2>2 DEF CopyState
  <2> QED
    BY <1>7, <2>1, <2>3, OthersFrame DEF Mounted
<1>8. CASE Submit
  BY <1>1, <1>7, <1>8 DEF Submit
<1>9. ASSUME NEW c \in Mounted, Timer(c) PROVE OthersTrue'
  BY <1>7, <1>9, TimerCopies
<1>10. ASSUME NEW r \in net, Serve(r) PROVE OthersTrue'
  <2> SUFFICES ASSUME bounds.failures = 0 PROVE OthersTrue'
    BY DEF OthersTrue
  <2>1. bounds' = bounds
    <3>1. bounds' = bounds \/ bounds' = [bounds EXCEPT !.failures = @ + 1]
      BY <1>10 DEF Serve
    <3> QED
      BY <3>1, <1>1 DEF TypeOK
  <2>2. PICK got \in {None, Ok, Failed} \cup Answers :
          /\ net' = (net \ {r}) \cup {[r EXCEPT !.got = got]}
          /\ r.op = "load" => got.own = Own /\ got.since = server.since /\ server' = server
          /\ Own # None => server'.since = server.since
    BY <1>10, <2>1, ServedAnswer DEF IInv
  <2>3. /\ UNCHANGED <<seen, copy, exam>>
        /\ [r EXCEPT !.got = got].op = r.op /\ [r EXCEPT !.got = got].got = got
    BY <1>1, <1>10, <2>2, Answered DEF Serve, TypeOK
  <2>4. server.since # None => server'.since = server.since
    BY <1>1, <2>2, OwnIs DEF TypeOK
  <2>5. Own = "started" => server.since # None
    BY <1>2 DEF Own
  <2>6. ASSUME NEW q \in net', q.op = "load", q.got \notin {None, Failed}, q.got.own = "started"
        PROVE  server'.since # None /\ q.got.since = server'.since
    <3>1. CASE q \in net
      BY <2>4, <2>6, <3>1 DEF OthersTrue
    <3>2. CASE q \notin net
      BY <2>2, <2>3, <2>5, <2>6, <3>2
    <3> QED
      BY <3>1, <3>2
  <2>7. ASSUME NEW c \in Mounted' \ {seen'}, copy'[c].own = "started"
        PROVE  /\ server'.since # None
               /\ copy'[c].deadline = IF exam'.end # None THEN exam'.end ELSE server'.since + Duration
    BY <2>3, <2>4, <2>7 DEF OthersTrue, Mounted
  <2> QED
    BY <2>6, <2>7 DEF OthersTrue
<1>11. ASSUME NEW r \in net, Lose(r) PROVE OthersTrue'
  BY <1>1, <1>11 DEF Lose, TypeOK
<1>12. ASSUME NEW r \in net, Arrive(r) PROVE OthersTrue'
  <2>1. r.got # None /\ UNCHANGED <<seen, server, exam>>
    BY <1>12 DEF Arrive
  <2>2. CASE LoadArrives(r)
    <3> SUFFICES ASSUME bounds.failures = 0 PROVE OthersTrue'
      BY DEF OthersTrue
    <3>1. r.op = "load" /\ net' = net \ {r} /\ r.by \in Mounted
      BY <2>1, <2>2, LoadedCopy DEF LoadArrives, IInv
    <3>2. PICK s \in CopyState :
            /\ copy' = [copy EXCEPT ![r.by] = s]
            /\ r.got = Failed => s.own = copy[r.by].own /\ s.deadline = copy[r.by].deadline
            /\ r.got # Failed => s.own = r.got.own /\ s.deadline = Deadline(r)
      BY <2>1, <2>2, LoadedCopy DEF IInv
    <3>3. /\ copy' \in [Mounted -> CopyState]
          /\ \A d \in Mounted : copy'[d] = IF d = r.by THEN s ELSE copy[d]
      BY <1>1, <3>1, <3>2, CopySet
    <3>4. ASSUME r.got # Failed, r.got.own = "started"
          PROVE  /\ server.since # None
                 /\ Deadline(r) = IF exam.end # None THEN exam.end ELSE server.since + Duration
      BY <2>1, <3>1, <3>4 DEF OthersTrue, Deadline, FromStart
    <3>5. ASSUME NEW c \in Mounted \ {seen}, copy'[c].own = "started"
          PROVE  /\ server.since # None
                 /\ copy'[c].deadline = IF exam.end # None THEN exam.end ELSE server.since + Duration
      <4>1. CASE c # r.by \/ r.got = Failed
        BY <3>2, <3>3, <3>5, <4>1 DEF OthersTrue
      <4>2. CASE c = r.by /\ r.got # Failed
        BY <3>2, <3>3, <3>4, <3>5, <4>2
      <4> QED
        BY <4>1, <4>2
    <3>6. Mounted' = Mounted
      BY <3>3, SameCopies
    <3> QED
      BY <2>1, <3>1, <3>5, <3>6 DEF OthersTrue
  <2>3. CASE StartArrives(r)
    <3>1. r.by = seen
      BY <2>1, <2>3, StartedCopy DEF IInv
    <3>2. PICK s \in CopyState :
            /\ r.got = Failed => copy' = [copy EXCEPT ![seen] = s] /\ net' = net \ {r}
            /\ r.got # Failed =>
                 /\ place = "take" => /\ copy' = Reloading([copy EXCEPT ![seen] = s])
                                      /\ net' = (net \ {r}) \cup Loads(bounds.visits)
                 /\ place # "take" => /\ copy' = [copy EXCEPT ![seen] = s]
                                      /\ net' = net \ {r}
      BY <2>1, <2>3, StartedCopy DEF IInv
    <3> DEFINE cs == [copy EXCEPT ![seen] = s]
    <3>3. cs \in [Mounted -> CopyState] /\ \A c \in Mounted \ {seen} : cs[c] = copy[c]
      BY <1>1
    <3>4. copy' = cs \/ copy' = Reloading(cs)
      BY <3>2
    <3> HIDE DEF cs
    <3>5. /\ DOMAIN copy' = Mounted
          /\ \A c \in Mounted \ {seen} : /\ copy'[c].own = copy[c].own
                                         /\ copy'[c].deadline = copy[c].deadline
      <4>1. CASE copy' = cs
        BY <3>3, <4>1
      <4>2. CASE copy' = Reloading(cs)
        BY <3>3, <4>2 DEF Reloading, CopyState
      <4> QED
        BY <3>4, <4>1, <4>2
    <3>6. \A q \in net' : q \in net \/ q.got = None
      BY <1>1, <3>2, NewLoads
    <3> QED
      BY <2>1, <3>5, <3>6, OthersFrame DEF Mounted
  <2>4. CASE SubmitArrives(r) /\ r.got = Ok
    <3>1. /\ copy' = [c \in Mounted |-> Fresh]
          /\ \A q \in net' : q \in net \/ q.op # "load"
      BY <2>4, NewLoads DEF SubmitArrives
    <3> QED
      BY <1>1, <1>2, <2>1, <3>1, OthersFrame DEF Mounted
  <2>5. CASE SubmitArrives(r) /\ r.got # Ok
    <3>1. /\ net' = net \ {r}
          /\ \/ copy' = copy
             \/ copy' = [copy EXCEPT ![r.by].failed = TRUE, ![r.by].submitting = FALSE,
                                     ![r.by].due = FALSE]
      BY <2>5 DEF SubmitArrives
    <3>2. /\ DOMAIN copy' = Mounted
          /\ \A c \in Mounted : copy'[c].own = copy[c].own /\ copy'[c].deadline = copy[c].deadline
      BY <1>1, <3>1 DEF CopyState
    <3> QED
      BY <2>1, <3>1, <3>2, OthersFrame DEF Mounted
  <2>6. CASE Unheard(r)
    BY <2>1, <2>6, OthersFrame DEF Unheard, Mounted
  <2> QED
    BY <1>12, <2>2, <2>3, <2>4, <2>5, <2>6 DEF Arrive
<1>13. CASE UNCHANGED vars
  BY <1>13, OthersFrame DEF vars, Mounted
<1> QED
  BY <1>3, <1>4, <1>5, <1>6, <1>8, <1>9, <1>10, <1>11, <1>12, <1>13 DEF Next

\* Failures are only counted up.
LEMMA FailuresCount ==
  ASSUME IInv, [Next]_vars
  PROVE  bounds'.failures = bounds.failures \/ bounds'.failures # 0
<1>1. bounds \in BoundsType /\ bounds.failures \in Nat
  BY DEF IInv, Basics, TypeOK, BoundsType
<1>2. ASSUME NEW r \in net, Serve(r) \/ Lose(r)
      PROVE  bounds' = bounds \/ bounds' = [bounds EXCEPT !.failures = bounds.failures + 1]
  BY <1>2 DEF Serve, Lose
<1>3. bounds' = [bounds EXCEPT !.failures = bounds.failures + 1] => bounds'.failures # 0
  BY <1>1 DEF BoundsType
<1>4. CASE Visit \/ Back
  BY <1>1, <1>4 DEF Visit, Back, BoundsType
<1>5. \/ \E r \in net : Serve(r) \/ Lose(r)
      \/ Visit \/ Back
      \/ bounds' = bounds
  BY DEF Next, Leave, Start, Continue, Answer, Turn, Submit, Second, Timer, Arrive, vars
<1> QED
  BY <1>2, <1>3, <1>4, <1>5

LEMMA OthersInvariant == SafetySpec => [](IInv /\ OthersTrue)
<1>1. Init => OthersTrue
  <2> SUFFICES ASSUME Init PROVE OthersTrue
    OBVIOUS
  <2>1. /\ Basics /\ bounds.visits \in Nat /\ net = Loads(bounds.visits)
    BY InitBasics
  <2>2. /\ \A r \in net : r.got = None
        /\ \A c \in Mounted : copy[c].own = None
    BY <2>1, NewLoads DEF Init, Fresh, Mounted
  <2> QED
    BY <2>2, NoneIsNoNumber DEF OthersTrue
<1>2. IInv /\ OthersTrue /\ [Next]_vars => OthersTrue'
  BY OthersStep, FailuresCount DEF OthersTrue
<1> QED
  BY <1>1, <1>2, InitIInv, NextIInv, PTL DEF SafetySpec

\* Neither copy of the page submits the exam of a student who has started before its end,
\* or before the student's own time is over.
THEOREM NeverEarly == SafetySpec => NotSubmittedEarly
<1>1. ASSUME IInv, OthersTrue, [Next]_vars, NEW c \in Mounted, Timer(c), net' # net,
             ~copy[c].loading, ~copy[c].failed, copy[c].own = "started", bounds.failures = 0
      PROVE  clock >= IF exam.end # None THEN exam.end ELSE server.since + Duration
  <2>1. /\ TypeOK /\ copy[c] \in CopyState /\ Expires(NextLeft(c))
    BY <1>1 DEF IInv, Basics, TypeOK, Timer
  <2>2. /\ copy[c].deadline = IF exam.end # None THEN exam.end ELSE server.since + Duration
        /\ exam.end = None => server.since # None
    <3>1. CASE c = seen
      BY <1>1, <3>1, NoneIsNoNumber DEF IInv, SeenTrue, ShownTrue, Usable, Seen
    <3>2. CASE c # seen
      BY <1>1, <3>2 DEF OthersTrue
    <3> QED
      BY <3>1, <3>2
  <2>3. /\ clock \in Nat /\ NextLeft(c) <= 0
        /\ exam.end \in Nat \cup {None} /\ server.since \in Nat \cup {None} /\ Duration \in Nat
    BY <2>1, SittingAssumption DEF TypeOK, Expires
  <2>4. copy[c].deadline \in Nat /\ copy[c].deadline # None
    BY <2>2, <2>3, NoneIsNoNumber
  <2>5. NextLeft(c) = Max({0, copy[c].deadline - clock})
    BY <2>4 DEF NextLeft
  <2>6. copy[c].deadline - clock \in Int
    BY <2>3, <2>4
  <2>7. Max({0, copy[c].deadline - clock}) \in Nat
        /\ Max({0, copy[c].deadline - clock}) >= copy[c].deadline - clock
    BY <2>6, MaxIsNat, Zenon
  <2> DEFINE m == Max({0, copy[c].deadline - clock})
  <2> HIDE DEF m
  <2>8. m \in Nat /\ m >= copy[c].deadline - clock /\ m <= 0
    BY <2>3, <2>5, <2>7 DEF m
  <2>9. clock >= copy[c].deadline
    BY <2>3, <2>4, <2>8
  <2> QED
    BY <2>2, <2>9
<1>2. IInv /\ OthersTrue /\ [Next]_vars =>
        [\A c \in Mounted :
           (/\ Timer(c) /\ net' # net
            /\ ~copy[c].loading /\ ~copy[c].failed /\ copy[c].own = "started"
            /\ bounds.failures = 0)
             => clock >= IF exam.end # None THEN exam.end ELSE server.since + Duration]_vars
  BY <1>1
<1> QED
  BY <1>2, OthersInvariant, PTL DEF SafetySpec, NotSubmittedEarly
=============================================================================
