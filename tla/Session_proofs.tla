--------------------------- MODULE Session_proofs ---------------------------
(***************************************************************************)
(* Proofs about Session for any tabs, users, pages and bounds.  The        *)
(* argument: what a page stores or shows comes with an answer to a token,  *)
(* and a request carries the token it was sent with; so an answer either   *)
(* names the user of the session in the store, or is an answer to an       *)
(* earlier session, and the history says so.                               *)
(***************************************************************************)
EXTENDS Session, TLAPS

Authenticated == {"me", "tenant", "tenant me", "update", "data"}

\* Only a call with a token is answered with the data of a user, and a sign-in with a
\* token of the one who signed in.
AnswersNameUsers ==
  \A r \in net :
    r.status = "ok" =>
      /\ r.op \in Authenticated => r.token # None
      /\ r.op \in {"login", "first login"} => r.gives \in Token /\ r.gives.of = r.who

IInv ==
  /\ TypeOK
  /\ AnswersNameUsers
  /\ ShowsItsSession
  /\ StoreIsWhole

-----------------------------------------------------------------------------
(***************************************************************************)
(* Places and tokens.                                                      *)
(***************************************************************************)

LEMMA PlacesThereAre == {"login", "create", "dashboard"} \subseteq Places
  BY SessionAssumption DEF Places, Public

LEMMA HomeIsPlace == \A u : Home(u) \in Places
  BY PlacesThereAre DEF Home

LEMMA LandIsPlace == \A u : \A at \in Places : Land(u, at) \in Places
  BY PlacesThereAre, HomeIsPlace DEF Land

LEMMA TokenIsSomebodys == \A token \in Token : token # None /\ token.of \in Users
  BY SessionAssumption DEF Token

-----------------------------------------------------------------------------
LEMMA InitIInv == Init => IInv
<1> SUFFICES ASSUME Init PROVE IInv
  OBVIOUS
<1> USE SessionAssumption DEF Init
<1>1. TypeOK
  <2>1. server \in [accounts : SUBSET Users, linked : SUBSET Admins,
                    institutions : [Admins -> Nat],
                    expired : SUBSET Token, issued : 0 .. MaxTokens]
    BY DEF Users
  <2>2. tab \in [Tabs -> TabState]
    BY PlacesThereAre DEF Off, TabState
  <2> QED
    BY <2>1, <2>2 DEF TypeOK
<1>2. AnswersNameUsers
  BY DEF AnswersNameUsers
<1>3. ShowsItsSession
  BY DEF ShowsItsSession, Off
<1>4. StoreIsWhole
  BY DEF StoreIsWhole
<1> QED
  BY <1>1, <1>2, <1>3, <1>4 DEF IInv

(***************************************************************************)
(* What steps do to the tabs and to the requests.                          *)
(***************************************************************************)

LEMMA TabSet ==
  ASSUME TypeOK, NEW t \in Tabs, NEW s \in TabState, tab' = [tab EXCEPT ![t] = s]
  PROVE  /\ tab' \in [Tabs -> TabState]
         /\ \A v \in Tabs : tab'[v] = IF v = t THEN s ELSE tab[v]
  BY DEF TypeOK

LEMMA NewRequest ==
  ASSUME TypeOK, NEW op \in Ops, NEW t \in Tabs \cup {None}, NEW u \in Users \cup {None}
  PROVE  Request(op, t, u) \in Message /\ Request(op, t, u).status = "sent"
  BY DEF Request, TypeOK, Message

LEMMA UnloadKeeps ==
  ASSUME NEW rs \in SUBSET Message, NEW t \in Tabs
  PROVE  /\ Unload(rs, t) \subseteq Message
         /\ \A q \in Unload(rs, t) : q.status = "ok" => q \in rs
<1> SUFFICES ASSUME NEW q \in Unload(rs, t)
             PROVE  q \in Message /\ (q.status = "ok" => q \in rs)
  OBVIOUS
<1>1. PICK r \in rs : /\ r.by = t => r.status = "sent"
                      /\ q = IF r.by = t THEN [r EXCEPT !.by = None] ELSE r
  BY DEF Unload
<1>2. CASE r.by = t
  BY <1>1, <1>2 DEF Message
<1>3. CASE r.by # t
  BY <1>1, <1>3
<1> QED
  BY <1>2, <1>3

\* An answer to a request; the others stay.
LEMMA ReplyKeeps ==
  ASSUME TypeOK, AnswersNameUsers, NEW r \in net,
         NEW status \in {"ok", "bad", "unauthorized", "forbidden", "lost"},
         NEW gives \in Token \cup Users \cup {None},
         Reply(r, status, gives),
         status = "ok" =>
           /\ r.op \in Authenticated => r.token # None
           /\ r.op \in {"login", "first login"} => gives \in Token /\ gives.of = r.who
  PROVE  net' \subseteq Message /\ AnswersNameUsers'
<1>1. r \in Message
  BY DEF TypeOK
<1> DEFINE answered == [r EXCEPT !.status = status, !.gives = gives]
<1>2. /\ answered \in Message
      /\ answered.status = status /\ answered.gives = gives
      /\ answered.op = r.op /\ answered.token = r.token /\ answered.who = r.who
  BY <1>1 DEF Message
<1>3. net' = (net \ {r}) \cup {answered}
  BY DEF Reply
<1> HIDE DEF answered
<1>4. net' \subseteq Message
  BY <1>2, <1>3 DEF TypeOK
<1>5. AnswersNameUsers'
  BY <1>2, <1>3 DEF AnswersNameUsers
<1> QED
  BY <1>4, <1>5

\* Requests that are taken away, or come new, answer nothing.
LEMMA NothingAnswered ==
  ASSUME AnswersNameUsers, \A q \in net' : q.status = "ok" => q \in net
  PROVE  AnswersNameUsers'
  BY DEF AnswersNameUsers

\* Tabs that show no more than they did, with the store as it was.
LEMMA SameSession ==
  ASSUME IInv, UNCHANGED store,
         past'.elsewhere = past.elsewhere, past'.late = past.late,
         bounds'.failures = bounds.failures \/ bounds'.failures > 0,
         \A v \in Tabs :
           tab'[v].phase = "ready" /\ tab'[v].user # None =>
             tab[v].phase = "ready" /\ tab[v].user = tab'[v].user
  PROVE  ShowsItsSession' /\ StoreIsWhole'
  BY DEF IInv, ShowsItsSession, StoreIsWhole, TypeOK

-----------------------------------------------------------------------------
(***************************************************************************)
(* The steps of a tab.                                                     *)
(***************************************************************************)

LEMMA GoToIInv ==
  ASSUME IInv, NEW t \in Tabs, NEW at \in Places, GoTo(t, at)
  PROVE  IInv'
<1> USE DEF GoTo, IInv
<1> DEFINE there == [tab[t] EXCEPT !.at = Land(tab[t].user, at), !.busy = FALSE]
<1>1. Land(tab[t].user, at) \in Places /\ tab[t] \in TabState
  BY LandIsPlace DEF TypeOK
<1>2. there \in TabState /\ there.phase = tab[t].phase /\ there.user = tab[t].user
  BY <1>1 DEF TabState
<1>3. tab' = [tab EXCEPT ![t] = there]
  OBVIOUS
<1> HIDE DEF there
<1>4. TypeOK'
  BY <1>2, <1>3, TabSet DEF TypeOK
<1>5. AnswersNameUsers'
  BY NothingAnswered
<1>6. ShowsItsSession' /\ StoreIsWhole'
  BY <1>2, <1>3, TabSet, SameSession
<1> QED
  BY <1>4, <1>5, <1>6

LEMMA OpenIInv == ASSUME IInv, NEW t \in Tabs, Open(t) PROVE IInv'
<1> USE DEF Open, IInv
<1>1. tab[t].at \in Places
  BY DEF TypeOK, TabState
<1>2. Off(tab[t].at) \in TabState /\ Off(tab[t].at).phase = "off"
  BY <1>1 DEF TabState, Off
<1>3. tab' = [tab EXCEPT ![t] = Off(tab[t].at)]
  OBVIOUS
<1>4. bounds' \in [calls : 0 .. MaxCalls, opens : 0 .. MaxOpens, failures : 0 .. MaxFailures]
      /\ bounds'.failures = bounds.failures
  BY SessionAssumption DEF TypeOK
<1>5. net' \subseteq Message /\ \A q \in net' : q.status = "ok" => q \in net
  BY UnloadKeeps DEF TypeOK
<1>6. TypeOK'
  BY <1>2, <1>3, <1>4, <1>5, TabSet DEF TypeOK
<1>7. AnswersNameUsers'
  BY <1>5, NothingAnswered
<1>8. ShowsItsSession' /\ StoreIsWhole'
  BY <1>2, <1>3, <1>4, TabSet, SameSession
<1> QED
  BY <1>6, <1>7, <1>8

LEMMA BootIInv == ASSUME IInv, NEW t \in Tabs, Boot(t) PROVE IInv'
<1> USE DEF IInv
<1>1. Request("me", t, None) \in Message /\ Request("me", t, None).status = "sent"
  BY NewRequest DEF Ops
<1> USE DEF Boot
<1>2. tab[t] \in TabState /\ store.user \in Users \cup {None}
  BY DEF TypeOK
<1>3. past'.elsewhere = past.elsewhere \ {t} /\ past'.late = past.late
      /\ past' \in [elsewhere : SUBSET Tabs, late : BOOLEAN]
  BY DEF TypeOK
<1>4. CASE store.token # None
  <2> DEFINE asks == [tab[t] EXCEPT !.phase = "init"]
  <2>1. asks \in TabState /\ asks.phase = "init" /\ tab' = [tab EXCEPT ![t] = asks]
    BY <1>2, <1>4 DEF TabState
  <2>2. net' \subseteq Message /\ \A q \in net' : q.status = "ok" => q \in net
    BY <1>4, <1>1 DEF TypeOK
  <2> HIDE DEF asks
  <2>3. TypeOK'
    BY <1>3, <2>1, <2>2, TabSet DEF TypeOK
  <2>4. ShowsItsSession' /\ StoreIsWhole'
    BY <1>3, <2>1, TabSet DEF ShowsItsSession, StoreIsWhole
  <2> QED
    BY <2>2, <2>3, <2>4, NothingAnswered
<1>5. CASE store.token = None
  <2> DEFINE shows == [tab[t] EXCEPT !.phase = "ready", !.user = store.user,
                                     !.at = Land(store.user, tab[t].at)]
  <2>1. Land(store.user, tab[t].at) \in Places
    BY <1>2, LandIsPlace DEF TabState
  <2>2. shows \in TabState /\ shows.user = store.user
    BY <1>2, <2>1 DEF TabState
  <2>3. tab' = [tab EXCEPT ![t] = shows] /\ net' = net
    BY <1>5
  <2> HIDE DEF shows
  <2>4. TypeOK'
    BY <1>3, <2>2, <2>3, TabSet DEF TypeOK
  <2>5. ShowsItsSession' /\ StoreIsWhole'
    BY <1>3, <1>5, <2>2, <2>3, TabSet DEF ShowsItsSession, StoreIsWhole
  <2> QED
    BY <2>3, <2>4, <2>5, NothingAnswered
<1> QED
  BY <1>4, <1>5

\* A form or a page sends a request.
LEMMA SendIInv ==
  ASSUME IInv, NEW t \in Tabs,
         \/ \E u \in Users : Login(t, u) \/ Register(t, u)
         \/ CreateTenant(t)
         \/ SaveProfile(t)
         \/ Call(t)
  PROVE  IInv'
<1> USE DEF IInv
<1>1. PICK r \in Message :
        /\ r.status = "sent"
        /\ net' = net \cup {r}
        /\ tab' = tab \/ tab' = [tab EXCEPT ![t] = [tab[t] EXCEPT !.busy = TRUE]]
        /\ Count
        /\ UNCHANGED <<store, server, past>>
  <2>1. ASSUME NEW u \in Users, Login(t, u)
        PROVE  \E r \in Message :
                 /\ r.status = "sent"
                 /\ Send(t, r)
                 /\ UNCHANGED <<store, server, past>>
    <3>1. Request("login", t, u) \in Message /\ Request("login", t, u).status = "sent"
      BY NewRequest DEF Ops
    <3>2. \A g \in {u, None} :
            LET r == [Request("login", t, u) EXCEPT !.token = None, !.gives = g]
            IN  r \in Message /\ r.status = "sent"
      BY <3>1 DEF Message
    <3> QED
      BY <2>1, <3>2 DEF Login
  <2>2. ASSUME NEW u \in Users, Register(t, u)
        PROVE  \E r \in Message :
                 /\ r.status = "sent"
                 /\ Send(t, r)
                 /\ UNCHANGED <<store, server, past>>
    <3>1. Request("register", t, u) \in Message /\ Request("register", t, u).status = "sent"
      BY NewRequest DEF Ops
    <3>2. LET r == [Request("register", t, u) EXCEPT !.token = None]
          IN  r \in Message /\ r.status = "sent"
      BY <3>1 DEF Message
    <3> QED
      BY <2>2, <3>2 DEF Register
  <2>3. CASE CreateTenant(t)
    BY <2>3, NewRequest DEF CreateTenant, Send, Ops
  <2>4. CASE SaveProfile(t)
    BY <2>4, NewRequest DEF SaveProfile, Send, Ops
  <2>5. CASE Call(t)
    BY <2>5, NewRequest DEF Call, Ops
  <2> QED
    BY <2>1, <2>2, <2>3, <2>4, <2>5 DEF Send
<1>2. /\ bounds' \in [calls : 0 .. MaxCalls, opens : 0 .. MaxOpens, failures : 0 .. MaxFailures]
      /\ bounds'.failures = bounds.failures
  BY <1>1, SessionAssumption DEF TypeOK, Count
<1>3. /\ tab' \in [Tabs -> TabState]
      /\ \A v \in Tabs : tab'[v].phase = tab[v].phase /\ tab'[v].user = tab[v].user
  <2>1. CASE tab' = tab
    BY <2>1 DEF TypeOK
  <2>2. CASE tab' = [tab EXCEPT ![t] = [tab[t] EXCEPT !.busy = TRUE]]
    <3>1. tab[t] \in TabState
      BY DEF TypeOK
    <3> DEFINE locked == [tab[t] EXCEPT !.busy = TRUE]
    <3>2. locked \in TabState /\ locked.phase = tab[t].phase /\ locked.user = tab[t].user
      BY <3>1 DEF TabState
    <3>3. tab' = [tab EXCEPT ![t] = locked]
      BY <2>2
    <3> HIDE DEF locked
    <3> QED
      BY <3>2, <3>3, TabSet
  <2> QED
    BY <1>1, <2>1, <2>2
<1>4. TypeOK'
  BY <1>1, <1>2, <1>3 DEF TypeOK
<1>5. AnswersNameUsers'
  BY <1>1, NothingAnswered
<1>6. ShowsItsSession' /\ StoreIsWhole'
  BY <1>1, <1>2, <1>3, SameSession
<1> QED
  BY <1>4, <1>5, <1>6

LEMMA LogoutIInv == ASSUME IInv, NEW t \in Tabs, Logout(t) PROVE IInv'
<1> USE DEF Logout, IInv
<1>1. tab[t] \in TabState /\ "login" \in Places
  BY PlacesThereAre DEF TypeOK
<1> DEFINE out == [tab[t] EXCEPT !.user = None, !.at = "login", !.busy = FALSE]
<1>2. out \in TabState /\ out.user = None /\ tab' = [tab EXCEPT ![t] = out]
  BY <1>1 DEF TabState
<1> HIDE DEF out
<1>3. /\ past' \in [elsewhere : SUBSET Tabs, late : BOOLEAN]
      /\ past'.elsewhere = Tabs \ {t}
  BY DEF ChangedBy, TypeOK
<1>4. TypeOK'
  BY <1>2, <1>3, TabSet DEF TypeOK, Cleared
<1>5. AnswersNameUsers'
  BY NothingAnswered
<1>6. ShowsItsSession' /\ StoreIsWhole'
  BY <1>2, <1>3, TabSet DEF ShowsItsSession, StoreIsWhole, Cleared
<1> QED
  BY <1>4, <1>5, <1>6

-----------------------------------------------------------------------------
(***************************************************************************)
(* The server, and lost requests.                                          *)
(***************************************************************************)

LEMMA ServerType ==
  ASSUME TypeOK
  PROVE  /\ server.accounts \subseteq Users /\ server.linked \subseteq Admins
         /\ server.institutions \in [Admins -> Nat]
         /\ server.expired \subseteq Token /\ server.issued \in 0 .. MaxTokens
  BY DEF TypeOK

\* What the server does with its rows keeps their types, and its answers name their user.
LEMMA ServeReplies ==
  ASSUME IInv, NEW r \in net, ServeAuthenticated(r) \/ ServeLogin(r) \/ ServeRegister(r)
  PROVE  /\ server' \in [accounts : SUBSET Users, linked : SUBSET Admins,
                         institutions : [Admins -> Nat],
                         expired : SUBSET Token, issued : 0 .. MaxTokens]
         /\ net' \subseteq Message /\ AnswersNameUsers'
<1>1. /\ TypeOK /\ AnswersNameUsers /\ r \in Message
      /\ server \in [accounts : SUBSET Users, linked : SUBSET Admins,
                     institutions : [Admins -> Nat],
                     expired : SUBSET Token, issued : 0 .. MaxTokens]
  BY DEF IInv, TypeOK
<1>2. CASE ServeAuthenticated(r)
  <2>1. ASSUME NEW status \in {"bad", "unauthorized", "forbidden"}, Reply(r, status, None)
        PROVE  net' \subseteq Message /\ AnswersNameUsers'
    BY <1>1, <2>1, ReplyKeeps
  <2>2. CASE Refusal(r) # "no"
    BY <1>1, <1>2, <2>1, <2>2 DEF ServeAuthenticated, Refusal
  <2>3. CASE Refusal(r) = "no"
    <3>1. r.token \in Token /\ r.token # None /\ r.token.of \in Users
      BY <1>1, <2>3, TokenIsSomebodys DEF Refusal, Message
    <3>2. CASE Reply(r, "ok", r.token.of)
      <4>1. net' \subseteq Message /\ AnswersNameUsers'
        BY <1>1, <1>2, <3>1, <3>2, ReplyKeeps DEF ServeAuthenticated
      <4>2. server' = server \/ (r.token.of \in Admins /\ server' = Institute(r.token.of))
        BY <1>2, <2>3, <3>1 DEF ServeAuthenticated, Users
      <4>3. ASSUME r.token.of \in Admins
            PROVE  Institute(r.token.of) \in
                     [accounts : SUBSET Users, linked : SUBSET Admins,
                      institutions : [Admins -> Nat],
                      expired : SUBSET Token, issued : 0 .. MaxTokens]
        BY <1>1, <4>3 DEF Institute
      <4> QED
        BY <1>1, <4>1, <4>2, <4>3
    <3>3. CASE ~Reply(r, "ok", r.token.of)
      BY <1>1, <1>2, <2>1, <2>3, <3>3 DEF ServeAuthenticated
    <3> QED
      BY <3>2, <3>3
  <2> QED
    BY <2>2, <2>3
<1>3. CASE ServeLogin(r)
  <2>1. CASE r.gives = r.who /\ r.who \in server.accounts
    <3>1. r.who \in Users /\ server.issued + 1 \in 1 .. MaxTokens
      <4>1. server.issued < MaxTokens /\ MaxTokens \in Nat
        BY <1>3, <2>1, SessionAssumption DEF ServeLogin
      <4> QED
        BY <1>1, <2>1, <4>1, ServerType
    <3> DEFINE given == [of |-> r.who, n |-> server.issued + 1]
    <3>2. given \in Token /\ given.of = r.who
      BY <3>1 DEF Token
    <3>3. Reply(r, "ok", given) /\ server' = [server EXCEPT !.issued = @ + 1]
      BY <1>3, <2>1 DEF ServeLogin
    <3> HIDE DEF given
    <3>4. r.op \notin Authenticated
      BY <1>3 DEF ServeLogin, Authenticated
    <3>5. net' \subseteq Message /\ AnswersNameUsers'
      BY <1>1, <3>2, <3>3, <3>4, ReplyKeeps
    <3> QED
      BY <1>1, <3>1, <3>3, <3>5
  <2>2. CASE ~(r.gives = r.who /\ r.who \in server.accounts)
    <3>1. Reply(r, "unauthorized", None) /\ server' = server
      BY <1>3, <2>2 DEF ServeLogin
    <3> QED
      BY <1>1, <3>1, ReplyKeeps
  <2> QED
    BY <2>1, <2>2
<1>4. CASE ServeRegister(r)
  <2>1. CASE r.who \in Admins \ server.accounts
    <3>1. /\ Reply(r, "ok", r.who)
          /\ server' = [server EXCEPT !.accounts = @ \cup {r.who}]
          /\ r.who \in Users
      BY <1>4, <2>1 DEF ServeRegister, Users
    <3>2. r.op \notin Authenticated \cup {"login", "first login"}
      BY <1>4 DEF ServeRegister, Authenticated
    <3>3. net' \subseteq Message /\ AnswersNameUsers'
      BY <1>1, <3>1, <3>2, ReplyKeeps
    <3> QED
      BY <1>1, <3>1, <3>3
  <2>2. CASE r.who \notin Admins \ server.accounts
    <3>1. Reply(r, "bad", None) /\ server' = server
      BY <1>4, <2>2 DEF ServeRegister
    <3> QED
      BY <1>1, <3>1, ReplyKeeps
  <2> QED
    BY <2>1, <2>2
<1> QED
  BY <1>2, <1>3, <1>4

LEMMA ServeIInv == ASSUME IInv, NEW r \in net, Serve(r) PROVE IInv'
<1> USE DEF IInv
<1>1. UNCHANGED <<store, tab, past, bounds>>
  BY DEF Serve
<1>2. /\ server' \in [accounts : SUBSET Users, linked : SUBSET Admins,
                      institutions : [Admins -> Nat],
                      expired : SUBSET Token, issued : 0 .. MaxTokens]
      /\ net' \subseteq Message /\ AnswersNameUsers'
  BY ServeReplies DEF Serve
<1>3. TypeOK'
  BY <1>1, <1>2 DEF TypeOK
<1>4. ShowsItsSession' /\ StoreIsWhole'
  BY <1>1 DEF ShowsItsSession, StoreIsWhole
<1> QED
  BY <1>2, <1>3, <1>4

LEMMA LoseIInv == ASSUME IInv, NEW r \in net, Lose(r) PROVE IInv'
<1> USE DEF Lose, IInv
<1>1. net' \subseteq Message /\ AnswersNameUsers'
  BY ReplyKeeps
<1>2. /\ bounds' \in [calls : 0 .. MaxCalls, opens : 0 .. MaxOpens, failures : 0 .. MaxFailures]
      /\ bounds'.failures > 0
  BY SessionAssumption DEF TypeOK
<1>3. TypeOK'
  BY <1>1, <1>2 DEF TypeOK
<1>4. ShowsItsSession' /\ StoreIsWhole'
  BY <1>2 DEF ShowsItsSession, StoreIsWhole
<1> QED
  BY <1>1, <1>3, <1>4

LEMMA ExpireIInv == ASSUME IInv, NEW token \in Token, Expire(token) PROVE IInv'
<1> USE DEF Expire, IInv
<1>1. TypeOK'
  BY DEF TypeOK
<1>2. AnswersNameUsers' /\ ShowsItsSession' /\ StoreIsWhole'
  BY DEF AnswersNameUsers, ShowsItsSession, StoreIsWhole
<1> QED
  BY <1>1, <1>2

-----------------------------------------------------------------------------
(***************************************************************************)
(* Answers.                                                                *)
(***************************************************************************)

\* An answer that is stored names the session in the store, or comes late.
LEMMA StoreUserKeeps ==
  ASSUME IInv, NEW r \in net, r.op \in Authenticated, r.status = "ok", StoreUser(r)
  PROVE  /\ r.token \in Token /\ r.token # None /\ r.token.of \in Users
         /\ store' \in [token : Token \cup {None}, user : Users \cup {None}]
         /\ past' \in [elsewhere : SUBSET Tabs, late : BOOLEAN]
         /\ store'.token = store.token
         /\ past'.elsewhere = past.elsewhere
         /\ ~past'.late => ~past.late /\ store.token = r.token
         /\ StoreIsWhole'
<1>1. r \in Message /\ r.token # None
  BY DEF IInv, TypeOK, AnswersNameUsers
<1>2. r.token \in Token /\ r.token.of \in Users
  BY <1>1, TokenIsSomebodys DEF Message
<1>3. /\ store' \in [token : Token \cup {None}, user : Users \cup {None}]
      /\ past' \in [elsewhere : SUBSET Tabs, late : BOOLEAN]
      /\ store'.token = store.token /\ store'.user = r.token.of
      /\ past'.elsewhere = past.elsewhere
      /\ past'.late = (past.late \/ store.token # r.token)
  BY <1>2 DEF StoreUser, IInv, TypeOK
<1>4. StoreIsWhole'
  BY <1>1, <1>3 DEF StoreIsWhole
<1> QED
  BY <1>1, <1>2, <1>3, <1>4

\* A tab may show whom the stored answer, or the store, names.
LEMMA ShownFromStore ==
  ASSUME IInv, NEW t \in Tabs, NEW s \in TabState, tab' = [tab EXCEPT ![t] = s],
         store'.token = store.token, past'.elsewhere = past.elsewhere,
         bounds' = bounds, ~past'.late => ~past.late,
         ~past'.late /\ s.user # None =>
           \/ store.token # None /\ store.token.of = s.user
           \/ s.user = tab[t].user /\ s.phase = tab[t].phase
  PROVE  ShowsItsSession'
  BY TabSet DEF IInv, ShowsItsSession

LEMMA ArriveEndingIInv ==
  ASSUME IInv, NEW r \in net, ArriveEnding(r), UNCHANGED <<server, bounds>>
  PROVE  IInv'
<1> USE DEF IInv
<1>1. r.by \in Tabs
  BY DEF ArriveEnding, TypeOK, Message
<1>2. Off("login") \in TabState /\ Off("login").phase = "off"
  BY PlacesThereAre DEF TabState, Off
<1>3. tab' = [tab EXCEPT ![r.by] = Off("login")] /\ store' = Cleared
  BY DEF ArriveEnding, RemoveAuthToken
<1>4. net' \subseteq Message /\ \A q \in net' : q.status = "ok" => q \in net
  BY <1>1, UnloadKeeps DEF ArriveEnding, TypeOK
<1>5. /\ past' \in [elsewhere : SUBSET Tabs, late : BOOLEAN]
      /\ past'.elsewhere = Tabs \ {r.by}
  BY DEF ArriveEnding, ChangedBy, TypeOK
<1>6. TypeOK'
  BY <1>1, <1>2, <1>3, <1>4, <1>5, TabSet DEF TypeOK, Cleared
<1>7. AnswersNameUsers'
  BY <1>4, NothingAnswered
<1>8. ShowsItsSession' /\ StoreIsWhole'
  BY <1>1, <1>2, <1>3, <1>5, TabSet DEF ShowsItsSession, StoreIsWhole, Cleared
<1> QED
  BY <1>6, <1>7, <1>8

LEMMA ArriveMeIInv ==
  ASSUME IInv, NEW r \in net, r.by \in Tabs, ArriveMe(r), UNCHANGED <<server, bounds>>
  PROVE  IInv'
<1> USE DEF IInv
<1> DEFINE who   == IF r.status = "ok" THEN r.token.of ELSE store.user
           shows == [tab[r.by] EXCEPT !.phase = PhaseAfter(r), !.user = who,
                                      !.at = Land(who, tab[r.by].at)]
<1>1. tab[r.by] \in TabState
  BY DEF TypeOK
<1>2. /\ store' \in [token : Token \cup {None}, user : Users \cup {None}]
      /\ past' \in [elsewhere : SUBSET Tabs, late : BOOLEAN]
      /\ store'.token = store.token /\ past'.elsewhere = past.elsewhere
      /\ ~past'.late => ~past.late
      /\ StoreIsWhole'
      /\ who \in Users \cup {None}
      /\ ~past'.late /\ who # None => store.token # None /\ store.token.of = who
  <2>1. CASE r.status = "ok"
    BY <2>1, StoreUserKeeps DEF ArriveMe, Authenticated
  <2>2. CASE r.status # "ok"
    BY <2>2 DEF ArriveMe, TypeOK, StoreIsWhole
  <2> QED
    BY <2>1, <2>2
<1>3. tab' = [tab EXCEPT ![r.by] = shows]
  BY DEF ArriveMe
<1>4. net' = net \ {r}
  BY DEF ArriveMe
<1> HIDE DEF who
<1>5. Land(who, tab[r.by].at) \in Places
  BY <1>1, LandIsPlace DEF TabState
<1>6. shows \in TabState /\ shows.user = who
  BY <1>1, <1>2, <1>5 DEF TabState, PhaseAfter
<1> HIDE DEF shows
<1>7. TypeOK'
  BY <1>2, <1>3, <1>4, <1>6, TabSet DEF TypeOK
<1>8. AnswersNameUsers'
  BY <1>4, NothingAnswered
<1>9. ShowsItsSession'
  BY <1>2, <1>3, <1>6, ShownFromStore
<1> QED
  BY <1>2, <1>7, <1>8, <1>9

LEMMA ArriveLoginIInv ==
  ASSUME IInv, NEW r \in net, r.by \in Tabs, ArriveLogin(r), UNCHANGED <<server, bounds>>
  PROVE  IInv'
<1> USE DEF IInv
<1>1. tab[r.by] \in TabState /\ r \in Message
  BY DEF TypeOK
<1>2. net' = net \ {r}
  BY DEF ArriveLogin
<1>3. AnswersNameUsers'
  BY <1>2, NothingAnswered
<1>4. CASE r.status = "ok"
  <2> DEFINE shows == [tab[r.by] EXCEPT !.user = r.who, !.at = Home(r.who), !.busy = FALSE]
  <2>1. r.gives \in Token /\ r.gives # None /\ r.gives.of = r.who /\ r.who \in Users
    BY <1>4, TokenIsSomebodys DEF ArriveLogin, AnswersNameUsers
  <2>2. /\ store' = [token |-> r.gives, user |-> r.gives.of]
        /\ tab' = [tab EXCEPT ![r.by] = shows]
        /\ past' = ChangedBy(r.by)
    BY <1>4 DEF ArriveLogin, StoreLogin, SignedIn
  <2>3. shows \in TabState /\ shows.user = r.who
    BY <1>1, <2>1, HomeIsPlace DEF TabState
  <2> HIDE DEF shows
  <2>4. /\ past' \in [elsewhere : SUBSET Tabs, late : BOOLEAN]
        /\ past'.elsewhere = Tabs \ {r.by}
    BY <2>2 DEF ChangedBy, TypeOK
  <2>5. TypeOK'
    BY <1>2, <2>1, <2>2, <2>3, <2>4, TabSet DEF TypeOK
  <2>6. ShowsItsSession' /\ StoreIsWhole'
    BY <2>1, <2>2, <2>3, <2>4, TabSet DEF ShowsItsSession, StoreIsWhole
  <2> QED
    BY <1>3, <2>5, <2>6
<1>5. CASE r.status # "ok"
  <2> DEFINE free == [tab[r.by] EXCEPT !.busy = FALSE]
  <2>1. /\ free \in TabState /\ free.user = tab[r.by].user /\ free.phase = tab[r.by].phase
        /\ tab' = [tab EXCEPT ![r.by] = free]
        /\ UNCHANGED <<store, past>>
    BY <1>1, <1>5 DEF ArriveLogin, TabState
  <2> HIDE DEF free
  <2>2. TypeOK'
    BY <1>2, <2>1, TabSet DEF TypeOK
  <2>3. ShowsItsSession' /\ StoreIsWhole'
    BY <2>1, TabSet, SameSession
  <2> QED
    BY <1>3, <2>2, <2>3
<1> QED
  BY <1>4, <1>5

\* A failed answer unlocks the form, and a form may ask once more.
LEMMA AnotherRequest ==
  ASSUME IInv, NEW r \in net, r.by \in Tabs, UNCHANGED <<store, past, server, bounds>>,
         \/ tab' = tab
         \/ tab' = [tab EXCEPT ![r.by] = [tab[r.by] EXCEPT !.busy = FALSE]],
         \/ net' = net \ {r}
         \/ \E q \in Message : q.status = "sent" /\ net' = (net \ {r}) \cup {q}
  PROVE  IInv'
<1> USE DEF IInv
<1>1. net' \subseteq Message /\ \A q \in net' : q.status = "ok" => q \in net
  BY DEF TypeOK
<1>2. /\ tab' \in [Tabs -> TabState]
      /\ \A v \in Tabs : tab'[v].phase = tab[v].phase /\ tab'[v].user = tab[v].user
  <2>1. CASE tab' = tab
    BY <2>1 DEF TypeOK
  <2>2. CASE tab' = [tab EXCEPT ![r.by] = [tab[r.by] EXCEPT !.busy = FALSE]]
    <3> DEFINE free == [tab[r.by] EXCEPT !.busy = FALSE]
    <3>1. tab[r.by] \in TabState
      BY DEF TypeOK
    <3>2. free \in TabState /\ free.user = tab[r.by].user /\ free.phase = tab[r.by].phase
      BY <3>1 DEF TabState
    <3>3. tab' = [tab EXCEPT ![r.by] = free]
      BY <2>2
    <3> HIDE DEF free
    <3> QED
      BY <3>2, <3>3, TabSet
  <2> QED
    BY <2>1, <2>2
<1>3. TypeOK'
  BY <1>1, <1>2 DEF TypeOK
<1>4. AnswersNameUsers'
  BY <1>1, NothingAnswered
<1>5. ShowsItsSession' /\ StoreIsWhole'
  BY <1>2, SameSession
<1> QED
  BY <1>3, <1>4, <1>5

LEMMA ArriveRegisterIInv ==
  ASSUME IInv, NEW r \in net, r.by \in Tabs, ArriveRegister(r), UNCHANGED <<server, bounds>>
  PROVE  IInv'
<1>1. r \in Message /\ TypeOK
  BY DEF IInv, TypeOK
<1>2. CASE r.status = "ok"
  <2> DEFINE next == [Request("first login", r.by, r.who) EXCEPT !.token = None, !.gives = r.who]
  <2>1. r.who \in Users \cup {None}
    BY <1>1 DEF Message
  <2>2. Request("first login", r.by, r.who) \in Message
        /\ Request("first login", r.by, r.who).status = "sent"
    BY <1>1, <2>1, NewRequest DEF Ops
  <2>3. next \in Message /\ next.status = "sent"
    BY <2>1, <2>2, SessionAssumption DEF Message
  <2>4. net' = (net \ {r}) \cup {next} /\ UNCHANGED <<store, tab, past>>
    BY <1>2 DEF ArriveRegister
  <2> HIDE DEF next
  <2> QED
    BY <2>3, <2>4, AnotherRequest
<1>3. CASE r.status # "ok"
  BY <1>3, AnotherRequest DEF ArriveRegister
<1> QED
  BY <1>2, <1>3

LEMMA ArriveTenantIInv ==
  ASSUME IInv, NEW r \in net, r.by \in Tabs, ArriveTenant(r), UNCHANGED <<server, bounds>>
  PROVE  IInv'
<1>1. CASE r.status # "ok"
  BY <1>1, AnotherRequest DEF ArriveTenant
<1>2. CASE r.status = "ok" /\ r.op = "tenant"
  <2>1. Request("tenant me", r.by, None) \in Message
        /\ Request("tenant me", r.by, None).status = "sent"
    BY NewRequest DEF Ops, IInv
  <2> QED
    BY <1>2, <2>1, AnotherRequest DEF ArriveTenant
<1>3. CASE r.status = "ok" /\ r.op # "tenant"
  <2> USE DEF IInv
  <2> DEFINE shows == [tab[r.by] EXCEPT !.user = r.token.of, !.busy = FALSE,
                                        !.at = Land(r.token.of, "dashboard")]
  <2>1. /\ net' = net \ {r} /\ StoreUser(r) /\ r.op \in Authenticated
        /\ tab' = [tab EXCEPT ![r.by] = shows]
    BY <1>3 DEF ArriveTenant, Authenticated
  <2>2. tab[r.by] \in TabState /\ Land(r.token.of, "dashboard") \in Places
    BY LandIsPlace, PlacesThereAre DEF TypeOK
  <2>3. /\ r.token \in Token /\ r.token # None /\ r.token.of \in Users
        /\ store' \in [token : Token \cup {None}, user : Users \cup {None}]
        /\ past' \in [elsewhere : SUBSET Tabs, late : BOOLEAN]
        /\ store'.token = store.token /\ past'.elsewhere = past.elsewhere
        /\ ~past'.late => ~past.late /\ store.token = r.token
        /\ StoreIsWhole'
    BY <1>3, <2>1, StoreUserKeeps
  <2>4. shows \in TabState /\ shows.user = r.token.of
    BY <2>2, <2>3 DEF TabState
  <2> HIDE DEF shows
  <2>5. TypeOK'
    BY <2>1, <2>3, <2>4, TabSet DEF TypeOK
  <2>6. AnswersNameUsers'
    BY <2>1, NothingAnswered
  <2>7. ShowsItsSession'
    BY <2>1, <2>3, <2>4, ShownFromStore
  <2> QED
    BY <2>3, <2>5, <2>6, <2>7
<1> QED
  BY <1>1, <1>2, <1>3

LEMMA ArriveUpdateIInv ==
  ASSUME IInv, NEW r \in net, r.by \in Tabs, ArriveUpdate(r), UNCHANGED <<server, bounds>>
  PROVE  IInv'
<1>1. CASE r.status # "ok"
  BY <1>1, AnotherRequest DEF ArriveUpdate
<1>2. CASE r.status = "ok"
  <2> USE DEF IInv
  <2> DEFINE free == [tab[r.by] EXCEPT !.busy = FALSE]
  <2>1. /\ net' = net \ {r} /\ StoreUser(r) /\ r.op \in Authenticated
        /\ tab' = [tab EXCEPT ![r.by] = free]
    BY <1>2 DEF ArriveUpdate, Authenticated
  <2>2. tab[r.by] \in TabState
    BY DEF TypeOK
  <2>3. free \in TabState /\ free.user = tab[r.by].user /\ free.phase = tab[r.by].phase
    BY <2>2 DEF TabState
  <2> HIDE DEF free
  <2>4. /\ store' \in [token : Token \cup {None}, user : Users \cup {None}]
        /\ past' \in [elsewhere : SUBSET Tabs, late : BOOLEAN]
        /\ store'.token = store.token /\ past'.elsewhere = past.elsewhere
        /\ ~past'.late => ~past.late
        /\ StoreIsWhole'
    BY <1>2, <2>1, StoreUserKeeps
  <2>5. TypeOK'
    BY <2>1, <2>3, <2>4, TabSet DEF TypeOK
  <2>6. AnswersNameUsers'
    BY <2>1, NothingAnswered
  <2>7. ShowsItsSession'
    BY <2>1, <2>3, <2>4, ShownFromStore
  <2> QED
    BY <2>4, <2>5, <2>6, <2>7
<1> QED
  BY <1>1, <1>2

\* What is dropped, or was asked for by a page for its own use.
LEMMA ArriveUnstoredIInv ==
  ASSUME IInv, NEW r \in net, ArriveData(r) \/ Unheard(r), UNCHANGED <<server, bounds>>
  PROVE  IInv'
<1> USE DEF IInv
<1>1. net' = net \ {r} /\ UNCHANGED <<store, tab, past>>
  BY DEF ArriveData, Unheard
<1>2. TypeOK'
  BY <1>1 DEF TypeOK
<1>3. AnswersNameUsers'
  BY <1>1, NothingAnswered
<1>4. ShowsItsSession' /\ StoreIsWhole'
  BY <1>1, SameSession
<1> QED
  BY <1>2, <1>3, <1>4

LEMMA ArriveIInv == ASSUME IInv, NEW r \in net, Arrive(r) PROVE IInv'
<1>1. UNCHANGED <<server, bounds>>
  BY DEF Arrive
<1>2. CASE ArriveEnding(r)
  BY <1>1, <1>2, ArriveEndingIInv
<1>3. CASE Unheard(r)
  BY <1>1, <1>3, ArriveUnstoredIInv
<1>4. CASE r.by # None /\ ~ArriveEnding(r)
  <2>1. r.by \in Tabs
    BY <1>4 DEF IInv, TypeOK, Message
  <2>2. \/ ArriveMe(r) \/ ArriveLogin(r) \/ ArriveRegister(r)
        \/ ArriveTenant(r) \/ ArriveUpdate(r) \/ ArriveData(r)
    BY <1>4 DEF Arrive, Unheard
  <2> QED
    BY <1>1, <2>1, <2>2, ArriveMeIInv, ArriveLoginIInv, ArriveRegisterIInv,
       ArriveTenantIInv, ArriveUpdateIInv, ArriveUnstoredIInv
<1> QED
  BY <1>2, <1>3, <1>4 DEF Arrive, ArriveEnding

-----------------------------------------------------------------------------
LEMMA NextIInv == IInv /\ [Next]_vars => IInv'
<1> SUFFICES ASSUME IInv, [Next]_vars PROVE IInv'
  OBVIOUS
<1>1. ASSUME NEW t \in Tabs,
             \/ \E at \in Places : GoTo(t, at)
             \/ \E u \in Users : Login(t, u) \/ Register(t, u)
             \/ Open(t) \/ Boot(t) \/ CreateTenant(t) \/ SaveProfile(t) \/ Call(t) \/ Logout(t)
      PROVE  IInv'
  BY <1>1, GoToIInv, SendIInv, OpenIInv, BootIInv, LogoutIInv
<1>2. ASSUME NEW r \in net, Serve(r) \/ Lose(r) \/ Arrive(r)
      PROVE  IInv'
  BY <1>2, ServeIInv, LoseIInv, ArriveIInv
<1>3. ASSUME NEW token \in Token, Expire(token)
      PROVE  IInv'
  BY <1>3, ExpireIInv
<1>4. CASE UNCHANGED vars
  BY <1>4 DEF vars, IInv, TypeOK, AnswersNameUsers, ShowsItsSession, StoreIsWhole
<1> QED
  BY <1>1, <1>2, <1>3, <1>4 DEF Next

\* However many tabs share the store, and whatever is answered when: the user in memory
\* and the one in the store are the user of the token calls are made with, unless another
\* tab signed in or out, a request failed, or an answer came to an earlier session.
THEOREM ShownIsSignedIn == SafetySpec => []SessionIsConsistent
<1>1. SafetySpec => []IInv
  BY InitIInv, NextIInv, PTL DEF SafetySpec
<1>2. IInv => SessionIsConsistent
  BY DEF IInv, SessionIsConsistent
<1> QED
  BY <1>1, <1>2, PTL
=============================================================================
