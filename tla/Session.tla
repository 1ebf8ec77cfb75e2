-------------------------------- MODULE Session --------------------------------
(***************************************************************************)
(* Who is signed in: the token and the user in localStorage (config.ts,    *)
(* apis/auth.ts), the user each tab of the browser keeps in memory         *)
(* (AuthContext.tsx), the routes that user may see (App.tsx), the answers  *)
(* that end a session (apis/client.ts), and the account endpoints.  The    *)
(* pages are Login, Register, CreateTenant and Profile, and any other as a *)
(* page that asks for data.                                                *)
(***************************************************************************)
EXTENDS Naturals, FiniteSets

CONSTANTS
  Tabs,                         \* tabs of one browser: they share localStorage
  Admins, Lecturers, Students,  \* the people who use it, by their role
  Pages,                        \* bound: the pages that are opened
  None,
  MaxTokens,                    \* bound: sign-ins
  MaxCalls,                     \* bound: forms sent and calls of pages
  MaxOpens,                     \* bound: times a tab is opened, reloaded or closed
  MaxFailures                   \* bound: requests that fail

Users == Admins \cup Lecturers \cup Students
Token == [of : Users, n : 1 .. MaxTokens]

ASSUME SessionAssumption ==
  /\ Admins \cap Lecturers = {} /\ Admins \cap Students = {} /\ Lecturers \cap Students = {}
  /\ None \notin Users \cup Token
  /\ {"login", "create", "dashboard"} \subseteq Pages
  /\ {MaxTokens, MaxCalls, MaxOpens, MaxFailures} \subseteq Nat

VARIABLES
  store,            \* localStorage: access_token and wazire_user
  tab,              \* each tab: what has loaded, its user, its URL, its form
  net,              \* requests in flight
  server,           \* accounts, institutions, tokens
  past,             \* history: tabs whose session another tab changed, and whether an
                    \* answer to an earlier session was stored
  bounds

vars == <<store, tab, net, server, past, bounds>>

Public == {"login", "register"}
Places == Pages \cap (Public \cup {"create", "dashboard", "profile", "edit", "users", "take"})
Ops    == {"me", "login", "register", "first login", "tenant", "tenant me", "update", "data"}

\* What a tab keeps in memory, and its URL.
TabState == [phase : {"off", "init", "ready"}, user : Users \cup {None}, at : Places, busy : BOOLEAN]

\* A tab that is closed, or whose page is about to load.
Off(at) == [phase |-> "off", user |-> None, at |-> at, busy |-> FALSE]

\* A request is of a tab, or of none that waits for it; it carries the token it was sent
\* with, and "gives" what it asks for and then what it is answered with.
Message == [op : Ops, by : Tabs \cup {None}, who : Users \cup {None},
            token : Token \cup {None}, gives : Token \cup Users \cup {None},
            status : {"sent", "ok", "bad", "unauthorized", "forbidden", "lost"}]

Request(op, t, u) == [op |-> op, by |-> t, who |-> u, token |-> store.token, status |-> "sent", gives |-> None]

TypeOK ==
  /\ store \in [token : Token \cup {None}, user : Users \cup {None}]
  /\ tab \in [Tabs -> TabState]
  /\ net \subseteq Message
  /\ server \in [accounts : SUBSET Users, linked : SUBSET Admins,
                 institutions : [Admins -> Nat],
                 expired : SUBSET Token, issued : 0 .. MaxTokens]
  /\ past \in [elsewhere : SUBSET Tabs, late : BOOLEAN]
  /\ bounds \in [calls : 0 .. MaxCalls, opens : 0 .. MaxOpens, failures : 0 .. MaxFailures]

\* Students and lecturers have accounts, made by an administrator, and so have admins who
\* were linked to an institution; any other admin registers.
Init ==
  /\ store = [token |-> None, user |-> None]
  /\ tab = [t \in Tabs |-> Off("dashboard")]
  /\ net = {}
  /\ \E linked \in SUBSET Admins :
       server = [accounts |-> (Users \ Admins) \cup linked, linked |-> linked,
                 institutions |-> [a \in Admins |-> 0], expired |-> {}, issued |-> 0]
  /\ past = [elsewhere |-> {}, late |-> FALSE]
  /\ bounds = [calls |-> 0, opens |-> 0, failures |-> 0]

-----------------------------------------------------------------------------
(***************************************************************************)
(* Routes.                                                                 *)
(***************************************************************************)

\* user.tenant_id as the tab knows it; an admin without one is sent to create it.
Unlinked(u) == u \in Admins \ server.linked

Home(u) == IF Unlinked(u) THEN "create" ELSE "dashboard"

\* Where a tab ends up that shows user u and is sent to a place.
Land(u, at) ==
  IF u = None THEN IF at \in Public THEN at ELSE "login"
  ELSE IF at \in Public \cup {"dashboard"} THEN Home(u)
  ELSE IF at = "create" THEN IF Unlinked(u) THEN at ELSE "dashboard"
  ELSE IF at = "users" /\ Unlinked(u) THEN "create"
  ELSE at

\* AccessDenied takes the place of the page.
Allowed(u, at) ==
  /\ at = "users" => u \in Admins
  /\ at = "edit" => u \in Admins \cup Lecturers
  /\ at = "take" => u \in Students

\* Links, the menus and typed URLs that stay in the application.
GoTo(t, at) ==
  /\ tab[t].phase = "ready"
  /\ at # tab[t].at
  /\ tab' = [tab EXCEPT ![t] = [@ EXCEPT !.at = Land(tab[t].user, at), !.busy = FALSE]]
  /\ UNCHANGED <<store, net, server, past, bounds>>

-----------------------------------------------------------------------------
(***************************************************************************)
(* Loading and leaving the application.                                    *)
(***************************************************************************)

\* A page that unloads waits for nothing; what it asked the server to create may be.
Unload(rs, t) ==
  {IF r.by = t THEN [r EXCEPT !.by = None] ELSE r :
     r \in {q \in rs : q.by = t => q.status = "sent" /\ q.op \in {"register", "tenant"}}}

\* Opening, reloading or closing a tab.
Open(t) ==
  /\ bounds.opens < MaxOpens
  /\ tab[t].phase # "off"
  /\ bounds' = [bounds EXCEPT !.opens = @ + 1]
  /\ tab' = [tab EXCEPT ![t] = Off(@.at)]
  /\ net' = Unload(net, t)
  /\ UNCHANGED <<store, server, past>>

\* AuthProvider's effect: with a token ask who it is, without one take the stored user.
Boot(t) ==
  /\ tab[t].phase = "off"
  /\ IF store.token # None
     THEN /\ tab' = [tab EXCEPT ![t].phase = "init"]
          /\ net' = net \cup {Request("me", t, None)}
     ELSE /\ tab' = [tab EXCEPT ![t] = [@ EXCEPT !.phase = "ready", !.user = store.user,
                                                 !.at = Land(store.user, tab[t].at)]]
          /\ UNCHANGED net
  /\ past' = [past EXCEPT !.elsewhere = @ \ {t}]
  /\ UNCHANGED <<store, server, bounds>>

-----------------------------------------------------------------------------
(***************************************************************************)
(* The forms.  A button that shows progress is disabled, until the page is *)
(* left.                                                                   *)
(***************************************************************************)

Count ==
  /\ bounds.calls < MaxCalls
  /\ bounds' = [bounds EXCEPT !.calls = @ + 1]

Send(t, r) ==
  /\ Count
  /\ r \notin net
  /\ net' = net \cup {r}
  /\ tab' = [tab EXCEPT ![t].busy = TRUE]

\* Login.handleSubmit, with the right password or a wrong one.
Login(t, u) ==
  /\ tab[t].phase = "ready" /\ tab[t].at = "login" /\ ~tab[t].busy
  /\ \E right \in BOOLEAN :
       Send(t, [Request("login", t, u) EXCEPT !.token = None, !.gives = IF right THEN u ELSE None])
  /\ UNCHANGED <<store, server, past>>

\* Register.handleSubmit after validate.  Everyone may choose a role there.
Register(t, u) ==
  /\ tab[t].phase = "ready" /\ tab[t].at = "register" /\ ~tab[t].busy
  /\ Send(t, [Request("register", t, u) EXCEPT !.token = None])
  /\ UNCHANGED <<store, server, past>>

\* CreateTenant.handleCreate, with a name that is free.
CreateTenant(t) ==
  /\ tab[t].phase = "ready" /\ tab[t].at = "create" /\ ~tab[t].busy
  /\ Send(t, Request("tenant", t, None))
  /\ UNCHANGED <<store, server, past>>

\* Profile.handleSave.
SaveProfile(t) ==
  /\ tab[t].phase = "ready" /\ tab[t].at = "profile" /\ ~tab[t].busy
  /\ Send(t, Request("update", t, None))
  /\ UNCHANGED <<store, server, past>>

\* Any other call of a page that is shown.
Call(t) ==
  /\ tab[t].phase = "ready" /\ tab[t].user # None
  /\ tab[t].at \notin {"create"} /\ Allowed(tab[t].user, tab[t].at)
  /\ Count
  /\ net' = net \cup {Request("data", t, None)}
  /\ UNCHANGED <<store, tab, server, past>>

-----------------------------------------------------------------------------
(***************************************************************************)
(* localStorage.                                                           *)
(***************************************************************************)

Cleared == [token |-> None, user |-> None]

\* removeAuthToken
RemoveAuthToken == Cleared

SignedIn(token) == [token |-> token, user |-> token.of]

SignedInTokenless(token) == [token |-> None, user |-> token.of]

\* authApi.login and the AuthContext after it.
StoreLogin(token) == SignedIn(token)

\* The session of the other tabs is no longer the one in the store.
ChangedBy(t) == [past EXCEPT !.elsewhere = (@ \cup Tabs) \ {t}]

\* AuthContext.logout, from the sidebar, the menu of the user or the profile.
Logout(t) ==
  /\ tab[t].phase = "ready" /\ tab[t].user # None /\ tab[t].at # "create"
  /\ store' = Cleared
  /\ tab' = [tab EXCEPT ![t] = [@ EXCEPT !.user = None, !.at = "login", !.busy = FALSE]]
  /\ past' = ChangedBy(t)
  /\ UNCHANGED <<net, server, bounds>>

-----------------------------------------------------------------------------
(***************************************************************************)
(* The server.                                                             *)
(***************************************************************************)

Reply(r, status, gives) == net' = (net \ {r}) \cup {[r EXCEPT !.status = status, !.gives = gives]}

\* HTTPBearer refuses a call without a token with 403, get_current_user one with an expired
\* token with 401.
Refusal(r) ==
  IF r.token = None THEN "forbidden"
  ELSE IF r.token \in server.expired THEN "unauthorized"
  ELSE "no"

\* Only an admin without a tenant may create one.  The admin is given the id of the row
\* before the row has one (services/account/tenants.py:150-155): the link stays empty.
Institute(a) == [server EXCEPT !.institutions[a] = @ + 1]

ServeAuthenticated(r) ==
  /\ r.op \in {"me", "tenant", "tenant me", "update", "data"}
  /\ IF Refusal(r) # "no"
     THEN Reply(r, Refusal(r), None) /\ UNCHANGED server
     ELSE IF r.op = "tenant" /\ r.token.of \in server.linked
     THEN Reply(r, "bad", None) /\ UNCHANGED server
     ELSE IF r.op = "tenant" /\ r.token.of \notin Admins
     THEN Reply(r, "forbidden", None) /\ UNCHANGED server
     ELSE /\ Reply(r, "ok", r.token.of)
          /\ server' = IF r.op = "tenant" THEN Institute(r.token.of) ELSE server

ServeLogin(r) ==
  /\ r.op \in {"login", "first login"}
  /\ IF r.gives = r.who /\ r.who \in server.accounts
     THEN /\ server.issued < MaxTokens
          /\ server' = [server EXCEPT !.issued = @ + 1]
          /\ Reply(r, "ok", [of |-> r.who, n |-> server.issued + 1])
     ELSE Reply(r, "unauthorized", None) /\ UNCHANGED server

\* A student or a lecturer needs the code of an institution, which the form does not ask for.
ServeRegister(r) ==
  /\ r.op = "register"
  /\ IF r.who \in Admins \ server.accounts
     THEN /\ server' = [server EXCEPT !.accounts = @ \cup {r.who}]
          /\ Reply(r, "ok", r.who)
     ELSE Reply(r, "bad", None) /\ UNCHANGED server

Serve(r) ==
  /\ r \in net
  /\ r.status = "sent"
  /\ ServeAuthenticated(r) \/ ServeLogin(r) \/ ServeRegister(r)
  /\ UNCHANGED <<store, tab, past, bounds>>

\* A request or its answer is lost, or the server fails.
Lose(r) ==
  /\ r \in net
  /\ r.status # "lost"
  /\ bounds.failures < MaxFailures
  /\ bounds' = [bounds EXCEPT !.failures = @ + 1]
  /\ Reply(r, "lost", None)
  /\ UNCHANGED <<store, tab, server, past>>

Expire(token) ==
  /\ token.n <= server.issued
  /\ token \notin server.expired
  /\ \E u \in Users : store.token = token \/ \E r \in net : r.token = token
  /\ server' = [server EXCEPT !.expired = @ \cup {token}]
  /\ UNCHANGED <<store, tab, net, past, bounds>>

-----------------------------------------------------------------------------
(***************************************************************************)
(* Answers.                                                                *)
(***************************************************************************)

NeverEnds(r) == FALSE

\* The response interceptor: the session ends and the page is loaded again at /login,
\* whoever the answer was for.  A wrong password is such an answer.
EndsSession(r) == r.status = "unauthorized"

ArriveEnding(r) ==
  /\ EndsSession(r)
  /\ r.by # None
  /\ store' = RemoveAuthToken
  /\ tab' = [tab EXCEPT ![r.by] = Off("login")]
  /\ net' = Unload(net \ {r}, r.by)
  /\ past' = ChangedBy(r.by)

\* setUser with an answer, and the user that authApi.updateMe stores.
StoreUser(r) ==
  /\ store' = [store EXCEPT !.user = r.token.of]
  /\ past' = [past EXCEPT !.late = @ \/ store.token # r.token]

PhaseAfterAnswer(r) == IF r.status = "ok" THEN "ready" ELSE "init"

\* finally: setAuthLoading(false)
PhaseAfter(r) == "ready"

\* AuthProvider's effect goes on: the stored user when nothing better is known.
ArriveMe(r) ==
  /\ r.op = "me"
  /\ IF r.status = "ok" THEN StoreUser(r) ELSE UNCHANGED <<store, past>>
  /\ LET u == IF r.status = "ok" THEN r.token.of ELSE store.user IN
     tab' = [tab EXCEPT ![r.by] = [@ EXCEPT !.phase = PhaseAfter(r), !.user = u,
                                            !.at = Land(u, tab[r.by].at)]]
  /\ net' = net \ {r}

\* login, also for a page that has been left meanwhile.
ArriveLogin(r) ==
  /\ r.op \in {"login", "first login"}
  /\ net' = net \ {r}
  /\ IF r.status = "ok"
     THEN /\ store' = StoreLogin(r.gives)
          /\ tab' = [tab EXCEPT ![r.by] = [@ EXCEPT !.user = r.who, !.at = Home(r.who), !.busy = FALSE]]
          /\ past' = ChangedBy(r.by)
     ELSE /\ tab' = [tab EXCEPT ![r.by].busy = FALSE]
          /\ UNCHANGED <<store, past>>

\* Registering goes on with a login.
ArriveRegister(r) ==
  /\ r.op = "register"
  /\ IF r.status = "ok"
     THEN /\ net' = (net \ {r}) \cup {[Request("first login", r.by, r.who) EXCEPT
                                         !.token = None, !.gives = r.who]}
          /\ UNCHANGED tab
     ELSE /\ net' = net \ {r}
          /\ tab' = [tab EXCEPT ![r.by].busy = FALSE]
  /\ UNCHANGED <<store, past>>

\* Creating an institution goes on with the user as it now is, who goes to the dashboard.
ArriveTenant(r) ==
  /\ r.op \in {"tenant", "tenant me"}
  /\ IF r.status # "ok"
     THEN /\ net' = net \ {r}
          /\ tab' = [tab EXCEPT ![r.by].busy = FALSE]
          /\ UNCHANGED <<store, past>>
     ELSE IF r.op = "tenant"
     THEN /\ net' = (net \ {r}) \cup {Request("tenant me", r.by, None)}
          /\ UNCHANGED <<store, tab, past>>
     ELSE /\ net' = net \ {r}
          /\ StoreUser(r)
          /\ tab' = [tab EXCEPT ![r.by] = [@ EXCEPT !.user = r.token.of, !.busy = FALSE,
                                                    !.at = Land(r.token.of, "dashboard")]]

\* The profile is stored, also after a logout; the user of the tab keeps the old name.
ArriveUpdate(r) ==
  /\ r.op = "update"
  /\ net' = net \ {r}
  /\ IF r.status = "ok" THEN StoreUser(r) ELSE UNCHANGED <<store, past>>
  /\ tab' = [tab EXCEPT ![r.by].busy = FALSE]

ArriveData(r) ==
  /\ r.op = "data"
  /\ net' = net \ {r}
  /\ UNCHANGED <<store, tab, past>>

Unheard(r) ==
  /\ r.by = None
  /\ net' = net \ {r}
  /\ UNCHANGED <<store, tab, past>>

Arrive(r) ==
  /\ r \in net
  /\ r.status # "sent"
  /\ \/ ArriveEnding(r)
     \/ Unheard(r)
     \/ /\ ~EndsSession(r) /\ r.by # None
        /\ \/ ArriveMe(r)
           \/ ArriveLogin(r)
           \/ ArriveRegister(r)
           \/ ArriveTenant(r)
           \/ ArriveUpdate(r)
           \/ ArriveData(r)
  /\ UNCHANGED <<server, bounds>>

Next ==
  \/ \E t \in Tabs :
       \/ \E at \in Places : GoTo(t, at)
       \/ \E u \in Users : Login(t, u) \/ Register(t, u)
       \/ Open(t)
       \/ Boot(t)
       \/ CreateTenant(t)
       \/ SaveProfile(t)
       \/ Call(t)
       \/ Logout(t)
  \/ \E r \in net : Serve(r) \/ Lose(r) \/ Arrive(r)
  \/ \E token \in Token : Expire(token)

SafetySpec == Init /\ [][Next]_vars

\* Requests end, and a page that loads starts.
Fairness ==
  /\ \A t \in Tabs : WF_vars(Boot(t))
  /\ WF_vars(\E r \in net : Serve(r))
  /\ WF_vars(\E r \in net : Arrive(r))

Spec == SafetySpec /\ Fairness

-----------------------------------------------------------------------------
(***************************************************************************)
(* Properties.                                                             *)
(***************************************************************************)

\* A tab that shows a user has the token of that user to call with, unless another tab
\* signed in or out since, a request failed, or an answer to an earlier session was
\* stored: whoever signs in, out, registers or reloads in between.
ShowsItsSession ==
  \A t \in Tabs \ past.elsewhere :
    tab[t].phase = "ready" /\ tab[t].user # None /\ ~past.late /\ bounds.failures = 0
      => store.token # None /\ store.token.of = tab[t].user

\* config.ts:270 removes the stored user with the token "to ensure app state becomes
\* unauthenticated": no reload brings back a user without a session, in whatever order
\* the tabs sign in and out, unless an answer to an earlier session was stored.
StoreIsWhole ==
  ~past.late => IF store.token = None THEN store.user = None ELSE store.user = store.token.of

\* What is in memory and in the store fits together, and has its type.
SessionIsConsistent ==
  /\ TypeOK
  /\ ShowsItsSession
  /\ StoreIsWhole

\* A tab whose call is refused for its token leaves the application, unless the answer
\* is lost.
RefusedLeaves ==
  \A t \in Tabs :
    (\E r \in net : /\ r.by = t /\ r.op = "data" /\ r.status = "sent"
                    /\ r.token # None /\ r.token \in server.expired)
      ~> (tab[t].phase # "ready" \/ bounds.failures > 0)

\* The blank page of a tab that asks who it is gives way, whatever the answer.
BootEnds == \A t \in Tabs : tab[t].phase = "init" ~> tab[t].phase # "init"
=============================================================================
