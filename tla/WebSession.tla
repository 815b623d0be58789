----------------------------- MODULE WebSession -----------------------------
(***************************************************************************)
(* The session of one account in one browser: the token pair in            *)
(* localStorage (web/src/lib/api.ts), the tabs that share it, the requests *)
(* they send, the refresh that a 401 starts, and the session state of each *)
(* tab (web/src/lib/auth.tsx, the guards of App.tsx), against the server's *)
(* refresh handler (internal/api/auth.go), statement by statement.         *)
(*                                                                         *)
(* A pair is an access token with the refresh token issued next to it.     *)
(* Pairs that nobody holds any more are forgotten and used again, so the   *)
(* model is finite without a bound on logins and rotations.  A revoked row *)
(* and an expired one are refused alike: the rows are the set of live ones.*)
(*                                                                         *)
(* Timing: no access token expires while a request that carries it is on   *)
(* its way, so a request is known to be accepted or not when it is sent;   *)
(* no token expires before the answer that carries it has arrived.         *)
(* Lifetimes are minutes and days.  A refresh that a reload interrupts is  *)
(* one whose answer is lost before the reload.                             *)
(***************************************************************************)
EXTENDS Integers, FiniteSets

CONSTANTS
  Tabs,
  Reqs,        \* slots for requests of a tab under way at the same time
  Me,          \* the one used by GET /api/me
  Pairs,
  NoPair,      \* an empty localStorage
  MaxFaults,   \* bound on failed refreshes
  FaultKinds,  \* where they may fail
  MeFaults     \* whether they may fail while GET /api/me waits for them

ASSUME SessionAssumption ==
  /\ Me \in Reqs
  /\ NoPair \notin Pairs
  /\ MaxFaults \in Nat
  /\ FaultKinds \subseteq {"unreachable", "lookup", "create", "answer"}
  /\ MeFaults \in BOOLEAN

VARIABLES
  live,     \* the rows of refresh_tokens that are neither revoked nor expired
  stored,   \* the pair in localStorage ...
  fresh,    \* ... and whether its access token has not expired
  tab,      \* user, loading and page of each tab
  req,      \* the requests of each tab
  refresh,  \* the refresh each tab has under way, and its handler
  leaving,  \* the logout each tab has under way
  faults,
  over      \* history: the session has been ended, or there is none

storage == <<stored, fresh>>
vars == <<live, storage, tab, req, refresh, leaving, faults, over>>

-----------------------------------------------------------------------------
(* Tabs, requests, refreshes. *)

\* loading is over once GET /api/me has ended; the guards of the routes then
\* send a tab without a user to the login page, and the login page sends one
\* with a user to the application.
TabState == {"loadingLogin", "loadingApp", "out", "in"}
AtLogin(t) == tab[t] \in {"loadingLogin", "out"}

\* Where a request stands: sent or sent again with a token that will be taken
\* or with one that will not, or waiting for a refresh.
RequestState == {"idle", "sentFresh", "sentStale", "waiting", "againFresh", "againStale"}
Sent == IF fresh THEN "sentFresh" ELSE "sentStale"

NoRefresh == [pc |-> "idle", token |-> NoPair, new |-> NoPair, again |-> FALSE]
\* What POST /api/auth/refresh starts with; again: the second attempt.
Asking(p, again) == [pc |-> "lookup", token |-> p, new |-> NoPair, again |-> again]

NotLeaving == [pc |-> "no", token |-> NoPair]

InUse == {stored} \cup UNION {{refresh[t].token, refresh[t].new, leaving[t].token} : t \in Tabs}
NewPair == CHOOSE p \in Pairs : p \notin InUse
CanIssue == \E p \in Pairs : p \notin InUse

\* The last conjunct of an action: the live rows, without those nobody holds.
Rows(rows) == live' = rows \cap InUse'

Waiting(t) == {r \in Reqs : req[t][r] = "waiting"}

\* What a tab is after its page has been loaded: GET /api/me is under way if
\* there is a token.
LoadedTab(at) == IF stored = NoPair THEN "out" ELSE at
LoadedRequests == [r \in Reqs |-> IF r = Me /\ stored # NoPair THEN Sent ELSE "idle"]

Init ==
  /\ stored \in Pairs \cup {NoPair}
  /\ live \in {{stored} \ {NoPair}, {}}
  /\ fresh \in {stored # NoPair, FALSE}
  /\ tab \in [Tabs -> {LoadedTab("loadingApp"), LoadedTab("loadingLogin")}]
  /\ req = [t \in Tabs |-> LoadedRequests]
  /\ refresh = [t \in Tabs |-> NoRefresh]
  /\ leaving = [t \in Tabs |-> NotLeaving]
  /\ faults = 0
  /\ over = (stored \notin live)

Forget == stored' = NoPair /\ fresh' = FALSE

\* handleAuthFailure: the storage is cleared and the refresh has failed, so
\* that the requests ended throw their 401.  Away from the login page the
\* browser loads it, which ends everything the tab was doing.
AuthFailure(t, ended) ==
  /\ Forget
  /\ refresh' = [refresh EXCEPT ![t] = NoRefresh]
  /\ req' = [req EXCEPT ![t] =
               [r \in Reqs |-> IF AtLogin(t) /\ r \notin ended THEN @[r] ELSE "idle"]]
  /\ tab' = [tab EXCEPT ![t] = IF AtLogin(t) /\ Me \notin ended THEN @ ELSE "out"]
  /\ leaving' = [leaving EXCEPT ![t] = IF AtLogin(t) THEN @ ELSE NotLeaving]

-----------------------------------------------------------------------------
(* Requests. *)

\* A page sends a request; it carries the stored token if there is one.
Send(t, r) ==
  /\ tab[t] = "in" /\ r # Me /\ req[t][r] = "idle"
  /\ req' = [req EXCEPT ![t][r] = Sent]
  /\ UNCHANGED <<live, storage, tab, refresh, leaving, faults, over>>

\* A page asks for the account again; without a token the tab is signed out.
RefreshUser(t) ==
  /\ tab[t] = "in" /\ req[t][Me] = "idle"
  /\ IF stored = NoPair
       THEN tab' = [tab EXCEPT ![t] = "out"] /\ UNCHANGED req
       ELSE req' = [req EXCEPT ![t][Me] = Sent] /\ UNCHANGED tab
  /\ UNCHANGED <<live, storage, refresh, leaving, faults, over>>

\* The middleware accepts the token.  GET /api/me sets the user.
Succeed(t, r) ==
  /\ req[t][r] \in {"sentFresh", "againFresh"}
  /\ req' = [req EXCEPT ![t][r] = "idle"]
  /\ tab' = IF r = Me THEN [tab EXCEPT ![t] = "in"] ELSE tab
  /\ UNCHANGED <<live, storage, refresh, leaving, faults, over>>

\* A request ends with a network error or a status other than 401: tokens and
\* user stay as they are, and loading is over.
Fail(t, r) ==
  /\ req[t][r] \notin {"idle", "waiting"}
  /\ req' = [req EXCEPT ![t][r] = "idle"]
  /\ tab' = IF r = Me /\ tab[t] # "in" THEN [tab EXCEPT ![t] = "out"] ELSE tab
  /\ UNCHANGED <<live, storage, refresh, leaving, faults, over>>

\* Mutant of Unauthorized: a refresh is started without a token.
UnauthorizedAlways(t, r) ==
  /\ req[t][r] = "sentStale" \/ (req[t][r] = "sentFresh" /\ r # Me)
  /\ req' = [req EXCEPT ![t][r] = "waiting"]
  /\ refresh' = IF refresh[t].pc = "idle"
                  THEN [refresh EXCEPT ![t] = Asking(stored, FALSE)]
                  ELSE refresh
  /\ UNCHANGED <<live, storage, tab, leaving, faults, over>>

\* The first 401 of a request: for its token, or from PATCH /api/me for a wrong
\* password.  It waits for the tab's one refresh, and starts it if there is none.
Unauthorized(t, r) ==
  /\ req[t][r] = "sentStale" \/ (req[t][r] = "sentFresh" /\ r # Me)
  /\ IF refresh[t].pc = "idle" /\ stored = NoPair
       THEN /\ AuthFailure(t, {r})
            /\ Rows(live)
       ELSE /\ req' = [req EXCEPT ![t][r] = "waiting"]
            /\ refresh' = IF refresh[t].pc = "idle"
                            THEN [refresh EXCEPT ![t] = Asking(stored, FALSE)]
                            ELSE refresh
            /\ UNCHANGED <<live, storage, tab, leaving>>
  /\ UNCHANGED <<faults, over>>

\* Mutant of UnauthorizedAgain: a request forgets that it has been sent again.
UnauthorizedOnceMore(t, r) ==
  /\ req[t][r] = "againFresh" /\ r # Me /\ stored # NoPair /\ refresh[t].pc = "idle"
  /\ req' = [req EXCEPT ![t][r] = "waiting"]
  /\ refresh' = [refresh EXCEPT ![t] = Asking(stored, FALSE)]
  /\ UNCHANGED <<live, storage, tab, leaving, faults, over>>

\* The second 401 of a request is thrown; for GET /api/me that clears the
\* storage (init effect and refreshUser).
UnauthorizedAgain(t, r) ==
  /\ req[t][r] = "againStale" \/ (req[t][r] = "againFresh" /\ r # Me)
  /\ req' = [req EXCEPT ![t][r] = "idle"]
  /\ IF r = Me
       THEN Forget /\ tab' = [tab EXCEPT ![t] = "out"]
       ELSE UNCHANGED <<storage, tab>>
  /\ UNCHANGED <<refresh, leaving, faults, over>>
  /\ Rows(live)

-----------------------------------------------------------------------------
(* The refresh handler. *)

At(t, pc) == refresh[t].pc = pc
MayFail(t, kind) ==
  /\ kind \in FaultKinds /\ faults < MaxFaults
  /\ MeFaults \/ Me \notin Waiting(t)

\* Mutant of Lookup: the token is revoked before it has a successor.
LookupAndRevoke(t) ==
  /\ At(t, "lookup") /\ refresh[t].token \in live
  /\ refresh' = [refresh EXCEPT ![t].pc = "create"]
  /\ live' = live \ {refresh[t].token}
  /\ UNCHANGED <<storage, tab, req, leaving, faults, over>>

\* GetRefreshToken and the account's status.
Lookup(t) ==
  /\ At(t, "lookup") /\ refresh[t].token \in live
  /\ refresh' = [refresh EXCEPT ![t].pc = "create"]
  /\ UNCHANGED <<live, storage, tab, req, leaving, faults, over>>

\* A 401: the token is unknown, revoked or expired; its account is disabled,
\* and the token is revoked with that; or the statement failed, which is
\* answered like an unknown token.
Refuse(t) ==
  /\ At(t, "lookup")
  /\ \/ /\ refresh[t].token \notin live
        /\ UNCHANGED <<live, faults, over>>
     \/ /\ live' = live \ {refresh[t].token}
        /\ over' = TRUE
        /\ UNCHANGED faults
     \/ /\ MayFail(t, "lookup")
        /\ faults' = faults + 1
        /\ UNCHANGED <<live, over>>
  /\ refresh' = [refresh EXCEPT ![t].pc = "refused"]
  /\ UNCHANGED <<storage, tab, req, leaving>>

\* The successor is created before the old token is revoked.
CreateSuccessor(t) ==
  /\ At(t, "create") /\ CanIssue
  /\ refresh' = [refresh EXCEPT ![t].pc = "revoke", ![t].new = NewPair]
  /\ live' = live \cup {NewPair}
  /\ UNCHANGED <<storage, tab, req, leaving, faults, over>>

\* A failure to revoke is only logged.
RevokeOld(t) ==
  /\ At(t, "revoke")
  /\ refresh' = [refresh EXCEPT ![t].pc = "answer"]
  /\ live' \in {live \ {refresh[t].token}, live}
  /\ UNCHANGED <<storage, tab, req, leaving, faults, over>>

-----------------------------------------------------------------------------
(* doRefresh. *)

\* The new pair is stored, and the waiting requests are sent once more.
StorePair(t) ==
  /\ At(t, "answer")
  /\ stored' = refresh[t].new /\ fresh' = TRUE
  /\ refresh' = [refresh EXCEPT ![t] = NoRefresh]
  /\ req' = [req EXCEPT ![t] =
               [r \in Reqs |-> IF r \in Waiting(t) THEN "againFresh" ELSE @[r]]]
  /\ UNCHANGED <<tab, leaving, faults, over>>
  /\ Rows(live)

\* A 401: another tab may have stored a newer token, which is tried once.
Refused(t) ==
  /\ At(t, "refused")
  /\ IF ~refresh[t].again /\ stored \notin {NoPair, refresh[t].token}
       THEN /\ refresh' = [refresh EXCEPT ![t] = Asking(stored, TRUE)]
            /\ UNCHANGED <<storage, req, tab, leaving>>
       ELSE AuthFailure(t, Waiting(t))
  /\ UNCHANGED <<faults, over>>
  /\ Rows(live)

\* The server cannot be reached, answers 5xx, or its answer is lost: doRefresh
\* keeps the pair, and the waiting requests throw their own 401.  For
\* GET /api/me that clears the storage all the same.
RefreshFails(t) ==
  /\ \/ At(t, "lookup") /\ MayFail(t, "unreachable")
     \/ At(t, "create") /\ MayFail(t, "create")
     \/ At(t, "answer") /\ MayFail(t, "answer")
  /\ faults' = faults + 1
  /\ refresh' = [refresh EXCEPT ![t] = NoRefresh]
  /\ req' = [req EXCEPT ![t] =
               [r \in Reqs |-> IF r \in Waiting(t) THEN "idle" ELSE @[r]]]
  /\ IF Me \in Waiting(t)
       THEN Forget /\ tab' = [tab EXCEPT ![t] = "out"]
       ELSE UNCHANGED <<storage, tab>>
  /\ UNCHANGED <<leaving, over>>
  /\ Rows(live)

-----------------------------------------------------------------------------
(* Login, logout, reload. *)

\* POST /api/auth/login or register, and its answer.  Nothing is promised of
\* a session that begins while a refresh of the one before is under way: its
\* answer will replace the new pair.
Login(t) ==
  /\ tab[t] = "out" /\ CanIssue
  /\ stored' = NewPair /\ fresh' = TRUE
  /\ tab' = [tab EXCEPT ![t] = "in"]
  /\ over' = (\E s \in Tabs : refresh[s].pc # "idle")
  /\ UNCHANGED <<req, refresh, leaving, faults>>
  /\ Rows(live \cup {NewPair})

StartLogout(t) ==
  /\ tab[t] = "in" /\ leaving[t].pc = "no"
  /\ leaving' = [leaving EXCEPT ![t] = [pc |-> "sent", token |-> stored]]
  /\ over' = TRUE
  /\ UNCHANGED <<live, storage, tab, req, refresh, faults>>

\* The server revokes the token it is given, and no other.
RevokeOnLogout(t) ==
  /\ leaving[t].pc = "sent"
  /\ live' = live \ {leaving[t].token}
  /\ leaving' = [leaving EXCEPT ![t].pc = "served"]
  /\ UNCHANGED <<storage, tab, req, refresh, faults, over>>

\* Mutant of FinishLogout: a network error is thrown to the caller.
FinishLogoutOrThrow(t) ==
  /\ leaving[t].pc \in {"sent", "served"}
  /\ leaving' = [leaving EXCEPT ![t] = NotLeaving]
  /\ IF leaving[t].pc = "served"
       THEN Forget /\ tab' = [tab EXCEPT ![t] = "out"] /\ over' = TRUE
       ELSE UNCHANGED <<storage, tab, over>>
  /\ UNCHANGED <<req, refresh, faults>>
  /\ Rows(live)

\* The answer or a network error; either way the tab forgets the session.
FinishLogout(t) ==
  /\ leaving[t].pc \in {"sent", "served"}
  /\ leaving' = [leaving EXCEPT ![t] = NotLeaving]
  /\ Forget
  /\ tab' = [tab EXCEPT ![t] = "out"]
  /\ over' = TRUE
  /\ UNCHANGED <<req, refresh, faults>>
  /\ Rows(live)

Reload(t) ==
  /\ refresh[t].pc = "idle" /\ leaving[t].pc = "no"
  /\ tab' = [tab EXCEPT ![t] = LoadedTab(IF AtLogin(t) THEN "loadingLogin" ELSE "loadingApp")]
  /\ req' = [req EXCEPT ![t] = LoadedRequests]
  /\ UNCHANGED <<live, storage, refresh, leaving, faults, over>>

-----------------------------------------------------------------------------
(* Time and administrators. *)

ExpireAccess ==
  /\ fresh
  /\ \A t \in Tabs, r \in Reqs : req[t][r] \notin {"sentFresh", "againFresh"}
  /\ fresh' = FALSE
  /\ UNCHANGED <<live, stored, tab, req, refresh, leaving, faults, over>>

ExpireRefresh ==
  /\ stored \in live
  /\ live' = live \ {stored}
  /\ over' = TRUE
  /\ UNCHANGED <<storage, tab, req, refresh, leaving, faults>>

\* A new password, a reset one, or a forced logout.
RevokeAll ==
  /\ live' = {}
  /\ over' = TRUE
  /\ UNCHANGED <<storage, tab, req, refresh, leaving, faults>>

-----------------------------------------------------------------------------
RefreshStep(t) ==
  \/ Lookup(t) \/ Refuse(t) \/ CreateSuccessor(t) \/ RevokeOld(t)
  \/ StorePair(t) \/ Refused(t) \/ RefreshFails(t)

RequestStep(t, r) ==
  Succeed(t, r) \/ Fail(t, r) \/ Unauthorized(t, r) \/ UnauthorizedAgain(t, r)

Next ==
  \/ \E t \in Tabs :
       \/ RefreshStep(t)
       \/ RefreshUser(t)
       \/ Login(t) \/ StartLogout(t) \/ RevokeOnLogout(t) \/ FinishLogout(t)
       \/ Reload(t)
       \/ \E r \in Reqs : Send(t, r) \/ RequestStep(t, r)
  \/ ExpireAccess \/ ExpireRefresh \/ RevokeAll

Spec == Init /\ [][Next]_vars

\* Requests, refreshes and logouts end: the browser and the server run, and
\* the network delivers or fails.  Users and administrators owe nothing.
Fairness ==
  \A t \in Tabs :
    /\ WF_vars(RefreshStep(t))
    /\ WF_vars(RevokeOnLogout(t) \/ FinishLogout(t))
    /\ \A r \in Reqs : WF_vars(RequestStep(t, r))

FairSpec == Spec /\ Fairness

-----------------------------------------------------------------------------
(* Properties. *)

\* Types, and what belongs together: a refresh under way has a token, and one
\* past the creation has a successor.
TypeOK ==
  /\ live \subseteq Pairs
  /\ stored \in Pairs \cup {NoPair}
  /\ fresh \in BOOLEAN
  /\ tab \in [Tabs -> TabState]
  /\ req \in [Tabs -> [Reqs -> RequestState]]
  /\ refresh \in [Tabs -> [pc : {"idle", "lookup", "create", "revoke", "answer", "refused"},
                           token : Pairs \cup {NoPair}, new : Pairs \cup {NoPair},
                           again : BOOLEAN]]
  /\ leaving \in [Tabs -> [pc : {"no", "sent", "served"}, token : Pairs \cup {NoPair}]]
  /\ faults \in 0..MaxFaults
  /\ over \in BOOLEAN
  /\ \A t \in Tabs :
       /\ refresh[t].pc # "idle" => refresh[t].token \in Pairs
       /\ (refresh[t].pc \in {"revoke", "answer"}) <=> (refresh[t].new \in Pairs)
       /\ Waiting(t) # {} => refresh[t].pc # "idle"

\* The stored token has been handed in and its live successor is on its way
\* into the storage.
Arriving(t) ==
  /\ refresh[t].token = stored
  /\ refresh[t].pc \in {"revoke", "answer"}
  /\ refresh[t].new \in live

\* A session nobody has ended goes on: the browser holds a refresh token that
\* the server takes, or is about to get one.  The order of create and revoke
\* in Refresh, the single refresh per tab and the pair kept on errors of
\* doRefresh are all needed for it.
SessionKept ==
  ~over => stored # NoPair /\ (stored \in live \/ \E t \in Tabs : Arriving(t))

\* Every request ends, also one that waits for a refresh somebody else started.
RequestsEnd ==
  \A t \in Tabs, r \in Reqs : req[t][r] # "idle" ~> req[t][r] = "idle"

\* A logout leaves the application, whatever becomes of its request.
LogoutLeaves ==
  \A t \in Tabs : leaving[t].pc # "no" ~> tab[t] \in {"out", "loadingLogin"}
=============================================================================
