-------------------------- MODULE WebSessionProofs --------------------------
(***************************************************************************)
(* Proofs about WebSession: types for any tabs, requests and faults; and,  *)
(* for one tab and the faults that doRefresh survives, that a session goes *)
(* on until somebody ends it.                                              *)
(***************************************************************************)
EXTENDS WebSession, TLAPS

RefreshPC == {"idle", "lookup", "create", "revoke", "answer", "refused"}
RefreshType ==
  [pc : RefreshPC, token : Pairs \cup {NoPair}, new : Pairs \cup {NoPair}, again : BOOLEAN]
LeavingType == [pc : {"no", "sent", "served"}, token : Pairs \cup {NoPair}]

Types ==
  /\ live \subseteq Pairs
  /\ stored \in Pairs \cup {NoPair}
  /\ fresh \in BOOLEAN
  /\ tab \in [Tabs -> TabState]
  /\ req \in [Tabs -> [Reqs -> RequestState]]
  /\ refresh \in [Tabs -> RefreshType]
  /\ leaving \in [Tabs -> LeavingType]
  /\ faults \in 0..MaxFaults
  /\ over \in BOOLEAN

\* A refresh under way has a token; it has a successor after creating it and
\* before answering.
Tokens ==
  \A t \in Tabs :
    /\ refresh[t].pc # "idle" => refresh[t].token \in Pairs
    /\ (refresh[t].pc \in {"revoke", "answer"}) <=> (refresh[t].new \in Pairs)

\* A request waits for a refresh.
Waits == \A t \in Tabs : refresh[t].pc = "idle" => \A r \in Reqs : req[t][r] # "waiting"

LEMMA TypeOKParts == TypeOK <=> Types /\ Tokens /\ Waits
  BY DEF TypeOK, Types, Tokens, Waits, Waiting, RefreshType, RefreshPC, LeavingType

LEMMA IdleTypes ==
  /\ NoRefresh \in RefreshType
  /\ NotLeaving \in LeavingType
  /\ \A p \in Pairs, again \in BOOLEAN : Asking(p, again) \in RefreshType
  /\ NoRefresh.pc = "idle" /\ NoRefresh.new = NoPair
  /\ NotLeaving.pc = "no"
  /\ \A p, again : /\ Asking(p, again).pc = "lookup" /\ Asking(p, again).token = p
                   /\ Asking(p, again).new = NoPair
  /\ NoPair \notin Pairs
  BY SessionAssumption DEF NoRefresh, NotLeaving, Asking, RefreshType, RefreshPC, LeavingType

\* A new pair is one that nobody holds.
LEMMA NewPairIsNew ==
  CanIssue => /\ NewPair \in Pairs /\ NewPair # stored
              /\ \A t \in Tabs : NewPair \notin {refresh[t].token, refresh[t].new, leaving[t].token}
  BY DEF CanIssue, NewPair, InUse

LEMMA LoadedTypes ==
  Types => /\ LoadedRequests \in [Reqs -> RequestState]
           /\ \A r \in Reqs : LoadedRequests[r] \notin {"waiting", "againStale"}
           /\ LoadedTab("loadingApp") \in TabState /\ LoadedTab("loadingLogin") \in TabState
  BY DEF LoadedRequests, Sent, LoadedTab, RequestState, TabState

LEMMA InitTypes == Init => Types /\ Tokens /\ Waits
<1> SUFFICES ASSUME Init PROVE Types /\ Tokens /\ Waits
  OBVIOUS
<1>1. /\ stored \in Pairs \cup {NoPair} /\ live \subseteq Pairs /\ fresh \in BOOLEAN
      /\ faults \in 0..MaxFaults /\ over \in BOOLEAN
  <2>1. stored \in Pairs \cup {NoPair} /\ live \subseteq Pairs /\ faults \in 0..MaxFaults
    BY SessionAssumption DEF Init
  <2>2. fresh \in BOOLEAN
    BY Zenon DEF Init
  <2>3. over \in BOOLEAN
    BY Zenon DEF Init
  <2> QED BY <2>1, <2>2, <2>3
<1>2. /\ LoadedRequests \in [Reqs -> RequestState]
      /\ \A r \in Reqs : LoadedRequests[r] # "waiting"
      /\ LoadedTab("loadingApp") \in TabState /\ LoadedTab("loadingLogin") \in TabState
  BY <1>1 DEF LoadedRequests, Sent, LoadedTab, RequestState, TabState
<1> HIDE DEF LoadedRequests, LoadedTab
<1>3. Types
  BY <1>1, <1>2, IdleTypes DEF Init, Types
<1>4. Tokens /\ Waits
  BY <1>2, IdleTypes DEF Init, Tokens, Waits
<1> QED BY <1>3, <1>4

\* What an authentication failure does to the types.
LEMMA AuthFailureTypes ==
  ASSUME Types, Tokens, Waits, NEW t \in Tabs, NEW ended \in SUBSET Reqs, AuthFailure(t, ended),
         Waiting(t) \subseteq ended, live' \subseteq Pairs, faults' = faults, over' \in BOOLEAN
  PROVE  Types' /\ Tokens' /\ Waits'
<1> USE IdleTypes
<1>1. stored' = NoPair /\ fresh' = FALSE /\ refresh' = [refresh EXCEPT ![t] = NoRefresh]
  BY DEF AuthFailure, Forget
<1>2. tab' \in [Tabs -> TabState] /\ leaving' \in [Tabs -> LeavingType]
  BY DEF AuthFailure, Types, TabState
<1> DEFINE q == [r \in Reqs |-> IF AtLogin(t) /\ r \notin ended THEN req[t][r] ELSE "idle"]
<1>3. req' = [req EXCEPT ![t] = q]
  BY DEF AuthFailure, Types
<1>4. q \in [Reqs -> RequestState] /\ \A r \in Reqs : q[r] # "waiting"
  BY DEF Types, RequestState, Waiting
<1> HIDE DEF q
<1>5. Types'
  BY <1>1, <1>2, <1>3, <1>4 DEF Types
<1>6. Tokens'
  BY <1>1 DEF Types, Tokens
<1>7. Waits'
  BY <1>1, <1>3, <1>4 DEF Types, Waits
<1> QED BY <1>5, <1>6, <1>7

-----------------------------------------------------------------------------
(* The actions keep the types. *)

\* A refresh that begins, or begins again.
LEMMA AskingTypes ==
  ASSUME Types, Tokens, NEW t \in Tabs, NEW p \in Pairs, NEW again \in BOOLEAN,
         refresh' = [refresh EXCEPT ![t] = Asking(p, again)]
  PROVE  /\ refresh' \in [Tabs -> RefreshType] /\ Tokens'
         /\ refresh'[t].pc = "lookup" /\ refresh'[t].token = p /\ refresh'[t].new = NoPair
         /\ \A s \in Tabs : s # t => refresh'[s] = refresh[s]
<1>1. PICK k \in RefreshType : k = Asking(p, again)
  BY IdleTypes
<1>2. k.pc = "lookup" /\ k.token = p /\ k.new = NoPair
  BY <1>1, IdleTypes
<1>3. refresh'[t] = k /\ \A s \in Tabs : s # t => refresh'[s] = refresh[s]
  BY <1>1 DEF Types
<1>4. refresh' \in [Tabs -> RefreshType]
  BY <1>1 DEF Types
<1>5. Tokens'
  BY <1>2, <1>3, IdleTypes DEF Tokens
<1> QED BY <1>2, <1>3, <1>4, <1>5

\* What the actions of one request have in common.
LEMMA RequestTypes ==
  ASSUME Types, Tokens, Waits, NEW t \in Tabs, NEW r \in Reqs,
         Succeed(t, r) \/ Fail(t, r) \/ Unauthorized(t, r) \/ UnauthorizedAgain(t, r)
  PROVE  Types' /\ Tokens' /\ Waits'
<1> USE IdleTypes
<1>1. CASE Succeed(t, r) \/ Fail(t, r)
  <2>1. /\ req' = [req EXCEPT ![t][r] = "idle"]
        /\ UNCHANGED <<live, storage, refresh, leaving, faults, over>>
    BY <1>1 DEF Succeed, Fail
  <2>2. tab' \in [Tabs -> TabState]
    BY <1>1 DEF Succeed, Fail, Types, TabState
  <2>3. Types'
    BY <2>1, <2>2 DEF Types, RequestState, storage
  <2> QED BY <2>1, <2>3 DEF Types, Tokens, Waits
<1>2. CASE Unauthorized(t, r)
  <2>1. CASE refresh[t].pc = "idle" /\ stored = NoPair
    <3>1. AuthFailure(t, {r}) /\ Rows(live) /\ UNCHANGED <<faults, over>>
      BY <1>2, <2>1 DEF Unauthorized
    <3>2. Waiting(t) \subseteq {r}
      BY <2>1 DEF Waits, Waiting
    <3>3. live' \subseteq Pairs /\ over' \in BOOLEAN
      BY <3>1 DEF Rows, Types
    <3> QED BY <3>1, <3>2, <3>3, AuthFailureTypes
  <2>2. CASE ~(refresh[t].pc = "idle" /\ stored = NoPair)
    <3>1. /\ req' = [req EXCEPT ![t][r] = "waiting"]
          /\ refresh' = IF refresh[t].pc = "idle"
                          THEN [refresh EXCEPT ![t] = Asking(stored, FALSE)] ELSE refresh
          /\ UNCHANGED <<live, storage, tab, leaving, faults, over>>
      BY <1>2, <2>2 DEF Unauthorized
    <3>2. refresh[t].pc = "idle" => stored \in Pairs
      BY <2>2 DEF Types
    <3>3. Types'
      <4>1. refresh' \in [Tabs -> RefreshType]
        <5>1. CASE refresh[t].pc = "idle"
          BY <3>1, <3>2, <5>1, AskingTypes
        <5>2. CASE refresh[t].pc # "idle"
          BY <3>1, <5>2 DEF Types
        <5> QED BY <5>1, <5>2
      <4>2. req' \in [Tabs -> [Reqs -> RequestState]]
        BY <3>1 DEF Types, RequestState
      <4> QED BY <3>1, <4>1, <4>2 DEF Types, storage
    <3>4. Tokens'
      <4>1. CASE refresh[t].pc = "idle"
        BY <3>1, <3>2, <4>1, AskingTypes
      <4>2. CASE refresh[t].pc # "idle"
        BY <3>1, <4>2 DEF Tokens
      <4> QED BY <4>1, <4>2
    <3>5. Waits'
      <4>1. refresh'[t].pc # "idle" /\ \A s \in Tabs : s # t => refresh'[s] = refresh[s]
        BY <3>1, <3>2, AskingTypes
      <4>2. \A s \in Tabs : s # t => req'[s] = req[s]
        BY <3>1 DEF Types
      <4> QED BY <4>1, <4>2 DEF Waits
    <3> QED BY <3>3, <3>4, <3>5
  <2> QED BY <2>1, <2>2
<1>3. CASE UnauthorizedAgain(t, r)
  <2>1. /\ req' = [req EXCEPT ![t][r] = "idle"]
        /\ UNCHANGED <<refresh, leaving, faults, over>> /\ Rows(live)
    BY <1>3 DEF UnauthorizedAgain
  <2>2. /\ tab' \in [Tabs -> TabState] /\ stored' \in Pairs \cup {NoPair} /\ fresh' \in BOOLEAN
    BY <1>3 DEF UnauthorizedAgain, Types, TabState, Forget, storage
  <2>3. Types'
    BY <2>1, <2>2 DEF Types, RequestState, Rows
  <2> QED BY <2>1, <2>3 DEF Types, Tokens, Waits
<1> QED BY <1>1, <1>2, <1>3

\* A refresh that moves on.
LEMMA PcType ==
  ASSUME Types, NEW t \in Tabs, NEW pc \in RefreshPC, refresh' = [refresh EXCEPT ![t].pc = pc]
  PROVE  /\ refresh' \in [Tabs -> RefreshType]
         /\ refresh'[t].pc = pc /\ refresh'[t].token = refresh[t].token
         /\ refresh'[t].new = refresh[t].new
         /\ \A s \in Tabs : s # t => refresh'[s] = refresh[s]
<1> DEFINE k == [refresh[t] EXCEPT !.pc = pc]
<1>1. /\ k \in RefreshType /\ k.pc = pc /\ k.token = refresh[t].token /\ k.new = refresh[t].new
  BY DEF Types, RefreshType
<1>2. refresh' = [refresh EXCEPT ![t] = k]
  BY DEF Types
<1> HIDE DEF k
<1> QED BY <1>1, <1>2 DEF Types

LEMMA RefreshTypes ==
  ASSUME Types, Tokens, Waits, NEW t \in Tabs, RefreshStep(t)
  PROVE  Types' /\ Tokens' /\ Waits'
<1> USE IdleTypes
<1>1. CASE Lookup(t)
  <2>1. /\ refresh[t].pc = "lookup" /\ refresh' = [refresh EXCEPT ![t].pc = "create"]
        /\ UNCHANGED <<live, storage, tab, req, leaving, faults, over>>
    BY <1>1 DEF Lookup, At
  <2>2. Types'
    BY <2>1, PcType DEF Types, RefreshPC, storage
  <2> QED BY <2>1, <2>2, PcType DEF Types, Tokens, Waits, RefreshPC
<1>2. CASE Refuse(t)
  <2>1. /\ refresh[t].pc = "lookup" /\ refresh' = [refresh EXCEPT ![t].pc = "refused"]
        /\ UNCHANGED <<storage, tab, req, leaving>>
    BY <1>2 DEF Refuse, At
  <2>2. live' \subseteq Pairs /\ faults' \in 0..MaxFaults /\ over' \in BOOLEAN
    <3>1. CASE UNCHANGED <<live, faults, over>>
      BY <3>1 DEF Types
    <3>2. CASE live' = live \ {refresh[t].token} /\ over' = TRUE /\ UNCHANGED faults
      BY <3>2 DEF Types
    <3>3. CASE MayFail(t, "lookup") /\ faults' = faults + 1 /\ UNCHANGED <<live, over>>
      BY <3>3, SessionAssumption DEF MayFail, Types
    <3> QED BY <1>2, <3>1, <3>2, <3>3 DEF Refuse
  <2>3. Types'
    BY <2>1, <2>2, PcType DEF Types, RefreshPC, storage
  <2> QED BY <2>1, <2>3, PcType DEF Types, Tokens, Waits, RefreshPC
<1>3. CASE CreateSuccessor(t)
  <2>1. /\ refresh[t].pc = "create" /\ NewPair \in Pairs
        /\ refresh' = [refresh EXCEPT ![t] = [@ EXCEPT !.pc = "revoke", !.new = NewPair]]
        /\ live' = live \cup {NewPair}
        /\ UNCHANGED <<storage, tab, req, leaving, faults, over>>
    BY <1>3, NewPairIsNew DEF CreateSuccessor, At, Types, RefreshType
  <2>2. PICK p \in Pairs : p = NewPair
    BY <2>1
  <2> DEFINE k == [refresh[t] EXCEPT !.pc = "revoke", !.new = p]
  <2>3. k \in RefreshType /\ k.pc = "revoke" /\ k.new = p /\ k.token = refresh[t].token
    BY DEF Types, RefreshType, RefreshPC
  <2>4. refresh' = [refresh EXCEPT ![t] = k]
    BY <2>1, <2>2
  <2> HIDE DEF k
  <2>5. Types'
    BY <2>1, <2>2, <2>3, <2>4 DEF Types, storage
  <2> QED BY <2>1, <2>3, <2>4, <2>5 DEF Types, Tokens, Waits
<1>4. CASE RevokeOld(t)
  <2>1. /\ refresh[t].pc = "revoke" /\ refresh' = [refresh EXCEPT ![t].pc = "answer"]
        /\ live' \subseteq live
        /\ UNCHANGED <<storage, tab, req, leaving, faults, over>>
    BY <1>4 DEF RevokeOld, At
  <2>2. Types'
    BY <2>1, PcType DEF Types, RefreshPC, storage
  <2> QED BY <2>1, <2>2, PcType DEF Types, Tokens, Waits, RefreshPC
<1>5. CASE StorePair(t)
  <2> DEFINE q == [r \in Reqs |-> IF r \in Waiting(t) THEN "againFresh" ELSE req[t][r]]
  <2>1. /\ stored' = refresh[t].new /\ fresh' = TRUE /\ refresh[t].pc = "answer"
        /\ refresh' = [refresh EXCEPT ![t] = NoRefresh]
        /\ req' = [req EXCEPT ![t] = q]
        /\ UNCHANGED <<tab, leaving, faults, over>> /\ Rows(live)
    BY <1>5 DEF StorePair, At, Types
  <2>2. q \in [Reqs -> RequestState] /\ \A r \in Reqs : q[r] # "waiting"
    BY DEF Types, RequestState, Waiting
  <2> HIDE DEF q
  <2>3. Types'
    BY <2>1, <2>2 DEF Types, Tokens, Rows
  <2> QED BY <2>1, <2>2, <2>3 DEF Types, Tokens, Waits
<1>6. CASE Refused(t)
  <2>1. CASE refresh' = [refresh EXCEPT ![t] = Asking(stored, TRUE)] /\ stored # NoPair
             /\ UNCHANGED <<storage, req, tab, leaving>>
    <3>1. Rows(live) /\ UNCHANGED <<faults, over>> /\ stored \in Pairs
      BY <1>6, <2>1 DEF Refused, Types
    <3>2. /\ refresh' \in [Tabs -> RefreshType] /\ Tokens' /\ refresh'[t].pc = "lookup"
          /\ \A s \in Tabs : s # t => refresh'[s] = refresh[s]
      BY <2>1, <3>1, AskingTypes
    <3>3. Types'
      BY <2>1, <3>1, <3>2 DEF Types, Rows, storage
    <3>4. Waits'
      BY <2>1, <3>2 DEF Waits
    <3> QED BY <3>2, <3>3, <3>4
  <2>2. CASE AuthFailure(t, Waiting(t))
    <3>1. live' \subseteq Pairs /\ over' \in BOOLEAN /\ faults' = faults /\ Waiting(t) \in SUBSET Reqs
      BY <1>6 DEF Refused, Rows, Types, Waiting
    <3> QED BY <2>2, <3>1, AuthFailureTypes
  <2> QED BY <1>6, <2>1, <2>2 DEF Refused
<1>7. CASE RefreshFails(t)
  <2> DEFINE q == [r \in Reqs |-> IF r \in Waiting(t) THEN "idle" ELSE req[t][r]]
  <2>1. /\ refresh' = [refresh EXCEPT ![t] = NoRefresh]
        /\ req' = [req EXCEPT ![t] = q]
        /\ UNCHANGED <<leaving, over>> /\ Rows(live)
    BY <1>7 DEF RefreshFails, Types
  <2>2. q \in [Reqs -> RequestState] /\ \A r \in Reqs : q[r] # "waiting"
    BY DEF Types, RequestState, Waiting
  <2>3. /\ stored' \in Pairs \cup {NoPair} /\ fresh' \in BOOLEAN /\ tab' \in [Tabs -> TabState]
    BY <1>7 DEF RefreshFails, Forget, storage, Types, TabState
  <2>4. faults' \in 0..MaxFaults
    BY <1>7, SessionAssumption DEF RefreshFails, MayFail, Types
  <2> HIDE DEF q
  <2>5. Types'
    BY <2>1, <2>2, <2>3, <2>4 DEF Types, Rows
  <2> QED BY <2>1, <2>2, <2>5 DEF Types, Tokens, Waits
<1> QED BY <1>1, <1>2, <1>3, <1>4, <1>5, <1>6, <1>7 DEF RefreshStep

LEMMA NextTypes == Types /\ Tokens /\ Waits /\ [Next]_vars => Types' /\ Tokens' /\ Waits'
<1> SUFFICES ASSUME Types, Tokens, Waits, [Next]_vars PROVE Types' /\ Tokens' /\ Waits'
  OBVIOUS
<1> USE IdleTypes
<1>1. ASSUME NEW t \in Tabs, NEW r \in Reqs, Send(t, r) PROVE Types' /\ Tokens' /\ Waits'
  <2>1. Types'
    BY <1>1 DEF Send, Sent, Types, RequestState, storage
  <2> QED BY <1>1, <2>1 DEF Send, Sent, Types, Tokens, Waits
<1>2. ASSUME NEW t \in Tabs, RefreshUser(t) PROVE Types' /\ Tokens' /\ Waits'
  <2>1. Me \in Reqs /\ Sent \in RequestState /\ Sent # "waiting" /\ "out" \in TabState
    BY SessionAssumption DEF Sent, RequestState, TabState
  <2>2. tab' \in [Tabs -> TabState] /\ req' \in [Tabs -> [Reqs -> RequestState]]
    <3>1. CASE stored = NoPair
      BY <1>2, <2>1, <3>1 DEF RefreshUser, Types
    <3>2. CASE stored # NoPair
      <4>1. req' = [req EXCEPT ![t] = [@ EXCEPT ![Me] = Sent]] /\ tab' = tab
        BY <1>2, <3>2 DEF RefreshUser
      <4>2. [req[t] EXCEPT ![Me] = Sent] \in [Reqs -> RequestState]
        BY <2>1 DEF Types
      <4> QED BY <4>1, <4>2 DEF Types
    <3> QED BY <3>1, <3>2
  <2>3. Types'
    BY <1>2, <2>2 DEF RefreshUser, Types, storage
  <2> QED BY <1>2, <2>1, <2>3 DEF RefreshUser, Types, Tokens, Waits
<1>3. ASSUME NEW t \in Tabs, Login(t) PROVE Types' /\ Tokens' /\ Waits'
  <2>1. over' \in BOOLEAN
    BY <1>3, Zenon DEF Login
  <2>2. Types'
    BY <1>3, <2>1, NewPairIsNew DEF Login, Types, TabState, Rows
  <2> QED BY <1>3, <2>2 DEF Login, Types, Tokens, Waits
<1>4. ASSUME NEW t \in Tabs, StartLogout(t) PROVE Types' /\ Tokens' /\ Waits'
  <2>1. Types'
    BY <1>4 DEF StartLogout, Types, LeavingType, storage
  <2> QED BY <1>4, <2>1 DEF StartLogout, Types, Tokens, Waits
<1>5. ASSUME NEW t \in Tabs, RevokeOnLogout(t) PROVE Types' /\ Tokens' /\ Waits'
  <2>1. Types'
    BY <1>5 DEF RevokeOnLogout, Types, LeavingType, storage
  <2> QED BY <1>5, <2>1 DEF RevokeOnLogout, Types, Tokens, Waits
<1>6. ASSUME NEW t \in Tabs, FinishLogout(t) PROVE Types' /\ Tokens' /\ Waits'
  <2>1. Types'
    BY <1>6 DEF FinishLogout, Forget, Types, TabState, Rows
  <2> QED BY <1>6, <2>1 DEF FinishLogout, Types, Tokens, Waits
<1>7. ASSUME NEW t \in Tabs, Reload(t) PROVE Types' /\ Tokens' /\ Waits'
  <2>1. /\ req' = [req EXCEPT ![t] = LoadedRequests]
        /\ UNCHANGED <<live, storage, refresh, leaving, faults, over>>
    BY <1>7 DEF Reload
  <2>2. tab' \in [Tabs -> TabState]
    BY <1>7, LoadedTypes DEF Reload, Types
  <2>3. Types'
    BY <2>1, <2>2, LoadedTypes DEF Types, storage
  <2> QED BY <2>1, <2>3, LoadedTypes DEF Types, Tokens, Waits
<1>8. ASSUME ExpireAccess \/ ExpireRefresh \/ RevokeAll PROVE Types' /\ Tokens' /\ Waits'
  <2>1. UNCHANGED <<stored, tab, req, refresh, leaving, faults>>
    BY <1>8 DEF ExpireAccess, ExpireRefresh, RevokeAll, storage
  <2>2. /\ live' \subseteq live
        /\ fresh' = FALSE \/ fresh' = fresh
        /\ over' = TRUE \/ over' = over
    BY <1>8 DEF ExpireAccess, ExpireRefresh, RevokeAll, storage
  <2>3. Types'
    BY <2>1, <2>2 DEF Types
  <2> QED BY <2>1, <2>3 DEF Tokens, Waits
<1>9. ASSUME UNCHANGED vars PROVE Types' /\ Tokens' /\ Waits'
  BY <1>9 DEF vars, storage, Types, Tokens, Waits
<1> QED
  BY <1>1, <1>2, <1>3, <1>4, <1>5, <1>6, <1>7, <1>8, <1>9, RequestTypes, RefreshTypes
     DEF Next, RequestStep

\* The session keeps its types, for any number of tabs, and with any faults: a
\* refresh under way always has a token to hand in, and a request never waits
\* without one.
THEOREM TypeCorrect == Spec => []TypeOK
  BY InitTypes, NextTypes, TypeOKParts, PTL DEF Spec

-----------------------------------------------------------------------------
(* One tab, and the faults that doRefresh survives: the session goes on. *)

OneTab == \E t : Tabs = {t}

\* No answer of the server is lost, no failed lookup is taken for an unknown
\* token, and GET /api/me waits for no refresh that fails.
Reliable == FaultKinds \subseteq {"unreachable", "create"} /\ ~MeFaults

\* A request sent again carries the pair that has just been stored.
AgainFresh == \A t \in Tabs, r \in Reqs : req[t][r] # "againStale"

\* The refresh of a session that goes on hands in the stored token, which is
\* live until it has a live successor; no logout is about to revoke either.
KeptBy(t) ==
  /\ refresh[t].pc # "refused"
  /\ refresh[t].pc # "idle" => refresh[t].token = stored
  /\ refresh[t].pc \in {"idle", "lookup", "create"} => stored \in live
  /\ refresh[t].pc \in {"revoke", "answer"} =>
       refresh[t].new \in live /\ refresh[t].new # stored
  /\ leaving[t].pc = "sent" =>
       /\ leaving[t].token # stored
       /\ refresh[t].pc \in {"revoke", "answer"} => leaving[t].token # refresh[t].new

Kept == ~over => stored # NoPair /\ \A t \in Tabs : KeptBy(t)

KInv == Types /\ Tokens /\ Waits /\ AgainFresh /\ Kept

LEMMA InitKept == Init => AgainFresh /\ Kept
<1> SUFFICES ASSUME Init PROVE AgainFresh /\ Kept
  OBVIOUS
<1>1. AgainFresh
  BY InitTypes, LoadedTypes DEF Init, AgainFresh
<1>2. ASSUME ~over PROVE stored # NoPair /\ stored \in live
  BY <1>2 DEF Init
<1>3. \A t \in Tabs : refresh[t].pc = "idle" /\ leaving[t].pc = "no"
  BY IdleTypes DEF Init
<1>4. Kept
  BY <1>2, <1>3 DEF Kept, KeptBy
<1> QED BY <1>1, <1>4

\* No step sends a request again with an expired token.
LEMMA NextAgain == Types /\ AgainFresh /\ [Next]_vars => AgainFresh'
<1> SUFFICES ASSUME Types, AgainFresh, [Next]_vars PROVE AgainFresh'
  OBVIOUS
<1>1. ASSUME NEW t \in Tabs, NEW ended \in SUBSET Reqs, AuthFailure(t, ended) PROVE AgainFresh'
  BY <1>1 DEF AuthFailure, AgainFresh, Types
<1>2. ASSUME NEW t \in Tabs, RefreshStep(t) PROVE AgainFresh'
  <2>1. CASE Refused(t) /\ ~UNCHANGED req
    <3>1. AuthFailure(t, Waiting(t)) /\ Waiting(t) \in SUBSET Reqs
      BY <2>1 DEF Refused, Waiting
    <3> QED BY <3>1, <1>1
  <2>2. CASE StorePair(t) \/ RefreshFails(t)
    BY <2>2 DEF StorePair, RefreshFails, AgainFresh, Types
  <2>3. CASE UNCHANGED req
    BY <2>3 DEF AgainFresh
  <2> QED BY <1>2, <2>1, <2>2, <2>3
          DEF RefreshStep, Lookup, Refuse, CreateSuccessor, RevokeOld
<1>3. ASSUME NEW t \in Tabs, NEW r \in Reqs, Send(t, r) \/ RequestStep(t, r) PROVE AgainFresh'
  <2>1. CASE Unauthorized(t, r) /\ AuthFailure(t, {r})
    BY <2>1, <1>1
  <2>2. CASE Unauthorized(t, r) /\ req' = [req EXCEPT ![t][r] = "waiting"]
    BY <2>2 DEF AgainFresh, Types
  <2>3. CASE Send(t, r) \/ Succeed(t, r) \/ Fail(t, r) \/ UnauthorizedAgain(t, r)
    BY <2>3 DEF Send, Sent, Succeed, Fail, UnauthorizedAgain, AgainFresh, Types
  <2> QED BY <1>3, <2>1, <2>2, <2>3 DEF RequestStep, Unauthorized
<1>4. ASSUME NEW t \in Tabs, RefreshUser(t) PROVE AgainFresh'
  BY <1>4 DEF RefreshUser, Sent, AgainFresh, Types
<1>5. ASSUME NEW t \in Tabs, Reload(t) PROVE AgainFresh'
  BY <1>5, LoadedTypes DEF Reload, AgainFresh, Types
<1>6. CASE UNCHANGED req
  BY <1>6 DEF AgainFresh
<1>7. ASSUME NEW t \in Tabs, Login(t) \/ StartLogout(t) \/ RevokeOnLogout(t) \/ FinishLogout(t)
      PROVE  UNCHANGED req
  BY <1>7 DEF Login, StartLogout, RevokeOnLogout, FinishLogout
<1>8. ASSUME ExpireAccess \/ ExpireRefresh \/ RevokeAll \/ UNCHANGED vars PROVE UNCHANGED req
  BY <1>8 DEF ExpireAccess, ExpireRefresh, RevokeAll, vars
<1> QED BY <1>2, <1>3, <1>4, <1>5, <1>6, <1>7, <1>8 DEF Next

\* A row stays while somebody holds its token.
LEMMA HeldRowStays ==
  ASSUME NEW rows, Rows(rows), NEW p \in rows, NEW t \in Tabs,
         p \in {stored', refresh'[t].token, refresh'[t].new}
  PROVE  p \in live'
  BY DEF Rows, InUse

\* The steps of a refresh, in the only tab.
LEMMA RefreshKept ==
  ASSUME Types, Tokens, Kept, OneTab, Reliable, NEW t \in Tabs, RefreshStep(t)
  PROVE  Kept'
<1> SUFFICES ASSUME ~over' PROVE stored' # NoPair /\ KeptBy(t)'
  BY DEF Kept, OneTab
<1> USE IdleTypes
<1>0. ASSUME ~over PROVE KeptBy(t) /\ stored # NoPair /\ stored \in Pairs
  BY <1>0 DEF Kept, Types
<1>1. CASE Lookup(t)
  <2>1. /\ refresh[t].pc = "lookup" /\ refresh' = [refresh EXCEPT ![t].pc = "create"]
        /\ UNCHANGED <<live, stored, leaving, over>>
    BY <1>1 DEF Lookup, At, storage
  <2> QED BY <2>1, <1>0, PcType DEF KeptBy, RefreshPC
<1>2. CASE Refuse(t)
  <2>1. /\ refresh[t].pc = "lookup" /\ UNCHANGED over /\ refresh[t].token \notin live
    BY <1>2 DEF Refuse, At, MayFail, Reliable
  <2> QED BY <2>1, <1>0 DEF KeptBy
<1>3. CASE CreateSuccessor(t)
  <2>1. /\ refresh[t].pc = "create" /\ CanIssue
        /\ refresh' = [refresh EXCEPT ![t] = [@ EXCEPT !.pc = "revoke", !.new = NewPair]]
        /\ live' = live \cup {NewPair}
        /\ UNCHANGED <<stored, leaving, over>>
    BY <1>3 DEF CreateSuccessor, At, storage, Types, RefreshType
  <2>2. PICK p \in Pairs : p = NewPair /\ p # stored /\ p # leaving[t].token
    BY <2>1, NewPairIsNew
  <2> DEFINE k == [refresh[t] EXCEPT !.pc = "revoke", !.new = p]
  <2>3. k.pc = "revoke" /\ k.new = p /\ k.token = refresh[t].token
    BY DEF Types, RefreshType, RefreshPC
  <2>4. refresh'[t] = k
    BY <2>1, <2>2 DEF Types
  <2> HIDE DEF k
  <2> QED BY <2>1, <2>2, <2>3, <2>4, <1>0 DEF KeptBy
<1>4. CASE RevokeOld(t)
  <2>1. /\ refresh[t].pc = "revoke" /\ refresh' = [refresh EXCEPT ![t].pc = "answer"]
        /\ live \ {refresh[t].token} \subseteq live'
        /\ UNCHANGED <<stored, leaving, over>>
    BY <1>4 DEF RevokeOld, At, storage
  <2> QED BY <2>1, <1>0, PcType DEF KeptBy, RefreshPC
<1>5. CASE StorePair(t)
  <2>1. /\ stored' = refresh[t].new /\ refresh[t].pc = "answer" /\ refresh'[t] = NoRefresh
        /\ UNCHANGED <<leaving, over>> /\ Rows(live)
    BY <1>5 DEF StorePair, At, Types
  <2>2. refresh[t].new \in live /\ stored' # NoPair
    BY <2>1, <1>0 DEF KeptBy, Types
  <2>3. stored' \in live'
    BY <2>1, <2>2, HeldRowStays
  <2> QED BY <2>1, <2>2, <2>3, <1>0 DEF KeptBy
<1>6. CASE Refused(t)
  BY <1>6, <1>0 DEF Refused, At, KeptBy
<1>7. CASE RefreshFails(t)
  <2>1. /\ refresh[t].pc \in {"lookup", "create"} /\ refresh'[t] = NoRefresh
        /\ Me \notin Waiting(t)
        /\ UNCHANGED <<stored, leaving, over>> /\ Rows(live)
    BY <1>7 DEF RefreshFails, MayFail, Reliable, At, Types, storage
  <2>2. stored' \in live'
    BY <2>1, <1>0, HeldRowStays DEF KeptBy
  <2> QED BY <2>1, <2>2, <1>0 DEF KeptBy
<1> QED BY <1>1, <1>2, <1>3, <1>4, <1>5, <1>6, <1>7 DEF RefreshStep

\* The steps of a request: only one with a first 401 touches the refresh, and
\* none forgets a session that goes on.
LEMMA RequestKept ==
  ASSUME Types, Tokens, AgainFresh, Kept, OneTab, NEW t \in Tabs, NEW r \in Reqs,
         RequestStep(t, r)
  PROVE  Kept'
<1> SUFFICES ASSUME ~over' PROVE stored' # NoPair /\ KeptBy(t)'
  BY DEF Kept, OneTab
<1> USE IdleTypes
<1>1. ~over /\ KeptBy(t) /\ stored # NoPair /\ stored \in Pairs
  <2>1. ~over
    BY DEF RequestStep, Succeed, Fail, Unauthorized, UnauthorizedAgain
  <2> QED BY <2>1 DEF Kept, Types
<1>2. CASE UNCHANGED <<live, stored, refresh, leaving>>
  BY <1>1, <1>2 DEF KeptBy
<1>3. CASE Unauthorized(t, r)
  <2>1. UNCHANGED <<live, stored, leaving>>
    BY <1>1, <1>3 DEF Unauthorized, storage
  <2>2. CASE refresh[t].pc = "idle"
    <3>1. refresh' = [refresh EXCEPT ![t] = Asking(stored, FALSE)]
      BY <1>1, <1>3, <2>2 DEF Unauthorized
    <3>2. refresh'[t].pc = "lookup" /\ refresh'[t].token = stored
      BY <3>1, <1>1, AskingTypes
    <3> QED BY <1>1, <2>1, <2>2, <3>2 DEF KeptBy
  <2>3. CASE refresh[t].pc # "idle"
    BY <1>1, <1>2, <1>3, <2>1, <2>3 DEF Unauthorized
  <2> QED BY <2>2, <2>3
<1>4. CASE UnauthorizedAgain(t, r)
  <2>1. /\ UNCHANGED <<stored, refresh, leaving>> /\ Rows(live)
    BY <1>4 DEF UnauthorizedAgain, AgainFresh, storage
  <2>2. \A p \in live : p \in {stored, refresh[t].new} => p \in live'
    BY <2>1, HeldRowStays
  <2> QED BY <1>1, <2>1, <2>2 DEF KeptBy
<1>5. CASE Succeed(t, r) \/ Fail(t, r)
  BY <1>5, <1>2 DEF Succeed, Fail, storage
<1> QED BY <1>3, <1>4, <1>5 DEF RequestStep

LEMMA NextKept ==
  ASSUME OneTab, Reliable
  PROVE  KInv /\ [Next]_vars => KInv'
<1> SUFFICES ASSUME KInv, [Next]_vars PROVE KInv'
  OBVIOUS
<1> USE DEF KInv
<1>1. Types' /\ Tokens' /\ Waits' /\ AgainFresh'
  BY NextTypes, NextAgain
<1>2. ASSUME UNCHANGED <<live, stored, refresh, leaving, over>> PROVE Kept'
  BY <1>2 DEF Kept, KeptBy
<1>3. ASSUME NEW t \in Tabs, RefreshStep(t) PROVE Kept'
  BY <1>3, RefreshKept
<1>4. ASSUME NEW t \in Tabs, NEW r \in Reqs, RequestStep(t, r) PROVE Kept'
  BY <1>4, RequestKept
<1>5. ASSUME NEW t \in Tabs, RefreshUser(t) \/ Reload(t) \/ \E r \in Reqs : Send(t, r)
      PROVE  Kept'
  BY <1>5, <1>2 DEF RefreshUser, Reload, Send, storage
<1>6. ASSUME NEW t \in Tabs, Login(t) PROVE Kept'
  <2> SUFFICES ASSUME ~over' PROVE stored' # NoPair /\ KeptBy(t)'
    BY DEF Kept, OneTab
  <2>1. /\ refresh[t].pc = "idle" /\ CanIssue /\ stored' = NewPair
        /\ UNCHANGED <<refresh, leaving>> /\ Rows(live \cup {NewPair})
    BY <1>6 DEF Login
  <2>2. NewPair \in Pairs /\ NewPair # leaving[t].token
    BY <2>1, NewPairIsNew
  <2>3. stored' \in live'
    BY <2>1, HeldRowStays
  <2> QED BY <2>1, <2>2, <2>3, IdleTypes DEF KeptBy
<1>7. ASSUME NEW t \in Tabs, RevokeOnLogout(t) PROVE Kept'
  <2> SUFFICES ASSUME ~over' PROVE stored' # NoPair /\ KeptBy(t)'
    BY DEF Kept, OneTab
  <2>1. /\ leaving[t].pc = "sent" /\ live' = live \ {leaving[t].token} /\ ~over
        /\ leaving'[t].pc = "served" /\ UNCHANGED <<stored, refresh>>
    BY <1>7 DEF RevokeOnLogout, storage, Types, LeavingType
  <2> QED BY <2>1 DEF Kept, KeptBy
<1>8. ASSUME NEW t \in Tabs, StartLogout(t) \/ FinishLogout(t) PROVE Kept'
  BY <1>8 DEF StartLogout, FinishLogout, Kept
<1>9. ASSUME ExpireAccess \/ ExpireRefresh \/ RevokeAll \/ UNCHANGED vars PROVE Kept'
  BY <1>9, <1>2 DEF ExpireAccess, ExpireRefresh, RevokeAll, vars, storage, Kept
<1> QED BY <1>1, <1>3, <1>4, <1>5, <1>6, <1>7, <1>8, <1>9 DEF Next

\* In one tab, a session nobody has ended goes on for any number of requests,
\* refreshes and logins, through refreshes that do not reach the server or
\* fail in it: the browser holds a live refresh token or the answer with one
\* is on its way.
THEOREM SessionGoesOn ==
  ASSUME OneTab, Reliable
  PROVE  Spec => []SessionKept
<1>1. Init => KInv
  BY InitTypes, InitKept DEF KInv
<1>2. KInv /\ [Next]_vars => KInv'
  BY NextKept
<1>3. KInv => SessionKept
  <2> SUFFICES ASSUME KInv, ~over PROVE stored \in live \/ \E t \in Tabs : Arriving(t)
    BY DEF SessionKept, KInv, Kept
  <2>1. PICK t \in Tabs : KeptBy(t)
    BY DEF KInv, Kept, OneTab
  <2>2. refresh[t].pc \in RefreshPC
    BY DEF KInv, Types, RefreshType
  <2> QED BY <2>1, <2>2 DEF KeptBy, Arriving, RefreshPC
<1> QED BY <1>1, <1>2, <1>3, PTL DEF Spec
=============================================================================
