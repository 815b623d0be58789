------------------------- MODULE RegistrationProofs -------------------------
(***************************************************************************)
(* Proofs about Registration: types, and that an invite code lets one      *)
(* account in and nobody else, for any number of visitors and of requests  *)
(* at the same time, with crashes and broken connections at any point.     *)
(***************************************************************************)
EXTENDS Registration, TLAPS

HandlerPC ==
  {"begin", "create", "readback", "use", "rollback", "tokens", "created", "refused"}
WithAccount == {"readback", "use", "rollback", "tokens", "created"}

Handlers ==
  [n : Nat, visitor : Visitors, name : Names, given : BOOLEAN, account : Nat,
   pc : HandlerPC, cut : BOOLEAN]

Types ==
  /\ mode \in Modes
  /\ lastId \in Nat /\ submits \in Nat /\ breaks \in Nat
  /\ code \in Expired..lastId
  /\ accounts \subseteq [id : 1..lastId, name : Names]
  /\ form \in [Visitors -> [mode : Modes, probing : BOOLEAN, submitting : BOOLEAN, inside : BOOLEAN]]
  /\ handler \subseteq Handlers
  /\ admitted \subseteq 1..lastId /\ orphans \subseteq 1..lastId

\* A row is known by its id, and by its name.
Keys == \A a, b \in accounts : a.id = b.id \/ a.name = b.name => a = b

\* A handler has an account once it has created one, and the account is its own.
Owns ==
  /\ \A h \in handler : h.pc \in {"begin", "create"} => h.account = 0
  /\ \A h \in handler : h.pc \in WithAccount => h.account \in 1..lastId
  /\ \A h \in handler : h.account \in 0..lastId
  /\ \A g, h \in handler : g.account = h.account /\ g.account # 0 => g = h

\* Past the statement that spends it, the code is spent for the handler's account.
Spent == mode = "invite" => \A h \in handler : h.pc \in {"tokens", "created"} => code = h.account

IInv == Types /\ Keys /\ Owns /\ Spent /\ CodeAdmitsOne /\ NoStrangers /\ SpinnersStop

-----------------------------------------------------------------------------
\* Initially there is no account and no handler.
LEMMA InitIInv == Init => IInv
  BY DEF Init, IInv, Types, Keys, Owns, Spent, CodeAdmitsOne, NoStrangers, SpinnersStop, Modes, Expired

\* A handler that only moves on, to a state for which what it owns holds.
LEMMA Moved ==
  ASSUME Types, Owns, NEW h \in handler, NEW pc \in HandlerPC, To(h, pc)
  PROVE  /\ [h EXCEPT !.pc = pc] \in Handlers
         /\ [h EXCEPT !.pc = pc] \in handler'
         /\ handler' \subseteq Handlers
         /\ \A g \in handler' : g \in handler \ {h} \/ g = [h EXCEPT !.pc = pc]
         /\ [h EXCEPT !.pc = pc].account = h.account
         /\ [h EXCEPT !.pc = pc].pc = pc
         /\ [h EXCEPT !.pc = pc].cut = h.cut
         /\ [h EXCEPT !.pc = pc].visitor = h.visitor
  BY DEF Types, To, Handlers

\* What the statements of a handler leave as it is when it only moves on.
LEMMA MovedKeeps ==
  ASSUME Types, Owns, SpinnersStop, NEW h \in handler, NEW pc \in HandlerPC, To(h, pc),
         h.pc \in {"begin", "create"} => pc \notin WithAccount,
         h.pc \notin {"begin", "create"} => pc \notin {"begin", "create"},
         pc \in WithAccount => h.pc \in WithAccount,
         lastId' = lastId, form' = form
  PROVE  Owns' /\ SpinnersStop'
<1> DEFINE k == [h EXCEPT !.pc = pc]
<1>1. /\ k \in handler' /\ k.account = h.account /\ k.pc = pc /\ k.cut = h.cut
      /\ k.visitor = h.visitor
      /\ \A g \in handler' : g \in handler \ {h} \/ g = k
      /\ handler \ {h} \subseteq handler'
  BY Moved DEF To
<1>2. Owns'
  <2> HIDE DEF k
  <2>1. \A g \in handler' : g.pc \in {"begin", "create"} => g.account = 0
    BY <1>1 DEF Owns, HandlerPC
  <2>2. \A g \in handler' : g.pc \in WithAccount => g.account \in 1..lastId'
    BY <1>1 DEF Owns
  <2>3. \A g, i \in handler' : g.account = i.account /\ g.account # 0 => g = i
    BY <1>1 DEF Owns
  <2>4. \A g \in handler' : g.account \in 0..lastId'
    BY <1>1 DEF Owns
  <2> QED BY <2>1, <2>2, <2>3, <2>4 DEF Owns
<1>3. SpinnersStop'
  <2> HIDE DEF k
  <2> SUFFICES ASSUME NEW v \in Visitors, form[v].submitting
              PROVE  \E g \in handler' : g.visitor = v /\ ~g.cut
    BY DEF SpinnersStop
  <2>1. PICK g \in handler : g.visitor = v /\ ~g.cut
    BY DEF SpinnersStop
  <2>2. CASE g = h
    BY <1>1, <2>1, <2>2
  <2>3. CASE g # h
    BY <1>1, <2>1, <2>3
  <2> QED BY <2>2, <2>3
<1> QED BY <1>2, <1>3

LEMMA MovedStrangers ==
  ASSUME Types, NoStrangers, NEW h \in handler, NEW pc \in HandlerPC, To(h, pc),
         mode' = mode, code' = code, accounts' \subseteq accounts, orphans \subseteq orphans',
         pc = "refused" =>
           \A a \in accounts' : a.id = h.account => (mode = "invite" => a.id = code \/ a.id \in orphans')
  PROVE  NoStrangers'
<1> DEFINE k == [h EXCEPT !.pc = pc]
<1>1. k \in handler' /\ k.account = h.account /\ k.pc = pc /\ handler \ {h} \subseteq handler'
  BY Moved DEF To, Types, Handlers
<1> HIDE DEF k
<1> SUFFICES ASSUME mode = "invite", NEW a \in accounts', a.id # code, a.id \notin orphans'
            PROVE  \E g \in handler' : g.account = a.id /\ g.pc # "refused"
  BY DEF NoStrangers
<1>2. PICK g \in handler : g.account = a.id /\ g.pc # "refused"
  BY DEF NoStrangers
<1>3. CASE g = h
  BY <1>1, <1>2, <1>3
<1>4. CASE g # h
  BY <1>1, <1>2, <1>4
<1> QED BY <1>3, <1>4

-----------------------------------------------------------------------------
(* One lemma per action, for those that change more than a form. *)

LEMMA SubmitStep ==
  ASSUME IInv, NEW v \in Visitors, NEW name \in Names, NEW given \in BOOLEAN,
         HandleSubmit(v, name, given)
  PROVE  IInv'
<1> DEFINE k == [n |-> submits + 1, visitor |-> v, name |-> name, given |-> given,
                 account |-> 0, pc |-> "begin", cut |-> FALSE]
<1>1. /\ handler' = handler \cup {k} /\ k \in Handlers
      /\ k.account = 0 /\ k.pc = "begin" /\ k.visitor = v /\ ~k.cut
      /\ UNCHANGED <<mode, code, accounts, lastId, admitted, orphans>>
  BY DEF HandleSubmit, IInv, Types, Handlers, HandlerPC
<1> HIDE DEF k
<1>2. Types'
  <2>1. form' \in [Visitors -> [mode : Modes, probing : BOOLEAN, submitting : BOOLEAN, inside : BOOLEAN]]
    BY DEF HandleSubmit, IInv, Types
  <2>2. submits' \in Nat /\ breaks' = breaks
    BY DEF HandleSubmit, IInv, Types
  <2> QED BY <1>1, <2>1, <2>2 DEF IInv, Types
<1>3. SpinnersStop'
  <2>1. \A w \in Visitors : w # v => form'[w] = form[w]
    BY DEF HandleSubmit, IInv, Types
  <2>2. \A g \in handler : g \in handler'
    BY <1>1
  <2> SUFFICES ASSUME NEW w \in Visitors, form'[w].submitting
              PROVE  \E g \in handler' : g.visitor = w /\ ~g.cut
    BY DEF SpinnersStop
  <2>3. CASE w = v
    BY <1>1, <2>3
  <2>4. CASE w # v
    <3>1. PICK g \in handler : g.visitor = w /\ ~g.cut
      BY <2>1, <2>4 DEF IInv, SpinnersStop
    <3> QED BY <2>2, <3>1
  <2> QED BY <2>3, <2>4
<1>4. Keys' /\ CodeAdmitsOne'
  BY <1>1 DEF IInv, Keys, CodeAdmitsOne
<1>5. Owns' /\ Spent'
  BY <1>1 DEF IInv, Types, Owns, Spent, WithAccount
<1>6. NoStrangers'
  BY <1>1 DEF IInv, NoStrangers
<1> QED BY <1>2, <1>3, <1>4, <1>5, <1>6 DEF IInv

LEMMA CheckModeStep ==
  ASSUME IInv, NEW h \in handler, CheckMode(h)
  PROVE  IInv'
<1>1. PICK pc \in {"create", "refused"} : To(h, pc)
  BY DEF CheckMode, Refuse
<1>2. /\ h.pc = "begin" /\ pc \in HandlerPC /\ breaks' \in Nat
      /\ UNCHANGED <<mode, code, accounts, lastId, form, submits, admitted, orphans>>
  BY DEF CheckMode, Succeeds, Breaks, HandlerPC, IInv, Types
<1>3. Types' /\ Keys' /\ CodeAdmitsOne'
  BY <1>1, <1>2, Moved DEF IInv, Types, Keys, CodeAdmitsOne
<1>4. Owns' /\ SpinnersStop'
  BY <1>1, <1>2, MovedKeeps DEF IInv, WithAccount
<1>5. Spent'
  BY <1>1, <1>2, Moved DEF IInv, Spent
<1>6. NoStrangers'
  <2>1. h.account = 0 /\ \A a \in accounts : a.id # 0
    BY <1>2 DEF IInv, Owns, Types
  <2> QED BY <1>1, <1>2, <2>1, MovedStrangers DEF IInv
<1> QED BY <1>3, <1>4, <1>5, <1>6 DEF IInv

LEMMA CreateUserStep ==
  ASSUME IInv, NEW h \in handler, CreateUser(h)
  PROVE  IInv'
<1>0. h.pc = "create" /\ h.account = 0 /\ \A a \in accounts : a.id # 0
  BY DEF CreateUser, IInv, Owns, Types
<1> DEFINE a == [id |-> lastId + 1, name |-> h.name]
<1>1. CASE Refuse(h) /\ UNCHANGED <<accounts, lastId, orphans>>
  <2>1. /\ To(h, "refused") /\ "refused" \in HandlerPC /\ breaks' \in Nat
        /\ UNCHANGED <<mode, code, accounts, lastId, form, submits, admitted, orphans>>
    BY <1>1 DEF CreateUser, Refuse, Succeeds, Breaks, HandlerPC, IInv, Types
  <2>2. Types' /\ Keys' /\ CodeAdmitsOne'
    BY <2>1, Moved DEF IInv, Types, Keys, CodeAdmitsOne
  <2>3. Owns' /\ SpinnersStop'
    BY <1>0, <2>1, MovedKeeps DEF IInv, WithAccount
  <2>4. Spent'
    BY <2>1, Moved DEF IInv, Spent
  <2>5. NoStrangers'
    BY <1>0, <2>1, MovedStrangers DEF IInv
  <2> QED BY <2>2, <2>3, <2>4, <2>5 DEF IInv
<1>2. CASE /\ \A b \in accounts : b.name # h.name
           /\ lastId' = lastId + 1 /\ accounts' = accounts \cup {a}
           /\ \/ /\ Succeeds(h) /\ UNCHANGED orphans
                 /\ \E pc \in {AfterCreate, "readback"} :
                      handler' = (handler \ {h}) \cup
                                   {[h EXCEPT !.account = lastId + 1, !.pc = pc]}
              \/ /\ Breaks(h) /\ Refuse(h)
                 /\ orphans' = orphans \cup {lastId + 1}
  <2>1. PICK account \in {0, lastId + 1}, pc \in {"use", "tokens", "readback", "refused"} :
          /\ handler' = (handler \ {h}) \cup {[h EXCEPT !.account = account, !.pc = pc]}
          /\ pc = "refused" => account = 0 /\ orphans' = orphans \cup {lastId + 1}
          /\ pc # "refused" => account = lastId + 1 /\ orphans' = orphans
          /\ mode = "invite" => pc # "tokens"
    <3>1. CASE Breaks(h) /\ Refuse(h) /\ orphans' = orphans \cup {lastId + 1}
      <4>1. [h EXCEPT !.pc = "refused"] = [h EXCEPT !.account = 0, !.pc = "refused"]
        BY <1>0 DEF IInv, Types, Handlers
      <4> QED BY <3>1, <4>1 DEF Refuse, To
    <3>2. CASE /\ Succeeds(h) /\ UNCHANGED orphans
               /\ \E pc \in {AfterCreate, "readback"} :
                    handler' = (handler \ {h}) \cup
                                 {[h EXCEPT !.account = lastId + 1, !.pc = pc]}
      BY <3>2 DEF AfterCreate
    <3> QED BY <1>2, <3>1, <3>2
  <2> DEFINE k == [h EXCEPT !.account = account, !.pc = pc]
  <2>2. breaks' \in Nat /\ UNCHANGED <<mode, code, form, submits, admitted>>
    BY DEF CreateUser, Succeeds, Breaks, IInv, Types
  <2>3. /\ k \in Handlers /\ k.account = account /\ k.visitor = h.visitor /\ k.cut = h.cut
        /\ k.pc = pc
        /\ a.id = lastId + 1 /\ a.name = h.name /\ a \in [id : 1..lastId', name : Names]
        /\ lastId \in Nat
    <3>1. h \in Handlers /\ lastId \in Nat /\ lastId + 1 \in Nat /\ lastId + 1 \in 1..(lastId + 1)
      BY DEF IInv, Types
    <3>2. account \in Nat /\ pc \in HandlerPC
      BY <3>1 DEF HandlerPC
    <3>4. /\ k \in Handlers /\ k.account = account /\ k.visitor = h.visitor /\ k.cut = h.cut
          /\ k.pc = pc
      BY <3>1, <3>2 DEF Handlers
    <3>3. a \in [id : 1..lastId', name : Names] /\ a.id = lastId + 1 /\ a.name = h.name
      BY <1>2, <3>1 DEF Handlers
    <3> QED BY <3>1, <3>3, <3>4
  <2> HIDE DEF k, a
  <2>4. handler' = (handler \ {h}) \cup {k} /\ orphans \subseteq orphans'
    BY <2>1 DEF k
  <2>5. Types'
    <3>1. orphans' \subseteq 1..lastId'
      BY <1>2, <2>1, <2>3 DEF IInv, Types
    <3> QED BY <1>2, <2>2, <2>3, <2>4, <3>1 DEF IInv, Types, Expired
  <2>6. Keys'
    BY <1>2, <2>3 DEF IInv, Types, Keys
  <2>7. CodeAdmitsOne' /\ Spent'
    BY <2>1, <2>2, <2>3, <2>4 DEF IInv, CodeAdmitsOne, Spent
  <2>8. Owns'
    <3>1. \A g \in handler : g.account # lastId + 1
      BY <2>3 DEF IInv, Owns
    <3> QED BY <1>2, <2>1, <2>3, <2>4, <3>1 DEF IInv, Owns, WithAccount
  <2>9. NoStrangers'
    <3> SUFFICES ASSUME mode = "invite", NEW b \in accounts', b.id # code, b.id \notin orphans'
                PROVE  \E g \in handler' : g.account = b.id /\ g.pc # "refused"
      BY <2>2 DEF NoStrangers
    <3>1. CASE b = a
      BY <2>1, <2>3, <2>4, <3>1
    <3>2. CASE b \in accounts
      <4>1. PICK g \in handler : g.account = b.id /\ g.pc # "refused"
        BY <2>4, <3>2 DEF IInv, NoStrangers
      <4> QED BY <1>0, <2>4, <3>2, <4>1
    <3> QED BY <1>2, <3>1, <3>2
  <2>10. SpinnersStop'
    BY <2>2, <2>3, <2>4 DEF IInv, SpinnersStop
  <2> QED BY <2>5, <2>6, <2>7, <2>8, <2>9, <2>10 DEF IInv
<1> QED BY <1>1, <1>2 DEF CreateUser

LEMMA ReadBackStep ==
  ASSUME IInv, NEW h \in handler, ReadBack(h)
  PROVE  IInv'
<1>1. PICK pc \in {"use", "tokens", "refused"} :
        /\ To(h, pc)
        /\ mode = "invite" => pc # "tokens"
        /\ pc = "refused" => orphans' = orphans \cup {h.account}
        /\ pc # "refused" => orphans' = orphans
  BY DEF ReadBack, Refuse, AfterCreate
<1>2. /\ h.pc = "readback" /\ breaks' \in Nat /\ pc \in HandlerPC /\ h.account \in 1..lastId
      /\ UNCHANGED <<mode, code, accounts, lastId, form, submits, admitted>>
  BY DEF ReadBack, Succeeds, Breaks, IInv, Owns, WithAccount, Types, HandlerPC
<1>3. orphans \subseteq orphans' /\ orphans' \subseteq 1..lastId
  BY <1>1, <1>2 DEF IInv, Types
<1>4. Types' /\ Keys' /\ CodeAdmitsOne'
  BY <1>1, <1>2, <1>3, Moved DEF IInv, Types, Keys, CodeAdmitsOne
<1>5. Owns' /\ SpinnersStop'
  BY <1>1, <1>2, MovedKeeps DEF IInv, WithAccount
<1>6. Spent'
  BY <1>1, <1>2, Moved DEF IInv, Spent
<1>7. NoStrangers'
  BY <1>1, <1>2, <1>3, MovedStrangers DEF IInv
<1> QED BY <1>4, <1>5, <1>6, <1>7 DEF IInv

LEMMA UseInviteCodeStep ==
  ASSUME IInv, NEW h \in handler, UseInviteCode(h)
  PROVE  IInv'
<1>0. /\ h.pc = "use" /\ h.account \in 1..lastId /\ breaks' \in Nat
      /\ UNCHANGED <<mode, accounts, lastId, form, submits, admitted, orphans>>
  BY DEF UseInviteCode, Succeeds, Breaks, IInv, Owns, WithAccount, Types
<1>1. PICK pc \in {"tokens", "rollback"} :
        /\ To(h, pc)
        /\ \/ code \in {0, Expired} /\ code' = h.account
           \/ pc = "rollback" /\ code' = code
  BY DEF UseInviteCode
<1>2. pc \in HandlerPC /\ pc \in WithAccount
  BY DEF HandlerPC, WithAccount
<1>3. Types' /\ Keys'
  <2>1. code' \in Expired..lastId
    BY <1>0, <1>1 DEF IInv, Types, Expired
  <2> QED BY <1>0, <1>1, <1>2, <2>1, Moved DEF IInv, Types, Keys
<1>4. Owns' /\ SpinnersStop'
  BY <1>0, <1>1, <1>2, MovedKeeps DEF IInv, WithAccount
<1>5. CASE pc = "rollback" /\ code' = code
  <2>1. CodeAdmitsOne' /\ Spent'
    BY <1>0, <1>1, <1>2, <1>5, Moved DEF IInv, CodeAdmitsOne, Spent
  <2>2. NoStrangers'
    BY <1>0, <1>1, <1>2, <1>5, MovedStrangers DEF IInv
  <2> QED BY <1>3, <1>4, <2>1, <2>2 DEF IInv
<1>6. CASE code \in {0, Expired} /\ code' = h.account
  <2>1. code \notin 1..lastId /\ code' = h.account /\ code \in {0, Expired}
    BY <1>6 DEF Expired
  <2>2. CodeAdmitsOne'
    BY <1>0, <2>1 DEF IInv, CodeAdmitsOne, Types
  <2>3. Spent'
    <3> SUFFICES ASSUME mode = "invite", NEW g \in handler', g.pc \in {"tokens", "created"}
                PROVE  code' = g.account
      BY <1>0 DEF Spent
    <3>1. CASE g = [h EXCEPT !.pc = pc]
      BY <1>1, <1>2, <2>1, <3>1, Moved DEF IInv
    <3>2. CASE g \in handler
      <4>1. g.account \in 1..lastId /\ code = g.account
        BY <3>2 DEF IInv, Owns, Spent, WithAccount
      <4> QED BY <2>1, <4>1
    <3> QED BY <1>1, <1>2, <3>1, <3>2, Moved DEF IInv
  <2>4. NoStrangers'
    <3> SUFFICES ASSUME mode = "invite", NEW a \in accounts, a.id # h.account, a.id \notin orphans
                PROVE  \E g \in handler' : g.account = a.id /\ g.pc # "refused"
      BY <1>0, <2>1 DEF NoStrangers
    <3>1. a.id \in 1..lastId
      BY DEF IInv, Types
    <3>2. PICK g \in handler : g.account = a.id /\ g.pc # "refused"
      BY <2>1, <3>1 DEF IInv, NoStrangers
    <3> QED BY <1>1, <3>2 DEF To
  <2> QED BY <1>3, <1>4, <2>2, <2>3, <2>4 DEF IInv
<1> QED BY <1>1, <1>5, <1>6

LEMMA RollbackStep ==
  ASSUME IInv, NEW h \in handler, Rollback(h)
  PROVE  IInv'
<1>1. /\ h.pc = "rollback" /\ To(h, "refused") /\ breaks' \in Nat
      /\ h.account \in 1..lastId /\ "refused" \in HandlerPC
      /\ accounts' \subseteq accounts /\ orphans \subseteq orphans' /\ orphans' \subseteq 1..lastId
      /\ \A a \in accounts' : a.id = h.account => a.id \in orphans'
      /\ UNCHANGED <<mode, code, lastId, form, submits, admitted>>
  <2>1. h.account \in 1..lastId /\ orphans \subseteq 1..lastId /\ breaks \in Nat
    BY DEF Rollback, IInv, Owns, WithAccount, Types
  <2>2. CASE /\ Succeeds(h) \/ Breaks(h)
             /\ accounts' = {a \in accounts : a.id # h.account} /\ UNCHANGED orphans
    <3>1. breaks' \in Nat
      BY <2>1, <2>2 DEF Succeeds, Breaks
    <3>2. /\ h.pc = "rollback" /\ To(h, "refused")
          /\ UNCHANGED <<mode, code, lastId, form, submits, admitted>>
      BY DEF Rollback, Refuse
    <3>3. accounts' \subseteq accounts /\ \A a \in accounts' : a.id # h.account
      BY <2>2
    <3> QED BY <2>1, <2>2, <3>1, <3>2, <3>3 DEF HandlerPC
  <2>3. CASE Breaks(h) /\ orphans' = orphans \cup {h.account} /\ UNCHANGED accounts
    <3>1. breaks' \in Nat
      BY <2>1, <2>3 DEF Breaks
    <3>2. /\ h.pc = "rollback" /\ To(h, "refused")
          /\ UNCHANGED <<mode, code, lastId, form, submits, admitted>>
      BY DEF Rollback, Refuse
    <3> HIDE DEF Breaks
    <3> QED BY <2>1, <2>3, <3>1, <3>2 DEF HandlerPC
  <2> QED BY <2>2, <2>3 DEF Rollback
<1>2. Types' /\ Keys' /\ CodeAdmitsOne'
  BY <1>1, Moved DEF IInv, Types, Keys, CodeAdmitsOne
<1>3. Owns' /\ SpinnersStop'
  BY <1>1, MovedKeeps DEF IInv, WithAccount
<1>4. Spent'
  BY <1>1, Moved DEF IInv, Spent
<1>5. NoStrangers'
  BY <1>1, MovedStrangers DEF IInv
<1> QED BY <1>2, <1>3, <1>4, <1>5 DEF IInv

LEMMA StoreTokensStep ==
  ASSUME IInv, NEW h \in handler, StoreTokens(h)
  PROVE  IInv'
<1>1. PICK pc \in {"created", "refused"} :
        /\ To(h, pc)
        /\ pc = "created" => admitted' = admitted \cup {h.account}
        /\ pc = "refused" => admitted' = admitted
  BY DEF StoreTokens, Refuse
<1>2. /\ h.pc = "tokens" /\ breaks' \in Nat /\ pc \in HandlerPC
      /\ h.account \in 1..lastId /\ (mode = "invite" => code = h.account)
      /\ UNCHANGED <<mode, code, accounts, lastId, form, submits, orphans>>
  BY DEF StoreTokens, Succeeds, Breaks, IInv, Owns, Spent, WithAccount, Types, HandlerPC
<1>3. Types' /\ Keys' /\ CodeAdmitsOne'
  BY <1>1, <1>2, Moved DEF IInv, Types, Keys, CodeAdmitsOne
<1>4. Owns' /\ SpinnersStop'
  BY <1>1, <1>2, MovedKeeps DEF IInv, WithAccount
<1>5. Spent'
  <2> SUFFICES ASSUME mode = "invite", NEW g \in handler', g.pc \in {"tokens", "created"}
              PROVE  code = g.account
    BY <1>2 DEF Spent
  <2>1. CASE g = [h EXCEPT !.pc = pc]
    BY <1>1, <1>2, <2>1, Moved DEF IInv
  <2>2. CASE g \in handler
    BY <2>2 DEF IInv, Spent
  <2> QED BY <1>1, <1>2, <2>1, <2>2, Moved DEF IInv
<1>6. NoStrangers'
  BY <1>1, <1>2, MovedStrangers DEF IInv
<1> QED BY <1>3, <1>4, <1>5, <1>6 DEF IInv

\* Answers and broken connections take a visitor's form out of its wait.
LEMMA Released ==
  ASSUME Types, SpinnersStop, NEW v \in Visitors, NEW f \in [mode : Modes, probing : BOOLEAN,
                                                         submitting : {FALSE}, inside : BOOLEAN],
         form' = [form EXCEPT ![v] = f],
         \A g \in handler : g.visitor # v => g \in handler'
  PROVE  /\ form' \in [Visitors -> [mode : Modes, probing : BOOLEAN, submitting : BOOLEAN,
                                    inside : BOOLEAN]]
         /\ SpinnersStop'
<1>1. /\ form'[v] = f /\ ~f.submitting
      /\ \A w \in Visitors : w # v => form'[w] = form[w]
  BY DEF Types
<1>2. SpinnersStop'
  BY <1>1 DEF SpinnersStop
<1> QED BY <1>2 DEF Types

LEMMA AnswerStep ==
  ASSUME IInv, NEW h \in handler, Answer(h)
  PROVE  IInv'
<1>1. /\ handler' = handler \ {h} /\ h.pc \in {"created", "refused"} /\ h.visitor \in Visitors
      /\ h.cut \in BOOLEAN
      /\ UNCHANGED <<mode, code, accounts, lastId, counters, admitted, orphans>>
  BY DEF Answer, IInv, Types, Handlers
<1>2. /\ form' \in [Visitors -> [mode : Modes, probing : BOOLEAN, submitting : BOOLEAN,
                                 inside : BOOLEAN]]
      /\ SpinnersStop'
  <2>1. CASE h.cut
    <3>1. form' = form
      BY <2>1 DEF Answer
    <3> QED BY <1>1, <2>1, <3>1 DEF IInv, Types, SpinnersStop
  <2>2. CASE ~h.cut
    <3> DEFINE f == [form[h.visitor] EXCEPT !.submitting = FALSE, !.inside = (h.pc = "created")]
    <3>1. form' = [form EXCEPT ![h.visitor] = f]
      BY <1>1, <2>2 DEF Answer, IInv, Types
    <3>2. f \in [mode : Modes, probing : BOOLEAN, submitting : {FALSE}, inside : BOOLEAN]
      BY <1>1 DEF IInv, Types
    <3> HIDE DEF f
    <3> QED BY <1>1, <3>1, <3>2, Released DEF IInv
  <2> QED BY <2>1, <2>2, <1>1
<1>3. Types' /\ Keys' /\ CodeAdmitsOne' /\ Owns' /\ Spent'
  BY <1>1, <1>2 DEF IInv, Types, Keys, CodeAdmitsOne, Owns, Spent, counters
<1>4. NoStrangers'
  BY <1>1 DEF IInv, NoStrangers, Spent
<1> QED BY <1>2, <1>3, <1>4 DEF IInv

LEMMA CutStep ==
  ASSUME IInv, NEW h \in handler, Cut(h)
  PROVE  IInv'
<1> DEFINE k == [h EXCEPT !.cut = TRUE]
           f == [form[h.visitor] EXCEPT !.submitting = FALSE]
<1>1. /\ h.visitor \in Visitors /\ h \in Handlers /\ k \in Handlers
      /\ k.account = h.account /\ k.pc = h.pc /\ k.visitor = h.visitor
      /\ handler' = (handler \ {h}) \cup {k} /\ breaks' \in Nat
      /\ UNCHANGED <<mode, code, accounts, lastId, submits, admitted, orphans>>
  <2>1. h \in Handlers /\ breaks \in Nat
    BY DEF IInv, Types
  <2>2. /\ h.visitor \in Visitors /\ k \in Handlers
        /\ k.account = h.account /\ k.pc = h.pc /\ k.visitor = h.visitor
    BY <2>1 DEF Handlers
  <2> QED BY <2>1, <2>2 DEF Cut
<1>2. form' = [form EXCEPT ![h.visitor] = f]
  BY <1>1 DEF Cut, IInv, Types
<1>3. f \in [mode : Modes, probing : BOOLEAN, submitting : {FALSE}, inside : BOOLEAN]
  BY <1>1 DEF IInv, Types
<1> HIDE DEF k, f
<1>4. /\ form' \in [Visitors -> [mode : Modes, probing : BOOLEAN, submitting : BOOLEAN,
                                 inside : BOOLEAN]]
      /\ SpinnersStop'
  BY <1>1, <1>2, <1>3, Released DEF IInv
<1>5. Types' /\ Keys' /\ CodeAdmitsOne' /\ Spent'
  BY <1>1, <1>4 DEF IInv, Types, Keys, CodeAdmitsOne, Spent
<1>6. Owns'
  BY <1>1 DEF IInv, Owns
<1>7. NoStrangers'
  BY <1>1 DEF IInv, NoStrangers
<1> QED BY <1>4, <1>5, <1>6, <1>7 DEF IInv

LEMMA CrashStep ==
  ASSUME IInv, Crash
  PROVE  IInv'
<1>1. /\ handler' = {} /\ breaks' \in Nat
      /\ orphans' = orphans \cup {h.account : h \in {g \in handler : g.pc \in {"readback", "use", "rollback"}}}
      /\ form' \in [Visitors -> [mode : Modes, probing : BOOLEAN, submitting : BOOLEAN,
                                 inside : BOOLEAN]]
      /\ \A v \in Visitors : ~form'[v].submitting
      /\ UNCHANGED <<mode, code, accounts, lastId, submits, admitted>>
  <2>1. /\ form' = [v \in Visitors |-> [form[v] EXCEPT !.submitting = FALSE]]
        /\ form \in [Visitors -> [mode : Modes, probing : BOOLEAN, submitting : BOOLEAN,
                                  inside : BOOLEAN]]
        /\ breaks \in Nat
    BY DEF Crash, IInv, Types
  <2>2. /\ form' \in [Visitors -> [mode : Modes, probing : BOOLEAN, submitting : BOOLEAN,
                                   inside : BOOLEAN]]
        /\ \A v \in Visitors : ~form'[v].submitting
    BY <2>1
  <2> QED BY <2>1, <2>2 DEF Crash
<1>2. orphans' \subseteq 1..lastId
  BY <1>1 DEF IInv, Types, Owns, WithAccount
<1>3. Types' /\ Keys' /\ CodeAdmitsOne' /\ Owns' /\ Spent' /\ SpinnersStop'
  BY <1>1, <1>2 DEF IInv, Types, Keys, CodeAdmitsOne, Owns, Spent, SpinnersStop
<1>4. NoStrangers'
  <2> SUFFICES ASSUME mode = "invite", NEW a \in accounts, a.id # code, a.id \notin orphans
              PROVE  a.id \in orphans'
    BY <1>1 DEF NoStrangers
  <2>1. PICK h \in handler : h.account = a.id /\ h.pc # "refused"
    BY DEF IInv, NoStrangers
  <2>2. h.pc \in {"readback", "use", "rollback"}
    <3>1. a.id \in 1..lastId /\ h.pc \in HandlerPC
      BY DEF IInv, Types, Handlers
    <3>2. h.account # 0
      BY <2>1, <3>1
    <3> QED BY <2>1, <3>1, <3>2 DEF IInv, Owns, Spent, HandlerPC
  <2> QED BY <1>1, <2>1, <2>2
<1> QED BY <1>3, <1>4 DEF IInv

-----------------------------------------------------------------------------
\* Every step keeps the invariant.
LEMMA NextIInv == IInv /\ [Next]_vars => IInv'
<1> SUFFICES ASSUME IInv, [Next]_vars PROVE IInv'
  OBVIOUS
<1>1. ASSUME NEW v \in Visitors, Probe(v) PROVE IInv'
  <2>1. PICK m \in Modes : form' = [form EXCEPT ![v].probing = FALSE, ![v].mode = m]
    BY <1>1 DEF Probe, IInv, Types, Modes
  <2>2. UNCHANGED <<mode, code, accounts, lastId, handler, counters, admitted, orphans>>
    BY <1>1 DEF Probe
  <2>3. Types'
    BY <2>1, <2>2 DEF IInv, Types, counters
  <2>4. \A w \in Visitors : form'[w].submitting = form[w].submitting
    BY <2>1 DEF IInv, Types
  <2> QED
    BY <2>2, <2>3, <2>4 DEF IInv, Keys, Owns, Spent, CodeAdmitsOne, NoStrangers, SpinnersStop
<1>2. ASSUME ExpireCode PROVE IInv'
  <2>1. /\ code = 0 /\ code' = Expired
        /\ UNCHANGED <<mode, accounts, lastId, form, handler, counters, admitted, orphans>>
    BY <1>2 DEF ExpireCode
  <2>2. \A h \in handler : h.pc \in {"tokens", "created"} => h.account # 0
    BY DEF IInv, Owns, WithAccount
  <2> QED
    BY <2>1, <2>2 DEF IInv, Types, Keys, Owns, Spent, CodeAdmitsOne, NoStrangers, SpinnersStop,
                      Expired, counters
<1>3. ASSUME UNCHANGED vars PROVE IInv'
  BY <1>3 DEF vars, counters, IInv, Types, Keys, Owns, Spent, CodeAdmitsOne, NoStrangers, SpinnersStop
<1>4. ASSUME NEW h \in handler, HandlerStep(h) PROVE IInv'
  BY <1>4, CheckModeStep, CreateUserStep, ReadBackStep, UseInviteCodeStep, RollbackStep, StoreTokensStep,
     AnswerStep, CutStep DEF HandlerStep
<1> QED BY <1>1, <1>2, <1>3, <1>4, SubmitStep, CrashStep DEF Next

THEOREM Invariance == Spec => []IInv
  BY InitIInv, NextIInv, PTL DEF Spec

\* Registration keeps its types, and accounts their ids and names.
THEOREM TypeCorrect == Spec => []TypeOK
<1>1. IInv => TypeOK
  BY DEF IInv, Types, Keys, Owns, TypeOK, WithAccount
<1> QED BY <1>1, Invariance, PTL

\* However many handlers have found the invite code unused, however their
\* statements interleave, and whatever breaks: the accounts that were answered
\* with tokens are the one the code's row names (auth.go:80-135, invites.go:84).
THEOREM OneAdmitted == Spec => []CodeAdmitsOne
<1>1. IInv => CodeAdmitsOne
  BY DEF IInv
<1> QED BY <1>1, Invariance, PTL

\* In invite mode every other account is one whose handler is still at work,
\* was killed, could not hear of the account it had inserted, or could not
\* delete it again (users.go:46-57, auth.go:115-135).
THEOREM NoOthers == Spec => []NoStrangers
<1>1. IInv => NoStrangers
  BY DEF IInv
<1> QED BY <1>1, Invariance, PTL

\* A form that waits is waiting for a handler that will answer it.
THEOREM FormsReleased == Spec => []SpinnersStop
<1>1. IInv => SpinnersStop
  BY DEF IInv
<1> QED BY <1>1, Invariance, PTL
=============================================================================
