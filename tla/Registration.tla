---------------------------- MODULE Registration ----------------------------
(***************************************************************************)
(* Accounts are created by visitors (web/src/pages/Register.tsx) with      *)
(* POST /api/auth/register (internal/api/auth.go), which takes several     *)
(* statements without a transaction: the invite code is looked up, the     *)
(* account created, the code spent, and the account deleted again if       *)
(* somebody else was faster.  A visitor whose connection breaks cancels    *)
(* the context of the statements that are left; the deletion is one.       *)
(* On PostgreSQL the driver knows no LastInsertId, and the new account is  *)
(* read back with another statement (internal/store/users.go).             *)
(* Validation of names and passwords is left out, and there is one code.   *)
(***************************************************************************)
EXTENDS InvitePromise, Integers, FiniteSets

CONSTANTS
  Visitors,
  Names,
  MaxSubmits,     \* bound on forms sent
  MaxBreaks,      \* bound on connections and statements that break
  MaxRegistered   \* bound on accounts ever created, ids 1 .. MaxRegistered

VARIABLES
  lastId,    \* the last id given out
  form,      \* each visitor's page: mode believed, submitting, inside
  submits, breaks

counters == <<submits, breaks>>
vars == <<mode, code, accounts, lastId, form, handler, counters, admitted, orphans>>

Modes == {"open", "invite", "closed"}
Expired == -1

Init ==
  /\ mode \in Modes
  /\ code \in {0, Expired}
  /\ accounts = {} /\ lastId = 0
  /\ form = [v \in Visitors |-> [mode |-> "open", probing |-> TRUE, submitting |-> FALSE, inside |-> FALSE]]
  /\ handler = {}
  /\ submits = 0 /\ breaks = 0
  /\ admitted = {} /\ orphans = {}

-----------------------------------------------------------------------------
(* The page. *)

\* probeAllowRegister: without an answer the form is open.
Probe(v) ==
  /\ form[v].probing
  /\ \E m \in {mode, "open"} :
       form' = [form EXCEPT ![v].probing = FALSE, ![v].mode = m]
  /\ UNCHANGED <<mode, code, accounts, lastId, handler, counters, admitted, orphans>>

\* A closed page has no form; the code may be left out unless it is asked for.
HandleSubmit(v, name, given) ==
  /\ ~form[v].inside /\ form[v].mode # "closed" /\ ~form[v].submitting
  /\ form[v].mode = "invite" => given
  /\ submits < MaxSubmits
  /\ submits' = submits + 1
  /\ form' = [form EXCEPT ![v].submitting = TRUE]
  /\ handler' = handler \cup {[n |-> submits + 1, visitor |-> v, name |-> name, given |-> given,
                               account |-> 0, pc |-> "begin", cut |-> FALSE]}
  /\ UNCHANGED <<mode, code, accounts, lastId, breaks, admitted, orphans>>

-----------------------------------------------------------------------------
(* The handler. *)

To(h, pc) == handler' = (handler \ {h}) \cup {[h EXCEPT !.pc = pc]}
Refuse(h) == To(h, "refused")

Succeeds(h) == ~h.cut /\ UNCHANGED breaks

\* A statement ends with an error, carried out or not: its context has been
\* cancelled, or the connection to the database breaks.
Breaks(h) ==
  \/ h.cut /\ UNCHANGED breaks
  \/ ~h.cut /\ breaks < MaxBreaks /\ breaks' = breaks + 1

\* The mode and, in invite mode, the code.
CheckMode(h) ==
  /\ h.pc = "begin"
  /\ \/ /\ mode = "open" \/ (mode = "invite" /\ h.given /\ code = 0 /\ ~h.cut)
        /\ To(h, "create") /\ UNCHANGED breaks
     \/ /\ mode = "closed" \/ (mode = "invite" /\ (~h.given \/ code # 0))
        /\ Refuse(h) /\ UNCHANGED breaks
     \/ /\ mode = "invite" /\ h.given
        /\ Breaks(h) /\ Refuse(h)
  /\ UNCHANGED <<mode, code, accounts, lastId, form, submits, admitted, orphans>>

AfterCreate == IF mode = "invite" THEN "use" ELSE "tokens"

\* 409 if the name is taken.  The INSERT's id comes with it (SQLite), or has to be
\* asked for (PostgreSQL): an instance has one of the two, and this allows both.
CreateUser(h) ==
  /\ h.pc = "create"
  /\ \/ /\ \E a \in accounts : a.name = h.name
        /\ Refuse(h) /\ UNCHANGED <<accounts, lastId, breaks, orphans>>
     \/ /\ \A a \in accounts : a.name # h.name
        /\ lastId < MaxRegistered
        /\ lastId' = lastId + 1
        /\ accounts' = accounts \cup {[id |-> lastId + 1, name |-> h.name]}
        /\ \/ /\ Succeeds(h) /\ UNCHANGED orphans
              /\ \E pc \in {AfterCreate, "readback"} :
                   handler' = (handler \ {h}) \cup
                                {[h EXCEPT !.account = lastId + 1, !.pc = pc]}
           \/ /\ Breaks(h) /\ Refuse(h)
              /\ orphans' = orphans \cup {lastId + 1}
     \/ /\ Breaks(h) /\ Refuse(h)
        /\ UNCHANGED <<accounts, lastId, orphans>>
  /\ UNCHANGED <<mode, code, form, submits, admitted>>

\* GetUserByUsername; when it fails the account stays, and the code is unspent.
ReadBack(h) ==
  /\ h.pc = "readback"
  /\ \/ Succeeds(h) /\ To(h, AfterCreate) /\ UNCHANGED orphans
     \/ Breaks(h) /\ Refuse(h) /\ orphans' = orphans \cup {h.account}
  /\ UNCHANGED <<mode, code, accounts, lastId, form, submits, admitted>>

\* Mutants of UseInviteCode: without the guard on used; without the rollback.
UseInviteCodeUnguarded(h) ==
  /\ h.pc = "use" /\ ~h.cut
  /\ code' = h.account
  /\ To(h, "tokens")
  /\ UNCHANGED <<mode, accounts, lastId, form, counters, admitted, orphans>>

UseInviteCodeOrRefuse(h) ==
  /\ h.pc = "use"
  /\ IF code \in {0, Expired} /\ ~h.cut
       THEN code' = h.account /\ To(h, "tokens")
       ELSE Refuse(h) /\ UNCHANGED code
  /\ UNCHANGED <<mode, accounts, lastId, form, counters, admitted, orphans>>

\* UPDATE ... WHERE used = 0: one of several takes it.
UseInviteCode(h) ==
  /\ h.pc = "use"
  /\ \/ /\ code \in {0, Expired}
        /\ code' = h.account
        /\ \/ Succeeds(h) /\ To(h, "tokens")
           \/ Breaks(h) /\ To(h, "rollback")
     \/ /\ code \notin {0, Expired}
        /\ To(h, "rollback") /\ UNCHANGED <<code, breaks>>
     \/ /\ Breaks(h) /\ To(h, "rollback")
        /\ UNCHANGED code
  /\ UNCHANGED <<mode, accounts, lastId, form, submits, admitted, orphans>>

\* DeleteUser, with the same context; a failure is only logged.
Rollback(h) ==
  /\ h.pc = "rollback"
  /\ \/ /\ Succeeds(h) \/ Breaks(h)
        /\ accounts' = {a \in accounts : a.id # h.account}
        /\ UNCHANGED orphans
     \/ /\ Breaks(h)
        /\ orphans' = orphans \cup {h.account}
        /\ UNCHANGED accounts
  /\ Refuse(h)
  /\ UNCHANGED <<mode, code, lastId, form, submits, admitted>>

\* The account stays if its tokens cannot be stored.
StoreTokens(h) ==
  /\ h.pc = "tokens"
  /\ \/ Succeeds(h) /\ To(h, "created") /\ admitted' = admitted \cup {h.account}
     \/ Breaks(h) /\ Refuse(h) /\ UNCHANGED admitted
  /\ UNCHANGED <<mode, code, accounts, lastId, form, submits, orphans>>

-----------------------------------------------------------------------------
(* The answer, or a connection that breaks before it. *)

Answer(h) ==
  /\ h.pc \in {"created", "refused"}
  /\ handler' = handler \ {h}
  /\ form' = IF h.cut THEN form
             ELSE [form EXCEPT ![h.visitor].submitting = FALSE,
                               ![h.visitor].inside = (h.pc = "created")]
  /\ UNCHANGED <<mode, code, accounts, lastId, counters, admitted, orphans>>

\* The form shows an error, and may be sent again while the handler goes on.
Cut(h) ==
  /\ ~h.cut /\ breaks < MaxBreaks
  /\ breaks' = breaks + 1
  /\ handler' = (handler \ {h}) \cup {[h EXCEPT !.cut = TRUE]}
  /\ form' = [form EXCEPT ![h.visitor].submitting = FALSE]
  /\ UNCHANGED <<mode, code, accounts, lastId, submits, admitted, orphans>>

\* The server is killed: its handlers are gone, and the connections broken.
Crash ==
  /\ handler # {} /\ breaks < MaxBreaks
  /\ breaks' = breaks + 1
  /\ handler' = {}
  /\ form' = [v \in Visitors |-> [form[v] EXCEPT !.submitting = FALSE]]
  /\ orphans' = orphans \cup {h.account : h \in {g \in handler : g.pc \in {"readback", "use", "rollback"}}}
  /\ UNCHANGED <<mode, code, accounts, lastId, submits, admitted>>

ExpireCode ==
  /\ code = 0
  /\ code' = Expired
  /\ UNCHANGED <<mode, accounts, lastId, form, handler, counters, admitted, orphans>>

HandlerStep(h) ==
  \/ CheckMode(h) \/ CreateUser(h) \/ ReadBack(h) \/ UseInviteCode(h) \/ Rollback(h) \/ StoreTokens(h)
  \/ Answer(h) \/ Cut(h)

Next ==
  \/ \E v \in Visitors :
       \/ Probe(v)
       \/ \E name \in Names, given \in BOOLEAN : HandleSubmit(v, name, given)
  \/ \E h \in handler : HandlerStep(h)
  \/ Crash
  \/ ExpireCode

Spec == Init /\ [][Next]_vars

-----------------------------------------------------------------------------
(* Properties. *)

TypeOK ==
  /\ mode \in Modes
  /\ code \in Expired..lastId
  /\ accounts \subseteq [id : 1..lastId, name : Names]
  /\ \A a, b \in accounts : a.id = b.id \/ a.name = b.name => a = b
  /\ \A h \in handler : (h.pc \in {"readback", "use", "rollback", "tokens", "created"}) => h.account \in 1..lastId
  /\ admitted \subseteq 1..lastId /\ orphans \subseteq 1..lastId

\* A form waits for a request that will still be answered.
SpinnersStop ==
  \A v \in Visitors : form[v].submitting => \E h \in handler : h.visitor = v /\ ~h.cut
=============================================================================
