--------------------------- MODULE InvitePromise ---------------------------
(***************************************************************************)
(* What an instance that is open by invitation only promises: its invite   *)
(* code lets one account in, and nobody else has one.  Registration is     *)
(* proved to keep it, and Console is checked to.                           *)
(***************************************************************************)

VARIABLES
  mode,      \* ALLOW_REGISTER
  code,      \* the invite code's row: 0 if unused, the account, or expired
  accounts,  \* id and name of each
  handler,   \* the requests under way
  admitted,  \* history: the accounts whose creation was answered 201
  orphans    \* history: the accounts left behind by a handler that failed or died

\* An invite code lets one account in: however many registrations have found
\* it unused, one of them is answered with tokens, for the account that the
\* code's row names.
CodeAdmitsOne ==
  mode = "invite" => admitted \subseteq {code}

\* In invite mode an account is the one its code was spent for, or its handler
\* is still at work, or was killed, or could not hear of the account it had
\* inserted, or could not delete it again.
NoStrangers ==
  mode = "invite" =>
    \A a \in accounts :
      \/ a.id = code
      \/ a.id \in orphans
      \/ \E h \in handler : h.account = a.id /\ h.pc # "refused"
=============================================================================
