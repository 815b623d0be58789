----------------------------- MODULE UsersPage -----------------------------
(***************************************************************************)
(* The administrator's page of users (web/src/pages/admin/Users.tsx)       *)
(* against the table and its handlers (internal/api/admin.go): a paged     *)
(* list, an edit form, a reset of passwords and a switch of the status.    *)
(* Quotas, which are edited along, and passwords are left out.             *)
(***************************************************************************)
EXTENDS WebPage, Sequences, SequencesExt, Listing

CONSTANTS
  MaxUsers,   \* bound on users, ids 1 .. MaxUsers
  OldUsers,   \* those there from the start; 1 is the administrator at the page
  PAGE_SIZE

VARIABLES users  \* the rows: id, role, status

vars == <<users, view, calls, bounds>>

Self == 1
Roles == {"user", "admin"}
Statuses == {"active", "disabled"}
User(id, role, status) == [id |-> id, role |-> role, status |-> status]
NoUser == User(0, "user", "active")
WithId(id) == {u \in users : u.id = id}

InitUsers == {User(id, IF id = Self THEN "admin" ELSE "user", "active") : id \in 1..OldUsers}

\* ListUsers: ORDER BY id DESC ...
Rows ==
  LET ids == Descending({u.id : u \in users})
  IN  [k \in DOMAIN ids |-> CHOOSE u \in users : u.id = ids[k]]

\* Mutant of Slice: one row too many.
SliceOneMore(p) ==
  LET rows == Rows
      end == (p + 1) * PAGE_SIZE + 1
  IN  SubSeq(rows, p * PAGE_SIZE + 1, IF end < Len(rows) THEN end ELSE Len(rows))

\* ... LIMIT and OFFSET.
Slice(p) ==
  LET rows == Rows
      end == (p + 1) * PAGE_SIZE
  IN  SubSeq(rows, p * PAGE_SIZE + 1, IF end < Len(rows) THEN end ELSE Len(rows))

\* editing, resetting, toggling: the row a modal is open for.  newest, listed:
\* history, as in DevicesPage; listed only if the answer is for the page shown.
Fresh ==
  [list |-> <<>>, total |-> 0, page |-> 0, hasMore |-> FALSE, loading |-> TRUE, error |-> FALSE,
   editing |-> NoUser, editLoading |-> FALSE,
   resetting |-> NoUser, resetLoading |-> FALSE,
   toggling |-> NoUser, toggleLoading |-> FALSE,
   newest |-> 1, listed |-> FALSE]

\* What a request is about: the page of a list, or a row as it shall be.
OnPage(p) == <<p, NoUser>>
OnUser(p, u) == <<p, u>>
MountCalls == With({}, "list", OnPage(0))

\* fetchUsers of the closure for page p, from a callback that ends with v and
\* without the calls gone.
FetchAfter(v, p, gone) ==
  LET rest == calls \ gone
      call == NewCall("list", OnPage(p), rest)
  IN  /\ calls' = rest \cup {call}
      /\ view' = [v EXCEPT !.error = FALSE, !.newest = call.id, !.listed = FALSE]

-----------------------------------------------------------------------------
(* The user. *)

OpenModals == {m \in {"editing", "resetting", "toggling"} : view[m] # NoUser}

\* The whole page is a skeleton, or an error with a button, while it has no list.
Rendered == view.list # <<>> \/ ~(view.loading \/ view.error)

Retry ==
  /\ view.error /\ view.list = <<>> /\ Input
  /\ FetchAfter([view EXCEPT !.loading = TRUE], view.page, {})
  /\ UNCHANGED users

Refresh ==
  /\ Rendered /\ Pressable(view.loading, FALSE) /\ Input
  /\ FetchAfter(view, view.page, {})
  /\ UNCHANGED users

\* Another page: its effect asks for it.
TurnTo(p) ==
  /\ Rendered /\ view.total > 0 /\ Input
  /\ \/ p = view.page - 1 /\ Pressable(FALSE, view.page = 0 \/ view.loading)
     \/ p = view.page + 1 /\ Pressable(FALSE, ~view.hasMore \/ view.loading)
  /\ FetchAfter([view EXCEPT !.page = p, !.loading = TRUE], p, {})
  /\ UNCHANGED users

\* The buttons of a row, which the keyboard reaches under a modal too; there is
\* no switch for the administrator's own.
OpenModal(u) ==
  /\ Input
  /\ \/ view' = [view EXCEPT !.editing = u]
     \/ view' = [view EXCEPT !.resetting = u]
     \/ u.id # Self /\ view' = [view EXCEPT !.toggling = u]
  /\ UNCHANGED <<users, calls>>

\* One is closed by its button, or Escape closes all, whatever is under way.
CloseModal ==
  /\ OpenModals # {} /\ Input
  /\ \E S \in {OpenModals} \cup {{m} : m \in OpenModals} :
       view' = [view EXCEPT !.editing = IF "editing" \in S THEN NoUser ELSE @,
                            !.resetting = IF "resetting" \in S THEN NoUser ELSE @,
                            !.toggling = IF "toggling" \in S THEN NoUser ELSE @]
  /\ UNCHANGED <<users, calls>>

\* handleEditSubmit sends role and status along, changed or not; for the
\* administrator's own row they cannot be changed.
SubmitEdit(u) ==
  /\ view.editing # NoUser /\ u.id = view.editing.id /\ (u.id = Self => u = view.editing)
  /\ Pressable(view.editLoading, FALSE) /\ Input
  /\ calls' = With(calls, "edit", OnUser(view.page, u))
  /\ view' = [view EXCEPT !.editLoading = TRUE]
  /\ UNCHANGED users

SubmitReset ==
  /\ view.resetting # NoUser /\ Pressable(view.resetLoading, FALSE) /\ Input
  /\ calls' = With(calls, "reset", OnUser(view.page, view.resetting))
  /\ view' = [view EXCEPT !.resetLoading = TRUE]
  /\ UNCHANGED users

Opposite(u) == [u EXCEPT !.status = IF @ = "active" THEN "disabled" ELSE "active"]

HandleToggleStatus ==
  /\ view.toggling # NoUser /\ Pressable(view.toggleLoading, FALSE) /\ Input
  /\ calls' = With(calls, "toggle", OnUser(view.page, Opposite(view.toggling)))
  /\ view' = [view EXCEPT !.toggleLoading = TRUE]
  /\ UNCHANGED users

-----------------------------------------------------------------------------
(* The server. *)

\* A page of rows and how many there are.
ServeList(c) ==
  /\ Sent(c, "list")
  /\ Serve(c, {<<Slice(c.arg[1]), Cardinality(users)>>})
  /\ UNCHANGED <<users, view, bounds>>

\* UpdateUser: refused for a row that is gone, and for the caller's own when
\* role or status are given.
ServeUpdate(c) ==
  /\ Sent(c, "edit") \/ Sent(c, "toggle")
  /\ LET to == c.arg[2]
     IN  IF to.id = Self \/ WithId(to.id) = {}
           THEN Refuse(c) /\ UNCHANGED users
           ELSE /\ users' = {IF u.id # to.id THEN u
                             ELSE IF c.op = "edit" THEN to ELSE [u EXCEPT !.status = to.status]
                               : u \in users}
                /\ Serve(c, {})
  /\ UNCHANGED <<view, bounds>>

ServeReset(c) ==
  /\ Sent(c, "reset")
  /\ IF WithId(c.arg[2].id) = {} THEN Refuse(c) ELSE Serve(c, {})
  /\ UNCHANGED <<users, view, bounds>>

\* Somebody registers, or another administrator changes or deletes a user.
ChangeElsewhere ==
  /\ Trouble
  /\ \/ \E id \in 1..MaxUsers : (\A u \in users : u.id < id) /\ users' = users \cup {User(id, "user", "active")}
     \/ \E u \in users : u.id # Self /\ users' \in {users \ {u}, (users \ {u}) \cup {Opposite(u)}}
  /\ view' = [view EXCEPT !.newest = 0, !.listed = FALSE]
  /\ UNCHANGED calls

-----------------------------------------------------------------------------
(* Answers. *)

\* Mutant of ListAnswered: an empty page is shown like any other.
ListAnsweredAsIs(c) ==
  /\ Answered(c, "list")
  /\ calls' = calls \ {c}
  /\ \E a \in c.answer :
       view' = [view EXCEPT !.list = a[1], !.total = a[2], !.loading = FALSE,
                     !.hasMore = (c.arg[1] * PAGE_SIZE + Len(a[1]) < a[2])]
  /\ UNCHANGED <<users, bounds>>

\* An empty page that is not the first turns back by one, and the effect asks
\* for that.
ListAnswered(c) ==
  /\ Answered(c, "list")
  /\ \E a \in c.answer :
       IF a[1] = <<>> /\ c.arg[1] > 0
         THEN IF view.page > 0
                THEN FetchAfter([view EXCEPT !.page = @ - 1, !.loading = TRUE], view.page - 1, {c})
                ELSE calls' = calls \ {c} /\ view' = [view EXCEPT !.loading = FALSE]
         ELSE /\ calls' = calls \ {c}
              /\ view' = [view EXCEPT !.list = a[1], !.total = a[2], !.loading = FALSE,
                            !.hasMore = (c.arg[1] * PAGE_SIZE + Len(a[1]) < a[2]),
                            !.listed = (c.id = view.newest /\ c.arg[1] = view.page)]
  /\ UNCHANGED <<users, bounds>>

\* The list of the page the request was sent from is asked for again.
EditAnswered(c) ==
  /\ Answered(c, "edit")
  /\ FetchAfter([view EXCEPT !.editing = NoUser, !.editLoading = FALSE], c.arg[1], {c})
  /\ UNCHANGED <<users, bounds>>

ToggleAnswered(c) ==
  /\ Answered(c, "toggle")
  /\ FetchAfter([view EXCEPT !.toggling = NoUser, !.toggleLoading = FALSE], c.arg[1], {c})
  /\ UNCHANGED <<users, bounds>>

ResetAnswered(c) ==
  /\ Answered(c, "reset")
  /\ calls' = calls \ {c}
  /\ view' = [view EXCEPT !.resetting = NoUser, !.resetLoading = FALSE]
  /\ UNCHANGED <<users, bounds>>

\* Mutant of CallFails: editLoading is not reset in a finally.
CallFailsBusy(c) ==
  /\ Erring(c)
  /\ calls' = calls \ {c}
  /\ view' = IF c.op = "list" THEN [view EXCEPT !.error = TRUE, !.loading = FALSE]
                              ELSE [view EXCEPT !.newest = 0, !.listed = FALSE]
  /\ UNCHANGED users

\* An error of the list is shown, the others are told.
CallFails(c) ==
  /\ Erring(c)
  /\ calls' = calls \ {c}
  /\ view' = CASE c.op = "list" -> [view EXCEPT !.error = TRUE, !.loading = FALSE]
               [] c.op = "edit" -> [view EXCEPT !.editLoading = FALSE, !.newest = 0, !.listed = FALSE]
               [] c.op = "toggle" -> [view EXCEPT !.toggleLoading = FALSE, !.newest = 0, !.listed = FALSE]
               [] c.op = "reset" -> [view EXCEPT !.resetLoading = FALSE]
  /\ UNCHANGED users

-----------------------------------------------------------------------------
CallStep(c) ==
  \/ ServeList(c) \/ ServeUpdate(c) \/ ServeReset(c)
  \/ ListAnswered(c) \/ EditAnswered(c) \/ ToggleAnswered(c) \/ ResetAnswered(c)
  \/ CallFails(c)

Next ==
  \/ Retry \/ Refresh \/ CloseModal \/ SubmitReset \/ HandleToggleStatus
  \/ \E p \in 0..MaxUsers : TurnTo(p)
  \/ \E u \in ToSet(view.list) : OpenModal(u)
  \/ \E role \in Roles, status \in Statuses : SubmitEdit(User(view.editing.id, role, status))
  \/ ChangeElsewhere
  \/ \E c \in calls : CallStep(c)
-----------------------------------------------------------------------------
(* Properties. *)

TypeOK ==
  /\ ToSet(view.list) \subseteq [id : 1..MaxUsers, role : Roles, status : Statuses]
  /\ IsInjective(view.list) /\ Len(view.list) <= PAGE_SIZE
  /\ view.page \in 0..MaxUsers /\ view.total \in 0..MaxUsers
  /\ {view.hasMore, view.loading, view.error, view.editLoading, view.resetLoading,
      view.toggleLoading, view.listed} \subseteq BOOLEAN
  /\ \A u \in users : u.id \in 1..MaxUsers /\ u.role \in Roles /\ u.status \in Statuses

\* Whatever fails, and in whatever order answers arrive, neither the list nor a
\* form stays busy.
SpinnersStop ==
  Quiet => ~view.loading /\ ~view.editLoading /\ ~view.resetLoading /\ ~view.toggleLoading

\* A page that has become empty is turned back (Users.tsx:192): nobody is left
\* in front of a page without users.
NoDeadPage == Quiet /\ ~view.error => view.list # <<>>

\* When the last answer was for the page that is shown, the page shows the
\* table, and its buttons lead to the rest of it.
ShowsTable ==
  Quiet /\ view.listed =>
    /\ view.list = Slice(view.page)
    /\ view.hasMore = ((view.page + 1) * PAGE_SIZE < Cardinality(users))
=============================================================================
