---------------------------- MODULE DevicesPage ----------------------------
(***************************************************************************)
(* The page of a user's devices (web/src/pages/Devices.tsx) against the    *)
(* table and its handlers (internal/api/devices.go): devices are created,  *)
(* with an API token that only the answer to the creation shows, their     *)
(* tokens revoked, and deleted.  A row is the device's id and whether it   *)
(* has a token.                                                            *)
(***************************************************************************)
EXTENDS WebPage

CONSTANTS
  MaxDevices,  \* bound on devices, ids 1 .. MaxDevices
  OldDevices   \* those there from the start, each with a token

VARIABLES
  devices,  \* the rows of the table ...
  created   \* ... and how many there ever were

table == <<devices, created>>
vars == <<table, view, calls, bounds>>

Row(id, token) == [id |-> id, token |-> token]
InitDevices == {Row(id, TRUE) : id \in 1..OldDevices}
WithId(rows, id) == {d \in rows : d.id = id}

\* revoke, delete: the device a confirmation is open for; token: the one shown
\* in its modal.  newest: history, the id of the last list call unless its
\* answer cannot be trusted to be up to date; listed: the list is its answer.
Fresh ==
  [list |-> {}, loadingList |-> TRUE, actionLoading |-> FALSE,
   createOpen |-> FALSE, createdToken |-> 0, revokeTarget |-> 0, deleteTarget |-> 0,
   newest |-> 1, listed |-> FALSE]

MountCalls == With({}, "list", 0)

\* fetchDevices, from a callback that ends with v and without the call c.
FetchAfter(v, c) ==
  LET rest == calls \ {c}
      call == NewCall("list", 0, rest)
  IN  /\ calls' = rest \cup {call}
      /\ view' = [v EXCEPT !.loadingList = TRUE, !.newest = call.id, !.listed = FALSE]

-----------------------------------------------------------------------------
(* The user. *)

\* The modals that are open.  They cover the page, and each other, for the
\* mouse; the keyboard reaches every button that is rendered and not disabled.
OpenModals ==
  {i \in 1..4 : \/ i = 1 /\ view.createOpen
                \/ i = 2 /\ view.createdToken # 0
                \/ i = 3 /\ view.revokeTarget # 0
                \/ i = 4 /\ view.deleteTarget # 0}

OpenCreate ==
  /\ ~view.createOpen /\ Input
  /\ view' = [view EXCEPT !.createOpen = TRUE]
  /\ UNCHANGED <<table, calls>>

\* The buttons of a row are there unless the list is loading.
OpenConfirm(d) ==
  /\ ~view.loadingList /\ d \in view.list /\ Input
  /\ \/ d.token /\ view' = [view EXCEPT !.revokeTarget = d.id]
     \/ view' = [view EXCEPT !.deleteTarget = d.id]
  /\ UNCHANGED <<table, calls>>

\* One is closed by its button, or Escape closes all, whatever is under way.
Dismiss ==
  /\ OpenModals # {} /\ Input
  /\ \E S \in {OpenModals} \cup {{i} : i \in OpenModals} :
       view' = [view EXCEPT !.createOpen = @ /\ 1 \notin S,
                            !.createdToken = IF 2 \in S THEN 0 ELSE @,
                            !.revokeTarget = IF 3 \in S THEN 0 ELSE @,
                            !.deleteTarget = IF 4 \in S THEN 0 ELSE @]
  /\ UNCHANGED <<table, calls>>

Start(op, id) ==
  /\ Input
  /\ calls' = With(calls, op, id)
  /\ view' = [view EXCEPT !.actionLoading = TRUE]
  /\ UNCHANGED table

\* Mutant of HandleCreate: the button can be pressed twice.
HandleCreateTwice == view.createOpen /\ Start("create", view.createdToken)

\* For the request to create, arg is history: the token that is shown meanwhile.
HandleCreate ==
  /\ view.createOpen /\ Pressable(view.actionLoading, view.actionLoading)
  /\ Start("create", view.createdToken)

HandleRevoke ==
  /\ view.revokeTarget # 0 /\ ~view.actionLoading
  /\ Start("revoke", view.revokeTarget)

HandleDelete ==
  /\ view.deleteTarget # 0 /\ ~view.actionLoading
  /\ Start("delete", view.deleteTarget)

-----------------------------------------------------------------------------
(* The server. *)

ServeList(c) ==
  /\ Sent(c, "list")
  /\ Serve(c, devices)
  /\ UNCHANGED <<table, view, bounds>>

ServeCreate(c) ==
  /\ Sent(c, "create") /\ created < MaxDevices
  /\ created' = created + 1
  /\ devices' = devices \cup {Row(created + 1, TRUE)}
  /\ Serve(c, {Row(created + 1, TRUE)})
  /\ UNCHANGED <<view, bounds>>

\* No row: 404.
ServeRevoke(c) ==
  /\ Sent(c, "revoke")
  /\ IF WithId(devices, c.arg) = {}
       THEN Refuse(c) /\ UNCHANGED devices
       ELSE /\ devices' = (devices \ WithId(devices, c.arg)) \cup {Row(c.arg, FALSE)}
            /\ Serve(c, {})
  /\ UNCHANGED <<created, view, bounds>>

ServeDelete(c) ==
  /\ Sent(c, "delete")
  /\ IF WithId(devices, c.arg) = {} THEN Refuse(c) ELSE Serve(c, {})
  /\ devices' = devices \ WithId(devices, c.arg)
  /\ UNCHANGED <<created, view, bounds>>

\* Another session of the user deletes a device.
DeleteElsewhere(d) ==
  /\ d \in devices /\ Trouble
  /\ devices' = devices \ {d}
  /\ view' = [view EXCEPT !.newest = 0, !.listed = FALSE]
  /\ UNCHANGED <<created, calls>>

-----------------------------------------------------------------------------
(* Answers. *)

ListAnswered(c) ==
  /\ Answered(c, "list")
  /\ calls' = calls \ {c}
  /\ view' = [view EXCEPT !.list = c.answer, !.loadingList = FALSE, !.listed = (c.id = view.newest)]
  /\ UNCHANGED <<table, bounds>>

\* The token is shown, and the modal and its form are reset.
CreateAnswered(c) ==
  /\ Answered(c, "create")
  /\ \E d \in c.answer :
       FetchAfter([view EXCEPT !.createdToken = d.id, !.createOpen = FALSE,
                               !.actionLoading = FALSE], c)
  /\ UNCHANGED <<table, bounds>>

RevokeAnswered(c) ==
  /\ Answered(c, "revoke")
  /\ FetchAfter([view EXCEPT !.revokeTarget = 0, !.actionLoading = FALSE], c)
  /\ UNCHANGED <<table, bounds>>

\* Mutant of DeleteAnswered: the list is not asked for again.
DeleteAnsweredOnly(c) ==
  /\ Answered(c, "delete")
  /\ calls' = calls \ {c}
  /\ view' = [view EXCEPT !.deleteTarget = 0, !.actionLoading = FALSE]
  /\ UNCHANGED <<table, bounds>>

DeleteAnswered(c) ==
  /\ Answered(c, "delete")
  /\ FetchAfter([view EXCEPT !.deleteTarget = 0, !.actionLoading = FALSE], c)
  /\ UNCHANGED <<table, bounds>>

\* An error is told; what was open stays open.
CallFails(c) ==
  /\ Erring(c)
  /\ calls' = calls \ {c}
  /\ view' = IF c.op = "list"
               THEN [view EXCEPT !.loadingList = FALSE]
               ELSE [view EXCEPT !.actionLoading = FALSE, !.newest = 0, !.listed = FALSE]
  /\ UNCHANGED table

-----------------------------------------------------------------------------
CallStep(c) ==
  \/ ServeList(c) \/ ServeCreate(c) \/ ServeRevoke(c) \/ ServeDelete(c)
  \/ ListAnswered(c) \/ CreateAnswered(c) \/ RevokeAnswered(c) \/ DeleteAnswered(c)
  \/ CallFails(c)

Next ==
  \/ OpenCreate \/ Dismiss \/ HandleCreate \/ HandleRevoke \/ HandleDelete
  \/ \E d \in view.list : OpenConfirm(d)
  \/ \E d \in devices : DeleteElsewhere(d)
  \/ \E c \in calls : CallStep(c)
-----------------------------------------------------------------------------
(* Properties. *)

TypeOK ==
  /\ view.list \subseteq [id : 1..created, token : BOOLEAN]
  /\ {view.loadingList, view.actionLoading, view.createOpen, view.listed} \subseteq BOOLEAN
  /\ {view.createdToken, view.revokeTarget, view.deleteTarget} \subseteq 0..created
  /\ devices \subseteq [id : 1..created, token : BOOLEAN]

\* Whatever fails, and in whatever order answers arrive, the page is usable
\* again when all requests have ended.
SpinnersStop == Quiet => ~view.loadingList /\ ~view.actionLoading

\* The list shown in the end is the table: every change of the page's own is
\* followed by a list of its own, unless that failed.
ShowsTable == Quiet /\ view.listed => view.list = devices
=============================================================================
