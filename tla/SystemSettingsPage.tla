------------------------- MODULE SystemSettingsPage -------------------------
(***************************************************************************)
(* The administrator's page of system settings                             *)
(* (web/src/pages/admin/SystemSettings.tsx).  It asks for the system's     *)
(* configuration, which no route of the server tells                       *)
(* (internal/api/server.go), and for the administrator's own account.      *)
(***************************************************************************)
EXTENDS WebPage

vars == <<view, calls, bounds>>

\* systemConfig, meData: whether there are any.  opening: the requests of
\* Promise.all that have not ended.
Fresh ==
  [systemConfig |-> FALSE, systemError |-> FALSE, meData |-> FALSE, meError |-> FALSE,
   opening |-> {"config", "me"}, refreshing |-> FALSE]

\* arg: whether the request is a refresh.
MountCalls == With(With({}, "config", FALSE), "me", FALSE)

loading == view.opening # {}

HandleRefresh ==
  /\ ~loading /\ Pressable(view.refreshing, FALSE) /\ Input
  /\ calls' = With(With(calls, "config", TRUE), "me", TRUE)
  /\ view' = [view EXCEPT !.refreshing = TRUE, !.systemError = FALSE, !.meError = FALSE]

\* The button next to the error.
RetryConfig ==
  /\ ~loading /\ view.systemError /\ Pressable(view.refreshing, FALSE) /\ Input
  /\ calls' = With(calls, "config", TRUE)
  /\ view' = [view EXCEPT !.refreshing = TRUE, !.systemError = FALSE]

ServeMe(c) ==
  /\ Sent(c, "me")
  /\ Serve(c, {})
  /\ UNCHANGED <<view, bounds>>

\* There is no such route.
ServeConfig(c) ==
  /\ Sent(c, "config")
  /\ Refuse(c)
  /\ UNCHANGED <<view, bounds>>

\* What the end of a request means for the flags, whatever its outcome.
Ended(v, c) ==
  [v EXCEPT !.opening = IF c.arg THEN @ ELSE @ \ {c.op},
            !.refreshing = @ /\ ~(c.op = "config" /\ c.arg)]

MeAnswered(c) ==
  /\ Answered(c, "me")
  /\ calls' = calls \ {c}
  /\ view' = Ended([view EXCEPT !.meData = TRUE], c)
  /\ UNCHANGED bounds

CallFails(c) ==
  /\ Erring(c)
  /\ calls' = calls \ {c}
  /\ view' = Ended(IF c.op = "config" THEN [view EXCEPT !.systemError = TRUE]
                                      ELSE [view EXCEPT !.meError = TRUE], c)

Next ==
  \/ HandleRefresh \/ RetryConfig
  \/ \E c \in calls : ServeMe(c) \/ ServeConfig(c) \/ MeAnswered(c) \/ CallFails(c)

-----------------------------------------------------------------------------
(* Properties. *)

TypeOK ==
  /\ {view.systemConfig, view.systemError, view.meData, view.meError, view.refreshing}
       \subseteq BOOLEAN
  /\ view.opening \subseteq {c.op : c \in {d \in calls : ~d.arg}}

\* In the end both halves of the page show something: data or an error.
SpinnersStop ==
  Quiet => /\ ~loading /\ ~view.refreshing
           /\ view.systemConfig \/ view.systemError
           /\ view.meData \/ view.meError
=============================================================================
