---------------------------- MODULE DashboardPage ----------------------------
(***************************************************************************)
(* The administrator's counters (web/src/pages/admin/Dashboard.tsx), asked *)
(* for when the page is opened, by hand, and every 30 seconds.  What they  *)
(* count stands for one number that grows.                                 *)
(***************************************************************************)
EXTENDS WebPage

VARIABLES count  \* what GET /api/admin/stats would tell

vars == <<count, view, calls, bounds>>

\* stats: the count shown, 0 for none.
Fresh == [stats |-> 0, loading |-> TRUE, refreshing |-> FALSE, error |-> FALSE]

MountCalls == With({}, "stats", 0)

Skeletons == view.loading /\ view.stats = 0 /\ ~view.error
Failed == view.error /\ view.stats = 0
Rendered == ~Skeletons /\ ~Failed

FetchStats(isRefresh, v) ==
  /\ calls' = With(calls, "stats", 0)
  /\ view' = [v EXCEPT !.refreshing = @ \/ isRefresh, !.error = FALSE]

\* The interval goes on whatever the page shows and whatever is under way.
Tick == Input /\ FetchStats(TRUE, view) /\ UNCHANGED count

Refresh ==
  /\ Rendered /\ Pressable(view.refreshing, FALSE) /\ Input
  /\ FetchStats(TRUE, view)
  /\ UNCHANGED count

HandleRetry ==
  /\ Failed /\ Pressable(view.loading, FALSE) /\ Input
  /\ FetchStats(FALSE, [view EXCEPT !.loading = TRUE])
  /\ UNCHANGED count

Grow ==
  /\ Trouble
  /\ count' = count + 1
  /\ UNCHANGED <<view, calls>>

ServeStats(c) ==
  /\ Sent(c, "stats")
  /\ Serve(c, {count})
  /\ UNCHANGED <<count, view, bounds>>

\* Any answer ends loading and refreshing, also of another request.
StatsAnswered(c) ==
  /\ Answered(c, "stats")
  /\ calls' = calls \ {c}
  /\ \E n \in c.answer :
       view' = [view EXCEPT !.stats = n, !.loading = FALSE, !.refreshing = FALSE]
  /\ UNCHANGED <<count, bounds>>

CallFails(c) ==
  /\ Erring(c)
  /\ calls' = calls \ {c}
  /\ view' = [view EXCEPT !.error = TRUE, !.loading = FALSE, !.refreshing = FALSE]
  /\ UNCHANGED count

Next ==
  \/ Tick \/ Refresh \/ HandleRetry \/ Grow
  \/ \E c \in calls : ServeStats(c) \/ StatsAnswered(c) \/ CallFails(c)

-----------------------------------------------------------------------------
(* Properties. *)

TypeOK ==
  /\ view.stats \in 0..count
  /\ {view.loading, view.refreshing, view.error} \subseteq BOOLEAN
  /\ \A c \in calls : c.answer \subseteq 1..count

\* In the end there is a count, or an error with a button to try again.
SpinnersStop ==
  Quiet => ~view.loading /\ ~view.refreshing /\ (Failed \/ view.stats # 0)
=============================================================================
