---------------------------- MODULE SettingsPage ----------------------------
(***************************************************************************)
(* The settings of a user (web/src/pages/Settings.tsx): days of retention, *)
(* password, and how much storage the clips use, which the page counts     *)
(* itself by walking through the list of clips page by page while clips    *)
(* come and go.  Every clip has size 1; what is counted is kept as the     *)
(* sequence of the clips' ids.                                             *)
(***************************************************************************)
EXTENDS WebPage, Sequences, SequencesExt, Listing

CONSTANTS
  Days,         \* values of retention_days
  MaxClips,     \* bound on clips, ids 1 .. MaxClips
  OldClips,     \* those there from the start
  CLIPS_LIMIT,  \* clips per request (100) ...
  MaxPages      \* ... and requests at most (100)

VARIABLES
  retention,  \* the user's row
  clips,      \* the ids of the user's clips ...
  lastClip    \* ... and the last one given out

table == <<retention, clips, lastClip>>
vars == <<table, view, calls, bounds>>

NoDays == 0

\* usage, counted: what was counted, unless counting failed.  left: the page
\* has sent its user away.  steady, known: history, the clips there ever since
\* the page was opened, and whether nobody else changed retention.
Fresh ==
  [profile |-> NoDays, loadingProfile |-> TRUE, saving |-> FALSE,
   usage |-> <<>>, counted |-> FALSE, truncated |-> FALSE, usageLoading |-> TRUE,
   left |-> FALSE, steady |-> clips, known |-> TRUE]

MountCalls == With(With({}, "profile", <<>>), "clips", <<>>)

Rendered == ~view.loadingProfile /\ ~view.left

\* The page is left, and what it asked for is of no interest any more.
Leave == view' = [view EXCEPT !.left = TRUE] /\ calls' = {}

-----------------------------------------------------------------------------
(* The user, and others. *)

\* Nothing is sent if the days are those of the profile.
HandleSaveRetention(d) ==
  /\ Rendered /\ Pressable(view.saving, view.saving) /\ d # view.profile /\ Input
  /\ calls' = With(calls, "retention", <<d>>)
  /\ view' = [view EXCEPT !.saving = TRUE]
  /\ UNCHANGED table

HandleSavePassword ==
  /\ Rendered /\ Pressable(view.saving, view.saving) /\ Input
  /\ calls' = With(calls, "password", <<>>)
  /\ view' = [view EXCEPT !.saving = TRUE]
  /\ UNCHANGED table

ClipCreated ==
  /\ lastClip < MaxClips /\ Trouble
  /\ lastClip' = lastClip + 1
  /\ clips' = clips \cup {lastClip + 1}
  /\ UNCHANGED <<retention, view, calls>>

ClipDeleted(id) ==
  /\ id \in clips /\ Trouble
  /\ clips' = clips \ {id}
  /\ view' = [view EXCEPT !.steady = @ \ {id}]
  /\ UNCHANGED <<retention, lastClip, calls>>

ChangeElsewhere(d) ==
  /\ d # retention /\ Trouble
  /\ retention' = d
  /\ view' = [view EXCEPT !.known = FALSE]
  /\ UNCHANGED <<clips, lastClip, calls>>

-----------------------------------------------------------------------------
(* The server. *)

\* Mutant of Below: the clip at the cursor is told again.
BelowOrAt(found) == IF found = <<>> THEN clips ELSE {id \in clips : id <= Last(found)}

\* ListClipItems: ORDER BY id DESC, from below the cursor if one is given.
Below(found) == IF found = <<>> THEN clips ELSE {id \in clips : id < Last(found)}
ClipItems(found) == Prefix(Descending(Below(found)), CLIPS_LIMIT)

ServeProfile(c) ==
  /\ Sent(c, "profile")
  /\ Serve(c, {<<retention>>})
  /\ UNCHANGED <<table, view, bounds>>

ServeClips(c) ==
  /\ Sent(c, "clips")
  /\ Serve(c, {ClipItems(c.arg)})
  /\ UNCHANGED <<table, view, bounds>>

ServeRetention(c) ==
  /\ Sent(c, "retention")
  /\ retention' = c.arg[1]
  /\ Serve(c, {c.arg})
  /\ UNCHANGED <<clips, lastClip, view, bounds>>

\* Refused if the old password is wrong.
ServePassword(c) ==
  /\ Sent(c, "password")
  /\ Serve(c, {}) \/ Refuse(c)
  /\ UNCHANGED <<table, view, bounds>>

ServeLogout(c) ==
  /\ Sent(c, "logout")
  /\ Serve(c, {})
  /\ UNCHANGED <<table, view, bounds>>

-----------------------------------------------------------------------------
(* Answers. *)

ProfileAnswered(c) ==
  /\ Answered(c, "profile")
  /\ calls' = calls \ {c}
  /\ \E a \in c.answer : view' = [view EXCEPT !.profile = a[1], !.loadingProfile = FALSE]
  /\ UNCHANGED <<table, bounds>>

\* computeUsage: a short page is the last one, and so is the one at the limit.
ClipsAnswered(c) ==
  /\ Answered(c, "clips")
  /\ \E a \in c.answer :
       LET found == c.arg \o a
           short == Len(a) < CLIPS_LIMIT
       IN  IF short \/ Len(found) = CLIPS_LIMIT * MaxPages
             THEN /\ calls' = calls \ {c}
                  /\ view' = [view EXCEPT !.usage = found, !.counted = TRUE, !.truncated = ~short,
                                          !.usageLoading = FALSE]
             ELSE /\ calls' = With(calls \ {c}, "clips", found)
                  /\ UNCHANGED view
  /\ UNCHANGED <<table, bounds>>

RetentionAnswered(c) ==
  /\ Answered(c, "retention")
  /\ calls' = calls \ {c}
  /\ \E a \in c.answer : view' = [view EXCEPT !.profile = a[1], !.saving = FALSE]
  /\ UNCHANGED <<table, bounds>>

\* A new password signs the user out; saving lasts until that is done.
PasswordAnswered(c) ==
  /\ Answered(c, "password")
  /\ calls' = With(calls \ {c}, "logout", <<>>)
  /\ UNCHANGED <<table, view, bounds>>

LogoutAnswered(c) ==
  /\ Answered(c, "logout")
  /\ Leave
  /\ UNCHANGED <<table, bounds>>

\* Without a profile the page sends its user away; so does a logout that
\* fails.  Usage that cannot be counted is shown as 0.
CallFails(c) ==
  /\ Erring(c)
  /\ IF c.op \in {"profile", "logout"}
       THEN Leave
       ELSE /\ calls' = calls \ {c}
            /\ view' = IF c.op = "clips"
                         THEN [view EXCEPT !.usage = <<>>, !.truncated = FALSE, !.usageLoading = FALSE]
                         ELSE [view EXCEPT !.saving = FALSE, !.known = @ /\ c.op # "retention"]
  /\ UNCHANGED table

-----------------------------------------------------------------------------
CallStep(c) ==
  \/ ServeProfile(c) \/ ServeClips(c) \/ ServeRetention(c) \/ ServePassword(c) \/ ServeLogout(c)
  \/ ProfileAnswered(c) \/ ClipsAnswered(c) \/ RetentionAnswered(c) \/ PasswordAnswered(c)
  \/ LogoutAnswered(c)
  \/ CallFails(c)

Next ==
  \/ \E d \in Days : HandleSaveRetention(d) \/ ChangeElsewhere(d)
  \/ HandleSavePassword
  \/ ClipCreated
  \/ \E id \in clips : ClipDeleted(id)
  \/ \E c \in calls : CallStep(c)

-----------------------------------------------------------------------------
(* Properties. *)

TypeOK ==
  /\ view.profile \in Days \cup {NoDays}
  /\ {view.loadingProfile, view.saving, view.counted, view.truncated, view.usageLoading,
      view.left, view.known} \subseteq BOOLEAN
  /\ view.usage \in Seq(1..lastClip)
  /\ clips \subseteq 1..lastClip /\ view.steady \subseteq clips
  /\ retention \in Days

SpinnersStop ==
  Quiet /\ ~view.left => ~view.loadingProfile /\ ~view.saving /\ ~view.usageLoading

\* The profile shown is the row, unless somebody else changed it or a save
\* failed with the row changed or not.
ShowsTable == Quiet /\ ~view.left /\ view.known => view.profile = retention

\* However clips come and go under the walk, none is counted twice, and none
\* that was there throughout is left out, short of the limit of pages.
CountedOnce ==
  view.counted =>
    /\ IsInjective(view.usage)
    /\ ~view.truncated => view.steady \subseteq ToSet(view.usage)
    /\ view.truncated => Len(view.usage) = CLIPS_LIMIT * MaxPages
=============================================================================
