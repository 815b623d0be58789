----------------------------- MODULE ClipPromise -----------------------------
(***************************************************************************)
(* What the clip store promises to a client, with no database, no files    *)
(* and no scheduler: a clip becomes downloadable once, stays downloadable  *)
(* until a reason to withdraw it exists, and never comes back.             *)
(*                                                                         *)
(* ClipStore implements this module (see Promise in ClipStore.tla).        *)
(***************************************************************************)
CONSTANT Items

VARIABLES
  published,  \* clips that have been made available at some time
  live,       \* clips whose content can be downloaded now
  due         \* clips that may be withdrawn at this moment

promiseVars == <<published, live, due>>

Init ==
  /\ published = {}
  /\ live = {}
  /\ due = {}

Publish ==
  \E i \in Items \ published :
    /\ published' = published \cup {i}
    /\ live' = live \cup {i}
    /\ due' \subseteq Items

\* The reason exists when the clip goes, or the step that takes it is the reason.
Withdraw ==
  /\ live' \subseteq live
  /\ live \ live' \subseteq due \cup due'
  /\ UNCHANGED published
  /\ due' \subseteq Items

Next == Publish \/ Withdraw

Spec == Init /\ [][Next]_promiseVars
==============================================================================
