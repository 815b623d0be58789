----------------------------- MODULE MCClipStore -----------------------------
(* Values of ClipStore's constants for TLC. *)
EXTENDS ClipStore, TLC

CONSTANTS u1, u2, f1, t1, t2, t3

\* Every upload belongs to u1; a second user may only ask for what is not its own.
MCOwner == [i \in Items |-> u1]
MCSize == [i \in Items |-> IF i = t2 THEN 2 ELSE 1]
==============================================================================
