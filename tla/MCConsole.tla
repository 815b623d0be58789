----------------------------- MODULE MCConsole -----------------------------
(* Values of Console's constants for TLC. *)
EXTENDS Console, TLC

CONSTANTS v1, v2, v3, ann, bob

Symmetry == Permutations(Visitors) \cup Permutations(Names)
MCDays == {7, 30}
=============================================================================
