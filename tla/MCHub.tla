-------------------------------- MODULE MCHub --------------------------------
(* Values of Hub's constants for TLC. *)
EXTENDS Hub, TLC

CONSTANTS u1, u2, c1, c2, p1, p2

\* Everything is of u1 ...
MCUserOf == [x \in Conns \cup Posts |-> u1]
\* ... or one of the connections is of u2.
MCUsersOf == [x \in Conns \cup Posts |-> IF x = c2 THEN u2 ELSE u1]
==============================================================================
