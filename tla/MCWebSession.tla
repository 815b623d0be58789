---------------------------- MODULE MCWebSession ----------------------------
(* Values of WebSession's constants for TLC: pairs are numbered. *)
EXTENDS WebSession, TLC

CONSTANTS t1, t2, me, r1

MCPairs == 1..4
MCManyPairs == 1..7
=============================================================================
