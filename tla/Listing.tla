------------------------------ MODULE Listing ------------------------------
(***************************************************************************)
(* What ORDER BY id, LIMIT and the filter of an array make of a set or a   *)
(* list of ids, in a form that can be reasoned about: a list in order is   *)
(* chosen, never computed by a recursion.                                  *)
(***************************************************************************)
EXTENDS Integers, FiniteSets, Sequences

\* ORDER BY id DESC, ORDER BY id.
Descending(S) == CHOOSE s \in [1..Cardinality(S) -> S] : \A i, j \in DOMAIN s : i < j => s[i] > s[j]
Ascending(S) == CHOOSE s \in [1..Cardinality(S) -> S] : \A i, j \in DOMAIN s : i < j => s[i] < s[j]

\* LIMIT n, slice(0, n).
Prefix(s, n) == SubSeq(s, 1, IF n < Len(s) THEN n ELSE Len(s))

\* filter((x) => x !== e).
Without(s, e) ==
  LET kept == Ascending({i \in DOMAIN s : s[i] # e})
  IN  [k \in 1..Len(kept) |-> s[kept[k]]]
=============================================================================
