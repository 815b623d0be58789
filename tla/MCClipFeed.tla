----------------------------- MODULE MCClipFeed -----------------------------
(* Values of ClipFeed's constants for TLC: the second clip is an image. *)
EXTENDS ClipFeed

MCKindOf == [c \in 1..MaxRows |-> IF c = 2 THEN "image" ELSE "text"]
=============================================================================
