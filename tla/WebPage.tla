------------------------------ MODULE WebPage ------------------------------
(***************************************************************************)
(* What the pages of the web console have in common: the page that is      *)
(* mounted has a state (view) and requests under way (calls), and a page   *)
(* that is left forgets both.  A request is sent, then served or refused   *)
(* by the server, and its answer arrives some time later; or it fails,     *)
(* before or after it was served.  Answers may arrive in any order.        *)
(***************************************************************************)
EXTENDS Integers, FiniteSets

CONSTANTS
  MaxInputs,    \* bound on what the user does
  MaxTroubles   \* bound on requests that fail, and on what others change

ASSUME BoundsAssumption == {MaxInputs, MaxTroubles} \subseteq Nat

VARIABLES view, calls, inputs, troubles

bounds == <<inputs, troubles>>

Input == inputs < MaxInputs /\ inputs' = inputs + 1 /\ UNCHANGED troubles
Trouble == troubles < MaxTroubles /\ troubles' = troubles + 1 /\ UNCHANGED inputs

Calls(op) == {c \in calls : c.op = op}
Quiet == calls = {}

\* Requests with their numbers, so that two that ask the same stay two.
NewCall(op, arg, taken) ==
  [op |-> op, arg |-> arg, stage |-> "sent", answer |-> {},
   id |-> CHOOSE n \in 1..Cardinality(taken) + 1 : \A c \in taken : c.id # n]
With(taken, op, arg) == taken \cup {NewCall(op, arg, taken)}

Sent(c, op) == c.op = op /\ c.stage = "sent"
Answered(c, op) == c.op = op /\ c.stage = "served"

Serve(c, answer) == calls' = (calls \ {c}) \cup {[c EXCEPT !.stage = "served", !.answer = answer]}
Refuse(c) == calls' = (calls \ {c}) \cup {[c EXCEPT !.stage = "refused"]}

\* An error arrives for c: the server's, or one of the network on the way there
\* or back.  (An action of its own calls this with what the page makes of it.)
Erring(c) ==
  \/ c.stage = "refused" /\ UNCHANGED bounds
  \/ c.stage # "refused" /\ Trouble

\* A button that is loading or disabled cannot be pressed.
Pressable(loading, disabled) == ~(loading \/ disabled)
=============================================================================
