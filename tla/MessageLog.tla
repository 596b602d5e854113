----------------------------- MODULE MessageLog -----------------------------
(***************************************************************************)
(* What the information list of the dialog promises, without threads,      *)
(* mutex or window messages: messages are accepted one at a time, each     *)
(* producer's in the order it gives them, and the list shows exactly the   *)
(* accepted messages, in that order, a growing prefix of them.             *)
(***************************************************************************)
EXTENDS Naturals, Sequences

CONSTANT Producers     \* threads that report messages

VARIABLES
  accepted,   \* the messages accepted so far: pairs <<producer, number>>
  shown,      \* the lines of the list
  given       \* given[p]: how many of p's messages were accepted

vars == <<accepted, shown, given>>

Init ==
  /\ accepted = << >>
  /\ shown = << >>
  /\ given = [p \in Producers |-> 0]

Accept(p) ==
  /\ given' = [given EXCEPT ![p] = @ + 1]
  /\ accepted' = Append(accepted, <<p, given'[p]>>)
  /\ UNCHANGED shown

Show ==
  /\ Len(shown) < Len(accepted)
  /\ shown' = Append(shown, accepted[Len(shown) + 1])
  /\ UNCHANGED <<accepted, given>>

Next == Show \/ \E p \in Producers : Accept(p)

Safety == Init /\ [][Next]_vars

(* Nothing stays accepted and unshown.                                     *)
Fairness == WF_vars(Show)
Spec == Safety /\ Fairness
=============================================================================
