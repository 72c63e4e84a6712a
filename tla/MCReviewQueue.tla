---------------------------- MODULE MCReviewQueue ----------------------------
(***************************************************************************)
(* Model values for ReviewQueue: two reviews, interchangeable, and two     *)
(* desks, likewise; submissions that pass, that miss a choice or the       *)
(* question, and that miss two criteria; a mission whose version goes up   *)
(* and comes back, and whose reward is halved.                             *)
(***************************************************************************)
EXTENDS ReviewQueue, TLC

CONSTANTS s1, s2, d1, d2

Sent ==
  {[answers |-> a, attempts |-> t] :
     a \in {Choices, Choices \ {"q2"}}, t \in {{{"phrase", "?"}}, {{"phrase"}, {}}}}

First == [version |-> 1, reward |-> 100]
Configured == {First, [version |-> 2, reward |-> 100], [version |-> 1, reward |-> 50]}

Anywhere == [LEDGER : {"chain", "memory", "unset"}, deployed : BOOLEAN, answers : BOOLEAN]
OnChain == [LEDGER : {"unset"}, deployed : {TRUE}, answers : {TRUE}]

Symmetry == Permutations(Reviews) \cup Permutations(Desks)
=============================================================================
