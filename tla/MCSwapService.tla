---------------------------- MODULE MCSwapService ----------------------------
(***************************************************************************)
(* Model values for SwapService: two learners' requests and two consoles,  *)
(* interchangeable but for the sets they are in.                           *)
(***************************************************************************)
EXTENDS SwapService, TLC

CONSTANTS r1, r2, o1, o2

Symmetry == Permutations(Requests) \cup Permutations(Operators)
=============================================================================
