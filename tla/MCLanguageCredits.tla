-------------------------- MODULE MCLanguageCredits --------------------------
(***************************************************************************)
(* Instances of LanguageCredits for TLC.                                   *)
(***************************************************************************)
EXTENDS LanguageCredits, TLC

CONSTANTS l1, l2

Symmetry == Permutations(Learners)

\* The redeemer's key may be revoked and granted again.
Rotation == {<<"REDEEMER_ROLE", redeemer>>}
=============================================================================
