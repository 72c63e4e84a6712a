--------------------------- MODULE MCLedgerParity ---------------------------
(***************************************************************************)
(* Instances of LedgerParity for TLC.                                      *)
(***************************************************************************)
EXTENDS LedgerParity, TLC

CONSTANTS l1, l2

Symmetry == Permutations(Learners)

\* The redeemer's key may be revoked and granted again.
Rotation == {<<"REDEEMER_ROLE", redeemer>>}
=============================================================================
