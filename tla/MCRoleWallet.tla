----------------------------- MODULE MCRoleWallet -----------------------------
(***************************************************************************)
(* Model values for RoleWallet: callers that are interchangeable.          *)
(***************************************************************************)
EXTENDS RoleWallet, TLC

CONSTANTS c1, c2, c3

Symmetry == Permutations(Callers)
=============================================================================
