----------------------------- MODULE CreditSums -----------------------------
(***************************************************************************)
(* Sums over finite sets.  Neither ledger keeps the sums its totals stand  *)
(* for: totalOutstanding is updated next to every balance and is only      *)
(* hoped to equal their sum.  To say so, a credit is taken for what it is, *)
(* an indivisible unit: Units(f, S) holds one element <<x, k>> for every   *)
(* credit k of x's amount f[x], and SumOver counts them.  The form is      *)
(* chosen for proof: what a sum does when one amount changes follows from  *)
(* facts on the cardinality of finite sets (LanguageCreditsProofs), with   *)
(* no induction over a recursive definition.                               *)
(***************************************************************************)
EXTENDS Integers, FiniteSets

Units(f, S) == UNION {{x} \X (1..f[x]) : x \in S}

SumOver(f, S) == Cardinality(Units(f, S))

=============================================================================
