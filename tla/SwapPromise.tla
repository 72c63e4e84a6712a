----------------------------- MODULE SwapPromise -----------------------------
(***************************************************************************)
(* What the service promises about one swap, whatever goes wrong between   *)
(* the ledger, the provider and the record store (server/swap.js, lines    *)
(* 1-15): the credits are burned once and then either stay held, or buy    *)
(* one card that is in the wallet before the burn becomes final, or come   *)
(* back with no card; never both, and never undone.                        *)
(***************************************************************************)
CONSTANT Requests

VARIABLES
  promise,   \* per request: "none", "held", "delivered" or "refunded"
  card       \* per request: has the wallet a card sealed for the learner?

Init ==
  /\ promise = [r \in Requests |-> "none"]
  /\ card = [r \in Requests |-> FALSE]

Hold(r) ==
  /\ promise[r] = "none"
  /\ promise' = [promise EXCEPT ![r] = "held"]
  /\ UNCHANGED card

Seal(r) ==
  /\ promise[r] = "held"
  /\ card' = [card EXCEPT ![r] = TRUE]
  /\ UNCHANGED promise

Deliver(r) ==
  /\ promise[r] = "held" /\ card[r]
  /\ promise' = [promise EXCEPT ![r] = "delivered"]
  /\ UNCHANGED card

Refund(r) ==
  /\ promise[r] = "held" /\ ~card[r]
  /\ promise' = [promise EXCEPT ![r] = "refunded"]
  /\ UNCHANGED card

Next == \E r \in Requests : Hold(r) \/ Seal(r) \/ Deliver(r) \/ Refund(r)

Spec == Init /\ [][Next]_<<promise, card>>
=============================================================================
