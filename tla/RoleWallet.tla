----------------------------- MODULE RoleWallet -----------------------------
(***************************************************************************)
(* How the service sends transactions with one role key: _send of class    *)
(* ChainLedger (server/ledger.js) over ethers' NonceManager.  Every award, *)
(* swap, settlement, refund and setting is a call here, and several        *)
(* handlers may be sending with the same key at once.                      *)
(*                                                                         *)
(* The manager asks the node once how many transactions the account has    *)
(* and counts on from there by itself, a nonce for every call it is given, *)
(* long before the transaction is sent.  The node mines at once what       *)
(* carries the account's next nonce and rejects everything else.           *)
(***************************************************************************)
EXTENDS Integers, Sequences, FiniteSets

CONSTANTS
  Callers,    \* the handlers that send with this key, one call at a time each
  Asked,      \* a count the node has not answered yet
  None,       \* no caller
  MaxNonce,   \* bound: transactions that can be mined
  MaxCounts   \* bound: counts asked of the node

ASSUME CallersAssumption == IsFiniteSet(Callers) /\ None \notin Callers
ASSUME AskedAssumption == Asked \notin Nat
ASSUME BoundsAssumption == MaxNonce \in Nat /\ MaxCounts \in Nat

VARIABLES
  next,        \* the nonce the node takes next from the account
  counts,      \* the counts asked of the node so far, in order
  manager,     \* which of them the manager builds on, and how far it counted
  call,        \* per caller: where its call is, and the nonce it was given
  overlapped,  \* history: have two calls ever been in flight together?
  lone,        \* history: the caller in flight that has had the key to itself
  strikes      \* history: lone calls in a row that a nonce has cost

vars == <<next, counts, manager, call, overlapped, lone, strikes>>
-----------------------------------------------------------------------------
Call == [pc : {"idle", "sending", "mined"}, promise : Nat, delta : Nat]
Idle == [pc |-> "idle", promise |-> 0, delta |-> 0]

TypeOK ==
  /\ next \in Nat
  /\ counts \in Seq(Nat \cup {Asked})
  /\ manager \in [promise : 0..Len(counts), delta : Nat]
  /\ call \in [Callers -> Call]
  /\ \A c \in Callers : call[c].pc # "idle" => call[c].promise \in 1..Len(counts)
  /\ overlapped \in BOOLEAN
  /\ lone \in Callers \cup {None}
  /\ strikes \in Nat

\* A manager that has not asked for a count, as new or after reset().
Unasked == [promise |-> 0, delta |-> 0]

Init ==
  /\ next = 0 /\ counts = <<>>
  /\ manager = Unasked
  /\ call = [c \in Callers |-> Idle]
  /\ overlapped = FALSE /\ lone = None /\ strikes = 0
-----------------------------------------------------------------------------
InFlight == {c \in Callers : call[c].pc # "idle"}

\* NonceManager.sendTransaction up to its first await: the count is asked for
\* unless one is already there, and the next nonce after it is this call's.
Send(c) ==
  LET p == IF manager.promise = 0 THEN Len(counts) + 1 ELSE manager.promise
  IN  /\ call[c].pc = "idle"
      /\ next + Cardinality(InFlight) < MaxNonce /\ p <= MaxCounts
      /\ counts' = IF p > Len(counts) THEN Append(counts, Asked) ELSE counts
      /\ manager' = [promise |-> p, delta |-> manager.delta + 1]
      /\ call' = [call EXCEPT ![c] = [pc |-> "sending", promise |-> p, delta |-> manager.delta]]
      /\ overlapped' = (overlapped \/ InFlight # {})
      /\ lone' = IF InFlight = {} THEN c ELSE None
      /\ strikes' = IF InFlight = {} THEN strikes ELSE 0
      /\ UNCHANGED next

\* The node answers eth_getTransactionCount.
CountKnown(p) ==
  /\ counts[p] = Asked
  /\ counts' = [counts EXCEPT ![p] = next]
  /\ UNCHANGED <<next, manager, call, overlapped, lone, strikes>>

Known(c) == counts[call[c].promise] # Asked
Nonce(c) == counts[call[c].promise] + call[c].delta

\* Mutant: the manager counts on after a failure, as before the fix.
ResetForgotten == manager

\* What a failure leaves of the manager.
Reset == Unasked

End(c) == call' = [call EXCEPT ![c] = Idle]

\* The catch of _send: the caller is told, and the manager starts anew.
Fail(c) == End(c) /\ manager' = Reset

\* A revert found by the gas estimate, or a request that never got through:
\* nothing is sent, and the nonce stays unused.
Refused(c) ==
  /\ call[c].pc = "sending"
  /\ Fail(c)
  /\ UNCHANGED <<next, counts, overlapped, lone, strikes>>

Mine(c) ==
  /\ call[c].pc = "sending" /\ Known(c) /\ Nonce(c) = next
  /\ next' = next + 1
  /\ strikes' = 0
  /\ UNCHANGED <<counts, overlapped, lone>>

Mined(c) == Mine(c) /\ call' = [call EXCEPT ![c].pc = "mined"] /\ UNCHANGED manager

\* The state changed after the estimate: the revert uses up the nonce.
MinedReverted(c) == Mine(c) /\ Fail(c)

\* Nonce too high, or already used.
Clash(c) ==
  /\ call[c].pc = "sending" /\ Known(c) /\ Nonce(c) # next
  /\ Fail(c)
  /\ strikes' = IF lone = c THEN strikes + 1 ELSE strikes
  /\ UNCHANGED <<next, counts, overlapped, lone>>

Receipt(c) ==
  /\ call[c].pc = "mined"
  /\ End(c)
  /\ UNCHANGED <<next, counts, manager, overlapped, lone, strikes>>

\* Mined, but the reply that says so is lost.
ReceiptLost(c) ==
  /\ call[c].pc = "mined"
  /\ Fail(c)
  /\ UNCHANGED <<next, counts, overlapped, lone, strikes>>

Answered(c) == Receipt(c) \/ ReceiptLost(c)
Tried(c) == Refused(c) \/ Mined(c) \/ MinedReverted(c) \/ Clash(c)

Next ==
  \/ \E c \in Callers : Send(c) \/ Tried(c) \/ Answered(c)
  \/ \E p \in DOMAIN counts : CountKnown(p)

Spec == Init /\ [][Next]_vars
-----------------------------------------------------------------------------
\* What the reset in _send is for (ledger.js lines 432-436): a revert, a lost
\* receipt or a request that never got through costs no later call anything:
\* as long as calls do not overlap, none ever fails by its nonce.
SequentialCallsNeverClash == ~overlapped => strikes = 0

\* No interleaving of failures and resets leaves the key "dead for the rest of
\* the run" (ledger.js lines 435-436): however many calls overlapped before, of
\* those made one at a time afterwards at most the first is lost to a nonce.
KeyRecovers == strikes <= 1
=============================================================================
