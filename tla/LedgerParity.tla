---------------------------- MODULE LedgerParity ----------------------------
(***************************************************************************)
(* The contract and its JavaScript mirror driven in lockstep, as           *)
(* test/parity.test.js drives them: each step gives both the same call at  *)
(* the same time, and a call one of them refuses leaves it as its own      *)
(* language leaves it: the contract as it was, the mirror as far as the    *)
(* method had come.  Missions, the switch and the roles are set once and   *)
(* for both; what the ledgers do with them is not shared.                  *)
(***************************************************************************)
EXTENDS Integers, Sequences, FiniteSets

CONSTANTS
  Learners, Missions, Items, Actors, admin, verifier, redeemer, fulfiller,
  MAX_MISSION_REWARD, LIFETIME_CAP, CREDIT_TTL, REFUND_GRACE_PERIOD,
  MaxStock, Rewards, Versions, Costs, Stocks, RoleChanges, MaxSwaps, MaxTime

VARIABLES
  missions, paused, roles, now,                             \* common to both
  chainItems, chainAccounts, chainCompleted, chainSwaps, chainTotals,
  memItems, memAccounts, memCompleted, memSwaps, memTotals

Chain == INSTANCE LanguageCredits WITH
  items <- chainItems, accounts <- chainAccounts, completed <- chainCompleted,
  swaps <- chainSwaps, totals <- chainTotals

Memory == INSTANCE MemoryLedger WITH
  items <- memItems, accounts <- memAccounts, completed <- memCompleted,
  swaps <- memSwaps, totals <- memTotals

common == <<missions, paused, roles, now>>
chain == <<chainItems, chainAccounts, chainCompleted, chainSwaps, chainTotals>>
memory == <<memItems, memAccounts, memCompleted, memSwaps, memTotals>>
vars == <<common, chain, memory>>

Init == Chain!Init /\ Memory!Init
-----------------------------------------------------------------------------
\* The same call to both.  A ledger that refuses it is left as it was: what a
\* refused call of the mirror leaves behind is part of the mirror's own actions.
Both(mayChain, chainCall, mayMemory, memoryCall) ==
  /\ IF mayChain THEN chainCall ELSE UNCHANGED <<common, chain>>
  /\ IF mayMemory THEN memoryCall ELSE UNCHANGED <<common, memory>>

\* The missions, the switch and the roles are the same, so both take the call.
Configure(a) ==
  \/ \E m \in Missions, r \in Rewards, v \in Versions, on \in BOOLEAN :
       Chain!ConfigureMission(a, m, r, v, on) /\ Memory!ConfigureMission(a, m, r, v, on)
  \/ \E i \in Items, c \in Costs, n \in Stocks, on \in BOOLEAN :
       Both(Chain!MayConfigureItem(a, c), Chain!ConfigureCatalogItem(a, i, c, n, on),
            Memory!MayConfigureItem(a, c), Memory!ConfigureCatalogItem(a, i, c, n, on))
  \/ Chain!Pause(a) /\ Memory!Pause(a)
  \/ Chain!Unpause(a) /\ Memory!Unpause(a)

\* By the admin: the mirror has no renounceRole.
ChangeRole(role, account) ==
  \/ Chain!GrantRole(admin, role, account) /\ Memory!GrantRole(admin, role, account)
  \/ Chain!RevokeRole(admin, role, account) /\ Memory!RevokeRole(admin, role, account)

\* Mutant: the contract's award is compared with a mirror that forgets it.
AwardOnChainOnly(a, l, m) ==
  Both(Chain!MayAward(a, l, m), Chain!AwardCredits(a, l, m), FALSE, Memory!Award(a, l, m))

Award(a, l, m) ==
  Both(Chain!MayAward(a, l, m), Chain!AwardCredits(a, l, m),
       Memory!Awards(a, l, m), Memory!Award(a, l, m))

Sweep(l) ==
  Both(Chain!MaySweep(l), Chain!SweepExpired(l), Memory!MaySweep(l), Memory!SweepExpired(l))

Request(a, l, i) ==
  Both(Chain!MayRequest(a, l, i), Chain!RequestSwap(a, l, i),
       Memory!Requests(a, l, i), Memory!Request(a, l, i))

Settle(a, s) ==
  Both(Chain!MaySettle(a, s), Chain!SettleSwap(a, s), Memory!MaySettle(a, s), Memory!SettleSwap(a, s))

Cancel(a, s) ==
  Both(Chain!MayRefund(a, s), Chain!CancelSwap(a, s), Memory!MayCancel(a, s), Memory!CancelSwap(a, s))

Tick == Chain!Tick /\ Memory!Tick

Next ==
  \/ \E a \in Actors : Configure(a)
  \/ \E rc \in RoleChanges : ChangeRole(rc[1], rc[2])
  \/ \E a \in Actors, l \in Learners, m \in Missions : Award(a, l, m)
  \/ \E l \in Learners : Sweep(l)
  \/ \E a \in Actors, l \in Learners, i \in Items : Request(a, l, i)
  \/ \E a \in Actors, s \in DOMAIN chainSwaps : Settle(a, s)
  \/ \E a \in Actors, s \in DOMAIN chainSwaps : Cancel(a, s)
  \/ Tick

Spec == Init /\ [][Next]_vars
-----------------------------------------------------------------------------
\* GET /api/me, but for what the session itself holds.
Me(balance, account) ==
  [balance |-> balance, lifetimeAwarded |-> account.lifetimeAwarded,
   expiresAt |-> account.expiresAt, paused |-> paused]

ChainMe(l) == Me(Chain!BalanceOf(l), chainAccounts[l])
MirrorMe(l) == Me(Memory!BalanceOf(l), memAccounts[l])

\* stats(), with what is outstanding taken together with what is expired.
Stats(totals) ==
  [awarded |-> totals.awarded, inSwap |-> totals.inSwap, swapped |-> totals.swapped,
   unspent |-> totals.outstanding + totals.expired]

\* "the contract and the JavaScript mirror produce the same transcript"
\* (parity.test.js line 158), as far as it does: what a learner or the console
\* acts on agrees after any calls, refused ones too: what GET /api/me answers,
\* the completions, the stock, the swaps, and the statistics but for how many
\* of the unusable credits are booked as expired yet.
SameToTheReader ==
  /\ \A l \in Learners : ChainMe(l) = MirrorMe(l)
  /\ <<chainItems, chainCompleted, chainSwaps>> = <<memItems, memCompleted, memSwaps>>
  /\ Stats(chainTotals) = Stats(memTotals)

\* The mirror is never behind: it has booked as expired all that the contract
\* has, and what it booked first is in accounts nobody can spend from.
MirrorSweepsFirst ==
  \A l \in Learners :
    \/ memAccounts[l].balance = chainAccounts[l].balance
    \/ memAccounts[l].balance = 0 /\ Chain!IsExpired(l)

\* "MemoryLedger implements every rule LanguageCredits.sol does" (ledger.js
\* line 3), as refinement: each step of the mirror, refused calls included, is
\* one the contract could take, so what holds of the contract holds of it.
MirrorImplementsContract == Memory!ImplementsContract

\* "Inventory is stock a sponsor has already funded - nothing is listed
\* beyond it" (LanguageCredits.sol lines 170-171): whatever was awarded, swept,
\* refunded or configured before, a swap opens only with a unit left.
NothingListedBeyondStock == Memory!NothingListedBeyondStock
=============================================================================
