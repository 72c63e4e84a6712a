---------------------------- MODULE MemoryLedger ----------------------------
(***************************************************************************)
(* The JavaScript mirror of the contract, class MemoryLedger of            *)
(* server/ledger.js, as the service uses it: every method runs to its end  *)
(* without giving way, so one call is one action.                          *)
(*                                                                         *)
(* Nothing rolls a method back when it throws.  The two methods that sweep *)
(* an expired account before their last check therefore have a second      *)
(* action each, for the call that is refused after the sweep.              *)
(*                                                                         *)
(* Numbers are JavaScript numbers: what an admin configures is not held to *)
(* an unsigned word, so Stocks may hold any integer here.                  *)
(***************************************************************************)
EXTENDS Integers, Sequences, FiniteSets

CONSTANTS
  Learners, Missions, Items, Actors,
  admin, verifier, redeemer, fulfiller,   \* the actors createApp seeds
  MAX_MISSION_REWARD, LIFETIME_CAP,
  CREDIT_TTL, REFUND_GRACE_PERIOD,
  MaxStock,        \* type(uint64).max, for the comparison with the contract
  Rewards, Versions, Costs, Stocks,       \* what an admin may configure
  RoleChanges,     \* the <<role, actor>> pairs granted or revoked later on
  MaxSwaps,        \* bound: swaps opened in one behaviour
  MaxTime          \* bound: the last second explored

VARIABLES missions, items, accounts, completed, swaps, totals, paused, roles,
          now      \* the clock this.now() reads, in seconds

vars == <<missions, items, accounts, completed, swaps, totals, paused, roles, now>>
-----------------------------------------------------------------------------
Roles == {"DEFAULT_ADMIN_ROLE", "ADMIN_ROLE", "VERIFIER_ROLE",
          "REDEEMER_ROLE", "FULFILLER_ROLE"}

RoleAdmin(role) ==
  IF role \in {"VERIFIER_ROLE", "REDEEMER_ROLE", "FULFILLER_ROLE"}
    THEN "ADMIN_ROLE" ELSE "DEFAULT_ADMIN_ROLE"

\* Who holds what once the constructor and the service's seed are done.
SeededRoles ==
  [r \in Roles |-> CASE r = "VERIFIER_ROLE"  -> {verifier}
                     [] r = "REDEEMER_ROLE"  -> {redeemer}
                     [] r = "FULFILLER_ROLE" -> {fulfiller}
                     [] OTHER -> {admin}]

\* A mission, an item or an account the maps do not hold reads as this.
NoMission == [reward |-> 0, version |-> 0, active |-> FALSE, exists |-> FALSE]
NoItem == [cost |-> 0, inventory |-> 0, active |-> FALSE, exists |-> FALSE]
FreshAccount == [balance |-> 0, lifetimeAwarded |-> 0, expiresAt |-> 0]

Init ==
  /\ missions = [m \in Missions |-> NoMission]
  /\ items = [i \in Items |-> NoItem]
  /\ accounts = [l \in Learners |-> FreshAccount]
  /\ completed = {}
  /\ swaps = <<>>
  /\ totals = [awarded |-> 0, outstanding |-> 0, inSwap |-> 0, swapped |-> 0, expired |-> 0]
  /\ paused = FALSE
  /\ roles = SeededRoles
  /\ now = 0
-----------------------------------------------------------------------------
IsExpired(l) == accounts[l].expiresAt # 0 /\ now >= accounts[l].expiresAt

\* Mutant: the sweep forgets to ask whether the account has expired.
DueUnasked(l) == accounts[l].balance

\* What _sweepIfExpired(l) expires now.
Due(l) == IF IsExpired(l) THEN accounts[l].balance ELSE 0

BalanceOf(l) == IF IsExpired(l) THEN 0 ELSE accounts[l].balance

\* Mutant: the swept amount stays among the outstanding credits.
SweptTotalsKept(l) == [totals EXCEPT !.expired = @ + Due(l)]

\* The totals after _sweepIfExpired(l).
SweptTotals(l) == [totals EXCEPT !.outstanding = @ - Due(l), !.expired = @ + Due(l)]

\* A refused call that had already swept: the sweep is all that is left of it.
SweptOnly(l) ==
  /\ Due(l) # 0
  /\ accounts' = [accounts EXCEPT ![l].balance = 0]
  /\ totals' = SweptTotals(l)
  /\ UNCHANGED <<missions, items, completed, swaps, paused, roles, now>>

ConfigureMission(actor, m, reward, version, active) ==
  /\ actor \in roles["ADMIN_ROLE"]
  /\ reward > 0 /\ reward <= MAX_MISSION_REWARD
  /\ missions' = [missions EXCEPT ![m] =
       [reward |-> reward, version |-> version, active |-> active, exists |-> TRUE]]
  /\ UNCHANGED <<items, accounts, completed, swaps, totals, paused, roles, now>>

MayConfigureItem(actor, cost) == actor \in roles["ADMIN_ROLE"] /\ cost > 0

\* The cost is checked, the inventory is not.
ConfigureCatalogItem(actor, i, cost, inventory, active) ==
  /\ MayConfigureItem(actor, cost)
  /\ items' = [items EXCEPT ![i] =
       [cost |-> cost, inventory |-> inventory, active |-> active, exists |-> TRUE]]
  /\ UNCHANGED <<missions, accounts, completed, swaps, totals, paused, roles, now>>

Pause(actor) ==
  /\ actor \in roles["ADMIN_ROLE"] /\ ~paused
  /\ paused' = TRUE
  /\ UNCHANGED <<missions, items, accounts, completed, swaps, totals, roles, now>>

Unpause(actor) ==
  /\ actor \in roles["ADMIN_ROLE"] /\ paused
  /\ paused' = FALSE
  /\ UNCHANGED <<missions, items, accounts, completed, swaps, totals, roles, now>>

\* The checks of awardCredits that come before its sweep.
MayAward(actor, l, m) ==
  /\ actor \in roles["VERIFIER_ROLE"]
  /\ ~paused
  /\ missions[m].active
  /\ <<l, m, missions[m].version>> \notin completed

OverCap(l, m) == accounts[l].lifetimeAwarded + missions[m].reward > LIFETIME_CAP

AwardCredits(actor, l, m) ==
  LET reward == missions[m].reward
  IN  /\ MayAward(actor, l, m)
      /\ ~OverCap(l, m)
      /\ completed' = completed \cup {<<l, m, missions[m].version>>}
      /\ accounts' = [accounts EXCEPT ![l] =
           [balance         |-> @.balance - Due(l) + reward,
            lifetimeAwarded |-> @.lifetimeAwarded + reward,
            expiresAt       |-> now + CREDIT_TTL]]
      /\ totals' = [SweptTotals(l) EXCEPT !.awarded = @ + reward, !.outstanding = @ + reward]
      /\ UNCHANGED <<missions, items, swaps, paused, roles, now>>

\* LifetimeCapExceeded is thrown after the sweep.
AwardRefusedAfterSweep(actor, l, m) ==
  MayAward(actor, l, m) /\ OverCap(l, m) /\ SweptOnly(l)

MaySweep(l) == accounts[l].balance # 0 /\ IsExpired(l)

SweepExpired(l) == MaySweep(l) /\ SweptOnly(l)

\* Mutant: the stock is not asked.
SoldOutNever(i) == FALSE

\* Only a stock of exactly zero is sold out.
SoldOut(i) == items[i].inventory = 0

\* The checks of requestSwap that come before its sweep.
MayRequest(actor, i) ==
  /\ actor \in roles["REDEEMER_ROLE"]
  /\ ~paused
  /\ items[i].active
  /\ ~SoldOut(i)

Affords(l, i) == accounts[l].balance - Due(l) >= items[i].cost

RequestSwap(actor, l, i) ==
  LET cost == items[i].cost
  IN  /\ MayRequest(actor, i)
      /\ Affords(l, i)
      /\ Len(swaps) < MaxSwaps
      /\ accounts' = [accounts EXCEPT ![l].balance = @ - Due(l) - cost]
      /\ items' = [items EXCEPT ![i].inventory = @ - 1]
      /\ totals' = [SweptTotals(l) EXCEPT !.outstanding = @ - cost, !.inSwap = @ + cost]
      /\ swaps' = Append(swaps, [learner |-> l, item |-> i, cost |-> cost, status |-> "Requested"])
      /\ UNCHANGED <<missions, completed, paused, roles, now>>

\* InsufficientCredits is thrown after the sweep.
RequestRefusedAfterSweep(actor, l, i) ==
  MayRequest(actor, i) /\ ~Affords(l, i) /\ SweptOnly(l)

MaySettle(actor, s) ==
  actor \in roles["FULFILLER_ROLE"] /\ ~paused /\ swaps[s].status = "Requested"

SettleSwap(actor, s) ==
  /\ MaySettle(actor, s)
  /\ swaps' = [swaps EXCEPT ![s].status = "Settled"]
  /\ totals' = [totals EXCEPT !.inSwap = @ - swaps[s].cost, !.swapped = @ + swaps[s].cost]
  /\ UNCHANGED <<missions, items, accounts, completed, paused, roles, now>>

\* Mutant: the old balance of an expired account survives the refund.
RefundedBalanceKept(l, cost) == accounts[l].balance + cost

\* The balance a refund leaves: an expired account loses what else it held.
RefundedBalance(l, cost) == accounts[l].balance - Due(l) + cost

MayCancel(actor, s) ==
  actor \in roles["FULFILLER_ROLE"] \cup roles["ADMIN_ROLE"] /\ swaps[s].status = "Requested"

\* Not blocked by pause, and no counter of the stock can overflow.
CancelSwap(actor, s) ==
  LET l    == swaps[s].learner
      cost == swaps[s].cost
  IN  /\ MayCancel(actor, s)
      /\ swaps' = [swaps EXCEPT ![s].status = "Cancelled"]
      /\ accounts' = [accounts EXCEPT ![l] =
           [balance         |-> RefundedBalance(l, cost),
            lifetimeAwarded |-> @.lifetimeAwarded,
            expiresAt       |-> IF IsExpired(l) THEN now + REFUND_GRACE_PERIOD ELSE @.expiresAt]]
      /\ items' = [items EXCEPT ![swaps[s].item].inventory = @ + 1]
      /\ totals' = [SweptTotals(l) EXCEPT !.inSwap = @ - cost, !.outstanding = @ + cost]
      /\ UNCHANGED <<missions, completed, paused, roles, now>>

GrantRole(actor, role, account) ==
  /\ actor \in roles[RoleAdmin(role)]
  /\ roles' = [roles EXCEPT ![role] = @ \cup {account}]
  /\ UNCHANGED <<missions, items, accounts, completed, swaps, totals, paused, now>>

RevokeRole(actor, role, account) ==
  /\ actor \in roles[RoleAdmin(role)]
  /\ roles' = [roles EXCEPT ![role] = @ \ {account}]
  /\ UNCHANGED <<missions, items, accounts, completed, swaps, totals, paused, now>>

Tick ==
  /\ now < MaxTime
  /\ now' = now + 1
  /\ UNCHANGED <<missions, items, accounts, completed, swaps, totals, paused, roles>>
-----------------------------------------------------------------------------
Admin(a) ==
  \/ \E m \in Missions, r \in Rewards, v \in Versions, on \in BOOLEAN :
       ConfigureMission(a, m, r, v, on)
  \/ \E i \in Items, c \in Costs, n \in Stocks, on \in BOOLEAN :
       ConfigureCatalogItem(a, i, c, n, on)
  \/ Pause(a)
  \/ Unpause(a)
  \/ \E rc \in RoleChanges : GrantRole(a, rc[1], rc[2])
  \/ \E rc \in RoleChanges : RevokeRole(a, rc[1], rc[2])

\* Refused or not, the call leaves something behind.
Awards(a, l, m) == MayAward(a, l, m) /\ (OverCap(l, m) => Due(l) # 0)
Award(a, l, m) == AwardCredits(a, l, m) \/ AwardRefusedAfterSweep(a, l, m)

Requests(a, l, i) ==
  MayRequest(a, i) /\ IF Affords(l, i) THEN Len(swaps) < MaxSwaps ELSE Due(l) # 0
Request(a, l, i) == RequestSwap(a, l, i) \/ RequestRefusedAfterSweep(a, l, i)

Next ==
  \/ \E a \in Actors : Admin(a)
  \/ \E a \in Actors, l \in Learners, m \in Missions : Award(a, l, m)
  \/ \E l \in Learners : SweepExpired(l)
  \/ \E a \in Actors, l \in Learners, i \in Items : Request(a, l, i)
  \/ \E a \in Actors, s \in DOMAIN swaps : SettleSwap(a, s)
  \/ \E a \in Actors, s \in DOMAIN swaps : CancelSwap(a, s)
  \/ Tick

Spec == Init /\ [][Next]_vars
-----------------------------------------------------------------------------
\* The contract, to compare with: every step of the mirror is a step of it.
Contract == INSTANCE LanguageCredits
ImplementsContract == Contract!Spec

\* A swap opens only for an item with a unit left.
NothingListedBeyondStock ==
  [][\A l \in Learners, i \in Items :
       Len(swaps') > Len(swaps) /\ swaps'[Len(swaps')].item = i => items[i].inventory > 0]_vars
=============================================================================
