--------------------------- MODULE LanguageCredits ---------------------------
(***************************************************************************)
(* The deployed contract, contracts/contracts/LanguageCredits.sol: a       *)
(* credit ledger with missions that award, a catalog that credits are      *)
(* swapped for, credits that expire, and swaps that are held open until a  *)
(* card is in hand.                                                        *)
(*                                                                         *)
(* One action is one successful transaction.  A transaction that reverts   *)
(* changes nothing, so a refused call is a stuttering step; that is what   *)
(* the JavaScript mirror (MemoryLedger) does not give for free.  Hashes,   *)
(* product codes, proofs, commitments and events carry no control and are  *)
(* left out.  A swap's id is its index in the sequence swaps, one more     *)
(* than the contract's array index.                                        *)
(***************************************************************************)
EXTENDS Integers, Sequences, FiniteSets, CreditSums

CONSTANTS
  Learners, Missions, Items, Actors,
  admin, verifier, redeemer, fulfiller,   \* the accounts deploy.js uses
  MAX_MISSION_REWARD, LIFETIME_CAP,
  CREDIT_TTL, REFUND_GRACE_PERIOD,
  MaxStock,        \* type(uint64).max: the width of CatalogItem.inventory
  Rewards, Versions, Costs, Stocks,       \* what an admin may configure
  RoleChanges,     \* the <<role, account>> pairs granted or revoked later on
  MaxSwaps,        \* bound: swaps opened in one behaviour
  MaxTime          \* bound: the last block timestamp explored

ASSUME LearnersAssumption == IsFiniteSet(Learners)

ASSUME ActorsAssumption == {admin, verifier, redeemer, fulfiller} \subseteq Actors

\* The limits of lines 36-42; only their order matters, not their values.
ASSUME LimitsAssumption ==
  /\ MAX_MISSION_REWARD \in Nat /\ LIFETIME_CAP \in Nat
  /\ CREDIT_TTL \in Nat /\ REFUND_GRACE_PERIOD \in Nat
  /\ 0 < REFUND_GRACE_PERIOD /\ REFUND_GRACE_PERIOD <= CREDIT_TTL

\* The ABI admits only unsigned words of the declared width.
ASSUME InputsAssumption ==
  /\ Rewards \subseteq Nat /\ Versions \subseteq Nat /\ Costs \subseteq Nat
  /\ MaxStock \in Nat /\ Stocks \subseteq 0..MaxStock
  /\ MaxTime \in Nat /\ MaxSwaps \in Nat

\* Roles change hands among the known accounts.
ASSUME RolesAssumption == \A rc \in RoleChanges : rc[2] \in Actors

VARIABLES missions, items, accounts, completed, swaps, totals, paused, roles,
          now      \* block.timestamp

vars == <<missions, items, accounts, completed, swaps, totals, paused, roles, now>>
-----------------------------------------------------------------------------
Roles == {"DEFAULT_ADMIN_ROLE", "ADMIN_ROLE", "VERIFIER_ROLE",
          "REDEEMER_ROLE", "FULFILLER_ROLE"}

Mission == [reward : Nat, version : Versions \cup {0}, active : BOOLEAN, exists : BOOLEAN]
CatalogItem == [cost : Nat, inventory : 0..MaxStock, active : BOOLEAN, exists : BOOLEAN]
Account == [balance : Nat, lifetimeAwarded : 0..LIFETIME_CAP, expiresAt : Nat]
SwapStatus == {"Requested", "Settled", "Cancelled"}
Swap == [learner : Learners, item : Items, cost : Nat, status : SwapStatus]
Totals == [awarded : Nat, outstanding : Nat, inSwap : Nat, swapped : Nat, expired : Nat]

TypeOK ==
  /\ missions \in [Missions -> Mission]
  /\ items \in [Items -> CatalogItem]
  /\ accounts \in [Learners -> Account]
  /\ completed \subseteq Learners \X Missions \X (Versions \cup {0})
  /\ swaps \in Seq(Swap)
  /\ totals \in Totals
  /\ paused \in BOOLEAN
  /\ roles \in [Roles -> SUBSET Actors]
  /\ now \in 0..MaxTime

RoleAdmin(role) ==
  IF role \in {"VERIFIER_ROLE", "REDEEMER_ROLE", "FULFILLER_ROLE"}
    THEN "ADMIN_ROLE" ELSE "DEFAULT_ADMIN_ROLE"

\* Who holds what once the constructor and the deploy script are done.
InitialRoles ==
  [r \in Roles |-> CASE r = "VERIFIER_ROLE"  -> {verifier}
                     [] r = "REDEEMER_ROLE"  -> {redeemer}
                     [] r = "FULFILLER_ROLE" -> {fulfiller}
                     [] OTHER -> {admin}]

Init ==
  /\ missions = [m \in Missions |-> [reward |-> 0, version |-> 0, active |-> FALSE, exists |-> FALSE]]
  /\ items = [i \in Items |-> [cost |-> 0, inventory |-> 0, active |-> FALSE, exists |-> FALSE]]
  /\ accounts = [l \in Learners |-> [balance |-> 0, lifetimeAwarded |-> 0, expiresAt |-> 0]]
  /\ completed = {}
  /\ swaps = <<>>
  /\ totals = [awarded |-> 0, outstanding |-> 0, inSwap |-> 0, swapped |-> 0, expired |-> 0]
  /\ paused = FALSE
  /\ roles = InitialRoles
  /\ now = 0
-----------------------------------------------------------------------------
IsExpired(l) == accounts[l].expiresAt # 0 /\ now >= accounts[l].expiresAt

\* Mutant: the sweep forgets to ask whether the account has expired.
SweepableEarly(l) == accounts[l].balance

\* What _sweepIfExpired(l) expires now: the whole balance or nothing.
Sweepable(l) == IF IsExpired(l) THEN accounts[l].balance ELSE 0

\* Mutant: the expired credits are not counted as expired.
ExpireUncounted(t, amount) == [t EXCEPT !.outstanding = @ - amount]

\* The totals once amount has been expired by _expire.
Expire(t, amount) == [t EXCEPT !.outstanding = @ - amount, !.expired = @ + amount]

\* The view a learner's balance is read through.
BalanceOf(l) == IF IsExpired(l) THEN 0 ELSE accounts[l].balance

\* Mutant: the version is left out of the key.
CompletionKeyUnversioned(l, m) == <<l, m, 0>>

\* Where _completed records that l has done the mission as it stands.
CompletionKey(l, m) == <<l, m, missions[m].version>>

WithinCap(l, reward) == accounts[l].lifetimeAwarded + reward <= LIFETIME_CAP

InStock(i) == items[i].inventory # 0

\* Mutant: a refund takes a unit off the shelf as a request does.
ShelveOut(i, units) == [items EXCEPT ![i].inventory = @ - 1]

\* The catalog with units put back (or, if negative, taken).
Shelve(i, units) == [items EXCEPT ![i].inventory = @ + units]

\* Mutants: a swap that is already settled, or already refunded, passes for
\* an open one.
IsOpenUnlessCancelled(s) == swaps[s].status # "Cancelled"
IsOpenUnlessSettled(s) == swaps[s].status # "Settled"

\* The check shared by settleSwap and cancelSwap.
IsOpen(s) == swaps[s].status = "Requested"

\* Mutant: a refund waits for the programme to be un-paused.
MayCancelUnpaused(actor) ==
  ~paused /\ actor \in roles["FULFILLER_ROLE"] \cup roles["ADMIN_ROLE"]

\* A refund is the fulfiller's or an admin's, and no pause blocks it.
MayCancel(actor) == actor \in roles["FULFILLER_ROLE"] \cup roles["ADMIN_ROLE"]

\* Mutants: an expired account gets no window; every account gets one.
RefundDeadlineUnmoved(l) == accounts[l].expiresAt
RefundDeadlineReset(l) == now + REFUND_GRACE_PERIOD

\* An expired account gets a short window in which a refund can be spent.
RefundDeadline(l) ==
  IF IsExpired(l) THEN now + REFUND_GRACE_PERIOD ELSE accounts[l].expiresAt
-----------------------------------------------------------------------------
ConfigureMission(actor, m, reward, version, active) ==
  /\ actor \in roles["ADMIN_ROLE"]
  /\ 0 < reward /\ reward <= MAX_MISSION_REWARD
  /\ missions' = [missions EXCEPT ![m] =
       [reward |-> reward, version |-> version, active |-> active, exists |-> TRUE]]
  /\ UNCHANGED <<items, accounts, completed, swaps, totals, paused, roles, now>>

MayConfigureItem(actor, cost) == actor \in roles["ADMIN_ROLE"] /\ 0 < cost

\* Overwrites the whole entry: the inventory too, whatever is in a swap.
ConfigureCatalogItem(actor, i, cost, inventory, active) ==
  /\ MayConfigureItem(actor, cost)
  /\ items' = [items EXCEPT ![i] =
       [cost |-> cost, inventory |-> inventory, active |-> active, exists |-> TRUE]]
  /\ UNCHANGED <<missions, accounts, completed, swaps, totals, paused, roles, now>>

Pause(actor) ==
  /\ actor \in roles["ADMIN_ROLE"] /\ ~paused
  /\ paused' = TRUE
  /\ UNCHANGED <<missions, items, accounts, completed, swaps, totals, roles, now>>

Unpause(actor) ==
  /\ actor \in roles["ADMIN_ROLE"] /\ paused
  /\ paused' = FALSE
  /\ UNCHANGED <<missions, items, accounts, completed, swaps, totals, roles, now>>

MayAward(actor, l, m) ==
  /\ actor \in roles["VERIFIER_ROLE"]
  /\ ~paused
  /\ missions[m].exists /\ missions[m].active
  /\ CompletionKey(l, m) \notin completed
  /\ WithinCap(l, missions[m].reward)

\* The amount is the mission's, never the caller's.
AwardCredits(actor, l, m) ==
  LET reward == missions[m].reward
  IN  /\ MayAward(actor, l, m)
      /\ completed' = completed \cup {CompletionKey(l, m)}
      /\ accounts' = [accounts EXCEPT ![l] =
           [balance         |-> @.balance - Sweepable(l) + reward,
            lifetimeAwarded |-> @.lifetimeAwarded + reward,
            expiresAt       |-> now + CREDIT_TTL]]
      /\ totals' = [Expire(totals, Sweepable(l)) EXCEPT
                      !.awarded = @ + reward, !.outstanding = @ + reward]
      /\ UNCHANGED <<missions, items, swaps, paused, roles, now>>

MaySweep(l) == accounts[l].balance # 0 /\ IsExpired(l)

\* Permissionless: anyone may run the sweeper.
SweepExpired(l) ==
  /\ MaySweep(l)
  /\ accounts' = [accounts EXCEPT ![l].balance = 0]
  /\ totals' = Expire(totals, Sweepable(l))
  /\ UNCHANGED <<missions, items, completed, swaps, paused, roles, now>>

MayRequest(actor, l, i) ==
  /\ actor \in roles["REDEEMER_ROLE"]
  /\ ~paused
  /\ items[i].exists /\ items[i].active
  /\ InStock(i)
  /\ accounts[l].balance - Sweepable(l) >= items[i].cost
  /\ Len(swaps) < MaxSwaps

RequestSwap(actor, l, i) ==
  LET cost == items[i].cost
  IN  /\ MayRequest(actor, l, i)
      /\ accounts' = [accounts EXCEPT ![l].balance = @ - Sweepable(l) - cost]
      /\ items' = Shelve(i, -1)
      /\ totals' = [Expire(totals, Sweepable(l)) EXCEPT
                      !.outstanding = @ - cost, !.inSwap = @ + cost]
      /\ swaps' = Append(swaps, [learner |-> l, item |-> i, cost |-> cost, status |-> "Requested"])
      /\ UNCHANGED <<missions, completed, paused, roles, now>>

MaySettle(actor, s) == actor \in roles["FULFILLER_ROLE"] /\ ~paused /\ IsOpen(s)

SettleSwap(actor, s) ==
  /\ MaySettle(actor, s)
  /\ swaps' = [swaps EXCEPT ![s].status = "Settled"]
  /\ totals' = [totals EXCEPT !.inSwap = @ - swaps[s].cost, !.swapped = @ + swaps[s].cost]
  /\ UNCHANGED <<missions, items, accounts, completed, paused, roles, now>>

\* The increment of a uint64 is checked: with the stock at MaxStock the
\* transaction reverts.
MayRefund(actor, s) ==
  MayCancel(actor) /\ IsOpen(s) /\ items[swaps[s].item].inventory < MaxStock

\* The cost is the one recorded when the swap opened.  An expired account
\* first loses what else it held.
CancelSwap(actor, s) ==
  LET l    == swaps[s].learner
      cost == swaps[s].cost
  IN  /\ MayRefund(actor, s)
      /\ swaps' = [swaps EXCEPT ![s].status = "Cancelled"]
      /\ accounts' = [accounts EXCEPT ![l] =
           [balance         |-> @.balance - Sweepable(l) + cost,
            lifetimeAwarded |-> @.lifetimeAwarded,
            expiresAt       |-> RefundDeadline(l)]]
      /\ items' = Shelve(swaps[s].item, 1)
      /\ totals' = [Expire(totals, Sweepable(l)) EXCEPT
                      !.inSwap = @ - cost, !.outstanding = @ + cost]
      /\ UNCHANGED <<missions, completed, paused, roles, now>>

\* OpenZeppelin's AccessControl.
GrantRole(actor, role, account) ==
  /\ actor \in roles[RoleAdmin(role)]
  /\ roles' = [roles EXCEPT ![role] = @ \cup {account}]
  /\ UNCHANGED <<missions, items, accounts, completed, swaps, totals, paused, now>>

\* renounceRole is a revocation by the account itself.
RevokeRole(actor, role, account) ==
  /\ actor \in roles[RoleAdmin(role)] \cup {account}
  /\ roles' = [roles EXCEPT ![role] = @ \ {account}]
  /\ UNCHANGED <<missions, items, accounts, completed, swaps, totals, paused, now>>

\* The next block carries a later timestamp.
Tick ==
  /\ now < MaxTime
  /\ now' = now + 1
  /\ UNCHANGED <<missions, items, accounts, completed, swaps, totals, paused, roles>>
-----------------------------------------------------------------------------
Admin(a) ==
  \/ \E m \in Missions, r \in Rewards, v \in Versions, on \in BOOLEAN :
       ConfigureMission(a, m, r, v, on)
  \/ \E i \in Items, c \in Costs, n \in Stocks, on \in BOOLEAN :
       ConfigureCatalogItem(a, i, c, n, on)
  \/ Pause(a)
  \/ Unpause(a)
  \/ \E rc \in RoleChanges : GrantRole(a, rc[1], rc[2])
  \/ \E rc \in RoleChanges : RevokeRole(a, rc[1], rc[2])

Next ==
  \/ \E a \in Actors : Admin(a)
  \/ \E a \in Actors, l \in Learners, m \in Missions : AwardCredits(a, l, m)
  \/ \E l \in Learners : SweepExpired(l)
  \/ \E a \in Actors, l \in Learners, i \in Items : RequestSwap(a, l, i)
  \/ \E a \in Actors, s \in DOMAIN swaps : SettleSwap(a, s)
  \/ \E a \in Actors, s \in DOMAIN swaps : CancelSwap(a, s)
  \/ Tick

Spec == Init /\ [][Next]_vars
-----------------------------------------------------------------------------
(***************************************************************************)
(* Sums the totals stand for.                                              *)
(***************************************************************************)
Balances == [l \in Learners |-> accounts[l].balance]
Lifetimes == [l \in Learners |-> accounts[l].lifetimeAwarded]
CostsOf == [s \in DOMAIN swaps |-> swaps[s].cost]
SwapsIn(status) == {s \in DOMAIN swaps : swaps[s].status = status}
KeptSwapsOf(l) == {s \in DOMAIN swaps : swaps[s].learner = l /\ swaps[s].status # "Cancelled"}
KeptSwapsFor(i) == {s \in DOMAIN swaps : swaps[s].item = i /\ swaps[s].status # "Cancelled"}

(***************************************************************************)
(* Safety.                                                                 *)
(***************************************************************************)
\* The equation of line 92: every credit ever awarded is in exactly one of
\* four places, whatever sequence of awards, sweeps, swaps and refunds ran.
Conservation ==
  totals.awarded = totals.outstanding + totals.inSwap + totals.swapped + totals.expired

\* The totals the console reports are the sums they stand for: outstanding is
\* what the accounts hold, inSwap and swapped what the open and settled swaps
\* cost, awarded what the accounts were ever awarded.  A subtraction that
\* would underflow, and so block a sweep or a refund, is impossible with it.
Solvency ==
  /\ totals.outstanding = SumOver(Balances, Learners)
  /\ totals.awarded = SumOver(Lifetimes, Learners)
  /\ totals.inSwap = SumOver(CostsOf, SwapsIn("Requested"))
  /\ totals.swapped = SumOver(CostsOf, SwapsIn("Settled"))

\* "What a farmed handle can ever extract" (line 37): what a learner holds and
\* what its open and settled swaps took never exceed what it was awarded, and
\* that stays under the cap, through refunds and expiry.
ExtractionBounded ==
  \A l \in Learners :
    /\ accounts[l].balance + SumOver(CostsOf, KeptSwapsOf(l)) <= accounts[l].lifetimeAwarded
    /\ accounts[l].lifetimeAwarded <= LIFETIME_CAP

\* "refunding learners must never require un-pausing first" (lines 298-300):
\* for whoever holds the role, paused or not, expired or not, no check of
\* cancelSwap reverts as long as the stock's counter has room for the unit; nor
\* does a checked subtraction of what it takes from the totals.
RefundNeverWaits ==
  \A s \in SwapsIn("Requested"), a \in roles["FULFILLER_ROLE"] \cup roles["ADMIN_ROLE"] :
    items[swaps[s].item].inventory < MaxStock =>
      /\ MayRefund(a, s)
      /\ swaps[s].cost <= totals.inSwap /\ Sweepable(swaps[s].learner) <= totals.outstanding

\* A swap is decided once: its holder and its price never change, and a
\* settled or a cancelled swap stays so.
SwapsDecidedOnce ==
  [][\A s \in DOMAIN swaps :
       /\ s \in DOMAIN swaps'
       /\ [swaps'[s] EXCEPT !.status = "Requested"] = [swaps[s] EXCEPT !.status = "Requested"]
       /\ swaps[s].status # "Requested" => swaps'[s] = swaps[s]]_vars

\* A step that cancels a swap of learner l gives back exactly its cost as
\* credits l can spend at once, even into an account that had expired.
RefundIsUsable ==
  [][\A s \in DOMAIN swaps :
       swaps[s].status = "Requested" /\ swaps'[s].status = "Cancelled"
         => LET l == swaps[s].learner
            IN  BalanceOf(l)' = BalanceOf(l) + swaps[s].cost]_vars

\* Credits are lost to expiry only after their deadline, and time alone or
\* another learner's step never takes them: whenever the expired total grows,
\* it grows by the stored balance of one account whose deadline has passed.
OnlyExpiredCreditsExpire ==
  [][totals'.expired # totals.expired
       => \E l \in Learners :
            /\ IsExpired(l)
            /\ totals'.expired = totals.expired + accounts[l].balance
            /\ \A k \in Learners \ {l} : accounts'[k] = accounts[k]]_vars

\* A deadline, once given, is never brought forward, neither by an award
\* after a refund's grace window nor by a refund before the deadline.
DeadlineNeverShortened ==
  [][\A l \in Learners : accounts'[l].expiresAt >= accounts[l].expiresAt]_vars

\* Stock leaves the shelf only into a swap and comes back only out of one:
\* a step that opens, settles or cancels swaps keeps constant, for each item,
\* the units on the shelf and the units held by kept swaps together.
StockAccounted ==
  [][swaps' # swaps =>
       \A i \in Items :
          items'[i].inventory + Cardinality(KeptSwapsFor(i)')
            = items[i].inventory + Cardinality(KeptSwapsFor(i))]_vars

\* A learner is awarded only by completing one mission version it had not
\* completed, and then exactly what that mission offers: no completion
\* without credits, no credits without completion.
AwardOncePerVersion ==
  [][\A l \in Learners :
       \/ /\ accounts'[l].lifetimeAwarded = accounts[l].lifetimeAwarded
          /\ {c \in completed' : c[1] = l} = {c \in completed : c[1] = l}
       \/ \E m \in Missions :
            LET key == <<l, m, missions[m].version>>
            IN  /\ key \notin completed
                /\ completed' = completed \cup {key}
                /\ accounts'[l].lifetimeAwarded = accounts[l].lifetimeAwarded + missions[m].reward]_vars
=============================================================================
