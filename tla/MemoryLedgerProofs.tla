------------------------- MODULE MemoryLedgerProofs -------------------------
(***************************************************************************)
(* The mirror implements the contract: every call of it, also one that is  *)
(* refused after its sweep, is a transaction the contract could run, for   *)
(* every set of learners, missions, items and actors and any limits.       *)
(*                                                                         *)
(* Two things the code leaves open are conditions here.  An admin          *)
(* configures no negative stock, which only the contract would refuse      *)
(* (Inputs).  And no shelf fills up to the width of the contract's counter *)
(* (RoomOnTheShelf): a refund beyond that reverts on the chain and not in  *)
(* the mirror.                                                             *)
(*                                                                         *)
(* The guards of the two differ where the contract asks exists as well as  *)
(* active, and > where the mirror asks not <=; that they agree needs       *)
(* Listed, which is inductive.                                             *)
(***************************************************************************)
EXTENDS MemoryLedger, SequenceTheorems, TLAPS

Inputs ==
  /\ Rewards \subseteq Nat /\ Costs \subseteq Nat /\ Stocks \subseteq Nat
  /\ LIFETIME_CAP \in Nat /\ CREDIT_TTL \in Nat /\ REFUND_GRACE_PERIOD \in Nat

RoomOnTheShelf == \A i \in Items : items[i].inventory < MaxStock

Mission == [reward : Nat, version : Versions \cup {0}, active : BOOLEAN, exists : BOOLEAN]
CatalogItem == [cost : Nat, inventory : Nat, active : BOOLEAN, exists : BOOLEAN]
Account == [balance : Int, lifetimeAwarded : Nat, expiresAt : Nat]
Swap == [learner : Learners, item : Items, cost : Nat,
         status : {"Requested", "Settled", "Cancelled"}]

\* The types, and that nothing is active before it is configured.
Listed ==
  /\ missions \in [Missions -> Mission]
  /\ \A m \in Missions : missions[m].active => missions[m].exists
  /\ items \in [Items -> CatalogItem]
  /\ \A i \in Items : items[i].active => items[i].exists
  /\ accounts \in [Learners -> Account]
  /\ swaps \in Seq(Swap)
  /\ now \in Nat
-----------------------------------------------------------------------------
\* Nothing is listed at the start.
LEMMA InitListed == Inputs /\ Init => Listed
  <1> SUFFICES ASSUME Init PROVE Listed
    OBVIOUS
  <1>1. swaps \in Seq(Swap)
    BY EmptySeq DEF Init
  <1>2. missions \in [Missions -> Mission] /\ \A m \in Missions : ~missions[m].active
    BY DEF Init, NoMission, Mission
  <1>3. items \in [Items -> CatalogItem] /\ \A i \in Items : ~items[i].active
    BY DEF Init, NoItem, CatalogItem
  <1>4. accounts \in [Learners -> Account] /\ now \in Nat
    BY DEF Init, FreshAccount, Account
  <1> QED BY <1>1, <1>2, <1>3, <1>4 DEF Listed

\* A call that changes neither what is listed nor the clock.
LEMMA AccountKeepsListed ==
  ASSUME Listed, NEW l \in Learners, NEW a \in Account, accounts' = [accounts EXCEPT ![l] = a],
         UNCHANGED <<missions, now>>, items' \in [Items -> CatalogItem],
         \A i \in Items : items'[i].active = items[i].active /\ items'[i].exists = items[i].exists,
         swaps' \in Seq(Swap)
  PROVE  Listed'
  BY DEF Listed

\* One unit more or less of one item; less only while there is one.
LEMMA ShelfKeepsListed ==
  ASSUME Listed, NEW i \in Items, NEW n \in Nat, items' = [items EXCEPT ![i].inventory = n]
  PROVE  /\ items' \in [Items -> CatalogItem]
         /\ \A j \in Items : items'[j].active = items[j].active /\ items'[j].exists = items[j].exists
  BY DEF Listed, CatalogItem

\* Balances are numbers, but only the sum of what is due is known not to be negative.
LEMMA DueIsInt ==
  ASSUME Listed, NEW l \in Learners
  PROVE  /\ Due(l) \in Int /\ accounts[l] \in Account /\ accounts[l].balance \in Int
         /\ accounts[l].lifetimeAwarded \in Nat /\ accounts[l].expiresAt \in Nat /\ now \in Nat
  BY DEF Listed, Due, Account

\* A sweep touches one account.
LEMMA SweptKeepsListed ==
  ASSUME Listed, NEW l \in Learners, SweptOnly(l)
  PROVE  Listed'
  <1>1. accounts[l] \in Account
    BY DueIsInt
  <1> DEFINE a == [accounts[l] EXCEPT !.balance = 0]
  <1>2. a \in Account
    BY <1>1 DEF Account
  <1>3. accounts' = [accounts EXCEPT ![l] = a]
    BY DEF SweptOnly
  <1> QED BY <1>2, <1>3, AccountKeepsListed DEF SweptOnly, Listed

\* What is configured is listed, active or not.
LEMMA AdminKeepsListed ==
  ASSUME Inputs, Listed, NEW a \in Actors, Admin(a)
  PROVE  Listed'
  <1>1. ASSUME NEW m \in Missions, NEW r \in Rewards, NEW v \in Versions, NEW on \in BOOLEAN,
               ConfigureMission(a, m, r, v, on)
        PROVE  Listed'
    <2> DEFINE new == [reward |-> r, version |-> v, active |-> on, exists |-> TRUE]
    <2>1. new \in Mission /\ new.exists
      BY DEF Inputs, Mission
    <2>2. missions' = [missions EXCEPT ![m] = new]
      BY <1>1 DEF ConfigureMission
    <2> QED BY <1>1, <2>1, <2>2 DEF Listed, ConfigureMission
  <1>2. ASSUME NEW i \in Items, NEW c \in Costs, NEW n \in Stocks, NEW on \in BOOLEAN,
               ConfigureCatalogItem(a, i, c, n, on)
        PROVE  Listed'
    <2> DEFINE new == [cost |-> c, inventory |-> n, active |-> on, exists |-> TRUE]
    <2>1. new \in CatalogItem /\ new.exists
      BY DEF Inputs, CatalogItem
    <2>2. items' = [items EXCEPT ![i] = new]
      BY <1>2 DEF ConfigureCatalogItem
    <2> QED BY <1>2, <2>1, <2>2 DEF Listed, ConfigureCatalogItem
  <1>3. CASE UNCHANGED <<missions, items, accounts, swaps, now>>
    BY <1>3 DEF Listed
  <1> QED BY <1>1, <1>2, <1>3 DEF Admin, Pause, Unpause, GrantRole, RevokeRole

\* Awards, swaps and their decisions list nothing.
LEMMA CallKeepsListed ==
  ASSUME Inputs, Listed
  PROVE  /\ \A a \in Actors, l \in Learners, m \in Missions : AwardCredits(a, l, m) => Listed'
         /\ \A a \in Actors, l \in Learners, i \in Items : RequestSwap(a, l, i) => Listed'
         /\ \A a \in Actors, s \in DOMAIN swaps : SettleSwap(a, s) => Listed'
         /\ \A a \in Actors, s \in DOMAIN swaps : CancelSwap(a, s) => Listed'
  <1>1. ASSUME NEW a \in Actors, NEW l \in Learners, NEW m \in Missions, AwardCredits(a, l, m)
        PROVE  Listed'
    <2> DEFINE acc == [balance         |-> accounts[l].balance - Due(l) + missions[m].reward,
                       lifetimeAwarded |-> accounts[l].lifetimeAwarded + missions[m].reward,
                       expiresAt       |-> now + CREDIT_TTL]
    <2>1. missions[m].reward \in Nat
      BY DEF Listed, Mission
    <2>2. acc \in Account
      BY <2>1, DueIsInt DEF Account, Inputs
    <2>3. accounts' = [accounts EXCEPT ![l] = acc]
      BY <1>1 DEF AwardCredits
    <2> QED BY <1>1, <2>2, <2>3, AccountKeepsListed DEF AwardCredits, Listed
  <1>2. ASSUME NEW a \in Actors, NEW l \in Learners, NEW i \in Items, RequestSwap(a, l, i)
        PROVE  Listed'
    <2> DEFINE acc == [accounts[l] EXCEPT !.balance = @ - Due(l) - items[i].cost]
               new == [learner |-> l, item |-> i, cost |-> items[i].cost, status |-> "Requested"]
    <2>1. items[i] \in CatalogItem /\ items[i].cost \in Nat /\ items[i].inventory \in Nat
      BY DEF Listed, CatalogItem
    <2>2. acc \in Account
      BY <2>1, DueIsInt DEF Account
    <2>3. accounts' = [accounts EXCEPT ![l] = acc]
      BY <1>2 DEF RequestSwap
    <2>4. swaps' = Append(swaps, new) /\ new \in Swap
      BY <1>2, <2>1 DEF RequestSwap, Swap
    <2>5. swaps' \in Seq(Swap)
      BY <2>4, AppendProperties DEF Listed
    <2>6. items[i].inventory - 1 \in Nat
      BY <1>2, <2>1 DEF RequestSwap, MayRequest, SoldOut
    <2>7. items' = [items EXCEPT ![i].inventory = items[i].inventory - 1]
      BY <1>2 DEF RequestSwap
    <2>8. /\ items' \in [Items -> CatalogItem]
          /\ \A j \in Items : items'[j].active = items[j].active /\ items'[j].exists = items[j].exists
      BY <2>6, <2>7, ShelfKeepsListed
    <2> QED BY <1>2, <2>2, <2>3, <2>5, <2>8, AccountKeepsListed DEF RequestSwap
  <1>3. ASSUME NEW a \in Actors, NEW s \in DOMAIN swaps, SettleSwap(a, s)
        PROVE  Listed'
    <2>1. swaps' = [swaps EXCEPT ![s] = [swaps[s] EXCEPT !.status = "Settled"]]
      BY <1>3 DEF SettleSwap
    <2>2. [swaps[s] EXCEPT !.status = "Settled"] \in Swap
      <3>1. swaps[s] \in Swap
        BY ElementOfSeq, LenProperties DEF Listed
      <3> QED BY <3>1 DEF Swap
    <2>3. swaps' \in Seq(Swap)
      BY <2>1, <2>2, ExceptSeq, LenProperties DEF Listed
    <2> QED BY <1>3, <2>3 DEF SettleSwap, Listed
  <1>4. ASSUME NEW a \in Actors, NEW s \in DOMAIN swaps, CancelSwap(a, s)
        PROVE  Listed'
    <2> DEFINE l == swaps[s].learner
               i == swaps[s].item
               acc == [balance         |-> accounts[l].balance - Due(l) + swaps[s].cost,
                       lifetimeAwarded |-> accounts[l].lifetimeAwarded,
                       expiresAt       |-> IF IsExpired(l) THEN now + REFUND_GRACE_PERIOD
                                                           ELSE accounts[l].expiresAt]
    <2>1. swaps[s] \in Swap
      BY ElementOfSeq, LenProperties DEF Listed
    <2>2. l \in Learners /\ i \in Items /\ swaps[s].cost \in Nat
      BY <2>1 DEF Swap
    <2>3. acc \in Account
      BY <2>2, DueIsInt DEF Account, Inputs
    <2>4. accounts' = [accounts EXCEPT ![l] = acc]
      BY <1>4 DEF CancelSwap, RefundedBalance
    <2>5. swaps' = [swaps EXCEPT ![s] = [swaps[s] EXCEPT !.status = "Cancelled"]]
      BY <1>4 DEF CancelSwap
    <2>6. swaps' \in Seq(Swap)
      <3>1. [swaps[s] EXCEPT !.status = "Cancelled"] \in Swap
        BY <2>1 DEF Swap
      <3> QED BY <2>5, <3>1, ExceptSeq, LenProperties DEF Listed
    <2>7. items' = [items EXCEPT ![i].inventory = items[i].inventory + 1]
      BY <1>4 DEF CancelSwap
    <2>8. /\ items' \in [Items -> CatalogItem]
          /\ \A j \in Items : items'[j].active = items[j].active /\ items'[j].exists = items[j].exists
      <3>1. items[i].inventory + 1 \in Nat
        BY <2>2 DEF Listed, CatalogItem
      <3> QED BY <2>2, <2>7, <3>1, ShelfKeepsListed
    <2> HIDE DEF l, i, acc
    <2> QED BY <1>4, <2>2, <2>3, <2>4, <2>6, <2>8, AccountKeepsListed DEF CancelSwap
  <1> QED BY <1>1, <1>2, <1>3, <1>4

\* Listed is inductive.
LEMMA NextListed == Inputs /\ Listed /\ [Next]_vars => Listed'
  <1> SUFFICES ASSUME Inputs, Listed, [Next]_vars PROVE Listed'
    OBVIOUS
  <1>1. CASE \E a \in Actors : Admin(a)
    BY <1>1, AdminKeepsListed
  <1>2. CASE \E a \in Actors, l \in Learners, m \in Missions : Award(a, l, m)
    BY <1>2, CallKeepsListed, SweptKeepsListed DEF Award, AwardRefusedAfterSweep
  <1>3. CASE \E l \in Learners : SweepExpired(l)
    BY <1>3, SweptKeepsListed DEF SweepExpired
  <1>4. CASE \E a \in Actors, l \in Learners, i \in Items : Request(a, l, i)
    BY <1>4, CallKeepsListed, SweptKeepsListed DEF Request, RequestRefusedAfterSweep
  <1>5. CASE \E a \in Actors, s \in DOMAIN swaps : SettleSwap(a, s) \/ CancelSwap(a, s)
    BY <1>5, CallKeepsListed
  <1>6. CASE Tick
    <2>1. now + 1 \in Nat
      BY DEF Listed
    <2> QED BY <1>6, <2>1 DEF Listed, Tick
  <1>7. CASE UNCHANGED vars
    BY <1>7 DEF Listed, vars
  <1> QED BY <1>1, <1>2, <1>3, <1>4, <1>5, <1>6, <1>7 DEF Next
-----------------------------------------------------------------------------
(***************************************************************************)
(* Call by call, the mirror's and the contract's.                          *)
(***************************************************************************)
LEMMA SameSweep ==
  ASSUME NEW l \in Learners
  PROVE  /\ IsExpired(l) = Contract!IsExpired(l)
         /\ Due(l) = Contract!Sweepable(l)
         /\ SweptTotals(l) = Contract!Expire(totals, Contract!Sweepable(l))
  BY DEF IsExpired, Due, SweptTotals, Contract!IsExpired, Contract!Sweepable, Contract!Expire

\* What a refused call leaves behind is what anyone could have the contract do.
LEMMA SweepIsASweep ==
  ASSUME NEW l \in Learners, SweptOnly(l)
  PROVE  Contract!SweepExpired(l)
  <1>1. IsExpired(l) /\ accounts[l].balance # 0
    BY DEF SweptOnly, Due
  <1> QED BY <1>1, SameSweep DEF SweptOnly, Contract!SweepExpired, Contract!MaySweep

\* What an admin does to the one, an admin may do to the other.
LEMMA AdminIsAdmin ==
  ASSUME NEW a \in Actors, Admin(a)
  PROVE  Contract!Admin(a)
  <1>1. \A role : RoleAdmin(role) = Contract!RoleAdmin(role)
    BY DEF RoleAdmin, Contract!RoleAdmin
  <1>2. ASSUME NEW m \in Missions, NEW r \in Rewards, NEW v \in Versions, NEW on \in BOOLEAN,
               ConfigureMission(a, m, r, v, on)
        PROVE  Contract!ConfigureMission(a, m, r, v, on)
    BY <1>2 DEF ConfigureMission, Contract!ConfigureMission
  <1>3. ASSUME NEW i \in Items, NEW c \in Costs, NEW n \in Stocks, NEW on \in BOOLEAN,
               ConfigureCatalogItem(a, i, c, n, on)
        PROVE  Contract!ConfigureCatalogItem(a, i, c, n, on)
    BY <1>3 DEF ConfigureCatalogItem, MayConfigureItem, Contract!ConfigureCatalogItem, Contract!MayConfigureItem
  <1>4. Pause(a) => Contract!Pause(a)
    BY DEF Pause, Contract!Pause
  <1>5. Unpause(a) => Contract!Unpause(a)
    BY DEF Unpause, Contract!Unpause
  <1>6. \A rc \in RoleChanges : GrantRole(a, rc[1], rc[2]) => Contract!GrantRole(a, rc[1], rc[2])
    BY <1>1 DEF GrantRole, Contract!GrantRole
  <1>7. \A rc \in RoleChanges : RevokeRole(a, rc[1], rc[2]) => Contract!RevokeRole(a, rc[1], rc[2])
    BY <1>1 DEF RevokeRole, Contract!RevokeRole
  <1> QED BY <1>2, <1>3, <1>4, <1>5, <1>6, <1>7 DEF Admin, Contract!Admin

\* The mirror refuses what the contract refuses.
LEMMA AwardIsAnAward ==
  ASSUME Inputs, Listed, NEW a \in Actors, NEW l \in Learners, NEW m \in Missions, AwardCredits(a, l, m)
  PROVE  Contract!AwardCredits(a, l, m)
  <1>1. missions[m].exists /\ missions[m].active /\ missions[m].reward \in Nat
    BY DEF Listed, Mission, AwardCredits, MayAward
  <1>2. Contract!WithinCap(l, missions[m].reward)
    BY <1>1, DueIsInt DEF Inputs, AwardCredits, OverCap, Contract!WithinCap
  <1>3. Contract!CompletionKey(l, m) = <<l, m, missions[m].version>>
    BY DEF Contract!CompletionKey
  <1>4. accounts' = [accounts EXCEPT ![l] =
           [balance         |-> @.balance - Contract!Sweepable(l) + missions[m].reward,
            lifetimeAwarded |-> @.lifetimeAwarded + missions[m].reward,
            expiresAt       |-> now + CREDIT_TTL]]
    BY SameSweep DEF AwardCredits
  <1>5. totals' = [Contract!Expire(totals, Contract!Sweepable(l)) EXCEPT
                      !.awarded = @ + missions[m].reward, !.outstanding = @ + missions[m].reward]
    BY SameSweep DEF AwardCredits
  <1> QED BY <1>1, <1>2, <1>3, <1>4, <1>5 DEF AwardCredits, MayAward, Contract!AwardCredits, Contract!MayAward

\* A swap is opened at the same price, from the same balance.
LEMMA RequestIsARequest ==
  ASSUME Listed, NEW a \in Actors, NEW l \in Learners, NEW i \in Items, RequestSwap(a, l, i)
  PROVE  Contract!RequestSwap(a, l, i)
  <1>1. /\ items[i].exists /\ items[i].active
        /\ items[i].inventory \in Nat /\ items \in [Items -> CatalogItem]
    BY DEF Listed, CatalogItem, RequestSwap, MayRequest
  <1>2. Contract!InStock(i)
    BY DEF RequestSwap, MayRequest, SoldOut, Contract!InStock
  <1>3. accounts[l].balance - Contract!Sweepable(l) >= items[i].cost
    BY SameSweep DEF RequestSwap, Affords
  <1>4. accounts' = [accounts EXCEPT ![l].balance = @ - Contract!Sweepable(l) - items[i].cost]
    BY SameSweep DEF RequestSwap
  <1>5. items' = Contract!Shelve(i, -1)
    <2>1. items[i].inventory - 1 = items[i].inventory + (-1)
      BY <1>1
    <2> QED BY <2>1 DEF RequestSwap, Contract!Shelve
  <1>6. totals' = [Contract!Expire(totals, Contract!Sweepable(l)) EXCEPT
                      !.outstanding = @ - items[i].cost, !.inSwap = @ + items[i].cost]
    BY SameSweep DEF RequestSwap
  <1> QED BY <1>1, <1>2, <1>3, <1>4, <1>5, <1>6 DEF RequestSwap, MayRequest, Contract!RequestSwap, Contract!MayRequest

\* A settlement is the same transaction.
LEMMA SettleIsASettle ==
  ASSUME NEW a \in Actors, NEW s \in DOMAIN swaps, SettleSwap(a, s)
  PROVE  Contract!SettleSwap(a, s)
  BY DEF SettleSwap, MaySettle, Contract!SettleSwap, Contract!MaySettle, Contract!IsOpen

\* A cancellation gives back the same, to an account that may have expired.
LEMMA CancelIsACancel ==
  ASSUME Listed, RoomOnTheShelf, NEW a \in Actors, NEW s \in DOMAIN swaps, CancelSwap(a, s)
  PROVE  Contract!CancelSwap(a, s)
  <1>1. swaps[s] \in Swap
    BY ElementOfSeq, LenProperties DEF Listed
  <1>2. swaps[s].learner \in Learners /\ swaps[s].item \in Items
    BY <1>1 DEF Swap
  <1>3. items[swaps[s].item].inventory < MaxStock
    BY <1>2 DEF RoomOnTheShelf
  <1>4. accounts' = [accounts EXCEPT ![swaps[s].learner] =
           [balance         |-> @.balance - Contract!Sweepable(swaps[s].learner) + swaps[s].cost,
            lifetimeAwarded |-> @.lifetimeAwarded,
            expiresAt       |-> Contract!RefundDeadline(swaps[s].learner)]]
    BY <1>2, SameSweep DEF CancelSwap, RefundedBalance, Contract!RefundDeadline
  <1>5. items' = Contract!Shelve(swaps[s].item, 1)
    BY DEF CancelSwap, Contract!Shelve
  <1>6. totals' = [Contract!Expire(totals, Contract!Sweepable(swaps[s].learner)) EXCEPT
                      !.inSwap = @ - swaps[s].cost, !.outstanding = @ + swaps[s].cost]
    BY <1>2, SameSweep DEF CancelSwap
  <1> QED BY <1>3, <1>4, <1>5, <1>6
          DEF CancelSwap, MayCancel, Contract!CancelSwap, Contract!MayRefund, Contract!MayCancel,
              Contract!IsOpen

\* Both start empty, with the same roles.
LEMMA InitIsInit == Init => Contract!Init
  BY DEF Init, NoMission, NoItem, FreshAccount, SeededRoles, Roles,
         Contract!Init, Contract!InitialRoles, Contract!Roles

\* Every step of the mirror is a step of the contract, or a stutter.
LEMMA StepIsAStep == Inputs /\ Listed /\ RoomOnTheShelf /\ [Next]_vars => [Contract!Next]_(Contract!vars)
  <1> SUFFICES ASSUME Inputs, Listed, RoomOnTheShelf, [Next]_vars
               PROVE  Contract!Next \/ UNCHANGED Contract!vars
    OBVIOUS
  <1>1. CASE \E a \in Actors : Admin(a)
    BY <1>1, AdminIsAdmin DEF Contract!Next
  <1>2. ASSUME NEW a \in Actors, NEW l \in Learners, NEW m \in Missions, Award(a, l, m)
        PROVE  Contract!Next
    BY <1>2, AwardIsAnAward, SweepIsASweep DEF Award, AwardRefusedAfterSweep, Contract!Next
  <1>3. CASE \E l \in Learners : SweepExpired(l)
    BY <1>3, SweepIsASweep DEF SweepExpired, Contract!Next
  <1>4. ASSUME NEW a \in Actors, NEW l \in Learners, NEW i \in Items, Request(a, l, i)
        PROVE  Contract!Next
    BY <1>4, RequestIsARequest, SweepIsASweep DEF Request, RequestRefusedAfterSweep, Contract!Next
  <1>5. CASE \E a \in Actors, s \in DOMAIN swaps : SettleSwap(a, s)
    BY <1>5, SettleIsASettle DEF Contract!Next
  <1>6. CASE \E a \in Actors, s \in DOMAIN swaps : CancelSwap(a, s)
    BY <1>6, CancelIsACancel DEF Contract!Next
  <1>7. CASE Tick
    BY <1>7 DEF Tick, Contract!Tick, Contract!Next
  <1>8. CASE UNCHANGED vars
    BY <1>8 DEF vars, Contract!vars
  <1> QED BY <1>1, <1>2, <1>3, <1>4, <1>5, <1>6, <1>7, <1>8 DEF Next

\* "MemoryLedger implements every rule LanguageCredits.sol does" (ledger.js
\* line 3): as long as no shelf fills up to the width of the contract's
\* counter, what the mirror does the contract may do.
THEOREM MirrorRefinesContract ==
  ASSUME Inputs
  PROVE  Spec /\ []RoomOnTheShelf => ImplementsContract
  <1>1. Init => Listed
    BY InitListed
  <1>2. Listed /\ [Next]_vars => Listed'
    BY NextListed
  <1>3. Listed /\ RoomOnTheShelf /\ [Next]_vars => [Contract!Next]_(Contract!vars)
    BY StepIsAStep
  <1> QED BY <1>1, <1>2, <1>3, InitIsInit, PTL DEF Spec, ImplementsContract, Contract!Spec
-----------------------------------------------------------------------------
\* A swap opens only with a unit left, whatever was refunded or configured.
THEOREM NothingIsListedBeyondStock ==
  ASSUME Inputs
  PROVE  Spec => NothingListedBeyondStock
  <1>1. ASSUME Listed, [Next]_vars, NEW l \in Learners, NEW i \in Items,
               Len(swaps') > Len(swaps), swaps'[Len(swaps')].item = i
        PROVE  items[i].inventory > 0
    <2>0. swaps \in Seq(Swap) /\ Len(swaps) \in Nat
      BY <1>1, LenProperties DEF Listed
    <2>1. CASE Len(swaps') = Len(swaps)
      BY <1>1, <2>0, <2>1
    <2>2. ASSUME NEW a \in Actors, NEW k \in Learners, NEW j \in Items, RequestSwap(a, k, j)
          PROVE  items[i].inventory > 0
      <3>1. swaps' = Append(swaps, [learner |-> k, item |-> j, cost |-> items[j].cost, status |-> "Requested"])
        BY <2>2 DEF RequestSwap
      <3>2. i = j
        BY <1>1, <2>0, <3>1
      <3>3. items[i].inventory \in Nat /\ items[i].inventory # 0
        BY <1>1, <2>2, <3>2 DEF Listed, CatalogItem, RequestSwap, MayRequest, SoldOut
      <3> QED BY <3>3
    <2>3. CASE UNCHANGED swaps
      BY <2>1, <2>3
    <2>4. CASE \E a \in Actors, s \in DOMAIN swaps : SettleSwap(a, s) \/ CancelSwap(a, s)
      <3>1. Len(swaps') = Len(swaps)
        BY <2>0, <2>4 DEF SettleSwap, CancelSwap
      <3> QED BY <2>1, <3>1
    <2>5. CASE \E a \in Actors : Admin(a)
      BY <2>3, <2>5 DEF Admin, ConfigureMission, ConfigureCatalogItem, Pause, Unpause, GrantRole, RevokeRole
    <2>6. CASE \E a \in Actors, k \in Learners, m \in Missions : Award(a, k, m)
      BY <2>3, <2>6 DEF Award, AwardCredits, AwardRefusedAfterSweep, SweptOnly
    <2>7. CASE (\E k \in Learners : SweepExpired(k)) \/ Tick \/ UNCHANGED vars
      BY <2>3, <2>7 DEF SweepExpired, SweptOnly, Tick, vars
    <2>8. CASE \E a \in Actors, k \in Learners, j \in Items : RequestRefusedAfterSweep(a, k, j)
      BY <2>3, <2>8 DEF RequestRefusedAfterSweep, SweptOnly
    <2> QED BY <1>1, <2>2, <2>4, <2>5, <2>6, <2>7, <2>8 DEF Next, Request
  <1>2. Listed /\ [Next]_vars =>
          [\A l \in Learners, i \in Items :
             Len(swaps') > Len(swaps) /\ swaps'[Len(swaps')].item = i => items[i].inventory > 0]_vars
    BY <1>1
  <1>3. Init => Listed
    BY InitListed
  <1>4. Listed /\ [Next]_vars => Listed'
    BY NextListed
  <1> QED BY <1>2, <1>3, <1>4, PTL DEF Spec, NothingListedBeyondStock
=============================================================================
