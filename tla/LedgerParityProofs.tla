------------------------- MODULE LedgerParityProofs -------------------------
(***************************************************************************)
(* The contract and its mirror tell a reader the same, after any sequence  *)
(* of calls, refused ones included, for every set of learners, missions,   *)
(* items and actors and any limits.                                        *)
(*                                                                         *)
(* The two are not equal: a call the contract reverts leaves it as it was, *)
(* while the mirror may have swept the account before it threw.  So what   *)
(* is inductive is Agree: equal in everything but the balance of an        *)
(* expired account, which the mirror may have booked as expired already,   *)
(* and but for how the unusable credits are split between two totals.      *)
(* Everybody who reads or spends a balance asks IsExpired first.           *)
(*                                                                         *)
(* What is known of the mirror alone, and that it implements the contract, *)
(* comes from MemoryLedgerProofs, with its conditions: no negative numbers *)
(* are configured (Inputs) and no shelf fills up to the width of the       *)
(* contract's counter (RoomOnTheShelf), beyond which a refund reverts on   *)
(* the chain and not in the mirror.                                        *)
(***************************************************************************)
EXTENDS LedgerParity, SequenceTheorems, TLAPS

Mirror == INSTANCE MemoryLedgerProofs WITH
  items <- memItems, accounts <- memAccounts, completed <- memCompleted,
  swaps <- memSwaps, totals <- memTotals

Inputs == Mirror!Inputs /\ admin \in Actors

RoomOnTheShelf == Mirror!RoomOnTheShelf

Account == [balance : Int, lifetimeAwarded : Nat, expiresAt : Nat]
Totals == [awarded : Int, outstanding : Int, inSwap : Int, swapped : Int, expired : Int]

Types ==
  /\ chainAccounts \in [Learners -> Account] /\ memAccounts \in [Learners -> Account]
  /\ chainTotals \in Totals /\ memTotals \in Totals

\* Equal but for credits that have expired, which the mirror may have swept.
SameAccounts ==
  \A l \in Learners :
    /\ memAccounts[l].lifetimeAwarded = chainAccounts[l].lifetimeAwarded
    /\ memAccounts[l].expiresAt = chainAccounts[l].expiresAt
    /\ \/ memAccounts[l].balance = chainAccounts[l].balance
       \/ memAccounts[l].balance = 0 /\ Chain!IsExpired(l)

SameRest ==
  <<chainItems, chainCompleted, chainSwaps>> = <<memItems, memCompleted, memSwaps>>

Agree == Types /\ SameAccounts /\ SameRest /\ Stats(chainTotals) = Stats(memTotals)

IInv == Mirror!Listed /\ Agree
-----------------------------------------------------------------------------
(***************************************************************************)
(* One account, and the totals that move with it.                          *)
(***************************************************************************)
LEMMA AccountFields ==
  ASSUME NEW a \in Account
  PROVE  a.balance \in Int /\ a.lifetimeAwarded \in Nat /\ a.expiresAt \in Nat
BY DEF Account

LEMMA TotalsFields ==
  ASSUME NEW t \in Totals
  PROVE  /\ t.awarded \in Int /\ t.outstanding \in Int /\ t.inSwap \in Int
         /\ t.swapped \in Int /\ t.expired \in Int
BY DEF Totals

\* Expired or not, the two have the same to spend.
LEMMA SameDue ==
  ASSUME IInv, NEW l \in Learners
  PROVE  /\ chainAccounts[l] \in Account /\ memAccounts[l] \in Account /\ now \in Nat
         /\ Chain!IsExpired(l) = Memory!IsExpired(l)
         /\ Chain!Sweepable(l) \in Int /\ Memory!Due(l) \in Int
         /\ chainAccounts[l].balance - Chain!Sweepable(l) = memAccounts[l].balance - Memory!Due(l)
         /\ memAccounts[l].lifetimeAwarded = chainAccounts[l].lifetimeAwarded
         /\ memAccounts[l].expiresAt = chainAccounts[l].expiresAt
<1>1. chainAccounts[l] \in Account /\ memAccounts[l] \in Account /\ now \in Nat
  BY DEF IInv, Agree, Types, Mirror!Listed
<1>2. /\ memAccounts[l].lifetimeAwarded = chainAccounts[l].lifetimeAwarded
      /\ memAccounts[l].expiresAt = chainAccounts[l].expiresAt
      /\ \/ memAccounts[l].balance = chainAccounts[l].balance
         \/ memAccounts[l].balance = 0 /\ Chain!IsExpired(l)
  BY DEF IInv, Agree, SameAccounts
<1>3. Chain!IsExpired(l) = Memory!IsExpired(l)
  BY <1>2 DEF Chain!IsExpired, Memory!IsExpired
<1>4. /\ Chain!Sweepable(l) \in Int /\ Memory!Due(l) \in Int
      /\ chainAccounts[l].balance - Chain!Sweepable(l) = memAccounts[l].balance - Memory!Due(l)
  <2>1. CASE Chain!IsExpired(l)
    BY <1>1, <1>3, <2>1, AccountFields DEF Chain!Sweepable, Memory!Due
  <2>2. CASE ~Chain!IsExpired(l)
    BY <1>1, <1>2, <1>3, <2>2, AccountFields DEF Chain!Sweepable, Memory!Due
  <2> QED BY <2>1, <2>2
<1> QED BY <1>1, <1>2, <1>3, <1>4

\* What is rewritten in both is one account of each.
LEMMA RewrittenAccounts ==
  ASSUME IInv, NEW l \in Learners, NEW a \in Account, NEW b \in Account,
         chainAccounts' = [chainAccounts EXCEPT ![l] = a],
         memAccounts' = [memAccounts EXCEPT ![l] = b], UNCHANGED now,
         b.lifetimeAwarded = a.lifetimeAwarded, b.expiresAt = a.expiresAt,
         \/ b.balance = a.balance
         \/ b.balance = 0 /\ a.expiresAt # 0 /\ now >= a.expiresAt
  PROVE  /\ SameAccounts'
         /\ chainAccounts' \in [Learners -> Account] /\ memAccounts' \in [Learners -> Account]
<1>1. chainAccounts \in [Learners -> Account] /\ memAccounts \in [Learners -> Account]
  BY DEF IInv, Agree, Types
<1>2. SameAccounts
  BY DEF IInv, Agree
<1>3. /\ chainAccounts'[l] = a /\ memAccounts'[l] = b
      /\ \A k \in Learners \ {l} : chainAccounts'[k] = chainAccounts[k] /\ memAccounts'[k] = memAccounts[k]
  BY <1>1
<1>4. SameAccounts'
  <2> SUFFICES ASSUME NEW k \in Learners
               PROVE  /\ memAccounts'[k].lifetimeAwarded = chainAccounts'[k].lifetimeAwarded
                      /\ memAccounts'[k].expiresAt = chainAccounts'[k].expiresAt
                      /\ \/ memAccounts'[k].balance = chainAccounts'[k].balance
                         \/ /\ memAccounts'[k].balance = 0
                            /\ chainAccounts'[k].expiresAt # 0 /\ now >= chainAccounts'[k].expiresAt
    BY DEF SameAccounts, Chain!IsExpired
  <2>1. CASE k = l
    BY <1>3, <2>1
  <2>2. CASE k # l
    BY <1>2, <1>3, <2>2 DEF SameAccounts, Chain!IsExpired
  <2> QED BY <2>1, <2>2
<1> QED BY <1>1, <1>4

\* Totals that move alike, whatever each has swept.
LEMMA SameStats ==
  ASSUME IInv, chainTotals' \in Totals, memTotals' \in Totals,
         chainTotals'.awarded - chainTotals.awarded = memTotals'.awarded - memTotals.awarded,
         chainTotals'.inSwap - chainTotals.inSwap = memTotals'.inSwap - memTotals.inSwap,
         chainTotals'.swapped - chainTotals.swapped = memTotals'.swapped - memTotals.swapped,
         chainTotals'.outstanding + chainTotals'.expired - (chainTotals.outstanding + chainTotals.expired)
           = memTotals'.outstanding + memTotals'.expired - (memTotals.outstanding + memTotals.expired)
  PROVE  Stats(chainTotals)' = Stats(memTotals)'
<1>1. Stats(chainTotals) = Stats(memTotals) /\ chainTotals \in Totals /\ memTotals \in Totals
  BY DEF IInv, Agree, Types
<1>2. /\ chainTotals.awarded = memTotals.awarded /\ chainTotals.inSwap = memTotals.inSwap
      /\ chainTotals.swapped = memTotals.swapped
      /\ chainTotals.outstanding + chainTotals.expired = memTotals.outstanding + memTotals.expired
  BY <1>1 DEF Stats
<1>3. /\ chainTotals'.awarded = memTotals'.awarded /\ chainTotals'.inSwap = memTotals'.inSwap
      /\ chainTotals'.swapped = memTotals'.swapped
      /\ chainTotals'.outstanding + chainTotals'.expired
           = memTotals'.outstanding + memTotals'.expired
  <2>1. /\ chainTotals'.awarded \in Int /\ chainTotals'.inSwap \in Int /\ chainTotals'.swapped \in Int
        /\ chainTotals'.outstanding \in Int /\ chainTotals'.expired \in Int
        /\ memTotals'.awarded \in Int /\ memTotals'.inSwap \in Int /\ memTotals'.swapped \in Int
        /\ memTotals'.outstanding \in Int /\ memTotals'.expired \in Int
    BY TotalsFields
  <2>2. /\ chainTotals.awarded \in Int /\ chainTotals.inSwap \in Int /\ chainTotals.swapped \in Int
        /\ chainTotals.outstanding \in Int /\ chainTotals.expired \in Int
        /\ memTotals.outstanding \in Int /\ memTotals.expired \in Int
    BY <1>1, TotalsFields
  <2> QED BY <1>2, <2>1, <2>2
<1> QED BY <1>3 DEF Stats

\* Each change of the totals, field by field.
Swept(t, due) == [t EXCEPT !.outstanding = @ - due, !.expired = @ + due]

LEMMA SweptTotals ==
  ASSUME NEW t \in Totals, NEW due \in Int
  PROVE  /\ Swept(t, due) \in Totals /\ Swept(t, due).awarded = t.awarded
         /\ Swept(t, due).inSwap = t.inSwap /\ Swept(t, due).swapped = t.swapped
         /\ Swept(t, due).outstanding + Swept(t, due).expired = t.outstanding + t.expired
         /\ Swept(t, due).outstanding = t.outstanding - due
         /\ Swept(t, due).expired = t.expired + due
<1>1. t.outstanding - due \in Int /\ t.expired + due \in Int
  BY TotalsFields
<1>2. Swept(t, due) \in Totals
  BY <1>1 DEF Swept, Totals
<1>3. /\ Swept(t, due).awarded = t.awarded /\ Swept(t, due).inSwap = t.inSwap
      /\ Swept(t, due).swapped = t.swapped
      /\ Swept(t, due).outstanding = t.outstanding - due /\ Swept(t, due).expired = t.expired + due
  BY DEF Swept, Totals
<1> QED BY <1>2, <1>3, TotalsFields

Awarded(t, r) == [t EXCEPT !.awarded = @ + r, !.outstanding = @ + r]

LEMMA AwardedTotals ==
  ASSUME NEW t \in Totals, NEW r \in Int
  PROVE  /\ Awarded(t, r) \in Totals /\ Awarded(t, r).awarded = t.awarded + r
         /\ Awarded(t, r).inSwap = t.inSwap
         /\ Awarded(t, r).swapped = t.swapped
         /\ Awarded(t, r).outstanding + Awarded(t, r).expired = t.outstanding + t.expired + r
<1>1. t.awarded + r \in Int /\ t.outstanding + r \in Int
  BY TotalsFields
<1>2. Awarded(t, r) \in Totals
  BY <1>1 DEF Awarded, Totals
<1>3. /\ Awarded(t, r).awarded = t.awarded + r /\ Awarded(t, r).inSwap = t.inSwap
      /\ Awarded(t, r).swapped = t.swapped
      /\ Awarded(t, r).outstanding = t.outstanding + r /\ Awarded(t, r).expired = t.expired
  BY DEF Awarded, Totals
<1> QED BY <1>2, <1>3, TotalsFields

\* A swap opens.
Swapped(t, cost) == [t EXCEPT !.outstanding = @ - cost, !.inSwap = @ + cost]

LEMMA SwappedTotals ==
  ASSUME NEW t \in Totals, NEW cost \in Int
  PROVE  /\ Swapped(t, cost) \in Totals /\ Swapped(t, cost).awarded = t.awarded
         /\ Swapped(t, cost).inSwap = t.inSwap + cost
         /\ Swapped(t, cost).swapped = t.swapped
         /\ Swapped(t, cost).outstanding + Swapped(t, cost).expired = t.outstanding + t.expired - cost
<1>1. t.outstanding - cost \in Int /\ t.inSwap + cost \in Int
  BY TotalsFields
<1>2. Swapped(t, cost) \in Totals
  BY <1>1 DEF Swapped, Totals
<1>3. /\ Swapped(t, cost).awarded = t.awarded /\ Swapped(t, cost).inSwap = t.inSwap + cost
      /\ Swapped(t, cost).swapped = t.swapped
      /\ Swapped(t, cost).outstanding = t.outstanding - cost /\ Swapped(t, cost).expired = t.expired
  BY DEF Swapped, Totals
<1> QED BY <1>2, <1>3, TotalsFields

Refunded(t, cost) == [t EXCEPT !.inSwap = @ - cost, !.outstanding = @ + cost]

LEMMA RefundedTotals ==
  ASSUME NEW t \in Totals, NEW cost \in Int
  PROVE  /\ Refunded(t, cost) \in Totals /\ Refunded(t, cost).awarded = t.awarded
         /\ Refunded(t, cost).inSwap = t.inSwap - cost
         /\ Refunded(t, cost).swapped = t.swapped
         /\ Refunded(t, cost).outstanding + Refunded(t, cost).expired = t.outstanding + t.expired + cost
<1>1. t.outstanding + cost \in Int /\ t.inSwap - cost \in Int
  BY TotalsFields
<1>2. Refunded(t, cost) \in Totals
  BY <1>1 DEF Refunded, Totals
<1>3. /\ Refunded(t, cost).awarded = t.awarded /\ Refunded(t, cost).inSwap = t.inSwap - cost
      /\ Refunded(t, cost).swapped = t.swapped
      /\ Refunded(t, cost).outstanding = t.outstanding + cost /\ Refunded(t, cost).expired = t.expired
  BY DEF Refunded, Totals
<1> QED BY <1>2, <1>3, TotalsFields

Settled(t, cost) == [t EXCEPT !.inSwap = @ - cost, !.swapped = @ + cost]

LEMMA SettledTotals ==
  ASSUME NEW t \in Totals, NEW cost \in Int
  PROVE  /\ Settled(t, cost) \in Totals /\ Settled(t, cost).awarded = t.awarded
         /\ Settled(t, cost).inSwap = t.inSwap - cost
         /\ Settled(t, cost).swapped = t.swapped + cost
         /\ Settled(t, cost).outstanding + Settled(t, cost).expired = t.outstanding + t.expired
<1>1. t.inSwap - cost \in Int /\ t.swapped + cost \in Int
  BY TotalsFields
<1>2. Settled(t, cost) \in Totals
  BY <1>1 DEF Settled, Totals
<1>3. /\ Settled(t, cost).awarded = t.awarded /\ Settled(t, cost).inSwap = t.inSwap - cost
      /\ Settled(t, cost).swapped = t.swapped + cost
      /\ Settled(t, cost).outstanding = t.outstanding /\ Settled(t, cost).expired = t.expired
  BY DEF Settled, Totals
<1> QED BY <1>2, <1>3, TotalsFields

LEMMA StartsAgreed == Inputs /\ Init => IInv
<1> SUFFICES ASSUME Inputs, Init PROVE IInv
  OBVIOUS
<1>1. Mirror!Init
  BY DEF Init, Memory!Init, Mirror!Init, Memory!NoMission, Mirror!NoMission, Memory!NoItem,
         Mirror!NoItem, Memory!FreshAccount, Mirror!FreshAccount, Memory!SeededRoles,
         Mirror!SeededRoles, Memory!Roles, Mirror!Roles
<1>2. Mirror!Listed
  BY <1>1, Mirror!InitListed DEF Inputs
<1> DEFINE fresh == [balance |-> 0, lifetimeAwarded |-> 0, expiresAt |-> 0]
           none == [awarded |-> 0, outstanding |-> 0, inSwap |-> 0, swapped |-> 0, expired |-> 0]
<1>3. /\ chainAccounts = [l \in Learners |-> fresh] /\ memAccounts = [l \in Learners |-> fresh]
      /\ chainTotals = none /\ memTotals = none
      /\ chainItems = memItems /\ chainCompleted = memCompleted /\ chainSwaps = memSwaps
  BY DEF Init, Chain!Init, Memory!Init, Memory!NoItem, Memory!FreshAccount
<1>4. fresh \in Account /\ none \in Totals
  BY DEF Account, Totals
<1> HIDE DEF fresh, none
<1>5. Types /\ SameAccounts /\ SameRest /\ Stats(chainTotals) = Stats(memTotals)
  BY <1>3, <1>4 DEF Types, SameAccounts, SameRest, Stats
<1> QED BY <1>2, <1>5 DEF IInv, Agree
-----------------------------------------------------------------------------
(***************************************************************************)
(* Call by call.                                                           *)
(***************************************************************************)
\* Both leave everything but the account and the totals.
LEMMA NothingMoves ==
  ASSUME IInv, UNCHANGED <<now, chain, memory>>
  PROVE  Agree'
<1>1. UNCHANGED <<now, chainItems, chainAccounts, chainCompleted, chainSwaps, chainTotals,
                  memItems, memAccounts, memCompleted, memSwaps, memTotals>>
  BY DEF chain, memory
<1> QED BY <1>1 DEF IInv, Agree, Types, SameAccounts, SameRest, Stats, Chain!IsExpired

\* An account without its balance.
Emptied(a) == [a EXCEPT !.balance = 0]

LEMMA EmptiedAccount ==
  ASSUME NEW a \in Account
  PROVE  /\ Emptied(a) \in Account /\ Emptied(a).balance = 0
         /\ Emptied(a).lifetimeAwarded = a.lifetimeAwarded /\ Emptied(a).expiresAt = a.expiresAt
BY DEF Emptied, Account

\* Swept by the mirror alone: what a refused call leaves behind.
LEMMA MirrorSweeps ==
  ASSUME IInv, NEW l \in Learners, Memory!SweptOnly(l), UNCHANGED <<common, chain>>
  PROVE  Agree'
<1>1. /\ memAccounts' = [memAccounts EXCEPT ![l] = Emptied(memAccounts[l])]
      /\ memTotals' = Swept(memTotals, Memory!Due(l))
      /\ UNCHANGED <<now, chainItems, chainAccounts, chainCompleted, chainSwaps, chainTotals,
                     memItems, memCompleted, memSwaps>>
  BY DEF Memory!SweptOnly, Memory!SweptTotals, Emptied, Swept, common, chain
<1>2. /\ chainAccounts[l] \in Account /\ Memory!Due(l) \in Int
      /\ memAccounts[l].lifetimeAwarded = chainAccounts[l].lifetimeAwarded
      /\ memAccounts[l].expiresAt = chainAccounts[l].expiresAt
      /\ Chain!IsExpired(l) = Memory!IsExpired(l)
  BY SameDue
<1>3. /\ chainTotals \in Totals /\ memTotals \in Totals /\ SameRest
      /\ chainAccounts \in [Learners -> Account] /\ memAccounts \in [Learners -> Account]
  BY DEF IInv, Agree, Types
<1>4. PICK b \in Account : /\ memAccounts' = [memAccounts EXCEPT ![l] = b] /\ b.balance = 0
                           /\ b.lifetimeAwarded = memAccounts[l].lifetimeAwarded
                           /\ b.expiresAt = memAccounts[l].expiresAt
  BY <1>1, <1>3, EmptiedAccount
<1>5. PICK a \in Account : chainAccounts' = [chainAccounts EXCEPT ![l] = a] /\ a = chainAccounts[l]
  BY <1>1, <1>2, <1>3
<1>6. memAccounts[l].expiresAt # 0 /\ now >= memAccounts[l].expiresAt
  BY DEF Memory!SweptOnly, Memory!Due, Memory!IsExpired
<1>7. SameAccounts' /\ chainAccounts' \in [Learners -> Account] /\ memAccounts' \in [Learners -> Account]
  <2>1. /\ b.lifetimeAwarded = a.lifetimeAwarded /\ b.expiresAt = a.expiresAt
        /\ a.expiresAt # 0 /\ now >= a.expiresAt
    BY <1>2, <1>4, <1>5, <1>6
  <2>2. now' = now
    BY <1>1
  <2> QED BY <1>4, <1>5, <2>1, <2>2, RewrittenAccounts
<1>8. /\ memTotals' \in Totals /\ memTotals'.awarded = memTotals.awarded
      /\ memTotals'.inSwap = memTotals.inSwap /\ memTotals'.swapped = memTotals.swapped
      /\ memTotals'.outstanding + memTotals'.expired = memTotals.outstanding + memTotals.expired
  BY <1>1, <1>2, <1>3, SweptTotals
<1>9. Stats(chainTotals)' = Stats(memTotals)'
  BY <1>1, <1>3, <1>8, TotalsFields, SameStats
<1> QED BY <1>1, <1>3, <1>7, <1>8, <1>9 DEF Agree, Types, SameRest

LEMMA SweepAgrees ==
  ASSUME IInv, NEW l \in Learners, Sweep(l)
  PROVE  Agree'
<1>1. \/ Chain!SweepExpired(l)
      \/ ~Chain!MaySweep(l) /\ UNCHANGED <<common, chain>>
  BY DEF Sweep, Both
<1>2. \/ Memory!SweepExpired(l)
      \/ ~Memory!MaySweep(l) /\ UNCHANGED <<common, memory>>
  BY DEF Sweep, Both
<1>3. CASE UNCHANGED <<common, chain>>
  BY <1>2, <1>3, MirrorSweeps, NothingMoves DEF Memory!SweepExpired, common
<1>4. CASE Chain!SweepExpired(l)
  <2>1. /\ chainAccounts' = [chainAccounts EXCEPT ![l] = Emptied(chainAccounts[l])]
        /\ chainTotals' = Swept(chainTotals, Chain!Sweepable(l))
        /\ UNCHANGED <<now, chainItems, chainCompleted, chainSwaps>> /\ Chain!IsExpired(l)
    BY <1>4 DEF Chain!SweepExpired, Chain!MaySweep, Chain!Expire, Emptied, Swept
  <2>2. /\ memAccounts[l] \in Account /\ Memory!Due(l) \in Int /\ Chain!Sweepable(l) \in Int
        /\ memAccounts[l].lifetimeAwarded = chainAccounts[l].lifetimeAwarded
        /\ memAccounts[l].expiresAt = chainAccounts[l].expiresAt
        /\ Chain!IsExpired(l) = Memory!IsExpired(l)
    BY SameDue
  <2>3. /\ chainTotals \in Totals /\ memTotals \in Totals /\ SameRest
        /\ chainAccounts \in [Learners -> Account] /\ memAccounts \in [Learners -> Account]
    BY DEF IInv, Agree, Types
  <2>4. PICK a \in Account : /\ chainAccounts' = [chainAccounts EXCEPT ![l] = a] /\ a.balance = 0
                             /\ a.lifetimeAwarded = chainAccounts[l].lifetimeAwarded
                             /\ a.expiresAt = chainAccounts[l].expiresAt
    BY <2>1, <2>3, EmptiedAccount
  <2>5. /\ chainTotals' \in Totals /\ chainTotals'.awarded = chainTotals.awarded
        /\ chainTotals'.inSwap = chainTotals.inSwap /\ chainTotals'.swapped = chainTotals.swapped
        /\ chainTotals'.outstanding + chainTotals'.expired = chainTotals.outstanding + chainTotals.expired
    BY <2>1, <2>2, <2>3, SweptTotals
  <2>6. /\ memTotals' \in Totals /\ memTotals'.awarded = memTotals.awarded
        /\ memTotals'.inSwap = memTotals.inSwap /\ memTotals'.swapped = memTotals.swapped
        /\ memTotals'.outstanding + memTotals'.expired = memTotals.outstanding + memTotals.expired
        /\ UNCHANGED <<memItems, memCompleted, memSwaps>>
    <3>1. CASE Memory!SweepExpired(l)
      <4>1. /\ memTotals' = Swept(memTotals, Memory!Due(l))
            /\ UNCHANGED <<memItems, memCompleted, memSwaps>>
        BY <3>1 DEF Memory!SweepExpired, Memory!SweptOnly, Memory!SweptTotals, Swept
      <4> QED BY <2>2, <2>3, <4>1, SweptTotals
    <3>2. CASE UNCHANGED memory
      BY <2>3, <3>2 DEF memory
    <3> QED BY <1>2, <3>1, <3>2
  <2>7. PICK b \in Account : /\ memAccounts' = [memAccounts EXCEPT ![l] = b] /\ b.balance = 0
                             /\ b.lifetimeAwarded = memAccounts[l].lifetimeAwarded
                             /\ b.expiresAt = memAccounts[l].expiresAt
    <3>1. CASE Memory!SweepExpired(l)
      <4>1. memAccounts' = [memAccounts EXCEPT ![l] = Emptied(memAccounts[l])]
        BY <3>1 DEF Memory!SweepExpired, Memory!SweptOnly, Emptied
      <4> QED BY <2>3, <4>1, EmptiedAccount
    <3>2. CASE ~Memory!MaySweep(l) /\ UNCHANGED memory
      <4>1. memAccounts[l].balance = 0
        BY <2>1, <2>2, <3>2 DEF Memory!MaySweep
      <4>2. memAccounts' = [memAccounts EXCEPT ![l] = memAccounts[l]]
        BY <2>3, <3>2 DEF memory
      <4> QED BY <2>2, <4>1, <4>2
    <3> QED BY <1>2, <3>1, <3>2
  <2>8. SameAccounts' /\ chainAccounts' \in [Learners -> Account] /\ memAccounts' \in [Learners -> Account]
    BY <2>1, <2>2, <2>4, <2>7, RewrittenAccounts
  <2>9. Stats(chainTotals)' = Stats(memTotals)'
    BY <2>3, <2>5, <2>6, TotalsFields, SameStats
  <2> QED BY <2>1, <2>3, <2>5, <2>6, <2>8, <2>9 DEF Agree, Types, SameRest
<1> QED BY <1>1, <1>3, <1>4

\* They award in the same cases, and the same; an award refused over the cap
\* may leave a sweep in the mirror.
LEMMA AwardAgrees ==
  ASSUME Inputs, IInv, NEW a \in Actors, NEW l \in Learners, NEW m \in Missions, Award(a, l, m)
  PROVE  Agree'
<1> DEFINE r == missions[m].reward
           sw == Chain!Sweepable(l)
           due == Memory!Due(l)
<1>1. r \in Nat /\ (missions[m].active => missions[m].exists) /\ LIFETIME_CAP \in Nat /\ CREDIT_TTL \in Nat
  BY DEF IInv, Mirror!Listed, Mirror!Mission, Inputs, Mirror!Inputs
<1>2. /\ chainAccounts[l] \in Account /\ memAccounts[l] \in Account /\ now \in Nat
      /\ sw \in Int /\ due \in Int
      /\ chainAccounts[l].balance - sw = memAccounts[l].balance - due
      /\ memAccounts[l].lifetimeAwarded = chainAccounts[l].lifetimeAwarded
  BY SameDue
<1>3. /\ chainTotals \in Totals /\ memTotals \in Totals /\ SameRest
      /\ chainAccounts \in [Learners -> Account] /\ memAccounts \in [Learners -> Account]
  BY DEF IInv, Agree, Types
<1>4. Chain!MayAward(a, l, m) <=> Memory!MayAward(a, l, m) /\ ~Memory!OverCap(l, m)
  <2>1. Chain!WithinCap(l, r) <=> ~Memory!OverCap(l, m)
    BY <1>1, <1>2, AccountFields DEF Chain!WithinCap, Memory!OverCap
  <2>2. Chain!CompletionKey(l, m) = <<l, m, missions[m].version>> /\ chainCompleted = memCompleted
    BY <1>3 DEF Chain!CompletionKey, SameRest
  <2> QED BY <1>1, <2>1, <2>2 DEF Chain!MayAward, Memory!MayAward
<1>5. CASE ~Chain!MayAward(a, l, m)
  <2>1. UNCHANGED <<common, chain>>
    BY <1>5 DEF Award, Both
  <2>2. Memory!SweptOnly(l) \/ UNCHANGED memory
    BY <1>4, <1>5 DEF Award, Both, Memory!Award, Memory!AwardCredits, Memory!AwardRefusedAfterSweep
  <2> QED BY <2>1, <2>2, MirrorSweeps, NothingMoves DEF common
<1>6. CASE Chain!MayAward(a, l, m)
  <2> DEFINE c == [balance         |-> chainAccounts[l].balance - sw + r,
                   lifetimeAwarded |-> chainAccounts[l].lifetimeAwarded + r,
                   expiresAt       |-> now + CREDIT_TTL]
             b == [balance         |-> memAccounts[l].balance - due + r,
                   lifetimeAwarded |-> memAccounts[l].lifetimeAwarded + r,
                   expiresAt       |-> now + CREDIT_TTL]
             ct == Swept(chainTotals, sw)
             mt == Swept(memTotals, due)
  <2>1. Chain!AwardCredits(a, l, m) /\ Memory!AwardCredits(a, l, m)
    BY <1>4, <1>6 DEF Award, Both, Memory!Awards, Memory!Award, Memory!AwardRefusedAfterSweep
  <2>2. /\ chainAccounts' = [chainAccounts EXCEPT ![l] = c]
        /\ chainTotals' = Awarded(ct, r)
        /\ chainCompleted' = chainCompleted \cup {<<l, m, missions[m].version>>}
        /\ UNCHANGED <<now, chainItems, chainSwaps>>
    BY <2>1 DEF Chain!AwardCredits, Chain!Expire, Chain!CompletionKey, Swept, Awarded
  <2>3. /\ memAccounts' = [memAccounts EXCEPT ![l] = b]
        /\ memTotals' = Awarded(mt, r)
        /\ memCompleted' = memCompleted \cup {<<l, m, missions[m].version>>}
        /\ UNCHANGED <<memItems, memSwaps>>
    BY <2>1 DEF Memory!AwardCredits, Memory!SweptTotals, Swept, Awarded
  <2>4. /\ c \in Account /\ b \in Account /\ b.balance = c.balance
        /\ b.lifetimeAwarded = c.lifetimeAwarded /\ b.expiresAt = c.expiresAt
    BY <1>1, <1>2, AccountFields DEF Account
  <2>5. /\ ct \in Totals /\ ct.awarded = chainTotals.awarded /\ ct.inSwap = chainTotals.inSwap
        /\ ct.swapped = chainTotals.swapped
        /\ ct.outstanding + ct.expired = chainTotals.outstanding + chainTotals.expired
    BY <1>2, <1>3, SweptTotals
  <2>6. /\ mt \in Totals /\ mt.awarded = memTotals.awarded /\ mt.inSwap = memTotals.inSwap
        /\ mt.swapped = memTotals.swapped
        /\ mt.outstanding + mt.expired = memTotals.outstanding + memTotals.expired
    BY <1>2, <1>3, SweptTotals
  <2> HIDE DEF c, b, ct, mt, r
  <2>7. SameAccounts' /\ chainAccounts' \in [Learners -> Account] /\ memAccounts' \in [Learners -> Account]
    BY <2>2, <2>3, <2>4, RewrittenAccounts
  <2>8. /\ chainTotals' \in Totals /\ chainTotals'.awarded = ct.awarded + r
        /\ chainTotals'.inSwap = ct.inSwap /\ chainTotals'.swapped = ct.swapped
        /\ chainTotals'.outstanding + chainTotals'.expired = ct.outstanding + ct.expired + r
    BY <1>1, <2>2, <2>5, AwardedTotals
  <2>9. /\ memTotals' \in Totals /\ memTotals'.awarded = mt.awarded + r
        /\ memTotals'.inSwap = mt.inSwap /\ memTotals'.swapped = mt.swapped
        /\ memTotals'.outstanding + memTotals'.expired = mt.outstanding + mt.expired + r
    BY <1>1, <2>3, <2>6, AwardedTotals
  <2>10. Stats(chainTotals)' = Stats(memTotals)'
    BY <1>1, <1>3, <2>5, <2>6, <2>8, <2>9, TotalsFields, SameStats
  <2>11. SameRest'
    BY <1>3, <2>2, <2>3 DEF SameRest
  <2> QED BY <2>7, <2>8, <2>9, <2>10, <2>11 DEF Agree, Types
<1> QED BY <1>5, <1>6

\* They open a swap in the same cases, at the same price; one refused for lack
\* of credits may leave a sweep in the mirror.
LEMMA RequestAgrees ==
  ASSUME IInv, NEW a \in Actors, NEW l \in Learners, NEW i \in Items, Request(a, l, i)
  PROVE  Agree'
<1> DEFINE cost == memItems[i].cost
           sw == Chain!Sweepable(l)
           due == Memory!Due(l)
<1>1. /\ memItems \in [Items -> Mirror!CatalogItem] /\ memItems[i] \in Mirror!CatalogItem
      /\ memItems[i].active => memItems[i].exists
  BY DEF IInv, Mirror!Listed
<1>2. /\ chainAccounts[l] \in Account /\ memAccounts[l] \in Account
      /\ sw \in Int /\ due \in Int
      /\ chainAccounts[l].balance - sw = memAccounts[l].balance - due
      /\ memAccounts[l].lifetimeAwarded = chainAccounts[l].lifetimeAwarded
      /\ memAccounts[l].expiresAt = chainAccounts[l].expiresAt
  BY SameDue
<1>3. /\ chainTotals \in Totals /\ memTotals \in Totals
      /\ chainItems = memItems /\ chainSwaps = memSwaps /\ chainCompleted = memCompleted
      /\ chainAccounts \in [Learners -> Account] /\ memAccounts \in [Learners -> Account]
  BY DEF IInv, Agree, Types, SameRest
<1>4. cost \in Nat /\ memItems[i].inventory \in Nat
  BY <1>1 DEF Mirror!CatalogItem
<1>5. Chain!MayRequest(a, l, i) <=>
        Memory!MayRequest(a, i) /\ Memory!Affords(l, i) /\ Len(memSwaps) < MaxSwaps
  BY <1>1, <1>2, <1>3 DEF Chain!MayRequest, Chain!InStock, Memory!MayRequest, Memory!SoldOut, Memory!Affords
<1>6. CASE ~Chain!MayRequest(a, l, i)
  <2>1. UNCHANGED <<common, chain>>
    BY <1>6 DEF Request, Both
  <2>2. Memory!SweptOnly(l) \/ UNCHANGED memory
    BY <1>5, <1>6 DEF Request, Both, Memory!Request, Memory!RequestSwap, Memory!RequestRefusedAfterSweep
  <2> QED BY <2>1, <2>2, MirrorSweeps, NothingMoves DEF common
<1>7. CASE Chain!MayRequest(a, l, i)
  <2> DEFINE c == [chainAccounts[l] EXCEPT !.balance = @ - sw - cost]
             b == [memAccounts[l] EXCEPT !.balance = @ - due - cost]
             ct == Swept(chainTotals, sw)
             mt == Swept(memTotals, due)
             new == [learner |-> l, item |-> i, cost |-> cost, status |-> "Requested"]
             left == [memItems EXCEPT ![i].inventory = @ - 1]
  <2>1. Chain!RequestSwap(a, l, i) /\ Memory!RequestSwap(a, l, i)
    BY <1>5, <1>7 DEF Request, Both, Memory!Requests, Memory!Request, Memory!RequestRefusedAfterSweep
  <2>2. /\ chainAccounts' = [chainAccounts EXCEPT ![l] = c]
        /\ chainTotals' = Swapped(ct, cost)
        /\ chainSwaps' = Append(chainSwaps, new)
        /\ UNCHANGED <<now, chainCompleted>>
    BY <1>3, <2>1 DEF Chain!RequestSwap, Chain!Expire, Swept, Swapped
  <2>3. /\ memAccounts' = [memAccounts EXCEPT ![l] = b]
        /\ memTotals' = Swapped(mt, cost)
        /\ memSwaps' = Append(memSwaps, new) /\ memItems' = left
        /\ UNCHANGED memCompleted
    BY <2>1 DEF Memory!RequestSwap, Memory!SweptTotals, Swept, Swapped
  <2>4. chainItems' = left
    <3>1. chainItems' = [memItems EXCEPT ![i].inventory = @ + (-1)]
      BY <1>3, <2>1 DEF Chain!RequestSwap, Chain!Shelve
    <3>2. memItems[i].inventory + (-1) = memItems[i].inventory - 1
      BY <1>4
    <3> QED BY <3>1, <3>2
  <2>5. /\ c \in Account /\ b \in Account /\ b.balance = c.balance
        /\ b.lifetimeAwarded = c.lifetimeAwarded /\ b.expiresAt = c.expiresAt
    BY <1>2, <1>4, AccountFields DEF Account
  <2>6. /\ ct \in Totals /\ ct.awarded = chainTotals.awarded /\ ct.inSwap = chainTotals.inSwap
        /\ ct.swapped = chainTotals.swapped
        /\ ct.outstanding + ct.expired = chainTotals.outstanding + chainTotals.expired
    BY <1>2, <1>3, SweptTotals
  <2>7. /\ mt \in Totals /\ mt.awarded = memTotals.awarded /\ mt.inSwap = memTotals.inSwap
        /\ mt.swapped = memTotals.swapped
        /\ mt.outstanding + mt.expired = memTotals.outstanding + memTotals.expired
    BY <1>2, <1>3, SweptTotals
  <2> HIDE DEF c, b, ct, mt, cost, new, left
  <2>8. SameAccounts' /\ chainAccounts' \in [Learners -> Account] /\ memAccounts' \in [Learners -> Account]
    BY <2>2, <2>3, <2>5, RewrittenAccounts
  <2>9. /\ chainTotals' \in Totals /\ chainTotals'.awarded = ct.awarded
        /\ chainTotals'.inSwap = ct.inSwap + cost /\ chainTotals'.swapped = ct.swapped
        /\ chainTotals'.outstanding + chainTotals'.expired = ct.outstanding + ct.expired - cost
    BY <1>4, <2>2, <2>6, SwappedTotals
  <2>10. /\ memTotals' \in Totals /\ memTotals'.awarded = mt.awarded
         /\ memTotals'.inSwap = mt.inSwap + cost /\ memTotals'.swapped = mt.swapped
         /\ memTotals'.outstanding + memTotals'.expired = mt.outstanding + mt.expired - cost
    <3>1. mt \in Totals /\ cost \in Int /\ memTotals' = Swapped(mt, cost)
      BY <1>4, <2>3, <2>7
    <3> QED BY <3>1, SwappedTotals
  <2>11. Stats(chainTotals)' = Stats(memTotals)'
    BY <1>3, <1>4, <2>6, <2>7, <2>9, <2>10, TotalsFields, SameStats
  <2>12. SameRest'
    BY <1>3, <2>2, <2>3, <2>4 DEF SameRest
  <2> QED BY <2>8, <2>9, <2>10, <2>11, <2>12 DEF Agree, Types
<1> QED BY <1>6, <1>7

\* The swap a decision is about.
LEMMA TheSwap ==
  ASSUME IInv, NEW s \in DOMAIN chainSwaps
  PROVE  /\ chainSwaps = memSwaps /\ memSwaps[s].learner \in Learners
         /\ memSwaps[s].item \in Items /\ memSwaps[s].cost \in Nat
<1>1. chainSwaps = memSwaps /\ memSwaps \in Seq(Mirror!Swap)
  BY DEF IInv, Mirror!Listed, Agree, SameRest
<1>2. memSwaps[s] \in Mirror!Swap
  BY <1>1, ElementOfSeq, LenProperties
<1> QED BY <1>1, <1>2 DEF Mirror!Swap

LEMMA SettleAgrees ==
  ASSUME IInv, NEW a \in Actors, NEW s \in DOMAIN chainSwaps, Settle(a, s)
  PROVE  Agree'
<1> DEFINE cost == memSwaps[s].cost
<1>1. chainSwaps = memSwaps /\ cost \in Nat
  BY TheSwap
<1>2. /\ chainTotals \in Totals /\ memTotals \in Totals /\ SameRest /\ SameAccounts
      /\ chainAccounts \in [Learners -> Account] /\ memAccounts \in [Learners -> Account]
  BY DEF IInv, Agree, Types
<1>3. Chain!MaySettle(a, s) <=> Memory!MaySettle(a, s)
  BY <1>1 DEF Chain!MaySettle, Chain!IsOpen, Memory!MaySettle
<1>4. CASE ~Chain!MaySettle(a, s)
  BY <1>3, <1>4, NothingMoves DEF Settle, Both, common
<1>5. CASE Chain!MaySettle(a, s)
  <2>1. Chain!SettleSwap(a, s) /\ Memory!SettleSwap(a, s)
    BY <1>3, <1>5 DEF Settle, Both
  <2>2. /\ chainTotals' = Settled(chainTotals, cost) /\ memTotals' = Settled(memTotals, cost)
        /\ chainSwaps' = memSwaps'
        /\ UNCHANGED <<now, chainItems, chainAccounts, chainCompleted, memItems, memAccounts, memCompleted>>
    BY <1>1, <2>1 DEF Chain!SettleSwap, Memory!SettleSwap, Settled
  <2> HIDE DEF cost
  <2>3. /\ chainTotals' \in Totals /\ chainTotals'.awarded = chainTotals.awarded
        /\ chainTotals'.inSwap = chainTotals.inSwap - cost
        /\ chainTotals'.swapped = chainTotals.swapped + cost
        /\ chainTotals'.outstanding + chainTotals'.expired = chainTotals.outstanding + chainTotals.expired
    BY <1>1, <1>2, <2>2, SettledTotals
  <2>4. /\ memTotals' \in Totals /\ memTotals'.awarded = memTotals.awarded
        /\ memTotals'.inSwap = memTotals.inSwap - cost
        /\ memTotals'.swapped = memTotals.swapped + cost
        /\ memTotals'.outstanding + memTotals'.expired = memTotals.outstanding + memTotals.expired
    BY <1>1, <1>2, <2>2, SettledTotals
  <2>5. Stats(chainTotals)' = Stats(memTotals)'
    BY <1>1, <1>2, <2>3, <2>4, TotalsFields, SameStats
  <2>6. SameAccounts'
    BY <1>2, <2>2 DEF SameAccounts, Chain!IsExpired
  <2> QED BY <1>2, <2>2, <2>3, <2>4, <2>5, <2>6 DEF Agree, Types, SameRest
<1> QED BY <1>4, <1>5

\* With room on the shelf neither refuses a refund the other gives.
LEMMA CancelAgrees ==
  ASSUME Inputs, IInv, RoomOnTheShelf, NEW a \in Actors, NEW s \in DOMAIN chainSwaps, Cancel(a, s)
  PROVE  Agree'
<1> DEFINE l == memSwaps[s].learner
           i == memSwaps[s].item
           cost == memSwaps[s].cost
           sw == Chain!Sweepable(l)
           due == Memory!Due(l)
<1>1. chainSwaps = memSwaps /\ l \in Learners /\ i \in Items /\ cost \in Nat
  BY TheSwap
<1>2. /\ chainAccounts[l] \in Account /\ memAccounts[l] \in Account /\ now \in Nat
      /\ sw \in Int /\ due \in Int
      /\ Chain!IsExpired(l) = Memory!IsExpired(l)
      /\ chainAccounts[l].balance - sw = memAccounts[l].balance - due
      /\ memAccounts[l].lifetimeAwarded = chainAccounts[l].lifetimeAwarded
      /\ memAccounts[l].expiresAt = chainAccounts[l].expiresAt
  BY <1>1, SameDue
<1>3. /\ chainTotals \in Totals /\ memTotals \in Totals
      /\ chainItems = memItems /\ chainCompleted = memCompleted
      /\ chainAccounts \in [Learners -> Account] /\ memAccounts \in [Learners -> Account]
      /\ REFUND_GRACE_PERIOD \in Nat
  BY DEF IInv, Agree, Types, SameRest, Inputs, Mirror!Inputs
<1>4. Chain!MayRefund(a, s) <=> Memory!MayCancel(a, s)
  BY <1>1, <1>3 DEF Chain!MayRefund, Chain!MayCancel, Chain!IsOpen, Memory!MayCancel,
                    RoomOnTheShelf, Mirror!RoomOnTheShelf
<1>5. CASE ~Chain!MayRefund(a, s)
  BY <1>4, <1>5, NothingMoves DEF Cancel, Both, common
<1>6. CASE Chain!MayRefund(a, s)
  <2> DEFINE until == IF Memory!IsExpired(l) THEN now + REFUND_GRACE_PERIOD
                      ELSE memAccounts[l].expiresAt
             c == [balance         |-> chainAccounts[l].balance - sw + cost,
                   lifetimeAwarded |-> chainAccounts[l].lifetimeAwarded,
                   expiresAt       |-> until]
             b == [balance         |-> memAccounts[l].balance - due + cost,
                   lifetimeAwarded |-> memAccounts[l].lifetimeAwarded,
                   expiresAt       |-> until]
             ct == Swept(chainTotals, sw)
             mt == Swept(memTotals, due)
  <2>1. Chain!CancelSwap(a, s) /\ Memory!CancelSwap(a, s)
    BY <1>4, <1>6 DEF Cancel, Both
  <2>2. /\ chainAccounts' = [chainAccounts EXCEPT ![l] = c]
        /\ chainTotals' = Refunded(ct, cost)
        /\ chainSwaps' = [memSwaps EXCEPT ![s].status = "Cancelled"]
        /\ chainItems' = [memItems EXCEPT ![i].inventory = @ + 1]
        /\ UNCHANGED <<now, chainCompleted>>
    BY <1>1, <1>2, <1>3, <2>1
       DEF Chain!CancelSwap, Chain!Expire, Chain!Shelve, Chain!RefundDeadline, Swept, Refunded
  <2>3. /\ memAccounts' = [memAccounts EXCEPT ![l] = b]
        /\ memTotals' = Refunded(mt, cost)
        /\ memSwaps' = [memSwaps EXCEPT ![s].status = "Cancelled"]
        /\ memItems' = [memItems EXCEPT ![i].inventory = @ + 1]
        /\ UNCHANGED memCompleted
    BY <1>1, <1>3, <2>1 DEF Memory!CancelSwap, Memory!RefundedBalance, Memory!SweptTotals, Swept, Refunded
  <2>4. until \in Nat
    BY <1>2, <1>3, AccountFields
  <2> HIDE DEF until
  <2>5. /\ c \in Account /\ b \in Account /\ b.balance = c.balance
        /\ b.lifetimeAwarded = c.lifetimeAwarded /\ b.expiresAt = c.expiresAt
    BY <1>1, <1>2, <2>4, AccountFields DEF Account
  <2>6. /\ ct \in Totals /\ ct.awarded = chainTotals.awarded /\ ct.inSwap = chainTotals.inSwap
        /\ ct.swapped = chainTotals.swapped
        /\ ct.outstanding + ct.expired = chainTotals.outstanding + chainTotals.expired
    BY <1>2, <1>3, SweptTotals
  <2>7. /\ mt \in Totals /\ mt.awarded = memTotals.awarded /\ mt.inSwap = memTotals.inSwap
        /\ mt.swapped = memTotals.swapped
        /\ mt.outstanding + mt.expired = memTotals.outstanding + memTotals.expired
    BY <1>2, <1>3, SweptTotals
  <2> HIDE DEF l, i, c, b, ct, mt, cost
  <2>8. SameAccounts' /\ chainAccounts' \in [Learners -> Account] /\ memAccounts' \in [Learners -> Account]
    BY <1>1, <2>2, <2>3, <2>5, RewrittenAccounts
  <2>9. /\ chainTotals' \in Totals /\ chainTotals'.awarded = ct.awarded
        /\ chainTotals'.inSwap = ct.inSwap - cost /\ chainTotals'.swapped = ct.swapped
        /\ chainTotals'.outstanding + chainTotals'.expired = ct.outstanding + ct.expired + cost
    BY <1>1, <2>2, <2>6, RefundedTotals
  <2>10. /\ memTotals' \in Totals /\ memTotals'.awarded = mt.awarded
         /\ memTotals'.inSwap = mt.inSwap - cost /\ memTotals'.swapped = mt.swapped
         /\ memTotals'.outstanding + memTotals'.expired = mt.outstanding + mt.expired + cost
    BY <1>1, <2>3, <2>7, RefundedTotals
  <2>11. Stats(chainTotals)' = Stats(memTotals)'
    BY <1>1, <1>3, <2>6, <2>7, <2>9, <2>10, TotalsFields, SameStats
  <2>12. SameRest'
    BY <1>3, <2>2, <2>3 DEF SameRest
  <2> QED BY <2>8, <2>9, <2>10, <2>11, <2>12 DEF Agree, Types
<1> QED BY <1>5, <1>6

\* What is configured, for both.
LEMMA ConfigureAgrees ==
  ASSUME IInv, NEW a \in Actors, Configure(a)
  PROVE  Agree'
<1>1. ASSUME NEW m \in Missions, NEW r \in Rewards, NEW v \in Versions, NEW on \in BOOLEAN,
             Chain!ConfigureMission(a, m, r, v, on), Memory!ConfigureMission(a, m, r, v, on)
      PROVE  Agree'
  BY <1>1, NothingMoves DEF Chain!ConfigureMission, Memory!ConfigureMission, chain, memory
<1>2. ASSUME NEW i \in Items, NEW c \in Costs, NEW n \in Stocks, NEW on \in BOOLEAN,
             Both(Chain!MayConfigureItem(a, c), Chain!ConfigureCatalogItem(a, i, c, n, on),
                  Memory!MayConfigureItem(a, c), Memory!ConfigureCatalogItem(a, i, c, n, on))
      PROVE  Agree'
  <2>1. Chain!MayConfigureItem(a, c) <=> Memory!MayConfigureItem(a, c)
    BY DEF Chain!MayConfigureItem, Memory!MayConfigureItem
  <2>2. CASE ~Chain!MayConfigureItem(a, c)
    BY <1>2, <2>1, <2>2, NothingMoves DEF Both, common
  <2>3. CASE Chain!MayConfigureItem(a, c)
    <3>1. Chain!ConfigureCatalogItem(a, i, c, n, on) /\ Memory!ConfigureCatalogItem(a, i, c, n, on)
      BY <1>2, <2>1, <2>3 DEF Both
    <3>2. chainItems = memItems
      BY DEF IInv, Agree, SameRest
    <3>3. /\ chainItems' = memItems'
          /\ UNCHANGED <<now, chainAccounts, chainCompleted, chainSwaps, chainTotals,
                         memAccounts, memCompleted, memSwaps, memTotals>>
      BY <3>1, <3>2 DEF Chain!ConfigureCatalogItem, Memory!ConfigureCatalogItem
    <3> QED BY <3>3 DEF IInv, Agree, Types, SameAccounts, SameRest, Stats, Chain!IsExpired
  <2> QED BY <2>2, <2>3
<1>3. CASE (Chain!Pause(a) /\ Memory!Pause(a)) \/ (Chain!Unpause(a) /\ Memory!Unpause(a))
  BY <1>3, NothingMoves DEF Chain!Pause, Memory!Pause, Chain!Unpause, Memory!Unpause, chain, memory
<1> QED BY <1>1, <1>2, <1>3 DEF Configure

LEMMA ChangeRoleAgrees ==
  ASSUME IInv, NEW role, NEW account, ChangeRole(role, account)
  PROVE  Agree'
BY NothingMoves DEF ChangeRole, Chain!GrantRole, Memory!GrantRole, Chain!RevokeRole,
                    Memory!RevokeRole, chain, memory

\* What has expired stays so.
LEMMA TickAgrees ==
  ASSUME IInv, Tick
  PROVE  Agree'
<1>1. now \in Nat /\ now' = now + 1
      /\ UNCHANGED <<chainItems, chainAccounts, chainCompleted, chainSwaps, chainTotals,
                     memItems, memAccounts, memCompleted, memSwaps, memTotals>>
  BY DEF IInv, Mirror!Listed, Tick, Chain!Tick, Memory!Tick
<1>2. SameAccounts'
  <2> SUFFICES ASSUME NEW l \in Learners, Chain!IsExpired(l)
               PROVE  Chain!IsExpired(l)'
    BY <1>1 DEF IInv, Agree, SameAccounts
  <2>1. chainAccounts[l].expiresAt \in Nat
    BY AccountFields DEF IInv, Agree, Types
  <2> QED BY <1>1, <2>1 DEF Chain!IsExpired
<1> QED BY <1>1, <1>2 DEF IInv, Agree, Types, SameRest, Stats

LEMMA StepAgrees ==
  ASSUME Inputs, IInv, RoomOnTheShelf, [Next]_vars
  PROVE  Agree'
<1>1. CASE UNCHANGED vars
  BY <1>1, NothingMoves DEF vars, common
<1>2. CASE Next
  BY <1>2, ConfigureAgrees, ChangeRoleAgrees, AwardAgrees, SweepAgrees, RequestAgrees,
     SettleAgrees, CancelAgrees, TickAgrees DEF Next
<1> QED BY <1>1, <1>2
-----------------------------------------------------------------------------
(***************************************************************************)
(* Memory, the mirror as LedgerParity names it, and Mirror, as its proofs  *)
(* do, are the same module over the same variables.                        *)
(***************************************************************************)
LEMMA SameSpecification ==
  /\ Memory!Init <=> Mirror!Init
  /\ Memory!vars = Mirror!vars
  /\ Memory!Next <=> Mirror!Next
<1>1. Memory!Init <=> Mirror!Init
  BY DEF Memory!Init, Mirror!Init, Memory!NoMission, Mirror!NoMission, Memory!NoItem, Mirror!NoItem,
         Memory!FreshAccount, Mirror!FreshAccount, Memory!SeededRoles, Mirror!SeededRoles,
         Memory!Roles, Mirror!Roles
<1>2. Memory!vars = Mirror!vars
  BY DEF Memory!vars, Mirror!vars
<1>3. \A a \in Actors : Memory!Admin(a) <=> Mirror!Admin(a)
  BY DEF Memory!Admin, Mirror!Admin, Memory!ConfigureMission, Mirror!ConfigureMission,
         Memory!ConfigureCatalogItem, Mirror!ConfigureCatalogItem, Memory!MayConfigureItem,
         Mirror!MayConfigureItem, Memory!Pause, Mirror!Pause, Memory!Unpause, Mirror!Unpause,
         Memory!GrantRole, Mirror!GrantRole, Memory!RevokeRole, Mirror!RevokeRole, Memory!RoleAdmin,
         Mirror!RoleAdmin
<1>4. \A a \in Actors, l \in Learners, m \in Missions : Memory!Award(a, l, m) <=> Mirror!Award(a, l, m)
  BY DEF Memory!Award, Mirror!Award, Memory!AwardCredits, Mirror!AwardCredits,
         Memory!AwardRefusedAfterSweep, Mirror!AwardRefusedAfterSweep, Memory!MayAward,
         Mirror!MayAward, Memory!OverCap, Mirror!OverCap, Memory!SweptOnly, Mirror!SweptOnly,
         Memory!SweptTotals, Mirror!SweptTotals, Memory!Due, Mirror!Due, Memory!IsExpired,
         Mirror!IsExpired
<1>5. \A l \in Learners : Memory!SweepExpired(l) <=> Mirror!SweepExpired(l)
  BY DEF Memory!SweepExpired, Mirror!SweepExpired, Memory!MaySweep, Mirror!MaySweep,
         Memory!SweptOnly, Mirror!SweptOnly, Memory!SweptTotals, Mirror!SweptTotals, Memory!Due,
         Mirror!Due, Memory!IsExpired, Mirror!IsExpired
<1>6. \A a \in Actors, l \in Learners, i \in Items : Memory!Request(a, l, i) <=> Mirror!Request(a, l, i)
  BY DEF Memory!Request, Mirror!Request, Memory!RequestSwap, Mirror!RequestSwap,
         Memory!RequestRefusedAfterSweep, Mirror!RequestRefusedAfterSweep, Memory!MayRequest,
         Mirror!MayRequest, Memory!SoldOut, Mirror!SoldOut, Memory!Affords, Mirror!Affords,
         Memory!SweptOnly, Mirror!SweptOnly, Memory!SweptTotals, Mirror!SweptTotals, Memory!Due,
         Mirror!Due, Memory!IsExpired, Mirror!IsExpired
<1>7. \A a \in Actors, s \in DOMAIN memSwaps : Memory!SettleSwap(a, s) <=> Mirror!SettleSwap(a, s)
  BY DEF Memory!SettleSwap, Mirror!SettleSwap, Memory!MaySettle, Mirror!MaySettle
<1>8. \A a \in Actors, s \in DOMAIN memSwaps : Memory!CancelSwap(a, s) <=> Mirror!CancelSwap(a, s)
  BY DEF Memory!CancelSwap, Mirror!CancelSwap, Memory!MayCancel, Mirror!MayCancel,
         Memory!RefundedBalance, Mirror!RefundedBalance, Memory!SweptTotals, Mirror!SweptTotals,
         Memory!Due, Mirror!Due, Memory!IsExpired, Mirror!IsExpired
<1>9. Memory!Tick <=> Mirror!Tick
  BY DEF Memory!Tick, Mirror!Tick
<1>10. Memory!Next <=> Mirror!Next
  BY <1>3, <1>4, <1>5, <1>6, <1>7, <1>8, <1>9 DEF Memory!Next, Mirror!Next
<1> QED BY <1>1, <1>2, <1>10

LEMMA SameContract ==
  /\ Mirror!Contract!Init => Memory!Contract!Init
  /\ [Mirror!Contract!Next]_(Mirror!Contract!vars) => [Memory!Contract!Next]_(Memory!Contract!vars)
<1>1. Mirror!Contract!Init <=> Memory!Contract!Init
  BY DEF Memory!Contract!Init, Mirror!Contract!Init, Memory!Contract!InitialRoles,
         Mirror!Contract!InitialRoles, Memory!Contract!Roles, Mirror!Contract!Roles
<1>2. \A a \in Actors : Memory!Contract!Admin(a) <=> Mirror!Contract!Admin(a)
  BY DEF Memory!Contract!Admin, Mirror!Contract!Admin, Memory!Contract!ConfigureMission,
         Mirror!Contract!ConfigureMission, Memory!Contract!ConfigureCatalogItem,
         Mirror!Contract!ConfigureCatalogItem, Memory!Contract!MayConfigureItem,
         Mirror!Contract!MayConfigureItem, Memory!Contract!Pause, Mirror!Contract!Pause,
         Memory!Contract!Unpause, Mirror!Contract!Unpause, Memory!Contract!GrantRole,
         Mirror!Contract!GrantRole, Memory!Contract!RevokeRole, Mirror!Contract!RevokeRole,
         Memory!Contract!RoleAdmin, Mirror!Contract!RoleAdmin
<1>3. \A a \in Actors, l \in Learners, m \in Missions :
        Memory!Contract!AwardCredits(a, l, m) <=> Mirror!Contract!AwardCredits(a, l, m)
  BY DEF Memory!Contract!AwardCredits, Mirror!Contract!AwardCredits, Memory!Contract!MayAward,
         Mirror!Contract!MayAward, Memory!Contract!CompletionKey, Mirror!Contract!CompletionKey,
         Memory!Contract!WithinCap, Mirror!Contract!WithinCap, Memory!Contract!Expire,
         Mirror!Contract!Expire, Memory!Contract!Sweepable, Mirror!Contract!Sweepable,
         Memory!Contract!IsExpired, Mirror!Contract!IsExpired
<1>4. \A l \in Learners : Memory!Contract!SweepExpired(l) <=> Mirror!Contract!SweepExpired(l)
  BY DEF Memory!Contract!SweepExpired, Mirror!Contract!SweepExpired, Memory!Contract!MaySweep,
         Mirror!Contract!MaySweep, Memory!Contract!Expire, Mirror!Contract!Expire,
         Memory!Contract!Sweepable, Mirror!Contract!Sweepable, Memory!Contract!IsExpired,
         Mirror!Contract!IsExpired
<1>5. \A a \in Actors, l \in Learners, i \in Items :
        Memory!Contract!RequestSwap(a, l, i) <=> Mirror!Contract!RequestSwap(a, l, i)
  BY DEF Memory!Contract!RequestSwap, Mirror!Contract!RequestSwap, Memory!Contract!MayRequest,
         Mirror!Contract!MayRequest, Memory!Contract!InStock, Mirror!Contract!InStock,
         Memory!Contract!Shelve, Mirror!Contract!Shelve, Memory!Contract!Expire,
         Mirror!Contract!Expire, Memory!Contract!Sweepable, Mirror!Contract!Sweepable,
         Memory!Contract!IsExpired, Mirror!Contract!IsExpired
<1>6. \A a \in Actors, s \in DOMAIN memSwaps :
        Memory!Contract!SettleSwap(a, s) <=> Mirror!Contract!SettleSwap(a, s)
  BY DEF Memory!Contract!SettleSwap, Mirror!Contract!SettleSwap, Memory!Contract!MaySettle,
         Mirror!Contract!MaySettle, Memory!Contract!IsOpen, Mirror!Contract!IsOpen
<1>7. \A a \in Actors, s \in DOMAIN memSwaps :
        Memory!Contract!CancelSwap(a, s) <=> Mirror!Contract!CancelSwap(a, s)
  BY DEF Memory!Contract!CancelSwap, Mirror!Contract!CancelSwap, Memory!Contract!MayRefund,
         Mirror!Contract!MayRefund, Memory!Contract!MayCancel, Mirror!Contract!MayCancel,
         Memory!Contract!IsOpen, Mirror!Contract!IsOpen, Memory!Contract!Shelve,
         Mirror!Contract!Shelve, Memory!Contract!RefundDeadline, Mirror!Contract!RefundDeadline,
         Memory!Contract!Expire, Mirror!Contract!Expire, Memory!Contract!Sweepable,
         Mirror!Contract!Sweepable, Memory!Contract!IsExpired, Mirror!Contract!IsExpired
<1>8. Memory!Contract!Tick <=> Mirror!Contract!Tick
  BY DEF Memory!Contract!Tick, Mirror!Contract!Tick
<1>9. Memory!Contract!Next <=> Mirror!Contract!Next
  BY <1>2, <1>3, <1>4, <1>5, <1>6, <1>7, <1>8 DEF Memory!Contract!Next, Mirror!Contract!Next
<1> QED BY <1>1, <1>9 DEF Memory!Contract!vars, Mirror!Contract!vars
-----------------------------------------------------------------------------
(***************************************************************************)
(* Behaviours.  Driven in lockstep with the contract, the mirror takes its *)
(* own steps and no others.                                                *)
(***************************************************************************)
LEMMA MirrorSteps ==
  ASSUME Inputs, IInv, [Next]_vars
  PROVE  [Mirror!Next]_(Mirror!vars)
<1>1. CASE UNCHANGED <<common, memory>>
  BY <1>1 DEF common, memory, Mirror!vars
<1>2. ASSUME NEW a \in Actors, Configure(a)
      PROVE  Memory!Next \/ UNCHANGED <<common, memory>>
  BY <1>2 DEF Configure, Both, Memory!Next, Memory!Admin
<1>3. ASSUME NEW rc \in RoleChanges, ChangeRole(rc[1], rc[2])
      PROVE  Memory!Next
  BY <1>3 DEF ChangeRole, Inputs, Memory!Next, Memory!Admin
<1>4. ASSUME NEW a \in Actors, NEW l \in Learners, NEW m \in Missions, Award(a, l, m)
      PROVE  Memory!Next \/ UNCHANGED <<common, memory>>
  BY <1>4 DEF Award, Both, Memory!Next
<1>5. ASSUME NEW l \in Learners, Sweep(l)
      PROVE  Memory!Next \/ UNCHANGED <<common, memory>>
  BY <1>5 DEF Sweep, Both, Memory!Next
<1>6. ASSUME NEW a \in Actors, NEW l \in Learners, NEW i \in Items, Request(a, l, i)
      PROVE  Memory!Next \/ UNCHANGED <<common, memory>>
  BY <1>6 DEF Request, Both, Memory!Next
<1>7. ASSUME NEW a \in Actors, NEW s \in DOMAIN chainSwaps, Settle(a, s) \/ Cancel(a, s)
      PROVE  Memory!Next \/ UNCHANGED <<common, memory>>
  <2>1. s \in DOMAIN memSwaps
    BY DEF IInv, Agree, SameRest
  <2> QED BY <1>7, <2>1 DEF Settle, Cancel, Both, Memory!Next
<1>8. CASE Tick
  BY <1>8, SameSpecification DEF Tick, Memory!Next
<1>9. CASE UNCHANGED vars
  BY <1>1, <1>9 DEF vars
<1> QED BY <1>1, <1>2, <1>3, <1>4, <1>5, <1>6, <1>7, <1>8, <1>9, SameSpecification DEF Next

LEMMA StartsInInvariant ==
  ASSUME Inputs, Init
  PROVE  IInv
BY StartsAgreed, SameSpecification, Mirror!InitListed DEF Inputs, Init, IInv

LEMMA StepKeepsInvariant ==
  ASSUME Inputs, IInv, RoomOnTheShelf, [Next]_vars
  PROVE  IInv'
BY StepAgrees, MirrorSteps, Mirror!NextListed DEF Inputs, IInv

\* After any calls the two ledgers agree, but for what the mirror swept first.
THEOREM Invariance ==
  ASSUME Inputs
  PROVE  Spec /\ []RoomOnTheShelf => []IInv
<1>1. Init => IInv
  BY StartsInInvariant
<1>2. IInv /\ RoomOnTheShelf /\ [Next]_vars => IInv'
  BY StepKeepsInvariant
<1> QED BY <1>1, <1>2, PTL DEF Spec

\* GET /api/me, the stock, the completions, the swaps and the statistics read
\* the same from either ledger (parity.test.js line 158) after any calls,
\* refused ones too, as long as no shelf is full.
THEOREM TheReaderSeesTheSame ==
  ASSUME Inputs
  PROVE  Spec /\ []RoomOnTheShelf => []SameToTheReader
<1>1. ASSUME IInv PROVE SameToTheReader
  <2>1. ASSUME NEW l \in Learners PROVE ChainMe(l) = MirrorMe(l)
    <3>1. /\ memAccounts[l].lifetimeAwarded = chainAccounts[l].lifetimeAwarded
          /\ memAccounts[l].expiresAt = chainAccounts[l].expiresAt
          /\ \/ memAccounts[l].balance = chainAccounts[l].balance
             \/ memAccounts[l].balance = 0 /\ Chain!IsExpired(l)
      BY <1>1 DEF IInv, Agree, SameAccounts
    <3>2. Chain!IsExpired(l) <=> Memory!IsExpired(l)
      BY <3>1 DEF Chain!IsExpired, Memory!IsExpired
    <3>3. Chain!BalanceOf(l) = Memory!BalanceOf(l)
      BY <3>1, <3>2 DEF Chain!BalanceOf, Memory!BalanceOf
    <3> QED BY <3>1, <3>3 DEF ChainMe, MirrorMe, Me
  <2> QED BY <1>1, <2>1 DEF SameToTheReader, IInv, Agree, SameRest
<1> QED BY <1>1, Invariance, PTL

\* Where the balances differ, the mirror is the one that has swept already and
\* the credits are expired on the chain too (_sweepIfExpired before a throw).
THEOREM TheMirrorSweepsFirst ==
  ASSUME Inputs
  PROVE  Spec /\ []RoomOnTheShelf => []MirrorSweepsFirst
<1>1. IInv => MirrorSweepsFirst
  BY DEF IInv, Agree, SameAccounts, MirrorSweepsFirst
<1> QED BY <1>1, Invariance, PTL

\* Driven with the contract, the mirror still behaves as a contract of its own
\* would: "every rule LanguageCredits.sol does" (ledger.js line 3).
THEOREM TheMirrorImplementsTheContract ==
  ASSUME Inputs
  PROVE  Spec /\ []RoomOnTheShelf => MirrorImplementsContract
<1>1. Init => Memory!Contract!Init
  BY SameSpecification, SameContract, Mirror!InitIsInit DEF Init
<1>2. IInv /\ RoomOnTheShelf /\ [Next]_vars => [Memory!Contract!Next]_(Memory!Contract!vars)
  BY MirrorSteps, SameContract, Mirror!StepIsAStep DEF Inputs, IInv, RoomOnTheShelf
<1> QED BY <1>1, <1>2, Invariance, PTL
    DEF Spec, MirrorImplementsContract, Memory!ImplementsContract, Memory!Contract!Spec

\* A swap opens in the mirror only with a unit left (LanguageCredits.sol lines
\* 170-171), also after calls the contract refused.
THEOREM TheMirrorListsNothingBeyondStock ==
  ASSUME Inputs
  PROVE  Spec /\ []RoomOnTheShelf => NothingListedBeyondStock
<1>1. Init => Mirror!Init
  BY SameSpecification DEF Init
<1>2. IInv /\ [Next]_vars => [Mirror!Next]_(Mirror!vars)
  BY MirrorSteps
<1>3. Mirror!Spec => Mirror!NothingListedBeyondStock
  BY Mirror!NothingIsListedBeyondStock DEF Inputs
<1>4. Mirror!NothingListedBeyondStock => NothingListedBeyondStock
  BY PTL DEF NothingListedBeyondStock, Memory!NothingListedBeyondStock,
             Mirror!NothingListedBeyondStock, Memory!vars, Mirror!vars
<1> QED BY <1>1, <1>2, <1>3, <1>4, Invariance, PTL DEF Spec, Mirror!Spec
=============================================================================
