------------------------ MODULE LanguageCreditsProofs ------------------------
(***************************************************************************)
(* Proofs about the contract, for every set of learners, missions, items   *)
(* and accounts and every value of the limits.                             *)
(*                                                                         *)
(* Type correctness is not inductive by itself: that a total stays a       *)
(* natural number after a subtraction needs to know that it is the sum of  *)
(* what it counts.  So the invariant is Inv below, and each action is      *)
(* reduced to one of four changes whose effect on the sums is a lemma: an  *)
(* account is rewritten, a swap is opened, settled or cancelled.           *)
(***************************************************************************)
EXTENDS LanguageCredits, FiniteSetTheorems, SequenceTheorems, TLAPS

-----------------------------------------------------------------------------
(***************************************************************************)
(* The arithmetic of SumOver, the sums of CreditSums.                      *)
(***************************************************************************)
\* The units of one holder are finite and as many as its amount.
LEMMA UnitsOfOne ==
  ASSUME NEW x, NEW n \in Nat
  PROVE  IsFiniteSet({x} \X (1..n)) /\ Cardinality({x} \X (1..n)) = n
  <1>1. IsFiniteSet(1..n) /\ Cardinality(1..n) = n
    BY FS_Interval
  <1>2. IsFiniteSet({x}) /\ Cardinality({x}) = 1
    BY FS_Singleton
  <1>3. /\ IsFiniteSet({x} \X (1..n))
        /\ Cardinality({x} \X (1..n)) = Cardinality({x}) * Cardinality(1..n)
    BY <1>1, <1>2, FS_Product
  <1> QED BY <1>1, <1>2, <1>3

\* The units of finitely many holders are finite, so a sum is a number.
LEMMA SumIsNat ==
  ASSUME NEW S, IsFiniteSet(S), NEW f, \A x \in S : f[x] \in Nat
  PROVE  IsFiniteSet(Units(f, S)) /\ SumOver(f, S) \in Nat
  <1> DEFINE Piece == {{x} \X (1..f[x]) : x \in S}
             Index == [x \in S |-> {x} \X (1..f[x])]
  <1>1. \A p \in Piece : IsFiniteSet(p)
    <2>1. ASSUME NEW x \in S
          PROVE  IsFiniteSet({x} \X (1..f[x]))
      BY UnitsOfOne
    <2> QED BY <2>1
  <1>2. IsFiniteSet(Piece)
    <2>1. Index \in Surjection(S, Piece)
      BY DEF Surjection
    <2> QED BY <2>1, FS_Surjection, Zenon DEF ExistsSurjection
  <1>3. IsFiniteSet(Units(f, S))
    BY <1>1, <1>2, FS_UNION DEF Units
  <1> QED BY <1>3, FS_CardinalityType DEF SumOver

\* A sum depends only on the amounts of the holders summed over.
LEMMA SumOfEqual ==
  ASSUME NEW S, NEW f, NEW g, \A x \in S : f[x] = g[x]
  PROVE  SumOver(f, S) = SumOver(g, S)
  <1>1. Units(f, S) = Units(g, S)
    BY DEF Units
  <1> QED BY <1>1 DEF SumOver

\* Nothing sums to nothing.
LEMMA SumOfNone ==
  ASSUME NEW f
  PROVE  SumOver(f, {}) = 0
  <1>1. Units(f, {}) = {}
    BY DEF Units
  <1> QED BY <1>1, FS_EmptySet DEF SumOver

\* One more holder adds its amount.
LEMMA SumWithOneMore ==
  ASSUME NEW S, IsFiniteSet(S), NEW x, x \notin S, NEW f,
         \A y \in S \cup {x} : f[y] \in Nat
  PROVE  SumOver(f, S \cup {x}) = SumOver(f, S) + f[x]
  <1> DEFINE Mine == {x} \X (1..f[x])
  <1>1. IsFiniteSet(Mine) /\ Cardinality(Mine) = f[x]
    BY UnitsOfOne
  <1>2. IsFiniteSet(Units(f, S)) /\ SumOver(f, S) \in Nat
    BY SumIsNat
  <1>3. Units(f, S \cup {x}) = Units(f, S) \cup Mine
    BY DEF Units
  <1>4. Units(f, S) \cap Mine = {}
    BY DEF Units
  <1>5. Cardinality(Units(f, S) \cup Mine)
          = Cardinality(Units(f, S)) + Cardinality(Mine) - Cardinality({})
    BY <1>1, <1>2, <1>4, FS_Union
  <1>6. Cardinality({}) = 0
    BY FS_EmptySet
  <1>7. SumOver(f, S \cup {x}) = Cardinality(Units(f, S) \cup Mine)
    BY <1>3 DEF SumOver
  <1>8. SumOver(f, S) = Cardinality(Units(f, S))
    BY DEF SumOver
  <1>9. f[x] \in Nat
    OBVIOUS
  <1> HIDE DEF Mine
  <1> QED BY <1>1, <1>2, <1>5, <1>6, <1>7, <1>8, <1>9

\* One holder fewer takes its amount away, so no amount exceeds the sum.
LEMMA SumWithOneLess ==
  ASSUME NEW S, IsFiniteSet(S), NEW x \in S, NEW f, \A y \in S : f[y] \in Nat
  PROVE  /\ SumOver(f, S) = SumOver(f, S \ {x}) + f[x]
         /\ SumOver(f, S \ {x}) \in Nat
         /\ f[x] <= SumOver(f, S)
  <1> DEFINE Rest == S \ {x}
  <1>1. IsFiniteSet(Rest)
    BY FS_RemoveElement
  <1>2. S = Rest \cup {x} /\ x \notin Rest
    OBVIOUS
  <1>3. \A y \in Rest \cup {x} : f[y] \in Nat
    BY <1>2
  <1> HIDE DEF Rest
  <1>4. SumOver(f, Rest \cup {x}) = SumOver(f, Rest) + f[x]
    BY <1>1, <1>2, <1>3, SumWithOneMore
  <1>5. SumOver(f, Rest) \in Nat
    BY <1>1, <1>3, SumIsNat
  <1>6. SumOver(f, S) = SumOver(f, Rest) + f[x]
    BY <1>2, <1>4
  <1>7. f[x] \in Nat
    OBVIOUS
  <1>8. f[x] <= SumOver(f, S)
    BY <1>5, <1>6, <1>7
  <1> QED BY <1>5, <1>6, <1>8 DEF Rest

\* Changing one holder's amount changes the sum by the difference.
LEMMA SumOfUpdate ==
  ASSUME NEW S, IsFiniteSet(S), NEW x \in S, NEW f, NEW g,
         \A y \in S : f[y] \in Nat /\ g[y] \in Nat,
         \A y \in S \ {x} : g[y] = f[y]
  PROVE  SumOver(g, S) = SumOver(f, S) - f[x] + g[x]
  <1>1. SumOver(g, S \ {x}) = SumOver(f, S \ {x})
    BY SumOfEqual
  <1>2. /\ SumOver(f, S) = SumOver(f, S \ {x}) + f[x]
        /\ SumOver(f, S \ {x}) \in Nat
    BY SumWithOneLess
  <1>3. SumOver(g, S) = SumOver(g, S \ {x}) + g[x]
    BY SumWithOneLess
  <1> QED BY <1>1, <1>2, <1>3
-----------------------------------------------------------------------------

Inv == TypeOK /\ Solvency /\ Conservation /\ ExtractionBounded
-----------------------------------------------------------------------------
(***************************************************************************)
(* The four changes.                                                       *)
(***************************************************************************)
\* A rewritten account changes the sum of balances, and of lifetime awards,
\* by what it changed in that account.
LEMMA AccountRewritten ==
  ASSUME accounts \in [Learners -> Account], NEW l \in Learners, NEW a \in Account,
         accounts' = [accounts EXCEPT ![l] = a]
  PROVE  /\ accounts' \in [Learners -> Account]
         /\ SumOver(Balances, Learners)'
              = SumOver(Balances, Learners) - accounts[l].balance + a.balance
         /\ SumOver(Lifetimes, Learners)'
              = SumOver(Lifetimes, Learners) - accounts[l].lifetimeAwarded + a.lifetimeAwarded
         /\ accounts[l].balance <= SumOver(Balances, Learners)
         /\ SumOver(Balances, Learners) \in Nat
         /\ SumOver(Lifetimes, Learners) \in Nat
  <1>1. accounts' \in [Learners -> Account]
    OBVIOUS
  <1>2. \A k \in Learners :
          /\ accounts[k].balance \in Nat /\ accounts[k].lifetimeAwarded \in Nat
          /\ accounts'[k].balance \in Nat /\ accounts'[k].lifetimeAwarded \in Nat
    BY <1>1, LimitsAssumption DEF Account
  <1>3. accounts'[l] = a /\ \A k \in Learners \ {l} : accounts'[k] = accounts[k]
    OBVIOUS
  <1> DEFINE b == [k \in Learners |-> accounts[k].balance]
             bp == [k \in Learners |-> accounts'[k].balance]
             t == [k \in Learners |-> accounts[k].lifetimeAwarded]
             tp == [k \in Learners |-> accounts'[k].lifetimeAwarded]
  <1>4. SumOver(bp, Learners) = SumOver(b, Learners) - b[l] + bp[l]
    <2>1. \A k \in Learners : b[k] \in Nat /\ bp[k] \in Nat
      BY <1>2
    <2>2. \A k \in Learners \ {l} : bp[k] = b[k]
      BY <1>3
    <2> HIDE DEF b, bp
    <2> QED BY <2>1, <2>2, LearnersAssumption, SumOfUpdate
  <1>5. SumOver(tp, Learners) = SumOver(t, Learners) - t[l] + tp[l]
    <2>1. \A k \in Learners : t[k] \in Nat /\ tp[k] \in Nat
      BY <1>2
    <2>2. \A k \in Learners \ {l} : tp[k] = t[k]
      BY <1>3
    <2> HIDE DEF t, tp
    <2> QED BY <2>1, <2>2, LearnersAssumption, SumOfUpdate
  <1>6. b[l] <= SumOver(b, Learners)
    <2>1. \A k \in Learners : b[k] \in Nat
      BY <1>2
    <2> HIDE DEF b
    <2> QED BY <2>1, LearnersAssumption, SumWithOneLess
  <1>7. SumOver(b, Learners) \in Nat /\ SumOver(t, Learners) \in Nat
    <2>1. \A k \in Learners : b[k] \in Nat /\ t[k] \in Nat
      BY <1>2
    <2> HIDE DEF b, t
    <2> QED BY <2>1, LearnersAssumption, SumIsNat
  <1>8. Balances = b /\ Balances' = bp /\ Lifetimes = t /\ Lifetimes' = tp
    BY DEF Balances, Lifetimes
  <1>9. SumOver(Balances, Learners)' = SumOver(bp, Learners)
    BY <1>8 DEF SumOver
  <1>10. SumOver(Lifetimes, Learners)' = SumOver(tp, Learners)
    BY <1>8 DEF SumOver
  <1>11. /\ b[l] = accounts[l].balance /\ bp[l] = a.balance
         /\ t[l] = accounts[l].lifetimeAwarded /\ tp[l] = a.lifetimeAwarded
    BY <1>3
  <1> HIDE DEF b, bp, t, tp
  <1> QED BY <1>1, <1>4, <1>5, <1>6, <1>7, <1>8, <1>9, <1>10, <1>11

\* Any set of swaps is finite, each swap has a cost, and so the costs of the
\* set have a sum.
LEMMA SwapCosts ==
  ASSUME swaps \in Seq(Swap), NEW T \in SUBSET (DOMAIN swaps)
  PROVE  /\ IsFiniteSet(T)
         /\ \A s \in T : CostsOf[s] \in Nat /\ CostsOf[s] = swaps[s].cost
         /\ SumOver(CostsOf, T) \in Nat
  <1>1. /\ DOMAIN swaps = 1..Len(swaps) /\ Len(swaps) \in Nat
        /\ \A s \in DOMAIN swaps : swaps[s] \in Swap
    BY LenProperties, ElementOfSeq
  <1>2. IsFiniteSet(T)
    <2>1. IsFiniteSet(DOMAIN swaps)
      BY <1>1, FS_Interval
    <2> QED BY <2>1, FS_Subset
  <1>3. \A s \in T : CostsOf[s] \in Nat /\ CostsOf[s] = swaps[s].cost
    <2> TAKE s \in T
    <2>1. s \in DOMAIN swaps /\ CostsOf[s] = swaps[s].cost
      BY DEF CostsOf
    <2> QED BY <1>1, <2>1 DEF Swap
  <1> QED BY <1>2, <1>3, SumIsNat

\* An opened swap adds its cost to the requested ones and to its holder's,
\* and leaves every other sum alone.
LEMMA SwapOpened ==
  ASSUME swaps \in Seq(Swap), NEW r \in Swap, r.status = "Requested",
         swaps' = Append(swaps, r)
  PROVE  /\ swaps' \in Seq(Swap)
         /\ SumOver(CostsOf, SwapsIn("Requested"))'
              = SumOver(CostsOf, SwapsIn("Requested")) + r.cost
         /\ SumOver(CostsOf, SwapsIn("Settled"))' = SumOver(CostsOf, SwapsIn("Settled"))
         /\ \A k \in Learners :
              SumOver(CostsOf, KeptSwapsOf(k))'
                = SumOver(CostsOf, KeptSwapsOf(k)) + (IF k = r.learner THEN r.cost ELSE 0)
  <1> DEFINE n == Len(swaps)
             c == CostsOf
             cp == CostsOf'
  <1>1. /\ n \in Nat /\ DOMAIN swaps = 1..n
        /\ swaps' \in Seq(Swap) /\ Len(swaps') = n + 1 /\ DOMAIN swaps' = 1..(n + 1)
        /\ \A s \in 1..n : swaps'[s] = swaps[s] /\ swaps[s] \in Swap
        /\ swaps'[n + 1] = r
    OBVIOUS
  <1>2. /\ \A s \in 1..n : cp[s] = c[s] /\ c[s] \in Nat
        /\ cp[n + 1] = r.cost /\ r.cost \in Nat
    BY <1>1 DEF CostsOf, Swap
  <1>3. ASSUME NEW T \in SUBSET (1..n)
        PROVE  /\ SumOver(cp, T) = SumOver(c, T)
               /\ SumOver(cp, T \cup {n + 1}) = SumOver(c, T) + r.cost
    <2>1. SumOver(cp, T) = SumOver(c, T)
      <3>1. \A s \in T : cp[s] = c[s]
        BY <1>2
      <3> HIDE DEF c, cp, n
      <3> QED BY <3>1, SumOfEqual
    <2>2. IsFiniteSet(T)
      <3>1. T \in SUBSET (DOMAIN swaps)
        BY <1>1
      <3> QED BY <3>1, SwapCosts
    <2>3. n + 1 \notin T
      BY <1>1
    <2>4. \A s \in T \cup {n + 1} : cp[s] \in Nat
      BY <1>2
    <2> HIDE DEF c, cp, n
    <2>5. SumOver(cp, T \cup {n + 1}) = SumOver(cp, T) + cp[n + 1]
      BY <2>2, <2>3, <2>4, SumWithOneMore
    <2> QED BY <1>2, <2>1, <2>5
  <1>4. /\ SwapsIn("Requested")' = SwapsIn("Requested") \cup {n + 1}
        /\ SwapsIn("Settled")' = SwapsIn("Settled")
        /\ SwapsIn("Requested") \subseteq 1..n /\ SwapsIn("Settled") \subseteq 1..n
    BY <1>1 DEF SwapsIn
  <1>5. \A k \in Learners :
          /\ KeptSwapsOf(k)' = IF k = r.learner THEN KeptSwapsOf(k) \cup {n + 1} ELSE KeptSwapsOf(k)
          /\ KeptSwapsOf(k) \subseteq 1..n
    BY <1>1 DEF KeptSwapsOf
  <1>6. /\ SumOver(CostsOf, SwapsIn("Requested"))' = SumOver(cp, SwapsIn("Requested")')
        /\ SumOver(CostsOf, SwapsIn("Settled"))' = SumOver(cp, SwapsIn("Settled")')
        /\ \A k \in Learners : SumOver(CostsOf, KeptSwapsOf(k))' = SumOver(cp, KeptSwapsOf(k)')
    BY DEF SumOver, Units
  <1>7. \A k \in Learners : SumOver(c, KeptSwapsOf(k)) \in Nat
    BY <1>5, SwapCosts
  <1> HIDE DEF c, cp, n
  <1>8. \A k \in Learners :
          SumOver(cp, KeptSwapsOf(k)') = SumOver(c, KeptSwapsOf(k)) + (IF k = r.learner THEN r.cost ELSE 0)
    <2> TAKE k \in Learners
    <2>1. CASE k = r.learner
      BY <2>1, <1>3, <1>5
    <2>2. CASE k # r.learner
      <3>1. SumOver(cp, KeptSwapsOf(k)') = SumOver(c, KeptSwapsOf(k))
        BY <2>2, <1>3, <1>5
      <3> QED BY <2>2, <3>1, <1>7
    <2> QED BY <2>1, <2>2
  <1>9. /\ SumOver(cp, SwapsIn("Requested")') = SumOver(c, SwapsIn("Requested")) + r.cost
        /\ SumOver(cp, SwapsIn("Settled")') = SumOver(c, SwapsIn("Settled"))
    BY <1>3, <1>4
  <1> QED BY <1>1, <1>6, <1>8, <1>9 DEF c

\* A decided swap takes its cost out of the requested ones, which held it;
\* settled, it adds it there; cancelled, it takes it from its holder's.
LEMMA SwapDecided ==
  ASSUME swaps \in Seq(Swap), NEW s \in DOMAIN swaps, swaps[s].status = "Requested",
         NEW st \in {"Settled", "Cancelled"},
         swaps' = [swaps EXCEPT ![s].status = st]
  PROVE  /\ swaps' \in Seq(Swap)
         /\ swaps[s] \in Swap
         /\ swaps[s].cost <= SumOver(CostsOf, SwapsIn("Requested"))
         /\ SumOver(CostsOf, SwapsIn("Requested"))'
              = SumOver(CostsOf, SwapsIn("Requested")) - swaps[s].cost
         /\ SumOver(CostsOf, SwapsIn("Settled"))'
              = SumOver(CostsOf, SwapsIn("Settled")) + (IF st = "Settled" THEN swaps[s].cost ELSE 0)
         /\ \A k \in Learners :
              SumOver(CostsOf, KeptSwapsOf(k))'
                = SumOver(CostsOf, KeptSwapsOf(k))
                    - (IF st = "Cancelled" /\ k = swaps[s].learner THEN swaps[s].cost ELSE 0)
  <1> DEFINE n == Len(swaps)
             c == CostsOf
             cost == swaps[s].cost
  <1>1. /\ n \in Nat /\ DOMAIN swaps = 1..n /\ s \in 1..n
        /\ \A i \in 1..n : swaps[i] \in Swap
    OBVIOUS
  <1>2. /\ DOMAIN swaps' = 1..n
        /\ \A i \in 1..n \ {s} : swaps'[i] = swaps[i]
        /\ swaps'[s] = [swaps[s] EXCEPT !.status = st]
    BY <1>1
  <1>3. swaps'[s] \in Swap /\ swaps'[s].cost = cost /\ swaps'[s].learner = swaps[s].learner
        /\ swaps'[s].status = st
    BY <1>1, <1>2 DEF Swap, SwapStatus
  <1>4. swaps' \in Seq(Swap)
    <2>1. swaps' \in [1..n -> Swap]
      BY <1>1, <1>2, <1>3
    <2> QED BY <1>1, <2>1, IsASeq
  <1>5. CostsOf' = c
    BY <1>1, <1>2, <1>3 DEF CostsOf
  <1>6. /\ SwapsIn("Requested")' = SwapsIn("Requested") \ {s}
        /\ s \in SwapsIn("Requested")
        /\ SwapsIn("Settled")' = IF st = "Settled" THEN SwapsIn("Settled") \cup {s} ELSE SwapsIn("Settled")
        /\ s \notin SwapsIn("Settled")
    BY <1>1, <1>2, <1>3 DEF SwapsIn
  <1>7. \A k \in Learners :
          KeptSwapsOf(k)' = IF st = "Cancelled" /\ k = swaps[s].learner
                              THEN KeptSwapsOf(k) \ {s} ELSE KeptSwapsOf(k)
    BY <1>1, <1>2, <1>3 DEF KeptSwapsOf
  <1>8. s \in KeptSwapsOf(swaps[s].learner) /\ swaps[s].learner \in Learners
    BY <1>1 DEF KeptSwapsOf, Swap
  <1>9. /\ SumOver(CostsOf, SwapsIn("Requested"))' = SumOver(c, SwapsIn("Requested")')
        /\ SumOver(CostsOf, SwapsIn("Settled"))' = SumOver(c, SwapsIn("Settled")')
        /\ \A k \in Learners : SumOver(CostsOf, KeptSwapsOf(k))' = SumOver(c, KeptSwapsOf(k)')
    BY <1>5 DEF SumOver, Units
  <1>10. c[s] = cost /\ cost \in Nat
    BY <1>1 DEF CostsOf, Swap
  <1>11. ASSUME NEW T \in SUBSET (DOMAIN swaps)
         PROVE  /\ IsFiniteSet(T) /\ SumOver(c, T) \in Nat
                /\ s \in T => /\ SumOver(c, T \ {s}) = SumOver(c, T) - cost
                              /\ cost <= SumOver(c, T)
                /\ s \notin T => SumOver(c, T \cup {s}) = SumOver(c, T) + cost
    <2>1. /\ IsFiniteSet(T) /\ SumOver(c, T) \in Nat
          /\ \A i \in T \cup {s} : c[i] \in Nat
      BY <1>10, SwapCosts
    <2> HIDE DEF c, cost
    <2>2. CASE s \in T
      <3>1. /\ SumOver(c, T) = SumOver(c, T \ {s}) + c[s]
            /\ SumOver(c, T \ {s}) \in Nat
            /\ c[s] <= SumOver(c, T)
        BY <2>1, <2>2, SumWithOneLess
      <3> QED BY <2>1, <2>2, <3>1, <1>10
    <2>3. CASE s \notin T
      BY <2>1, <2>3, <1>10, SumWithOneMore
    <2> QED BY <2>1, <2>2, <2>3
  <1>12. /\ SwapsIn("Requested") \in SUBSET (DOMAIN swaps)
         /\ SwapsIn("Settled") \in SUBSET (DOMAIN swaps)
         /\ \A k \in Learners : KeptSwapsOf(k) \in SUBSET (DOMAIN swaps)
    BY DEF SwapsIn, KeptSwapsOf
  <1> HIDE DEF c, n
  <1>13. /\ SumOver(c, SwapsIn("Requested")') = SumOver(c, SwapsIn("Requested")) - cost
         /\ cost <= SumOver(c, SwapsIn("Requested"))
    BY <1>6, <1>11, <1>12
  <1>14. SumOver(c, SwapsIn("Settled")')
           = SumOver(c, SwapsIn("Settled")) + (IF st = "Settled" THEN cost ELSE 0)
    <2>1. CASE st = "Settled"
      BY <2>1, <1>6, <1>11, <1>12
    <2>2. CASE st # "Settled"
      <3>1. SumOver(c, SwapsIn("Settled")) \in Nat
        BY <1>11, <1>12
      <3>2. SwapsIn("Settled")' = SwapsIn("Settled")
        BY <2>2, <1>6
      <3> HIDE DEF cost
      <3> QED BY <2>2, <3>1, <3>2
    <2> QED BY <2>1, <2>2
  <1>15. \A k \in Learners :
           SumOver(c, KeptSwapsOf(k)')
             = SumOver(c, KeptSwapsOf(k)) - (IF st = "Cancelled" /\ k = swaps[s].learner THEN cost ELSE 0)
    <2> TAKE k \in Learners
    <2>1. CASE st = "Cancelled" /\ k = swaps[s].learner
      BY <2>1, <1>7, <1>8, <1>11, <1>12
    <2>2. CASE ~(st = "Cancelled" /\ k = swaps[s].learner)
      <3>1. KeptSwapsOf(k)' = KeptSwapsOf(k)
        BY <2>2, <1>7
      <3>2. SumOver(c, KeptSwapsOf(k)) \in Nat
        BY <1>11, <1>12
      <3> HIDE DEF cost
      <3> QED BY <2>2, <3>1, <3>2
    <2> QED BY <2>1, <2>2
  <1> QED BY <1>1, <1>4, <1>9, <1>13, <1>14, <1>15 DEF c

\* What is not touched keeps its sums.
LEMMA AccountsKept ==
  ASSUME accounts' = accounts
  PROVE  /\ SumOver(Balances, Learners)' = SumOver(Balances, Learners)
         /\ SumOver(Lifetimes, Learners)' = SumOver(Lifetimes, Learners)
  BY DEF Balances, Lifetimes, SumOver, Units

\* With the swaps untouched, so are the costs summed over any set of them.
LEMMA SwapsKept ==
  ASSUME swaps' = swaps
  PROVE  /\ \A st \in SwapStatus : SumOver(CostsOf, SwapsIn(st))' = SumOver(CostsOf, SwapsIn(st))
         /\ \A k \in Learners :
              SumOver(CostsOf, KeptSwapsOf(k))' = SumOver(CostsOf, KeptSwapsOf(k))
  BY DEF CostsOf, SwapsIn, KeptSwapsOf, SumOver, Units

\* A sweep takes the whole balance or nothing.
LEMMA SweepIsPart ==
  ASSUME TypeOK, NEW l \in Learners
  PROVE  /\ accounts[l] \in Account /\ accounts[l].balance \in Nat
         /\ accounts[l].lifetimeAwarded \in 0..LIFETIME_CAP /\ accounts[l].expiresAt \in Nat
         /\ Sweepable(l) \in Nat /\ Sweepable(l) <= accounts[l].balance
  BY DEF TypeOK, Account, Sweepable
-----------------------------------------------------------------------------
(***************************************************************************)
(* One lemma per action that moves credits.                                *)
(***************************************************************************)
\* An award: what expires, and the reward, enter and leave account and totals
\* alike; the cap is checked for what the account will have been awarded.
LEMMA AwardKeepsInv ==
  ASSUME Inv, NEW a \in Actors, NEW l \in Learners, NEW m \in Missions, AwardCredits(a, l, m)
  PROVE  Inv'
  <1> DEFINE reward == missions[m].reward
             sw == Sweepable(l)
             acc == [balance         |-> accounts[l].balance - sw + reward,
                     lifetimeAwarded |-> accounts[l].lifetimeAwarded + reward,
                     expiresAt       |-> now + CREDIT_TTL]
  <1> USE DEF Inv
  <1>1. /\ reward \in Nat /\ missions[m].version \in Versions \cup {0}
        /\ now \in 0..MaxTime /\ totals \in Totals
    BY DEF TypeOK, Mission
  <1>2. /\ accounts[l].balance \in Nat /\ accounts[l].lifetimeAwarded \in Nat
        /\ sw \in Nat /\ sw <= accounts[l].balance
    BY SweepIsPart, LimitsAssumption
  <1>3. /\ accounts' = [accounts EXCEPT ![l] = acc]
        /\ accounts[l].lifetimeAwarded + reward <= LIFETIME_CAP
        /\ totals' = [totals EXCEPT !.awarded     = @ + reward,
                                    !.outstanding = @ - sw + reward,
                                    !.expired     = @ + sw]
        /\ completed' = completed \cup {<<l, m, missions[m].version>>}
        /\ UNCHANGED <<missions, items, swaps, paused, roles, now>>
    BY <1>1 DEF AwardCredits, MayAward, Expire, CompletionKey, WithinCap, Totals
  <1>4. acc \in Account
    BY <1>1, <1>2, <1>3, LimitsAssumption DEF Account
  <1>5. /\ accounts' \in [Learners -> Account]
        /\ SumOver(Balances, Learners)'
             = SumOver(Balances, Learners) - accounts[l].balance + acc.balance
        /\ SumOver(Lifetimes, Learners)'
             = SumOver(Lifetimes, Learners) - accounts[l].lifetimeAwarded + acc.lifetimeAwarded
        /\ accounts[l].balance <= SumOver(Balances, Learners)
        /\ SumOver(Balances, Learners) \in Nat /\ SumOver(Lifetimes, Learners) \in Nat
    <2> HIDE DEF acc
    <2> QED BY <1>3, <1>4, AccountRewritten DEF TypeOK
  <1>6. /\ SumOver(CostsOf, SwapsIn("Requested"))' = SumOver(CostsOf, SwapsIn("Requested"))
        /\ SumOver(CostsOf, SwapsIn("Settled"))' = SumOver(CostsOf, SwapsIn("Settled"))
        /\ \A k \in Learners :
             SumOver(CostsOf, KeptSwapsOf(k))' = SumOver(CostsOf, KeptSwapsOf(k))
    BY <1>3, SwapsKept DEF SwapStatus
  <1>7. /\ totals'.awarded = totals.awarded + reward
        /\ totals'.outstanding = totals.outstanding - sw + reward
        /\ totals'.expired = totals.expired + sw
        /\ totals'.inSwap = totals.inSwap /\ totals'.swapped = totals.swapped
        /\ DOMAIN totals' = DOMAIN totals
    BY <1>1, <1>3 DEF Totals
  <1>8. /\ acc.balance = accounts[l].balance - sw + reward
        /\ acc.lifetimeAwarded = accounts[l].lifetimeAwarded + reward
    OBVIOUS
  <1> HIDE DEF acc, sw, reward
  <1>9. totals' \in Totals
    <2>1. totals.outstanding - sw + reward \in Nat
      BY <1>1, <1>2, <1>5 DEF Solvency, Totals
    <2>2. totals.awarded + reward \in Nat /\ totals.expired + sw \in Nat
      BY <1>1, <1>2 DEF Totals
    <2>3. totals' = [awarded     |-> totals.awarded + reward,
                     outstanding |-> totals.outstanding - sw + reward,
                     inSwap      |-> totals.inSwap,
                     swapped     |-> totals.swapped,
                     expired     |-> totals.expired + sw]
      BY <1>1, <1>3 DEF Totals
    <2> QED BY <1>1, <2>1, <2>2, <2>3 DEF Totals
  <1>10. TypeOK'
    <2>1. completed' \subseteq Learners \X Missions \X (Versions \cup {0})
      BY <1>1, <1>3 DEF TypeOK
    <2> QED BY <1>3, <1>5, <1>9, <2>1 DEF TypeOK
  <1>11. Solvency'
    BY <1>1, <1>2, <1>5, <1>6, <1>7, <1>8 DEF Solvency, Totals
  <1>12. Conservation'
    BY <1>1, <1>2, <1>7 DEF Conservation, Totals
  <1>13. ExtractionBounded'
    <2> SUFFICES ASSUME NEW k \in Learners
                 PROVE  /\ accounts'[k].balance + SumOver(CostsOf, KeptSwapsOf(k))'
                             <= accounts'[k].lifetimeAwarded
                        /\ accounts'[k].lifetimeAwarded <= LIFETIME_CAP
      BY DEF ExtractionBounded
    <2>1. SumOver(CostsOf, KeptSwapsOf(k)) \in Nat
      BY SwapCosts DEF KeptSwapsOf, TypeOK
    <2>2. CASE k = l
      <3>1. accounts'[k] = acc
        BY <1>3, <2>2 DEF TypeOK
      <3>2. /\ accounts[l].balance + SumOver(CostsOf, KeptSwapsOf(l)) <= accounts[l].lifetimeAwarded
            /\ SumOver(CostsOf, KeptSwapsOf(l))' = SumOver(CostsOf, KeptSwapsOf(l))
        BY <1>6 DEF ExtractionBounded
      <3>3. SumOver(CostsOf, KeptSwapsOf(l)) \in Nat
        BY <2>1, <2>2
      <3> HIDE DEF Inv
      <3> QED BY <1>1, <1>2, <1>3, <1>8, <2>2, <3>1, <3>2, <3>3
    <2>3. CASE k # l
      <3>1. accounts'[k] = accounts[k]
        BY <1>3, <2>3 DEF TypeOK
      <3> QED BY <1>6, <3>1 DEF ExtractionBounded
    <2> QED BY <2>2, <2>3
  <1> QED BY <1>10, <1>11, <1>12, <1>13

\* A sweep moves a whole balance from outstanding to expired.
LEMMA SweepKeepsInv ==
  ASSUME Inv, NEW l \in Learners, SweepExpired(l)
  PROVE  Inv'
  <1> DEFINE sw == Sweepable(l)
             acc == [accounts[l] EXCEPT !.balance = 0]
  <1> USE DEF Inv
  <1>1. totals \in Totals
    BY DEF TypeOK
  <1>2. /\ accounts[l] \in Account /\ accounts[l].balance \in Nat
        /\ accounts[l].lifetimeAwarded \in Nat /\ sw = accounts[l].balance
    BY SweepIsPart, LimitsAssumption DEF SweepExpired, MaySweep, Sweepable
  <1>3. /\ accounts' = [accounts EXCEPT ![l] = acc]
        /\ totals' = [totals EXCEPT !.outstanding = @ - sw, !.expired = @ + sw]
        /\ UNCHANGED <<missions, items, completed, swaps, paused, roles, now>>
    BY DEF SweepExpired, Expire
  <1>4. acc \in Account /\ acc.balance = 0 /\ acc.lifetimeAwarded = accounts[l].lifetimeAwarded
    BY <1>2 DEF Account
  <1>5. /\ accounts' \in [Learners -> Account]
        /\ SumOver(Balances, Learners)'
             = SumOver(Balances, Learners) - accounts[l].balance + acc.balance
        /\ SumOver(Lifetimes, Learners)'
             = SumOver(Lifetimes, Learners) - accounts[l].lifetimeAwarded + acc.lifetimeAwarded
        /\ accounts[l].balance <= SumOver(Balances, Learners)
        /\ SumOver(Balances, Learners) \in Nat /\ SumOver(Lifetimes, Learners) \in Nat
    <2> HIDE DEF acc
    <2> QED BY <1>3, <1>4, AccountRewritten DEF TypeOK
  <1>6. /\ SumOver(CostsOf, SwapsIn("Requested"))' = SumOver(CostsOf, SwapsIn("Requested"))
        /\ SumOver(CostsOf, SwapsIn("Settled"))' = SumOver(CostsOf, SwapsIn("Settled"))
        /\ \A k \in Learners :
             SumOver(CostsOf, KeptSwapsOf(k))' = SumOver(CostsOf, KeptSwapsOf(k))
    BY <1>3, SwapsKept DEF SwapStatus
  <1> HIDE DEF acc, sw
  <1>7. totals' = [awarded     |-> totals.awarded,
                   outstanding |-> totals.outstanding - sw,
                   inSwap      |-> totals.inSwap,
                   swapped     |-> totals.swapped,
                   expired     |-> totals.expired + sw]
    BY <1>1, <1>3 DEF Totals
  <1>8. totals.outstanding - sw \in Nat /\ totals.expired + sw \in Nat
    BY <1>1, <1>2, <1>5 DEF Solvency, Totals
  <1>9. totals' \in Totals
    BY <1>1, <1>7, <1>8 DEF Totals
  <1>10. TypeOK'
    BY <1>3, <1>5, <1>9 DEF TypeOK
  <1>11. Solvency'
    BY <1>1, <1>2, <1>4, <1>5, <1>6, <1>7 DEF Solvency, Totals
  <1>12. Conservation'
    BY <1>1, <1>2, <1>7 DEF Conservation, Totals
  <1>13. ExtractionBounded'
    <2> SUFFICES ASSUME NEW k \in Learners
                 PROVE  /\ accounts'[k].balance + SumOver(CostsOf, KeptSwapsOf(k))'
                             <= accounts'[k].lifetimeAwarded
                        /\ accounts'[k].lifetimeAwarded <= LIFETIME_CAP
      BY DEF ExtractionBounded
    <2>1. SumOver(CostsOf, KeptSwapsOf(k)) \in Nat
      BY SwapCosts DEF KeptSwapsOf, TypeOK
    <2>2. accounts'[k] = IF k = l THEN acc ELSE accounts[k]
      BY <1>3 DEF TypeOK
    <2>3. /\ accounts[k].balance + SumOver(CostsOf, KeptSwapsOf(k)) <= accounts[k].lifetimeAwarded
          /\ accounts[k].lifetimeAwarded <= LIFETIME_CAP
      BY DEF ExtractionBounded
    <2>4. accounts'[k].balance <= accounts[k].balance /\ accounts'[k].balance \in Nat
      BY <1>2, <1>4, <2>2, SweepIsPart
    <2>5. accounts'[k].lifetimeAwarded = accounts[k].lifetimeAwarded
      BY <1>4, <2>2
    <2>6. /\ SumOver(CostsOf, KeptSwapsOf(k))' = SumOver(CostsOf, KeptSwapsOf(k))
          /\ accounts[k].balance \in Nat /\ accounts[k].lifetimeAwarded \in Nat
      BY <1>6, SweepIsPart, LimitsAssumption
    <2> HIDE DEF Inv
    <2> QED BY <2>1, <2>3, <2>4, <2>5, <2>6
  <1> QED BY <1>10, <1>11, <1>12, <1>13

\* A request moves the cost from the balance into the new swap, after the
\* sweep; nothing underflows because the balance is part of outstanding.
LEMMA RequestKeepsInv ==
  ASSUME Inv, NEW a \in Actors, NEW l \in Learners, NEW i \in Items, RequestSwap(a, l, i)
  PROVE  Inv'
  <1> DEFINE cost == items[i].cost
             sw == Sweepable(l)
             acc == [accounts[l] EXCEPT !.balance = @ - sw - cost]
             new == [learner |-> l, item |-> i, cost |-> cost, status |-> "Requested"]
  <1> USE DEF Inv
  <1>1. totals \in Totals /\ items[i] \in CatalogItem /\ cost \in Nat
    BY DEF TypeOK, CatalogItem
  <1>2. /\ accounts[l] \in Account /\ accounts[l].balance \in Nat
        /\ accounts[l].lifetimeAwarded \in Nat
        /\ sw \in Nat /\ sw <= accounts[l].balance
    BY SweepIsPart, LimitsAssumption
  <1>3. /\ items[i].inventory # 0 /\ accounts[l].balance - sw >= cost
        /\ accounts' = [accounts EXCEPT ![l] = acc]
        /\ items' = [items EXCEPT ![i].inventory = @ - 1]
        /\ totals' = [totals EXCEPT !.outstanding = @ - sw - cost,
                                    !.expired     = @ + sw,
                                    !.inSwap      = @ + cost]
        /\ swaps' = Append(swaps, new)
        /\ UNCHANGED <<missions, completed, paused, roles, now>>
    BY <1>1 DEF RequestSwap, MayRequest, InStock, Shelve, Expire, Totals
  <1>4. /\ acc \in Account /\ acc.balance = accounts[l].balance - sw - cost
        /\ acc.lifetimeAwarded = accounts[l].lifetimeAwarded
    <2>1. accounts[l].balance - sw - cost \in Nat
      BY <1>1, <1>2, <1>3
    <2> HIDE DEF sw, cost
    <2> QED BY <1>2, <2>1 DEF Account
  <1>5. /\ accounts' \in [Learners -> Account]
        /\ SumOver(Balances, Learners)'
             = SumOver(Balances, Learners) - accounts[l].balance + acc.balance
        /\ SumOver(Lifetimes, Learners)'
             = SumOver(Lifetimes, Learners) - accounts[l].lifetimeAwarded + acc.lifetimeAwarded
        /\ accounts[l].balance <= SumOver(Balances, Learners)
        /\ SumOver(Balances, Learners) \in Nat /\ SumOver(Lifetimes, Learners) \in Nat
    <2> HIDE DEF acc
    <2> QED BY <1>3, <1>4, AccountRewritten DEF TypeOK
  <1>6. /\ swaps' \in Seq(Swap)
        /\ SumOver(CostsOf, SwapsIn("Requested"))'
             = SumOver(CostsOf, SwapsIn("Requested")) + cost
        /\ SumOver(CostsOf, SwapsIn("Settled"))' = SumOver(CostsOf, SwapsIn("Settled"))
        /\ \A k \in Learners :
             SumOver(CostsOf, KeptSwapsOf(k))'
               = SumOver(CostsOf, KeptSwapsOf(k)) + (IF k = l THEN cost ELSE 0)
    <2>1. new \in Swap /\ new.status = "Requested" /\ new.cost = cost /\ new.learner = l
      BY <1>1 DEF Swap, SwapStatus
    <2> HIDE DEF new
    <2> QED BY <1>3, <2>1, SwapOpened DEF TypeOK
  <1> HIDE DEF acc, sw, cost, new
  <1>7. totals' = [awarded     |-> totals.awarded,
                   outstanding |-> totals.outstanding - sw - cost,
                   inSwap      |-> totals.inSwap + cost,
                   swapped     |-> totals.swapped,
                   expired     |-> totals.expired + sw]
    BY <1>1, <1>3 DEF Totals
  <1>8. /\ totals.outstanding - sw - cost \in Nat /\ totals.expired + sw \in Nat
        /\ totals.inSwap + cost \in Nat
    <2>1. totals.expired + sw \in Nat /\ totals.inSwap + cost \in Nat
      BY <1>1, <1>2 DEF Totals
    <2>2. totals.outstanding = SumOver(Balances, Learners)
      BY DEF Solvency
    <2> QED BY <1>1, <1>2, <1>3, <1>5, <2>1, <2>2
  <1>9. totals' \in Totals
    BY <1>1, <1>7, <1>8 DEF Totals
  <1>10. TypeOK'
    <2>1. items' \in [Items -> CatalogItem]
      <3>1. items[i].inventory - 1 \in 0..MaxStock
        BY <1>1, <1>3, InputsAssumption DEF CatalogItem
      <3>2. [items[i] EXCEPT !.inventory = @ - 1] \in CatalogItem
        BY <1>1, <3>1 DEF CatalogItem
      <3> QED BY <1>3, <3>2 DEF TypeOK
    <2> QED BY <1>3, <1>5, <1>6, <1>9, <2>1 DEF TypeOK
  <1>11. Solvency'
    <2>1. /\ totals.outstanding = SumOver(Balances, Learners)
          /\ totals.awarded = SumOver(Lifetimes, Learners)
          /\ totals.inSwap = SumOver(CostsOf, SwapsIn("Requested"))
          /\ totals.swapped = SumOver(CostsOf, SwapsIn("Settled"))
      BY DEF Solvency
    <2>2. totals'.outstanding = SumOver(Balances, Learners)'
      BY <1>1, <1>2, <1>4, <1>5, <1>7, <2>1
    <2>3. totals'.awarded = SumOver(Lifetimes, Learners)'
      BY <1>2, <1>4, <1>5, <1>7, <2>1
    <2>4. /\ totals'.inSwap = SumOver(CostsOf, SwapsIn("Requested"))'
          /\ totals'.swapped = SumOver(CostsOf, SwapsIn("Settled"))'
      BY <1>6, <1>7, <2>1
    <2> QED BY <2>2, <2>3, <2>4 DEF Solvency
  <1>12. Conservation'
    BY <1>1, <1>2, <1>7 DEF Conservation, Totals
  <1>13. ExtractionBounded'
    <2> SUFFICES ASSUME NEW k \in Learners
                 PROVE  /\ accounts'[k].balance + SumOver(CostsOf, KeptSwapsOf(k))'
                             <= accounts'[k].lifetimeAwarded
                        /\ accounts'[k].lifetimeAwarded <= LIFETIME_CAP
      BY DEF ExtractionBounded
    <2>1. /\ SumOver(CostsOf, KeptSwapsOf(k)) \in Nat
          /\ accounts[k].balance \in Nat /\ accounts[k].lifetimeAwarded \in Nat
      BY SwapCosts, SweepIsPart, LimitsAssumption DEF KeptSwapsOf, TypeOK
    <2>2. accounts'[k] = IF k = l THEN acc ELSE accounts[k]
      BY <1>3 DEF TypeOK
    <2>3. /\ accounts[k].balance + SumOver(CostsOf, KeptSwapsOf(k)) <= accounts[k].lifetimeAwarded
          /\ accounts[k].lifetimeAwarded <= LIFETIME_CAP
      BY DEF ExtractionBounded
    <2>4. CASE k = l
      <3>1. SumOver(CostsOf, KeptSwapsOf(k))' = SumOver(CostsOf, KeptSwapsOf(k)) + cost
        BY <1>6, <2>4
      <3>2. /\ accounts'[k].balance = accounts[k].balance - sw - cost
            /\ accounts'[k].lifetimeAwarded = accounts[k].lifetimeAwarded
        BY <1>4, <2>2, <2>4
      <3>3. cost \in Nat /\ sw \in Nat
        BY <1>1, <1>2
      <3> HIDE DEF Inv
      <3> QED BY <2>1, <2>3, <3>1, <3>2, <3>3
    <2>5. CASE k # l
      <3>1. SumOver(CostsOf, KeptSwapsOf(k))' = SumOver(CostsOf, KeptSwapsOf(k)) + 0
        BY <1>6, <2>5
      <3>2. accounts'[k] = accounts[k]
        BY <2>2, <2>5
      <3> HIDE DEF Inv
      <3> QED BY <2>1, <2>3, <3>1, <3>2
    <2> QED BY <2>4, <2>5
  <1> QED BY <1>10, <1>11, <1>12, <1>13

\* A settlement moves the cost of an open swap from inSwap to swapped.
LEMMA SettleKeepsInv ==
  ASSUME Inv, NEW a \in Actors, NEW s \in DOMAIN swaps, SettleSwap(a, s)
  PROVE  Inv'
  <1> DEFINE cost == swaps[s].cost
  <1> USE DEF Inv
  <1>1. totals \in Totals /\ swaps \in Seq(Swap)
    BY DEF TypeOK
  <1>2. /\ swaps[s].status = "Requested"
        /\ swaps' = [swaps EXCEPT ![s].status = "Settled"]
        /\ totals' = [totals EXCEPT !.inSwap = @ - cost, !.swapped = @ + cost]
        /\ UNCHANGED <<missions, items, accounts, completed, paused, roles, now>>
    BY DEF SettleSwap, MaySettle, IsOpen
  <1>3. /\ swaps' \in Seq(Swap) /\ cost \in Nat
        /\ cost <= SumOver(CostsOf, SwapsIn("Requested"))
        /\ SumOver(CostsOf, SwapsIn("Requested"))' = SumOver(CostsOf, SwapsIn("Requested")) - cost
        /\ SumOver(CostsOf, SwapsIn("Settled"))' = SumOver(CostsOf, SwapsIn("Settled")) + cost
    BY <1>1, <1>2, SwapDecided DEF Swap
  <1>4. \A k \in Learners :
          SumOver(CostsOf, KeptSwapsOf(k))' = SumOver(CostsOf, KeptSwapsOf(k))
    <2> TAKE k \in Learners
    <2>1. SumOver(CostsOf, KeptSwapsOf(k))' = SumOver(CostsOf, KeptSwapsOf(k)) - 0
      BY <1>1, <1>2, SwapDecided
    <2>2. SumOver(CostsOf, KeptSwapsOf(k)) \in Nat
      BY <1>1, SwapCosts DEF KeptSwapsOf
    <2> QED BY <2>1, <2>2
  <1>5. /\ SumOver(Balances, Learners)' = SumOver(Balances, Learners)
        /\ SumOver(Lifetimes, Learners)' = SumOver(Lifetimes, Learners)
    BY <1>2, AccountsKept
  <1> HIDE DEF cost
  <1>6. totals' = [awarded     |-> totals.awarded,
                   outstanding |-> totals.outstanding,
                   inSwap      |-> totals.inSwap - cost,
                   swapped     |-> totals.swapped + cost,
                   expired     |-> totals.expired]
    BY <1>1, <1>2 DEF Totals
  <1>7. totals.inSwap - cost \in Nat /\ totals.swapped + cost \in Nat
    BY <1>1, <1>3 DEF Solvency, Totals
  <1>8. TypeOK'
    <2>1. totals' \in Totals
      BY <1>1, <1>6, <1>7 DEF Totals
    <2> QED BY <1>2, <1>3, <2>1 DEF TypeOK
  <1>9. Solvency'
    BY <1>3, <1>5, <1>6 DEF Solvency
  <1>10. Conservation'
    BY <1>1, <1>3, <1>6 DEF Conservation, Totals
  <1>11. ExtractionBounded'
    BY <1>2, <1>4 DEF ExtractionBounded
  <1> QED BY <1>8, <1>9, <1>10, <1>11

\* A refund moves the cost of an open swap back to its holder, whose balance
\* stays under the lifetime awards since the swap no longer counts as kept.
LEMMA CancelKeepsInv ==
  ASSUME Inv, NEW a \in Actors, NEW s \in DOMAIN swaps, CancelSwap(a, s)
  PROVE  Inv'
  <1> DEFINE cost == swaps[s].cost
             l == swaps[s].learner
             i == swaps[s].item
             sw == Sweepable(l)
             deadline == IF IsExpired(l) THEN now + REFUND_GRACE_PERIOD ELSE accounts[l].expiresAt
             acc == [balance         |-> accounts[l].balance - sw + cost,
                     lifetimeAwarded |-> accounts[l].lifetimeAwarded,
                     expiresAt       |-> deadline]
  <1> USE DEF Inv
  <1>1. totals \in Totals /\ swaps \in Seq(Swap) /\ now \in Nat
    BY DEF TypeOK
  <1>2. swaps[s] \in Swap /\ l \in Learners /\ i \in Items /\ cost \in Nat
    <2>1. swaps[s] \in Swap
      BY <1>1, LenProperties, ElementOfSeq
    <2> QED BY <2>1 DEF Swap
  <1>3. /\ accounts[l] \in Account /\ accounts[l].balance \in Nat
        /\ accounts[l].lifetimeAwarded \in Nat
        /\ sw \in Nat /\ sw <= accounts[l].balance
    BY <1>2, SweepIsPart, LimitsAssumption
  <1>4. /\ swaps[s].status = "Requested" /\ items[i].inventory < MaxStock
        /\ swaps' = [swaps EXCEPT ![s].status = "Cancelled"]
        /\ accounts' = [accounts EXCEPT ![l] = acc]
        /\ items' = [items EXCEPT ![i].inventory = @ + 1]
        /\ totals' = [totals EXCEPT !.inSwap      = @ - cost,
                                    !.outstanding = @ - sw + cost,
                                    !.expired     = @ + sw]
        /\ UNCHANGED <<missions, completed, paused, roles, now>>
    BY <1>1, <1>2 DEF CancelSwap, MayRefund, MayCancel, IsOpen, Shelve, Expire, RefundDeadline, TypeOK, Totals
  <1>5. /\ acc \in Account /\ acc.balance = accounts[l].balance - sw + cost
        /\ acc.lifetimeAwarded = accounts[l].lifetimeAwarded
    <2>1. accounts[l].balance - sw + cost \in Nat
      BY <1>2, <1>3
    <2>2. deadline \in Nat
      BY <1>1, <1>3, LimitsAssumption DEF Account
    <2> HIDE DEF sw, cost, deadline
    <2> QED BY <1>3, <2>1, <2>2 DEF Account
  <1>6. /\ accounts' \in [Learners -> Account]
        /\ SumOver(Balances, Learners)'
             = SumOver(Balances, Learners) - accounts[l].balance + acc.balance
        /\ SumOver(Lifetimes, Learners)'
             = SumOver(Lifetimes, Learners) - accounts[l].lifetimeAwarded + acc.lifetimeAwarded
        /\ accounts[l].balance <= SumOver(Balances, Learners)
        /\ SumOver(Balances, Learners) \in Nat /\ SumOver(Lifetimes, Learners) \in Nat
    <2> HIDE DEF acc
    <2> QED BY <1>2, <1>4, <1>5, AccountRewritten DEF TypeOK
  <1>7. /\ swaps' \in Seq(Swap)
        /\ cost <= SumOver(CostsOf, SwapsIn("Requested"))
        /\ SumOver(CostsOf, SwapsIn("Requested"))' = SumOver(CostsOf, SwapsIn("Requested")) - cost
        /\ SumOver(CostsOf, SwapsIn("Settled"))' = SumOver(CostsOf, SwapsIn("Settled")) + 0
        /\ \A k \in Learners :
             SumOver(CostsOf, KeptSwapsOf(k))'
               = SumOver(CostsOf, KeptSwapsOf(k)) - (IF k = l THEN cost ELSE 0)
    BY <1>1, <1>4, SwapDecided
  <1>8. /\ SumOver(CostsOf, SwapsIn("Settled")) = totals.swapped
        /\ SumOver(CostsOf, SwapsIn("Requested")) = totals.inSwap
        /\ SumOver(Balances, Learners) = totals.outstanding
        /\ SumOver(Lifetimes, Learners) = totals.awarded
    BY DEF Solvency
  <1> HIDE DEF acc, sw, cost, l, i, deadline
  <1>9. totals' = [awarded     |-> totals.awarded,
                   outstanding |-> totals.outstanding - sw + cost,
                   inSwap      |-> totals.inSwap - cost,
                   swapped     |-> totals.swapped,
                   expired     |-> totals.expired + sw]
    BY <1>1, <1>4 DEF Totals
  <1>10. /\ totals.awarded \in Nat /\ totals.outstanding \in Nat /\ totals.inSwap \in Nat
         /\ totals.swapped \in Nat /\ totals.expired \in Nat
    BY <1>1 DEF Totals
  <1>11. TypeOK'
    <2>1. totals' \in Totals
      <3>1. totals.outstanding - sw + cost \in Nat
        BY <1>2, <1>3, <1>6, <1>8, <1>10
      <3>2. totals.inSwap - cost \in Nat
        BY <1>2, <1>7, <1>8, <1>10
      <3>3. totals.expired + sw \in Nat
        BY <1>3, <1>10
      <3> QED BY <1>9, <1>10, <3>1, <3>2, <3>3 DEF Totals
    <2>2. items' \in [Items -> CatalogItem]
      <3>1. items[i] \in CatalogItem /\ items[i].inventory + 1 \in 0..MaxStock
        BY <1>2, <1>4, InputsAssumption DEF TypeOK, CatalogItem
      <3>2. [items[i] EXCEPT !.inventory = @ + 1] \in CatalogItem
        BY <3>1 DEF CatalogItem
      <3> QED BY <1>4, <3>2 DEF TypeOK
    <2> QED BY <1>4, <1>6, <1>7, <2>1, <2>2 DEF TypeOK
  <1>12. Solvency'
    <2>1. totals'.outstanding = SumOver(Balances, Learners)'
      BY <1>2, <1>3, <1>5, <1>6, <1>8, <1>9, <1>10
    <2>2. totals'.awarded = SumOver(Lifetimes, Learners)'
      BY <1>3, <1>5, <1>6, <1>8, <1>9, <1>10
    <2>3. totals'.inSwap = SumOver(CostsOf, SwapsIn("Requested"))'
      BY <1>7, <1>8, <1>9
    <2>4. totals'.swapped = SumOver(CostsOf, SwapsIn("Settled"))'
      BY <1>7, <1>8, <1>9, <1>10
    <2> QED BY <2>1, <2>2, <2>3, <2>4 DEF Solvency
  <1>13. Conservation'
    BY <1>2, <1>3, <1>9, <1>10 DEF Conservation
  <1>14. ExtractionBounded'
    <2> SUFFICES ASSUME NEW k \in Learners
                 PROVE  /\ accounts'[k].balance + SumOver(CostsOf, KeptSwapsOf(k))'
                             <= accounts'[k].lifetimeAwarded
                        /\ accounts'[k].lifetimeAwarded <= LIFETIME_CAP
      BY DEF ExtractionBounded
    <2>1. /\ SumOver(CostsOf, KeptSwapsOf(k)) \in Nat
          /\ accounts[k].balance \in Nat /\ accounts[k].lifetimeAwarded \in Nat
      BY SwapCosts, SweepIsPart, LimitsAssumption DEF KeptSwapsOf, TypeOK
    <2>2. accounts'[k] = IF k = l THEN acc ELSE accounts[k]
      BY <1>4 DEF TypeOK
    <2>3. /\ accounts[k].balance + SumOver(CostsOf, KeptSwapsOf(k)) <= accounts[k].lifetimeAwarded
          /\ accounts[k].lifetimeAwarded <= LIFETIME_CAP
      BY DEF ExtractionBounded
    <2>4. CASE k = l
      <3>1. SumOver(CostsOf, KeptSwapsOf(k))' = SumOver(CostsOf, KeptSwapsOf(k)) - cost
        BY <1>7, <2>4
      <3>2. /\ accounts'[k].balance = accounts[k].balance - sw + cost
            /\ accounts'[k].lifetimeAwarded = accounts[k].lifetimeAwarded
        BY <1>5, <2>2, <2>4
      <3>3. cost \in Nat /\ sw \in Nat
        BY <1>2, <1>3
      <3> HIDE DEF Inv
      <3> QED BY <2>1, <2>3, <3>1, <3>2, <3>3
    <2>5. CASE k # l
      <3>1. SumOver(CostsOf, KeptSwapsOf(k))' = SumOver(CostsOf, KeptSwapsOf(k)) - 0
        BY <1>7, <2>5
      <3>2. accounts'[k] = accounts[k]
        BY <2>2, <2>5
      <3> HIDE DEF Inv
      <3> QED BY <2>1, <2>3, <3>1, <3>2
    <2> QED BY <2>4, <2>5
  <1> QED BY <1>11, <1>12, <1>13, <1>14

\* What the admin configures, the switch, the roles and the clock touch no
\* account, no swap and no total.
LEMMA QuietKeepsInv ==
  ASSUME Inv, TypeOK', UNCHANGED <<accounts, swaps, totals>>
  PROVE  Inv'
  <1>1. /\ SumOver(Balances, Learners)' = SumOver(Balances, Learners)
        /\ SumOver(Lifetimes, Learners)' = SumOver(Lifetimes, Learners)
    BY AccountsKept
  <1>2. /\ SumOver(CostsOf, SwapsIn("Requested"))' = SumOver(CostsOf, SwapsIn("Requested"))
        /\ SumOver(CostsOf, SwapsIn("Settled"))' = SumOver(CostsOf, SwapsIn("Settled"))
        /\ \A k \in Learners :
             SumOver(CostsOf, KeptSwapsOf(k))' = SumOver(CostsOf, KeptSwapsOf(k))
    BY SwapsKept DEF SwapStatus
  <1>3. Solvency'
    BY <1>1, <1>2 DEF Inv, Solvency
  <1>4. Conservation'
    BY DEF Inv, Conservation
  <1>5. ExtractionBounded'
    BY <1>2 DEF Inv, ExtractionBounded
  <1> QED BY <1>3, <1>4, <1>5 DEF Inv
-----------------------------------------------------------------------------
(***************************************************************************)
(* The invariant of the contract.                                          *)
(***************************************************************************)
\* The contract as deployed holds nothing, and all its sums are empty.
LEMMA InitInv == Init => Inv
  <1> SUFFICES ASSUME Init PROVE Inv
    OBVIOUS
  <1>1. TypeOK
    <2>1. InitialRoles \in [Roles -> SUBSET Actors]
      BY ActorsAssumption DEF InitialRoles, Roles
    <2>2. swaps \in Seq(Swap)
      BY EmptySeq DEF Init
    <2>3. missions \in [Missions -> Mission]
      BY DEF Init, Mission
    <2>4. items \in [Items -> CatalogItem]
      BY InputsAssumption DEF Init, CatalogItem
    <2>5. accounts \in [Learners -> Account]
      BY LimitsAssumption DEF Init, Account
    <2>6. now \in 0..MaxTime
      BY InputsAssumption DEF Init
    <2> QED BY <2>1, <2>2, <2>3, <2>4, <2>5, <2>6 DEF Init, TypeOK, Totals
  <1>2. SumOver(Balances, Learners) = 0 /\ SumOver(Lifetimes, Learners) = 0
    <2>1. /\ \A k \in Learners : Balances[k] = 0 /\ Lifetimes[k] = 0
      BY DEF Init, Balances, Lifetimes
    <2>2. Units(Balances, Learners) = {} /\ Units(Lifetimes, Learners) = {}
      BY <2>1 DEF Units
    <2> QED BY <2>2, FS_EmptySet DEF SumOver
  <1>3. /\ SwapsIn("Requested") = {} /\ SwapsIn("Settled") = {}
        /\ \A k \in Learners : KeptSwapsOf(k) = {}
    BY DEF Init, SwapsIn, KeptSwapsOf
  <1>4. Solvency
    BY <1>2, <1>3, SumOfNone DEF Init, Solvency
  <1>5. ExtractionBounded
    <2>1. \A k \in Learners : SumOver(CostsOf, KeptSwapsOf(k)) = 0
      BY <1>3, SumOfNone
    <2>2. \A k \in Learners : accounts[k].balance = 0 /\ accounts[k].lifetimeAwarded = 0
      BY DEF Init
    <2> QED BY <2>1, <2>2, LimitsAssumption DEF ExtractionBounded
  <1>6. Conservation
    BY DEF Init, Conservation
  <1> QED BY <1>1, <1>4, <1>5, <1>6 DEF Inv

\* What an admin does keeps the state well typed and is quiet otherwise.
LEMMA AdminKeepsInv ==
  ASSUME Inv, NEW a \in Actors, Admin(a)
  PROVE  Inv'
  <1> USE DEF Inv
  <1>1. ASSUME NEW m \in Missions, NEW r \in Rewards, NEW v \in Versions, NEW on \in BOOLEAN,
               ConfigureMission(a, m, r, v, on)
        PROVE  Inv'
    <2>1. TypeOK'
      BY <1>1, InputsAssumption DEF ConfigureMission, TypeOK, Mission
    <2> QED BY <1>1, <2>1, QuietKeepsInv DEF ConfigureMission
  <1>2. ASSUME NEW i \in Items, NEW c \in Costs, NEW n \in Stocks, NEW on \in BOOLEAN,
               ConfigureCatalogItem(a, i, c, n, on)
        PROVE  Inv'
    <2>1. TypeOK'
      BY <1>2, InputsAssumption DEF ConfigureCatalogItem, TypeOK, CatalogItem
    <2> QED BY <1>2, <2>1, QuietKeepsInv DEF ConfigureCatalogItem
  <1>3. CASE Pause(a) \/ Unpause(a)
    <2>1. TypeOK'
      BY <1>3 DEF Pause, Unpause, TypeOK
    <2> QED BY <1>3, <2>1, QuietKeepsInv DEF Pause, Unpause
  <1>4. ASSUME NEW rc \in RoleChanges, GrantRole(a, rc[1], rc[2]) \/ RevokeRole(a, rc[1], rc[2])
        PROVE  Inv'
    <2>1. roles' \in [Roles -> SUBSET Actors]
      BY <1>4, RolesAssumption DEF GrantRole, RevokeRole, TypeOK
    <2>2. TypeOK'
      BY <1>4, <2>1 DEF GrantRole, RevokeRole, TypeOK
    <2> QED BY <1>4, <2>2, QuietKeepsInv DEF GrantRole, RevokeRole
  <1> QED BY <1>1, <1>2, <1>3, <1>4 DEF Admin

\* Every transaction, and every passing second, keeps the invariant.
LEMMA NextInv == Inv /\ [Next]_vars => Inv'
  <1> SUFFICES ASSUME Inv, [Next]_vars PROVE Inv'
    OBVIOUS
  <1>1. ASSUME NEW a \in Actors, Admin(a) PROVE Inv'
    BY <1>1, AdminKeepsInv
  <1>2. ASSUME NEW a \in Actors, NEW l \in Learners, NEW m \in Missions, AwardCredits(a, l, m)
        PROVE  Inv'
    BY <1>2, AwardKeepsInv
  <1>3. ASSUME NEW l \in Learners, SweepExpired(l) PROVE Inv'
    BY <1>3, SweepKeepsInv
  <1>4. ASSUME NEW a \in Actors, NEW l \in Learners, NEW i \in Items, RequestSwap(a, l, i)
        PROVE  Inv'
    BY <1>4, RequestKeepsInv
  <1>5. ASSUME NEW a \in Actors, NEW s \in DOMAIN swaps, SettleSwap(a, s) PROVE Inv'
    BY <1>5, SettleKeepsInv
  <1>6. ASSUME NEW a \in Actors, NEW s \in DOMAIN swaps, CancelSwap(a, s) PROVE Inv'
    BY <1>6, CancelKeepsInv
  <1>7. CASE Tick
    <2>1. TypeOK'
      BY <1>7, InputsAssumption DEF Tick, TypeOK, Inv
    <2> QED BY <1>7, <2>1, QuietKeepsInv DEF Tick
  <1>8. CASE UNCHANGED vars
    <2>1. TypeOK'
      BY <1>8 DEF vars, TypeOK, Inv
    <2> QED BY <1>8, <2>1, QuietKeepsInv DEF vars
  <1> QED BY <1>1, <1>2, <1>3, <1>4, <1>5, <1>6, <1>7, <1>8 DEF Next

\* In every behaviour, for every value of the constants: the state is well
\* typed, no total underflows, and the three statements about credits hold.
THEOREM Invariance == Spec => []Inv
  BY InitInv, NextInv, PTL DEF Spec

\* The equation of LanguageCredits.sol line 92.
THEOREM CreditsConserved == Spec => []Conservation
  <1>1. Inv => Conservation
    BY DEF Inv
  <1> QED BY <1>1, Invariance, PTL

\* The totals are the sums they stand for, so no checked subtraction of a
\* sweep, a settlement or a refund can revert.
THEOREM TotalsAreSums == Spec => []Solvency
  <1>1. Inv => Solvency
    BY DEF Inv
  <1> QED BY <1>1, Invariance, PTL

\* No handle extracts more than it was awarded, nor than the lifetime cap.
THEOREM ExtractionIsBounded == Spec => []ExtractionBounded
  <1>1. Inv => ExtractionBounded
    BY DEF Inv
  <1> QED BY <1>1, Invariance, PTL

\* A refund never waits (lines 298-300): neither the pause nor the accounts
\* stand in its way, and what it subtracts is there (lines 312 and 317).
THEOREM RefundsNeverWait == Spec => []RefundNeverWaits
  <1>1. ASSUME Inv, NEW s \in SwapsIn("Requested"),
               NEW a \in roles["FULFILLER_ROLE"] \cup roles["ADMIN_ROLE"],
               items[swaps[s].item].inventory < MaxStock
        PROVE  /\ MayRefund(a, s)
               /\ swaps[s].cost <= totals.inSwap
               /\ Sweepable(swaps[s].learner) <= totals.outstanding
    <2>1. s \in DOMAIN swaps /\ swaps[s].status = "Requested" /\ swaps \in Seq(Swap) /\ totals \in Totals
      BY <1>1 DEF SwapsIn, Inv, TypeOK
    <2>2. swaps[s] \in Swap
      BY <2>1, ElementOfSeq, LenProperties
    <2>3. MayRefund(a, s)
      BY <1>1, <2>1 DEF MayRefund, MayCancel, IsOpen
    <2>4. swaps[s].cost <= totals.inSwap
      <3>1. SwapsIn("Requested") \in SUBSET (DOMAIN swaps)
        BY DEF SwapsIn
      <3>2. /\ IsFiniteSet(SwapsIn("Requested")) /\ CostsOf[s] = swaps[s].cost
            /\ \A u \in SwapsIn("Requested") : CostsOf[u] \in Nat
        BY <1>1, <2>1, <3>1, SwapCosts
      <3>3. CostsOf[s] <= SumOver(CostsOf, SwapsIn("Requested"))
        BY <1>1, <3>2, SumWithOneLess
      <3> QED BY <1>1, <3>2, <3>3 DEF Inv, Solvency
    <2>5. Sweepable(swaps[s].learner) <= totals.outstanding
      <3> DEFINE l == swaps[s].learner
      <3>1. l \in Learners
        BY <2>2 DEF Swap
      <3>2. /\ \A k \in Learners : Balances[k] = accounts[k].balance /\ Balances[k] \in Nat
            /\ Sweepable(l) \in Nat /\ Sweepable(l) <= accounts[l].balance
        BY <1>1, <3>1, SweepIsPart DEF Inv, Balances
      <3>3. Balances[l] <= SumOver(Balances, Learners)
        BY <3>1, <3>2, SumWithOneLess, LearnersAssumption
      <3>4. totals.outstanding = SumOver(Balances, Learners) /\ totals.outstanding \in Nat
        BY <1>1, <2>1 DEF Inv, Solvency, Totals
      <3> HIDE DEF l
      <3>5. Balances[l] = accounts[l].balance /\ Balances[l] \in Nat
        BY <3>1, <3>2
      <3>6. Sweepable(l) <= totals.outstanding
        BY <3>2, <3>3, <3>4, <3>5
      <3> QED BY <3>6 DEF l
    <2> QED BY <2>3, <2>4, <2>5
  <1>2. Inv => RefundNeverWaits
    BY <1>1 DEF RefundNeverWaits
  <1> QED BY <1>2, Invariance, PTL

\* Every state of the contract is well typed.
THEOREM TypeCorrect == Spec => []TypeOK
  <1>1. Inv => TypeOK
    BY DEF Inv
  <1> QED BY <1>1, Invariance, PTL
-----------------------------------------------------------------------------
(***************************************************************************)
(* What a step may never do.                                               *)
(***************************************************************************)
\* The only steps that touch a swap open one or decide a requested one.
LEMMA StepOnSwaps ==
  ASSUME Inv, [Next]_vars
  PROVE  \/ swaps' = swaps
         \/ \E r \in Swap : swaps' = Append(swaps, r)
         \/ \E s \in DOMAIN swaps, st \in {"Settled", "Cancelled"} :
              swaps[s].status = "Requested" /\ swaps' = [swaps EXCEPT ![s].status = st]
  <1>1. CASE \E a \in Actors : Admin(a)
    BY <1>1 DEF Admin, ConfigureMission, ConfigureCatalogItem, Pause, Unpause, GrantRole, RevokeRole
  <1>2. CASE \E a \in Actors, l \in Learners, m \in Missions : AwardCredits(a, l, m)
    BY <1>2 DEF AwardCredits
  <1>3. CASE \E l \in Learners : SweepExpired(l)
    BY <1>3 DEF SweepExpired
  <1>4. ASSUME NEW a \in Actors, NEW l \in Learners, NEW i \in Items, RequestSwap(a, l, i)
        PROVE  \E r \in Swap : swaps' = Append(swaps, r)
    <2> DEFINE r == [learner |-> l, item |-> i, cost |-> items[i].cost, status |-> "Requested"]
    <2>1. r \in Swap
      BY DEF Inv, TypeOK, CatalogItem, Swap, SwapStatus
    <2>2. swaps' = Append(swaps, r)
      BY <1>4 DEF RequestSwap
    <2> QED BY <2>1, <2>2
  <1>5. CASE \E a \in Actors, s \in DOMAIN swaps : SettleSwap(a, s)
    BY <1>5 DEF SettleSwap, MaySettle, IsOpen
  <1>6. CASE \E a \in Actors, s \in DOMAIN swaps : CancelSwap(a, s)
    BY <1>6 DEF CancelSwap, MayRefund, IsOpen
  <1>7. CASE Tick
    BY <1>7 DEF Tick
  <1>8. CASE UNCHANGED vars
    BY <1>8 DEF vars
  <1> QED BY <1>1, <1>2, <1>3, <1>4, <1>5, <1>6, <1>7, <1>8 DEF Next

\* A swap keeps its holder and its price, and a decided swap stays decided.
THEOREM SwapsAreDecidedOnce == Spec => SwapsDecidedOnce
  <1>1. ASSUME Inv, [Next]_vars, NEW s \in DOMAIN swaps
        PROVE  /\ s \in DOMAIN swaps'
               /\ [swaps'[s] EXCEPT !.status = "Requested"] = [swaps[s] EXCEPT !.status = "Requested"]
               /\ swaps[s].status # "Requested" => swaps'[s] = swaps[s]
    <2>1. /\ swaps \in Seq(Swap) /\ DOMAIN swaps = 1..Len(swaps) /\ Len(swaps) \in Nat
          /\ swaps[s] \in Swap
      BY <1>1, LenProperties, ElementOfSeq DEF Inv, TypeOK
    <2>2. CASE swaps' = swaps
      BY <2>2
    <2>3. CASE \E r \in Swap : swaps' = Append(swaps, r)
      <3>1. s \in DOMAIN swaps' /\ swaps'[s] = swaps[s]
        BY <2>1, <2>3
      <3> QED BY <3>1
    <2>4. ASSUME NEW t \in DOMAIN swaps, NEW st \in {"Settled", "Cancelled"},
                 swaps[t].status = "Requested", swaps' = [swaps EXCEPT ![t].status = st]
          PROVE  /\ s \in DOMAIN swaps'
                 /\ [swaps'[s] EXCEPT !.status = "Requested"] = [swaps[s] EXCEPT !.status = "Requested"]
                 /\ swaps[s].status # "Requested" => swaps'[s] = swaps[s]
      <3>1. s \in DOMAIN swaps'
        BY <2>4
      <3>2. swaps'[s] = IF s = t THEN [swaps[s] EXCEPT !.status = st] ELSE swaps[s]
        BY <2>4
      <3> QED BY <2>1, <2>4, <3>1, <3>2 DEF Swap
    <2> QED BY <1>1, <2>2, <2>3, <2>4, StepOnSwaps
  <1>2. Inv /\ [Next]_vars =>
          [\A s \in DOMAIN swaps :
             /\ s \in DOMAIN swaps'
             /\ [swaps'[s] EXCEPT !.status = "Requested"] = [swaps[s] EXCEPT !.status = "Requested"]
             /\ swaps[s].status # "Requested" => swaps'[s] = swaps[s]]_vars
    BY <1>1
  <1> QED BY <1>2, Invariance, PTL DEF Spec, SwapsDecidedOnce

\* A cancelled swap gives its holder exactly its cost, spendable at once: the
\* balance view after the step is the view before it plus the cost, for a
\* live account and for one that had expired.
THEOREM RefundsAreUsable == Spec => RefundIsUsable
  <1> DEFINE Refunded(s) == swaps[s].status = "Requested" /\ swaps'[s].status = "Cancelled"
  <1>1. ASSUME Inv, NEW a \in Actors, NEW s \in DOMAIN swaps, CancelSwap(a, s)
        PROVE  LET l == swaps[s].learner IN BalanceOf(l)' = BalanceOf(l) + swaps[s].cost
    <2> DEFINE l == swaps[s].learner
               cost == swaps[s].cost
    <2>1. swaps \in Seq(Swap) /\ swaps[s] \in Swap
      BY <1>1, LenProperties, ElementOfSeq DEF Inv, TypeOK
    <2>2. l \in Learners /\ cost \in Nat
      BY <2>1 DEF Swap
    <2>3. accounts[l] \in Account /\ now \in Nat
      BY <1>1, <2>2 DEF Inv, TypeOK
    <2>4. /\ now' = now /\ swaps'[s].learner = l
          /\ accounts'[l].balance = accounts[l].balance - Sweepable(l) + cost
          /\ accounts'[l].expiresAt
               = IF IsExpired(l) THEN now + REFUND_GRACE_PERIOD ELSE accounts[l].expiresAt
      BY <1>1, <2>1, <2>2 DEF CancelSwap, RefundDeadline, Inv, TypeOK, Swap
    <2>5. CASE IsExpired(l)
      <3>1. accounts'[l].balance = cost /\ accounts'[l].expiresAt = now + REFUND_GRACE_PERIOD
        BY <2>2, <2>3, <2>4, <2>5 DEF Sweepable, Account
      <3>2. BalanceOf(l) = 0
        BY <2>5 DEF BalanceOf
      <3>3. BalanceOf(l)' = cost
        BY <2>2, <2>3, <2>4, <3>1, LimitsAssumption DEF BalanceOf, IsExpired
      <3> QED BY <2>2, <3>2, <3>3
    <2>6. CASE ~IsExpired(l)
      <3>1. /\ accounts'[l].balance = accounts[l].balance + cost
            /\ accounts'[l].expiresAt = accounts[l].expiresAt
        BY <2>2, <2>3, <2>4, <2>6 DEF Sweepable, Account
      <3>2. BalanceOf(l) = accounts[l].balance
        BY <2>6 DEF BalanceOf
      <3>3. BalanceOf(l)' = accounts[l].balance + cost
        BY <2>4, <2>6, <3>1 DEF BalanceOf, IsExpired
      <3> QED BY <3>2, <3>3
    <2> QED BY <2>5, <2>6
  <1>2. ASSUME Inv, [Next]_vars, NEW s \in DOMAIN swaps, Refunded(s)
        PROVE  \E a \in Actors : CancelSwap(a, s)
    <2>0. /\ swaps \in Seq(Swap) /\ DOMAIN swaps = 1..Len(swaps) /\ Len(swaps) \in Nat
          /\ swaps'[s] # swaps[s]
      BY <1>2, LenProperties DEF Inv, TypeOK
    <2>1. CASE UNCHANGED swaps
      BY <2>0, <2>1
    <2>2. CASE \E a \in Actors, l \in Learners, i \in Items : RequestSwap(a, l, i)
      <3>1. \E r : swaps' = Append(swaps, r)
        BY <2>2 DEF RequestSwap
      <3> QED BY <2>0, <3>1
    <2>3. ASSUME NEW a \in Actors, NEW t \in DOMAIN swaps, SettleSwap(a, t)
          PROVE  FALSE
      <3>1. swaps'[s] = IF s = t THEN [swaps[s] EXCEPT !.status = "Settled"] ELSE swaps[s]
        BY <2>3 DEF SettleSwap
      <3>2. swaps[s] \in Swap
        BY <2>0, ElementOfSeq
      <3> QED BY <1>2, <2>0, <3>1, <3>2 DEF Swap
    <2>4. ASSUME NEW a \in Actors, NEW t \in DOMAIN swaps, CancelSwap(a, t)
          PROVE  CancelSwap(a, s)
      <3>1. swaps' = [swaps EXCEPT ![t].status = "Cancelled"]
        BY <2>4 DEF CancelSwap
      <3>2. s = t
        BY <2>0, <3>1
      <3> QED BY <2>4, <3>2
    <2>5. CASE \E a \in Actors : Admin(a)
      BY <2>1, <2>5 DEF Admin, ConfigureMission, ConfigureCatalogItem, Pause, Unpause, GrantRole, RevokeRole
    <2>6. CASE \E a \in Actors, l \in Learners, m \in Missions : AwardCredits(a, l, m)
      BY <2>1, <2>6 DEF AwardCredits
    <2>7. CASE (\E l \in Learners : SweepExpired(l)) \/ Tick \/ UNCHANGED vars
      BY <2>1, <2>7 DEF SweepExpired, Tick, vars
    <2> QED BY <1>2, <2>2, <2>3, <2>4, <2>5, <2>6, <2>7 DEF Next
  <1>3. Inv /\ [Next]_vars =>
          [\A s \in DOMAIN swaps :
             swaps[s].status = "Requested" /\ swaps'[s].status = "Cancelled"
               => LET l == swaps[s].learner
                  IN  BalanceOf(l)' = BalanceOf(l) + swaps[s].cost]_vars
    BY <1>1, <1>2
  <1> QED BY <1>3, Invariance, PTL DEF Spec, RefundIsUsable

\* A learner's lifetime awards and completions change together, and only by
\* the award of one mission version not completed before.
THEOREM AwardedOncePerVersion == Spec => AwardOncePerVersion
  <1> DEFINE Untouched(l) ==
               /\ accounts'[l].lifetimeAwarded = accounts[l].lifetimeAwarded
               /\ {c \in completed' : c[1] = l} = {c \in completed : c[1] = l}
             Completes(l) ==
               \E m \in Missions :
                 LET key == <<l, m, missions[m].version>>
                 IN  /\ key \notin completed
                     /\ completed' = completed \cup {key}
                     /\ accounts'[l].lifetimeAwarded = accounts[l].lifetimeAwarded + missions[m].reward
  <1>1. ASSUME Inv, [Next]_vars, NEW l \in Learners
        PROVE  Untouched(l) \/ Completes(l)
    <2>0. accounts \in [Learners -> Account]
      BY <1>1 DEF Inv, TypeOK
    <2>1. CASE UNCHANGED <<accounts, completed>>
      BY <2>1
    <2>2. ASSUME NEW a \in Actors, NEW k \in Learners, NEW m \in Missions, AwardCredits(a, k, m)
          PROVE  Untouched(l) \/ Completes(l)
      <3>1. CASE k = l
        <4>1. accounts'[l].lifetimeAwarded = accounts[l].lifetimeAwarded + missions[m].reward
          BY <2>0, <2>2, <3>1 DEF AwardCredits
        <4> QED BY <2>2, <3>1, <4>1 DEF AwardCredits, MayAward, CompletionKey
      <3>2. CASE k # l
        <4>1. accounts'[l] = accounts[l]
          BY <2>0, <2>2, <3>2 DEF AwardCredits
        <4>2. completed' = completed \cup {<<k, m, missions[m].version>>}
          BY <2>2 DEF AwardCredits, CompletionKey
        <4>3. {c \in completed' : c[1] = l} = {c \in completed : c[1] = l}
          BY <3>2, <4>2
        <4> QED BY <4>1, <4>3
      <3> QED BY <3>1, <3>2
    <2>3. ASSUME NEW k \in Learners, SweepExpired(k)
          PROVE  Untouched(l)
      <3>1. completed' = completed /\ accounts'[l].lifetimeAwarded = accounts[l].lifetimeAwarded
        BY <2>0, <2>3 DEF SweepExpired, Account
      <3> QED BY <3>1
    <2>4. ASSUME NEW a \in Actors, NEW k \in Learners, NEW i \in Items, RequestSwap(a, k, i)
          PROVE  Untouched(l)
      <3>1. completed' = completed /\ accounts'[l].lifetimeAwarded = accounts[l].lifetimeAwarded
        BY <2>0, <2>4 DEF RequestSwap, Account
      <3> QED BY <3>1
    <2>5. ASSUME NEW a \in Actors, NEW s \in DOMAIN swaps, CancelSwap(a, s)
          PROVE  Untouched(l)
      <3>1. completed' = completed /\ accounts'[l].lifetimeAwarded = accounts[l].lifetimeAwarded
        BY <2>0, <2>5 DEF CancelSwap, Account
      <3> QED BY <3>1
    <2>6. CASE \E a \in Actors : Admin(a)
      BY <2>1, <2>6 DEF Admin, ConfigureMission, ConfigureCatalogItem, Pause, Unpause, GrantRole, RevokeRole
    <2>7. CASE (\E a \in Actors, s \in DOMAIN swaps : SettleSwap(a, s)) \/ Tick \/ UNCHANGED vars
      BY <2>1, <2>7 DEF SettleSwap, Tick, vars
    <2> QED BY <1>1, <2>2, <2>3, <2>4, <2>5, <2>6, <2>7 DEF Next
  <1>2. Inv /\ [Next]_vars =>
          [\A l \in Learners :
             \/ /\ accounts'[l].lifetimeAwarded = accounts[l].lifetimeAwarded
                /\ {c \in completed' : c[1] = l} = {c \in completed : c[1] = l}
             \/ \E m \in Missions :
                  LET key == <<l, m, missions[m].version>>
                  IN  /\ key \notin completed
                      /\ completed' = completed \cup {key}
                      /\ accounts'[l].lifetimeAwarded = accounts[l].lifetimeAwarded + missions[m].reward]_vars
    BY <1>1
  <1> QED BY <1>2, Invariance, PTL DEF Spec, AwardOncePerVersion

\* Credits are lost to expiry only by one account's step, and only when its
\* deadline has passed.
THEOREM ExpiryTakesOnlyTheExpired == Spec => OnlyExpiredCreditsExpire
  <1> DEFINE Lost(l) ==
               /\ IsExpired(l)
               /\ totals'.expired = totals.expired + accounts[l].balance
               /\ \A k \in Learners \ {l} : accounts'[k] = accounts[k]
  <1>1. ASSUME Inv, NEW l \in Learners, totals'.expired # totals.expired,
               totals'.expired = totals.expired + Sweepable(l),
               \A k \in Learners \ {l} : accounts'[k] = accounts[k]
        PROVE  Lost(l)
    <2>1. totals.expired \in Nat
      BY <1>1 DEF Inv, TypeOK, Totals
    <2>2. IsExpired(l)
      BY <1>1, <2>1 DEF Sweepable
    <2> QED BY <1>1, <2>2 DEF Sweepable
  <1>2. ASSUME Inv, [Next]_vars, totals'.expired # totals.expired
        PROVE  \E l \in Learners : Lost(l)
    <2>0. accounts \in [Learners -> Account] /\ totals \in Totals
      BY <1>2 DEF Inv, TypeOK
    <2>1. CASE totals' = totals
      BY <1>2, <2>1
    <2>2. ASSUME NEW a \in Actors, NEW l \in Learners, NEW m \in Missions, AwardCredits(a, l, m)
          PROVE  Lost(l)
      <3>1. totals'.expired = totals.expired + Sweepable(l)
        BY <2>0, <2>2 DEF AwardCredits, Expire, Totals
      <3>2. \A k \in Learners \ {l} : accounts'[k] = accounts[k]
        BY <2>0, <2>2 DEF AwardCredits
      <3> QED BY <1>1, <1>2, <3>1, <3>2
    <2>3. ASSUME NEW l \in Learners, SweepExpired(l)
          PROVE  Lost(l)
      <3>1. totals'.expired = totals.expired + Sweepable(l)
        BY <2>0, <2>3 DEF SweepExpired, Expire, Totals
      <3>2. \A k \in Learners \ {l} : accounts'[k] = accounts[k]
        BY <2>0, <2>3 DEF SweepExpired
      <3> QED BY <1>1, <1>2, <3>1, <3>2
    <2>4. ASSUME NEW a \in Actors, NEW l \in Learners, NEW i \in Items, RequestSwap(a, l, i)
          PROVE  Lost(l)
      <3>1. totals'.expired = totals.expired + Sweepable(l)
        BY <2>0, <2>4 DEF RequestSwap, Expire, Totals
      <3>2. \A k \in Learners \ {l} : accounts'[k] = accounts[k]
        BY <2>0, <2>4 DEF RequestSwap
      <3> QED BY <1>1, <1>2, <3>1, <3>2
    <2>5. ASSUME NEW a \in Actors, NEW s \in DOMAIN swaps, CancelSwap(a, s)
          PROVE  \E l \in Learners : Lost(l)
      <3> DEFINE l == swaps[s].learner
      <3>0. l \in Learners
        <4>1. swaps \in Seq(Swap) /\ swaps[s] \in Swap
          BY <1>2, LenProperties, ElementOfSeq DEF Inv, TypeOK
        <4> QED BY <4>1 DEF Swap
      <3>1. totals'.expired = totals.expired + Sweepable(l)
        BY <2>0, <2>5 DEF CancelSwap, Expire, Totals
      <3>2. \A k \in Learners \ {l} : accounts'[k] = accounts[k]
        BY <2>0, <2>5 DEF CancelSwap
      <3>3. Lost(l)
        BY <1>1, <1>2, <3>0, <3>1, <3>2
      <3> QED BY <3>0, <3>3
    <2>6. ASSUME NEW a \in Actors, NEW s \in DOMAIN swaps, SettleSwap(a, s)
          PROVE  FALSE
      <3>1. totals'.expired = totals.expired
        BY <2>0, <2>6 DEF SettleSwap, Totals
      <3> QED BY <1>2, <3>1
    <2>7. CASE \E a \in Actors : Admin(a)
      BY <2>1, <2>7 DEF Admin, ConfigureMission, ConfigureCatalogItem, Pause, Unpause, GrantRole, RevokeRole
    <2>8. CASE Tick \/ UNCHANGED vars
      BY <2>1, <2>8 DEF Tick, vars
    <2> QED BY <1>2, <2>2, <2>3, <2>4, <2>5, <2>6, <2>7, <2>8 DEF Next
  <1>3. Inv /\ [Next]_vars => [totals'.expired # totals.expired => \E l \in Learners : Lost(l)]_vars
    BY <1>2
  <1> QED BY <1>3, Invariance, PTL DEF Spec, OnlyExpiredCreditsExpire

\* No deadline lies further ahead than a fresh award would put it.
Timely == \A l \in Learners : accounts[l].expiresAt <= now + CREDIT_TTL

\* A step moves a deadline only forward, and no further than a fresh award.
LEMMA DeadlinesMove ==
  ASSUME Inv, Timely, [Next]_vars, NEW l \in Learners
  PROVE  /\ accounts'[l].expiresAt >= accounts[l].expiresAt
         /\ (accounts[l].expiresAt <= now + CREDIT_TTL)'
  <1>0. /\ accounts \in [Learners -> Account] /\ accounts[l].expiresAt \in Nat
        /\ now \in Nat /\ CREDIT_TTL \in Nat /\ REFUND_GRACE_PERIOD \in Nat
        /\ REFUND_GRACE_PERIOD <= CREDIT_TTL /\ accounts[l].expiresAt <= now + CREDIT_TTL
    BY LimitsAssumption DEF Inv, TypeOK, Account, Timely
  <1>1. ASSUME NEW d \in Nat, NEW n \in Nat, accounts'[l].expiresAt = d, now' = n,
               d >= accounts[l].expiresAt, d <= n + CREDIT_TTL
        PROVE  /\ accounts'[l].expiresAt >= accounts[l].expiresAt
               /\ (accounts[l].expiresAt <= now + CREDIT_TTL)'
    BY <1>0, <1>1
  <1>2. CASE accounts'[l].expiresAt = accounts[l].expiresAt /\ now' = now
    BY <1>0, <1>1, <1>2
  <1>3. ASSUME NEW a \in Actors, NEW k \in Learners, NEW m \in Missions, AwardCredits(a, k, m), k = l
        PROVE  accounts'[l].expiresAt = now + CREDIT_TTL /\ now' = now
    BY <1>0, <1>3 DEF AwardCredits
  <1>4. ASSUME NEW a \in Actors, NEW k \in Learners, NEW m \in Missions, AwardCredits(a, k, m), k # l
        PROVE  accounts'[l].expiresAt = accounts[l].expiresAt /\ now' = now
    BY <1>0, <1>4 DEF AwardCredits
  <1>5. ASSUME NEW k \in Learners, SweepExpired(k)
        PROVE  accounts'[l].expiresAt = accounts[l].expiresAt /\ now' = now
    BY <1>0, <1>5 DEF SweepExpired, Account
  <1>6. ASSUME NEW a \in Actors, NEW k \in Learners, NEW i \in Items, RequestSwap(a, k, i)
        PROVE  accounts'[l].expiresAt = accounts[l].expiresAt /\ now' = now
    BY <1>0, <1>6 DEF RequestSwap, Account
  <1>7. ASSUME NEW a \in Actors, NEW s \in DOMAIN swaps, CancelSwap(a, s)
        PROVE  /\ now' = now
               /\ \/ accounts'[l].expiresAt = accounts[l].expiresAt
                  \/ /\ IsExpired(l)
                     /\ accounts'[l].expiresAt = now + REFUND_GRACE_PERIOD
    BY <1>0, <1>7 DEF CancelSwap, RefundDeadline
  <1>8. CASE \E a \in Actors : Admin(a)
    BY <1>2, <1>8 DEF Admin, ConfigureMission, ConfigureCatalogItem, Pause, Unpause, GrantRole, RevokeRole
  <1>9. CASE (\E a \in Actors, s \in DOMAIN swaps : SettleSwap(a, s)) \/ UNCHANGED vars
    BY <1>2, <1>9 DEF SettleSwap, vars
  <1>10. CASE Tick
    <2>1. accounts'[l].expiresAt = accounts[l].expiresAt /\ now' = now + 1
      BY <1>10 DEF Tick
    <2>2. now + 1 \in Nat /\ accounts[l].expiresAt <= (now + 1) + CREDIT_TTL
      BY <1>0
    <2> QED BY <1>0, <1>1, <2>1, <2>2
  <1>11. CASE \E a \in Actors, k \in Learners, m \in Missions : AwardCredits(a, k, m)
    <2>1. CASE accounts'[l].expiresAt = now + CREDIT_TTL /\ now' = now
      <3>1. now + CREDIT_TTL \in Nat
        BY <1>0
      <3> QED BY <1>0, <1>1, <2>1, <3>1
    <2> QED BY <1>2, <1>3, <1>4, <1>11, <2>1
  <1>12. CASE \E a \in Actors, s \in DOMAIN swaps : CancelSwap(a, s)
    <2>1. CASE IsExpired(l) /\ accounts'[l].expiresAt = now + REFUND_GRACE_PERIOD /\ now' = now
      <3>1. /\ now + REFUND_GRACE_PERIOD \in Nat
            /\ now + REFUND_GRACE_PERIOD >= accounts[l].expiresAt
            /\ now + REFUND_GRACE_PERIOD <= now + CREDIT_TTL
        BY <1>0, <2>1 DEF IsExpired
      <3> QED BY <1>0, <1>1, <2>1, <3>1
    <2> QED BY <1>2, <1>7, <1>12, <2>1
  <1> QED BY <1>2, <1>5, <1>6, <1>8, <1>9, <1>10, <1>11, <1>12 DEF Next

\* A refund before the deadline, or an award after a refund's window, never
\* leaves a learner less time than it had.
THEOREM DeadlinesOnlyMoveOn == Spec => DeadlineNeverShortened
  <1>1. Init => Timely
    BY LimitsAssumption DEF Init, Timely
  <1>2. Inv /\ Timely /\ [Next]_vars => Timely'
    BY DeadlinesMove DEF Timely
  <1>3. Inv /\ Timely /\ [Next]_vars =>
          [\A l \in Learners : accounts'[l].expiresAt >= accounts[l].expiresAt]_vars
    BY DeadlinesMove
  <1> QED BY <1>1, <1>2, <1>3, Invariance, PTL DEF Spec, DeadlineNeverShortened

\* What a step that opens or decides a swap does to the units an item has in
\* kept swaps.
LEMMA KeptUnits ==
  ASSUME swaps \in Seq(Swap), NEW i \in Items
  PROVE  /\ IsFiniteSet(KeptSwapsFor(i))
         /\ Cardinality(KeptSwapsFor(i)) \in Nat
  <1>1. /\ Len(swaps) \in Nat /\ DOMAIN swaps = 1..Len(swaps)
    BY LenProperties
  <1>2. IsFiniteSet(1..Len(swaps))
    BY <1>1, FS_Interval
  <1>3. KeptSwapsFor(i) \subseteq 1..Len(swaps)
    BY <1>1 DEF KeptSwapsFor
  <1> QED BY <1>2, <1>3, FS_Subset, FS_CardinalityType

\* Opening a swap moves a unit from the shelf into it, a refund moves it back,
\* and a settlement moves none.
THEOREM UnitsAreAccounted == Spec => StockAccounted
  <1> DEFINE Kept(i) == items'[i].inventory + Cardinality(KeptSwapsFor(i)')
                          = items[i].inventory + Cardinality(KeptSwapsFor(i))
  <1>1. ASSUME Inv, NEW a \in Actors, NEW l \in Learners, NEW j \in Items, RequestSwap(a, l, j),
               NEW i \in Items
        PROVE  Kept(i)
    <2>1. /\ swaps \in Seq(Swap) /\ Len(swaps) \in Nat /\ DOMAIN swaps = 1..Len(swaps)
          /\ items \in [Items -> CatalogItem] /\ items[i].inventory \in Nat
      BY <1>1, LenProperties DEF Inv, TypeOK, CatalogItem
    <2>2. IsFiniteSet(KeptSwapsFor(i)) /\ Cardinality(KeptSwapsFor(i)) \in Nat
      BY <2>1, KeptUnits
    <2> DEFINE id == Len(swaps) + 1
               new == [learner |-> l, item |-> j, cost |-> items[j].cost, status |-> "Requested"]
    <2>3. /\ DOMAIN swaps' = DOMAIN swaps \cup {id} /\ id \notin DOMAIN swaps
          /\ swaps'[id] = new /\ \A s \in DOMAIN swaps : swaps'[s] = swaps[s]
      BY <1>1, <2>1 DEF RequestSwap
    <2>4. CASE i = j
      <3>1. KeptSwapsFor(i)' = KeptSwapsFor(i) \cup {id} /\ id \notin KeptSwapsFor(i)
        BY <2>3, <2>4 DEF KeptSwapsFor
      <3>2. Cardinality(KeptSwapsFor(i)') = Cardinality(KeptSwapsFor(i)) + 1
        BY <2>2, <3>1, FS_AddElement
      <3>3. items'[i].inventory = items[i].inventory - 1
        BY <1>1, <2>1, <2>4 DEF RequestSwap, Shelve, CatalogItem
      <3> QED BY <2>1, <2>2, <3>2, <3>3
    <2>5. CASE i # j
      <3>1. KeptSwapsFor(i)' = KeptSwapsFor(i)
        BY <2>3, <2>5 DEF KeptSwapsFor
      <3>2. items'[i] = items[i]
        BY <1>1, <2>1, <2>5 DEF RequestSwap, Shelve
      <3> QED BY <3>1, <3>2
    <2> QED BY <2>4, <2>5
  <1>2. ASSUME Inv, NEW a \in Actors, NEW t \in DOMAIN swaps, SettleSwap(a, t), NEW i \in Items
        PROVE  Kept(i)
    <2>1. /\ swaps \in Seq(Swap) /\ swaps[t] \in Swap
          /\ DOMAIN swaps = 1..Len(swaps) /\ Len(swaps) \in Nat
      BY <1>2, LenProperties, ElementOfSeq DEF Inv, TypeOK
    <2>2. /\ DOMAIN swaps' = DOMAIN swaps /\ \A s \in DOMAIN swaps \ {t} : swaps'[s] = swaps[s]
          /\ swaps'[t].item = swaps[t].item
          /\ swaps'[t].status = "Settled" /\ swaps[t].status = "Requested"
      BY <1>2, <2>1 DEF SettleSwap, MaySettle, IsOpen, Swap
    <2>3. KeptSwapsFor(i)' = KeptSwapsFor(i)
      BY <2>2 DEF KeptSwapsFor
    <2> QED BY <1>2, <2>3 DEF SettleSwap
  <1>3. ASSUME Inv, NEW a \in Actors, NEW t \in DOMAIN swaps, CancelSwap(a, t), NEW i \in Items
        PROVE  Kept(i)
    <2>1. /\ swaps \in Seq(Swap) /\ swaps[t] \in Swap
          /\ DOMAIN swaps = 1..Len(swaps) /\ Len(swaps) \in Nat
      BY <1>3, LenProperties, ElementOfSeq DEF Inv, TypeOK
    <2>2. /\ items \in [Items -> CatalogItem] /\ items[i].inventory \in Nat
      BY <1>3 DEF Inv, TypeOK, CatalogItem
    <2>3. /\ DOMAIN swaps' = DOMAIN swaps /\ \A s \in DOMAIN swaps \ {t} : swaps'[s] = swaps[s]
          /\ swaps'[t].status = "Cancelled" /\ swaps[t].status = "Requested"
      BY <1>3, <2>1 DEF CancelSwap, MayRefund, IsOpen, Swap
    <2>4. IsFiniteSet(KeptSwapsFor(i)) /\ Cardinality(KeptSwapsFor(i)) \in Nat
      BY <2>1, KeptUnits
    <2>5. CASE i = swaps[t].item
      <3>1. KeptSwapsFor(i)' = KeptSwapsFor(i) \ {t} /\ t \in KeptSwapsFor(i)
        BY <2>3, <2>5 DEF KeptSwapsFor
      <3>2. Cardinality(KeptSwapsFor(i)') = Cardinality(KeptSwapsFor(i)) - 1
        BY <2>4, <3>1, FS_RemoveElement
      <3>3. items'[i].inventory = items[i].inventory + 1
        BY <1>3, <2>2, <2>5 DEF CancelSwap, Shelve, CatalogItem
      <3> QED BY <2>2, <2>4, <3>2, <3>3
    <2>6. CASE i # swaps[t].item
      <3>1. KeptSwapsFor(i)' = KeptSwapsFor(i)
        BY <2>3, <2>6 DEF KeptSwapsFor
      <3>2. items'[i] = items[i]
        BY <1>3, <2>2, <2>6 DEF CancelSwap, Shelve
      <3> QED BY <3>1, <3>2
    <2> QED BY <2>5, <2>6
  <1>4. ASSUME Inv, [Next]_vars, swaps' # swaps, NEW i \in Items
        PROVE  Kept(i)
    <2>1. CASE \E a \in Actors : Admin(a)
      BY <1>4, <2>1 DEF Admin, ConfigureMission, ConfigureCatalogItem, Pause, Unpause, GrantRole, RevokeRole
    <2>2. CASE \E a \in Actors, l \in Learners, m \in Missions : AwardCredits(a, l, m)
      BY <1>4, <2>2 DEF AwardCredits
    <2>3. CASE (\E l \in Learners : SweepExpired(l)) \/ Tick \/ UNCHANGED vars
      BY <1>4, <2>3 DEF SweepExpired, Tick, vars
    <2> QED BY <1>1, <1>2, <1>3, <1>4, <2>1, <2>2, <2>3 DEF Next
  <1>5. Inv /\ [Next]_vars =>
          [swaps' # swaps =>
             \A i \in Items :
                items'[i].inventory + Cardinality(KeptSwapsFor(i)')
                  = items[i].inventory + Cardinality(KeptSwapsFor(i))]_vars
    BY <1>4
  <1> QED BY <1>5, Invariance, PTL DEF Spec, StockAccounted
=============================================================================
