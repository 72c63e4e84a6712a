------------------------ MODULE LearnerSessionProofs ------------------------
(***************************************************************************)
(* What holds of the rate limiter and of the learner's session for any     *)
(* number of devices, calls of a page, addresses and codes.                *)
(***************************************************************************)
EXTENDS LearnerSession, FiniteSetTheorems, SequenceTheorems, TLAPS

-----------------------------------------------------------------------------
(***************************************************************************)
(* Entries.  Fresh drops a prefix of an entry: SplitsAt(s, k) says that    *)
(* the first k of its failures are the ones to go.                         *)
(***************************************************************************)
Entries == Seq(0..Window)

SplitsAt(s, k) ==
  /\ k \in 0..Len(s)
  /\ \A j \in 1..k : s[j] >= Window
  /\ k < Len(s) => s[k + 1] < Window

LEMMA EntryShape ==
  ASSUME NEW s \in Entries
  PROVE  /\ Len(s) \in Nat /\ DOMAIN s = 1..Len(s)
         /\ \A i \in 1..Len(s) : s[i] \in 0..Window
         /\ s = <<>> <=> Len(s) = 0
BY LenProperties, ElementOfSeq, EmptySeq DEF Entries

\* The loop of fresh() stops at one place, and drops what is before it.
LEMMA AgedIsAPrefix ==
  ASSUME NEW s \in Entries
  PROVE  SplitsAt(s, Cardinality(Aged(s))) /\ Aged(s) = 1..Cardinality(Aged(s))
<1> USE EntryShape
<1> DEFINE k == Cardinality(Aged(s))
<1>1. Aged(s) \in SUBSET (1..Len(s))
  BY DEF Aged, Entries
<1>2. IsFiniteSet(1..Len(s)) /\ Cardinality(1..Len(s)) = Len(s)
  <2>1. Len(s) \in Int /\ 1 \in Int /\ Len(s) \in Nat
    OBVIOUS
  <2> QED BY ONLY <2>1, FS_Interval
<1>3. IsFiniteSet(Aged(s)) /\ k \in Nat /\ k <= Len(s)
  BY <1>1, <1>2, FS_Subset, FS_CardinalityType
<1>4. \A i \in Aged(s) : 1..i \in SUBSET Aged(s)
  BY DEF Aged, Entries
<1>5. \A i \in Aged(s) : i <= k
  <2> SUFFICES ASSUME NEW i \in Aged(s) PROVE i <= k
    OBVIOUS
  <2>1. Cardinality(1..i) = i
    BY <1>1, FS_Interval DEF Entries
  <2>2. Cardinality(1..i) <= k
    BY <1>3, <1>4, FS_Subset
  <2> QED BY <2>1, <2>2
<1>6. Aged(s) \in SUBSET (1..k)
  BY <1>1, <1>3, <1>5 DEF Entries
<1>7. Aged(s) = 1..k
  <2>1. IsFiniteSet(1..k) /\ Cardinality(1..k) = k
    BY <1>3, FS_Interval
  <2> QED BY <1>6, <2>1, FS_Subset
<1>8. \A j \in 1..k : s[j] >= Window
  BY <1>3, <1>7 DEF Aged
<1>9. k < Len(s) => s[k + 1] < Window
  <2> SUFFICES ASSUME k < Len(s), ~(s[k + 1] < Window) PROVE FALSE
    OBVIOUS
  <2>1. s[k + 1] >= Window
    BY <1>3, LimiterAssumption DEF Entries
  <2>2. k + 1 \in DOMAIN s /\ \A j \in 1..(k + 1) : j \in 1..k \/ j = k + 1
    BY <1>3
  <2>3. k + 1 \in Aged(s)
    BY <1>8, <2>1, <2>2 DEF Aged
  <2> QED BY <1>3, <1>7, <2>3
<1> QED BY <1>3, <1>7, <1>8, <1>9 DEF SplitsAt, Entries

LEMMA FreshAt ==
  ASSUME NEW s \in Entries, NEW k, SplitsAt(s, k)
  PROVE  Fresh(s) = SubSeq(s, k + 1, Len(s))
<1> USE EntryShape
<1> DEFINE n == Cardinality(Aged(s))
<1>1. SplitsAt(s, n)
  BY AgedIsAPrefix
<1>2. k = n
  <2>1. ~ k < n
    BY <1>1, LimiterAssumption DEF SplitsAt, Entries
  <2>2. ~ n < k
    BY <1>1, LimiterAssumption DEF SplitsAt, Entries
  <2> QED BY <1>1, <2>1, <2>2 DEF SplitsAt, Entries
<1> QED BY <1>2 DEF Fresh

LEMMA FreshExists ==
  ASSUME NEW s \in Entries
  PROVE  \E k : SplitsAt(s, k) /\ Fresh(s) = SubSeq(s, k + 1, Len(s))
BY AgedIsAPrefix, FreshAt

\* What is kept is an entry, no longer than before, with the same last failure.
LEMMA FreshProperties ==
  ASSUME NEW s \in Entries
  PROVE  /\ Fresh(s) \in Entries
         /\ Len(Fresh(s)) \in Nat /\ Len(Fresh(s)) <= Len(s)
         /\ Fresh(s) # <<>> => /\ s # <<>> /\ LastAge(Fresh(s)) = LastAge(s)
                               /\ Fresh(s)[1] < Window
<1> USE EntryShape
<1>1. PICK k : SplitsAt(s, k) /\ Fresh(s) = SubSeq(s, k + 1, Len(s))
  BY FreshExists
<1>2. k \in 0..Len(s) /\ Len(s) \in Nat
  BY <1>1 DEF SplitsAt, Entries
<1>3. /\ Fresh(s) \in Entries
      /\ Len(Fresh(s)) = Len(s) - k
      /\ \A i \in 1..(Len(s) - k) : Fresh(s)[i] = s[k + i]
  <2>1. \A i \in (k + 1)..Len(s) : s[i] \in 0..Window
    BY <1>2 DEF Entries
  <2> QED BY <1>1, <1>2, <2>1, SubSeqProperties DEF Entries
<1>4. ASSUME Fresh(s) # <<>>
      PROVE  s # <<>> /\ LastAge(Fresh(s)) = LastAge(s) /\ Fresh(s)[1] < Window
  <2>1. k < Len(s)
    BY <1>2, <1>3, <1>4
  <2>2. Len(s) - k \in 1..(Len(s) - k) /\ 1 \in 1..(Len(s) - k) /\ k + (Len(s) - k) = Len(s)
    BY <1>2, <2>1
  <2>3. Fresh(s)[1] = s[k + 1] /\ Fresh(s)[Len(Fresh(s))] = s[Len(s)]
    BY <1>3, <2>2
  <2>4. s # <<>>
    BY <1>2, <2>1
  <2>5. Fresh(s)[1] < Window
    BY <1>1, <2>1, <2>3 DEF SplitsAt
  <2> QED BY <2>3, <2>4, <2>5 DEF LastAge
<1> QED BY <1>2, <1>3, <1>4

\* Looking twice drops nothing more.
LEMMA FreshAlready ==
  ASSUME NEW s \in Entries, s # <<>> => s[1] < Window
  PROVE  Fresh(s) = s
<1>1. SplitsAt(s, 0)
  BY EntryShape, EmptySeq, LenProperties DEF SplitsAt, Entries
<1>2. Fresh(s) = SubSeq(s, 1, Len(s))
  BY <1>1, FreshAt
<1> QED BY <1>2, SubSeqFull DEF Entries

LEMMA FreshTwice ==
  ASSUME NEW s \in Entries
  PROVE  Fresh(Fresh(s)) = Fresh(s)
BY FreshProperties, FreshAlready

LEMMA FreshAppend ==
  ASSUME NEW s \in Entries
  PROVE  /\ Append(Fresh(s), 0) \in Entries
         /\ Append(Fresh(s), 0) # <<>>
         /\ Fresh(Append(Fresh(s), 0)) = Append(Fresh(s), 0)
         /\ Len(Append(Fresh(s), 0)) = Len(Fresh(s)) + 1
<1>1. Fresh(s) \in Entries /\ (Fresh(s) # <<>> => Fresh(s)[1] < Window)
  BY FreshProperties
<1> DEFINE f == Fresh(s)
           t == Append(f, 0)
<1> HIDE DEF f
<1>2. f \in Seq(0..Window) /\ 0 \in 0..Window
  BY <1>1, LimiterAssumption DEF Entries, f
<1>3. /\ t \in Seq(0..Window) /\ t # <<>> /\ Len(t) = Len(f) + 1
      /\ \A i \in 1..Len(f) : t[i] = f[i]
      /\ t[Len(f) + 1] = 0
  BY <1>2, AppendProperties
<1>4. t[1] < Window
  <2>1. CASE f = <<>>
    BY <1>3, <2>1, LimiterAssumption
  <2>2. CASE f # <<>>
    <3>1. 1 \in 1..Len(f)
      BY <1>2, <2>2, EmptySeq, LenProperties
    <3> QED BY <1>1, <1>3, <2>2, <3>1 DEF f
  <2> QED BY <2>1, <2>2
<1>5. Fresh(t) = t
  BY <1>3, <1>4, FreshAlready DEF Entries
<1> QED BY <1>3, <1>5 DEF Entries, f

LEMMA OlderProperties ==
  ASSUME NEW s \in Entries
  PROVE  /\ Older(s) \in Entries /\ Len(Older(s)) = Len(s)
         /\ \A i \in 1..Len(s) : Older(s)[i] = IF s[i] < Window THEN s[i] + 1 ELSE Window
<1> USE EntryShape
<1>1. Older(s) = [i \in 1..Len(s) |-> IF s[i] < Window THEN s[i] + 1 ELSE Window]
  BY DEF Older, Entries
<1>2. \A i \in 1..Len(s) : (IF s[i] < Window THEN s[i] + 1 ELSE Window) \in 0..Window
  BY LimiterAssumption DEF Entries
<1>3. Len(s) \in Nat
  BY DEF Entries
<1> QED BY <1>1, <1>2, <1>3, IsASeq DEF Entries

\* What had aged out before a tick has aged out after it.
LEMMA FreshOlder ==
  ASSUME NEW s \in Entries
  PROVE  Fresh(Older(Fresh(s))) = Fresh(Older(s))
<1> USE EntryShape
<1>1. PICK k : SplitsAt(s, k) /\ Fresh(s) = SubSeq(s, k + 1, Len(s))
  BY FreshExists
<1> DEFINE f == Fresh(s)
           u == Older(f)
           w == Older(s)
<1>2. f \in Entries
  BY FreshProperties
<1>3. k \in 0..Len(s) /\ Len(s) \in Nat /\ Len(f) = Len(s) - k
      /\ \A i \in 1..(Len(s) - k) : f[i] = s[k + i]
  <2>1. k \in 0..Len(s) /\ Len(s) \in Nat
    BY <1>1 DEF SplitsAt, Entries
  <2>2. \A i \in (k + 1)..Len(s) : s[i] \in 0..Window
    BY <2>1 DEF Entries
  <2> QED BY <1>1, <2>1, <2>2, SubSeqProperties
<1>4. u \in Entries /\ Len(u) = Len(s) - k
      /\ \A i \in 1..(Len(s) - k) : u[i] = IF f[i] < Window THEN f[i] + 1 ELSE Window
  BY <1>2, <1>3, OlderProperties
<1>5. w \in Entries /\ Len(w) = Len(s)
      /\ \A i \in 1..Len(s) : w[i] = IF s[i] < Window THEN s[i] + 1 ELSE Window
  BY OlderProperties
<1>6. PICK m : SplitsAt(u, m) /\ Fresh(u) = SubSeq(u, m + 1, Len(u))
  BY <1>4, FreshExists
<1> HIDE DEF f, u, w
<1>7. m \in 0..(Len(s) - k)
  BY <1>4, <1>6 DEF SplitsAt
<1>8. \A i \in 1..(Len(s) - k) : u[i] = w[k + i]
  <2> SUFFICES ASSUME NEW i \in 1..(Len(s) - k) PROVE u[i] = w[k + i]
    OBVIOUS
  <2>1. k + i \in 1..Len(s)
    BY <1>3
  <2> QED BY <1>3, <1>4, <1>5, <2>1
<1>9. SplitsAt(w, k + m)
  <2>1. k + m \in 0..Len(w)
    BY <1>3, <1>5, <1>7
  <2>2. ASSUME NEW j \in 1..(k + m) PROVE w[j] >= Window
    <3>1. CASE j <= k
      <4>1. j \in 1..k /\ j \in 1..Len(s)
        BY <1>3, <1>7, <2>2, <3>1
      <4>2. ~(s[j] < Window)
        BY <1>1, <4>1, LimiterAssumption DEF SplitsAt
      <4> QED BY <1>5, <4>1, <4>2, LimiterAssumption
    <3>2. CASE j > k
      <4>1. j - k \in 1..m /\ j - k \in 1..(Len(s) - k) /\ k + (j - k) = j
        BY <1>3, <1>7, <2>2, <3>2
      <4>2. u[j - k] >= Window /\ u[j - k] = w[k + (j - k)]
        BY <1>6, <1>8, <4>1 DEF SplitsAt
      <4> QED BY <4>1, <4>2
    <3> QED BY <1>3, <1>7, <2>2, <3>1, <3>2
  <2>3. k + m < Len(w) => w[k + m + 1] < Window
    <3> SUFFICES ASSUME k + m < Len(w) PROVE w[k + m + 1] < Window
      OBVIOUS
    <3>1. m + 1 \in 1..(Len(s) - k) /\ m < Len(u) /\ k + (m + 1) = k + m + 1
      BY <1>3, <1>4, <1>5, <1>7
    <3>2. u[m + 1] < Window /\ u[m + 1] = w[k + (m + 1)]
      BY <1>6, <1>8, <3>1 DEF SplitsAt
    <3> QED BY <3>1, <3>2
  <2> QED BY <2>1, <2>2, <2>3 DEF SplitsAt
<1>10. Fresh(w) = SubSeq(w, k + m + 1, Len(w))
  BY <1>5, <1>9, FreshAt
<1>11. SubSeq(u, m + 1, Len(u)) = SubSeq(w, k + m + 1, Len(w))
  <2>1. \A i \in (m + 1)..Len(u) : u[i] \in 0..Window
    BY <1>4, <1>7 DEF Entries
  <2>2. \A i \in (k + m + 1)..Len(w) : w[i] \in 0..Window
    BY <1>3, <1>5, <1>7 DEF Entries
  <2>a. m + 1 \in Int /\ Len(u) \in Int /\ k + m + 1 \in Int /\ Len(w) \in Int
    BY <1>3, <1>4, <1>5, <1>7
  <2>3. /\ SubSeq(u, m + 1, Len(u)) \in Seq(0..Window)
        /\ Len(SubSeq(u, m + 1, Len(u))) = IF m + 1 <= Len(u) THEN Len(u) - (m + 1) + 1 ELSE 0
        /\ \A i \in 1..(Len(u) - (m + 1) + 1) : SubSeq(u, m + 1, Len(u))[i] = u[m + 1 + i - 1]
    BY <2>1, <2>a, SubSeqProperties
  <2>4. /\ SubSeq(w, k + m + 1, Len(w)) \in Seq(0..Window)
        /\ Len(SubSeq(w, k + m + 1, Len(w))) =
             IF k + m + 1 <= Len(w) THEN Len(w) - (k + m + 1) + 1 ELSE 0
        /\ \A i \in 1..(Len(w) - (k + m + 1) + 1) :
             SubSeq(w, k + m + 1, Len(w))[i] = w[k + m + 1 + i - 1]
    BY <2>2, <2>a, SubSeqProperties
  <2>5. \A i \in 1..(Len(s) - k - m) : u[m + 1 + i - 1] = w[k + m + 1 + i - 1]
    <3> SUFFICES ASSUME NEW i \in 1..(Len(s) - k - m)
                 PROVE  u[m + 1 + i - 1] = w[k + m + 1 + i - 1]
      OBVIOUS
    <3>1. m + i \in 1..(Len(s) - k) /\ k + (m + i) = k + m + 1 + i - 1 /\ m + 1 + i - 1 = m + i
      BY <1>3, <1>7
    <3> QED BY <1>8, <3>1
  <2> DEFINE a == SubSeq(u, m + 1, Len(u))
             b == SubSeq(w, k + m + 1, Len(w))
  <2> HIDE DEF a, b
  <2>6. a \in Seq(0..Window) /\ b \in Seq(0..Window) /\ Len(a) = Len(b)
    BY <1>3, <1>4, <1>5, <1>7, <2>3, <2>4 DEF a, b
  <2>7. Len(a) <= Len(s) - k - m /\ Len(u) - (m + 1) + 1 = Len(s) - k - m
        /\ Len(w) - (k + m + 1) + 1 = Len(s) - k - m
    BY <1>3, <1>4, <1>5, <1>7, <2>3 DEF a
  <2>8. \A i \in 1..(Len(s) - k - m) : a[i] = b[i]
    BY <2>3, <2>4, <2>5, <2>7 DEF a, b
  <2>9. \A i \in 1..Len(a) : a[i] = b[i]
    BY <1>3, <1>7, <2>6, <2>7, <2>8, LenProperties
  <2>10. a = b
    BY <2>6, <2>9, SeqEqual
  <2> QED BY <2>10 DEF a, b
<1> QED BY <1>6, <1>10, <1>11 DEF f, u, w
-----------------------------------------------------------------------------
(***************************************************************************)
(* The table.                                                              *)
(***************************************************************************)
Table == [Addresses -> Entries]

Bounded(h) == \A a \in Addresses : Len(h[a]) <= Limit

Small(h) == IsFiniteSet(Known(h)) /\ Cardinality(Known(h)) <= MaxKeys

\* Of whoever else is in the table: nothing, all, or what still counts is left.
Thinned(h, g, a) ==
  \A b \in Addresses \ {a} : g[b] \in {<<>>, h[b], Fresh(h[b])}

\* Nobody but the coldest of a full table is forgotten.
OnlyColdest(h, g, a) ==
  \A b \in Addresses \ {a} :
    Fresh(h[b]) # <<>> /\ g[b] = <<>> =>
      /\ Cardinality(Known(h)) = MaxKeys
      /\ \A c \in Known(h) : LastAge(h[c]) <= LastAge(h[b])

LEMMA EmptyEntry == <<>> \in Entries /\ Len(<<>>) = 0 /\ Fresh(<<>>) = <<>>
<1>1. <<>> \in Entries /\ Len(<<>>) = 0
  BY EmptySeq DEF Entries
<1> QED BY <1>1, FreshAlready

LEMMA RecordedProperties ==
  ASSUME NEW h \in Table, Bounded(h), Small(h),
         NEW a \in Addresses, ~Throttled(h, a), NEW g \in Recorded(h, a)
  PROVE  /\ g \in Table /\ Bounded(g) /\ Small(g)
         /\ g[a] = Append(Fresh(h[a]), 0)
         /\ Thinned(h, g, a) /\ OnlyColdest(h, g, a)
<1> DEFINE added == [h EXCEPT ![a] = Append(Fresh(@), 0)]
           swept == [b \in DOMAIN h |-> Fresh(added[b])]
<1>1. /\ h \in [Addresses -> Entries] /\ DOMAIN h = Addresses
      /\ \A b \in Addresses : h[b] \in Entries /\ Len(h[b]) \in Nat
  BY EntryShape DEF Table
<1>2. /\ Append(Fresh(h[a]), 0) \in Entries /\ Append(Fresh(h[a]), 0) # <<>>
      /\ Fresh(Append(Fresh(h[a]), 0)) = Append(Fresh(h[a]), 0)
      /\ Len(Append(Fresh(h[a]), 0)) <= Limit
  <2>1. Len(Fresh(h[a])) \in Nat /\ Len(Fresh(h[a])) < Limit
    BY <1>1, FreshProperties, LimiterAssumption DEF Throttled
  <2>2. h[a] \in Entries
    BY <1>1
  <2>3. /\ Append(Fresh(h[a]), 0) \in Entries /\ Append(Fresh(h[a]), 0) # <<>>
        /\ Fresh(Append(Fresh(h[a]), 0)) = Append(Fresh(h[a]), 0)
        /\ Len(Append(Fresh(h[a]), 0)) = Len(Fresh(h[a])) + 1
    BY <2>2, FreshAppend
  <2>4. Len(Fresh(h[a])) + 1 <= Limit
    BY <2>1, LimiterAssumption
  <2> QED BY <2>3, <2>4
<1>3. /\ added \in Table /\ Bounded(added)
      /\ added[a] = Append(Fresh(h[a]), 0)
      /\ \A b \in Addresses \ {a} : added[b] = h[b]
  BY <1>1, <1>2 DEF Table, Bounded
<1>4. /\ swept \in Table /\ Bounded(swept)
      /\ swept[a] = Append(Fresh(h[a]), 0)
      /\ \A b \in Addresses \ {a} : swept[b] = Fresh(h[b])
  <2>1. \A b \in Addresses : Fresh(added[b]) \in Entries /\ Len(Fresh(added[b])) <= Limit
    <3> SUFFICES ASSUME NEW b \in Addresses
                 PROVE  Fresh(added[b]) \in Entries /\ Len(Fresh(added[b])) <= Limit
      OBVIOUS
    <3>1. added[b] \in Entries /\ Len(added[b]) \in Nat /\ Len(added[b]) <= Limit
      BY <1>3, EntryShape DEF Table, Bounded
    <3>2. Fresh(added[b]) \in Entries /\ Len(Fresh(added[b])) \in Nat
          /\ Len(Fresh(added[b])) <= Len(added[b])
      BY <3>1, FreshProperties
    <3> QED BY <3>1, <3>2, LimiterAssumption
  <2> QED BY <1>1, <1>2, <1>3, <2>1 DEF Table, Bounded
<1> HIDE DEF added, swept
<1>5. /\ Known(added) = Known(h) \cup {a}
      /\ Known(swept) \in SUBSET Known(added)
      /\ Known(swept) = {b \in Addresses : swept[b] # <<>>}
  <2>1. Known(added) = Known(h) \cup {a}
    BY <1>1, <1>2, <1>3 DEF Known, Table
  <2>2. \A b \in Addresses \ {a} : swept[b] # <<>> => h[b] # <<>>
    BY <1>1, <1>4, FreshProperties
  <2>3. \A b \in Known(swept) : b \in Known(added)
    BY <1>1, <1>4, <2>1, <2>2 DEF Known, Table
  <2> QED BY <1>4, <2>1, <2>3 DEF Known, Table
<1>6. /\ IsFiniteSet(Known(added))
      /\ Cardinality(Known(added)) = IF a \in Known(h) THEN Cardinality(Known(h))
                                     ELSE Cardinality(Known(h)) + 1
  BY <1>5, FS_AddElement DEF Small
<1>7. IsFiniteSet(Known(swept)) /\ Cardinality(Known(swept)) <= Cardinality(Known(added))
  BY <1>5, <1>6, FS_Subset
<1>8. /\ Cardinality(Known(h)) \in Nat /\ Cardinality(Known(h)) <= MaxKeys
      /\ Cardinality(Known(added)) \in Nat /\ Cardinality(Known(swept)) \in Nat
  BY <1>6, <1>7, FS_CardinalityType DEF Small
<1>9. CASE Cardinality(Known(added)) <= MaxKeys
  <2>1. Recorded(h, a) = {added}
    BY <1>9, Zenon DEF Recorded, added
  <2>a. g = added
    BY <2>1
  <2>2. Thinned(h, g, a)
    BY <1>3, <2>a DEF Thinned
  <2>3. OnlyColdest(h, g, a)
    <3>1. \A b \in Addresses \ {a} : Fresh(h[b]) # <<>> => h[b] # <<>>
      BY <1>1, FreshProperties
    <3> QED BY <1>3, <2>a, <3>1 DEF OnlyColdest
  <2> QED BY <1>3, <1>6, <1>9, <2>a, <2>2, <2>3 DEF Small
<1>10. CASE ~(Cardinality(Known(added)) <= MaxKeys) /\ Cardinality(Known(swept)) <= MaxKeys
  <2>a. Recorded(h, a) = {swept}
    BY <1>10, Zenon DEF Recorded, added, swept
  <2>1. g = swept
    BY <2>a
  <2>2. Thinned(h, g, a) /\ OnlyColdest(h, g, a)
    BY <1>4, <2>1 DEF Thinned, OnlyColdest
  <2> QED BY <1>4, <1>7, <1>10, <2>1, <2>2 DEF Small
<1>11. CASE ~(Cardinality(Known(added)) <= MaxKeys) /\ ~(Cardinality(Known(swept)) <= MaxKeys)
  <2>a. Recorded(h, a) = {[swept EXCEPT ![b] = <<>>] : b \in Coldest(swept, a)}
    BY <1>11, Zenon DEF Recorded, added, swept
  <2>1. PICK b \in Coldest(swept, a) : g = [swept EXCEPT ![b] = <<>>]
    BY <2>a
  <2>2. b \in Known(swept) \ {a} /\ b \in Addresses
    BY <1>5, <2>1 DEF Coldest
  <2>3. /\ g \in Table /\ g[b] = <<>>
        /\ \A c \in Addresses \ {b} : g[c] = swept[c]
    BY <1>4, <2>1, <2>2, EmptyEntry DEF Table
  <2>4. Bounded(g) /\ g[a] = Append(Fresh(h[a]), 0)
    BY <1>4, <2>2, <2>3, EmptyEntry, LimiterAssumption DEF Bounded
  <2>5. Known(g) = Known(swept) \ {b}
    BY <1>4, <2>2, <2>3 DEF Known, Table
  <2>6. Small(g)
    <3>1. IsFiniteSet(Known(g)) /\ Cardinality(Known(g)) = Cardinality(Known(swept)) - 1
      BY <1>7, <2>2, <2>5, FS_RemoveElement
    <3>2. Cardinality(Known(added)) <= MaxKeys + 1
      BY <1>6, <1>8, LimiterAssumption
    <3> QED BY <1>7, <1>8, <3>1, <3>2, LimiterAssumption DEF Small
  <2>7. Thinned(h, g, a)
    BY <1>4, <2>2, <2>3 DEF Thinned
  <2>8. OnlyColdest(h, g, a)
    <3>1. \A c \in Addresses \ {a} : Fresh(h[c]) # <<>> /\ g[c] = <<>> => c = b
      BY <1>4, <2>3
    <3>2. /\ a \notin Known(h) /\ Cardinality(Known(h)) = MaxKeys
          /\ Cardinality(Known(swept)) = Cardinality(Known(added))
      BY <1>6, <1>7, <1>8, <1>11, LimiterAssumption
    <3>3. Known(swept) = Known(h) \cup {a}
      BY <1>5, <1>6, <3>2, FS_Subset
    <3>4. \A c \in Known(h) : c \in Addresses \ {a} /\ swept[c] = Fresh(h[c]) /\ swept[c] # <<>>
      BY <1>1, <1>4, <1>5, <3>2, <3>3 DEF Known
    <3>5. \A c \in Known(h) : LastAge(swept[c]) = LastAge(h[c])
      BY <1>1, <3>4, FreshProperties
    <3>6. b \in Known(h) /\ \A c \in Known(h) : LastAge(swept[b]) >= LastAge(swept[c])
      BY <2>1, <2>2, <3>2, <3>3 DEF Coldest
    <3>7. \A c \in Known(h) : LastAge(h[c]) \in Int
      BY <1>1, <3>4, EntryShape, EmptyEntry DEF LastAge
    <3> QED BY <3>1, <3>2, <3>5, <3>6, <3>7 DEF OnlyColdest
  <2> QED BY <2>3, <2>4, <2>6, <2>7, <2>8
<1> QED BY <1>9, <1>10, <1>11
-----------------------------------------------------------------------------
(***************************************************************************)
(* The inductive invariant: the limiter, the pages, the tokens.            *)
(***************************************************************************)
\* What is remembered of an address is what still counts of its entry.
Limiter ==
  /\ hits \in Table /\ Bounded(hits) /\ Small(hits)
  /\ tried = [a \in Addresses |-> Fresh(hits[a])]

\* A browser without a key has at most one call under way, which is about to
\* generate one; whatever comes after that step of a call holds the key that
\* is stored.
PageInv(d) ==
  /\ page[d].screen = "closed" => Quiet(d) /\ page[d].token = None /\ ~page[d].loading
  /\ idb[d].key = 0 =>
       /\ page[d].screen \in {"closed", "boot"} /\ ~page[d].loading
       /\ \A j, k \in Calls : ~At(d, j, "idle") /\ ~At(d, k, "idle") => j = k
       /\ \A k \in Calls : call[d][k].pc \in {"idle", "open", "mint"}
  /\ \A k \in Calls :
       /\ At(d, k, "idle") => call[d][k].token = None
       /\ At(d, k, "mint") => idb[d].key = 0 /\ call[d][k].key # 0
       /\ call[d][k].pc \in {"post", "answered", "saveToken", "saveCode"} =>
            call[d][k].key = idb[d].key

\* The tokens a device holds, wherever it keeps them.
TokensAt(d) == {idb[d].token, page[d].token} \cup {call[d][k].token : k \in Calls}

\* A token is of this run of the server or of an earlier one, its code has been
\* proved, and there is none without a key.
TokenInv(d) ==
  \A t \in TokensAt(d) : t # None =>
    t.boot <= boot /\ registered[t.code] # None /\ idb[d].key # 0

IInv == TypeOK /\ Limiter /\ \A d \in Devices : PageInv(d) /\ TokenInv(d)

\* No code has a session on two devices at once.
OneDevicePerCode ==
  \A d, e \in Devices : \A t \in TokensAt(d), u \in TokensAt(e) :
    Valid(t) /\ Valid(u) /\ t.code = u.code => d = e

\* The code of a session is registered with the key of the device that has it.
Live ==
  \A d \in Devices : \A t \in TokensAt(d) :
    Valid(t) => registered[t.code] = <<d, idb[d].key>>

SInv == Live /\ CardsCanBeOpened
-----------------------------------------------------------------------------
(***************************************************************************)
(* The limiter's part.  Forgets is what ForgetsTheColdest says of a step.  *)
(***************************************************************************)
Forgets ==
  \A a \in Addresses :
    /\ Cardinality(Known(hits')) <= MaxKeys
    /\ Fresh(hits[a]) # <<>> /\ hits'[a] = <<>> =>
         \/ boot' # boot
         \/ \E d \in Devices, k \in Calls : AddressOf[d] = a /\ Accept(d, k)
         \/ /\ Cardinality(Known(hits)) = MaxKeys
            /\ \A b \in Known(hits) : LastAge(hits[b]) <= LastAge(hits[a])

LEMMA InitLimiter == Init => Limiter
<1> SUFFICES ASSUME Init PROVE Limiter
  OBVIOUS
<1>1. hits = [a \in Addresses |-> <<>>] /\ tried = [a \in Addresses |-> <<>>]
  BY DEF Init
<1>2. hits \in Table /\ Bounded(hits)
  BY <1>1, EmptyEntry, LimiterAssumption DEF Table, Bounded
<1>3. Known(hits) = {}
  BY <1>1 DEF Known
<1>4. Small(hits)
  BY <1>3, FS_EmptySet, LimiterAssumption DEF Small
<1> QED BY <1>1, <1>2, <1>4, EmptyEntry DEF Limiter

\* The table as a step leaves it that forgets nothing fresh but on purpose.
LEMMA SmallerTable ==
  ASSUME Limiter, hits' \in Table, Bounded(hits)', Known(hits') \subseteq Known(hits),
         tried' = [a \in Addresses |-> Fresh(hits'[a])]
  PROVE  Limiter' /\ Cardinality(Known(hits')) <= MaxKeys
<1>1. IsFiniteSet(Known(hits')) /\ Cardinality(Known(hits')) <= Cardinality(Known(hits))
  BY FS_Subset DEF Limiter, Small
<1>2. /\ Cardinality(Known(hits')) \in Nat /\ Cardinality(Known(hits)) \in Nat
      /\ Cardinality(Known(hits)) <= MaxKeys
  BY <1>1, FS_CardinalityType DEF Limiter, Small
<1>3. Small(hits')
  BY <1>1, <1>2, LimiterAssumption DEF Small
<1> QED BY <1>3 DEF Limiter, Small, Table, Bounded

LEMMA EntryFacts ==
  ASSUME Limiter
  PROVE  /\ DOMAIN hits = Addresses
         /\ \A a \in Addresses :
              /\ hits[a] \in Entries /\ Len(hits[a]) \in Nat /\ Len(hits[a]) <= Limit
              /\ tried[a] = Fresh(hits[a]) /\ tried[a] \in Entries
              /\ Len(tried[a]) \in Nat /\ Len(tried[a]) <= Limit
<1>1. DOMAIN hits = Addresses /\ \A a \in Addresses : hits[a] \in Entries /\ Len(hits[a]) <= Limit
  BY DEF Limiter, Table, Bounded
<1>2. \A a \in Addresses : tried[a] = Fresh(hits[a])
  BY DEF Limiter
<1> SUFFICES ASSUME NEW a \in Addresses
             PROVE  /\ Len(hits[a]) \in Nat /\ tried[a] \in Entries
                    /\ Len(tried[a]) \in Nat /\ Len(tried[a]) <= Limit
  BY <1>1, <1>2
<1>3. Len(hits[a]) \in Nat
  BY <1>1, EntryShape
<1>4. Fresh(hits[a]) \in Entries /\ Len(Fresh(hits[a])) \in Nat /\ Len(Fresh(hits[a])) <= Len(hits[a])
  BY <1>1, FreshProperties
<1> QED BY <1>1, <1>2, <1>3, <1>4, LimiterAssumption

LEMMA RecordedStep ==
  ASSUME Limiter, NEW a \in Addresses, ~Throttled(hits, a),
         hits' \in Recorded(hits, a), Remember(a)
  PROVE  Limiter' /\ Forgets
<1>1. /\ hits' \in Table /\ Bounded(hits') /\ Small(hits')
      /\ hits'[a] = Append(Fresh(hits[a]), 0)
      /\ Thinned(hits, hits', a) /\ OnlyColdest(hits, hits', a)
  BY RecordedProperties DEF Limiter
<1>2. hits[a] \in Entries /\ tried[a] = Fresh(hits[a])
  BY EntryFacts
<1>3. Fresh(hits'[a]) = hits'[a] /\ hits'[a] # <<>>
  BY <1>1, <1>2, FreshAppend
<1>4. tried' = [b \in Addresses |-> IF b = a THEN hits'[a]
                                    ELSE IF hits'[b] = <<>> THEN <<>> ELSE tried[b]]
  BY <1>1, <1>2 DEF Remember
<1>5. \A b \in Addresses \ {a} : hits'[b] # <<>> => tried[b] = Fresh(hits'[b])
  <2> SUFFICES ASSUME NEW b \in Addresses \ {a}, hits'[b] # <<>>
               PROVE  tried[b] = Fresh(hits'[b])
    OBVIOUS
  <2>1. hits[b] \in Entries /\ tried[b] = Fresh(hits[b])
    BY EntryFacts
  <2>2. hits'[b] = hits[b] \/ hits'[b] = Fresh(hits[b])
    BY <1>1 DEF Thinned
  <2> QED BY <2>1, <2>2, FreshTwice
<1>6. tried' = [b \in Addresses |-> Fresh(hits'[b])]
  BY <1>3, <1>4, <1>5, EmptyEntry
<1>7. Limiter'
  BY <1>1, <1>6 DEF Limiter, Table, Bounded, Small
<1>8. Forgets
  BY <1>1, <1>3 DEF Forgets, Small, OnlyColdest
<1> QED BY <1>7, <1>8

LEMMA TurnedAwayStep ==
  ASSUME Limiter, NEW a \in Addresses, TurnedAway(a), UNCHANGED tried
  PROVE  Limiter' /\ Forgets
<1>1. hits' = [hits EXCEPT ![a] = Fresh(hits[a])]
  BY DEF TurnedAway
<1>2. hits[a] \in Entries /\ Len(hits[a]) \in Nat /\ Len(hits[a]) <= Limit
  BY EntryFacts
<1>3. /\ Fresh(hits[a]) \in Entries /\ Len(Fresh(hits[a])) <= Len(hits[a])
      /\ Len(Fresh(hits[a])) \in Nat /\ Fresh(Fresh(hits[a])) = Fresh(hits[a])
      /\ Fresh(hits[a]) # <<>> => hits[a] # <<>>
  BY <1>2, FreshProperties, FreshTwice
<1>4. hits' \in Table /\ Bounded(hits')
  BY <1>1, <1>2, <1>3, LimiterAssumption DEF Limiter, Table, Bounded
<1>5. Known(hits') \subseteq Known(hits)
  BY <1>1, <1>3 DEF Known, Limiter, Table
<1>6. tried' = [b \in Addresses |-> Fresh(hits'[b])]
  BY <1>1, <1>3 DEF Limiter, Table
<1>7. Limiter' /\ Cardinality(Known(hits')) <= MaxKeys
  BY <1>4, <1>5, <1>6, SmallerTable DEF Bounded
<1>8. \A b \in Addresses : Fresh(hits[b]) # <<>> => hits'[b] # <<>>
  <2>1. \A b \in Addresses : Fresh(hits[b]) # <<>> => hits[b] # <<>>
    BY EntryFacts, FreshProperties
  <2> QED BY <1>1, <2>1 DEF Limiter, Table
<1> QED BY <1>7, <1>8 DEF Forgets

LEMMA ClearedStep ==
  ASSUME Limiter, NEW a \in Addresses, hits' = Cleared(hits, a),
         tried' = [tried EXCEPT ![a] = <<>>]
  PROVE  Limiter' /\ Cardinality(Known(hits')) <= MaxKeys
         /\ \A b \in Addresses \ {a} : hits'[b] = hits[b]
<1>1. hits' = [hits EXCEPT ![a] = <<>>]
  BY DEF Cleared
<1>2. hits' \in Table /\ Bounded(hits')
  BY <1>1, EmptyEntry, LimiterAssumption DEF Limiter, Table, Bounded
<1>3. Known(hits') \subseteq Known(hits)
  BY <1>1 DEF Known, Limiter, Table
<1>4. tried' = [b \in Addresses |-> Fresh(hits'[b])]
  BY <1>1, EmptyEntry DEF Limiter, Table
<1> QED BY <1>1, <1>2, <1>3, <1>4, SmallerTable DEF Bounded, Limiter, Table

LEMMA RestartLimiter ==
  ASSUME Limiter, TypeOK, Restart
  PROVE  Limiter' /\ Forgets
<1>1. /\ hits' = [a \in Addresses |-> <<>>] /\ tried' = [a \in Addresses |-> <<>>]
      /\ boot' = boot + 1 /\ boot \in Int
  BY CountsAssumption DEF Restart, TypeOK
<1>2. hits' \in Table /\ Bounded(hits')
  BY <1>1, EmptyEntry, LimiterAssumption DEF Table, Bounded
<1>3. Known(hits') \subseteq Known(hits)
  BY <1>1 DEF Known
<1>4. tried' = [b \in Addresses |-> Fresh(hits'[b])]
  BY <1>1, EmptyEntry
<1>5. Limiter' /\ Cardinality(Known(hits')) <= MaxKeys
  BY <1>2, <1>3, <1>4, SmallerTable DEF Bounded
<1>6. boot' # boot
  BY <1>1
<1> QED BY <1>5, <1>6 DEF Forgets

LEMMA TickLimiter ==
  ASSUME Limiter, Tick
  PROVE  Limiter' /\ Forgets
<1>1. /\ hits' = [a \in Addresses |-> Older(hits[a])]
      /\ tried' = [a \in Addresses |-> Fresh(Older(tried[a]))]
  BY DEF Tick
<1>2. \A a \in Addresses : /\ Older(hits[a]) \in Entries /\ Len(Older(hits[a])) = Len(hits[a])
                           /\ Older(hits[a]) = <<>> <=> hits[a] = <<>>
  BY EntryFacts, OlderProperties, EntryShape
<1>3. hits' \in Table /\ Bounded(hits')
  BY <1>1, <1>2, EntryFacts DEF Table, Bounded
<1>4. Known(hits') \subseteq Known(hits)
  BY <1>1, <1>2, EntryFacts DEF Known
<1>5. \A a \in Addresses : Fresh(Older(tried[a])) = Fresh(Older(hits[a]))
  BY EntryFacts, FreshOlder
<1>6. tried' = [a \in Addresses |-> Fresh(hits'[a])]
  BY <1>1, <1>5
<1>7. Limiter' /\ Cardinality(Known(hits')) <= MaxKeys
  BY <1>3, <1>4, <1>6, SmallerTable DEF Bounded
<1>8. \A a \in Addresses : Fresh(hits[a]) # <<>> => hits'[a] # <<>>
  BY <1>1, <1>2, EntryFacts, FreshProperties
<1> QED BY <1>7, <1>8 DEF Forgets

LEMMA UnlimitedStep ==
  ASSUME Limiter, UNCHANGED <<hits, tried>>
  PROVE  Limiter' /\ Forgets
<1>1. \A a \in Addresses : Fresh(hits[a]) # <<>> => hits[a] # <<>>
  BY EntryFacts, FreshProperties
<1>2. Limiter'
  BY DEF Limiter, Table, Bounded, Small
<1> QED BY <1>1, <1>2 DEF Forgets, Limiter, Small

LEMMA LimiterStep ==
  ASSUME TypeOK, Limiter, [Next]_vars
  PROVE  Limiter' /\ Forgets
<1>1. \A d \in Devices : AddressOf[d] \in Addresses
  BY DevicesAssumption
<1>2. ASSUME NEW d \in Devices, NEW k \in Calls, Throttle(d, k) PROVE Limiter' /\ Forgets
  BY <1>1, <1>2, TurnedAwayStep DEF Throttle
<1>3. ASSUME NEW d \in Devices, NEW k \in Calls, Reject(d, k) PROVE Limiter' /\ Forgets
  BY <1>1, <1>3, RecordedStep DEF Reject
<1>4. ASSUME NEW d \in Devices, NEW k \in Calls, Accept(d, k) PROVE Limiter' /\ Forgets
  <2>1. /\ Limiter' /\ Cardinality(Known(hits')) <= MaxKeys
        /\ \A b \in Addresses \ {AddressOf[d]} : hits'[b] = hits[b]
    BY <1>1, <1>4, ClearedStep DEF Accept
  <2>2. \A a \in Addresses : Fresh(hits[a]) # <<>> => hits[a] # <<>>
    BY EntryFacts, FreshProperties
  <2>3. \A a \in Addresses : Fresh(hits[a]) # <<>> /\ hits'[a] = <<>> => AddressOf[d] = a
    BY <2>1, <2>2
  <2> QED BY <1>4, <2>1, <2>3 DEF Forgets
<1>5. ASSUME NEW a \in Addresses, OtherRejected(a) PROVE Limiter' /\ Forgets
  BY <1>5, RecordedStep DEF OtherRejected
<1>6. CASE UNCHANGED <<hits, tried>>
  BY <1>6, UnlimitedStep
<1>7. CASE Restart
  BY <1>7, RestartLimiter
<1>8. CASE Tick
  BY <1>8, TickLimiter
<1>9. ASSUME NEW d \in Devices, NEW k \in Calls, Resume(d, k) \/ AskForCode(d, k)
      PROVE  UNCHANGED <<hits, tried>>
  BY <1>9 DEF Resume, AskForCode, server
<1>10. ASSUME NEW d \in Devices, Learner(d) \/ ShowHome(d)
       PROVE  UNCHANGED <<hits, tried>>
  BY <1>10 DEF Learner, ShowHome, OpenPage, ClosePage, ClearData, PressSwap, PressEnrol, PressHome, server
<1>11. ASSUME NEW d \in Devices, NEW k \in Calls, Browser(d, k) \/ NetworkFails(d, k)
       PROVE  UNCHANGED <<hits, tried>>
  BY <1>11 DEF Browser, NetworkFails, TryApi, ReadIdentity, GenerateKey, StoreIdentity, Refused,
               TakeToken, SaveToken, SaveCode, server
<1>12. CASE UNCHANGED vars
  BY <1>6, <1>12 DEF vars, server
<1> QED BY <1>2, <1>3, <1>4, <1>5, <1>6, <1>7, <1>8, <1>9, <1>10, <1>11, <1>12 DEF Next, Route
-----------------------------------------------------------------------------
(***************************************************************************)
(* The pages, their calls and their tokens.                                *)
(***************************************************************************)
PageTypes ==
  /\ boot \in 0..MaxRestarts
  /\ registered \in [Codes -> Keys \cup {None}]
  /\ idb \in [Devices -> Identity]
  /\ minted \in [Devices -> 0..MaxGen]
  /\ page \in [Devices -> Page]
  /\ call \in [Devices -> [Calls -> Call]]
  /\ cards \subseteq Keys /\ wiped \subseteq Keys

LEMMA TypesOfBoth == Limiter /\ PageTypes <=> TypeOK /\ Limiter
<1>1. Limiter => hits \in [Addresses -> Ages]
  <2> SUFFICES ASSUME Limiter PROVE hits \in [Addresses -> Ages]
    OBVIOUS
  <2>1. \A a \in Addresses : hits[a] \in UNION {[1..n -> 0..Window] : n \in 0..Limit}
    <3> SUFFICES ASSUME NEW a \in Addresses
                 PROVE  hits[a] \in UNION {[1..n -> 0..Window] : n \in 0..Limit}
      OBVIOUS
    <3>1. hits[a] \in Entries /\ Len(hits[a]) \in 0..Limit
      BY EntryFacts, LimiterAssumption
    <3>2. hits[a] \in [1..Len(hits[a]) -> 0..Window]
      BY <3>1, LenProperties DEF Entries
    <3> QED BY <3>1, <3>2
  <2> QED BY <2>1 DEF Limiter, Table, Ages
<1>2. Limiter => tried \in [Addresses -> Seq(0..Window)]
  <2> SUFFICES ASSUME Limiter PROVE tried \in [Addresses -> Seq(0..Window)]
    OBVIOUS
  <2>1. \A a \in Addresses : Fresh(hits[a]) \in Seq(0..Window)
    BY EntryFacts DEF Entries
  <2> QED BY <2>1 DEF Limiter
<1> QED BY <1>1, <1>2 DEF PageTypes, TypeOK

LEMMA TypesOfBothNext == Limiter' /\ PageTypes' => TypeOK'
<1>1. Limiter /\ PageTypes => TypeOK
  BY TypesOfBoth
<1> QED BY <1>1, PTL

\* A call with some of its fields set.
LEMMA CallFields ==
  ASSUME NEW c \in Call
  PROVE  /\ c.pc \in {"idle", "try", "open", "mint", "post", "answered", "saveToken", "saveCode"}
         /\ c.why \in {"boot", "enrol", "api"} /\ c.use \in Typed /\ c.key \in 0..MaxGen
         /\ c.token \in Token \cup {None} /\ c.status \in {200, 403, 429}
BY DEF Call

LEMMA CallAt ==
  ASSUME NEW c \in Call, NEW pc \in {"mint", "post", "answered", "saveToken", "saveCode"}
  PROVE  /\ [c EXCEPT !.pc = pc] \in Call
         /\ [c EXCEPT !.pc = pc].pc = pc
         /\ [c EXCEPT !.pc = pc].why = c.why /\ [c EXCEPT !.pc = pc].use = c.use
         /\ [c EXCEPT !.pc = pc].key = c.key /\ [c EXCEPT !.pc = pc].token = c.token
         /\ [c EXCEPT !.pc = pc].status = c.status
BY DEF Call

LEMMA CallWithKey ==
  ASSUME NEW c \in Call, NEW key \in 0..MaxGen
  PROVE  /\ [c EXCEPT !.key = key] \in Call /\ [c EXCEPT !.key = key].key = key
         /\ [c EXCEPT !.key = key].pc = c.pc /\ [c EXCEPT !.key = key].why = c.why
         /\ [c EXCEPT !.key = key].use = c.use /\ [c EXCEPT !.key = key].token = c.token
         /\ [c EXCEPT !.key = key].status = c.status
BY DEF Call

LEMMA CallWithUse ==
  ASSUME NEW c \in Call, NEW use \in Typed
  PROVE  /\ [c EXCEPT !.use = use] \in Call /\ [c EXCEPT !.use = use].use = use
         /\ [c EXCEPT !.use = use].pc = c.pc /\ [c EXCEPT !.use = use].why = c.why
         /\ [c EXCEPT !.use = use].key = c.key /\ [c EXCEPT !.use = use].token = c.token
         /\ [c EXCEPT !.use = use].status = c.status
BY DEF Call

LEMMA CallWithToken ==
  ASSUME NEW c \in Call, NEW token \in Token \cup {None}
  PROVE  /\ [c EXCEPT !.token = token] \in Call /\ [c EXCEPT !.token = token].token = token
         /\ [c EXCEPT !.token = token].pc = c.pc /\ [c EXCEPT !.token = token].why = c.why
         /\ [c EXCEPT !.token = token].use = c.use /\ [c EXCEPT !.token = token].key = c.key
         /\ [c EXCEPT !.token = token].status = c.status
BY DEF Call

Statuses == {200, 403, 429}

LEMMA CallWithStatus ==
  ASSUME NEW c \in Call, NEW status \in Statuses
  PROVE  /\ [c EXCEPT !.status = status] \in Call /\ [c EXCEPT !.status = status].status = status
         /\ [c EXCEPT !.status = status].pc = c.pc /\ [c EXCEPT !.status = status].why = c.why
         /\ [c EXCEPT !.status = status].use = c.use /\ [c EXCEPT !.status = status].key = c.key
         /\ [c EXCEPT !.status = status].token = c.token
BY DEF Call, Statuses

LEMMA Values ==
  /\ Idle \in Call /\ Closed \in Page /\ Empty \in Identity
  /\ \A why \in {"boot", "enrol", "api"}, typed \in Typed : Opening(why, typed) \in Call
  /\ [Idle EXCEPT !.pc = "try"] \in Call
<1> DEFINE N == 0..MaxGen
<1>1. 0 \in N
  BY CountsAssumption
<1> HIDE DEF N
<1>2. Idle \in Call
  BY <1>1 DEF Idle, Call, Typed, N
<1>3. Closed \in Page /\ Empty \in Identity
  BY <1>1 DEF Closed, Page, Empty, Identity, Typed, N
<1>4. ASSUME NEW why \in {"boot", "enrol", "api"}, NEW typed \in Typed
      PROVE  Opening(why, typed) \in Call
  BY <1>1 DEF Opening, Idle, Call, Typed, N
<1>5. [Idle EXCEPT !.pc = "try"] \in Call
  BY <1>1 DEF Idle, Call, Typed, N
<1> QED BY <1>2, <1>3, <1>4, <1>5

\* One call of one page takes a step.
LEMMA CallChanges ==
  ASSUME call \in [Devices -> [Calls -> Call]], NEW d \in Devices, NEW k \in Calls,
         NEW c \in Call, Becomes(d, k, c)
  PROVE  /\ call' \in [Devices -> [Calls -> Call]]
         /\ call'[d][k] = c
         /\ \A j \in Calls \ {k} : call'[d][j] = call[d][j]
         /\ \A e \in Devices \ {d} : call'[e] = call[e]
BY DEF Becomes

\* A step of device d leaves the others alone.
Only(d) ==
  \A e \in Devices \ {d} : page'[e] = page[e] /\ idb'[e] = idb[e] /\ call'[e] = call[e]

\* Tokens move between the page, its calls and IndexedDB; none is made up.
KeepsTokens(d) ==
  /\ TokensAt(d)' \subseteq TokensAt(d) \cup {None}
  /\ idb'[d].key = idb[d].key

LEMMA TokensAreTokens ==
  ASSUME PageTypes, NEW d \in Devices
  PROVE  TokensAt(d) \subseteq Token \cup {None}
BY DEF TokensAt, PageTypes, Identity, Page, Call

\* With the code's registration as it was, the invariants are the device's own.
LEMMA LocalStep ==
  ASSUME IInv, NEW d \in Devices, Only(d), PageInv(d)', KeepsTokens(d),
         UNCHANGED <<boot, registered>>
  PROVE  /\ \A e \in Devices : PageInv(e)' /\ TokenInv(e)'
         /\ Live => Live'
<1>1. \A e \in Devices : PageInv(e)'
  <2> SUFFICES ASSUME NEW e \in Devices, e # d PROVE PageInv(e)'
    OBVIOUS
  <2>1. PageInv(e) /\ page'[e] = page[e] /\ idb'[e] = idb[e] /\ call'[e] = call[e]
    BY DEF IInv, Only
  <2> QED BY <2>1 DEF PageInv, Quiet, At
<1>2. \A e \in Devices : TokensAt(e)' \subseteq TokensAt(e) \cup {None}
                         /\ idb'[e].key = idb[e].key
  BY DEF KeepsTokens, Only, TokensAt
<1>3. \A e \in Devices : TokenInv(e)'
  <2> SUFFICES ASSUME NEW e \in Devices PROVE TokenInv(e)'
    OBVIOUS
  <2>1. TokenInv(e)
    BY DEF IInv
  <2> QED BY <1>2, <2>1 DEF TokenInv
<1>4. Live => Live'
  BY <1>2 DEF Live, Valid
<1> QED BY <1>1, <1>3, <1>4

LEMMA OneCall ==
  ASSUME PageTypes, NEW d \in Devices, NEW k \in Calls, NEW c \in Call, Becomes(d, k, c),
         {c.token, page'[d].token, idb'[d].token} \subseteq TokensAt(d) \cup {None},
         idb'[d].key = idb[d].key
  PROVE  KeepsTokens(d)
<1>1. call'[d][k] = c /\ \A j \in Calls \ {k} : call'[d][j] = call[d][j]
  BY CallChanges DEF PageTypes
<1> QED BY <1>1 DEF KeepsTokens, TokensAt

\* What each step of device d but storing a key and clearing its data keeps.
OwnStep(d) == PageTypes' /\ Only(d) /\ PageInv(d)' /\ KeepsTokens(d)

LEMMA OpenPageStep ==
  ASSUME IInv, NEW d \in Devices, OpenPage(d)
  PROVE  OwnStep(d)
<1> DEFINE c == Opening("boot", None)
<1>0. PageTypes /\ PageInv(d)
  BY TypesOfBoth DEF IInv
<1>1. PICK k \in Calls : Becomes(d, k, c)
  BY DEF OpenPage
<1>2. c \in Call /\ c.token = None /\ c.pc = "open"
  BY Values DEF Opening, Idle, Typed
<1> HIDE DEF c
<1>3. /\ call' \in [Devices -> [Calls -> Call]] /\ call'[d][k] = c
      /\ \A j \in Calls \ {k} : call'[d][j] = call[d][j]
      /\ \A e \in Devices \ {d} : call'[e] = call[e]
  BY <1>0, <1>1, <1>2, CallChanges DEF PageTypes
<1>4. /\ page' = [page EXCEPT ![d].screen = "boot"] /\ page[d].screen = "closed"
      /\ UNCHANGED <<boot, registered, idb, minted, cards, wiped>>
  BY DEF OpenPage, server
<1>5. PageTypes'
  BY <1>0, <1>3, <1>4 DEF PageTypes, Page
<1>6. page'[d].screen = "boot" /\ page'[d].token = page[d].token /\ page'[d].loading = page[d].loading
  BY <1>0, <1>4 DEF PageTypes, Page
<1>7. PageInv(d)'
  BY <1>0, <1>2, <1>3, <1>4, <1>6 DEF PageInv, Quiet, At
<1>8. KeepsTokens(d)
  <2>1. {c.token, page'[d].token, idb'[d].token} \subseteq TokensAt(d) \cup {None}
    BY <1>2, <1>4, <1>6 DEF TokensAt
  <2> QED BY <1>0, <1>1, <1>2, <1>4, <2>1, OneCall
<1>9. Only(d)
  BY <1>0, <1>3, <1>4 DEF Only, PageTypes
<1> QED BY <1>5, <1>7, <1>8, <1>9 DEF OwnStep

LEMMA ClosePageStep ==
  ASSUME IInv, NEW d \in Devices, ClosePage(d)
  PROVE  OwnStep(d)
<1>0. PageTypes /\ PageInv(d)
  BY TypesOfBoth DEF IInv
<1>1. /\ page' = [page EXCEPT ![d] = Closed]
      /\ call' = [call EXCEPT ![d] = [k \in Calls |-> Idle]]
      /\ UNCHANGED <<boot, registered, idb, minted, cards, wiped>>
  BY DEF ClosePage, server
<1>2. /\ page'[d] = Closed /\ call'[d] = [k \in Calls |-> Idle]
      /\ \A e \in Devices \ {d} : page'[e] = page[e] /\ call'[e] = call[e]
  BY <1>0, <1>1 DEF PageTypes
<1>3. PageTypes'
  BY <1>0, <1>1, Values DEF PageTypes
<1>4. PageInv(d)'
  BY <1>0, <1>1, <1>2 DEF PageInv, Quiet, At, Closed, Idle
<1>5. KeepsTokens(d)
  BY <1>1, <1>2 DEF KeepsTokens, TokensAt, Closed, Idle
<1> QED BY <1>1, <1>2, <1>3, <1>4, <1>5 DEF OwnStep, Only

LEMMA ShowHomeStep ==
  ASSUME IInv, NEW d \in Devices, ShowHome(d)
  PROVE  OwnStep(d)
<1>0. PageTypes /\ PageInv(d)
  BY TypesOfBoth DEF IInv
<1>1. /\ page' = [page EXCEPT ![d].screen = "home", ![d].loading = FALSE] /\ page[d].loading
      /\ UNCHANGED <<boot, registered, idb, minted, call, cards, wiped>>
  BY DEF ShowHome, server
<1>2. /\ page'[d].screen = "home" /\ page'[d].loading = FALSE /\ page'[d].token = page[d].token
      /\ \A e \in Devices \ {d} : page'[e] = page[e]
  BY <1>0, <1>1 DEF PageTypes, Page
<1>3. PageTypes'
  BY <1>0, <1>1 DEF PageTypes, Page
<1>4. PageInv(d)'
  BY <1>0, <1>1, <1>2 DEF PageInv, Quiet, At
<1>5. KeepsTokens(d)
  BY <1>1, <1>2 DEF KeepsTokens, TokensAt
<1> QED BY <1>1, <1>2, <1>3, <1>4, <1>5 DEF OwnStep, Only

LEMMA PressSwapStep ==
  ASSUME IInv, NEW d \in Devices, PressSwap(d)
  PROVE  OwnStep(d)
<1>0. PageTypes /\ PageInv(d) /\ TokenInv(d)
  BY TypesOfBoth DEF IInv
<1>1. /\ cards' = cards \cup {registered[page[d].token.code]} /\ Valid(page[d].token)
      /\ UNCHANGED <<boot, registered, idb, minted, page, call, wiped>>
  BY DEF PressSwap, SealedTo, server
<1>2. registered[page[d].token.code] \in Keys
  <2>1. page[d].token \in TokensAt(d) /\ page[d].token # None
    BY <1>1 DEF TokensAt, Valid
  <2>2. page[d].token \in Token
    BY <1>0, <2>1, TokensAreTokens
  <2> QED BY <1>0, <2>1, <2>2 DEF TokenInv, Token, PageTypes
<1>3. PageTypes'
  BY <1>0, <1>1, <1>2 DEF PageTypes
<1>4. PageInv(d)'
  BY <1>0, <1>1 DEF PageInv, Quiet, At
<1>5. KeepsTokens(d)
  BY <1>1 DEF KeepsTokens, TokensAt
<1> QED BY <1>1, <1>3, <1>4, <1>5 DEF OwnStep, Only

\* A step of one call, with the page and IndexedDB as they were.
Fits(d, k, c) ==
  /\ page[d].screen # "closed" \/ c.pc = "idle"
  /\ c.pc = "idle" => c.token = None
  /\ c.pc = "mint" => idb[d].key = 0 /\ c.key # 0
  /\ c.pc \in {"post", "answered", "saveToken", "saveCode"} => idb[d].key # 0 /\ c.key = idb[d].key
  /\ idb[d].key = 0 => c.pc \in {"idle", "open", "mint"} /\ ~At(d, k, "idle")

LEMMA CallOnly ==
  ASSUME IInv, NEW d \in Devices, NEW k \in Calls, NEW c \in Call,
         Becomes(d, k, c), Fits(d, k, c), UNCHANGED <<page, idb>>
  PROVE  /\ call' \in [Devices -> [Calls -> Call]]
         /\ PageInv(d)' /\ Only(d)
         /\ c.token \in TokensAt(d) \cup {None} => KeepsTokens(d)
<1>0. PageTypes /\ PageInv(d)
  BY TypesOfBoth DEF IInv
<1>1. /\ call' \in [Devices -> [Calls -> Call]] /\ call'[d][k] = c
      /\ \A j \in Calls \ {k} : call'[d][j] = call[d][j]
      /\ \A e \in Devices \ {d} : call'[e] = call[e]
  BY <1>0, CallChanges DEF PageTypes
<1>2. PageInv(d)'
  <2>1. page[d].screen = "closed" => \A j \in Calls : call'[d][j].pc = "idle"
    BY <1>0, <1>1 DEF Fits, PageInv, Quiet, At
  <2>2. idb[d].key = 0 =>
          /\ \A i, j \in Calls : call'[d][i].pc # "idle" /\ call'[d][j].pc # "idle" => i = j
          /\ \A j \in Calls : call'[d][j].pc \in {"idle", "open", "mint"}
    BY <1>0, <1>1 DEF Fits, PageInv, At
  <2>3. \A j \in Calls :
          /\ call'[d][j].pc = "idle" => call'[d][j].token = None
          /\ call'[d][j].pc = "mint" => idb[d].key = 0 /\ call'[d][j].key # 0
          /\ call'[d][j].pc \in {"post", "answered", "saveToken", "saveCode"} =>
               call'[d][j].key = idb[d].key
    BY <1>0, <1>1 DEF Fits, PageInv, At
  <2> QED BY <1>0, <2>1, <2>2, <2>3 DEF PageInv, Quiet, At
<1>3. Only(d)
  BY <1>1 DEF Only
<1>4. c.token \in TokensAt(d) \cup {None} => KeepsTokens(d)
  BY <1>0, <1>1 DEF KeepsTokens, TokensAt
<1> QED BY <1>1, <1>2, <1>3, <1>4

LEMMA PressEnrolStep ==
  ASSUME IInv, NEW d \in Devices, NEW code \in Codes \cup {Wrong}, PressEnrol(d, code)
  PROVE  OwnStep(d)
<1> DEFINE c == Opening("enrol", code)
<1>0. PageTypes /\ PageInv(d)
  BY TypesOfBoth DEF IInv
<1>1. PICK k \in Calls : Becomes(d, k, c)
  BY DEF PressEnrol
<1>2. c \in Call /\ c.token = None /\ c.pc = "open"
  BY Values DEF Opening, Idle, Typed
<1>3. page[d].screen = "enrol" /\ UNCHANGED <<boot, registered, idb, minted, page, cards, wiped>>
  BY DEF PressEnrol, server
<1>4. Fits(d, k, c)
  BY <1>0, <1>2, <1>3 DEF Fits, PageInv
<1> HIDE DEF c
<1> QED BY <1>0, <1>1, <1>2, <1>3, <1>4, CallOnly DEF OwnStep, PageTypes

LEMMA PressHomeStep ==
  ASSUME IInv, NEW d \in Devices, NEW k \in Calls, PressHome(d, k)
  PROVE  OwnStep(d)
<1> DEFINE c == [Idle EXCEPT !.pc = "try"]
<1>0. PageTypes /\ PageInv(d)
  BY TypesOfBoth DEF IInv
<1>1. Becomes(d, k, c)
  BY DEF PressHome
<1>2. c \in Call /\ c.token = None /\ c.pc = "try"
  BY Values DEF Idle
<1>3. page[d].screen = "home" /\ UNCHANGED <<boot, registered, idb, minted, page, cards, wiped>>
  BY DEF PressHome, server
<1>4. Fits(d, k, c)
  BY <1>0, <1>2, <1>3 DEF Fits, PageInv
<1> HIDE DEF c
<1> QED BY <1>0, <1>1, <1>2, <1>3, <1>4, CallOnly DEF OwnStep, PageTypes

LEMMA TryApiStep ==
  ASSUME IInv, NEW d \in Devices, NEW k \in Calls, TryApi(d, k)
  PROVE  OwnStep(d)
<1> DEFINE c == IF Valid(page[d].token) THEN Idle ELSE Opening("api", None)
<1>0. PageTypes /\ PageInv(d)
  BY TypesOfBoth DEF IInv
<1>1. Becomes(d, k, c) /\ At(d, k, "try")
  BY DEF TryApi
<1>2. c \in Call /\ c.token = None /\ c.pc \in {"idle", "open"}
  BY Values DEF Opening, Idle, Typed
<1>3. UNCHANGED <<boot, registered, idb, minted, page, cards, wiped>>
  BY DEF TryApi, server
<1> HIDE DEF c
<1>4. Fits(d, k, c)
  BY <1>0, <1>1, <1>2 DEF Fits, PageInv, Quiet, At
<1> QED BY <1>0, <1>1, <1>2, <1>3, <1>4, CallOnly DEF OwnStep, PageTypes

LEMMA ReadIdentityStep ==
  ASSUME IInv, NEW d \in Devices, NEW k \in Calls, ReadIdentity(d, k)
  PROVE  OwnStep(d)
<1> DEFINE c == Posting(d, k)
<1>0. PageTypes /\ PageInv(d)
  BY TypesOfBoth DEF IInv
<1>1. Becomes(d, k, c) /\ At(d, k, "open") /\ idb[d].key # 0
  BY DEF ReadIdentity, HasKey
<1>2. c \in Call /\ c.token \in {None, idb[d].token} /\ c.pc = "post" /\ c.key = idb[d].key
  <2>1. call[d][k] \in Call /\ idb[d] \in Identity
    BY <1>0 DEF PageTypes
  <2>2. /\ idb[d].key \in 0..MaxGen /\ idb[d].token \in Token \cup {None}
        /\ idb[d].code \in Typed /\ call[d][k].use \in Typed
    BY <2>1 DEF Identity, Call
  <2>3. None \in Token \cup {None}
    OBVIOUS
  <2> DEFINE c1 == [call[d][k] EXCEPT !.pc = "post"]
             c2 == [c1 EXCEPT !.key = idb[d].key]
             use == IF c2.use # None THEN c2.use ELSE idb[d].code
             c3 == [c2 EXCEPT !.use = use]
             token == IF call[d][k].why = "boot" THEN idb[d].token ELSE None
  <2>4. c1 \in Call /\ c1.pc = "post" /\ c1.use = call[d][k].use
    BY <2>1, CallAt
  <2>5. c = [c3 EXCEPT !.token = token]
    BY DEF Posting
  <2> HIDE DEF c, c1
  <2>6. c2 \in Call /\ c2.key = idb[d].key /\ c2.pc = "post" /\ c2.use = call[d][k].use
    BY <2>2, <2>4, CallWithKey
  <2> HIDE DEF c2
  <2>7. use \in Typed
    BY <2>2, <2>6
  <2> HIDE DEF use
  <2>8. c3 \in Call /\ c3.key = idb[d].key /\ c3.pc = "post"
    BY <2>6, <2>7, CallWithUse
  <2> HIDE DEF c3
  <2>9. token \in Token \cup {None} /\ token \in {None, idb[d].token}
    BY <2>2
  <2> HIDE DEF token
  <2>10. c \in Call
    BY <2>5, <2>8, <2>9, CallWithToken
  <2> QED BY <2>5, <2>8, <2>9, <2>10, CallWithToken
<1>3. UNCHANGED <<boot, registered, idb, minted, page, cards, wiped>>
  BY DEF ReadIdentity, server
<1> HIDE DEF c
<1>4. Fits(d, k, c)
  BY <1>0, <1>1, <1>2 DEF Fits, PageInv, Quiet, At
<1>5. c.token \in TokensAt(d) \cup {None}
  BY <1>2 DEF TokensAt
<1> QED BY <1>0, <1>1, <1>2, <1>3, <1>4, <1>5, CallOnly DEF OwnStep, PageTypes

LEMMA GenerateKeyStep ==
  ASSUME IInv, NEW d \in Devices, NEW k \in Calls, GenerateKey(d, k)
  PROVE  OwnStep(d)
<1> DEFINE c == [call[d][k] EXCEPT !.pc = "mint", !.key = minted[d] + 1]
<1>0. PageTypes /\ PageInv(d)
  BY TypesOfBoth DEF IInv
<1>1. /\ Becomes(d, k, c) /\ At(d, k, "open") /\ idb[d].key = 0
      /\ minted[d] < MaxGen /\ minted' = [minted EXCEPT ![d] = minted[d] + 1]
  BY DEF GenerateKey, HasKey
<1>2. minted[d] \in 0..MaxGen /\ minted[d] + 1 \in 0..MaxGen /\ minted[d] + 1 # 0
  BY <1>0, <1>1, CountsAssumption DEF PageTypes
<1>3. /\ c \in Call /\ c.token \in TokensAt(d) /\ c.pc = "mint" /\ c.key = minted[d] + 1
      /\ c.key # 0
  <2>1. call[d][k] \in Call
    BY <1>0 DEF PageTypes
  <2> DEFINE c1 == [call[d][k] EXCEPT !.pc = "mint"]
  <2>2. c1 \in Call /\ c1.pc = "mint" /\ c1.token = call[d][k].token
    BY <2>1, CallAt
  <2>3. c = [c1 EXCEPT !.key = minted[d] + 1]
    OBVIOUS
  <2> HIDE DEF c, c1
  <2>4. c \in Call
    BY <1>2, <2>2, <2>3, CallWithKey
  <2>5. c.key = minted[d] + 1 /\ c.pc = "mint" /\ c.token = call[d][k].token
    BY <1>2, <2>2, <2>3, CallWithKey
  <2> QED BY <1>2, <2>4, <2>5 DEF TokensAt
<1>4. UNCHANGED <<boot, registered, idb, page, cards, wiped>>
  BY DEF GenerateKey, server
<1> HIDE DEF c
<1>5. Fits(d, k, c)
  BY <1>0, <1>1, <1>3 DEF Fits, PageInv, Quiet, At
<1>6. minted' \in [Devices -> 0..MaxGen]
  BY <1>0, <1>1, <1>2 DEF PageTypes
<1> QED BY <1>0, <1>1, <1>3, <1>4, <1>5, <1>6, CallOnly DEF OwnStep, PageTypes

\* An answer of the session route, whatever else it changes.
LEMMA AnswerStep ==
  ASSUME IInv, NEW d \in Devices, NEW k \in Calls, At(d, k, "post"),
         NEW status \in {200, 403, 429}, NEW token \in Token \cup {None},
         Answer(d, k, status, token), UNCHANGED client
  PROVE  /\ call' \in [Devices -> [Calls -> Call]] /\ PageInv(d)' /\ Only(d)
         /\ token \in TokensAt(d) \cup {None} => KeepsTokens(d)
         /\ TokensAt(d)' \subseteq TokensAt(d) \cup {token} /\ token \in TokensAt(d)'
         /\ idb[d].key # 0 /\ call[d][k].key = idb[d].key
<1> DEFINE c == [call[d][k] EXCEPT !.pc = "answered", !.status = status, !.token = token]
<1>0. PageTypes /\ PageInv(d)
  BY TypesOfBoth DEF IInv
<1>1. Becomes(d, k, c) /\ UNCHANGED <<page, idb>>
  BY DEF Answer, client
<1>2. /\ c \in Call /\ c.token = token /\ c.pc = "answered" /\ c.key = call[d][k].key
  <2>1. call[d][k] \in Call
    BY <1>0 DEF PageTypes
  <2> DEFINE c1 == [call[d][k] EXCEPT !.pc = "answered"]
             c2 == [c1 EXCEPT !.status = status]
  <2>2. c1 \in Call /\ c1.pc = "answered" /\ c1.key = call[d][k].key
    BY <2>1, CallAt
  <2>3. c = [c2 EXCEPT !.token = token]
    OBVIOUS
  <2> HIDE DEF c, c1
  <2>a. c2 \in Call /\ c2.pc = c1.pc /\ c2.key = c1.key
    <3>1. status \in Statuses
      BY DEF Statuses
    <3> QED BY <2>2, <3>1, CallWithStatus
  <2>4. c2 \in Call /\ c2.pc = "answered" /\ c2.key = call[d][k].key
    BY <2>2, <2>a
  <2> HIDE DEF c2
  <2>5. c \in Call
    BY <2>3, <2>4, CallWithToken
  <2> QED BY <2>3, <2>4, <2>5, CallWithToken
<1> HIDE DEF c
<1>3. idb[d].key # 0 /\ call[d][k].key = idb[d].key
  BY <1>0 DEF PageInv, At
<1>4. Fits(d, k, c)
  BY <1>0, <1>2, <1>3 DEF Fits, PageInv, Quiet, At
<1>5. TokensAt(d)' \subseteq TokensAt(d) \cup {token} /\ token \in TokensAt(d)'
  <2>1. call'[d][k] = c /\ \A j \in Calls \ {k} : call'[d][j] = call[d][j]
    BY <1>0, <1>1, <1>2, CallChanges DEF PageTypes
  <2> QED BY <1>1, <1>2, <2>1 DEF TokensAt
<1> QED BY <1>1, <1>2, <1>3, <1>4, <1>5, CallOnly

LEMMA QuietAnswers ==
  ASSUME IInv, NEW d \in Devices, NEW k \in Calls,
         Resume(d, k) \/ AskForCode(d, k) \/ Throttle(d, k) \/ Reject(d, k)
  PROVE  OwnStep(d) /\ UNCHANGED <<boot, registered, idb, cards, wiped>>
<1>0. PageTypes
  BY TypesOfBoth DEF IInv
<1>1. /\ At(d, k, "post")
      /\ UNCHANGED <<boot, registered, idb, minted, page, cards, wiped>> /\ UNCHANGED client
      /\ \E status \in {200, 403, 429}, token \in {None, call[d][k].token} : Answer(d, k, status, token)
  BY DEF Resume, AskForCode, Throttle, Reject, Unenrolled, server, client
<1>2. PICK status \in {200, 403, 429}, token \in {None, call[d][k].token} : Answer(d, k, status, token)
  BY <1>1
<1>3. token \in Token \cup {None} /\ token \in TokensAt(d) \cup {None}
  BY <1>0 DEF PageTypes, Call, TokensAt
<1> QED BY <1>0, <1>1, <1>2, <1>3, AnswerStep DEF OwnStep, PageTypes

Screens == {"closed", "boot", "enrol", "home", "error"}

\* A call under way at a step later than the key's: the browser has its key.
LEMMA HasItsKey ==
  ASSUME IInv, NEW d \in Devices, NEW k \in Calls,
         call[d][k].pc \in {"try", "post", "answered", "saveToken", "saveCode"}
  PROVE  idb[d].key # 0 /\ page[d].screen # "closed"
<1>1. PageInv(d)
  BY DEF IInv
<1> QED BY <1>1 DEF PageInv, Quiet, At

\* PageInv(d)' of a browser that has its key.
LEMMA KeyedPage ==
  ASSUME IInv, NEW d \in Devices, idb[d].key # 0, page[d].screen # "closed",
         page'[d].screen # "closed", idb'[d].key = idb[d].key,
         \A j \in Calls : \/ call'[d][j].pc \in {"idle", "try"} /\ call'[d][j].token = None
                          \/ call'[d][j] = call[d][j]
                          \/ /\ call[d][j].pc \in {"post", "answered", "saveToken", "saveCode"}
                             /\ call'[d][j].pc \notin {"idle", "mint"} /\ call'[d][j].key = call[d][j].key
  PROVE  PageInv(d)'
<1>1. PageInv(d)
  BY DEF IInv
<1> QED BY <1>1 DEF PageInv, Quiet, At

LEMMA FailedStep ==
  ASSUME IInv, NEW d \in Devices, NEW k \in Calls, NEW why, NEW status,
         idb[d].key # 0, page[d].screen # "closed",
         Becomes(d, k, Idle), Failed(d, why, status),
         UNCHANGED <<server, idb, minted, cards, wiped>>
  PROVE  OwnStep(d)
<1> DEFINE n == CASE why = "boot" /\ status = 403 -> "enrol"
                  [] page[d].screen = "boot" /\ ~(why = "boot" /\ status = 403) -> "error"
                  [] OTHER -> page[d].screen
<1>0. PageTypes /\ page[d] \in Page
  BY TypesOfBoth DEF IInv, PageTypes
<1>1. n \in Screens /\ n # "closed"
  <2>1. page[d].screen \in Screens
    BY <1>0 DEF Page, Screens
  <2>2. CASE why = "boot" /\ status = 403
    BY <2>2 DEF Screens
  <2>3. CASE ~(why = "boot" /\ status = 403) /\ page[d].screen = "boot"
    BY <2>3 DEF Screens
  <2>4. CASE ~(why = "boot" /\ status = 403) /\ page[d].screen # "boot"
    BY <2>1, <2>4
  <2> QED BY <2>2, <2>3, <2>4
<1>2. page' = [page EXCEPT ![d].loading = FALSE, ![d].screen = n]
  BY <1>0 DEF Failed, PageTypes, Page
<1> HIDE DEF n
<1>3. page' \in [Devices -> Page]
  BY <1>0, <1>1, <1>2 DEF PageTypes, Page, Screens
<1>4. /\ page'[d].screen = n /\ page'[d].token = page[d].token
      /\ \A e \in Devices \ {d} : page'[e] = page[e]
  BY <1>0, <1>2 DEF PageTypes, Page
<1>5. /\ call' \in [Devices -> [Calls -> Call]] /\ call'[d][k] = Idle
      /\ \A j \in Calls \ {k} : call'[d][j] = call[d][j]
      /\ \A e \in Devices \ {d} : call'[e] = call[e]
  BY <1>0, Values, CallChanges DEF PageTypes
<1>6. UNCHANGED <<boot, registered, idb, minted, cards, wiped>>
  BY DEF server
<1>7. PageTypes'
  BY <1>0, <1>3, <1>5, <1>6 DEF PageTypes
<1>8. PageInv(d)'
  BY <1>1, <1>4, <1>5, <1>6, KeyedPage DEF Idle
<1>9. KeepsTokens(d)
  <2>1. Idle \in Call /\ Idle.token = None
    BY Values DEF Idle
  <2>2. {Idle.token, page'[d].token, idb'[d].token} \subseteq TokensAt(d) \cup {None}
    BY <1>4, <1>6, <2>1 DEF TokensAt
  <2> QED BY <1>0, <1>6, <2>1, <2>2, OneCall
<1> QED BY <1>4, <1>5, <1>6, <1>7, <1>8, <1>9 DEF OwnStep, Only

LEMMA RefusedStep ==
  ASSUME IInv, NEW d \in Devices, NEW k \in Calls, Refused(d, k) \/ NetworkFails(d, k)
  PROVE  OwnStep(d)
<1>1. CASE Refused(d, k)
  <2>1. idb[d].key # 0 /\ page[d].screen # "closed"
    BY <1>1, HasItsKey DEF Refused, At
  <2> QED BY <1>1, <2>1, FailedStep DEF Refused
<1>2. CASE NetworkFails(d, k)
  <2>1. idb[d].key # 0 /\ page[d].screen # "closed"
    BY <1>2, HasItsKey DEF NetworkFails
  <2> QED BY <1>2, <2>1, FailedStep DEF NetworkFails
<1> QED BY <1>1, <1>2

LEMMA TakeTokenStep ==
  ASSUME IInv, NEW d \in Devices, NEW k \in Calls, TakeToken(d, k)
  PROVE  OwnStep(d)
<1> DEFINE c1 == [call[d][k] EXCEPT !.pc = "saveToken"]
           c == [c1 EXCEPT !.status = 200]
<1>0. PageTypes /\ page[d] \in Page /\ call[d][k] \in Call
  BY TypesOfBoth DEF IInv, PageTypes
<1>1. /\ At(d, k, "answered") /\ Becomes(d, k, c)
      /\ page' = [page EXCEPT ![d].token = call[d][k].token]
      /\ UNCHANGED <<boot, registered, idb, minted, cards, wiped>>
  BY DEF TakeToken, server
<1>2. c1 \in Call /\ c1.pc = "saveToken" /\ c1.key = call[d][k].key /\ c1.token = call[d][k].token
  BY <1>0, CallAt
<1> HIDE DEF c1
<1>3. c \in Call /\ c.pc = "saveToken" /\ c.key = call[d][k].key /\ c.token = call[d][k].token
  <2>1. 200 \in Statuses
    BY DEF Statuses
  <2> QED BY <1>2, <2>1, CallWithStatus
<1> HIDE DEF c
<1>4. call[d][k].token \in Token \cup {None}
  BY <1>0, CallFields
<1>5. /\ page' \in [Devices -> Page] /\ page'[d].screen = page[d].screen
      /\ page'[d].token = call[d][k].token
      /\ \A e \in Devices \ {d} : page'[e] = page[e]
  BY <1>0, <1>1, <1>4 DEF PageTypes, Page
<1>6. /\ call' \in [Devices -> [Calls -> Call]] /\ call'[d][k] = c
      /\ \A j \in Calls \ {k} : call'[d][j] = call[d][j]
      /\ \A e \in Devices \ {d} : call'[e] = call[e]
  BY <1>0, <1>1, <1>3, CallChanges DEF PageTypes
<1>7. idb[d].key # 0 /\ page[d].screen # "closed"
  BY <1>1, HasItsKey DEF At
<1>8. PageInv(d)'
  BY <1>1, <1>3, <1>5, <1>6, <1>7, KeyedPage DEF At
<1>9. KeepsTokens(d)
  <2>1. {c.token, page'[d].token, idb'[d].token} \subseteq TokensAt(d) \cup {None}
    BY <1>1, <1>3, <1>5 DEF TokensAt
  <2> QED BY <1>0, <1>1, <1>3, <2>1, OneCall
<1>10. PageTypes'
  BY <1>0, <1>1, <1>5, <1>6 DEF PageTypes
<1> QED BY <1>1, <1>5, <1>6, <1>8, <1>9, <1>10 DEF OwnStep, Only

\* A session is open, and what it needed is in IndexedDB.
LEMMA OpenedStep ==
  ASSUME IInv, NEW d \in Devices, NEW k \in Calls, idb[d].key # 0, page[d].screen # "closed",
         Opened(d, k), idb' \in [Devices -> Identity], idb'[d].key = idb[d].key,
         idb'[d].token \in TokensAt(d) \cup {None},
         \A e \in Devices \ {d} : idb'[e] = idb[e],
         UNCHANGED <<boot, registered, minted, cards, wiped>>
  PROVE  OwnStep(d)
<1> DEFINE tries == {j \in Calls : j = k \/ (call[d][k].why # "api" /\ call[d][j].pc = "idle")}
           c == [Idle EXCEPT !.pc = "try"]
<1>0. PageTypes
  BY TypesOfBoth DEF IInv
<1>1. c \in Call /\ c.pc = "try" /\ c.token = None
  BY Values DEF Idle
<1>2. call' = [call EXCEPT ![d] = [j \in Calls |-> IF j \in tries THEN c ELSE call[d][j]]]
  BY DEF Opened
<1>3. page' = [page EXCEPT ![d].loading = page[d].loading \/ call[d][k].why # "api"]
  BY <1>0 DEF Opened, PageTypes
<1> HIDE DEF tries, c
<1>4. /\ call' \in [Devices -> [Calls -> Call]]
      /\ \A j \in Calls : call'[d][j] = IF j \in tries THEN c ELSE call[d][j]
      /\ \A e \in Devices \ {d} : call'[e] = call[e]
  BY <1>0, <1>1, <1>2 DEF PageTypes
<1>5. /\ page' \in [Devices -> Page] /\ page'[d].screen = page[d].screen
      /\ page'[d].token = page[d].token /\ \A e \in Devices \ {d} : page'[e] = page[e]
  <2>1. page[d] \in Page /\ (page[d].loading \/ call[d][k].why # "api") \in BOOLEAN
    BY <1>0 DEF PageTypes
  <2> QED BY <1>0, <1>3, <2>1 DEF PageTypes, Page
<1>6. PageInv(d)'
  BY <1>1, <1>4, <1>5, KeyedPage
<1>7. KeepsTokens(d)
  BY <1>1, <1>4, <1>5 DEF KeepsTokens, TokensAt
<1>8. PageTypes'
  BY <1>0, <1>4, <1>5 DEF PageTypes
<1> QED BY <1>4, <1>5, <1>6, <1>7, <1>8 DEF OwnStep, Only

LEMMA SaveTokenStep ==
  ASSUME IInv, NEW d \in Devices, NEW k \in Calls, SaveToken(d, k)
  PROVE  OwnStep(d)
<1> DEFINE c == [call[d][k] EXCEPT !.pc = "saveCode"]
<1>0. PageTypes /\ call[d][k] \in Call /\ idb[d] \in Identity
  BY TypesOfBoth DEF IInv, PageTypes
<1>1. /\ At(d, k, "saveToken")
      /\ idb' = [idb EXCEPT ![d].token = call[d][k].token]
      /\ (Becomes(d, k, c) /\ UNCHANGED page) \/ Opened(d, k)
      /\ UNCHANGED <<boot, registered, minted, cards, wiped>>
  BY DEF SaveToken, server
<1>2. call[d][k].token \in Token \cup {None} /\ call[d][k].token \in TokensAt(d)
  BY <1>0, CallFields DEF TokensAt
<1>3. /\ idb' \in [Devices -> Identity] /\ idb'[d].key = idb[d].key
      /\ idb'[d].token = call[d][k].token /\ \A e \in Devices \ {d} : idb'[e] = idb[e]
  BY <1>0, <1>1, <1>2 DEF PageTypes, Identity
<1>4. idb[d].key # 0 /\ page[d].screen # "closed"
  BY <1>1, HasItsKey DEF At
<1>5. CASE Opened(d, k)
  BY <1>1, <1>2, <1>3, <1>4, <1>5, OpenedStep
<1>6. CASE Becomes(d, k, c) /\ UNCHANGED page
  <2>1. c \in Call /\ c.pc = "saveCode" /\ c.key = call[d][k].key /\ c.token = call[d][k].token
    BY <1>0, CallAt
  <2> HIDE DEF c
  <2>2. /\ call' \in [Devices -> [Calls -> Call]] /\ call'[d][k] = c
        /\ \A j \in Calls \ {k} : call'[d][j] = call[d][j]
        /\ \A e \in Devices \ {d} : call'[e] = call[e]
    BY <1>0, <1>6, <2>1, CallChanges DEF PageTypes
  <2>3. PageInv(d)'
    BY <1>1, <1>3, <1>4, <1>6, <2>1, <2>2, KeyedPage DEF At
  <2>4. KeepsTokens(d)
    <3>1. {c.token, page'[d].token, idb'[d].token} \subseteq TokensAt(d) \cup {None}
      BY <1>2, <1>3, <1>6, <2>1 DEF TokensAt
    <3> QED BY <1>0, <1>3, <1>6, <2>1, <3>1, OneCall
  <2>5. PageTypes'
    BY <1>0, <1>1, <1>3, <1>6, <2>2 DEF PageTypes
  <2> QED BY <1>3, <1>6, <2>2, <2>3, <2>4, <2>5 DEF OwnStep, Only
<1> QED BY <1>1, <1>5, <1>6

LEMMA SaveCodeStep ==
  ASSUME IInv, NEW d \in Devices, NEW k \in Calls, SaveCode(d, k)
  PROVE  OwnStep(d)
<1>0. PageTypes /\ call[d][k] \in Call /\ idb[d] \in Identity
  BY TypesOfBoth DEF IInv, PageTypes
<1>1. /\ At(d, k, "saveCode") /\ Opened(d, k)
      /\ idb' = [idb EXCEPT ![d].code = call[d][k].use]
      /\ UNCHANGED <<boot, registered, minted, cards, wiped>>
  BY DEF SaveCode, server
<1>2. call[d][k].use \in Typed
  BY <1>0, CallFields
<1>3. /\ idb' \in [Devices -> Identity] /\ idb'[d].key = idb[d].key
      /\ idb'[d].token = idb[d].token /\ \A e \in Devices \ {d} : idb'[e] = idb[e]
  BY <1>0, <1>1, <1>2 DEF PageTypes, Identity
<1>4. idb[d].key # 0 /\ page[d].screen # "closed"
  BY <1>1, HasItsKey DEF At
<1> QED BY <1>1, <1>3, <1>4, OpenedStep DEF TokensAt

\* The two steps that change the key of a device: no token goes with either.
NewKeyStep(d) ==
  PageTypes' /\ Only(d) /\ PageInv(d)' /\ TokensAt(d)' \subseteq {None}

LEMMA StoreIdentityStep ==
  ASSUME IInv, NEW d \in Devices, NEW k \in Calls, StoreIdentity(d, k)
  PROVE  /\ NewKeyStep(d) /\ idb[d].key = 0 /\ idb'[d].key # 0
         /\ UNCHANGED <<boot, registered, cards, wiped>>
<1> DEFINE c == [call[d][k] EXCEPT !.pc = "post"]
           i == [Empty EXCEPT !.key = call[d][k].key]
<1>0. /\ PageTypes /\ call[d][k] \in Call /\ PageInv(d) /\ TokenInv(d)
      /\ \A j \in Calls : call[d][j] \in Call
  BY TypesOfBoth DEF IInv, PageTypes
<1>1. /\ At(d, k, "mint") /\ Becomes(d, k, c) /\ idb' = [idb EXCEPT ![d] = i]
      /\ UNCHANGED <<boot, registered, minted, page, cards, wiped>>
  BY DEF StoreIdentity, server
<1>2. idb[d].key = 0 /\ call[d][k].key # 0 /\ call[d][k].key \in 0..MaxGen
  BY <1>0, <1>1, CallFields DEF PageInv
<1>3. i \in Identity /\ i.key = call[d][k].key /\ i.token = None
  BY <1>2 DEF Empty, Identity, Typed
<1>4. c \in Call /\ c.pc = "post" /\ c.key = call[d][k].key /\ c.token = call[d][k].token
  BY <1>0, CallAt
<1> HIDE DEF c, i
<1>5. /\ call' \in [Devices -> [Calls -> Call]] /\ call'[d][k] = c
      /\ \A j \in Calls \ {k} : call'[d][j] = call[d][j]
      /\ \A e \in Devices \ {d} : call'[e] = call[e]
  BY <1>0, <1>1, <1>4, CallChanges DEF PageTypes
<1>6. idb' \in [Devices -> Identity] /\ idb'[d] = i /\ \A e \in Devices \ {d} : idb'[e] = idb[e]
  BY <1>0, <1>1, <1>3 DEF PageTypes
<1>7. PageTypes'
  BY <1>0, <1>1, <1>5, <1>6 DEF PageTypes
<1>8. \A j \in Calls \ {k} : call[d][j].pc = "idle"
  BY <1>0, <1>1, <1>2 DEF PageInv, At
<1>9. PageInv(d)'
  BY <1>0, <1>1, <1>2, <1>3, <1>4, <1>5, <1>6, <1>8 DEF PageInv, Quiet, At
<1>10. TokensAt(d)' \subseteq {None}
  <2>1. TokensAt(d) \subseteq {None}
    BY <1>0, <1>2 DEF TokenInv
  <2>2. /\ page[d].token = None /\ call[d][k].token = None
        /\ \A j \in Calls : call[d][j].token = None
    BY <2>1 DEF TokensAt
  <2>3. /\ page'[d].token = None /\ idb'[d].token = None
        /\ \A j \in Calls : call'[d][j].token = None
    BY <1>1, <1>3, <1>4, <1>5, <1>6, <2>2
  <2> QED BY <2>3 DEF TokensAt
<1> QED BY <1>1, <1>2, <1>3, <1>5, <1>6, <1>7, <1>9, <1>10 DEF NewKeyStep, Only

LEMMA ClearDataStep ==
  ASSUME IInv, NEW d \in Devices, ClearData(d)
  PROVE  /\ NewKeyStep(d) /\ idb[d].key # 0 /\ idb'[d].key = 0
         /\ UNCHANGED <<boot, registered, cards>>
         /\ wiped' = wiped \cup (cards \cap {<<d, idb[d].key>>})
<1>0. PageTypes /\ PageInv(d)
  BY TypesOfBoth DEF IInv, PageTypes
<1>1. /\ page[d].screen = "closed" /\ idb[d].key # 0 /\ idb' = [idb EXCEPT ![d] = Empty]
      /\ wiped' = wiped \cup (cards \cap {<<d, idb[d].key>>})
      /\ UNCHANGED <<boot, registered, minted, page, call, cards>>
  BY DEF ClearData, server
<1>2. /\ idb' \in [Devices -> Identity] /\ idb'[d] = Empty
      /\ \A e \in Devices \ {d} : idb'[e] = idb[e]
  BY <1>0, <1>1, Values DEF PageTypes
<1>3. PageTypes'
  BY <1>0, <1>1, <1>2 DEF PageTypes
<1>4. /\ page[d].token = None /\ ~page[d].loading
      /\ \A k \in Calls : call[d][k].pc = "idle" /\ call[d][k].token = None
  BY <1>0, <1>1 DEF PageInv, Quiet, At
<1>5. PageInv(d)'
  BY <1>0, <1>1, <1>2, <1>4 DEF PageInv, Quiet, At, Empty
<1>6. TokensAt(d)' \subseteq {None}
  BY <1>1, <1>2, <1>4 DEF TokensAt, Empty
<1> QED BY <1>1, <1>2, <1>3, <1>5, <1>6 DEF NewKeyStep, Only, Empty
-----------------------------------------------------------------------------
(***************************************************************************)
(* What no device has a hand in, and the invariants as a whole.            *)
(***************************************************************************)
\* Init and the types of the pages.
LEMMA InitInv == Init => IInv /\ SInv
<1> SUFFICES ASSUME Init PROVE IInv /\ SInv
  OBVIOUS
<1>1. /\ boot = 0 /\ registered = [c \in Codes |-> None]
      /\ idb = [d \in Devices |-> Empty] /\ minted = [d \in Devices |-> 0]
      /\ page = [d \in Devices |-> Closed]
      /\ call = [d \in Devices |-> [k \in Calls |-> Idle]]
      /\ cards = {} /\ wiped = {}
  BY DEF Init
<1>2. 0 \in 0..MaxGen /\ 0 \in 0..MaxRestarts
  BY CountsAssumption
<1>3. PageTypes
  BY <1>1, <1>2, Values DEF PageTypes
<1>4. TypeOK /\ Limiter
  BY <1>3, InitLimiter, TypesOfBoth
<1>5. ASSUME NEW d \in Devices PROVE PageInv(d) /\ TokensAt(d) \subseteq {None}
  <2>1. /\ page[d].screen = "closed" /\ page[d].token = None /\ ~page[d].loading
        /\ idb[d].token = None
        /\ \A k \in Calls : call[d][k].pc = "idle" /\ call[d][k].token = None
    BY <1>1 DEF Closed, Idle, Empty
  <2> QED BY <2>1 DEF PageInv, Quiet, At, TokensAt
<1>6. \A d \in Devices : TokenInv(d)
  BY <1>5 DEF TokenInv
<1>7. Live /\ CardsCanBeOpened
  BY <1>1, <1>5 DEF Live, Valid, CardsCanBeOpened
<1> QED BY <1>4, <1>5, <1>6, <1>7 DEF IInv, SInv

\* Cards, while the keys stay as they are.
LEMMA SameCards ==
  ASSUME CardsCanBeOpened, UNCHANGED <<cards, wiped>>, PageTypes,
         \A d \in Devices : idb'[d].key = idb[d].key
  PROVE  CardsCanBeOpened'
<1> SUFFICES ASSUME NEW key \in cards PROVE Opens(key[1], key)' \/ key \in wiped
  BY DEF CardsCanBeOpened
<1>1. key[1] \in Devices
  BY DEF PageTypes, Keys
<1>2. Opens(key[1], key) \/ key \in wiped
  BY DEF CardsCanBeOpened
<1> QED BY <1>1, <1>2 DEF Opens

\* What a step has to show.
Kept == /\ PageTypes' /\ \A d \in Devices : PageInv(d)' /\ TokenInv(d)'
        /\ SInv /\ OneDevicePerCode' => SInv'

LEMMA OwnStepKeeps ==
  ASSUME IInv, NEW d \in Devices, OwnStep(d), UNCHANGED <<boot, registered>>
  PROVE  /\ PageTypes' /\ \A e \in Devices : PageInv(e)' /\ TokenInv(e)'
         /\ Live => Live'
         /\ UNCHANGED <<cards, wiped>> => Kept
<1>0. PageTypes
  BY TypesOfBoth DEF IInv
<1>1. PageTypes' /\ (\A e \in Devices : PageInv(e)' /\ TokenInv(e)') /\ (Live => Live')
  BY LocalStep DEF OwnStep
<1>2. \A e \in Devices : idb'[e].key = idb[e].key
  BY DEF OwnStep, Only, KeepsTokens
<1>3. UNCHANGED <<cards, wiped>> /\ CardsCanBeOpened => CardsCanBeOpened'
  BY <1>0, <1>2, SameCards
<1> QED BY <1>1, <1>3 DEF Kept, SInv

LEMMA NewKeyKeeps ==
  ASSUME IInv, NEW d \in Devices, NewKeyStep(d), UNCHANGED <<boot, registered>>
  PROVE  /\ PageTypes' /\ \A e \in Devices : PageInv(e)' /\ TokenInv(e)'
         /\ Live => Live'
<1>1. \A e \in Devices \ {d} : /\ page'[e] = page[e] /\ idb'[e] = idb[e] /\ call'[e] = call[e]
                               /\ PageInv(e) /\ TokenInv(e)
  BY DEF NewKeyStep, Only, IInv
<1>2. \A e \in Devices \ {d} : PageInv(e)'
  BY <1>1 DEF PageInv, Quiet, At
<1>3. \A e \in Devices \ {d} : TokensAt(e)' = TokensAt(e)
  BY <1>1 DEF TokensAt
<1>4. \A e \in Devices \ {d} : TokenInv(e)'
  BY <1>1, <1>3 DEF TokenInv
<1>5. TokenInv(d)'
  BY DEF TokenInv, NewKeyStep
<1>6. Live => Live'
  <2> SUFFICES ASSUME Live, NEW e \in Devices, NEW t \in TokensAt(e)', Valid(t)'
               PROVE  registered'[t.code] = <<e, idb'[e].key>>
    BY DEF Live
  <2>1. e # d
    BY DEF NewKeyStep, Valid
  <2>2. t \in TokensAt(e) /\ Valid(t) /\ idb'[e] = idb[e]
    BY <1>1, <1>3, <2>1 DEF Valid
  <2> QED BY <2>2 DEF Live
<1> QED BY <1>2, <1>4, <1>5, <1>6 DEF NewKeyStep

LEMMA StoreIdentityKeeps ==
  ASSUME IInv, NEW d \in Devices, NEW k \in Calls, StoreIdentity(d, k)
  PROVE  Kept
<1>0. PageTypes
  BY TypesOfBoth DEF IInv
<1>1. /\ NewKeyStep(d) /\ idb[d].key = 0 /\ UNCHANGED <<boot, registered, cards, wiped>>
  BY StoreIdentityStep
<1>2. CardsCanBeOpened => CardsCanBeOpened'
  <2> SUFFICES ASSUME CardsCanBeOpened, NEW key \in cards
               PROVE  Opens(key[1], key)' \/ key \in wiped
    BY <1>1 DEF CardsCanBeOpened
  <2>1. key[1] \in Devices /\ key = <<key[1], key[2]>> /\ key[2] \in 1..MaxGen
    BY <1>0 DEF PageTypes, Keys
  <2>2. Opens(key[1], key) \/ key \in wiped
    BY DEF CardsCanBeOpened
  <2>3. CASE key[1] = d
    BY <1>1, <2>1, <2>2, <2>3, CountsAssumption DEF Opens
  <2>4. CASE key[1] # d
    BY <1>1, <2>1, <2>2, <2>4 DEF Opens, NewKeyStep, Only
  <2> QED BY <2>3, <2>4
<1> QED BY <1>1, <1>2, NewKeyKeeps DEF Kept, SInv

LEMMA ClearDataKeeps ==
  ASSUME IInv, NEW d \in Devices, ClearData(d)
  PROVE  Kept
<1>0. PageTypes
  BY TypesOfBoth DEF IInv
<1>1. /\ NewKeyStep(d) /\ UNCHANGED <<boot, registered, cards>>
      /\ wiped' = wiped \cup (cards \cap {<<d, idb[d].key>>})
  BY ClearDataStep
<1>2. CardsCanBeOpened => CardsCanBeOpened'
  <2> SUFFICES ASSUME CardsCanBeOpened, NEW key \in cards
               PROVE  Opens(key[1], key)' \/ key \in wiped'
    BY <1>1 DEF CardsCanBeOpened
  <2>1. key[1] \in Devices
    BY <1>0 DEF PageTypes, Keys
  <2>2. Opens(key[1], key) \/ key \in wiped
    BY DEF CardsCanBeOpened
  <2>3. CASE key[1] = d
    BY <1>1, <2>2, <2>3 DEF Opens
  <2>4. CASE key[1] # d
    BY <1>1, <2>1, <2>2, <2>4 DEF Opens, NewKeyStep, Only
  <2> QED BY <2>3, <2>4
<1> QED BY <1>1, <1>2, NewKeyKeeps DEF Kept, SInv

\* The one step that makes a card.
LEMMA PressSwapKeeps ==
  ASSUME IInv, NEW d \in Devices, PressSwap(d)
  PROVE  Kept
<1>0. PageTypes
  BY TypesOfBoth DEF IInv
<1>1. OwnStep(d)
  BY PressSwapStep
<1>2. /\ cards' = cards \cup {registered[page[d].token.code]} /\ Valid(page[d].token)
      /\ UNCHANGED <<boot, registered, idb, minted, page, call, wiped>>
  BY DEF PressSwap, SealedTo, server
<1>3. SInv => CardsCanBeOpened'
  <2> SUFFICES ASSUME SInv, NEW key \in cards'
               PROVE  Opens(key[1], key)' \/ key \in wiped'
    BY DEF CardsCanBeOpened
  <2>1. page[d].token \in TokensAt(d)
    BY DEF TokensAt
  <2>2. registered[page[d].token.code] = <<d, idb[d].key>>
    BY <1>2, <2>1 DEF SInv, Live
  <2>3. CASE key = <<d, idb[d].key>>
    BY <1>2, <2>3 DEF Opens
  <2>4. CASE key \in cards
    BY <1>2, <2>4 DEF SInv, CardsCanBeOpened, Opens
  <2> QED BY <1>2, <2>2, <2>3, <2>4
<1> QED BY <1>1, <1>2, <1>3, OwnStepKeeps DEF Kept, SInv

\* The one step that mints a token and moves a code to a key.
LEMMA AcceptKeeps ==
  ASSUME IInv, NEW d \in Devices, NEW k \in Calls, Accept(d, k)
  PROVE  Kept
<1> DEFINE c == call[d][k].use
           token == [boot |-> boot, code |-> c]
           key == <<d, idb[d].key>>
<1>0. PageTypes /\ \A e \in Devices : PageInv(e) /\ TokenInv(e)
  BY TypesOfBoth DEF IInv
<1>1. /\ At(d, k, "post") /\ c \in Codes
      /\ registered' = [registered EXCEPT ![c] = <<d, call[d][k].key>>]
      /\ Answer(d, k, 200, token) /\ UNCHANGED client
      /\ UNCHANGED <<boot, idb, minted, page, cards, wiped>>
  BY DEF Accept, Unenrolled, Accepts, Proved, client
<1>2. token \in Token \cup {None} /\ token.boot = boot /\ token.code = c
  BY <1>0, <1>1 DEF Token, PageTypes
<1>3. token # None
  <2>1. token \in Token
    BY <1>0, <1>1 DEF Token, PageTypes
  <2> QED BY <2>1, NoneAssumption
<1> HIDE DEF c, token
<1>4. /\ call' \in [Devices -> [Calls -> Call]] /\ PageInv(d)' /\ Only(d)
      /\ TokensAt(d)' \subseteq TokensAt(d) \cup {token} /\ token \in TokensAt(d)'
      /\ idb[d].key # 0 /\ call[d][k].key = idb[d].key
  BY <1>1, <1>2, AnswerStep
<1>5. key \in Keys
  <2>1. idb[d].key \in 0..MaxGen
    BY <1>0 DEF PageTypes, Identity
  <2> QED BY <1>4, <2>1, CountsAssumption DEF Keys
<1>6. /\ registered' = [registered EXCEPT ![c] = key]
      /\ registered' \in [Codes -> Keys \cup {None}]
  BY <1>0, <1>1, <1>4, <1>5 DEF PageTypes
<1> HIDE DEF key
<1>7. PageTypes'
  BY <1>0, <1>1, <1>4, <1>6 DEF PageTypes
<1>8. \A e \in Devices \ {d} : PageInv(e)' /\ TokensAt(e)' = TokensAt(e)
  <2> SUFFICES ASSUME NEW e \in Devices \ {d} PROVE PageInv(e)' /\ TokensAt(e)' = TokensAt(e)
    OBVIOUS
  <2>1. PageInv(e) /\ page'[e] = page[e] /\ idb'[e] = idb[e] /\ call'[e] = call[e]
    BY <1>0, <1>4 DEF Only
  <2> QED BY <2>1 DEF PageInv, Quiet, At, TokensAt
<1>9. \A r \in Codes : registered[r] # None => registered'[r] # None
  BY <1>0, <1>5, <1>6, NoneAssumption DEF PageTypes
<1>10. \A e \in Devices : TokensAt(e)' \subseteq Token \cup {None}
  BY <1>7 DEF PageTypes, TokensAt, Identity, Page, Call
<1>11. \A e \in Devices : TokenInv(e)'
  <2> SUFFICES ASSUME NEW e \in Devices, NEW t \in TokensAt(e)', t # None
               PROVE  t.boot <= boot' /\ registered'[t.code] # None /\ idb'[e].key # 0
    BY DEF TokenInv
  <2>1. t.code \in Codes /\ boot' = boot /\ boot \in Int /\ idb' = idb
    BY <1>0, <1>1, <1>10, CountsAssumption DEF Token, PageTypes
  <2>2. CASE t \in TokensAt(e)
    BY <1>0, <1>9, <2>1, <2>2 DEF TokenInv
  <2>3. CASE t = token /\ e = d
    <3>1. registered'[c] = key
      BY <1>0, <1>1, <1>6 DEF PageTypes
    <3>2. registered'[t.code] # None
      BY <1>2, <1>5, <2>3, <3>1, NoneAssumption
    <3>3. t.boot <= boot
      BY <1>2, <2>1, <2>3
    <3> QED BY <1>4, <2>1, <2>3, <3>2, <3>3
  <2> QED BY <1>4, <1>8, <2>2, <2>3
<1>12. Live /\ OneDevicePerCode' => Live'
  <2> SUFFICES ASSUME Live, OneDevicePerCode', NEW e \in Devices, NEW t \in TokensAt(e)', Valid(t)'
               PROVE  registered'[t.code] = <<e, idb[e].key>>
    BY <1>1 DEF Live
  <2>1. t.code \in Codes /\ Valid(t) /\ Valid(t)'
    BY <1>1, <1>10 DEF Token, Valid
  <2>2. CASE t.code = c
    <3>1. token \in TokensAt(d)' /\ token # None /\ token.boot = boot' /\ token.code = c
      BY <1>1, <1>2, <1>3, <1>4
    <3>2. e = d
      BY <2>1, <2>2, <3>1 DEF OneDevicePerCode, Valid
    <3> QED BY <1>0, <1>1, <1>6, <2>2, <3>2 DEF PageTypes, key
  <2>3. CASE t.code # c
    <3>1. t \in TokensAt(e)
      BY <1>2, <1>4, <1>8, <2>3
    <3> QED BY <1>0, <1>6, <2>1, <2>3, <3>1 DEF Live, PageTypes
  <2> QED BY <2>2, <2>3
<1>13. CardsCanBeOpened => CardsCanBeOpened'
  BY <1>0, <1>1, SameCards
<1> QED BY <1>4, <1>7, <1>8, <1>11, <1>12, <1>13 DEF Kept, SInv

LEMMA AnswersKeep ==
  ASSUME IInv, NEW d \in Devices, NEW k \in Calls, Route(d, k)
  PROVE  Kept
<1>1. CASE Accept(d, k)
  BY <1>1, AcceptKeeps
<1>2. CASE Resume(d, k) \/ AskForCode(d, k) \/ Throttle(d, k) \/ Reject(d, k)
  BY <1>2, QuietAnswers, OwnStepKeeps
<1> QED BY <1>1, <1>2 DEF Route

\* A restart leaves no good token; the devices' registrations survive it.
LEMMA RestartKeeps ==
  ASSUME IInv, Restart
  PROVE  Kept
<1>0. PageTypes
  BY TypesOfBoth DEF IInv
<1>1. /\ boot < MaxRestarts /\ boot' = boot + 1 /\ boot \in Nat
      /\ UNCHANGED <<registered, idb, minted, page, call, cards, wiped>>
  BY <1>0, CountsAssumption DEF Restart, client, PageTypes
<1>2. PageTypes'
  BY <1>0, <1>1, CountsAssumption DEF PageTypes
<1>3. \A d \in Devices : TokensAt(d)' = TokensAt(d) /\ TokensAt(d) \subseteq Token \cup {None}
  BY <1>0, <1>1, TokensAreTokens DEF TokensAt
<1>4. \A d \in Devices : PageInv(d)'
  BY <1>1 DEF IInv, PageInv, Quiet, At
<1>5. \A d \in Devices, t \in Token : t.boot \in Int
  BY CountsAssumption DEF Token
<1>6. \A d \in Devices : TokenInv(d)'
  BY <1>1, <1>3, <1>5 DEF IInv, TokenInv
<1>7. Live'
  <2> SUFFICES ASSUME NEW d \in Devices, NEW t \in TokensAt(d), t # None, t.boot = boot + 1
               PROVE  FALSE
    BY <1>1, <1>3 DEF Live, Valid
  <2>1. t.boot <= boot
    BY DEF IInv, TokenInv
  <2> QED BY <1>1, <2>1
<1>8. CardsCanBeOpened => CardsCanBeOpened'
  BY <1>0, <1>1, SameCards
<1> QED BY <1>2, <1>4, <1>6, <1>7, <1>8 DEF Kept, SInv

LEMMA NobodyMoves ==
  ASSUME IInv, UNCHANGED <<boot, registered, client, call>>
  PROVE  Kept
<1>0. PageTypes
  BY TypesOfBoth DEF IInv
<1>1. UNCHANGED <<boot, registered, idb, minted, page, call, cards, wiped>>
  BY DEF client
<1>2. PageTypes'
  BY <1>0, <1>1 DEF PageTypes
<1>3. \A d \in Devices : TokensAt(d)' = TokensAt(d)
  BY <1>1 DEF TokensAt
<1>4. \A d \in Devices : PageInv(d)'
  BY <1>1 DEF IInv, PageInv, Quiet, At
<1>5. \A d \in Devices : TokenInv(d)'
  BY <1>1, <1>3 DEF IInv, TokenInv
<1>6. Live => Live'
  BY <1>1, <1>3 DEF Live, Valid
<1>7. CardsCanBeOpened => CardsCanBeOpened'
  BY <1>0, <1>1, SameCards
<1> QED BY <1>2, <1>4, <1>5, <1>6, <1>7 DEF Kept, SInv

LEMMA LearnerKeeps ==
  ASSUME IInv, NEW d \in Devices, Learner(d) \/ ShowHome(d)
  PROVE  Kept
<1>1. CASE OpenPage(d)
  BY <1>1, OpenPageStep, OwnStepKeeps DEF OpenPage, server
<1>2. CASE ClosePage(d)
  BY <1>2, ClosePageStep, OwnStepKeeps DEF ClosePage, server
<1>3. CASE ClearData(d)
  BY <1>3, ClearDataKeeps
<1>4. CASE PressSwap(d)
  BY <1>4, PressSwapKeeps
<1>5. ASSUME NEW code \in Codes \cup {Wrong}, PressEnrol(d, code) PROVE Kept
  BY <1>5, PressEnrolStep, OwnStepKeeps DEF PressEnrol, server
<1>6. ASSUME NEW k \in Calls, PressHome(d, k) PROVE Kept
  BY <1>6, PressHomeStep, OwnStepKeeps DEF PressHome, server
<1>7. CASE ShowHome(d)
  BY <1>7, ShowHomeStep, OwnStepKeeps DEF ShowHome, server
<1> QED BY <1>1, <1>2, <1>3, <1>4, <1>5, <1>6, <1>7 DEF Learner

LEMMA BrowserKeeps ==
  ASSUME IInv, NEW d \in Devices, NEW k \in Calls, Browser(d, k) \/ NetworkFails(d, k)
  PROVE  Kept
<1>1. CASE TryApi(d, k)
  BY <1>1, TryApiStep, OwnStepKeeps DEF TryApi, server
<1>2. CASE ReadIdentity(d, k)
  BY <1>2, ReadIdentityStep, OwnStepKeeps DEF ReadIdentity, server
<1>3. CASE GenerateKey(d, k)
  BY <1>3, GenerateKeyStep, OwnStepKeeps DEF GenerateKey, server
<1>4. CASE StoreIdentity(d, k)
  BY <1>4, StoreIdentityKeeps
<1>5. CASE Refused(d, k) \/ NetworkFails(d, k)
  BY <1>5, RefusedStep, OwnStepKeeps DEF Refused, NetworkFails, server
<1>6. CASE TakeToken(d, k)
  BY <1>6, TakeTokenStep, OwnStepKeeps DEF TakeToken, server
<1>7. CASE SaveToken(d, k)
  BY <1>7, SaveTokenStep, OwnStepKeeps DEF SaveToken, server
<1>8. CASE SaveCode(d, k)
  BY <1>8, SaveCodeStep, OwnStepKeeps DEF SaveCode, server
<1> QED BY <1>1, <1>2, <1>3, <1>4, <1>5, <1>6, <1>7, <1>8 DEF Browser

LEMMA NextKeeps ==
  ASSUME IInv, [Next]_vars
  PROVE  IInv' /\ Forgets /\ (SInv /\ OneDevicePerCode' => SInv')
<1>1. Kept
  <2>1. CASE UNCHANGED vars
    BY <2>1, NobodyMoves DEF vars, server, client
  <2>2. ASSUME NEW a \in Addresses, OtherRejected(a) PROVE Kept
    BY <2>2, NobodyMoves DEF OtherRejected
  <2>3. CASE Tick
    BY <2>3, NobodyMoves DEF Tick
  <2>4. CASE Restart
    BY <2>4, RestartKeeps
  <2> QED BY <2>1, <2>2, <2>3, <2>4, LearnerKeeps, BrowserKeeps, AnswersKeep DEF Next
<1>2. Limiter' /\ Forgets
  BY LimiterStep DEF IInv
<1>3. TypeOK'
  BY <1>1, <1>2, TypesOfBothNext DEF Kept
<1> QED BY <1>1, <1>2, <1>3 DEF Kept, IInv
-----------------------------------------------------------------------------
(***************************************************************************)
(* The theorems.                                                           *)
(***************************************************************************)
\* The limiter remembers of an address exactly the wrong codes that count; a
\* page without a key has one call at most, and every call that talks to the
\* server does so with the stored key; every token is of this run of the server
\* or an earlier one, for a code that was proved, in a browser that has a key.
THEOREM Invariance == Spec => []IInv
<1>1. Init => IInv
  BY InitInv
<1>2. IInv /\ [Next]_vars => IInv'
  BY NextKeeps
<1> QED BY <1>1, <1>2, PTL DEF Spec

\* Every reachable state of the browsers, the route and the limiter is well
\* typed; in particular an entry of the limiter never grows beyond the limit.
THEOREM TypeCorrect == Spec => []TypeOK
<1>1. IInv => TypeOK
  BY DEF IInv
<1> QED BY <1>1, Invariance, PTL

\* "Eight wrong codes from one address per ten minutes", for any limit, window
\* and size of the table, and however many devices and others share an address.
THEOREM GuessesAreBounded == Spec => []GuessesBounded
<1>1. IInv => GuessesBounded
  BY EntryFacts DEF IInv, GuessesBounded
<1> QED BY <1>1, Invariance, PTL

\* The table is never larger than MAX_KEYS, and failures that count are only
\* forgotten by a right code, a restart, or a full table whose coldest they are.
THEOREM TheColdestIsForgotten == Spec => ForgetsTheColdest
<1>1. IInv /\ [Next]_vars => Forgets
  BY NextKeeps
<1>2. IInv /\ [Next]_vars => [Forgets]_vars
  BY <1>1
<1> QED BY <1>2, Invariance, PTL DEF Spec, ForgetsTheColdest, Forgets

\* As long as no code has a session on two devices at once: every card is
\* sealed to the key that is in IndexedDB, or the learner has cleared it.
THEOREM CardsOpen == Spec /\ []OneDevicePerCode => []CardsCanBeOpened
<1>1. Init => SInv
  BY InitInv
<1>2. IInv /\ SInv /\ OneDevicePerCode' /\ [Next]_vars => SInv'
  BY NextKeeps
<1>3. SInv => CardsCanBeOpened
  BY DEF SInv
<1> QED BY <1>1, <1>2, <1>3, Invariance, PTL DEF Spec

\* What the pages run checks: with one device the condition is empty.
COROLLARY OneDeviceCardsOpen ==
  ASSUME \A d, e \in Devices : d = e
  PROVE  Spec => []CardsCanBeOpened
<1>1. OneDevicePerCode
  BY DEF OneDevicePerCode
<1> QED BY <1>1, CardsOpen, PTL
=============================================================================
