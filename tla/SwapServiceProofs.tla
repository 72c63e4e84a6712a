-------------------------- MODULE SwapServiceProofs --------------------------
(***************************************************************************)
(* What holds of the swap service for any number of requests, operators,   *)
(* lookups and faults.  The records, the file and the ledger agree, a      *)
(* settled swap has its card on disk, and every thread knows at its awaits *)
(* what its next step relies on: that is the inductive invariant.          *)
(*                                                                         *)
(* One condition, NoStaleCount: a burn is mined only while the count its   *)
(* request has read is still the ledger's.  Without it the invariant       *)
(* fails, because two requests record the same id (NothingLost, run        *)
(* swap_id_race); with it everything may still interleave and fail as it   *)
(* likes, requests that count while another is about to burn included.     *)
(***************************************************************************)
EXTENDS SwapService, FunctionTheorems, FiniteSetTheorems, SequenceTheorems, TLAPS

\* No request burns after another has burned since it read swapCount.
CountIsCurrent == \A r \in Requests : Burn(r) => th[r].id = Len(ledger) + 1
NoStaleCount == [][CountIsCurrent]_vars

Entry == [req : Requests, status : Status \ {"Sealed"}]
Burned == {ledger[s].req : s \in DOMAIN ledger}

\* No request has two swaps.
BurnsOnce ==
  \A s, u \in DOMAIN ledger : ledger[s].req = ledger[u].req => s = u

\* Memory: a record is in the row of its id, and every row has its record.
Filed ==
  /\ \A r \in Requests : rec[r] # None => rec[r].id \in Ids /\ rows[rec[r].id] = r
  /\ \A i \in Ids : rows[i] # None => rec[rows[i]] # None /\ rec[rows[i]].id = i
  /\ server = "down" => \A r \in Requests : rec[r] = None

\* The file is never behind the memory of a running process.
OnDisk ==
  server # "down" =>
    \A i \in Ids : disk[i] = IF rows[i] = None THEN None ELSE <<rec[rows[i]], rows[i]>>

\* A row on disk is that of the swap the ledger has under its id.
Truthful ==
  \A i \in Ids : disk[i] # None =>
    /\ disk[i][1].id = i /\ i \in DOMAIN ledger /\ ledger[i].req = disk[i][2]
    /\ disk[i][1].status \in {"Settled", "Cancelled"} => ledger[i].status = disk[i][1].status
    /\ disk[i][1].status = "Sealed" => disk[i][1].sealed

\* A request that has not burned has no swap; one whose burn is not recorded
\* yet knows its swap, which is open.
Early(r) ==
  /\ th[r].req = r /\ th[r].op = "swap"
  /\ th[r].pc \in {"idle", "burn"} => r \notin Burned
  /\ th[r].pc = "burnt" =>
       /\ rec[r] = None
       /\ th[r].id \in DOMAIN ledger
       /\ ledger[th[r].id] = [req |-> r, status |-> "Requested"]

Working == {"ordering", "lookup", "check", "settle", "settled", "cancel", "cancelled"}

\* What a thread knows of its record and of the ledger, at each of its awaits.
Late(t) ==
  /\ t \notin Requests => th[t].pc \notin {"burn", "burnt", "ordering", "done"} /\ th[t].op # "swap"
  /\ server = "down" => th[t].pc \in {"idle", "done"}
  /\ th[t].pc \in Working => th[t].req \in Requests /\ rec[th[t].req] # None
  /\ th[t].pc \in {"check", "settle", "settled"} => rec[th[t].req].sealed
  /\ th[t].pc = "settled" => ledger[rec[th[t].req].id].status = "Settled"
  /\ th[t].pc = "cancelled" => ledger[rec[th[t].req].id].status = "Cancelled"

Records == Filed /\ OnDisk /\ Truthful /\ SettledIsInWallet

IInv ==
  /\ TypeOK /\ BurnsOnce /\ Records
  /\ \A r \in Requests : Early(r)
  /\ \A t \in Threads : Late(t)
-----------------------------------------------------------------------------
\* Who is who: the threads, and None apart from everything else.
LEMMA Names ==
  /\ Requests \subseteq Threads /\ Recovery \in Threads /\ Operators \subseteq Threads
  /\ Recovery \notin Requests /\ \A o \in Operators : o \notin Requests
  /\ None \notin Requests /\ None \notin Record /\ None \notin Record \X Requests
  /\ Cardinality(Requests) \in Nat
  BY NamesAssumption, BoundsAssumption, FS_CardinalityType DEF Threads

\* What is known of a request that has a record in memory.
LEMMA OnRecord ==
  ASSUME IInv, NEW r \in Requests, rec[r] # None
  PROVE  /\ server # "down" /\ rec[r] \in Record
         /\ rec[r].id \in Ids /\ rec[r].id \in DOMAIN ledger
         /\ rows[rec[r].id] = r /\ ledger[rec[r].id].req = r
         /\ disk[rec[r].id] = <<rec[r], r>>
         /\ rec[r].status \in {"Settled", "Cancelled"} => ledger[rec[r].id].status = rec[r].status
         /\ rec[r].status = "Sealed" => rec[r].sealed
  <1>1. server # "down" /\ rec[r].id \in Ids /\ rows[rec[r].id] = r
    BY DEF IInv, Records, Filed
  <1>2. rec[r] \in Record
    BY DEF IInv, TypeOK
  <1>3. disk[rec[r].id] = <<rec[r], r>>
    BY <1>1, Names DEF IInv, Records, OnDisk
  <1>4. disk[rec[r].id] # None
    BY <1>2, <1>3, Names
  <1> QED BY <1>1, <1>2, <1>3, <1>4 DEF IInv, Records, Truthful

\* A record takes its place again: what is on disk stays true, and a sealed
\* card stays there.
LEMMA Refiled ==
  ASSUME IInv, NEW r \in Requests, rec[r] # None, NEW R \in Record, R.id = rec[r].id,
         rec[r].sealed => R.sealed, R.status = "Sealed" => R.sealed,
         R.status \in {"Settled", "Cancelled"} => ledger[rec[r].id].status = R.status,
         Put(r, R), UNCHANGED <<ledger, server>>
  PROVE  /\ Records' /\ rows' = rows
         /\ rec' \in [Requests -> Record \cup {None}]
         /\ disk' \in [Ids -> (Record \X Requests) \cup {None}]
         /\ rec'[r] = R /\ \A q \in Requests \ {r} : rec'[q] = rec[q]
         /\ disk' = [disk EXCEPT ![rec[r].id] = <<R, r>>]
  <1> DEFINE i == rec[r].id
  <1>0. /\ server # "down" /\ i \in Ids /\ i \in DOMAIN ledger /\ rows[i] = r
        /\ ledger[i].req = r /\ disk[i] = <<rec[r], r>>
    BY OnRecord
  <1>1. /\ rec \in [Requests -> Record \cup {None}] /\ rows \in [Ids -> Requests \cup {None}]
        /\ disk \in [Ids -> (Record \X Requests) \cup {None}]
    BY DEF IInv, TypeOK
  <1>2. /\ rec' \in [Requests -> Record \cup {None}]
        /\ rec'[r] = R /\ \A q \in Requests \ {r} : rec'[q] = rec[q]
    BY <1>1 DEF Put
  <1>3. rows' = rows
    BY <1>0, <1>1 DEF Put
  <1>4. R # None /\ r # None /\ <<R, r>> # None /\ <<R, r>> \in Record \X Requests
    BY Names
  <1>5. \A j \in Ids : rows[j] # None /\ j # i => rows[j] \in Requests /\ rows[j] # r
    BY <1>1, <1>0 DEF IInv, Records, Filed
  <1>6. disk' = [j \in Ids |-> IF rows[j] = None THEN None ELSE <<rec'[rows[j]], rows[j]>>]
    BY <1>3 DEF Put, Persist
  <1>7. disk'[i] = <<R, r>>
    BY <1>0, <1>2, <1>4, <1>6
  <1>8. \A j \in Ids \ {i} : disk'[j] = disk[j]
    <2>1. ASSUME NEW j \in Ids, j # i
          PROVE  disk'[j] = disk[j]
      <3>1. disk[j] = IF rows[j] = None THEN None ELSE <<rec[rows[j]], rows[j]>>
        BY <1>0 DEF IInv, Records, OnDisk
      <3>2. disk'[j] = IF rows[j] = None THEN None ELSE <<rec'[rows[j]], rows[j]>>
        BY <1>6
      <3>3. rows[j] # None => rec'[rows[j]] = rec[rows[j]]
        BY <1>2, <1>5, <2>1
      <3> QED BY <3>1, <3>2, <3>3
    <2> QED BY <2>1
  <1>9. disk' = [disk EXCEPT ![i] = <<R, r>>]
    BY <1>1, <1>6, <1>7, <1>8
  <1>10. disk' \in [Ids -> (Record \X Requests) \cup {None}]
    BY <1>1, <1>4, <1>9
  <1>11. Filed'
    <2>1. \A q \in Requests : rec'[q] # None => rec'[q].id \in Ids /\ rows'[rec'[q].id] = q
      BY <1>0, <1>2, <1>3 DEF IInv, Records, Filed
    <2>2. \A j \in Ids : rows'[j] # None => rec'[rows'[j]] # None /\ rec'[rows'[j]].id = j
      BY <1>0, <1>2, <1>3, <1>4, <1>5 DEF IInv, Records, Filed
    <2> QED BY <1>0, <2>1, <2>2 DEF Filed
  <1>12. OnDisk'
    BY <1>3, <1>6 DEF OnDisk
  <1>13. Truthful'
    <2>1. ASSUME NEW j \in Ids, disk'[j] # None
          PROVE  /\ disk'[j][1].id = j /\ j \in DOMAIN ledger /\ ledger[j].req = disk'[j][2]
                 /\ disk'[j][1].status \in {"Settled", "Cancelled"} => ledger[j].status = disk'[j][1].status
                 /\ disk'[j][1].status = "Sealed" => disk'[j][1].sealed
      <3>1. CASE j = i
        BY <1>0, <1>7, <3>1
      <3>2. CASE j # i
        BY <1>8, <2>1, <3>2 DEF IInv, Records, Truthful
      <3> QED BY <3>1, <3>2
    <2> QED BY <2>1 DEF Truthful
  <1>14. SettledIsInWallet'
    <2>1. ASSUME NEW s \in DOMAIN ledger, ledger[s].status = "Settled"
          PROVE  disk'[s] # None /\ disk'[s][2] = ledger[s].req /\ disk'[s][1].sealed
      <3>0. disk[s] # None /\ disk[s][2] = ledger[s].req /\ disk[s][1].sealed
        BY <2>1 DEF IInv, Records, SettledIsInWallet
      <3>1. CASE s = i
        BY <1>0, <1>4, <1>7, <3>0, <3>1
      <3>2. CASE s # i
        BY <1>1, <1>9, <3>0, <3>2
      <3> QED BY <3>1, <3>2
    <2> QED BY <2>1 DEF SettledIsInWallet
  <1> QED BY <1>2, <1>3, <1>9, <1>10, <1>11, <1>12, <1>13, <1>14 DEF Records

\* Steps that leave ledger, memory and file as they are leave Records so.
LEMMA RecordsKept ==
  ASSUME IInv, UNCHANGED <<ledger, rec, rows, disk>>, server' = "down" <=> server = "down"
  PROVE  Records'
  BY DEF IInv, Records, Filed, OnDisk, Truthful, SettledIsInWallet

\* What others do to ledger and memory never takes from a thread what it knows.
Persists ==
  /\ \A q \in Requests : rec[q] # None =>
       rec'[q] # None /\ rec'[q].id = rec[q].id /\ (rec[q].sealed => rec'[q].sealed)
  /\ \A s \in DOMAIN ledger :
       s \in DOMAIN ledger' /\ (ledger[s].status # "Requested" => ledger'[s] = ledger[s])
  /\ server' = "down" => server = "down"

\* A thread that does not move keeps what it knows.
LEMMA LateKept ==
  ASSUME IInv, Persists, NEW t \in Threads, th'[t] = th[t]
  PROVE  Late(t)'
  <1>1. Late(t)
    BY DEF IInv
  <1>2. th[t].pc \in Working => rec[th[t].req].id \in DOMAIN ledger
    BY <1>1, OnRecord DEF Late
  <1>3. {"check", "settle", "settled", "cancelled"} \subseteq Working
    BY DEF Working
  <1> QED BY <1>1, <1>2, <1>3 DEF Late, Persists

\* Only a burn, and only its own, adds to the swaps; nobody decides a swap that
\* has no record yet.
LEMMA EarlyKept ==
  ASSUME IInv, NEW r \in Requests, th'[r] = th[r], Burned' = Burned, Len(ledger') = Len(ledger),
         DOMAIN ledger' = DOMAIN ledger, th[r].pc = "burnt" => rec'[r] = None,
         \A s \in DOMAIN ledger : rec[ledger[s].req] = None => ledger'[s] = ledger[s]
  PROVE  Early(r)'
  BY DEF IInv, Early

\* The types of what the invariant does not speak of otherwise.
OtherTypes ==
  /\ paused \in BOOLEAN /\ orders \subseteq Requests
  /\ wire \in [Requests -> {"unsent", "sent", "card", "declined", "failed", "garbled", "lost"}]
  /\ server \in {"down", "recovering", "up"} /\ todo \subseteq Ids /\ faults \in 0..MaxFaults

\* The remaining types are part of the invariant.
LEMMA TypesOfTheRest == IInv => OtherTypes
  BY DEF IInv, TypeOK, OtherTypes

\* The ledger, memory and file stay, and so does every thread but perhaps t.
LEMMA ThreadMoves ==
  ASSUME IInv, NEW t \in Threads, NEW x \in Thread, th' = [th EXCEPT ![t] = x],
         UNCHANGED <<ledger, rec, rows, disk>>, server' = "down" <=> server = "down",
         OtherTypes', t \in Requests => Early(t)', Late(t)'
  PROVE  IInv'
  <1>1. th \in [Threads -> Thread]
    BY DEF IInv, TypeOK
  <1>2. \A u \in Threads \ {t} : th'[u] = th[u]
    BY <1>1
  <1>3. Persists
    BY DEF Persists
  <1>4. \A u \in Threads : Late(u)'
    BY <1>2, <1>3, LateKept
  <1>5. \A r \in Requests : Early(r)'
    <2>1. Burned' = Burned
      BY DEF Burned
    <2>2. ASSUME NEW r \in Requests, r # t PROVE Early(r)'
      <3>1. th'[r] = th[r]
        BY <1>2, <2>2, Names
      <3> QED BY <2>1, <3>1, EarlyKept DEF IInv, Early
    <2> QED BY <2>2
  <1>6. BurnsOnce'
    BY DEF IInv, BurnsOnce
  <1>7. TypeOK'
    BY <1>1 DEF IInv, TypeOK, OtherTypes
  <1> QED BY <1>4, <1>5, <1>6, <1>7, RecordsKept DEF IInv

\* No thread moves at all.
LEMMA WorldMoves ==
  ASSUME IInv, UNCHANGED <<ledger, rec, rows, disk, th>>, server' = "down" <=> server = "down",
         OtherTypes'
  PROVE  IInv'
  <1>1. th \in [Threads -> Thread] /\ Recovery \in Threads
    BY Names DEF IInv, TypeOK
  <1>2. th' = [th EXCEPT ![Recovery] = th[Recovery]] /\ th[Recovery] \in Thread
    BY <1>1
  <1>3. Persists
    BY DEF Persists
  <1>4. Late(Recovery)'
    BY <1>1, <1>3, LateKept
  <1> QED BY <1>1, <1>2, <1>4, ThreadMoves, Names

\* The next await of a thread.
LEMMA Goes ==
  ASSUME IInv, NEW t \in Threads, NEW pc \in Pcs, Goto(t, pc)
  PROVE  \E x \in Thread :
           /\ th' = [th EXCEPT ![t] = x]
           /\ x.pc = pc /\ x.req = th[t].req /\ x.op = th[t].op /\ x.id = th[t].id
  <1>1. th \in [Threads -> Thread]
    BY DEF IInv, TypeOK
  <1> DEFINE x == [th[t] EXCEPT !.pc = pc]
  <1>2. /\ x \in Thread /\ x.pc = pc /\ x.req = th[t].req /\ x.op = th[t].op /\ x.id = th[t].id
    BY <1>1 DEF Thread
  <1>3. th' = [th EXCEPT ![t] = x]
    BY DEF Goto
  <1> QED BY <1>2, <1>3

\* An idle thread, as at the start and after its end.
LEMMA FreshThread ==
  ASSUME NEW t \in Threads
  PROVE  /\ Fresh(t) \in Thread /\ Fresh(t).pc = "idle"
         /\ t \in Requests => Fresh(t).req = t /\ Fresh(t).op = "swap"
         /\ t \notin Requests => Fresh(t).op # "swap"
  <1>1. 0 \in 0..LookupAttempts - 1
    BY BoundsAssumption
  <1> QED BY <1>1, Names DEF Fresh, Thread, Pcs

\* A handler that has ended knows nothing.
LEMMA Finished ==
  ASSUME IInv, NEW t \in Threads, Finish(t)
  PROVE  \E x \in Thread :
           /\ th' = [th EXCEPT ![t] = x]
           /\ t \in Requests => x.pc = "done" /\ x.req = t /\ x.op = "swap"
           /\ t \notin Requests => x.pc = "idle" /\ x.op # "swap"
  <1>1. th \in [Threads -> Thread]
    BY DEF IInv, TypeOK
  <1> DEFINE x == IF t \in Requests THEN [th[t] EXCEPT !.pc = "done"] ELSE Fresh(t)
  <1>2. th' = [th EXCEPT ![t] = x]
    BY DEF Finish
  <1>3. CASE t \in Requests
    <2>1. x \in Thread /\ x.pc = "done" /\ x.req = th[t].req /\ x.op = th[t].op
      BY <1>1, <1>3 DEF Thread, Pcs
    <2>2. th[t].req = t /\ th[t].op = "swap"
      BY <1>3 DEF IInv, Early
    <2> QED BY <1>2, <1>3, <2>1, <2>2
  <1>4. CASE t \notin Requests
    BY <1>2, <1>4, FreshThread
  <1> QED BY <1>3, <1>4

\* Ending is always possible.
LEMMA FinishIsSafe ==
  ASSUME IInv, NEW t \in Threads, Finish(t),
         UNCHANGED <<ledger, rec, rows, disk, server>>, OtherTypes'
  PROVE  IInv'
  <1>1. PICK x \in Thread :
          /\ th' = [th EXCEPT ![t] = x]
          /\ t \in Requests => x.pc = "done" /\ x.req = t /\ x.op = "swap"
          /\ t \notin Requests => x.pc = "idle" /\ x.op # "swap"
    BY Finished
  <1>2. th'[t] = x
    BY <1>1 DEF IInv, TypeOK
  <1>3. t \in Requests => Early(t)'
    BY <1>1, <1>2 DEF Early
  <1>4. Late(t)'
    BY <1>1, <1>2 DEF Late, Working
  <1> QED BY <1>1, <1>3, <1>4, ThreadMoves

\* Going on to an await that asks nothing new of the thread.
LEMMA GotoIsSafe ==
  ASSUME IInv, NEW t \in Threads, NEW pc \in Pcs, Goto(t, pc),
         UNCHANGED <<ledger, rec, rows, disk, server>>, OtherTypes',
         th[t].pc \in Working, pc \in {"lookup", "settle", "cancel"},
         pc = "settle" => th[t].pc \in {"check", "settled"}
  PROVE  IInv'
  <1>1. PICK x \in Thread :
          /\ th' = [th EXCEPT ![t] = x]
          /\ x.pc = pc /\ x.req = th[t].req /\ x.op = th[t].op /\ x.id = th[t].id
    BY Goes
  <1>2. th'[t] = x
    BY <1>1 DEF IInv, TypeOK
  <1>3. t \in Requests => Early(t)'
    BY <1>1, <1>2 DEF Early, IInv
  <1>4. Late(t) /\ pc \in Working
    BY DEF IInv, Working
  <1>5. server # "down"
    BY <1>4 DEF Late, Working
  <1>6. Late(t)'
    BY <1>1, <1>2, <1>4, <1>5 DEF Late
  <1> QED BY <1>1, <1>3, <1>6, ThreadMoves
-----------------------------------------------------------------------------
(***************************************************************************)
(* The burn.                                                               *)
(***************************************************************************)
\* There are no more swaps than requests to have them.
LEMMA OneSwapEach ==
  ASSUME IInv, NEW S, IsFiniteSet(S), Burned \subseteq S
  PROVE  Len(ledger) <= Cardinality(S) /\ Cardinality(S) \in Nat
  <1>1. ledger \in Seq(Entry) /\ Len(ledger) \in Nat /\ DOMAIN ledger = 1..Len(ledger)
    BY LenProperties DEF IInv, TypeOK, Entry
  <1> DEFINE f == [s \in 1..Len(ledger) |-> ledger[s].req]
  <1>2. f \in [1..Len(ledger) -> S]
    BY <1>1 DEF Burned
  <1>3. \A s, u \in 1..Len(ledger) : f[s] = f[u] => s = u
    BY <1>1 DEF IInv, BurnsOnce
  <1>4. f \in Injection(1..Len(ledger), S)
    BY <1>2, <1>3, Fun_IsInj
  <1>5. IsFiniteSet(1..Len(ledger)) /\ Cardinality(1..Len(ledger)) = Len(ledger)
    BY <1>1, FS_Interval
  <1> QED BY <1>4, <1>5, FS_Injection, FS_CardinalityType

\* While a request has not burned, there is an id left for it.
LEMMA RoomToBurn ==
  ASSUME IInv, NEW r \in Requests, r \notin Burned
  PROVE  Len(ledger) + 1 \in Ids
  <1>1. ledger \in Seq(Entry) /\ Len(ledger) \in Nat /\ DOMAIN ledger = 1..Len(ledger)
    BY LenProperties DEF IInv, TypeOK, Entry
  <1> DEFINE Others == Requests \ {r}
  <1>2. /\ IsFiniteSet(Others) /\ Cardinality(Others) = Cardinality(Requests) - 1
        /\ Cardinality(Requests) \in Nat /\ Cardinality(Others) \in Nat
    BY BoundsAssumption, FS_RemoveElement, FS_CardinalityType
  <1>3. Burned \subseteq Others
    <2>1. \A s \in 1..Len(ledger) : ledger[s] \in Entry
      BY <1>1, ElementOfSeq
    <2> QED BY <1>1, <2>1 DEF Burned, Entry
  <1>4. Len(ledger) <= Cardinality(Others)
    BY <1>2, <1>3, OneSwapEach
  <1> QED BY <1>1, <1>2, <1>4 DEF Ids

\* The count is that of the ledger as it is read, and leaves room for an id.
LEMMA CountSwapsKeepsInv ==
  ASSUME IInv, NEW r \in Requests, CountSwaps(r)
  PROVE  IInv'
  <1> DEFINE x == [th[r] EXCEPT !.pc = "burn", !.id = Len(ledger) + 1]
  <1>1. /\ th \in [Threads -> Thread] /\ r \in Threads /\ Early(r)
        /\ th[r].pc = "idle" /\ server = "up"
    BY Names DEF IInv, TypeOK, CountSwaps
  <1>2. r \notin Burned /\ Len(ledger) + 1 \in Ids
    BY <1>1, RoomToBurn DEF Early
  <1>3. x \in Thread /\ x.pc = "burn" /\ x.id = Len(ledger) + 1 /\ x.req = r /\ x.op = "swap"
    BY <1>1, <1>2 DEF Thread, Pcs, Early
  <1>4. th' = [th EXCEPT ![r] = x] /\ th'[r] = x
    BY <1>1 DEF CountSwaps
  <1>5. UNCHANGED <<ledger, rec, rows, disk, server>>
    BY DEF CountSwaps, unrecorded
  <1>6. Early(r)'
    BY <1>2, <1>3, <1>4, <1>5 DEF Early, Burned
  <1>7. Late(r)'
    BY <1>1, <1>3, <1>4, <1>5 DEF Late, Working
  <1>8. OtherTypes'
    BY TypesOfTheRest DEF OtherTypes, CountSwaps, world
  <1> HIDE DEF x
  <1> QED BY <1>1, <1>3, <1>4, <1>5, <1>6, <1>7, <1>8, ThreadMoves

\* The burn gets the id that was counted, since nobody else has burned since.
LEMMA BurnKeepsInv ==
  ASSUME IInv, NEW r \in Requests, Burn(r), th[r].id = Len(ledger) + 1
  PROVE  IInv'
  <1> DEFINE e == [req |-> r, status |-> "Requested"]
             n == Len(ledger) + 1
  <1>1. /\ th \in [Threads -> Thread] /\ r \in Threads /\ Early(r) /\ Late(r)
        /\ th[r].pc = "burn" /\ server # "down"
    BY Names DEF IInv, TypeOK, Burn, Late
  <1>2. /\ ledger \in Seq(Entry) /\ Len(ledger) \in Nat /\ DOMAIN ledger = 1..Len(ledger)
        /\ e \in Entry /\ ledger' = Append(ledger, e)
    BY LenProperties DEF IInv, TypeOK, Entry, Burn, Status
  <1>3. /\ ledger' \in Seq(Entry) /\ Len(ledger') = n /\ DOMAIN ledger' = 1..n
        /\ ledger'[n] = e /\ \A s \in DOMAIN ledger : s \in DOMAIN ledger' /\ ledger'[s] = ledger[s]
        /\ n \notin DOMAIN ledger /\ DOMAIN ledger' = DOMAIN ledger \cup {n}
    BY <1>2, AppendProperties
  <1>4. r \notin Burned /\ th[r].id = n
    BY <1>1 DEF Early
  <1>5. Burned' = Burned \cup {r}
    <2>1. ledger'[n].req = r
      BY <1>3
    <2>2. \A s \in DOMAIN ledger : ledger'[s].req = ledger[s].req
      BY <1>3
    <2>3. DOMAIN ledger' = DOMAIN ledger \cup {n}
      BY <1>3
    <2> HIDE DEF e, n
    <2> QED BY <2>1, <2>2, <2>3 DEF Burned
  <1>6. UNCHANGED <<rec, rows, disk, server>> /\ OtherTypes'
    BY TypesOfTheRest DEF Burn, unrecorded, world, OtherTypes
  <1>7. PICK x \in Thread :
          /\ th' = [th EXCEPT ![r] = x]
          /\ x.pc = "burnt" /\ x.req = th[r].req /\ x.op = th[r].op /\ x.id = th[r].id
    BY <1>1, Goes DEF Burn, Pcs
  <1>8. th'[r] = x /\ (\A u \in Threads \ {r} : th'[u] = th[u]) /\ th' \in [Threads -> Thread]
    BY <1>1, <1>7
  <1>9. TypeOK'
    BY <1>3, <1>6, <1>8 DEF IInv, TypeOK, OtherTypes, Entry
  <1>10. BurnsOnce'
    <2>1. /\ DOMAIN ledger' = DOMAIN ledger \cup {n} /\ ledger'[n].req = r
          /\ \A s \in DOMAIN ledger : ledger'[s].req = ledger[s].req /\ ledger[s].req # r
      BY <1>3, <1>4 DEF Burned
    <2> HIDE DEF e, n
    <2>2. ASSUME NEW s \in DOMAIN ledger', NEW u \in DOMAIN ledger', ledger'[s].req = ledger'[u].req
          PROVE  s = u
      BY <2>1, <2>2 DEF IInv, BurnsOnce
    <2> QED BY <2>2 DEF BurnsOnce
  <1>11. rec[r] = None
    BY <1>4, OnRecord DEF Burned
  <1>12. Records'
    <2>1. Filed' /\ OnDisk'
      BY <1>6 DEF IInv, Records, Filed, OnDisk
    <2>2. Truthful'
      BY <1>3, <1>6 DEF IInv, Records, Truthful
    <2>3. SettledIsInWallet'
      <3>1. ASSUME NEW s \in DOMAIN ledger', ledger'[s].status = "Settled"
            PROVE  disk[s] # None /\ disk[s][2] = ledger'[s].req /\ disk[s][1].sealed
        <4>1. s \in DOMAIN ledger /\ ledger'[s] = ledger[s]
          <5>1. ledger'[n].status = "Requested"
            BY <1>3
          <5> HIDE DEF e, n
          <5>2. s # n /\ s \in DOMAIN ledger
            BY <1>3, <3>1, <5>1
          <5> QED BY <1>3, <5>2
        <4> QED BY <3>1, <4>1 DEF IInv, Records, SettledIsInWallet
      <3> QED BY <1>6, <3>1 DEF SettledIsInWallet
    <2> QED BY <2>1, <2>2, <2>3 DEF Records
  <1>13. ASSUME NEW q \in Requests, q # r
         PROVE  Early(q)'
    <2>1. th'[q] = th[q] /\ Early(q)
      BY <1>1, <1>8, <1>13, Names DEF IInv
    <2> QED BY <1>3, <1>5, <1>6, <1>13, <2>1 DEF Early
  <1>14. Early(r)'
    BY <1>1, <1>3, <1>4, <1>6, <1>7, <1>8, <1>11 DEF Early
  <1>15. Persists
    BY <1>3, <1>6 DEF Persists
  <1>16. Late(r)'
    BY <1>1, <1>6, <1>7, <1>8 DEF Late, Working
  <1>17. \A t \in Threads : Late(t)'
    BY <1>8, <1>15, <1>16, LateKept
  <1> QED BY <1>9, <1>10, <1>12, <1>13, <1>14, <1>17 DEF IInv

\* The burn's own row is still empty.
LEMMA RecordKeepsInv ==
  ASSUME IInv, NEW r \in Requests, RecordAndOrder(r)
  PROVE  IInv'
  <1> DEFINE i == th[r].id
             R == [id |-> i, status |-> "Requested", sealed |-> FALSE]
  <1>1. /\ th \in [Threads -> Thread] /\ r \in Threads /\ Early(r) /\ Late(r)
        /\ th[r].pc = "burnt" /\ server # "down"
    BY Names DEF IInv, TypeOK, RecordAndOrder, Late
  <1>2. /\ rec \in [Requests -> Record \cup {None}] /\ rows \in [Ids -> Requests \cup {None}]
        /\ disk \in [Ids -> (Record \X Requests) \cup {None}]
    BY DEF IInv, TypeOK
  <1>3. /\ rec[r] = None /\ i \in DOMAIN ledger
        /\ ledger[i].req = r /\ ledger[i].status = "Requested"
    BY <1>1 DEF Early
  <1>4. i \in Ids /\ R \in Record
    <2>1. i # 0
      BY <1>3, LenProperties DEF IInv, TypeOK
    <2>2. i \in Ids
      BY <1>1, <2>1 DEF Thread
    <2> QED BY <2>2 DEF Record, Status
  <1>5. rec' = [rec EXCEPT ![r] = R] /\ rows' = [rows EXCEPT ![i] = r]
    BY DEF RecordAndOrder, Put
  <1>6. /\ rec'[r] = R /\ \A q \in Requests \ {r} : rec'[q] = rec[q]
        /\ rows'[i] = r /\ \A j \in Ids \ {i} : rows'[j] = rows[j]
    BY <1>2, <1>4, <1>5
  <1>7. R # None /\ r # None /\ <<R, r>> # None
    <2>1. <<R, r>> \in Record \X Requests
      BY <1>4
    <2> QED BY <1>4, <2>1, Names
  <1>8. disk' = [j \in Ids |-> IF rows'[j] = None THEN None ELSE <<rec'[rows'[j]], rows'[j]>>]
    BY DEF RecordAndOrder, Put, Persist
  <1>9. \A j \in Ids : rows[j] # None => rows[j] \in Requests /\ rows[j] # r
    BY <1>2, <1>3 DEF IInv, Records, Filed
  <1>10. disk'[i] = <<R, r>>
    BY <1>4, <1>6, <1>7, <1>8
  <1>11. ASSUME NEW j \in Ids, j # i
         PROVE  disk'[j] = disk[j]
    <2>1. disk[j] = IF rows[j] = None THEN None ELSE <<rec[rows[j]], rows[j]>>
      BY <1>1 DEF IInv, Records, OnDisk
    <2>2. disk'[j] = IF rows[j] = None THEN None ELSE <<rec'[rows[j]], rows[j]>>
      BY <1>6, <1>8, <1>11
    <2>3. rows[j] # None => rec'[rows[j]] = rec[rows[j]]
      BY <1>6, <1>9
    <2> QED BY <2>1, <2>2, <2>3
  <1>12. disk' = [disk EXCEPT ![i] = <<R, r>>]
    BY <1>2, <1>8, <1>10, <1>11
  <1>13. rows[i] = None
    <2>1. SUFFICES ASSUME rows[i] # None PROVE FALSE
      OBVIOUS
    <2>2. rec[rows[i]] # None /\ rec[rows[i]].id = i /\ rows[i] \in Requests
      BY <1>2, <1>4, <2>1 DEF IInv, Records, Filed
    <2>3. ledger[i].req = rows[i]
      BY <2>2, OnRecord
    <2> QED BY <1>3, <2>2, <2>3
  <1>14. UNCHANGED <<ledger, server>>
    BY DEF RecordAndOrder
  <1>15. Filed'
    <2>1. \A q \in Requests : rec'[q] # None => rec'[q].id \in Ids /\ rows'[rec'[q].id] = q
      BY <1>4, <1>6, <1>13, Names DEF IInv, Records, Filed
    <2>2. \A j \in Ids : rows'[j] # None => rec'[rows'[j]] # None /\ rec'[rows'[j]].id = j
      BY <1>6, <1>7, <1>9 DEF IInv, Records, Filed
    <2> QED BY <1>1, <1>14, <2>1, <2>2 DEF Filed
  <1>16. OnDisk'
    BY <1>8 DEF OnDisk
  <1>17. Truthful'
    <2>1. ASSUME NEW j \in Ids, disk'[j] # None
          PROVE  /\ disk'[j][1].id = j /\ j \in DOMAIN ledger /\ ledger[j].req = disk'[j][2]
                 /\ disk'[j][1].status \in {"Settled", "Cancelled"} => ledger[j].status = disk'[j][1].status
                 /\ disk'[j][1].status = "Sealed" => disk'[j][1].sealed
      <3>1. CASE j = i
        BY <1>3, <1>10, <3>1
      <3>2. CASE j # i
        BY <1>11, <2>1, <3>2 DEF IInv, Records, Truthful
      <3> QED BY <3>1, <3>2
    <2> QED BY <1>14, <2>1 DEF Truthful
  <1>18. SettledIsInWallet'
    <2>1. ASSUME NEW s \in DOMAIN ledger, ledger[s].status = "Settled"
          PROVE  disk'[s] # None /\ disk'[s][2] = ledger[s].req /\ disk'[s][1].sealed
      <3>1. s # i
        BY <1>3, <2>1
      <3>2. disk[s] # None /\ disk[s][2] = ledger[s].req /\ disk[s][1].sealed
        BY <2>1 DEF IInv, Records, SettledIsInWallet
      <3> QED BY <1>2, <1>12, <3>1, <3>2
    <2> QED BY <1>14, <2>1 DEF SettledIsInWallet
  <1>19. PICK x \in Thread :
           /\ th' = [th EXCEPT ![r] = x]
           /\ x.pc = "ordering" /\ x.req = th[r].req /\ x.op = th[r].op /\ x.id = th[r].id
    BY <1>1, Goes DEF RecordAndOrder, Pcs
  <1>20. th'[r] = x /\ (\A u \in Threads \ {r} : th'[u] = th[u]) /\ th' \in [Threads -> Thread]
    BY <1>1, <1>19
  <1>21. TypeOK'
    <2>1. rec' \in [Requests -> Record \cup {None}] /\ rows' \in [Ids -> Requests \cup {None}]
      BY <1>2, <1>4, <1>5
    <2>2. disk' \in [Ids -> (Record \X Requests) \cup {None}]
      BY <1>2, <1>4, <1>12
    <2>3. OtherTypes'
      BY TypesOfTheRest DEF OtherTypes, RecordAndOrder
    <2> QED BY <1>14, <1>20, <2>1, <2>2, <2>3 DEF IInv, TypeOK, OtherTypes
  <1>22. BurnsOnce' /\ Burned' = Burned
    BY <1>14 DEF IInv, BurnsOnce, Burned
  <1>23. Early(r)'
    BY <1>1, <1>19, <1>20 DEF Early
  <1>24. ASSUME NEW q \in Requests, q # r
         PROVE  Early(q)'
    <2>1. th'[q] = th[q] /\ rec'[q] = rec[q] /\ Early(q)
      BY <1>6, <1>20, <1>24, Names DEF IInv
    <2> QED BY <1>14, <1>22, <2>1 DEF Early
  <1>25. Persists
    BY <1>3, <1>6, <1>14 DEF Persists
  <1>26. Late(r)'
    BY <1>1, <1>6, <1>7, <1>14, <1>19, <1>20 DEF Late, Early
  <1>27. \A t \in Threads : Late(t)'
    BY <1>20, <1>25, <1>26, LateKept
  <1> QED BY <1>15, <1>16, <1>17, <1>18, <1>21, <1>22, <1>23, <1>24, <1>27 DEF IInv, Records
-----------------------------------------------------------------------------
(***************************************************************************)
(* Records that change.                                                    *)
(***************************************************************************)
\* A record is put back, and one thread moves.
LEMMA PutMoves ==
  ASSUME IInv, NEW r \in Requests, rec[r] # None, NEW R \in Record, R.id = rec[r].id,
         rec[r].sealed => R.sealed, R.status = "Sealed" => R.sealed,
         R.status \in {"Settled", "Cancelled"} => ledger[rec[r].id].status = R.status,
         Put(r, R), UNCHANGED <<ledger, server>>, OtherTypes',
         NEW t \in Threads, NEW x \in Thread, th' = [th EXCEPT ![t] = x],
         t \in Requests => Early(t)', Late(t)'
  PROVE  IInv'
  <1>1. /\ Records' /\ rows' = rows
        /\ rec' \in [Requests -> Record \cup {None}]
        /\ disk' \in [Ids -> (Record \X Requests) \cup {None}]
        /\ rec'[r] = R /\ \A q \in Requests \ {r} : rec'[q] = rec[q]
    BY Refiled
  <1>2. th \in [Threads -> Thread]
    BY DEF IInv, TypeOK
  <1>3. (\A u \in Threads \ {t} : th'[u] = th[u]) /\ th' \in [Threads -> Thread]
    BY <1>2
  <1>4. Persists
    BY <1>1, Names DEF Persists
  <1>5. \A u \in Threads : Late(u)'
    BY <1>3, <1>4, LateKept
  <1>6. \A q \in Requests : Early(q)'
    <2>1. Burned' = Burned
      BY DEF Burned
    <2>2. ASSUME NEW q \in Requests, q # t PROVE Early(q)'
      <3>1. th'[q] = th[q] /\ Early(q)
        BY <1>3, <2>2, Names DEF IInv
      <3>2. th[q].pc = "burnt" => rec'[q] = None
        BY <1>1, <3>1 DEF Early
      <3> QED BY <2>1, <3>1, <3>2 DEF Early
    <2> QED BY <2>2
  <1>7. BurnsOnce'
    BY DEF IInv, BurnsOnce
  <1>8. TypeOK'
    BY <1>1, <1>3 DEF IInv, TypeOK, OtherTypes
  <1> QED BY <1>1, <1>5, <1>6, <1>7, <1>8 DEF IInv

\* A thread at work has a record, and its server is not down.
LEMMA AtWork ==
  ASSUME IInv, NEW t \in Threads, th[t].pc \in Working
  PROVE  /\ th[t].req \in Requests /\ rec[th[t].req] # None /\ rec[th[t].req] \in Record
         /\ server # "down"
         /\ rec[th[t].req].id \in DOMAIN ledger /\ rec[th[t].req].id \in Ids
         /\ t \in Requests => th[t].req = t /\ th[t].op = "swap"
         /\ t \notin Requests => th[t].op # "swap"
  <1>1. Late(t) /\ (t \in Requests => Early(t))
    BY DEF IInv
  <1>2. th[t].req \in Requests /\ rec[th[t].req] # None
    BY <1>1 DEF Late
  <1> QED BY <1>1, <1>2, OnRecord DEF Late, Early

\* A card is sealed into the record of its request, and onto disk with it.
LEMMA SealKeepsInv ==
  ASSUME IInv, NEW t \in Threads, th[t].pc \in Working, SealRecord(t)
  PROVE  IInv'
  <1> DEFINE r == th[t].req
             R == [rec[r] EXCEPT !.status = "Sealed", !.sealed = TRUE]
  <1>1. /\ r \in Requests /\ rec[r] # None /\ rec[r] \in Record /\ server # "down"
        /\ t \in Requests => r = t /\ th[t].op = "swap"
        /\ t \notin Requests => th[t].op # "swap"
    BY AtWork
  <1>2. R \in Record /\ R.id = rec[r].id /\ R.sealed /\ R.status = "Sealed"
    BY <1>1 DEF Record, Status
  <1>3. Put(r, R) /\ Goto(t, "check") /\ UNCHANGED <<ledger, server>> /\ OtherTypes'
    BY TypesOfTheRest DEF SealRecord, world, OtherTypes
  <1>4. PICK x \in Thread :
          /\ th' = [th EXCEPT ![t] = x]
          /\ x.pc = "check" /\ x.req = r /\ x.op = th[t].op /\ x.id = th[t].id
    BY <1>3, Goes DEF Pcs
  <1>5. th'[t] = x
    BY <1>4 DEF IInv, TypeOK
  <1>6. t \in Requests => Early(t)'
    BY <1>1, <1>4, <1>5 DEF Early
  <1> HIDE DEF R, r
  <1>7. rec'[r] = R
    BY <1>1, <1>2, <1>3, Refiled
  <1>8. R # None
    BY <1>2, Names
  <1>9. Late(t)'
    <2>1. th'[t].req = r /\ th'[t].pc = "check" /\ th'[t].op = th[t].op
      BY <1>4, <1>5
    <2>2. server' # "down"
      BY <1>1, <1>3
    <2> QED BY <1>1, <1>2, <1>7, <1>8, <2>1, <2>2 DEF Late
  <1> QED BY <1>1, <1>2, <1>3, <1>4, <1>6, <1>9, PutMoves

\* The swap's handler defers: the record is written as it is.
LEMMA DeferKeepsInv ==
  ASSUME IInv, NEW t \in Threads, th[t].pc \in Working,
         Put(th[t].req, rec[th[t].req]), Finish(t), UNCHANGED <<ledger, server>>, OtherTypes'
  PROVE  IInv'
  <1>1. th[t].req \in Requests /\ rec[th[t].req] # None /\ rec[th[t].req] \in Record
    BY AtWork
  <1>2. /\ rec[th[t].req].status = "Sealed" => rec[th[t].req].sealed
        /\ rec[th[t].req].status \in {"Settled", "Cancelled"} =>
             ledger[rec[th[t].req].id].status = rec[th[t].req].status
    BY <1>1, OnRecord
  <1>3. PICK x \in Thread :
          /\ th' = [th EXCEPT ![t] = x]
          /\ t \in Requests => x.pc = "done" /\ x.req = t /\ x.op = "swap"
          /\ t \notin Requests => x.pc = "idle" /\ x.op # "swap"
    BY Finished
  <1>4. th'[t] = x
    BY <1>3 DEF IInv, TypeOK
  <1>5. (t \in Requests => Early(t)') /\ Late(t)'
    BY <1>3, <1>4 DEF Early, Late, Working
  <1> QED BY <1>1, <1>2, <1>3, <1>5, PutMoves

\* The record says what the ledger has decided, and the handler ends.
LEMMA MarkKeepsInv ==
  ASSUME IInv, NEW t \in Threads, th[t].pc \in Working, NEW st \in {"Settled", "Cancelled"},
         ledger[rec[th[t].req].id].status = st,
         Put(th[t].req, [rec[th[t].req] EXCEPT !.status = st]), Finish(t),
         UNCHANGED <<ledger, server>>, OtherTypes'
  PROVE  IInv'
  <1> DEFINE r == th[t].req
             R == [rec[r] EXCEPT !.status = st]
  <1>1. r \in Requests /\ rec[r] # None /\ rec[r] \in Record
    BY AtWork
  <1>2. R \in Record /\ R.id = rec[r].id /\ R.sealed = rec[r].sealed /\ R.status = st
    BY <1>1 DEF Record, Status
  <1>3. PICK x \in Thread :
          /\ th' = [th EXCEPT ![t] = x]
          /\ t \in Requests => x.pc = "done" /\ x.req = t /\ x.op = "swap"
          /\ t \notin Requests => x.pc = "idle" /\ x.op # "swap"
    BY Finished
  <1>4. th'[t] = x
    BY <1>3 DEF IInv, TypeOK
  <1>5. (t \in Requests => Early(t)') /\ Late(t)'
    BY <1>3, <1>4 DEF Early, Late, Working
  <1>6. Put(r, R)
    OBVIOUS
  <1> HIDE DEF R, r
  <1> QED BY <1>1, <1>2, <1>3, <1>5, <1>6, PutMoves DEF r
-----------------------------------------------------------------------------
(***************************************************************************)
(* What the ledger decides.                                                *)
(***************************************************************************)
\* An open swap whose record is in memory is settled, if the record holds the
\* card, or cancelled; the thread that asked goes on to its next await.
LEMMA DecisionKeepsInv ==
  ASSUME IInv, NEW t \in Threads, th[t].pc \in Working, NEW st \in {"Settled", "Cancelled"},
         NEW pc \in {"settled", "cancelled"}, pc = "settled" <=> st = "Settled",
         st = "Settled" => rec[th[t].req].sealed,
         StatusOf(t) = "Requested",
         ledger' = [ledger EXCEPT ![rec[th[t].req].id].status = st],
         Goto(t, pc), UNCHANGED <<rec, rows, disk, server>>, OtherTypes'
  PROVE  IInv'
  <1> DEFINE r == th[t].req
             i == rec[r].id
  <1>1. /\ r \in Requests /\ rec[r] # None /\ rec[r] \in Record /\ server # "down"
        /\ i \in Ids /\ i \in DOMAIN ledger
        /\ t \in Requests => r = t /\ th[t].op = "swap"
        /\ t \notin Requests => th[t].op # "swap"
    BY AtWork
  <1>2. ledger[i].req = r /\ disk[i] = <<rec[r], r>> /\ ledger[i].status = "Requested"
    BY <1>1, OnRecord DEF StatusOf
  <1>3. ledger \in Seq(Entry) /\ ledger[i] \in Entry
    <2>1. ledger \in Seq(Entry)
      BY DEF IInv, TypeOK, Entry
    <2> QED BY <1>1, <2>1, ElementOfSeq, LenProperties
  <1> DEFINE e == [ledger[i] EXCEPT !.status = st]
  <1>4. e \in Entry /\ e.req = r /\ e.status = st
    BY <1>2, <1>3 DEF Entry, Status
  <1>5. ledger' = [ledger EXCEPT ![i] = e]
    OBVIOUS
  <1> HIDE DEF e
  <1>6. ledger' \in Seq(Entry) /\ Len(ledger') = Len(ledger)
    BY <1>1, <1>3, <1>4, <1>5, ExceptSeq, LenProperties
  <1>7. /\ DOMAIN ledger' = DOMAIN ledger /\ ledger'[i] = e
        /\ \A s \in DOMAIN ledger \ {i} : ledger'[s] = ledger[s]
    BY <1>1, <1>5
  <1>8. \A s \in DOMAIN ledger : ledger'[s].req = ledger[s].req
    BY <1>2, <1>4, <1>7
  <1>9. Burned' = Burned /\ BurnsOnce'
    BY <1>7, <1>8 DEF Burned, BurnsOnce, IInv
  <1>10. PICK x \in Thread :
           /\ th' = [th EXCEPT ![t] = x]
           /\ x.pc = pc /\ x.req = th[t].req /\ x.op = th[t].op /\ x.id = th[t].id
    BY Goes DEF Pcs
  <1>11. th'[t] = x /\ (\A u \in Threads \ {t} : th'[u] = th[u]) /\ th' \in [Threads -> Thread]
    BY <1>10 DEF IInv, TypeOK
  <1>12. TypeOK'
    BY <1>6, <1>11 DEF IInv, TypeOK, OtherTypes, Entry
  <1>13. Filed' /\ OnDisk'
    BY DEF IInv, Records, Filed, OnDisk
  <1>14. Truthful'
    <2>1. ASSUME NEW j \in Ids, disk[j] # None
          PROVE  /\ disk[j][1].id = j /\ j \in DOMAIN ledger' /\ ledger'[j].req = disk[j][2]
                 /\ disk[j][1].status \in {"Settled", "Cancelled"} => ledger'[j].status = disk[j][1].status
                 /\ disk[j][1].status = "Sealed" => disk[j][1].sealed
      <3>1. /\ disk[j][1].id = j /\ j \in DOMAIN ledger /\ ledger[j].req = disk[j][2]
            /\ disk[j][1].status \in {"Settled", "Cancelled"} => ledger[j].status = disk[j][1].status
            /\ disk[j][1].status = "Sealed" => disk[j][1].sealed
        BY <2>1 DEF IInv, Records, Truthful
      <3>2. disk[j][1].status \in {"Settled", "Cancelled"} => j # i
        BY <1>2, <3>1
      <3> QED BY <1>7, <1>8, <3>1, <3>2
    <2> QED BY <2>1 DEF Truthful
  <1>15. SettledIsInWallet'
    <2>1. ASSUME NEW s \in DOMAIN ledger, ledger'[s].status = "Settled"
          PROVE  disk[s] # None /\ disk[s][2] = ledger'[s].req /\ disk[s][1].sealed
      <3>1. CASE s = i
        <4>1. <<rec[r], r>> \in Record \X Requests
          BY <1>1
        <4>2. rec[r].sealed
          BY <1>4, <1>7, <2>1, <3>1
        <4>3. disk[s] = <<rec[r], r>> /\ disk[s] # None
          BY <1>2, <3>1, <4>1, Names
        <4>4. ledger'[s].req = r
          BY <1>1, <1>2, <1>8, <3>1
        <4> QED BY <4>2, <4>3, <4>4
      <3>2. CASE s # i
        BY <1>7, <2>1, <3>2 DEF IInv, Records, SettledIsInWallet
      <3> QED BY <3>1, <3>2
    <2> QED BY <1>7, <2>1 DEF SettledIsInWallet
  <1>16. \A q \in Requests : q # t => Early(q)'
    <2>1. ASSUME NEW q \in Requests, q # t PROVE Early(q)'
      <3>1. th'[q] = th[q] /\ Early(q)
        BY <1>11, <2>1, Names DEF IInv
      <3>2. th[q].pc = "burnt" => th[q].id # i
        BY <1>1, <1>2, <3>1 DEF Early
      <3> QED BY <1>6, <1>7, <1>9, <3>1, <3>2 DEF Early
    <2> QED BY <2>1
  <1>17. t \in Requests => Early(t)'
    BY <1>1, <1>10, <1>11 DEF Early
  <1>18. Persists
    BY <1>2, <1>7 DEF Persists
  <1>19. Late(t)
    BY DEF IInv
  <1>20. Late(t)'
    <2>1. ledger'[i].status = st
      BY <1>4, <1>7
    <2> QED BY <1>1, <1>10, <1>11, <1>19, <2>1 DEF Late
  <1>21. \A u \in Threads : Late(u)'
    BY <1>11, <1>18, <1>20, LateKept
  <1> QED BY <1>9, <1>12, <1>13, <1>14, <1>15, <1>16, <1>17, <1>21 DEF IInv, Records
-----------------------------------------------------------------------------
(***************************************************************************)
(* Operators, crash and restart.                                           *)
(***************************************************************************)
LEMMA TakeUpKeepsInv ==
  ASSUME IInv, NEW t \in Threads, t \notin Requests, NEW op \in {"cancel", "refund", "recover"},
         NEW id \in Ids, TakeUp(t, op, id),
         UNCHANGED <<ledger, rec, rows, disk, server>>, OtherTypes'
  PROVE  IInv'
  <1> DEFINE r == rows[id]
             x == [Fresh(t) EXCEPT
                     !.pc = IF rec[r].status = "Sealed" THEN "check" ELSE "lookup",
                     !.op = op, !.req = r, !.id = id]
  <1>1. r \in Requests /\ rec[r] # None
    BY DEF TakeUp, IInv, TypeOK, Records, Filed
  <1>2. /\ x \in Thread /\ x.req = r /\ x.op = op
        /\ x.pc = IF rec[r].status = "Sealed" THEN "check" ELSE "lookup"
    <2>1. Fresh(t) \in Thread
      BY FreshThread
    <2> DEFINE pc == IF rec[r].status = "Sealed" THEN "check" ELSE "lookup"
    <2>2. pc \in Pcs /\ op \in {"swap", "cancel", "refund", "recover"}
          /\ r \in Requests \cup {None} /\ id \in Ids \cup {0}
      BY <1>1 DEF Pcs
    <2>3. \A f \in Thread : LET y == [f EXCEPT !.pc = pc, !.op = op, !.req = r, !.id = id]
                           IN  y \in Thread /\ y.req = r /\ y.op = op /\ y.pc = pc
      <3> HIDE DEF pc, r
      <3> QED BY <2>2 DEF Thread
    <2> QED BY <2>1, <2>3
  <1>3. th' = [th EXCEPT ![t] = x] /\ th'[t] = x
    BY DEF TakeUp, IInv, TypeOK
  <1>4. server # "down" /\ (rec[r].status = "Sealed" => rec[r].sealed)
    BY <1>1, OnRecord
  <1> HIDE DEF x, r
  <1>5. Late(t)'
    BY <1>1, <1>2, <1>3, <1>4 DEF Late
  <1> QED BY <1>2, <1>3, <1>5, ThreadMoves

\* Memory is lost; the file stays as it was while there was memory.
LEMMA CrashKeepsInv ==
  ASSUME IInv, Crash
  PROVE  IInv'
  <1>1. /\ rec' = [r \in Requests |-> None] /\ rows' = [i \in Ids |-> None]
        /\ server' = "down" /\ todo' = {} /\ UNCHANGED <<ledger, paused, orders, wire, disk>>
    BY DEF Crash
  <1>2. \A t \in Threads :
          th'[t] = IF t \in Requests /\ th[t].pc # "idle" THEN [th[t] EXCEPT !.pc = "done"] ELSE Fresh(t)
    BY DEF Crash
  <1>3. \A t \in Threads : th[t] \in Thread
    BY DEF IInv, TypeOK
  <1>4. ASSUME NEW t \in Threads
        PROVE  /\ th'[t] \in Thread /\ th'[t].pc \in {"idle", "done"}
               /\ t \in Requests => th'[t].req = t /\ th'[t].op = "swap"
               /\ t \in Requests /\ th'[t].pc = "idle" => th[t].pc = "idle"
               /\ t \notin Requests => th'[t].pc = "idle" /\ th'[t].op # "swap"
    <2>1. CASE t \in Requests /\ th[t].pc # "idle"
      <3>1. th'[t] = [th[t] EXCEPT !.pc = "done"]
        BY <1>2, <2>1
      <3>2. th[t].req = t /\ th[t].op = "swap"
        BY <2>1 DEF IInv, Early
      <3> QED BY <1>3, <2>1, <3>1, <3>2 DEF Thread, Pcs
    <2>2. CASE ~(t \in Requests /\ th[t].pc # "idle")
      <3>1. th'[t] = Fresh(t)
        BY <1>2, <2>2
      <3> QED BY <2>2, <3>1, FreshThread
    <2> QED BY <2>1, <2>2
  <1>5. th' \in [Threads -> Thread]
    BY <1>4 DEF Crash
  <1>6. TypeOK'
    <2>1. faults' \in 0..MaxFaults
      BY BoundsAssumption DEF Crash, Fault, IInv, TypeOK
    <2> QED BY <1>1, <1>5, <2>1 DEF IInv, TypeOK
  <1>7. BurnsOnce' /\ Burned' = Burned
    BY <1>1 DEF IInv, BurnsOnce, Burned
  <1>8. Filed'
    BY <1>1, Names DEF Filed
  <1>9. OnDisk' /\ Truthful' /\ SettledIsInWallet'
    BY <1>1 DEF IInv, Records, OnDisk, Truthful, SettledIsInWallet
  <1>10. \A r \in Requests : Early(r)'
    BY <1>4, <1>7, Names DEF IInv, Early
  <1>11. \A t \in Threads : Late(t)'
    BY <1>4 DEF Late, Working
  <1> QED BY <1>6, <1>7, <1>8, <1>9, <1>10, <1>11 DEF IInv, Records

\* The file gives memory back as it was: no swap is in two rows.
LEMMA RestartKeepsInv ==
  ASSUME IInv, Restart
  PROVE  IInv'
  <1>1. /\ server = "down" /\ server' = "recovering"
        /\ UNCHANGED <<ledger, paused, orders, wire, faults, disk, th>>
        /\ rows' = [i \in Ids |-> IF disk[i] = None THEN None ELSE disk[i][2]]
        /\ rec' = [r \in Requests |->
                     IF \E i \in Ids : rows'[i] = r
                       THEN disk[CHOOSE i \in Ids : rows'[i] = r][1] ELSE None]
    BY DEF Restart, world
  <1>2. disk \in [Ids -> (Record \X Requests) \cup {None}]
    BY DEF IInv, TypeOK
  <1>3. ASSUME NEW i \in Ids, disk[i] # None
        PROVE  /\ disk[i][1] \in Record /\ disk[i][2] \in Requests
               /\ disk[i] = <<disk[i][1], disk[i][2]>>
               /\ disk[i][1].id = i /\ i \in DOMAIN ledger /\ ledger[i].req = disk[i][2]
    <2>1. disk[i] \in Record \X Requests
      BY <1>2, <1>3
    <2> QED BY <1>3, <2>1 DEF IInv, Records, Truthful
  <1>4. ASSUME NEW i \in Ids, disk[i] # None
        PROVE  rows'[i] = disk[i][2] /\ rec'[disk[i][2]] = disk[i][1]
    <2>1. rows'[i] = disk[i][2]
      BY <1>1, <1>4
    <2>2. \A j \in Ids : rows'[j] = disk[i][2] => j = i
      <3>1. ASSUME NEW j \in Ids, rows'[j] = disk[i][2]
            PROVE  j = i
        <4>1. disk[j] # None
          BY <1>1, <1>3, <1>4, <3>1, Names
        <4>2. disk[j][2] = disk[i][2]
          BY <1>1, <3>1, <4>1
        <4> QED BY <1>3, <1>4, <4>1, <4>2 DEF IInv, BurnsOnce
      <3> QED BY <3>1
    <2>3. (CHOOSE j \in Ids : rows'[j] = disk[i][2]) = i
      BY <2>1, <2>2
    <2> QED BY <1>1, <1>3, <1>4, <2>1, <2>3
  <1>5. ASSUME NEW r \in Requests, rec'[r] # None
        PROVE  \E i \in Ids : disk[i] # None /\ disk[i][2] = r
    <2>1. PICK i \in Ids : rows'[i] = r
      BY <1>1, <1>5
    <2>2. disk[i] # None
      BY <1>1, <2>1, Names
    <2> QED BY <1>1, <2>1, <2>2
  <1>6. rows' \in [Ids -> Requests \cup {None}]
    BY <1>1, <1>3
  <1>7. rec' \in [Requests -> Record \cup {None}]
    <2>1. \A r \in Requests : rec'[r] \in Record \cup {None}
      BY <1>3, <1>4, <1>5
    <2>2. rec' = [r \in Requests |-> rec'[r]]
      BY <1>1
    <2> QED BY <2>1, <2>2
  <1>8. TypeOK'
    <2>1. todo' \subseteq Ids
      BY DEF Restart
    <2> QED BY <1>1, <1>6, <1>7, <2>1 DEF IInv, TypeOK
  <1>9. Filed'
    <2>1. \A r \in Requests : rec'[r] # None => rec'[r].id \in Ids /\ rows'[rec'[r].id] = r
      BY <1>3, <1>4, <1>5
    <2>2. \A i \in Ids : rows'[i] # None => rec'[rows'[i]] # None /\ rec'[rows'[i]].id = i
      <3>1. ASSUME NEW i \in Ids, rows'[i] # None
            PROVE  rec'[rows'[i]] # None /\ rec'[rows'[i]].id = i
        <4>1. disk[i] # None
          BY <1>1, <3>1
        <4> QED BY <1>3, <1>4, <4>1, Names
      <3> QED BY <3>1
    <2> QED BY <1>1, <2>1, <2>2 DEF Filed
  <1>10. OnDisk'
    <2>1. ASSUME NEW i \in Ids
          PROVE  disk[i] = IF rows'[i] = None THEN None ELSE <<rec'[rows'[i]], rows'[i]>>
      <3>1. CASE disk[i] = None
        BY <1>1, <3>1
      <3>2. CASE disk[i] # None
        BY <1>3, <1>4, <3>2, Names
      <3> QED BY <3>1, <3>2
    <2> QED BY <1>1, <2>1 DEF OnDisk
  <1>11. Truthful' /\ SettledIsInWallet' /\ BurnsOnce' /\ Burned' = Burned
    BY <1>1 DEF IInv, Records, Truthful, SettledIsInWallet, BurnsOnce, Burned
  <1>12. \A t \in Threads : th'[t].pc \in {"idle", "done"} /\ th'[t] = th[t]
    BY <1>1 DEF IInv, Late
  <1>13. \A r \in Requests : Early(r)'
    BY <1>11, <1>12, Names DEF IInv, Early
  <1>14. \A t \in Threads : Late(t)'
    BY <1>1, <1>12 DEF IInv, Late, Working
  <1> QED BY <1>8, <1>9, <1>10, <1>11, <1>13, <1>14 DEF IInv, Records
-----------------------------------------------------------------------------
(***************************************************************************)
(* Every step.                                                             *)
(***************************************************************************)
LEMMA InitIInv == Init => IInv
  <1> SUFFICES ASSUME Init PROVE IInv
    OBVIOUS
  <1>1. /\ ledger = <<>> /\ DOMAIN ledger = {} /\ server = "up"
        /\ \A r \in Requests : rec[r] = None
        /\ \A i \in Ids : rows[i] = None /\ disk[i] = None
        /\ \A t \in Threads : th[t] = Fresh(t)
    BY DEF Init
  <1>2. TypeOK
    <2>1. th \in [Threads -> Thread]
      BY FreshThread DEF Init
    <2>2. faults \in 0..MaxFaults
      BY BoundsAssumption DEF Init
    <2>3. ledger \in Seq([req : Requests, status : Status \ {"Sealed"}]) /\ paused \in BOOLEAN
      BY EmptySeq DEF Init
    <2>4. /\ orders \subseteq Requests /\ server \in {"down", "recovering", "up"} /\ todo \subseteq Ids
          /\ wire \in [Requests -> {"unsent", "sent", "card", "declined", "failed", "garbled", "lost"}]
      BY DEF Init
    <2>5. /\ rec \in [Requests -> Record \cup {None}] /\ rows \in [Ids -> Requests \cup {None}]
          /\ disk \in [Ids -> (Record \X Requests) \cup {None}]
      BY DEF Init
    <2> QED BY <2>1, <2>2, <2>3, <2>4, <2>5 DEF TypeOK
  <1>3. BurnsOnce /\ Records
    BY <1>1 DEF BurnsOnce, Records, Filed, OnDisk, Truthful, SettledIsInWallet
  <1>4. \A r \in Requests : Early(r)
    BY <1>1, FreshThread, Names DEF Early, Burned
  <1>5. \A t \in Threads : Late(t)
    BY <1>1, FreshThread DEF Late, Working
  <1> QED BY <1>2, <1>3, <1>4, <1>5 DEF IInv

\* A method that throws leaves everything but its thread alone.
LEMMA ThrowKeepsInv ==
  ASSUME IInv, NEW t \in Threads, Throw(t), ledger' = ledger, OtherTypes'
  PROVE  IInv'
  BY FinishIsSafe DEF Throw, unrecorded

\* The provider touches nothing of the service.
LEMMA ProviderKeepsInv ==
  ASSUME IInv, NEW r \in Requests, Provider(r)
  PROVE  IInv'
  <1>1. UNCHANGED <<ledger, rec, rows, disk, th, server>>
    BY DEF Provider, ProviderIssues, ProviderRefuses, ReplyGarbled, unrecorded
  <1>2. UNCHANGED <<paused, todo>> /\ orders' \subseteq Requests
    BY DEF Provider, ProviderIssues, ProviderRefuses, ReplyGarbled, IInv, TypeOK
  <1>3. wire' \in [Requests -> {"unsent", "sent", "card", "declined", "failed", "garbled", "lost"}]
    BY DEF Provider, ProviderIssues, ProviderRefuses, ReplyGarbled, IInv, TypeOK
  <1>4. faults' \in 0..MaxFaults
    BY BoundsAssumption DEF Provider, ProviderIssues, ProviderRefuses, ReplyGarbled, Fault, IInv, TypeOK
  <1>5. OtherTypes'
    BY <1>1, <1>2, <1>3, <1>4, TypesOfTheRest DEF OtherTypes
  <1> QED BY <1>1, <1>5, WorldMoves

\* Every step of swap keeps the invariant.
LEMMA SwapKeepsInv ==
  ASSUME IInv, CountIsCurrent, NEW r \in Requests, Swap(r)
  PROVE  IInv'
  <1>0. r \in Threads /\ OtherTypes /\ "ordering" \in Working
    BY Names, TypesOfTheRest DEF Working
  <1>1. CASE CountSwaps(r)
    BY <1>1, CountSwapsKeepsInv
  <1>2. CASE Burn(r)
    BY <1>2, BurnKeepsInv DEF CountIsCurrent
  <1>3. CASE BurnRefused(r)
    BY <1>0, <1>3, ThrowKeepsInv DEF BurnRefused, Throw, world, OtherTypes
  <1>4. CASE RecordAndOrder(r)
    BY <1>4, RecordKeepsInv
  <1>5. CASE OrderAnswered(r)
    BY <1>0, <1>5, SealKeepsInv DEF OrderAnswered
  <1>6. CASE OrderDeclined(r) \/ OrderUncertain(r)
    <2>1. /\ UNCHANGED <<ledger, rec, rows, disk, server>> /\ OtherTypes'
          /\ th[r].pc = "ordering" /\ \E pc \in {"cancel", "lookup"} : Goto(r, pc)
      BY <1>0, <1>6 DEF OrderDeclined, OrderUncertain, unrecorded, world, OtherTypes
    <2>2. PICK pc \in {"cancel", "lookup"} : Goto(r, pc)
      BY <2>1
    <2> QED BY <1>0, <2>1, <2>2, GotoIsSafe DEF Pcs
  <1>7. CASE OrderUnreadable(r)
    BY <1>0, <1>7, ThrowKeepsInv DEF OrderUnreadable, Throw, world, OtherTypes
  <1> QED BY <1>1, <1>2, <1>3, <1>4, <1>5, <1>6, <1>7 DEF Swap

\* So does every lookup, whoever makes it and however it ends.
LEMMA LookupKeepsInv ==
  ASSUME IInv, NEW t \in Threads, Lookup(t)
  PROVE  IInv'
  <1>0. th[t].pc = "lookup" /\ "lookup" \in Working /\ OtherTypes /\ th \in [Threads -> Thread]
    BY TypesOfTheRest DEF Lookup, LookupFinds, LookupEmpty, Working, IInv, TypeOK
  <1>1. CASE LookupFinds(t)
    BY <1>0, <1>1, SealKeepsInv DEF LookupFinds
  <1>2. CASE LookupEmpty(t)
    <2>1. UNCHANGED <<ledger, server>> /\ OtherTypes'
      BY <1>0, <1>2 DEF LookupEmpty, world, OtherTypes
    <2>2. CASE ~LastLookup(t)
      <3> DEFINE x == [th[t] EXCEPT !.tries = @ + 1]
      <3>1. th' = [th EXCEPT ![t] = x] /\ UNCHANGED <<rec, rows, disk>>
        BY <1>2, <2>2 DEF LookupEmpty, unrecorded
      <3>2. th[t].tries \in 0..LookupAttempts - 1 /\ th[t].tries + 1 # LookupAttempts
        BY <1>0, <2>2 DEF LastLookup, Thread
      <3>3. th[t].tries + 1 \in 0..LookupAttempts - 1
        BY <3>2, BoundsAssumption
      <3>4. x \in Thread /\ x.pc = "lookup" /\ x.req = th[t].req /\ x.op = th[t].op /\ x.id = th[t].id
        BY <1>0, <3>3 DEF Thread
      <3> HIDE DEF x
      <3>5. th'[t] = x
        BY <1>0, <3>1
      <3>6. t \in Requests => Early(t)'
        BY <1>0, <3>4, <3>5 DEF Early, IInv
      <3>7. Late(t)'
        BY <1>0, <2>1, <3>1, <3>4, <3>5 DEF Late, IInv
      <3> QED BY <2>1, <3>1, <3>4, <3>6, <3>7, ThreadMoves
    <2>3. CASE LastLookup(t)
      <3>1. GiveUpLookup(t)
        BY <1>2, <2>3 DEF LookupEmpty
      <3>2. CASE Goto(t, "cancel") /\ UNCHANGED unrecorded
        BY <1>0, <2>1, <3>2, GotoIsSafe DEF unrecorded, Pcs
      <3>3. CASE Finish(t) /\ UNCHANGED unrecorded
        BY <2>1, <3>3, FinishIsSafe DEF unrecorded
      <3>4. CASE Put(th[t].req, rec[th[t].req]) /\ Finish(t)
        BY <1>0, <2>1, <3>4, DeferKeepsInv
      <3> QED BY <3>1, <3>2, <3>3, <3>4 DEF GiveUpLookup
    <2> QED BY <2>2, <2>3
  <1> QED BY <1>1, <1>2 DEF Lookup

\* So does every step of the settlement and of the refund.
LEMMA DecideKeepsInv ==
  ASSUME IInv, NEW t \in Threads, Decide(t)
  PROVE  IInv'
  <1>0. /\ th[t].pc \in Working /\ {"check", "settle", "settled", "cancel", "cancelled"} \subseteq Working
        /\ OtherTypes /\ Late(t)
    BY TypesOfTheRest
    DEF Decide, CheckStatus, SettleSwap, SettleRefused, SettleKnown, CancelSwap, CancelRefused, CancelKnown,
        Working, IInv
  <1>1. UNCHANGED <<server>> /\ OtherTypes'
    BY <1>0 DEF Decide, CheckStatus, SettleSwap, SettleRefused, SettleKnown, CancelSwap, CancelRefused,
        CancelKnown, MarkSettled, SettleThrows, Throw, world, OtherTypes
  <1>2. CASE CheckStatus(t)
    <2>1. CASE StatusOf(t) = "Settled"
      <3>1. Put(th[t].req, [rec[th[t].req] EXCEPT !.status = "Settled"]) /\ Finish(t) /\ UNCHANGED ledger
        BY <1>2, <2>1 DEF CheckStatus, MarkSettled
      <3> QED BY <1>0, <1>1, <2>1, <3>1, MarkKeepsInv DEF StatusOf
    <2>2. CASE StatusOf(t) = "Requested"
      <3>1. th[t].pc = "check" /\ Goto(t, "settle") /\ UNCHANGED <<ledger, rec, rows, disk>>
        BY <1>2, <2>2 DEF CheckStatus, unrecorded
      <3> QED BY <1>0, <1>1, <3>1, GotoIsSafe DEF Pcs
    <2>3. CASE StatusOf(t) \notin {"Settled", "Requested"}
      BY <1>1, <1>2, <2>3, ThrowKeepsInv DEF CheckStatus
    <2> QED BY <2>1, <2>2, <2>3
  <1>3. CASE SettleSwap(t)
    <2>1. /\ th[t].pc = "settle" /\ StatusOf(t) = "Requested" /\ Goto(t, "settled")
          /\ ledger' = [ledger EXCEPT ![rec[th[t].req].id].status = "Settled"]
          /\ UNCHANGED <<rec, rows, disk>>
      BY <1>3 DEF SettleSwap, unrecorded
    <2>2. rec[th[t].req].sealed
      BY <1>0, <2>1 DEF Late
    <2> QED BY <1>0, <1>1, <2>1, <2>2, DecisionKeepsInv
  <1>4. CASE SettleRefused(t)
    BY <1>1, <1>4, ThrowKeepsInv DEF SettleRefused, SettleThrows
  <1>5. CASE SettleKnown(t)
    <2>1. ledger[rec[th[t].req].id].status = "Settled"
      BY <1>0, <1>5 DEF SettleKnown, Late
    <2>2. Put(th[t].req, [rec[th[t].req] EXCEPT !.status = "Settled"]) /\ Finish(t) /\ UNCHANGED ledger
      BY <1>5 DEF SettleKnown, MarkSettled
    <2> QED BY <1>0, <1>1, <2>1, <2>2, MarkKeepsInv
  <1>6. CASE CancelSwap(t)
    <2>1. /\ StatusOf(t) = "Requested" /\ Goto(t, "cancelled")
          /\ ledger' = [ledger EXCEPT ![rec[th[t].req].id].status = "Cancelled"]
          /\ UNCHANGED <<rec, rows, disk>>
      BY <1>6 DEF CancelSwap, unrecorded
    <2> QED BY <1>0, <1>1, <2>1, DecisionKeepsInv
  <1>7. CASE CancelRefused(t)
    BY <1>1, <1>7, ThrowKeepsInv DEF CancelRefused
  <1>8. CASE CancelKnown(t)
    <2>1. ledger[rec[th[t].req].id].status = "Cancelled"
      BY <1>0, <1>8 DEF CancelKnown, Late
    <2>2. Put(th[t].req, [rec[th[t].req] EXCEPT !.status = "Cancelled"]) /\ Finish(t) /\ UNCHANGED ledger
      BY <1>8 DEF CancelKnown
    <2> QED BY <1>0, <1>1, <2>1, <2>2, MarkKeepsInv
  <1> QED BY <1>2, <1>3, <1>4, <1>5, <1>6, <1>7, <1>8 DEF Decide

\* So does every button of the console.
LEMMA OperatorKeepsInv ==
  ASSUME IInv, NEW o \in Operators, Operator(o)
  PROVE  IInv'
  <1>1. PICK id \in Ids : PressCancel(o, id) \/ PressRefund(o, id)
    BY DEF Operator
  <1>2. PICK op \in {"cancel", "refund"} : TakeUp(o, op, id)
    BY <1>1 DEF PressCancel, PressRefund
  <1>3. UNCHANGED <<ledger, rec, rows, disk, server>> /\ OtherTypes'
    BY <1>1, TypesOfTheRest DEF PressCancel, PressRefund, unrecorded, world, OtherTypes
  <1> QED BY <1>2, <1>3, TakeUpKeepsInv, Names

\* So does every step of the start-up.
LEMMA RecoverKeepsInv ==
  ASSUME IInv, Recover
  PROVE  IInv'
  <1>1. CASE Restart
    BY <1>1, RestartKeepsInv
  <1>2. CASE RecoverDone
    <2>1. /\ UNCHANGED <<ledger, rec, rows, disk, th>> /\ OtherTypes'
          /\ server' = "down" <=> server = "down"
      BY <1>2, TypesOfTheRest DEF RecoverDone, unrecorded, world, OtherTypes
    <2> QED BY <2>1, WorldMoves
  <1>3. CASE \E id \in Ids : RecoverNext(id)
    <2>1. PICK id \in Ids : RecoverNext(id)
      BY <1>3
    <2>2. UNCHANGED <<ledger, rec, rows, disk, server>> /\ OtherTypes'
      BY <2>1, TypesOfTheRest DEF RecoverNext, unrecorded, world, OtherTypes
    <2> QED BY <2>1, <2>2, TakeUpKeepsInv, Names DEF RecoverNext
  <1> QED BY <1>1, <1>2, <1>3 DEF Recover

\* The invariant is inductive.
LEMMA NextIInv == IInv /\ [CountIsCurrent]_vars /\ [Next]_vars => IInv'
  <1> SUFFICES ASSUME IInv, [CountIsCurrent]_vars, [Next]_vars PROVE IInv'
    OBVIOUS
  <1>1. CASE CountIsCurrent /\ \E r \in Requests : Provider(r) \/ Swap(r)
    BY <1>1, ProviderKeepsInv, SwapKeepsInv
  <1>2. CASE \E t \in Threads : Lookup(t) \/ Decide(t)
    BY <1>2, LookupKeepsInv, DecideKeepsInv
  <1>3. CASE \E t \in Threads : RpcFails(t)
    <2>1. PICK t \in Threads : RpcFails(t)
      BY <1>3
    <2>2. faults' \in 0..MaxFaults
      BY <2>1, BoundsAssumption DEF RpcFails, Fault, IInv, TypeOK
    <2>3. Throw(t) /\ ledger' = ledger /\ OtherTypes'
      BY <2>1, <2>2, TypesOfTheRest DEF RpcFails, Throw, OtherTypes
    <2> QED BY <2>3, ThrowKeepsInv
  <1>4. CASE \E o \in Operators : Operator(o)
    BY <1>4, OperatorKeepsInv
  <1>5. CASE \E on \in BOOLEAN : SetPause(on)
    <2>1. UNCHANGED <<ledger, rec, rows, disk, th, server>> /\ OtherTypes'
      BY <1>5, TypesOfTheRest DEF SetPause, unrecorded, world, OtherTypes
    <2> QED BY <2>1, WorldMoves
  <1>6. CASE Crash
    BY <1>6, CrashKeepsInv
  <1>7. CASE Recover
    BY <1>7, RecoverKeepsInv
  <1>8. CASE UNCHANGED vars
    <2>1. UNCHANGED <<ledger, rec, rows, disk, th, server>> /\ OtherTypes'
      BY <1>8, TypesOfTheRest DEF vars, OtherTypes
    <2> QED BY <2>1, WorldMoves
  <1> QED BY <1>1, <1>2, <1>3, <1>4, <1>5, <1>6, <1>7, <1>8 DEF Next

\* The inductive invariant: rows are those of the ledger's swaps, the file is
\* never behind a running process, and a thread knows at each await what its
\* next step relies on (swap.js, store.js).
THEOREM InductiveInvariant == Spec /\ NoStaleCount => []IInv
  <1> QED BY InitIInv, NextIInv, PTL DEF Spec, NoStaleCount

\* Every reachable state is well typed; in particular no id is ever read that
\* the ledger does not have.
THEOREM TypeCorrect == Spec /\ NoStaleCount => []TypeOK
  <1>1. IInv => TypeOK
    BY DEF IInv
  <1> QED BY <1>1, InductiveInvariant, PTL

\* Credits that bought a card and the card are never apart: settleDurable only
\* settles what sealAndSettle has put on disk, whatever crashes in between.
THEOREM SettledMeansInTheWallet == Spec /\ NoStaleCount => []SettledIsInWallet
  <1>1. IInv => SettledIsInWallet
    BY DEF IInv, Records
  <1> QED BY <1>1, InductiveInvariant, PTL

\* What a record shows as settled or refunded, the ledger has so decided, though
\* record and ledger are written on either side of an await.
THEOREM RecordsAreTrue == Spec /\ NoStaleCount => []RecordsTellTheTruth
  <1>1. IInv => RecordsTellTheTruth
    <2> SUFFICES ASSUME IInv, NEW i \in Ids, disk[i] # None, disk[i][1].status \in {"Settled", "Cancelled"}
                 PROVE  i \in DOMAIN ledger /\ ledger[i] = [req |-> disk[i][2], status |-> disk[i][1].status]
      BY DEF RecordsTellTheTruth
    <2>1. /\ i \in DOMAIN ledger /\ ledger[i].req = disk[i][2]
          /\ ledger[i].status = disk[i][1].status
      BY DEF IInv, Records, Truthful
    <2>2. ledger \in Seq(Entry)
      BY DEF IInv, TypeOK, Entry
    <2>3. ledger[i] \in Entry
      BY <2>1, <2>2, ElementOfSeq, LenProperties
    <2> QED BY <2>1, <2>3 DEF Entry
  <1> QED BY <1>1, InductiveInvariant, PTL
-----------------------------------------------------------------------------
(***************************************************************************)
(* The service keeps the promise of SwapPromise: every step burns, seals,  *)
(* delivers or refunds as the promise allows, or changes nothing the       *)
(* promise speaks of, whatever crashes, is lost or overlaps.               *)
(*                                                                         *)
(* A second condition: operators are patient, so that nobody confirms      *)
(* "no order" while the order is still on the wire.  Without it,           *)
(* NobodyGetsBoth fails.                                                   *)
(***************************************************************************)
\* The provider will never have a card for r.
Unfound(r) == r \notin orders /\ wire[r] \notin {"unsent", "sent"}

\* What the wire says of a request agrees with what the provider has issued,
\* and nothing is on it before the burn is recorded.
Ordered(r) ==
  /\ wire[r] \in {"unsent", "sent", "declined"} => r \notin orders
  /\ wire[r] \in {"card", "garbled"} => r \in orders
  /\ th[r].pc \in {"idle", "burn", "burnt"} => wire[r] = "unsent"
  /\ rec[r] # None => wire[r] # "unsent"

\* A sealed card is one the provider issued.
Issued(i) ==
  disk[i] # None =>
    wire[disk[i][2]] # "unsent" /\ (disk[i][1].sealed => disk[i][2] \in orders)

\* A thread that is going to refund has no card to fear.
Refunding(t) ==
  th[t].pc \in {"cancel", "cancelled"} \/ (th[t].pc = "lookup" /\ th[t].op = "refund") =>
    Unfound(th[t].req)

JInv ==
  /\ \A r \in Requests : Ordered(r)
  /\ \A i \in Ids : Issued(i)
  /\ \A t \in Threads : Refunding(t)
  /\ \A s \in DOMAIN ledger : ledger[s].status = "Cancelled" => Unfound(ledger[s].req)
-----------------------------------------------------------------------------
\* Types that are needed again and again.
LEMMA Types ==
  ASSUME IInv
  PROVE  /\ th \in [Threads -> Thread] /\ orders \subseteq Requests
         /\ wire \in [Requests -> {"unsent", "sent", "card", "declined", "failed", "garbled", "lost"}]
         /\ rec \in [Requests -> Record \cup {None}] /\ rows \in [Ids -> Requests \cup {None}]
         /\ disk \in [Ids -> (Record \X Requests) \cup {None}]
         /\ ledger \in Seq(Entry) /\ DOMAIN ledger = 1..Len(ledger) /\ Len(ledger) \in Nat
         /\ \A i \in Ids : disk[i] # None =>
              disk[i][1] \in Record /\ disk[i][2] \in Requests /\ disk[i] = <<disk[i][1], disk[i][2]>>
         /\ \A s \in DOMAIN ledger : ledger[s].req \in Requests /\ ledger[s].status \in Status \ {"Sealed"}
  <1>1. /\ th \in [Threads -> Thread] /\ orders \subseteq Requests
        /\ wire \in [Requests -> {"unsent", "sent", "card", "declined", "failed", "garbled", "lost"}]
        /\ rec \in [Requests -> Record \cup {None}] /\ rows \in [Ids -> Requests \cup {None}]
        /\ disk \in [Ids -> (Record \X Requests) \cup {None}]
        /\ ledger \in Seq(Entry)
    BY DEF IInv, TypeOK, Entry
  <1>2. DOMAIN ledger = 1..Len(ledger) /\ Len(ledger) \in Nat
    BY <1>1, LenProperties
  <1>3. ASSUME NEW s \in DOMAIN ledger
        PROVE  ledger[s].req \in Requests /\ ledger[s].status \in Status \ {"Sealed"}
    <2>1. ledger[s] \in Entry
      BY <1>1, <1>2, ElementOfSeq
    <2> QED BY <2>1 DEF Entry
  <1>4. ASSUME NEW i \in Ids, disk[i] # None
        PROVE  disk[i][1] \in Record /\ disk[i][2] \in Requests /\ disk[i] = <<disk[i][1], disk[i][2]>>
    <2>1. disk[i] \in Record \X Requests
      BY <1>1, <1>4
    <2> QED BY <2>1
  <1> QED BY <1>1, <1>2, <1>3, <1>4

\* Nothing is ordered and nothing issued at the start.
LEMMA InitJInv == Init => JInv
  <1> SUFFICES ASSUME Init PROVE JInv
    OBVIOUS
  <1>1. /\ DOMAIN ledger = {} /\ orders = {}
        /\ \A r \in Requests : rec[r] = None /\ wire[r] = "unsent"
        /\ \A i \in Ids : disk[i] = None
        /\ \A t \in Threads : th[t] = Fresh(t)
    BY DEF Init
  <1> QED BY <1>1, FreshThread DEF JInv, Ordered, Issued, Refunding

\* Steps at which nothing is ordered, and nothing answered.
QuietWorld ==
  /\ UNCHANGED <<orders, wire>>
  /\ \A r \in Requests : th'[r].pc \in {"idle", "burn", "burnt"} => th[r].pc \in {"idle", "burn", "burnt"}

\* One thread moves, to a refund only of what has no card.
OneMoves(t) ==
  /\ \A u \in Threads \ {t} : th'[u] = th[u]
  /\ Refunding(t)'

\* The ledger, memory and file stay.
LEMMA QuietMove ==
  ASSUME IInv, JInv, QuietWorld, UNCHANGED <<ledger, rec, disk>>,
         NEW t \in Threads, OneMoves(t)
  PROVE  JInv'
  BY DEF JInv, QuietWorld, OneMoves, Ordered, Issued, Refunding, Unfound

\* Ending is no refund.
LEMMA QuietEnd ==
  ASSUME IInv, NEW t \in Threads, Finish(t)
  PROVE  /\ OneMoves(t)
         /\ \A r \in Requests :
              th'[r].pc \in {"idle", "burn", "burnt"} => th[r].pc \in {"idle", "burn", "burnt"}
  <1>1. PICK x \in Thread :
          /\ th' = [th EXCEPT ![t] = x]
          /\ t \in Requests => x.pc = "done" /\ x.req = t /\ x.op = "swap"
          /\ t \notin Requests => x.pc = "idle" /\ x.op # "swap"
    BY Finished
  <1>2. th'[t] = x /\ \A u \in Threads \ {t} : th'[u] = th[u]
    BY <1>1, Types
  <1> QED BY <1>1, <1>2, Names DEF OneMoves, Refunding

\* The same of a step to the next await, past the burn.
LEMMA QuietGoto ==
  ASSUME IInv, NEW t \in Threads, NEW pc \in Pcs, Goto(t, pc), pc \notin {"idle", "burn", "burnt"},
         UNCHANGED <<orders, wire>>,
         pc \in {"cancel", "cancelled"} \/ (pc = "lookup" /\ th[t].op = "refund") => Unfound(th[t].req)
  PROVE  QuietWorld /\ OneMoves(t)
  <1>1. PICK x \in Thread :
           /\ th' = [th EXCEPT ![t] = x]
           /\ x.pc = pc /\ x.req = th[t].req /\ x.op = th[t].op /\ x.id = th[t].id
    BY Goes
  <1>2. th'[t] = x /\ \A u \in Threads \ {t} : th'[u] = th[u]
    BY <1>1, Types
  <1> QED BY <1>1, <1>2, Names DEF QuietWorld, OneMoves, Refunding, Unfound

\* A record is put back; if it now holds a card, the provider issued it.
LEMMA QuietPut ==
  ASSUME IInv, JInv, NEW r \in Requests, rec[r] # None, NEW R \in Record, R.id = rec[r].id,
         rec[r].sealed => R.sealed, R.status = "Sealed" => R.sealed,
         R.status \in {"Settled", "Cancelled"} => ledger[rec[r].id].status = R.status,
         Put(r, R), UNCHANGED <<ledger, server>>, QuietWorld,
         R.sealed => rec[r].sealed \/ r \in orders,
         NEW t \in Threads, OneMoves(t)
  PROVE  JInv'
  <1> DEFINE i == rec[r].id
  <1>1. /\ i \in Ids /\ disk[i] = <<rec[r], r>> /\ disk[i] # None
    <2>1. i \in Ids /\ disk[i] = <<rec[r], r>> /\ <<rec[r], r>> \in Record \X Requests
      BY OnRecord
    <2> QED BY <2>1, Names
  <1>2. /\ disk' = [disk EXCEPT ![i] = <<R, r>>]
        /\ rec'[r] = R /\ \A q \in Requests \ {r} : rec'[q] = rec[q]
    BY Refiled
  <1>3. wire[r] # "unsent" /\ (rec[r].sealed => r \in orders)
    <2>1. Issued(i)
      BY <1>1 DEF JInv
    <2>2. disk[i][1] = rec[r] /\ disk[i][2] = r
      BY <1>1
    <2> HIDE DEF i
    <2> QED BY <1>1, <2>1, <2>2 DEF Issued
  <1>4. \A j \in Ids : Issued(j)'
    BY <1>1, <1>2, <1>3, Types DEF JInv, Issued, QuietWorld
  <1>5. \A q \in Requests : Ordered(q)'
    BY <1>2, <1>3 DEF JInv, Ordered, QuietWorld
  <1>6. \A u \in Threads : Refunding(u)'
    BY DEF JInv, Refunding, OneMoves, QuietWorld, Unfound
  <1>7. (\A s \in DOMAIN ledger : ledger[s].status = "Cancelled" => Unfound(ledger[s].req))'
    BY DEF JInv, QuietWorld, Unfound
  <1> QED BY <1>4, <1>5, <1>6, <1>7 DEF JInv

\* A method that throws orders nothing and refunds nothing.
LEMMA ThrowKeepsJInv ==
  ASSUME IInv, JInv, NEW t \in Threads, Throw(t), UNCHANGED <<ledger, orders, wire>>
  PROVE  JInv'
  BY QuietMove, QuietEnd DEF Throw, unrecorded, QuietWorld
-----------------------------------------------------------------------------
\* What the provider issues was on the wire, so it was not given up.
LEMMA ProviderKeepsJInv ==
  ASSUME IInv, JInv, NEW r \in Requests, Provider(r)
  PROVE  JInv'
  <1>1. UNCHANGED <<ledger, rec, disk, th>> /\ wire \in [Requests -> {"unsent", "sent", "card", "declined", "failed", "garbled", "lost"}]
    BY Types DEF Provider, ProviderIssues, ProviderRefuses, ReplyGarbled, unrecorded
  <1>2. /\ \A q \in Requests \ {r} : wire'[q] = wire[q] /\ (q \in orders' <=> q \in orders)
        /\ orders \subseteq orders'
    BY <1>1 DEF Provider, ProviderIssues, ProviderRefuses, ReplyGarbled
  <1>3. /\ wire[r] \notin {"unsent", "declined", "failed", "lost", "garbled"} /\ wire'[r] \notin {"unsent", "sent"}
        /\ wire'[r] = "declined" => r \notin orders'
        /\ wire'[r] \in {"card", "garbled"} => r \in orders'
        /\ wire[r] = "card" => r \in orders
    BY <1>1 DEF Provider, ProviderIssues, ProviderRefuses, ReplyGarbled, JInv, Ordered
  <1>4. \A q \in Requests : Unfound(q) => q # r /\ Unfound(q)'
    <2>1. wire[r] \in {"sent", "card"}
      BY <1>1, <1>3
    <2>2. ~Unfound(r)
      BY <1>3, <2>1 DEF Unfound
    <2> QED BY <1>2, <2>2 DEF Unfound
  <1>5. \A q \in Requests : Ordered(q)'
    BY <1>1, <1>2, <1>3 DEF JInv, Ordered
  <1>6. \A i \in Ids : Issued(i)'
    BY <1>1, <1>2, <1>3, Types DEF JInv, Issued
  <1>7. ASSUME NEW t \in Threads
        PROVE  Refunding(t)'
    <2>1. th[t].pc \in Working => th[t].req \in Requests
      BY AtWork
    <2> QED BY <1>1, <1>4, <2>1 DEF JInv, Refunding, Working, Unfound
  <1>8. (\A s \in DOMAIN ledger : ledger[s].status = "Cancelled" => Unfound(ledger[s].req))'
    BY <1>1, <1>4, Types DEF JInv, Unfound
  <1> QED BY <1>5, <1>6, <1>7, <1>8 DEF JInv

\* Before the burn is recorded nothing is ordered.
LEMMA CountKeepsJInv ==
  ASSUME IInv, JInv, NEW r \in Requests, CountSwaps(r)
  PROVE  JInv'
  <1>1. r \in Threads /\ th \in [Threads -> Thread]
    BY Names, Types
  <1>2. /\ th[r].pc = "idle" /\ th'[r].pc = "burn"
        /\ \A u \in Threads \ {r} : th'[u] = th[u]
        /\ UNCHANGED <<ledger, rec, disk, orders, wire>>
    BY <1>1 DEF CountSwaps, unrecorded, world, Thread
  <1> QED BY <1>1, <1>2, QuietMove, Names DEF QuietWorld, OneMoves, Refunding

\* A burn is no refund.
LEMMA BurnKeepsJInv ==
  ASSUME IInv, JInv, NEW r \in Requests, Burn(r)
  PROVE  JInv'
  <1>1. r \in Threads /\ th \in [Threads -> Thread]
    BY Names, Types
  <1>2. /\ th[r].pc = "burn" /\ th'[r].pc = "burnt"
        /\ \A u \in Threads \ {r} : th'[u] = th[u]
        /\ UNCHANGED <<rec, disk, orders, wire>>
    BY <1>1 DEF Burn, Goto, unrecorded, world, Thread
  <1>3. \A s \in DOMAIN ledger' : ledger'[s].status = "Cancelled" => s \in DOMAIN ledger /\ ledger'[s] = ledger[s]
    BY Types, AppendProperties DEF Burn
  <1>4. (\A s \in DOMAIN ledger : ledger[s].status = "Cancelled" => Unfound(ledger[s].req))'
    BY <1>2, <1>3 DEF JInv, Unfound
  <1>5. \A q \in Requests : Ordered(q)'
    BY <1>1, <1>2, Names DEF JInv, Ordered
  <1>6. (\A i \in Ids : Issued(i)') /\ \A t \in Threads : Refunding(t)'
    BY <1>2 DEF JInv, Issued, Refunding, Unfound
  <1> QED BY <1>4, <1>5, <1>6 DEF JInv

\* The one order of a request goes out with its first record.
LEMMA RecordKeepsJInv ==
  ASSUME IInv, JInv, NEW r \in Requests, RecordAndOrder(r)
  PROVE  JInv'
  <1> DEFINE n == th[r].id
             R == [id |-> n, status |-> "Requested", sealed |-> FALSE]
  <1>1. r \in Threads /\ th \in [Threads -> Thread] /\ th[r].pc = "burnt" /\ Ordered(r) /\ Early(r)
    BY Names, Types DEF RecordAndOrder, JInv, IInv
  <1>2. /\ th'[r].pc = "ordering" /\ \A u \in Threads \ {r} : th'[u] = th[u]
        /\ UNCHANGED <<ledger, orders>>
    BY <1>1 DEF RecordAndOrder, Goto, Thread
  <1>3. wire[r] = "unsent" /\ r \notin orders
    BY <1>1 DEF Ordered
  <1>4. wire'[r] = "sent" /\ \A q \in Requests \ {r} : wire'[q] = wire[q]
    BY Types DEF RecordAndOrder
  <1>5. \A q \in Requests : Unfound(q) => Unfound(q)'
    BY <1>2, <1>3, <1>4 DEF Unfound
  <1>6. rec'[r] = R /\ \A q \in Requests \ {r} : rec'[q] = rec[q]
    BY Types DEF RecordAndOrder, Put
  <1>7. \A q \in Requests : Ordered(q)'
    BY <1>1, <1>2, <1>3, <1>4, <1>6, Names DEF JInv, Ordered
  <1>8. ASSUME NEW i \in Ids
        PROVE  Issued(i)'
    <2>1. disk'[i] = IF rows'[i] = None THEN None ELSE <<rec'[rows'[i]], rows'[i]>>
      BY DEF RecordAndOrder, Put, Persist
    <2>2. CASE rows'[i] = r
      <3>1. disk'[i][1] = R /\ disk'[i][2] = r
        BY <1>6, <2>1, <2>2, Names
      <3> QED BY <1>4, <3>1 DEF Issued
    <2>3. CASE rows'[i] # r
      <3>1. rows'[i] = rows[i]
        BY <2>3, Types DEF RecordAndOrder, Put
      <3>2. CASE rows[i] = None
        BY <2>1, <3>1, <3>2 DEF Issued
      <3>3. CASE rows[i] # None
        <4>1. rows[i] \in Requests /\ rows[i] # r /\ disk'[i] = <<rec[rows[i]], rows[i]>>
          BY <1>6, <2>1, <2>3, <3>1, <3>3, Types
        <4>2. rec[rows[i]] # None /\ rec[rows[i]].id = i
          BY <3>3 DEF IInv, Records, Filed
        <4>3. disk[i] = <<rec[rows[i]], rows[i]>>
          BY <4>1, <4>2, OnRecord
        <4>4. disk'[i] = disk[i] /\ disk[i][2] \in Requests /\ disk[i][2] # r
          BY <4>1, <4>3
        <4> QED BY <1>2, <1>4, <4>4 DEF JInv, Issued
      <3> QED BY <3>2, <3>3
    <2> QED BY <2>2, <2>3
  <1>9. ASSUME NEW t \in Threads
        PROVE  Refunding(t)'
    <2>1. th[t].pc \in Working => th[t].req \in Requests
      BY AtWork
    <2> QED BY <1>2, <1>5, <2>1 DEF JInv, Refunding, Working, Unfound
  <1>10. (\A s \in DOMAIN ledger : ledger[s].status = "Cancelled" => Unfound(ledger[s].req))'
    BY <1>2, <1>5, Types DEF JInv, Unfound
  <1> QED BY <1>7, <1>8, <1>9, <1>10 DEF JInv

\* The provider has the card: the order was answered, or a lookup finds it.
LEMMA SealKeepsJInv ==
  ASSUME IInv, JInv, NEW t \in Threads, th[t].pc \in Working, th[t].req \in orders, SealRecord(t)
  PROVE  JInv'
  <1> DEFINE r == th[t].req
             R == [rec[r] EXCEPT !.status = "Sealed", !.sealed = TRUE]
  <1>1. r \in Requests /\ rec[r] # None /\ rec[r] \in Record
    BY AtWork
  <1>2. R \in Record /\ R.id = rec[r].id /\ R.sealed /\ R.status = "Sealed"
    BY <1>1 DEF Record, Status
  <1>3. Put(r, R) /\ Goto(t, "check") /\ UNCHANGED <<ledger, server, orders, wire>>
    BY DEF SealRecord, world
  <1>4. QuietWorld /\ OneMoves(t)
    BY <1>3, QuietGoto DEF Pcs
  <1> HIDE DEF R, r
  <1> QED BY <1>1, <1>2, <1>3, <1>4, QuietPut DEF r

\* A deferred record is written as it is.
LEMMA DeferKeepsJInv ==
  ASSUME IInv, JInv, NEW t \in Threads, th[t].pc \in Working,
         Put(th[t].req, rec[th[t].req]), Finish(t), UNCHANGED <<ledger, server, orders, wire>>
  PROVE  JInv'
  <1>1. th[t].req \in Requests /\ rec[th[t].req] # None /\ rec[th[t].req] \in Record
    BY AtWork
  <1>2. /\ rec[th[t].req].status = "Sealed" => rec[th[t].req].sealed
        /\ rec[th[t].req].status \in {"Settled", "Cancelled"} =>
             ledger[rec[th[t].req].id].status = rec[th[t].req].status
    BY <1>1, OnRecord
  <1>3. QuietWorld /\ OneMoves(t)
    BY QuietEnd DEF QuietWorld
  <1> QED BY <1>1, <1>2, <1>3, QuietPut

\* A decision is written down; no card is new.
LEMMA MarkKeepsJInv ==
  ASSUME IInv, JInv, NEW t \in Threads, th[t].pc \in Working, NEW st \in {"Settled", "Cancelled"},
         ledger[rec[th[t].req].id].status = st,
         Put(th[t].req, [rec[th[t].req] EXCEPT !.status = st]), Finish(t),
         UNCHANGED <<ledger, server, orders, wire>>
  PROVE  JInv'
  <1> DEFINE r == th[t].req
             R == [rec[r] EXCEPT !.status = st]
  <1>1. r \in Requests /\ rec[r] # None /\ rec[r] \in Record
    BY AtWork
  <1>2. R \in Record /\ R.id = rec[r].id /\ R.sealed = rec[r].sealed /\ R.status = st
    BY <1>1 DEF Record, Status
  <1>3. QuietWorld /\ OneMoves(t)
    BY QuietEnd DEF QuietWorld
  <1>4. Put(r, R)
    OBVIOUS
  <1> HIDE DEF R, r
  <1> QED BY <1>1, <1>2, <1>3, <1>4, QuietPut DEF r

\* What is refunded has no card, by what its thread knows.
LEMMA DecisionKeepsJInv ==
  ASSUME IInv, JInv, NEW t \in Threads, th[t].pc \in Working, NEW st \in {"Settled", "Cancelled"},
         NEW pc \in {"settled", "cancelled"}, pc = "settled" <=> st = "Settled",
         st = "Cancelled" => Unfound(th[t].req),
         ledger' = [ledger EXCEPT ![rec[th[t].req].id].status = st],
         Goto(t, pc), UNCHANGED <<rec, disk, orders, wire>>
  PROVE  JInv'
  <1> DEFINE r == th[t].req
             i == rec[r].id
  <1>1. r \in Requests /\ rec[r] # None /\ i \in DOMAIN ledger /\ ledger[i].req = r
    BY AtWork, OnRecord
  <1>2. QuietWorld /\ OneMoves(t)
    BY QuietGoto DEF Pcs
  <1>3. ledger[i] \in Entry
    BY <1>1, Types, ElementOfSeq
  <1> DEFINE e == [ledger[i] EXCEPT !.status = st]
  <1>4. e.req = r /\ e.status = st
    BY <1>1, <1>3 DEF Entry
  <1>5. /\ DOMAIN ledger' = DOMAIN ledger /\ ledger'[i] = e
        /\ \A s \in DOMAIN ledger \ {i} : ledger'[s] = ledger[s]
    BY <1>1
  <1> HIDE DEF e, i
  <1>6. ASSUME NEW s \in DOMAIN ledger, ledger'[s].status = "Cancelled"
        PROVE  Unfound(ledger'[s].req)
    BY <1>4, <1>5, <1>6 DEF JInv
  <1>7. (\A s \in DOMAIN ledger : ledger[s].status = "Cancelled" => Unfound(ledger[s].req))'
    BY <1>5, <1>6 DEF Unfound
  <1>8. (\A q \in Requests : Ordered(q)') /\ \A j \in Ids : Issued(j)'
    BY <1>2 DEF JInv, QuietWorld, Ordered, Issued
  <1>9. \A u \in Threads : Refunding(u)'
    BY <1>2 DEF JInv, QuietWorld, OneMoves, Refunding, Unfound
  <1> QED BY <1>7, <1>8, <1>9 DEF JInv

\* Only an order that was declined leads swap to a refund.
LEMMA SwapKeepsJInv ==
  ASSUME IInv, JInv, NEW r \in Requests, Swap(r)
  PROVE  JInv'
  <1>0. r \in Threads /\ "ordering" \in Working
    BY Names DEF Working
  <1>1. CASE CountSwaps(r)
    BY <1>1, CountKeepsJInv
  <1>2. CASE Burn(r)
    BY <1>2, BurnKeepsJInv
  <1>3. CASE BurnRefused(r)
    BY <1>0, <1>3, ThrowKeepsJInv DEF BurnRefused, world
  <1>4. CASE RecordAndOrder(r)
    BY <1>4, RecordKeepsJInv
  <1>5. CASE OrderAnswered(r)
    <2>1. th[r].pc = "ordering" /\ wire[r] = "card" /\ SealRecord(r)
      BY <1>5 DEF OrderAnswered
    <2>2. th[r].req = r
      BY DEF IInv, Early
    <2>3. r \in orders
      BY <2>1 DEF JInv, Ordered
    <2> QED BY <1>0, <2>1, <2>2, <2>3, SealKeepsJInv
  <1>6. CASE OrderDeclined(r)
    <2>1. /\ UNCHANGED <<ledger, rec, disk, orders, wire>> /\ Goto(r, "cancel") /\ wire[r] = "declined"
      BY <1>6 DEF OrderDeclined, ConfirmedFailure, unrecorded, world
    <2>2. th[r].req = r /\ Unfound(r)
      BY <2>1 DEF IInv, Early, JInv, Ordered, Unfound
    <2>3. QuietWorld /\ OneMoves(r)
      BY <1>0, <2>1, <2>2, QuietGoto DEF Pcs
    <2> QED BY <1>0, <2>1, <2>3, QuietMove
  <1>7. CASE OrderUncertain(r)
    <2>1. /\ UNCHANGED <<ledger, rec, disk, orders, wire>> /\ Goto(r, "lookup")
      BY <1>7 DEF OrderUncertain, unrecorded, world
    <2>2. th[r].op = "swap"
      BY DEF IInv, Early
    <2>3. QuietWorld /\ OneMoves(r)
      BY <1>0, <2>1, <2>2, QuietGoto DEF Pcs
    <2> QED BY <1>0, <2>1, <2>3, QuietMove
  <1>8. CASE OrderUnreadable(r)
    BY <1>0, <1>8, ThrowKeepsJInv DEF OrderUnreadable, world
  <1> QED BY <1>1, <1>2, <1>3, <1>4, <1>5, <1>6, <1>7, <1>8 DEF Swap

\* Only forceRefund goes from a lookup to a refund, and it knew.
LEMMA LookupKeepsJInv ==
  ASSUME IInv, JInv, NEW t \in Threads, Lookup(t)
  PROVE  JInv'
  <1>0. th[t].pc = "lookup" /\ "lookup" \in Working /\ Refunding(t)
    BY DEF Lookup, LookupFinds, LookupEmpty, Working, JInv
  <1>1. CASE LookupFinds(t)
    BY <1>0, <1>1, SealKeepsJInv DEF LookupFinds
  <1>2. CASE LookupEmpty(t)
    <2>1. UNCHANGED <<ledger, server, orders, wire>>
      BY <1>2 DEF LookupEmpty, world
    <2>2. CASE ~LastLookup(t)
      <3>1. th' = [th EXCEPT ![t].tries = @ + 1] /\ UNCHANGED <<rec, disk>>
        BY <1>2, <2>2 DEF LookupEmpty, unrecorded
      <3>2. /\ th'[t].pc = "lookup" /\ th'[t].req = th[t].req /\ th'[t].op = th[t].op
            /\ \A u \in Threads \ {t} : th'[u] = th[u]
        BY <1>0, <3>1, Types DEF Thread
      <3>3. QuietWorld /\ OneMoves(t)
        BY <1>0, <2>1, <3>2, Names DEF QuietWorld, OneMoves, Refunding, Unfound
      <3> QED BY <2>1, <3>1, <3>3, QuietMove
    <2>3. CASE LastLookup(t)
      <3>1. GiveUpLookup(t)
        BY <1>2, <2>3 DEF LookupEmpty
      <3>2. CASE th[t].op = "refund" /\ Goto(t, "cancel") /\ UNCHANGED unrecorded
        <4>1. QuietWorld /\ OneMoves(t)
          BY <1>0, <2>1, <3>2, QuietGoto DEF Refunding, Pcs
        <4> QED BY <2>1, <3>2, <4>1, QuietMove DEF unrecorded
      <3>3. CASE Finish(t) /\ UNCHANGED unrecorded
        BY <2>1, <3>3, QuietEnd, QuietMove DEF QuietWorld, unrecorded
      <3>4. CASE Put(th[t].req, rec[th[t].req]) /\ Finish(t)
        BY <1>0, <2>1, <3>4, DeferKeepsJInv
      <3> QED BY <3>1, <3>2, <3>3, <3>4 DEF GiveUpLookup
    <2> QED BY <2>2, <2>3
  <1> QED BY <1>1, <1>2 DEF Lookup

\* Every step of the settlement and of the refund keeps what is known.
LEMMA DecideKeepsJInv ==
  ASSUME IInv, JInv, NEW t \in Threads, Decide(t)
  PROVE  JInv'
  <1>0. /\ th[t].pc \in Working /\ {"check", "settle", "settled", "cancel", "cancelled"} \subseteq Working
        /\ Late(t) /\ Refunding(t)
    BY DEF Decide, CheckStatus, SettleSwap, SettleRefused, SettleKnown, CancelSwap, CancelRefused, CancelKnown,
        Working, IInv, JInv
  <1>1. UNCHANGED <<server, orders, wire>>
    BY DEF Decide, CheckStatus, SettleSwap, SettleRefused, SettleKnown, CancelSwap, CancelRefused,
        CancelKnown, MarkSettled, SettleThrows, Throw, world
  <1>2. CASE CheckStatus(t)
    <2>1. CASE StatusOf(t) = "Settled"
      <3>1. Put(th[t].req, [rec[th[t].req] EXCEPT !.status = "Settled"]) /\ Finish(t) /\ UNCHANGED ledger
        BY <1>2, <2>1 DEF CheckStatus, MarkSettled
      <3> QED BY <1>0, <1>1, <2>1, <3>1, MarkKeepsJInv DEF StatusOf
    <2>2. CASE StatusOf(t) = "Requested"
      <3>1. Goto(t, "settle") /\ UNCHANGED <<ledger, rec, disk>>
        BY <1>2, <2>2 DEF CheckStatus, unrecorded
      <3>2. QuietWorld /\ OneMoves(t)
        BY <1>1, <3>1, QuietGoto DEF Pcs
      <3> QED BY <3>1, <3>2, QuietMove
    <2>3. CASE StatusOf(t) \notin {"Settled", "Requested"}
      BY <1>1, <1>2, <2>3, ThrowKeepsJInv DEF CheckStatus
    <2> QED BY <2>1, <2>2, <2>3
  <1>3. CASE SettleSwap(t)
    <2>1. /\ Goto(t, "settled") /\ UNCHANGED <<rec, disk>>
          /\ ledger' = [ledger EXCEPT ![rec[th[t].req].id].status = "Settled"]
      BY <1>3 DEF SettleSwap, unrecorded
    <2> QED BY <1>0, <1>1, <2>1, DecisionKeepsJInv
  <1>4. CASE SettleRefused(t)
    BY <1>1, <1>4, ThrowKeepsJInv DEF SettleRefused, SettleThrows
  <1>5. CASE SettleKnown(t)
    <2>1. ledger[rec[th[t].req].id].status = "Settled"
      BY <1>0, <1>5 DEF SettleKnown, Late
    <2>2. Put(th[t].req, [rec[th[t].req] EXCEPT !.status = "Settled"]) /\ Finish(t) /\ UNCHANGED ledger
      BY <1>5 DEF SettleKnown, MarkSettled
    <2> QED BY <1>0, <1>1, <2>1, <2>2, MarkKeepsJInv
  <1>6. CASE CancelSwap(t)
    <2>1. /\ th[t].pc = "cancel" /\ Goto(t, "cancelled") /\ UNCHANGED <<rec, disk>>
          /\ ledger' = [ledger EXCEPT ![rec[th[t].req].id].status = "Cancelled"]
      BY <1>6 DEF CancelSwap, unrecorded
    <2>2. Unfound(th[t].req)
      BY <1>0, <2>1 DEF Refunding
    <2> QED BY <1>0, <1>1, <2>1, <2>2, DecisionKeepsJInv
  <1>7. CASE CancelRefused(t)
    BY <1>1, <1>7, ThrowKeepsJInv DEF CancelRefused
  <1>8. CASE CancelKnown(t)
    <2>1. ledger[rec[th[t].req].id].status = "Cancelled"
      BY <1>0, <1>8 DEF CancelKnown, Late
    <2>2. Put(th[t].req, [rec[th[t].req] EXCEPT !.status = "Cancelled"]) /\ Finish(t) /\ UNCHANGED ledger
      BY <1>8 DEF CancelKnown
    <2> QED BY <1>0, <1>1, <2>1, <2>2, MarkKeepsJInv
  <1> QED BY <1>2, <1>3, <1>4, <1>5, <1>6, <1>7, <1>8 DEF Decide

\* A record is taken up for a refund only when a patient operator knows that
\* it has no card.
LEMMA TakeUpKeepsJInv ==
  ASSUME IInv, JInv, NEW t \in Threads, t \notin Requests, NEW op \in {"cancel", "refund", "recover"},
         NEW id \in Ids, TakeUp(t, op, id), UNCHANGED <<ledger, rec, disk, orders, wire>>,
         op = "refund" /\ rec[rows[id]].status = "Requested" => Unfound(rows[id])
  PROVE  JInv'
  <1> DEFINE r == rows[id]
             x == [Fresh(t) EXCEPT
                     !.pc = IF rec[r].status = "Sealed" THEN "check" ELSE "lookup",
                     !.op = op, !.req = r, !.id = id]
  <1>1. /\ x.req = r /\ x.op = op
        /\ x.pc = IF rec[r].status = "Sealed" THEN "check" ELSE "lookup"
    <2>1. Fresh(t) \in Thread
      BY FreshThread
    <2> DEFINE pc == IF rec[r].status = "Sealed" THEN "check" ELSE "lookup"
    <2>2. \A f \in Thread : LET y == [f EXCEPT !.pc = pc, !.op = op, !.req = r, !.id = id]
                           IN  y.req = r /\ y.op = op /\ y.pc = pc
      <3> HIDE DEF pc, r
      <3> QED BY DEF Thread
    <2> QED BY <2>1, <2>2
  <1>2. th' = [th EXCEPT ![t] = x] /\ rec[r].status \in {"Requested", "Sealed"}
    BY DEF TakeUp, Undecided
  <1>3. th'[t] = x /\ \A u \in Threads \ {t} : th'[u] = th[u]
    BY <1>2, Types
  <1> HIDE DEF x
  <1>4. OneMoves(t)
    BY <1>1, <1>2, <1>3 DEF OneMoves, Refunding, Unfound
  <1>5. QuietWorld
    BY <1>3, Names DEF QuietWorld
  <1> QED BY <1>4, <1>5, QuietMove

\* A patient operator presses refund only where no card can come.
LEMMA OperatorKeepsJInv ==
  ASSUME Patient, IInv, JInv, NEW o \in Operators, Operator(o)
  PROVE  JInv'
  <1>1. PICK id \in Ids : PressCancel(o, id) \/ PressRefund(o, id)
    BY DEF Operator
  <1>2. UNCHANGED <<ledger, rec, disk, orders, wire>> /\ o \in Threads /\ o \notin Requests
    BY <1>1, Names DEF PressCancel, PressRefund, unrecorded, world
  <1>3. CASE PressCancel(o, id)
    BY <1>2, <1>3, TakeUpKeepsJInv DEF PressCancel
  <1>4. CASE PressRefund(o, id)
    <2>1. TakeUp(o, "refund", id) /\ rows[id] # None
      BY <1>4 DEF PressRefund, TakeUp
    <2>2. rows[id] \in Requests /\ rec[rows[id]] # None
      BY <2>1, Types DEF IInv, Records, Filed
    <2>3. rec[rows[id]].status = "Requested" => Unfound(rows[id])
      BY <1>4, <2>2 DEF PressRefund, Confirmed, Unfound, JInv, Ordered
    <2> QED BY <1>2, <2>1, <2>3, TakeUpKeepsJInv
  <1> QED BY <1>1, <1>3, <1>4

\* A crash forgets records, never orders.
LEMMA CrashKeepsJInv ==
  ASSUME IInv, JInv, Crash
  PROVE  JInv'
  <1>1. /\ UNCHANGED <<ledger, disk, orders, wire>> /\ \A r \in Requests : rec'[r] = None
        /\ \A t \in Threads : th'[t] = IF t \in Requests /\ th[t].pc # "idle"
                                         THEN [th[t] EXCEPT !.pc = "done"] ELSE Fresh(t)
    BY DEF Crash
  <1>2. ASSUME NEW t \in Threads
        PROVE  /\ th'[t].pc \in {"idle", "done"}
               /\ t \in Requests /\ th'[t].pc = "idle" => th[t].pc = "idle"
    <2>1. CASE t \in Requests /\ th[t].pc # "idle"
      <3>1. th'[t] = [th[t] EXCEPT !.pc = "done"] /\ th[t] \in Thread
        BY <1>1, <2>1, Types
      <3> QED BY <3>1 DEF Thread
    <2>2. CASE ~(t \in Requests /\ th[t].pc # "idle")
      <3>1. th'[t] = Fresh(t)
        BY <1>1, <2>2
      <3> QED BY <2>2, <3>1, FreshThread
    <2> QED BY <2>1, <2>2
  <1>3. \A r \in Requests : Ordered(r)'
    BY <1>1, <1>2, Names DEF JInv, Ordered
  <1>4. (\A i \in Ids : Issued(i)') /\ \A t \in Threads : Refunding(t)'
    BY <1>1, <1>2 DEF JInv, Issued, Refunding
  <1>5. (\A s \in DOMAIN ledger : ledger[s].status = "Cancelled" => Unfound(ledger[s].req))'
    BY <1>1 DEF JInv, Unfound
  <1> QED BY <1>3, <1>4, <1>5 DEF JInv

\* What comes back from disk was ordered.
LEMMA RestartKeepsJInv ==
  ASSUME IInv, JInv, Restart
  PROVE  JInv'
  <1>1. /\ UNCHANGED <<ledger, disk, orders, wire, th>> /\ server = "down"
        /\ rows' = [i \in Ids |-> IF disk[i] = None THEN None ELSE disk[i][2]]
        /\ rec' = [r \in Requests |->
                     IF \E i \in Ids : rows'[i] = r
                       THEN disk[CHOOSE i \in Ids : rows'[i] = r][1] ELSE None]
    BY DEF Restart, world
  <1>2. ASSUME NEW r \in Requests, rec'[r] # None
        PROVE  wire[r] # "unsent"
    <2>1. PICK i \in Ids : rows'[i] = r
      BY <1>1, <1>2
    <2>2. disk[i] # None /\ disk[i][2] = r
      BY <1>1, <2>1, Names
    <2> QED BY <2>2 DEF JInv, Issued
  <1>3. \A r \in Requests : Ordered(r)'
    BY <1>1, <1>2 DEF JInv, Ordered
  <1>4. (\A i \in Ids : Issued(i)') /\ \A t \in Threads : Refunding(t)'
    BY <1>1 DEF JInv, Issued, Refunding, Unfound
  <1>5. (\A s \in DOMAIN ledger : ledger[s].status = "Cancelled" => Unfound(ledger[s].req))'
    BY <1>1 DEF JInv, Unfound
  <1> QED BY <1>3, <1>4, <1>5 DEF JInv

\* The recovery refunds nothing.
LEMMA RecoverKeepsJInv ==
  ASSUME IInv, JInv, Recover
  PROVE  JInv'
  <1>1. CASE Restart
    BY <1>1, RestartKeepsJInv
  <1>2. CASE RecoverDone
    <2>1. UNCHANGED <<ledger, rec, disk, orders, wire, th>>
      BY <1>2 DEF RecoverDone, unrecorded, world
    <2> QED BY <2>1 DEF JInv, Ordered, Issued, Refunding, Unfound
  <1>3. CASE \E id \in Ids : RecoverNext(id)
    <2>1. PICK id \in Ids : RecoverNext(id)
      BY <1>3
    <2>2. UNCHANGED <<ledger, rec, disk, orders, wire>> /\ TakeUp(Recovery, "recover", id)
      BY <2>1 DEF RecoverNext, unrecorded, world
    <2> QED BY <2>2, TakeUpKeepsJInv, Names
  <1> QED BY <1>1, <1>2, <1>3 DEF Recover

\* With patient operators the second invariant is inductive too.
LEMMA NextJInv ==
  ASSUME Patient
  PROVE  IInv /\ JInv /\ [Next]_vars => JInv'
  <1> SUFFICES ASSUME IInv, JInv, [Next]_vars PROVE JInv'
    OBVIOUS
  <1>1. CASE \E r \in Requests : Provider(r) \/ Swap(r)
    BY <1>1, ProviderKeepsJInv, SwapKeepsJInv
  <1>2. CASE \E t \in Threads : Lookup(t) \/ Decide(t)
    BY <1>2, LookupKeepsJInv, DecideKeepsJInv
  <1>3. CASE \E t \in Threads : RpcFails(t)
    BY <1>3, ThrowKeepsJInv DEF RpcFails, Throw
  <1>4. CASE \E o \in Operators : Operator(o)
    BY <1>4, OperatorKeepsJInv
  <1>5. CASE (\E on \in BOOLEAN : SetPause(on)) \/ UNCHANGED vars
    <2>1. UNCHANGED <<ledger, rec, disk, orders, wire, th>>
      BY <1>5 DEF SetPause, unrecorded, world, vars
    <2> QED BY <2>1 DEF JInv, Ordered, Issued, Refunding, Unfound
  <1>6. CASE Crash
    BY <1>6, CrashKeepsJInv
  <1>7. CASE Recover
    BY <1>7, RecoverKeepsJInv
  <1> QED BY <1>1, <1>2, <1>3, <1>4, <1>5, <1>6, <1>7 DEF Next
-----------------------------------------------------------------------------
(***************************************************************************)
(* The steps as the promise sees them.                                     *)
(***************************************************************************)
\* The two halves of the refinement mapping, of any ledger and of any file.
PromiseOf(l) ==
  [r \in Requests |->
     IF \E s \in DOMAIN l : l[s].req = r /\ l[s].status = "Settled" THEN "delivered"
     ELSE IF \E s \in DOMAIN l : l[s].req = r /\ l[s].status = "Cancelled" THEN "refunded"
     ELSE IF \E s \in DOMAIN l : l[s].req = r /\ l[s].status = "Requested" THEN "held" ELSE "none"]

CardOf(d) ==
  [r \in Requests |-> \E i \in Ids : d[i] # None /\ d[i][2] = r /\ d[i][1].sealed]

Shown(status) ==
  IF status = "Settled" THEN "delivered" ELSE IF status = "Cancelled" THEN "refunded" ELSE "held"

\* The refinement mapping of SwapService is these two.
LEMMA Mapping ==
  /\ promiseBar = PromiseOf(ledger) /\ cardBar = CardOf(disk)
  /\ promiseBar' = PromiseOf(ledger') /\ cardBar' = CardOf(disk')
  <1>1. promiseBar = PromiseOf(ledger)
    BY DEF promiseBar, PromiseOf, Settled, Refunded, Held, SwapsOf
  <1>2. promiseBar' = PromiseOf(ledger')
    BY DEF promiseBar, PromiseOf, Settled, Refunded, Held, SwapsOf
  <1>3. cardBar = CardOf(disk) /\ cardBar' = CardOf(disk')
    BY DEF cardBar, CardOf, InWallet
  <1> QED BY <1>1, <1>2, <1>3

\* A request with one swap is shown by that swap.
LEMMA ShownByItsSwap ==
  ASSUME NEW l, NEW s \in DOMAIN l, l[s].req \in Requests,
         l[s].status \in {"Requested", "Settled", "Cancelled"},
         \A u \in DOMAIN l : l[u].req = l[s].req => u = s
  PROVE  PromiseOf(l)[l[s].req] = Shown(l[s].status)
  BY DEF PromiseOf, Shown

\* One swap is added or decided: the promise of its request moves, no other.
LEMMA OnePromiseMoves ==
  ASSUME NEW l, NEW m, NEW s \in DOMAIN m, DOMAIN m = DOMAIN l \cup {s},
         \A u \in DOMAIN l \ {s} : m[u] = l[u],
         \A u \in DOMAIN m : m[u].req = m[s].req => u = s,
         s \in DOMAIN l => l[s].req = m[s].req,
         m[s].req \in Requests, m[s].status \in {"Requested", "Settled", "Cancelled"}
  PROVE  PromiseOf(m) = [PromiseOf(l) EXCEPT ![m[s].req] = Shown(m[s].status)]
  <1> DEFINE r == m[s].req
  <1>1. PromiseOf(m)[r] = Shown(m[s].status)
    BY ShownByItsSwap
  <1>2. ASSUME NEW q \in Requests, q # r
        PROVE  PromiseOf(m)[q] = PromiseOf(l)[q]
    <2>1. \A st : (\E u \in DOMAIN m : m[u].req = q /\ m[u].status = st)
                 <=> (\E u \in DOMAIN l : l[u].req = q /\ l[u].status = st)
      BY <1>2
    <2> QED BY <2>1 DEF PromiseOf
  <1>3. /\ PromiseOf(m) = [q \in Requests |-> PromiseOf(m)[q]]
        /\ PromiseOf(l) = [q \in Requests |-> PromiseOf(l)[q]]
    BY DEF PromiseOf
  <1> QED BY <1>1, <1>2, <1>3

\* What the promise does not speak of.
LEMMA Unseen ==
  ASSUME UNCHANGED <<ledger, disk>>
  PROVE  UNCHANGED <<promiseBar, cardBar>>
  BY Mapping

\* A record is put back without a new card.
LEMMA SameCards ==
  ASSUME IInv, NEW r \in Requests, rec[r] # None, NEW R \in Record, R.id = rec[r].id,
         rec[r].sealed <=> R.sealed, R.status = "Sealed" => R.sealed,
         R.status \in {"Settled", "Cancelled"} => ledger[rec[r].id].status = R.status,
         Put(r, R), UNCHANGED <<ledger, server>>
  PROVE  UNCHANGED <<promiseBar, cardBar>>
  <1> DEFINE i == rec[r].id
  <1>1. i \in Ids /\ disk[i] = <<rec[r], r>> /\ <<rec[r], r>> # None
    <2>1. i \in Ids /\ disk[i] = <<rec[r], r>> /\ <<rec[r], r>> \in Record \X Requests
      BY OnRecord
    <2> QED BY <2>1, Names
  <1>2. disk' = [disk EXCEPT ![i] = <<R, r>>] /\ <<R, r>> # None
    <2>1. disk' = [disk EXCEPT ![i] = <<R, r>>] /\ <<R, r>> \in Record \X Requests
      BY Refiled
    <2> QED BY <2>1, Names
  <1>3. ASSUME NEW j \in Ids
        PROVE  /\ disk'[j] # None <=> disk[j] # None
               /\ disk[j] # None => disk'[j][2] = disk[j][2] /\ (disk'[j][1].sealed <=> disk[j][1].sealed)
    <2>1. CASE j = i
      <3>1. disk'[j] = <<R, r>> /\ disk[j] = <<rec[r], r>>
        BY <1>1, <1>2, <2>1, Types
      <3> HIDE DEF i
      <3> QED BY <1>1, <1>2, <3>1
    <2>2. CASE j # i
      <3>1. disk'[j] = disk[j]
        BY <1>2, <2>2, Types
      <3> QED BY <3>1
    <2> QED BY <2>1, <2>2
  <1>4. CardOf(disk') = CardOf(disk)
    BY <1>3 DEF CardOf
  <1> QED BY <1>4, Mapping

\* A card is sealed for a request that holds its credits, or was before.
LEMMA SealIsSeal ==
  ASSUME IInv, JInv, NEW t \in Threads, th[t].pc \in Working, th[t].req \in orders, SealRecord(t)
  PROVE  Promise!Seal(th[t].req) \/ UNCHANGED <<promiseBar, cardBar>>
  <1> DEFINE r == th[t].req
             R == [rec[r] EXCEPT !.status = "Sealed", !.sealed = TRUE]
             i == rec[r].id
  <1>1. r \in Requests /\ rec[r] # None /\ rec[r] \in Record /\ i \in Ids /\ i \in DOMAIN ledger
    BY AtWork
  <1>2. R \in Record /\ R.id = i /\ R.sealed /\ R.status = "Sealed"
    BY <1>1 DEF Record, Status
  <1>3. Put(r, R) /\ UNCHANGED <<ledger, server>>
    BY DEF SealRecord
  <1>4. ledger[i].req = r /\ disk[i] = <<rec[r], r>> /\ disk[i] # None
    <2>1. ledger[i].req = r /\ disk[i] = <<rec[r], r>> /\ <<rec[r], r>> \in Record \X Requests
      BY <1>1, OnRecord
    <2> QED BY <2>1, Names
  <1> HIDE DEF R
  <1>5. CASE rec[r].sealed
    BY <1>1, <1>2, <1>3, <1>5, SameCards
  <1>6. CASE ~rec[r].sealed
    <2>1. ledger[i].status = "Requested"
      <3>1. ledger[i].status # "Settled"
        BY <1>1, <1>4, <1>6 DEF IInv, Records, SettledIsInWallet
      <3>2. ledger[i].status # "Cancelled"
        BY <1>1, <1>4 DEF JInv, Unfound
      <3> QED BY <1>1, <3>1, <3>2, Types DEF Status
    <2>2. promiseBar[r] = "held"
      <3>1. \A u \in DOMAIN ledger : ledger[u].req = ledger[i].req => u = i
        BY <1>1 DEF IInv, BurnsOnce
      <3>2. PromiseOf(ledger)[ledger[i].req] = Shown(ledger[i].status)
        BY <1>1, <1>4, <2>1, <3>1, ShownByItsSwap
      <3> QED BY <1>4, <2>1, <3>2, Mapping DEF Shown
    <2>3. disk' = [disk EXCEPT ![i] = <<R, r>>] /\ <<R, r>> # None
      <3>1. disk' = [disk EXCEPT ![i] = <<R, r>>] /\ <<R, r>> \in Record \X Requests
        BY <1>1, <1>2, <1>3, Refiled
      <3> QED BY <3>1, Names
    <2>4. disk' \in [Ids -> (Record \X Requests) \cup {None}] /\ disk'[i] = <<R, r>>
          /\ \A j \in Ids \ {i} : disk'[j] = disk[j]
      BY <1>1, <1>2, <2>3, Types
    <2>5. CardOf(disk')[r] = TRUE
      <3>1. disk'[i] # None /\ disk'[i][2] = r /\ disk'[i][1].sealed
        BY <1>2, <2>3, <2>4
      <3>2. R.sealed = TRUE
        BY <1>2 DEF Record
      <3> QED BY <1>1, <3>1 DEF CardOf
    <2>6. ASSUME NEW q \in Requests, q # r
          PROVE  CardOf(disk')[q] = CardOf(disk)[q]
      <3>1. \A j \in Ids : (disk'[j] # None /\ disk'[j][2] = q /\ disk'[j][1].sealed)
                         <=> (disk[j] # None /\ disk[j][2] = q /\ disk[j][1].sealed)
        BY <1>4, <2>4, <2>6
      <3> QED BY <3>1 DEF CardOf
    <2>7. CardOf(disk') = [CardOf(disk) EXCEPT ![r] = TRUE]
      <3>1. /\ CardOf(disk') = [q \in Requests |-> CardOf(disk')[q]]
            /\ CardOf(disk) = [q \in Requests |-> CardOf(disk)[q]]
        BY DEF CardOf
      <3> QED BY <2>5, <2>6, <3>1
    <2> QED BY <1>3, <2>2, <2>7, Mapping DEF Promise!Seal
  <1> QED BY <1>5, <1>6

\* A burn holds the credits of a request that had none.
LEMMA BurnIsHold ==
  ASSUME IInv, NEW r \in Requests, Burn(r)
  PROVE  Promise!Hold(r)
  <1> DEFINE n == Len(ledger) + 1
             e == [req |-> r, status |-> "Requested"]
  <1>1. /\ DOMAIN ledger' = DOMAIN ledger \cup {n} /\ n \notin DOMAIN ledger /\ ledger'[n] = e
        /\ \A u \in DOMAIN ledger : ledger'[u] = ledger[u]
    <2>1. ledger' = Append(ledger, e) /\ e \in Entry
      BY DEF Burn, Entry, Status
    <2> QED BY <2>1, Types, AppendProperties
  <1>2. r \notin Burned
    BY DEF IInv, Early, Burn
  <1>3. e.req = r /\ e.status = "Requested"
    OBVIOUS
  <1> HIDE DEF n, e
  <1>4. \A u \in DOMAIN ledger' : ledger'[u].req = ledger'[n].req => u = n
    BY <1>1, <1>2, <1>3 DEF Burned
  <1>5. PromiseOf(ledger') = [PromiseOf(ledger) EXCEPT ![r] = Shown("Requested")]
    BY <1>1, <1>3, <1>4, OnePromiseMoves
  <1>6. PromiseOf(ledger)[r] = "none"
    BY <1>2 DEF PromiseOf, Burned
  <1>7. disk' = disk
    BY DEF Burn, unrecorded
  <1> QED BY <1>5, <1>6, <1>7, Mapping DEF Promise!Hold, Shown

\* A decision of the ledger about an open swap.
LEMMA DecisionMoves ==
  ASSUME IInv, NEW t \in Threads, th[t].pc \in Working, NEW st \in {"Settled", "Cancelled"},
         StatusOf(t) = "Requested",
         ledger' = [ledger EXCEPT ![rec[th[t].req].id].status = st], disk' = disk
  PROVE  /\ promiseBar[th[t].req] = "held" /\ cardBar' = cardBar
         /\ promiseBar' = [promiseBar EXCEPT ![th[t].req] = Shown(st)]
  <1> DEFINE r == th[t].req
             i == rec[r].id
             e == [ledger[i] EXCEPT !.status = st]
  <1>1. r \in Requests /\ rec[r] # None /\ i \in DOMAIN ledger /\ ledger[i].req = r
        /\ ledger[i].status = "Requested" /\ ledger[i] \in Entry
    BY AtWork, OnRecord, Types, ElementOfSeq DEF StatusOf
  <1>2. e.req = r /\ e.status = st
    BY <1>1 DEF Entry
  <1>3. /\ DOMAIN ledger' = DOMAIN ledger /\ ledger'[i] = e
        /\ \A s \in DOMAIN ledger \ {i} : ledger'[s] = ledger[s]
    BY <1>1
  <1> HIDE DEF e, i, r
  <1>4. \A u \in DOMAIN ledger : ledger[u].req = ledger[i].req => u = i
    BY <1>1 DEF IInv, BurnsOnce
  <1>5. \A u \in DOMAIN ledger' : ledger'[u].req = ledger'[i].req => u = i
    <2>1. ASSUME NEW u \in DOMAIN ledger, ledger'[u].req = ledger'[i].req, u # i
          PROVE  FALSE
      <3>1. ledger'[u] = ledger[u] /\ ledger'[i].req = r
        BY <1>2, <1>3, <2>1
      <3> QED BY <1>1, <1>4, <2>1, <3>1
    <2> QED BY <1>3, <2>1
  <1>6. PromiseOf(ledger)[ledger[i].req] = Shown(ledger[i].status)
    BY <1>1, <1>4, ShownByItsSwap
  <1>7. PromiseOf(ledger') = [PromiseOf(ledger) EXCEPT ![ledger'[i].req] = Shown(ledger'[i].status)]
    <2>1. /\ DOMAIN ledger' = DOMAIN ledger \cup {i} /\ i \in DOMAIN ledger'
          /\ i \in DOMAIN ledger => ledger[i].req = ledger'[i].req
          /\ ledger'[i].req \in Requests /\ ledger'[i].status \in {"Requested", "Settled", "Cancelled"}
          /\ \A u \in DOMAIN ledger \ {i} : ledger'[u] = ledger[u]
      BY <1>1, <1>2, <1>3
    <2>2. ASSUME NEW l, l = ledger, NEW m, m = ledger'
          PROVE  PromiseOf(m) = [PromiseOf(l) EXCEPT ![m[i].req] = Shown(m[i].status)]
      <3>1. /\ DOMAIN m = DOMAIN l \cup {i} /\ i \in DOMAIN m
            /\ i \in DOMAIN l => l[i].req = m[i].req
            /\ m[i].req \in Requests /\ m[i].status \in {"Requested", "Settled", "Cancelled"}
            /\ \A u \in DOMAIN l \ {i} : m[u] = l[u]
        BY <2>1, <2>2
      <3>2. \A u \in DOMAIN m : m[u].req = m[i].req => u = i
        BY <1>5, <2>2
      <3> QED BY <3>1, <3>2, OnePromiseMoves
    <2> QED BY <2>2
  <1> QED BY <1>1, <1>2, <1>3, <1>6, <1>7, Mapping DEF Shown, r

\* The card is in the wallet before the burn becomes final.
LEMMA SettleIsDeliver ==
  ASSUME IInv, NEW t \in Threads, SettleSwap(t)
  PROVE  Promise!Deliver(th[t].req)
  <1> DEFINE r == th[t].req
  <1>1. /\ th[t].pc = "settle" /\ StatusOf(t) = "Requested" /\ disk' = disk
        /\ ledger' = [ledger EXCEPT ![rec[th[t].req].id].status = "Settled"]
    BY DEF SettleSwap, unrecorded
  <1>2. th[t].pc \in Working
    BY <1>1 DEF Working
  <1>3. rec[r].sealed /\ r \in Requests /\ rec[r] # None
    BY <1>1, <1>2, AtWork DEF IInv, Late
  <1>4. rec[r].id \in Ids /\ disk[rec[r].id] = <<rec[r], r>> /\ <<rec[r], r>> \in Record \X Requests
    BY <1>3, OnRecord
  <1>5. cardBar[r]
    <2>1. disk[rec[r].id] # None /\ disk[rec[r].id][2] = r /\ disk[rec[r].id][1].sealed
      BY <1>3, <1>4, Names
    <2> QED BY <1>3, <1>4, <2>1 DEF cardBar, InWallet
  <1> QED BY <1>1, <1>2, <1>5, DecisionMoves DEF Promise!Deliver, Shown

\* Credits go back only where there is no card.
LEMMA CancelIsRefund ==
  ASSUME IInv, JInv, NEW t \in Threads, CancelSwap(t)
  PROVE  Promise!Refund(th[t].req)
  <1> DEFINE r == th[t].req
  <1>1. /\ th[t].pc = "cancel" /\ StatusOf(t) = "Requested" /\ disk' = disk
        /\ ledger' = [ledger EXCEPT ![rec[th[t].req].id].status = "Cancelled"]
    BY DEF CancelSwap, unrecorded
  <1>2. th[t].pc \in Working
    BY <1>1 DEF Working
  <1>3. r \in Requests /\ r \notin orders
    BY <1>1, <1>2, AtWork DEF JInv, Refunding, Unfound
  <1>4. ~cardBar[r]
    BY <1>3 DEF cardBar, InWallet, JInv, Issued
  <1> QED BY <1>1, <1>2, <1>4, DecisionMoves DEF Promise!Refund, Shown

\* The first record of a burn holds no card yet, and takes an empty row.
LEMMA RecordIsUnseen ==
  ASSUME IInv, NEW r \in Requests, RecordAndOrder(r)
  PROVE  UNCHANGED <<promiseBar, cardBar>>
  <1> DEFINE n == th[r].id
             R == [id |-> n, status |-> "Requested", sealed |-> FALSE]
  <1>1. /\ rec[r] = None /\ n \in DOMAIN ledger /\ ledger[n].req = r /\ ledger' = ledger
    <2>1. Early(r) /\ th[r].pc = "burnt" /\ ledger' = ledger
      BY DEF IInv, RecordAndOrder
    <2> QED BY <2>1 DEF Early
  <1>2. /\ rec'[r] = R /\ \A q \in Requests \ {r} : rec'[q] = rec[q]
        /\ \A i \in Ids \ {n} : rows'[i] = rows[i]
        /\ n \in Ids => rows'[n] = r
    BY Types DEF RecordAndOrder, Put
  <1>3. server # "down"
    BY Names DEF RecordAndOrder, IInv, Late
  <1>4. \A i \in Ids : rows[i] # None => rows[i] \in Requests /\ rows[i] # r
    BY <1>1, Types DEF IInv, Records, Filed
  <1>5. rows[n] = None \/ n \notin Ids
    <2>1. SUFFICES ASSUME n \in Ids, rows[n] # None PROVE FALSE
      OBVIOUS
    <2>2. rec[rows[n]] # None /\ rec[rows[n]].id = n /\ rows[n] \in Requests
      BY <1>4, <2>1 DEF IInv, Records, Filed
    <2>3. ledger[n].req = rows[n]
      BY <2>2, OnRecord
    <2> QED BY <1>1, <1>4, <2>1, <2>3
  <1>6. ASSUME NEW i \in Ids
        PROVE  /\ disk[i] = IF rows[i] = None THEN None ELSE <<rec[rows[i]], rows[i]>>
               /\ disk'[i] = IF rows'[i] = None THEN None ELSE <<rec'[rows'[i]], rows'[i]>>
    BY <1>3 DEF IInv, Records, OnDisk, RecordAndOrder, Put, Persist
  <1>7. R.sealed = FALSE
    OBVIOUS
  <1> HIDE DEF R, n
  <1>8. ASSUME NEW i \in Ids, i # n
        PROVE  disk'[i] = disk[i]
    <2>1. rows'[i] = rows[i] /\ (rows[i] # None => rec'[rows[i]] = rec[rows[i]])
      BY <1>2, <1>4, <1>8
    <2> QED BY <1>6, <2>1
  <1>9. ASSUME n \in Ids
        PROVE  disk[n] = None /\ disk'[n] = <<R, r>>
    BY <1>2, <1>5, <1>6, <1>9, Names
  <1>10. CardOf(disk') = CardOf(disk)
    <2>1. \A q \in Requests, i \in Ids :
            (disk'[i] # None /\ disk'[i][2] = q /\ disk'[i][1].sealed)
              <=> (disk[i] # None /\ disk[i][2] = q /\ disk[i][1].sealed)
      BY <1>7, <1>8, <1>9
    <2> QED BY <2>1 DEF CardOf
  <1> QED BY <1>1, <1>10, Mapping

\* A swap is deferred, or a decision is written down: no card is new.
LEMMA DeferIsUnseen ==
  ASSUME IInv, NEW t \in Threads, th[t].pc \in Working,
         Put(th[t].req, rec[th[t].req]), UNCHANGED <<ledger, server>>
  PROVE  UNCHANGED <<promiseBar, cardBar>>
  <1>1. th[t].req \in Requests /\ rec[th[t].req] # None /\ rec[th[t].req] \in Record
    BY AtWork
  <1> QED BY <1>1, OnRecord, SameCards

\* The same of a record that is marked settled or refunded.
LEMMA MarkIsUnseen ==
  ASSUME IInv, NEW t \in Threads, th[t].pc \in Working, NEW st \in {"Settled", "Cancelled"},
         ledger[rec[th[t].req].id].status = st,
         Put(th[t].req, [rec[th[t].req] EXCEPT !.status = st]), UNCHANGED <<ledger, server>>
  PROVE  UNCHANGED <<promiseBar, cardBar>>
  <1> DEFINE r == th[t].req
             R == [rec[r] EXCEPT !.status = st]
  <1>1. r \in Requests /\ rec[r] # None /\ rec[r] \in Record
    BY AtWork
  <1>2. R \in Record /\ R.id = rec[r].id /\ R.sealed = rec[r].sealed /\ R.status = st
    BY <1>1 DEF Record, Status
  <1>3. Put(r, R)
    OBVIOUS
  <1> HIDE DEF R, r
  <1> QED BY <1>1, <1>2, <1>3, SameCards DEF r

\* Every step is one of the promise's, or one it does not see.
Kept ==
  \/ UNCHANGED <<promiseBar, cardBar>>
  \/ \E r \in Requests : Promise!Hold(r) \/ Promise!Seal(r) \/ Promise!Deliver(r) \/ Promise!Refund(r)

\* The steps of swap hold the credits or seal the card.
LEMMA SwapIsKept ==
  ASSUME IInv, JInv, NEW r \in Requests, Swap(r)
  PROVE  Kept
  <1>0. r \in Threads /\ "ordering" \in Working /\ th[r].req = r
    BY Names DEF Working, IInv, Early
  <1>1. CASE Burn(r)
    BY <1>1, BurnIsHold DEF Kept
  <1>2. CASE RecordAndOrder(r)
    BY <1>2, RecordIsUnseen DEF Kept
  <1>3. CASE OrderAnswered(r)
    <2>1. th[r].pc = "ordering" /\ r \in orders /\ SealRecord(r)
      BY <1>3 DEF OrderAnswered, JInv, Ordered
    <2> QED BY <1>0, <2>1, SealIsSeal DEF Kept
  <1>4. CASE CountSwaps(r) \/ BurnRefused(r) \/ OrderDeclined(r) \/ OrderUncertain(r) \/ OrderUnreadable(r)
    <2>1. UNCHANGED <<ledger, disk>>
      BY <1>4 DEF CountSwaps, BurnRefused, OrderDeclined, OrderUncertain, OrderUnreadable, Throw, unrecorded
    <2> QED BY <2>1, Unseen DEF Kept
  <1> QED BY <1>1, <1>2, <1>3, <1>4 DEF Swap

\* A lookup seals the card or changes nothing that was promised.
LEMMA LookupIsKept ==
  ASSUME IInv, JInv, NEW t \in Threads, Lookup(t)
  PROVE  Kept
  <1>0. th[t].pc = "lookup" /\ th[t].pc \in Working /\ th[t].req \in Requests
    <2>1. th[t].pc = "lookup"
      BY DEF Lookup, LookupFinds, LookupEmpty
    <2> QED BY <2>1, AtWork DEF Working
  <1>1. CASE LookupFinds(t)
    BY <1>0, <1>1, SealIsSeal DEF LookupFinds, Kept
  <1>2. CASE LookupEmpty(t)
    <2>1. UNCHANGED <<ledger, server>>
      BY <1>2 DEF LookupEmpty
    <2>2. UNCHANGED unrecorded \/ Put(th[t].req, rec[th[t].req])
      BY <1>2 DEF LookupEmpty, GiveUpLookup
    <2> QED BY <1>0, <2>1, <2>2, Unseen, DeferIsUnseen DEF Kept, unrecorded
  <1> QED BY <1>1, <1>2 DEF Lookup

\* The ledger delivers or refunds once; writing it down adds nothing.
LEMMA DecideIsKept ==
  ASSUME IInv, JInv, NEW t \in Threads, Decide(t)
  PROVE  Kept
  <1>0. th[t].pc \in Working /\ th[t].req \in Requests /\ Late(t)
    <2>1. th[t].pc \in Working
      BY DEF Decide, CheckStatus, SettleSwap, SettleRefused, SettleKnown, CancelSwap, CancelRefused, CancelKnown,
          Working
    <2> QED BY <2>1, AtWork DEF IInv
  <1>1. CASE SettleSwap(t)
    BY <1>0, <1>1, SettleIsDeliver DEF Kept
  <1>2. CASE CancelSwap(t)
    BY <1>0, <1>2, CancelIsRefund DEF Kept
  <1>3. CASE (CheckStatus(t) /\ StatusOf(t) = "Settled") \/ SettleKnown(t)
    <2>1. ledger[rec[th[t].req].id].status = "Settled"
      BY <1>0, <1>3 DEF StatusOf, SettleKnown, Late
    <2>2. Put(th[t].req, [rec[th[t].req] EXCEPT !.status = "Settled"]) /\ UNCHANGED <<ledger, server>>
      BY <1>3 DEF CheckStatus, SettleKnown, MarkSettled
    <2> QED BY <1>0, <2>1, <2>2, MarkIsUnseen DEF Kept
  <1>4. CASE CancelKnown(t)
    <2>1. ledger[rec[th[t].req].id].status = "Cancelled"
      BY <1>0, <1>4 DEF CancelKnown, Late
    <2>2. Put(th[t].req, [rec[th[t].req] EXCEPT !.status = "Cancelled"]) /\ UNCHANGED <<ledger, server>>
      BY <1>4 DEF CancelKnown
    <2> QED BY <1>0, <2>1, <2>2, MarkIsUnseen DEF Kept
  <1>5. CASE (CheckStatus(t) /\ StatusOf(t) # "Settled") \/ SettleRefused(t) \/ CancelRefused(t)
    <2>1. UNCHANGED <<ledger, disk>>
      BY <1>5 DEF CheckStatus, SettleRefused, SettleThrows, CancelRefused, Throw, unrecorded
    <2> QED BY <2>1, Unseen DEF Kept
  <1> QED BY <1>1, <1>2, <1>3, <1>4, <1>5 DEF Decide

\* Every step of the service is a step of the promise or is unseen by it.
LEMMA NextIsKept == IInv /\ JInv /\ [Next]_vars => Kept
  <1> SUFFICES ASSUME IInv, JInv, [Next]_vars PROVE Kept
    OBVIOUS
  <1>1. CASE \E r \in Requests : Swap(r)
    BY <1>1, SwapIsKept
  <1>2. CASE \E t \in Threads : Lookup(t) \/ Decide(t)
    BY <1>2, LookupIsKept, DecideIsKept
  <1>3. CASE (\E r \in Requests : Provider(r)) \/ \E t \in Threads : RpcFails(t)
    <2>1. UNCHANGED <<ledger, disk>>
      BY <1>3 DEF Provider, ProviderIssues, ProviderRefuses, ReplyGarbled, RpcFails, Throw, unrecorded
    <2> QED BY <2>1, Unseen DEF Kept
  <1>4. CASE \/ \E o \in Operators : Operator(o)
             \/ \E on \in BOOLEAN : SetPause(on)
             \/ Crash \/ Recover \/ UNCHANGED vars
    <2>1. UNCHANGED <<ledger, disk>>
      BY <1>4 DEF Operator, PressCancel, PressRefund, SetPause, Crash, Recover, Restart, RecoverDone,
         RecoverNext, unrecorded, vars
    <2> QED BY <2>1, Unseen DEF Kept
  <1> QED BY <1>1, <1>2, <1>3, <1>4 DEF Next

\* At the start nothing is promised.
LEMMA InitIsKept == Init => Promise!Init
  <1> SUFFICES ASSUME Init PROVE Promise!Init
    OBVIOUS
  <1>1. DOMAIN ledger = {} /\ \A i \in Ids : disk[i] = None
    BY DEF Init
  <1>2. PromiseOf(ledger) = [r \in Requests |-> "none"]
    BY <1>1 DEF PromiseOf
  <1>3. CardOf(disk) = [r \in Requests |-> FALSE]
    BY <1>1 DEF CardOf
  <1> QED BY <1>2, <1>3, Mapping DEF Promise!Init
-----------------------------------------------------------------------------
\* Both invariants together, when operators are patient: what is on the wire,
\* what the provider has issued and who may still refund (swap.js, bhn-client.js).
THEOREM PatientInvariance == ASSUME Patient PROVE Spec /\ NoStaleCount => [](IInv /\ JInv)
  <1>1. Init => IInv /\ JInv
    BY InitIInv, InitJInv
  <1>2. IInv /\ JInv /\ [CountIsCurrent]_vars /\ [Next]_vars => IInv' /\ JInv'
    BY NextIInv, NextJInv
  <1> QED BY <1>1, <1>2, PTL DEF Spec, NoStaleCount

\* "nobody gets both" (swap.js line 212): with patient operators no learner
\* has the refund and a card.
THEOREM RefundOrCard == ASSUME Patient PROVE Spec /\ NoStaleCount => []NobodyGetsBoth
  <1>1. IInv /\ JInv => NobodyGetsBoth
    BY DEF NobodyGetsBoth, Refunded, SwapsOf, InWallet, JInv, Issued, Unfound
  <1> QED BY <1>1, PatientInvariance, PTL

\* The service implements SwapPromise, the promise at the head of swap.js.
THEOREM PromiseIsKept == ASSUME Patient PROVE Spec /\ NoStaleCount => KeepsThePromise
  <1>1. IInv /\ JInv /\ [Next]_vars => [Promise!Next]_<<promiseBar, cardBar>>
    BY NextIsKept DEF Kept, Promise!Next
  <1> QED BY <1>1, InitIsKept, PatientInvariance, PTL DEF Spec, KeepsThePromise, Promise!Spec
-----------------------------------------------------------------------------
(***************************************************************************)
(* Once recorded, a swap stays recorded: what a step may do to the rows on *)
(* disk, to the swaps, and to a handler that has yet to record its burn.   *)
(***************************************************************************)
\* No row is ever emptied.
RowsStay == \A i \in Ids : disk[i] # None => disk'[i] # None

\* Swaps keep their request, and a new one is that of a handler that knows it.
SwapsStay ==
  /\ \A s \in DOMAIN ledger : s \in DOMAIN ledger' /\ ledger'[s].req = ledger[s].req
  /\ \A s \in DOMAIN ledger' \ DOMAIN ledger :
       ledger'[s].req \in Requests /\ th'[ledger'[s].req].pc = "burnt"

\* A handler records its burn, unless something fails.
BurntStay ==
  \A r \in Requests : th[r].pc = "burnt" =>
    th'[r].pc = "burnt" \/ faults' > faults \/ disk'[th[r].id] # None

Stays == RowsStay /\ SwapsStay /\ BurntStay

\* The file is written whole, from rows that only ever gain one.
LEMMA WrittenWhole ==
  ASSUME IInv, IInv', server # "down", server' # "down",
         \A i \in Ids : rows[i] # None => rows'[i] # None
  PROVE  RowsStay
  <1> SUFFICES ASSUME NEW i \in Ids, disk[i] # None PROVE disk'[i] # None
    BY DEF RowsStay
  <1>1. rows'[i] # None
    BY DEF IInv, Records, OnDisk
  <1>2. rows'[i] \in Requests /\ rec'[rows'[i]] # None
    BY <1>1 DEF IInv, TypeOK, Records, Filed
  <1>3. <<rec'[rows'[i]], rows'[i]>> \in Record \X Requests
    BY <1>2 DEF IInv, TypeOK
  <1>4. disk'[i] = <<rec'[rows'[i]], rows'[i]>>
    BY <1>1 DEF IInv, Records, OnDisk
  <1> QED BY <1>3, <1>4, Names

\* A put is such a write.
LEMMA PutStays ==
  ASSUME IInv, IInv', server # "down", server' = server, NEW r \in Requests, NEW R, Put(r, R)
  PROVE  RowsStay
  <1>1. \A i \in Ids : rows[i] # None => rows'[i] # None
    BY Types, Names DEF Put
  <1> QED BY <1>1, WrittenWhole

\* What a step of a thread that has recorded its burn leaves alone.
LEMMA OtherHandlers ==
  ASSUME IInv, NEW t \in Threads, th[t].pc # "burnt", NEW x, th' = [th EXCEPT ![t] = x]
  PROVE  BurntStay
  BY Types, Names DEF BurntStay

\* The ledger's swaps are those there were.
LEMMA SameSwaps == ledger' = ledger => SwapsStay
  BY DEF SwapsStay

\* A decision is a change of status.
LEMMA DecisionStays ==
  ASSUME IInv, NEW s, NEW status, ledger' = [ledger EXCEPT ![s].status = status]
  PROVE  SwapsStay
  BY Types DEF SwapsStay

\* Steps of swap.
LEMMA SwapStays ==
  ASSUME IInv, IInv', NEW r \in Requests, Swap(r)
  PROVE  Stays
  <1>0. r \in Threads /\ th \in [Threads -> Thread] /\ Early(r) /\ Late(r)
    BY Types, Names DEF IInv
  <1>1. CASE CountSwaps(r) \/ BurnRefused(r) \/ OrderDeclined(r) \/ OrderUncertain(r) \/ OrderUnreadable(r)
    <2>1. UNCHANGED <<ledger, disk>> /\ th[r].pc # "burnt"
      BY <1>1 DEF CountSwaps, BurnRefused, OrderDeclined, OrderUncertain, OrderUnreadable, Throw, unrecorded
    <2>2. \E x : th' = [th EXCEPT ![r] = x]
      BY <1>1 DEF CountSwaps, BurnRefused, OrderDeclined, OrderUncertain, OrderUnreadable, Throw, Goto, Finish
    <2> QED BY <1>0, <2>1, <2>2, OtherHandlers, SameSwaps DEF Stays, RowsStay
  <1>2. CASE Burn(r)
    <2>1. th[r].pc # "burnt" /\ UNCHANGED disk /\ \E x : th' = [th EXCEPT ![r] = x]
      BY <1>2 DEF Burn, Goto, unrecorded
    <2>2. th'[r].pc = "burnt" /\ ledger' = Append(ledger, [req |-> r, status |-> "Requested"])
      BY <1>0, <1>2 DEF Burn, Goto
    <2>3. [req |-> r, status |-> "Requested"] \in Entry /\ ledger \in Seq(Entry)
      BY Types DEF Entry, Status
    <2>4. SwapsStay
      BY <2>2, <2>3, AppendProperties, LenProperties DEF SwapsStay
    <2> QED BY <1>0, <2>1, <2>4, OtherHandlers DEF Stays, RowsStay
  <1>3. CASE RecordAndOrder(r)
    <2> DEFINE R == [id |-> th[r].id, status |-> "Requested", sealed |-> FALSE]
    <2>1. /\ Put(r, R) /\ UNCHANGED <<ledger, server>>
          /\ th' = [th EXCEPT ![r].pc = "ordering"] /\ th[r].pc = "burnt"
      BY <1>3 DEF RecordAndOrder, Goto
    <2>2. server # "down"
      BY <1>0, <2>1 DEF Late
    <2>3. RowsStay
      BY <2>1, <2>2, PutStays
    <2>4. disk'[th[r].id] # None
      <3>1. th[r].id \in Ids
        <4>1. th[r].id # 0
          BY <1>0, <2>1, Types DEF Early
        <4> QED BY <1>0, <4>1 DEF Thread
      <3>2. rows'[th[r].id] = r
        BY <2>1, <3>1, Types DEF Put
      <3>3. rec'[r] # None /\ rec'[r] \in Record /\ r # None
        BY <3>1, <3>2, Names DEF IInv, Records, Filed, TypeOK
      <3>4. disk'[th[r].id] = <<rec'[r], r>>
        BY <2>1, <2>2, <3>1, <3>2, <3>3 DEF IInv, Records, OnDisk
      <3>5. <<rec'[r], r>> \in Record \X Requests
        BY <3>3
      <3> QED BY <3>4, <3>5, Names
    <2>5. BurntStay
      BY <1>0, <2>1, <2>4, Names DEF BurntStay
    <2> QED BY <2>1, <2>3, <2>5, SameSwaps DEF Stays
  <1>4. CASE OrderAnswered(r)
    <2>1. th[r].pc = "ordering" /\ SealRecord(r) /\ "ordering" \in Working
      BY <1>4 DEF OrderAnswered, Working
    <2>2. server # "down" /\ th[r].req \in Requests
      BY <1>0, <2>1, AtWork
    <2>3. /\ \E R : Put(th[r].req, R)
          /\ UNCHANGED <<ledger, server>> /\ \E x : th' = [th EXCEPT ![r] = x]
      BY <2>1 DEF SealRecord, Goto
    <2> QED BY <1>0, <2>1, <2>2, <2>3, PutStays, OtherHandlers, SameSwaps DEF Stays
  <1> QED BY <1>1, <1>2, <1>3, <1>4 DEF Swap

\* Lookups, decisions and the records of them.
LEMMA WorkStays ==
  ASSUME IInv, IInv', NEW t \in Threads, Lookup(t) \/ Decide(t)
  PROVE  Stays
  <1>1. th[t].pc \in Working /\ th[t].pc # "burnt"
    BY DEF Lookup, LookupFinds, LookupEmpty, Decide, CheckStatus, SettleSwap, SettleRefused, SettleKnown,
        CancelSwap, CancelRefused, CancelKnown, Working
  <1>2. server # "down" /\ th[t].req \in Requests
    BY <1>1, AtWork
  <1>3. UNCHANGED server
    BY DEF Lookup, LookupFinds, LookupEmpty, SealRecord, Decide, CheckStatus, SettleSwap, SettleRefused,
        SettleKnown, CancelSwap, CancelRefused, CancelKnown, MarkSettled, SettleThrows, Throw
  <1>4. \E x : th' = [th EXCEPT ![t] = x]
    BY DEF Lookup, LookupFinds, LookupEmpty, SealRecord, GiveUpLookup, Decide, CheckStatus, SettleSwap,
        SettleRefused, SettleKnown, CancelSwap, CancelRefused, CancelKnown, MarkSettled, SettleThrows, Throw,
        Goto, Finish
  <1>5. UNCHANGED disk \/ \E R : Put(th[t].req, R)
    BY DEF Lookup, LookupFinds, LookupEmpty, SealRecord, GiveUpLookup, Decide, CheckStatus, SettleSwap,
        SettleRefused, SettleKnown, CancelSwap, CancelRefused, CancelKnown, MarkSettled, SettleThrows, Throw,
        unrecorded
  <1>6. UNCHANGED ledger \/ \E s, status : ledger' = [ledger EXCEPT ![s].status = status]
    BY DEF Lookup, LookupFinds, LookupEmpty, SealRecord, Decide, CheckStatus, SettleSwap, SettleRefused,
        SettleKnown, CancelSwap, CancelRefused, CancelKnown, MarkSettled
  <1>7. RowsStay
    BY <1>2, <1>3, <1>5, PutStays DEF RowsStay
  <1>8. SwapsStay
    BY <1>6, SameSwaps, DecisionStays
  <1> QED BY <1>1, <1>4, <1>7, <1>8, OtherHandlers DEF Stays

\* No step loses what is recorded.
LEMMA NextStays == IInv /\ IInv' /\ [Next]_vars => Stays
  <1> SUFFICES ASSUME IInv, IInv', [Next]_vars PROVE Stays
    OBVIOUS
  <1>0. th \in [Threads -> Thread] /\ faults \in Nat /\ Recovery \in Threads /\ Operators \subseteq Threads
    BY Types, Names, BoundsAssumption DEF IInv, TypeOK
  <1>1. CASE UNCHANGED <<ledger, disk>> /\ (UNCHANGED th \/ faults' = faults + 1)
    BY <1>0, <1>1, SameSwaps DEF Stays, RowsStay, BurntStay
  <1>2. CASE \E r \in Requests : Provider(r)
    BY <1>1, <1>2 DEF Provider, ProviderIssues, ProviderRefuses, ReplyGarbled, unrecorded
  <1>3. CASE \E r \in Requests : Swap(r)
    BY <1>3, SwapStays
  <1>4. CASE \E t \in Threads : Lookup(t) \/ Decide(t)
    BY <1>4, WorkStays
  <1>5. CASE \E t \in Threads : RpcFails(t)
    BY <1>1, <1>5 DEF RpcFails, Fault, Throw, unrecorded
  <1>6. CASE \E t \in Threads, op \in {"cancel", "refund", "recover"}, id \in Ids :
               th[t].pc = "idle" /\ TakeUp(t, op, id) /\ UNCHANGED <<ledger, disk>>
    <2>1. PICK t \in Threads : /\ th[t].pc = "idle" /\ UNCHANGED <<ledger, disk>>
                               /\ \E x : th' = [th EXCEPT ![t] = x]
      BY <1>6 DEF TakeUp
    <2> QED BY <2>1, OtherHandlers, SameSwaps DEF Stays, RowsStay
  <1>7. CASE \E o \in Operators : Operator(o)
    BY <1>0, <1>6, <1>7 DEF Operator, PressCancel, PressRefund, unrecorded
  <1>8. CASE \E on \in BOOLEAN : SetPause(on)
    BY <1>1, <1>8 DEF SetPause, unrecorded
  <1>9. CASE Crash
    BY <1>1, <1>9 DEF Crash, Fault
  <1>10. CASE Recover
    <2>1. CASE Restart \/ RecoverDone
      BY <1>1, <2>1 DEF Restart, RecoverDone, unrecorded
    <2>2. CASE \E id \in Ids : RecoverNext(id)
      BY <1>0, <1>6, <2>2 DEF RecoverNext, unrecorded
    <2> QED BY <1>10, <2>1, <2>2 DEF Recover
  <1>11. CASE UNCHANGED vars
    BY <1>1, <1>11 DEF vars
  <1> QED BY <1>2, <1>3, <1>4, <1>5, <1>7, <1>8, <1>9, <1>10, <1>11 DEF Next

\* Every swap has a row that could be its own.
LEMMA SwapsHaveRows ==
  ASSUME IInv
  PROVE  DOMAIN ledger \subseteq Ids
  <1>1. Len(ledger) <= Cardinality(Requests) /\ Cardinality(Requests) \in Nat
    BY Types, BoundsAssumption, OneSwapEach DEF Burned
  <1> QED BY <1>1, Types DEF Ids

\* A swap that is lost was lost between its burn and its record, and by a
\* crash or a lost reply.
LEMMA StaysRecorded ==
  ASSUME IInv, IInv', Stays, NEW s \in DOMAIN ledger', ledger'[s].status = "Requested",
         ~Recorded(s)', th'[ledger'[s].req].pc # "burnt"
  PROVE  /\ s \in DOMAIN ledger /\ ~Recorded(s)
         /\ th[ledger[s].req].pc = "burnt" => faults' > faults
  <1>1. s \in DOMAIN ledger /\ ledger'[s].req = ledger[s].req
    BY DEF Stays, SwapsStay
  <1>2. s \in Ids
    BY <1>1, SwapsHaveRows
  <1>3. disk'[s] = None
    BY <1>2 DEF IInv, Records, Truthful, Recorded
  <1>4. ~Recorded(s)
    BY <1>2, <1>3 DEF Stays, RowsStay, Recorded
  <1>5. ASSUME th[ledger[s].req].pc = "burnt"
        PROVE  faults' > faults
    <2>1. ledger[s].req \in Requests
      BY <1>1, Types
    <2>2. Early(ledger[s].req)
      BY <2>1 DEF IInv
    <2>3. th[ledger[s].req].id \in DOMAIN ledger /\ ledger[th[ledger[s].req].id].req = ledger[s].req
      BY <1>5, <2>2 DEF Early
    <2>4. th[ledger[s].req].id = s
      BY <1>1, <2>3 DEF IInv, BurnsOnce
    <2> QED BY <1>1, <1>3, <1>5, <2>1, <2>4 DEF Stays, BurntStay
  <1> QED BY <1>1, <1>4, <1>5

\* "never a spent balance with nothing to show for it" (swap.js lines 12-13)
\* fails nowhere else: a swap with no record got lost by a crash or a lost reply
\* between its burn and its record, and no step after that takes a record away.
THEOREM LostOnlyThen == Spec /\ NoStaleCount => LostOnlyBeforeItsRecord
  <1>1. ASSUME IInv, [CountIsCurrent]_vars, [Next]_vars
        PROVE  [\A s \in DOMAIN ledger' : ledger'[s].status = "Requested" =>
                  \/ Recorded(s)' \/ th'[ledger'[s].req].pc = "burnt"
                  \/ /\ s \in DOMAIN ledger /\ ~Recorded(s)
                     /\ th[ledger[s].req].pc = "burnt" => faults' > faults]_vars
    <2>1. IInv' /\ Stays
      BY <1>1, NextIInv, NextStays
    <2> QED BY <1>1, <2>1, StaysRecorded
  <1> QED BY <1>1, InductiveInvariant, PTL DEF Spec, LostOnlyBeforeItsRecord, NoStaleCount
=============================================================================
