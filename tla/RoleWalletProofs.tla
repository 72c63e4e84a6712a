-------------------------- MODULE RoleWalletProofs --------------------------
(***************************************************************************)
(* Proofs about the nonces of a role key, for any set of callers and any   *)
(* bounds.                                                                 *)
(*                                                                         *)
(* That no lone call fails is not inductive: it needs to know that the     *)
(* manager, whenever it holds a count, gives out the nonce the node takes  *)
(* next.  That is Aligned; overlapping calls destroy it, and the failure   *)
(* of a call that was alone restores it, by the reset.                     *)
(***************************************************************************)
EXTENDS RoleWallet, TLAPS

\* One call in flight at most; if it is being sent, the manager is one nonce
\* past it and the nonce is the node's next, at the latest once the count is
\* known; and if none is, the manager will give out the node's next.
Aligned ==
  /\ \A c, d \in InFlight : c = d
  /\ \A c \in Callers : call[c].pc = "sending" =>
       /\ manager = [promise |-> call[c].promise, delta |-> call[c].delta + 1]
       /\ IF Known(c) THEN Nonce(c) = next ELSE call[c].delta = 0
  /\ (\A c \in Callers : call[c].pc # "sending") =>
       \/ manager.promise = 0 /\ manager.delta = 0
       \/ /\ manager.promise # 0 /\ counts[manager.promise] # Asked
          /\ counts[manager.promise] + manager.delta = next

LoneIsAlone == lone # None => InFlight \subseteq {lone}

Inv ==
  /\ TypeOK
  /\ SequentialCallsNeverClash /\ KeyRecovers /\ LoneIsAlone
  /\ ~overlapped \/ strikes = 1 => Aligned
-----------------------------------------------------------------------------
\* No call, and a manager that has not asked.
LEMMA InitInv == Init => Inv
  <1> SUFFICES ASSUME Init PROVE Inv
    OBVIOUS
  <1>1. TypeOK
    <2>1. Idle \in Call /\ call \in [Callers -> Call] /\ \A c \in Callers : call[c].pc = "idle"
      BY DEF Init, Call, Idle
    <2>2. Len(counts) = 0 /\ counts \in Seq(Nat \cup {Asked})
      BY DEF Init
    <2>3. manager \in [promise : 0..Len(counts), delta : Nat]
      BY <2>2 DEF Init, Unasked
    <2> QED BY <2>1, <2>2, <2>3 DEF Init, TypeOK
  <1>2. Aligned
    BY DEF Init, Aligned, InFlight, Idle, Unasked
  <1>3. SequentialCallsNeverClash /\ KeyRecovers /\ LoneIsAlone
    BY DEF Init, SequentialCallsNeverClash, KeyRecovers, LoneIsAlone
  <1> QED BY <1>1, <1>2, <1>3 DEF Inv

\* A call starts: alone, it gets the nonce the manager is known to give out.
LEMMA SendKeepsInv ==
  ASSUME Inv, NEW c \in Callers, Send(c)
  PROVE  Inv'
  <1> DEFINE p == IF manager.promise = 0 THEN Len(counts) + 1 ELSE manager.promise
             sent == [pc |-> "sending", promise |-> p, delta |-> manager.delta]
  <1>1. /\ call[c].pc = "idle" /\ next' = next
        /\ counts' = IF p > Len(counts) THEN Append(counts, Asked) ELSE counts
        /\ manager' = [promise |-> p, delta |-> manager.delta + 1]
        /\ call' = [call EXCEPT ![c] = sent]
        /\ overlapped' = (overlapped \/ InFlight # {})
        /\ lone' = IF InFlight = {} THEN c ELSE None
        /\ strikes' = IF InFlight = {} THEN strikes ELSE 0
    BY DEF Send
  <1>2. TypeOK /\ Inv
    BY DEF Inv
  <1>3. /\ manager.promise \in 0..Len(counts) /\ manager.delta \in Nat
        /\ Len(counts) \in Nat /\ counts \in Seq(Nat \cup {Asked})
    BY <1>2 DEF TypeOK
  <1>4. p \in 1..(Len(counts) + 1) /\ p \in 1..Len(counts')
    BY <1>1, <1>3
  <1>5. /\ counts' \in Seq(Nat \cup {Asked}) /\ Len(counts') >= Len(counts)
        /\ \A q \in 1..Len(counts) : counts'[q] = counts[q]
        /\ p = Len(counts) + 1 => counts'[p] = Asked
    BY <1>1, <1>3, <1>4
  <1>6. sent \in Call
    BY <1>3, <1>4 DEF Call
  <1>7. TypeOK'
    <2>1. call' \in [Callers -> Call]
      BY <1>1, <1>2, <1>6 DEF TypeOK
    <2>2. \A d \in Callers : call'[d].pc # "idle" => call'[d].promise \in 1..Len(counts')
      <3> TAKE d \in Callers
      <3>1. CASE d = c
        BY <3>1, <1>1, <1>2, <1>4 DEF TypeOK
      <3>2. CASE d # c
        BY <3>2, <1>1, <1>2, <1>3, <1>5 DEF TypeOK
      <3> QED BY <3>1, <3>2
    <2>3. manager' \in [promise : 0..Len(counts'), delta : Nat]
      BY <1>1, <1>3, <1>4
    <2> QED BY <2>1, <2>2, <2>3, <1>1, <1>2, <1>5 DEF TypeOK
  <1>8. InFlight' = InFlight \cup {c}
    BY <1>1, <1>2 DEF InFlight, TypeOK
  <1>9. SequentialCallsNeverClash' /\ KeyRecovers' /\ LoneIsAlone'
    <2>1. SequentialCallsNeverClash'
      BY <1>1, <1>2 DEF Inv, SequentialCallsNeverClash
    <2>2. KeyRecovers'
      BY <1>1, <1>2 DEF Inv, KeyRecovers
    <2>3. LoneIsAlone'
      BY <1>1, <1>8 DEF LoneIsAlone
    <2> QED BY <2>1, <2>2, <2>3
  <1>10. ASSUME ~overlapped' \/ strikes' = 1
         PROVE  Aligned'
    <2>1. InFlight = {} /\ Aligned
      <3>1. InFlight = {}
        <4>1. CASE ~overlapped'
          BY <4>1, <1>1, Zenon
        <4>2. CASE strikes' = 1
          BY <4>2, <1>1
        <4> QED BY <1>10, <4>1, <4>2
      <3>2. ~overlapped \/ strikes = 1
        <4>1. CASE ~overlapped'
          BY <4>1, <1>1
        <4>2. CASE strikes' = 1
          BY <4>2, <3>1, <1>1
        <4> QED BY <1>10, <4>1, <4>2
      <3> QED BY <3>1, <3>2, <1>2 DEF Inv
    <2>2. \A d \in Callers : call[d].pc = "idle"
      BY <2>1 DEF InFlight
    <2>3. call'[c] = sent /\ \A d \in Callers \ {c} : call'[d].pc = "idle"
      BY <1>1, <1>2, <2>2 DEF TypeOK
    <2>4. \A d, e \in InFlight' : d = e
      BY <1>8, <2>1
    <2>5. \/ manager.promise = 0 /\ manager.delta = 0
          \/ /\ manager.promise # 0 /\ counts[manager.promise] # Asked
             /\ counts[manager.promise] + manager.delta = next
      BY <2>1, <2>2 DEF Aligned
    <2>6. manager' = [promise |-> call'[c].promise, delta |-> call'[c].delta + 1]
      BY <1>1, <2>3
    <2>7. IF counts'[p] # Asked THEN counts'[p] + manager.delta = next' ELSE manager.delta = 0
      <3>1. CASE manager.promise = 0 /\ manager.delta = 0
        BY <3>1, <1>5
      <3>2. CASE manager.promise # 0 /\ counts[manager.promise] # Asked
                 /\ counts[manager.promise] + manager.delta = next
        BY <3>2, <1>1, <1>3, <1>5
      <3> QED BY <2>5, <3>1, <3>2
    <2>8. IF Known(c)' THEN Nonce(c)' = next' ELSE call'[c].delta = 0
      BY <2>3, <2>7 DEF Known, Nonce
    <2> QED BY <2>3, <2>4, <2>6, <2>8 DEF Aligned
  <1> QED BY <1>7, <1>9, <1>10 DEF Inv

\* A call ends, or is mined: what remains in flight.
LEMMA OthersKeptInFlight ==
  ASSUME TypeOK, NEW c \in Callers, NEW v \in Call, call' = [call EXCEPT ![c] = v]
  PROVE  /\ call' \in [Callers -> Call] /\ call'[c] = v
         /\ \A d \in Callers \ {c} : call'[d] = call[d]
         /\ v.pc = "idle" => InFlight' = InFlight \ {c}
         /\ v.pc # "idle" /\ c \in InFlight => InFlight' = InFlight
  BY DEF TypeOK, InFlight

\* The node's answer gives the manager the nonce it takes next, and so changes
\* nothing for a call that is alone.
LEMMA CountKeepsInv ==
  ASSUME Inv, NEW q \in DOMAIN counts, CountKnown(q)
  PROVE  Inv'
  <1>1. /\ counts[q] = Asked /\ counts' = [counts EXCEPT ![q] = next]
        /\ UNCHANGED <<next, manager, call, overlapped, lone, strikes>>
    BY DEF CountKnown
  <1>2. TypeOK
    BY DEF Inv
  <1>3. /\ counts' \in Seq(Nat \cup {Asked}) /\ Len(counts') = Len(counts)
        /\ \A r \in 1..Len(counts) : counts'[r] = IF r = q THEN next ELSE counts[r]
    BY <1>1, <1>2 DEF TypeOK
  <1>4. TypeOK'
    BY <1>1, <1>2, <1>3 DEF TypeOK
  <1>5. SequentialCallsNeverClash' /\ KeyRecovers' /\ LoneIsAlone'
    BY <1>1 DEF Inv, SequentialCallsNeverClash, KeyRecovers, LoneIsAlone, InFlight
  <1>6. ASSUME Aligned
        PROVE  Aligned'
    <2>1. \A d, e \in InFlight' : d = e
      BY <1>6, <1>1 DEF Aligned, InFlight
    <2>2. ASSUME NEW d \in Callers, call[d].pc = "sending"
          PROVE  IF Known(d)' THEN Nonce(d)' = next ELSE call[d].delta = 0
      <3>1. call[d].promise \in 1..Len(counts) /\ next \in Nat
        BY <1>2, <2>2 DEF TypeOK
      <3>2. IF Known(d) THEN Nonce(d) = next ELSE call[d].delta = 0
        BY <1>6, <2>2 DEF Aligned
      <3> QED BY <1>1, <1>3, <3>1, <3>2, AskedAssumption DEF Known, Nonce
    <2>3. ASSUME manager.promise # 0, counts[manager.promise] # Asked
          PROVE  counts'[manager.promise] = counts[manager.promise]
      BY <2>3, <1>1, <1>2, <1>3 DEF TypeOK
    <2> QED BY <2>1, <2>2, <2>3, <1>1, <1>6 DEF Aligned
  <1> QED BY <1>1, <1>4, <1>5, <1>6 DEF Inv

\* A failure leaves a manager that asks anew: were no other call in flight, all
\* is well again.
LEMMA FailKeepsInv ==
  ASSUME Inv, NEW c \in Callers, c \in InFlight, Fail(c), counts' = counts,
         next' \in Nat, UNCHANGED <<overlapped, lone>>,
         strikes' \in {0, strikes} \/ (~Aligned /\ lone = c /\ strikes' = strikes + 1)
  PROVE  Inv'
  <1>1. call' = [call EXCEPT ![c] = Idle] /\ manager' = [promise |-> 0, delta |-> 0]
    BY DEF Fail, End, Reset, Unasked
  <1>2. TypeOK /\ Idle \in Call /\ Idle.pc = "idle"
    BY DEF Inv, Idle, Call
  <1>3. /\ call' \in [Callers -> Call] /\ call'[c] = Idle
        /\ \A d \in Callers \ {c} : call'[d] = call[d]
        /\ InFlight' = InFlight \ {c}
    BY <1>1, <1>2, OthersKeptInFlight
  <1>4. Aligned => strikes' \in {0, strikes}
    OBVIOUS
  <1>5. ~Aligned => overlapped /\ strikes = 0
    BY <1>2 DEF Inv, KeyRecovers, TypeOK
  <1>6. strikes' \in 0..1 /\ (~overlapped => strikes' = 0)
    <2>1. CASE Aligned
      BY <2>1, <1>2, <1>4 DEF Inv, KeyRecovers, SequentialCallsNeverClash, TypeOK
    <2>2. CASE ~Aligned
      BY <2>2, <1>5
    <2> QED BY <2>1, <2>2
  <1>7. TypeOK'
    <2>1. manager' \in [promise : 0..Len(counts'), delta : Nat]
      BY <1>1, <1>2 DEF TypeOK
    <2>2. \A d \in Callers : call'[d].pc # "idle" => call'[d].promise \in 1..Len(counts')
      BY <1>2, <1>3 DEF TypeOK
    <2> QED BY <2>1, <2>2, <1>2, <1>3, <1>6 DEF TypeOK
  <1>8. ASSUME ~overlapped \/ strikes' = 1
        PROVE  Aligned'
    <2>1. InFlight' = {}
      <3>1. CASE Aligned
        BY <3>1, <1>3 DEF Aligned
      <3>2. CASE ~Aligned
        <4>1. strikes' = 1 /\ strikes = 0
          BY <3>2, <1>5, <1>8
        <4>2. lone = c /\ lone # None
          BY <4>1, CallersAssumption
        <4> QED BY <4>2, <1>3 DEF Inv, LoneIsAlone
      <3> QED BY <3>1, <3>2
    <2>2. \A d \in Callers : call'[d].pc = "idle"
      BY <2>1 DEF InFlight
    <2> QED BY <1>1, <2>1, <2>2 DEF Aligned
  <1>9. LoneIsAlone'
    BY <1>3 DEF Inv, LoneIsAlone
  <1>10. SequentialCallsNeverClash' /\ KeyRecovers'
    BY <1>6 DEF SequentialCallsNeverClash, KeyRecovers
  <1> QED BY <1>7, <1>8, <1>9, <1>10 DEF Inv

\* A transaction that is mined uses up the node's next nonce.
LEMMA MinedKeepsInv ==
  ASSUME Inv, NEW c \in Callers, Mined(c)
  PROVE  Inv'
  <1> DEFINE mined == [call[c] EXCEPT !.pc = "mined"]
  <1>1. /\ call[c].pc = "sending" /\ Known(c) /\ Nonce(c) = next
        /\ next' = next + 1 /\ strikes' = 0
        /\ call' = [call EXCEPT ![c] = mined]
        /\ UNCHANGED <<counts, overlapped, lone, manager>>
    BY DEF Mined, Mine
  <1>2. /\ TypeOK /\ call[c] \in Call /\ call[c].promise \in 1..Len(counts)
        /\ counts[call[c].promise] \in Nat
    BY <1>1, CallersAssumption DEF Inv, TypeOK, Known
  <1>3. mined \in Call /\ mined.pc = "mined" /\ mined.promise = call[c].promise
    BY <1>2 DEF Call
  <1>4. /\ call' \in [Callers -> Call] /\ call'[c] = mined
        /\ \A d \in Callers \ {c} : call'[d] = call[d]
        /\ InFlight' = InFlight
    <2>1. c \in InFlight
      BY <1>1 DEF InFlight
    <2> QED BY <2>1, <1>1, <1>2, <1>3, OthersKeptInFlight
  <1>5. TypeOK'
    <2>1. \A d \in Callers : call'[d].pc # "idle" => call'[d].promise \in 1..Len(counts')
      BY <1>1, <1>2, <1>3, <1>4 DEF TypeOK
    <2> QED BY <2>1, <1>1, <1>2, <1>4 DEF TypeOK
  <1>6. SequentialCallsNeverClash' /\ KeyRecovers' /\ LoneIsAlone'
    BY <1>1, <1>4 DEF Inv, SequentialCallsNeverClash, KeyRecovers, LoneIsAlone
  <1>7. ASSUME Aligned
        PROVE  Aligned'
    <2>1. \A d \in Callers \ {c} : call'[d].pc = "idle"
      BY <1>1, <1>4, <1>7 DEF Aligned, InFlight
    <2>2. manager = [promise |-> call[c].promise, delta |-> call[c].delta + 1]
      BY <1>1, <1>7 DEF Aligned
    <2>3. manager.promise # 0 /\ counts[manager.promise] # Asked
      BY <2>2, <1>1, <1>2 DEF Known
    <2>4. counts[manager.promise] + manager.delta = next + 1
      BY <2>2, <1>1, <1>2 DEF Nonce, Call, TypeOK
    <2>5. \A d, e \in InFlight' : d = e
      BY <1>4, <1>7 DEF Aligned
    <2>6. \A d \in Callers : call'[d].pc # "sending"
      BY <2>1, <1>3, <1>4
    <2> QED BY <2>3, <2>4, <2>5, <2>6, <1>1 DEF Aligned
  <1>8. ~overlapped' => Aligned
    BY <1>1 DEF Inv
  <1> QED BY <1>1, <1>5, <1>6, <1>7, <1>8 DEF Inv

\* The receipt arrives: nothing was being sent.
LEMMA ReceiptKeepsInv ==
  ASSUME Inv, NEW c \in Callers, Receipt(c)
  PROVE  Inv'
  <1>1. /\ call[c].pc = "mined" /\ call' = [call EXCEPT ![c] = Idle]
        /\ UNCHANGED <<next, counts, manager, overlapped, lone, strikes>>
    BY DEF Receipt, End
  <1>2. TypeOK /\ Idle \in Call /\ Idle.pc = "idle"
    BY DEF Inv, Idle, Call
  <1>3. /\ call' \in [Callers -> Call] /\ call'[c] = Idle
        /\ \A d \in Callers \ {c} : call'[d] = call[d]
        /\ InFlight' = InFlight \ {c}
    BY <1>1, <1>2, OthersKeptInFlight
  <1>4. TypeOK'
    <2>1. \A d \in Callers : call'[d].pc # "idle" => call'[d].promise \in 1..Len(counts')
      BY <1>1, <1>2, <1>3 DEF TypeOK
    <2> QED BY <2>1, <1>1, <1>2, <1>3 DEF TypeOK
  <1>5. SequentialCallsNeverClash' /\ KeyRecovers' /\ LoneIsAlone'
    BY <1>1, <1>3 DEF Inv, SequentialCallsNeverClash, KeyRecovers, LoneIsAlone
  <1>6. ASSUME Aligned
        PROVE  Aligned'
    <2>1. \A d \in Callers : call'[d].pc # "sending" /\ call[d].pc # "sending"
      BY <1>1, <1>2, <1>3, <1>6 DEF Aligned, InFlight
    <2>2. InFlight' = {}
      BY <1>1, <1>3, <1>6 DEF Aligned, InFlight
    <2> QED BY <2>1, <2>2, <1>1, <1>6 DEF Aligned
  <1> QED BY <1>1, <1>4, <1>5, <1>6 DEF Inv

\* Of the seven ways a call proceeds, four are failures.
LEMMA StepKeepsInv == Inv /\ [Next]_vars => Inv'
  <1> SUFFICES ASSUME Inv, [Next]_vars PROVE Inv'
    OBVIOUS
  <1>1. ASSUME NEW c \in Callers, Send(c) PROVE Inv'
    BY <1>1, SendKeepsInv
  <1>2. ASSUME NEW c \in Callers, Refused(c) PROVE Inv'
    <2>1. c \in InFlight /\ Fail(c) /\ next' \in Nat
      BY <1>2 DEF Refused, InFlight, Inv, TypeOK
    <2> QED BY <2>1, <1>2, FailKeepsInv DEF Refused
  <1>3. ASSUME NEW c \in Callers, Mined(c) PROVE Inv'
    BY <1>3, MinedKeepsInv
  <1>4. ASSUME NEW c \in Callers, MinedReverted(c) PROVE Inv'
    <2>1. c \in InFlight /\ Fail(c) /\ next' \in Nat
      BY <1>4 DEF MinedReverted, Mine, InFlight, Inv, TypeOK
    <2> QED BY <2>1, <1>4, FailKeepsInv DEF MinedReverted, Mine
  <1>5. ASSUME NEW c \in Callers, Clash(c) PROVE Inv'
    <2>1. c \in InFlight /\ Fail(c) /\ next' \in Nat
      BY <1>5 DEF Clash, InFlight, Inv, TypeOK
    <2>2. ~Aligned
      BY <1>5 DEF Clash, Aligned
    <2> QED BY <2>1, <2>2, <1>5, FailKeepsInv DEF Clash
  <1>6. ASSUME NEW c \in Callers, Receipt(c) PROVE Inv'
    BY <1>6, ReceiptKeepsInv
  <1>7. ASSUME NEW c \in Callers, ReceiptLost(c) PROVE Inv'
    <2>1. c \in InFlight /\ Fail(c) /\ next' \in Nat
      BY <1>7 DEF ReceiptLost, InFlight, Inv, TypeOK
    <2> QED BY <2>1, <1>7, FailKeepsInv DEF ReceiptLost
  <1>8. ASSUME NEW q \in DOMAIN counts, CountKnown(q) PROVE Inv'
    BY <1>8, CountKeepsInv
  <1>9. CASE UNCHANGED vars
    BY <1>9 DEF vars, Inv, TypeOK, SequentialCallsNeverClash, KeyRecovers, LoneIsAlone,
       Aligned, InFlight, Known, Nonce
  <1> QED
    BY <1>1, <1>2, <1>3, <1>4, <1>5, <1>6, <1>7, <1>8, <1>9 DEF Next, Tried, Answered

\* Every reachable state satisfies the invariant.
THEOREM Invariance == Spec => []Inv
  BY InitInv, StepKeepsInv, PTL DEF Spec

\* Calls made one at a time never fail by their nonce, whatever reverts, is
\* refused or loses its receipt in between: _send's reset (ledger.js lines
\* 432-436) is enough.
THEOREM SequentialCallsAreSafe == Spec => []SequentialCallsNeverClash
  BY Invariance, PTL DEF Inv

\* Whatever overlapped before, the first call that is alone and fails by its
\* nonce is followed by one that does not: the key never stays dead.
THEOREM TheKeyRecovers == Spec => []KeyRecovers
  BY Invariance, PTL DEF Inv
=============================================================================
