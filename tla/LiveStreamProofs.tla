-------------------------- MODULE LiveStreamProofs --------------------------
(***************************************************************************)
(* Proofs about the console's stream, for any number of tokens typed, of   *)
(* faults, of loads under way and of changes.                              *)
(*                                                                         *)
(* The three properties hold together: that at most one EventSource is     *)
(* live needs every call of connectStream to have a generation to itself,  *)
(* and that needs each to have been called for a reason of its own         *)
(* (GenIsPaidFor).                                                         *)
(***************************************************************************)
EXTENDS LiveStream, TLAPS

Types ==
  /\ token \in BOOLEAN /\ timer \in BOOLEAN
  /\ gen \in Nat \ {0} /\ es \in {NoSource, gen}
  /\ ask \in [Generations -> AskState] /\ source \in [Generations -> SourceState]
  /\ ticket \in [Generations -> {"none", "valid", "used", "expired"}]
  /\ streams \subseteq Generations /\ opened \in [Generations -> Nat]
  /\ truth \in 0..MaxChanges /\ shown \in -1..MaxChanges
  /\ load \in [Loads -> NotCalled..MaxChanges]
  /\ typed \in 0..MaxTyped /\ faults \in 0..MaxFaults

\* Something has gone wrong with the current generation that leads to another.
Broken ==
  \/ timer
  \/ source[gen] = "error"
  \/ ticket[gen] \in {"used", "expired"} /\ source[gen] \in {"none", "connecting"}

\* Each generation after the first has a token or a fault of its own, and a
\* broken one leaves some over for the next.
GenIsPaidFor == gen <= 1 + typed + faults /\ (Broken => gen <= typed + faults)

\* What the stages of a generation say of each other.
Staged ==
  \A g \in Generations :
    /\ g > gen => ask[g] = "none"
    /\ source[g] # "none" => ask[g] = "taken"
    /\ ticket[g] # "none" <=> ask[g] \in {"answered", "taken", "stale"}
    /\ ticket[g] \in {"none", "valid"} => opened[g] = 0
    /\ g = es => Live(g)

Inv == Types /\ GenIsPaidFor /\ Staged /\ OneSource /\ TicketsAreOneUse
-----------------------------------------------------------------------------
\* The numbers of generations, tokens and faults.
LEMMA GenerationNumbers ==
  ASSUME Inv
  PROVE  /\ Generations \subseteq Nat /\ NoSource \notin Generations /\ gen \in Generations
         /\ typed \in Nat /\ faults \in Nat /\ MaxTyped \in Nat /\ MaxFaults \in Nat
  <1>1. /\ typed \in 0..MaxTyped /\ faults \in 0..MaxFaults /\ gen \in Nat \ {0}
        /\ gen <= 1 + typed + faults
    BY DEF Inv, Types, GenIsPaidFor
  <1> QED BY <1>1, StreamAssumption DEF Generations, NoSource

\* One generation, with its ticket asked for.
LEMMA InitInv == Init => Inv
  <1> SUFFICES ASSUME Init PROVE Inv
    OBVIOUS
  <1>1. 1 \in Generations /\ Generations \subseteq Nat \ {0}
    BY StreamAssumption DEF Generations
  <1>2. /\ ask \in [Generations -> AskState] /\ source \in [Generations -> SourceState]
        /\ ticket \in [Generations -> {"none", "valid", "used", "expired"}]
        /\ opened \in [Generations -> Nat] /\ load \in [Loads -> NotCalled..MaxChanges]
    BY StreamAssumption DEF Init, AskedWith, AskState, SourceState, NotCalled
  <1>3. Types
    <2>1. es \in {NoSource, gen} /\ gen \in Nat \ {0}
      BY DEF Init
    <2>3. timer \in BOOLEAN /\ token \in BOOLEAN
      BY DEF Init
    <2>2. /\ streams \subseteq Generations /\ truth \in 0..MaxChanges /\ shown \in -1..MaxChanges
          /\ typed \in 0..MaxTyped /\ faults \in 0..MaxFaults
      BY StreamAssumption DEF Init
    <2> QED BY <1>2, <2>1, <2>2, <2>3 DEF Types
  <1>4. GenIsPaidFor
    BY <1>1 DEF Init, GenIsPaidFor, Broken
  <1>5. Staged /\ OneSource /\ TicketsAreOneUse
    BY <1>1 DEF Init, AskedWith, Staged, OneSource, TicketsAreOneUse, Live, NoSource
  <1> QED BY <1>3, <1>4, <1>5 DEF Inv
-----------------------------------------------------------------------------
\* connectStream: the sources before it are closed, and there is a generation
\* left that nothing has used.
LEMMA ConnectKeepsInv ==
  ASSUME Inv, NEW tok \in BOOLEAN, Connect(tok), token' \in BOOLEAN,
         NEW n \in 0..MaxTyped, typed' = n, n >= typed, gen <= n + faults,
         UNCHANGED <<serverVars, viewVars, faults>>
  PROVE  Inv'
  <1> DEFINE g == gen + 1
  <1>1. /\ gen' = g /\ es' = NoSource /\ timer' = FALSE
        /\ ask' = [ask EXCEPT ![g] = AskedWith(tok)]
        /\ source' = IF es = NoSource THEN source ELSE [source EXCEPT ![es] = "closed"]
        /\ UNCHANGED <<ticket, streams, opened, truth, load, shown, faults>>
    BY DEF Connect, SourcesClosed, TimerCleared, serverVars, viewVars
  <1>2. /\ Generations \subseteq Nat /\ NoSource \notin Generations /\ gen \in Generations
        /\ gen \in Nat /\ typed \in Nat /\ faults \in Nat /\ n \in Nat
    BY GenerationNumbers
  <1>3. g \in Generations /\ g > gen
    <2>1. MaxTyped \in Nat /\ MaxFaults \in Nat /\ n <= MaxTyped /\ faults <= MaxFaults
      BY StreamAssumption DEF Inv, Types
    <2>2. g \in 1..(1 + MaxTyped + MaxFaults)
      BY <2>1, <1>2
    <2> QED BY <2>2, <1>2 DEF Generations
  <1>4. /\ AskedWith(tok) \in {"asked", "wrong"} /\ ask' \in [Generations -> AskState]
        /\ ask'[g] = AskedWith(tok) /\ \A h \in Generations \ {g} : ask'[h] = ask[h]
    BY <1>1, <1>3 DEF Inv, Types, AskedWith, AskState
  <1>5. \A h \in Generations : source'[h] = IF h = es THEN "closed" ELSE source[h]
    BY <1>1, <1>2 DEF Inv, Types
  <1>6. Types'
    <2>1. source' \in [Generations -> SourceState]
      BY <1>1 DEF Inv, Types, SourceState
    <2>2. gen' \in Nat \ {0} /\ es' \in {NoSource, gen'}
      BY <1>1, <1>2
    <2>3. timer' \in BOOLEAN
      BY <1>1
    <2> HIDE DEF g
    <2> QED BY <2>1, <2>2, <2>3, <1>1, <1>4 DEF Inv, Types
  <1>7. ask[g] = "none" /\ source[g] = "none" /\ ticket[g] = "none" /\ opened[g] = 0 /\ g # es
    BY <1>2, <1>3 DEF Inv, Staged, Types
  <1>8. GenIsPaidFor'
    <2>1. ~Broken'
      BY <1>1, <1>3, <1>5, <1>7 DEF Broken
    <2>2. g <= 1 + n + faults
      BY <1>2
    <2> QED BY <2>1, <2>2, <1>1 DEF GenIsPaidFor
  <1>9. Staged'
    <2> SUFFICES ASSUME NEW h \in Generations
                 PROVE  /\ h > g => ask'[h] = "none"
                        /\ source'[h] # "none" => ask'[h] = "taken"
                        /\ ticket[h] # "none" <=> ask'[h] \in {"answered", "taken", "stale"}
                        /\ ticket[h] \in {"none", "valid"} => opened[h] = 0
      BY <1>1, <1>2 DEF Staged
    <2>1. CASE h = g
      BY <2>1, <1>3, <1>2, <1>4, <1>5, <1>7
    <2>2. CASE h # g
      <3>1. ask'[h] = ask[h] /\ (source'[h] # "none" => source[h] # "none")
        BY <2>2, <1>4, <1>5 DEF Inv, Staged, Live
      <3> QED BY <3>1, <1>2, <1>3 DEF Inv, Staged
    <2> QED BY <2>1, <2>2
  <1>10. OneSource' /\ TicketsAreOneUse'
    <2>1. \A h \in Generations : ~Live(h)'
      BY <1>5 DEF Inv, OneSource, Live
    <2> QED BY <2>1, <1>1 DEF Inv, OneSource, TicketsAreOneUse
  <1> QED BY <1>6, <1>8, <1>9, <1>10 DEF Inv

\* The shape of a step of one generation, which leaves it with the stages a,
\* src and t and with n streams opened, after f faults.
Moves(g, a, src, t, n, f) ==
  /\ ask' = [ask EXCEPT ![g] = a] /\ source' = [source EXCEPT ![g] = src]
  /\ ticket' = [ticket EXCEPT ![g] = t] /\ opened' = [opened EXCEPT ![g] = n]
  /\ es' = IF src \in {"connecting", "open", "error"} THEN g
           ELSE IF es = g THEN NoSource ELSE es
  /\ faults' = f
  /\ UNCHANGED <<token, gen, viewVars, typed>>

\* What it has to show: the new stages agree, it is live only if it is current,
\* and if it is broken now a fault has paid for that, or it was broken before.
LEMMA GenerationKeepsInv ==
  ASSUME Inv, NEW g \in Generations,
         NEW a \in AskState, NEW src \in SourceState,
         NEW t \in {"none", "valid", "used", "expired"}, NEW n \in 0..1,
         NEW f \in 0..MaxFaults, f >= faults, Moves(g, a, src, t, n, f),
         g > gen => a = "none",
         src # "none" => a = "taken",
         t # "none" <=> a \in {"answered", "taken", "stale"},
         t \in {"none", "valid"} => n = 0,
         src \in {"connecting", "open", "error"} => g = gen,
         timer' \in BOOLEAN, streams' \subseteq Generations,
         f > faults \/ (Broken' => Broken)
  PROVE  Inv'
  <1> USE DEF Moves
  <1>1. /\ Generations \subseteq Nat /\ NoSource \notin Generations /\ gen \in Generations
        /\ gen \in Nat /\ typed \in Nat /\ faults \in Nat /\ f \in Nat
    BY GenerationNumbers
  <1>2. UNCHANGED <<truth, load, shown>>
    BY DEF viewVars
  <1>3. /\ ask' \in [Generations -> AskState] /\ source' \in [Generations -> SourceState]
        /\ ticket' \in [Generations -> {"none", "valid", "used", "expired"}]
        /\ opened' \in [Generations -> Nat]
    BY DEF Inv, Types
  <1>4. Types'
    BY <1>2, <1>3 DEF Inv, Types
  <1>5. /\ ask'[g] = a /\ source'[g] = src /\ ticket'[g] = t /\ opened'[g] = n
        /\ \A h \in Generations \ {g} : /\ ask'[h] = ask[h] /\ source'[h] = source[h]
                                       /\ ticket'[h] = ticket[h] /\ opened'[h] = opened[h]
    BY DEF Inv, Types
  <1>6. GenIsPaidFor'
    <2>1. gen <= 1 + typed + faults /\ (Broken => gen <= typed + faults)
      BY DEF Inv, GenIsPaidFor
    <2>2. CASE f > faults
      BY <2>1, <2>2, <1>1 DEF GenIsPaidFor
    <2>3. CASE Broken' => Broken
      BY <2>1, <2>3, <1>1 DEF GenIsPaidFor
    <2> QED BY <2>2, <2>3
  <1>7. \A h \in Generations \ {g} : Live(h) => es' # g
    <2> SUFFICES ASSUME NEW h \in Generations \ {g}, Live(h), es' = g PROVE FALSE
      OBVIOUS
    <2>1. h = es /\ es = gen
      BY <1>1 DEF Inv, OneSource, Types
    <2> QED BY <2>1, <1>1
  <1>8. Staged'
    <2> SUFFICES ASSUME NEW h \in Generations
                 PROVE  /\ h > gen => ask'[h] = "none"
                        /\ source'[h] # "none" => ask'[h] = "taken"
                        /\ ticket'[h] # "none" <=> ask'[h] \in {"answered", "taken", "stale"}
                        /\ ticket'[h] \in {"none", "valid"} => opened'[h] = 0
                        /\ h = es' => source'[h] \in {"connecting", "open", "error"}
      BY DEF Staged, Live
    <2>1. CASE h = g
      BY <2>1, <1>1, <1>5
    <2>2. CASE h # g
      <3>1. h = es' => h = es
        BY <2>2, <1>1
      <3> QED BY <3>1, <2>2, <1>5 DEF Inv, Staged, Live
    <2> QED BY <2>1, <2>2
  <1>9. OneSource'
    <2> SUFFICES ASSUME NEW h \in Generations, source'[h] \in {"connecting", "open", "error"}
                 PROVE  h = es'
      BY DEF OneSource, Live
    <2>1. CASE h = g
      BY <2>1, <1>5
    <2>2. CASE h # g
      <3>1. h = es /\ Live(h)
        BY <2>2, <1>5 DEF Inv, OneSource, Live
      <3> QED BY <3>1, <2>2, <1>5, <1>7, <1>1
    <2> QED BY <2>1, <2>2
  <1>10. TicketsAreOneUse'
    BY <1>5 DEF Inv, TicketsAreOneUse
  <1> QED BY <1>4, <1>6, <1>8, <1>9, <1>10 DEF Inv
-----------------------------------------------------------------------------
\* A fault is one that was left.
LEMMA FaultIsCounted ==
  ASSUME Inv, Faulty
  PROVE  faults + 1 \in 0..MaxFaults /\ faults' = faults + 1 /\ faults + 1 > faults
  BY GenerationNumbers DEF Faulty

\* What a generation has before a step of it.
LEMMA StagesBefore ==
  ASSUME Inv, NEW g \in Generations
  PROVE  /\ ask[g] \in AskState /\ source[g] \in SourceState
         /\ ticket[g] \in {"none", "valid", "used", "expired"} /\ opened[g] \in 0..1
         /\ ask = [ask EXCEPT ![g] = ask[g]] /\ source = [source EXCEPT ![g] = source[g]]
         /\ ticket = [ticket EXCEPT ![g] = ticket[g]]
         /\ opened = [opened EXCEPT ![g] = opened[g]]
         /\ Live(g) => g = es /\ g = gen
         /\ g = es => Live(g)
         /\ g > gen => ask[g] = "none"
         /\ source[g] # "none" => ask[g] = "taken"
         /\ ticket[g] # "none" <=> ask[g] \in {"answered", "taken", "stale"}
         /\ ticket[g] \in {"none", "valid"} => opened[g] = 0
         /\ faults \in 0..MaxFaults /\ timer \in BOOLEAN /\ streams \subseteq Generations
  <1>1. /\ ask[g] \in AskState /\ source[g] \in SourceState
        /\ ticket[g] \in {"none", "valid", "used", "expired"}
        /\ ask = [ask EXCEPT ![g] = ask[g]] /\ source = [source EXCEPT ![g] = source[g]]
        /\ ticket = [ticket EXCEPT ![g] = ticket[g]]
        /\ opened = [opened EXCEPT ![g] = opened[g]]
        /\ faults \in 0..MaxFaults /\ timer \in BOOLEAN /\ streams \subseteq Generations
    BY DEF Inv, Types
  <1>2. opened[g] \in 0..1
    BY DEF Inv, Types, TicketsAreOneUse
  <1>3. (Live(g) => g = es /\ g = gen) /\ (g = es => Live(g))
    BY GenerationNumbers DEF Inv, OneSource, Types, Staged
  <1>4. /\ g > gen => ask[g] = "none"
        /\ source[g] # "none" => ask[g] = "taken"
        /\ ticket[g] # "none" <=> ask[g] \in {"answered", "taken", "stale"}
        /\ ticket[g] \in {"none", "valid"} => opened[g] = 0
    BY DEF Inv, Staged
  <1> QED BY <1>1, <1>2, <1>3, <1>4

\* The server hands out a ticket.
LEMMA TicketIssuedKeepsInv ==
  ASSUME Inv, NEW g \in Generations, TicketIssued(g)
  PROVE  Inv'
  <1>1. /\ ask[g] = "asked" /\ source[g] = "none" /\ ticket[g] = "none" /\ opened[g] = 0 /\ es # g
    BY StagesBefore DEF TicketIssued, Live
  <1>2. /\ ticket' = [ticket EXCEPT ![g] = "valid"] /\ ask' = [ask EXCEPT ![g] = "answered"]
        /\ UNCHANGED <<token, gen, es, timer, source, streams, opened, viewVars, typed, faults>>
    BY DEF TicketIssued
  <1>3. Moves(g, "answered", "none", "valid", 0, faults)
    BY <1>1, <1>2, StagesBefore DEF Moves
  <1>4. Broken' => Broken
    BY <1>2 DEF Broken, Inv, Types
  <1>5. ~(g > gen)
    BY <1>1, StagesBefore
  <1>6. "answered" \in AskState /\ "none" \in SourceState /\ faults \in 0..MaxFaults /\ faults >= faults
    BY StagesBefore, GenerationNumbers DEF AskState, SourceState
  <1>7. timer' \in BOOLEAN /\ streams' \subseteq Generations
    BY <1>2, StagesBefore
  <1> QED BY <1>3, <1>4, <1>5, <1>6, <1>7, GenerationKeepsInv

\* A ticket that nobody waits for.
LEMMA ExpiryKeepsInv ==
  ASSUME Inv, NEW g \in Generations, TicketExpires(g)
  PROVE  Inv'
  <1>1. /\ ticket[g] = "valid" /\ opened[g] = 0 /\ ask[g] \in {"answered", "taken", "stale"}
    BY StagesBefore DEF TicketExpires
  <1>2. /\ ticket' = [ticket EXCEPT ![g] = "expired"]
        /\ UNCHANGED <<token, gen, es, timer, ask, source, streams, opened, viewVars, typed>>
        /\ faults' = faults + 1 /\ faults + 1 \in 0..MaxFaults /\ faults + 1 > faults
    BY FaultIsCounted DEF TicketExpires, pageVars
  <1>3. Moves(g, ask[g], source[g], "expired", opened[g], faults + 1)
    BY <1>1, <1>2, StagesBefore DEF Moves, Live
  <1>4. faults + 1 > faults
    BY <1>2
  <1>5. ~(g > gen)
    BY <1>1, StagesBefore
  <1>6. ask[g] \in AskState /\ source[g] \in SourceState /\ faults + 1 \in 0..MaxFaults /\ faults + 1 >= faults
    BY StagesBefore, GenerationNumbers, <1>2 DEF AskState, SourceState
  <1>7. timer' \in BOOLEAN /\ streams' \subseteq Generations
    BY <1>2, StagesBefore
  <1>8. /\ source[g] # "none" => ask[g] = "taken"
        /\ "expired" # "none" <=> ask[g] \in {"answered", "taken", "stale"}
        /\ "expired" \in {"none", "valid"} => opened[g] = 0
        /\ source[g] \in {"connecting", "open", "error"} => g = gen
        /\ "expired" \in {"none", "valid", "used", "expired"} /\ opened[g] \in 0..1
    BY <1>1, StagesBefore DEF Live
  <1> QED BY <1>3, <1>4, <1>5, <1>6, <1>7, <1>8, GenerationKeepsInv

\* Somebody else uses it up.
LEMMA SomeoneElseKeepsInv ==
  ASSUME Inv, NEW g \in Generations, SomeoneElse(g)
  PROVE  Inv'
  <1>1. /\ ticket[g] = "valid" /\ opened[g] = 0 /\ ask[g] \in {"answered", "taken", "stale"}
    BY StagesBefore DEF SomeoneElse
  <1>2. /\ ticket' = [ticket EXCEPT ![g] = "used"]
        /\ opened' = [opened EXCEPT ![g] = @ + 1]
        /\ UNCHANGED <<token, gen, es, timer, ask, source, streams, viewVars, typed>>
        /\ faults' = faults + 1 /\ faults + 1 \in 0..MaxFaults /\ faults + 1 > faults
    BY FaultIsCounted DEF SomeoneElse, Consumed, pageVars
  <1>3. Moves(g, ask[g], source[g], "used", 1, faults + 1)
    BY <1>1, <1>2, StagesBefore DEF Moves, Live
  <1>4. faults + 1 > faults
    BY <1>2
  <1>5. ~(g > gen)
    BY <1>1, StagesBefore
  <1>6. ask[g] \in AskState /\ source[g] \in SourceState /\ faults + 1 \in 0..MaxFaults /\ faults + 1 >= faults
    BY StagesBefore, GenerationNumbers, <1>2 DEF AskState, SourceState
  <1>7. timer' \in BOOLEAN /\ streams' \subseteq Generations
    BY <1>2, StagesBefore
  <1>8. /\ source[g] # "none" => ask[g] = "taken"
        /\ "used" # "none" <=> ask[g] \in {"answered", "taken", "stale"}
        /\ "used" \in {"none", "valid"} => 1 = 0
        /\ source[g] \in {"connecting", "open", "error"} => g = gen
        /\ "used" \in {"none", "valid", "used", "expired"} /\ 1 \in 0..1
    BY <1>1, StagesBefore DEF Live
  <1> QED BY <1>3, <1>4, <1>5, <1>6, <1>7, <1>8, GenerationKeepsInv

\* The page's request, or one it no longer waits for, uses it up.
LEMMA ServedKeepsInv ==
  ASSUME Inv, NEW g \in Generations, StreamServed(g)
  PROVE  Inv'
  <1> DEFINE now == IF source[g] = "connecting" THEN "open" ELSE "closed"
  <1>1. /\ ticket[g] = "valid" /\ opened[g] = 0 /\ ask[g] = "taken" /\ source[g] \in {"connecting", "closed"}
    BY StagesBefore DEF StreamServed
  <1>2. /\ ticket' = [ticket EXCEPT ![g] = "used"] /\ opened' = [opened EXCEPT ![g] = @ + 1]
        /\ source' = [source EXCEPT ![g] = IF @ = "connecting" THEN "open" ELSE @]
        /\ streams' = streams \cup {g}
        /\ UNCHANGED <<token, gen, es, timer, ask, viewVars, typed, faults>>
    BY DEF StreamServed, Consumed
  <1>3. Moves(g, "taken", now, "used", 1, faults)
    <2>1. source' = [source EXCEPT ![g] = now]
      BY <1>1, <1>2
    <2>2. opened' = [opened EXCEPT ![g] = 1]
      BY <1>1, <1>2
    <2>3. es = IF now \in {"connecting", "open", "error"} THEN g
               ELSE IF es = g THEN NoSource ELSE es
      BY <1>1, StagesBefore DEF Live
    <2>4. ask = [ask EXCEPT ![g] = "taken"]
      BY <1>1, StagesBefore
    <2> QED BY <2>1, <2>2, <2>3, <2>4, <1>2 DEF Moves
  <1>4. Broken' => Broken
    BY <1>1, <1>2 DEF Broken, Inv, Types
  <1>5. ~(g > gen)
    BY <1>1, StagesBefore
  <1>6. "taken" \in AskState /\ now \in SourceState /\ faults \in 0..MaxFaults /\ faults >= faults
    BY StagesBefore, GenerationNumbers DEF AskState, SourceState
  <1>7. timer' \in BOOLEAN /\ streams' \subseteq Generations
    BY <1>2, StagesBefore
  <1>8. /\ now # "none" => "taken" = "taken"
        /\ "used" # "none" <=> "taken" \in {"answered", "taken", "stale"}
        /\ "used" \in {"none", "valid"} => 1 = 0
        /\ now \in {"connecting", "open", "error"} => g = gen
        /\ "used" \in {"none", "valid", "used", "expired"} /\ 1 \in 0..1
    BY <1>1, StagesBefore DEF Live
  <1> QED BY <1>3, <1>4, <1>5, <1>6, <1>7, <1>8, GenerationKeepsInv

\* The page's request finds the ticket gone, which a fault has paid for.
LEMMA RefusedKeepsInv ==
  ASSUME Inv, NEW g \in Generations, StreamRefused(g)
  PROVE  Inv'
  <1>1. /\ source[g] = "connecting" /\ ticket[g] \in {"used", "expired"} /\ ask[g] = "taken"
        /\ g = es /\ g = gen
    BY StagesBefore DEF StreamRefused, Live
  <1>2. /\ source' = [source EXCEPT ![g] = "error"]
        /\ UNCHANGED <<token, gen, es, timer, ask, ticket, streams, opened, viewVars, typed, faults>>
    BY DEF StreamRefused, serverVars
  <1>3. Moves(g, "taken", "error", ticket[g], opened[g], faults)
    BY <1>1, <1>2, StagesBefore DEF Moves, Live
  <1>4. Broken' => Broken
    BY <1>1 DEF Broken
  <1>5. ~(g > gen)
    BY <1>1, StagesBefore
  <1>6. "taken" \in AskState /\ "error" \in SourceState /\ faults \in 0..MaxFaults /\ faults >= faults
    BY StagesBefore, GenerationNumbers DEF AskState, SourceState
  <1>7. timer' \in BOOLEAN /\ streams' \subseteq Generations
    BY <1>2, StagesBefore
  <1>8. /\ "error" # "none" => "taken" = "taken"
        /\ ticket[g] # "none" <=> "taken" \in {"answered", "taken", "stale"}
        /\ ticket[g] \in {"none", "valid"} => opened[g] = 0
        /\ "error" \in {"connecting", "open", "error"} => g = gen
        /\ ticket[g] \in {"none", "valid", "used", "expired"} /\ opened[g] \in 0..1
    BY <1>1, StagesBefore DEF Live
  <1> QED BY <1>3, <1>4, <1>5, <1>6, <1>7, <1>8, GenerationKeepsInv

\* The connection is lost.
LEMMA DropKeepsInv ==
  ASSUME Inv, NEW g \in Generations, Drop(g)
  PROVE  Inv'
  <1>1. /\ source[g] \in {"connecting", "open"} /\ ask[g] = "taken" /\ g = es /\ g = gen
    BY StagesBefore DEF Drop, Live
  <1>2. /\ source' = [source EXCEPT ![g] = "error"]
        /\ UNCHANGED <<token, gen, es, timer, ask, ticket, streams, opened, viewVars, typed>>
        /\ faults' = faults + 1 /\ faults + 1 \in 0..MaxFaults /\ faults + 1 > faults
    BY FaultIsCounted DEF Drop, serverVars
  <1>3. Moves(g, "taken", "error", ticket[g], opened[g], faults + 1)
    BY <1>1, <1>2, StagesBefore DEF Moves, Live
  <1>4. faults + 1 > faults
    BY <1>2
  <1>5. ~(g > gen)
    BY <1>1, StagesBefore
  <1>6. "taken" \in AskState /\ "error" \in SourceState /\ faults + 1 \in 0..MaxFaults /\ faults + 1 >= faults
    BY StagesBefore, GenerationNumbers, <1>2 DEF AskState, SourceState
  <1>7. timer' \in BOOLEAN /\ streams' \subseteq Generations
    BY <1>2, StagesBefore
  <1>8. /\ "error" # "none" => "taken" = "taken"
        /\ ticket[g] # "none" <=> "taken" \in {"answered", "taken", "stale"}
        /\ ticket[g] \in {"none", "valid"} => opened[g] = 0
        /\ "error" \in {"connecting", "open", "error"} => g = gen
        /\ ticket[g] \in {"none", "valid", "used", "expired"} /\ opened[g] \in 0..1
    BY <1>1, StagesBefore DEF Live
  <1> QED BY <1>3, <1>4, <1>5, <1>6, <1>7, <1>8, GenerationKeepsInv

\* onerror closes the source for good and starts the timer.
LEMMA OnErrorKeepsInv ==
  ASSUME Inv, NEW g \in Generations, OnError(g)
  PROVE  Inv'
  <1>1. /\ source[g] = "error" /\ ask[g] = "taken" /\ g = es /\ g = gen
    BY StagesBefore DEF OnError, Live
  <1>2. /\ source' = [source EXCEPT ![g] = "closed"]
        /\ g = gen => es' = NoSource /\ timer' = TRUE
        /\ UNCHANGED <<token, gen, ask, ticket, streams, opened, viewVars, typed, faults>>
    BY DEF OnError, Retry, serverVars
  <1>3. Moves(g, "taken", "closed", ticket[g], opened[g], faults)
    BY <1>1, <1>2, StagesBefore DEF Moves, Live
  <1>4. Broken' => Broken
    BY <1>1 DEF Broken
  <1>5. ~(g > gen)
    BY <1>1, StagesBefore
  <1>6. "taken" \in AskState /\ "closed" \in SourceState /\ faults \in 0..MaxFaults /\ faults >= faults
    BY StagesBefore, GenerationNumbers DEF AskState, SourceState
  <1>7. timer' \in BOOLEAN /\ streams' \subseteq Generations
    BY <1>1, <1>2, StagesBefore
  <1>8. /\ "closed" # "none" => "taken" = "taken"
        /\ ticket[g] # "none" <=> "taken" \in {"answered", "taken", "stale"}
        /\ ticket[g] \in {"none", "valid"} => opened[g] = 0
        /\ "closed" \in {"connecting", "open", "error"} => g = gen
        /\ ticket[g] \in {"none", "valid", "used", "expired"} /\ opened[g] \in 0..1
    BY <1>1, StagesBefore DEF Live
  <1> QED BY <1>3, <1>4, <1>5, <1>6, <1>7, <1>8, GenerationKeepsInv

\* The ticket cannot be had: nothing asks again.
LEMMA TicketFailsKeepsInv ==
  ASSUME Inv, NEW g \in Generations, TicketFails(g)
  PROVE  Inv'
  <1> DEFINE f == IF ask[g] = "wrong" THEN faults ELSE faults + 1
  <1>1. /\ ask[g] \in {"asked", "wrong"} /\ source[g] = "none" /\ ticket[g] = "none"
        /\ opened[g] = 0 /\ es # g
    BY StagesBefore DEF TicketFails, Live
  <1>2. /\ ask' = [ask EXCEPT ![g] = "failed"]
        /\ UNCHANGED <<token, gen, es, timer, source, ticket, streams, opened, viewVars, typed>>
    BY DEF TicketFails, serverVars
  <1>3. faults' = f /\ f \in 0..MaxFaults /\ f >= faults
    <2>1. CASE ask[g] = "wrong"
      BY <2>1, StagesBefore, GenerationNumbers DEF TicketFails
    <2>2. CASE ask[g] # "wrong"
      BY <2>2, FaultIsCounted, GenerationNumbers DEF TicketFails
    <2> QED BY <2>1, <2>2
  <1> HIDE DEF f
  <1>4. Moves(g, "failed", "none", "none", 0, f)
    BY <1>1, <1>2, <1>3, StagesBefore DEF Moves
  <1>5. Broken' => Broken
    BY <1>2 DEF Broken
  <1>6. ~(g > gen) /\ "failed" \in AskState /\ "none" \in SourceState
    BY <1>1, StagesBefore DEF AskState, SourceState
  <1>7. timer' \in BOOLEAN /\ streams' \subseteq Generations
    BY <1>2, StagesBefore
  <1> QED BY <1>3, <1>4, <1>5, <1>6, <1>7, GenerationKeepsInv

\* The ticket arrives: it is used if connectStream has not been called since.
LEMMA TicketTakenKeepsInv ==
  ASSUME Inv, NEW g \in Generations, TicketTaken(g)
  PROVE  Inv'
  <1>1. /\ ask[g] = "answered" /\ source[g] = "none" /\ ticket[g] # "none" /\ es # g
    BY StagesBefore DEF TicketTaken, Live
  <1>2. UNCHANGED <<token, gen, timer, ticket, streams, opened, viewVars, typed, faults>>
    BY DEF TicketTaken, serverVars
  <1>3. ~(g > gen) /\ faults \in 0..MaxFaults /\ faults >= faults
    BY <1>1, StagesBefore, GenerationNumbers
  <1>4. timer' \in BOOLEAN /\ streams' \subseteq Generations
    BY <1>2, StagesBefore
  <1>5. /\ ticket[g] \in {"none", "valid", "used", "expired"} /\ opened[g] \in 0..1
        /\ ticket[g] \in {"none", "valid"} => opened[g] = 0
    BY StagesBefore
  <1>6. CASE g = gen
    <2>1. /\ es' = g /\ source' = [source EXCEPT ![g] = "connecting"]
          /\ ask' = [ask EXCEPT ![g] = "taken"]
      BY <1>6 DEF TicketTaken, Wanted
    <2>2. Moves(g, "taken", "connecting", ticket[g], opened[g], faults)
      BY <2>1, <1>2, StagesBefore DEF Moves
    <2>3. Broken' => Broken
      BY <2>1, <1>1, <1>2, <1>6 DEF Broken, Inv, Types
    <2>4. "taken" \in AskState /\ "connecting" \in SourceState
      BY DEF AskState, SourceState
    <2> QED BY <2>2, <2>3, <2>4, <1>1, <1>3, <1>4, <1>5, <1>6, GenerationKeepsInv
  <1>7. CASE g # gen
    <2>1. UNCHANGED <<es, source>> /\ ask' = [ask EXCEPT ![g] = "stale"]
      BY <1>7 DEF TicketTaken, Wanted
    <2>2. Moves(g, "stale", "none", ticket[g], opened[g], faults)
      BY <2>1, <1>1, <1>2, StagesBefore DEF Moves
    <2>3. Broken' => Broken
      BY <2>1, <1>2 DEF Broken
    <2>4. "stale" \in AskState /\ "none" \in SourceState
      BY DEF AskState, SourceState
    <2> QED BY <2>2, <2>3, <2>4, <1>1, <1>3, <1>4, <1>5, GenerationKeepsInv
  <1> QED BY <1>6, <1>7

\* What the console does with the figures, and what the server does with its
\* streams, leaves the generations alone.
LEMMA ViewKeepsInv ==
  ASSUME Inv, UNCHANGED <<pageVars, ticket, opened, typed>>,
         NEW f \in 0..MaxFaults, faults' = f, f >= faults,
         streams' \subseteq Generations,
         truth' \in 0..MaxChanges, shown' \in -1..MaxChanges,
         load' \in [Loads -> NotCalled..MaxChanges]
  PROVE  Inv'
  <1>1. UNCHANGED <<token, gen, es, timer, ask, source, ticket, opened, typed>>
    BY DEF pageVars
  <1>2. Types'
    BY <1>1 DEF Inv, Types
  <1>3. GenIsPaidFor'
    <2>1. Broken' <=> Broken
      BY <1>1 DEF Broken
    <2>2. gen <= 1 + typed + faults /\ (Broken => gen <= typed + faults)
      BY DEF Inv, GenIsPaidFor
    <2> QED BY <2>1, <2>2, <1>1, GenerationNumbers DEF GenIsPaidFor
  <1>4. Staged' /\ OneSource' /\ TicketsAreOneUse'
    BY <1>1 DEF Inv, Staged, OneSource, TicketsAreOneUse, Live
  <1> QED BY <1>2, <1>3, <1>4 DEF Inv
-----------------------------------------------------------------------------
\* The figures are numbers of changes that have happened.
LEMMA ViewTypes ==
  ASSUME Inv, NEW i \in Loads
  PROVE  /\ \A v \in NotCalled..MaxChanges : [load EXCEPT ![i] = v] \in [Loads -> NotCalled..MaxChanges]
         /\ load[i] \in NotCalled..MaxChanges /\ load \in [Loads -> NotCalled..MaxChanges]
         /\ truth \in 0..MaxChanges /\ shown \in -1..MaxChanges
         /\ NotCalled \in NotCalled..MaxChanges /\ Asked \in NotCalled..MaxChanges
         /\ truth \in NotCalled..MaxChanges
         /\ streams \subseteq Generations /\ faults \in 0..MaxFaults /\ faults >= faults
  <1>1. /\ \A v \in NotCalled..MaxChanges : [load EXCEPT ![i] = v] \in [Loads -> NotCalled..MaxChanges]
        /\ load[i] \in NotCalled..MaxChanges /\ load \in [Loads -> NotCalled..MaxChanges]
        /\ truth \in 0..MaxChanges /\ shown \in -1..MaxChanges /\ streams \subseteq Generations
    BY DEF Inv, Types
  <1>2. faults \in 0..MaxFaults /\ faults >= faults
    BY GenerationNumbers DEF Inv, Types
  <1>3. /\ NotCalled \in NotCalled..MaxChanges /\ Asked \in NotCalled..MaxChanges
        /\ truth \in NotCalled..MaxChanges
    BY <1>1, StreamAssumption DEF NotCalled, Asked
  <1> QED BY <1>1, <1>2, <1>3

\* A load is asked for, answered, shown or given up.
LEMMA LoadKeepsInv ==
  ASSUME Inv, NEW i \in Loads,
         Change(i) \/ Poll(i) \/ LoadServed(i) \/ Render(i) \/ LoadFails(i)
  PROVE  Inv'
  <1>1. CASE Change(i)
    <2>1. /\ UNCHANGED <<pageVars, ticket, streams, opened, shown, typed, faults>>
          /\ truth' = truth + 1 /\ truth < MaxChanges
          /\ load' \in {load, [load EXCEPT ![i] = Asked]}
      BY <1>1 DEF Change, Started, serverVars
    <2>2. truth + 1 \in 0..MaxChanges
      BY <2>1, StreamAssumption DEF Inv, Types
    <2>3. load' \in [Loads -> NotCalled..MaxChanges]
      BY <2>1, ViewTypes
    <2>4. streams' \subseteq Generations /\ truth' \in 0..MaxChanges /\ shown' \in -1..MaxChanges
      BY <2>1, <2>2, ViewTypes
    <2>5. faults \in 0..MaxFaults /\ faults' = faults /\ faults >= faults
      BY <2>1, ViewTypes
    <2> QED BY <2>1, <2>3, <2>4, <2>5, ViewKeepsInv
  <1>2. CASE Poll(i) \/ LoadServed(i) \/ Render(i)
    <2>1. /\ UNCHANGED <<pageVars, ticket, streams, opened, truth, typed, faults>>
          /\ load' \in {[load EXCEPT ![i] = Asked], [load EXCEPT ![i] = truth],
                        [load EXCEPT ![i] = NotCalled]}
          /\ shown' = shown \/ (load[i] >= 0 /\ shown' = load[i])
      BY <1>2 DEF Poll, Started, LoadServed, Answer, Render, serverVars
    <2>2. load' \in [Loads -> NotCalled..MaxChanges]
      BY <2>1, ViewTypes
    <2>3. shown' \in -1..MaxChanges
      BY <2>1, ViewTypes DEF NotCalled
    <2>4. streams' \subseteq Generations /\ truth' \in 0..MaxChanges
      BY <2>1, ViewTypes
    <2>5. faults \in 0..MaxFaults /\ faults' = faults /\ faults >= faults
      BY <2>1, ViewTypes
    <2> QED BY <2>1, <2>2, <2>3, <2>4, <2>5, ViewKeepsInv
  <1>3. CASE LoadFails(i)
    <2> DEFINE f == IF token THEN faults + 1 ELSE faults
    <2>1. /\ UNCHANGED <<pageVars, ticket, streams, opened, truth, shown, typed>>
          /\ load' = [load EXCEPT ![i] = NotCalled]
      BY <1>3 DEF LoadFails, serverVars
    <2>2. faults' = f /\ f \in 0..MaxFaults /\ f >= faults
      <3>1. CASE token
        BY <3>1, <1>3, FaultIsCounted, GenerationNumbers DEF LoadFails
      <3>2. CASE ~token
        BY <3>2, <1>3, ViewTypes DEF LoadFails
      <3> QED BY <3>1, <3>2
    <2>3. /\ load' \in [Loads -> NotCalled..MaxChanges] /\ streams' \subseteq Generations
          /\ truth' \in 0..MaxChanges /\ shown' \in -1..MaxChanges
      BY <2>1, ViewTypes
    <2> HIDE DEF f
    <2> QED BY <2>1, <2>2, <2>3, ViewKeepsInv
  <1> QED BY <1>1, <1>2, <1>3

\* The server notices that nobody reads.
LEMMA NoticeKeepsInv ==
  ASSUME Inv, NEW g \in Generations, ServerNotices(g)
  PROVE  Inv'
  <1>1. /\ UNCHANGED <<pageVars, ticket, opened, truth, load, shown, typed, faults>>
        /\ streams' = streams \ {g}
    BY DEF ServerNotices, viewVars
  <1>2. /\ streams' \subseteq Generations /\ faults \in 0..MaxFaults /\ faults' = faults
        /\ faults >= faults
    BY <1>1, StagesBefore, GenerationNumbers
  <1>3. /\ truth' \in 0..MaxChanges /\ shown' \in -1..MaxChanges
        /\ load' \in [Loads -> NotCalled..MaxChanges]
    BY <1>1 DEF Inv, Types
  <1> QED BY <1>1, <1>2, <1>3, ViewKeepsInv

\* Another token is typed, or the timer fires: each pays for a generation.
LEMMA TypedKeepsInv ==
  ASSUME Inv, ChangeToken
  PROVE  Inv'
  <1>1. /\ typed < MaxTyped /\ typed' = typed + 1 /\ token' = ~token /\ Connect(~token)
        /\ UNCHANGED <<serverVars, viewVars, faults>>
    BY DEF ChangeToken
  <1>2. /\ typed + 1 \in 0..MaxTyped /\ typed + 1 >= typed /\ gen <= typed + 1 + faults
    BY <1>1, GenerationNumbers DEF Inv, GenIsPaidFor
  <1>3. (~token) \in BOOLEAN
    OBVIOUS
  <1> QED BY <1>1, <1>2, <1>3, ConnectKeepsInv

\* The timer runs only after a loss.
LEMMA TimerKeepsInv ==
  ASSUME Inv, TimerFires
  PROVE  Inv'
  <1>1. /\ timer /\ Connect(token) /\ token' = token /\ typed' = typed
        /\ UNCHANGED <<serverVars, viewVars, faults>>
    BY DEF TimerFires
  <1>2. /\ typed \in 0..MaxTyped /\ typed >= typed /\ gen <= typed + faults
    BY <1>1, GenerationNumbers DEF Inv, GenIsPaidFor, Broken, Types
  <1>3. token \in BOOLEAN
    BY DEF Inv, Types
  <1> QED BY <1>1, <1>2, <1>3, ConnectKeepsInv

\* Every step is one of these.
LEMMA StepKeepsInv == Inv /\ [Next]_vars => Inv'
  <1> SUFFICES ASSUME Inv, [Next]_vars PROVE Inv'
    OBVIOUS
  <1>1. ASSUME NEW g \in Generations, Page(g) PROVE Inv'
    BY <1>1, TicketTakenKeepsInv, OnErrorKeepsInv DEF Page
  <1>2. ASSUME NEW g \in Generations, Server(g) PROVE Inv'
    BY <1>2, TicketIssuedKeepsInv, ServedKeepsInv, RefusedKeepsInv, NoticeKeepsInv DEF Server
  <1>3. ASSUME NEW g \in Generations, Network(g) PROVE Inv'
    BY <1>3, TicketFailsKeepsInv, ExpiryKeepsInv, SomeoneElseKeepsInv, DropKeepsInv DEF Network
  <1>4. ASSUME NEW i \in Loads,
               Change(i) \/ Poll(i) \/ LoadServed(i) \/ Render(i) \/ LoadFails(i)
        PROVE  Inv'
    BY <1>4, LoadKeepsInv
  <1>5. CASE UNCHANGED vars
    <2>1. UNCHANGED <<pageVars, ticket, streams, opened, truth, load, shown, typed, faults>>
      BY <1>5 DEF vars, serverVars, viewVars
    <2>2. faults \in 0..MaxFaults /\ faults' = faults /\ faults >= faults
      BY <2>1, GenerationNumbers DEF Inv, Types
    <2>3. /\ streams' \subseteq Generations /\ truth' \in 0..MaxChanges
          /\ shown' \in -1..MaxChanges /\ load' \in [Loads -> NotCalled..MaxChanges]
      BY <2>1 DEF Inv, Types
    <2> QED BY <2>1, <2>2, <2>3, ViewKeepsInv
  <1> QED
    BY <1>1, <1>2, <1>3, <1>4, <1>5, TypedKeepsInv, TimerKeepsInv DEF Next

\* Every reachable state satisfies the invariant.
THEOREM Invariance == Spec => []Inv
  BY InitInv, StepKeepsInv, PTL DEF Spec

\* The types, and that the page asks for no more streams than the tokens typed
\* and the faults met give it reason to.
THEOREM TypeCorrect == Spec => []TypeOK
  <1>1. Inv => TypeOK
    <2> SUFFICES ASSUME Inv PROVE TypeOK
      OBVIOUS
    <2>1. gen \in 1..(1 + typed + faults) /\ es \in Generations \cup {NoSource}
      BY GenerationNumbers DEF Inv, Types, GenIsPaidFor
    <2> QED BY <2>1 DEF Inv, Types, TypeOK
  <1> QED BY <1>1, Invariance, PTL

\* However tokens, late tickets, errors and the timer interleave, the page has
\* at most one EventSource, the one it knows of.
THEOREM SourcesNeverMultiply == Spec => []OneSource
  BY Invariance, PTL DEF Inv

\* However often the address of a stream is requested, and by whomever, its
\* ticket opens one stream at most.
THEOREM TicketsOpenOneStream == Spec => []TicketsAreOneUse
  BY Invariance, PTL DEF Inv
=============================================================================
