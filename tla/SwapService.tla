----------------------------- MODULE SwapService -----------------------------
(***************************************************************************)
(* One swap from button to card: server/swap.js with the client it orders  *)
(* through (server/bhn-client.js), the records it keeps (server/store.js)  *)
(* and the chain it runs on (server/ledger.js).  Over the in-memory mirror *)
(* less can happen: its calls return at once, and nothing outlives the     *)
(* process.                                                                *)
(*                                                                         *)
(* A thread is a request handler, an operator at the console or the        *)
(* recovery at start-up.  JavaScript runs each of them undisturbed from    *)
(* one await to the next, so an action is what lies between two awaits;    *)
(* whatever it awaits (a transaction, a read, a reply) is a step of its    *)
(* own, and the process may die before the reply is seen.                  *)
(*                                                                         *)
(* Of the ledger there is only what the service steers by: the swaps, who  *)
(* asked for them, their status, and the pause switch.  Credits and stock  *)
(* are in LanguageCredits; here a burn may simply be refused.              *)
(***************************************************************************)
EXTENDS Integers, Sequences, FiniteSets

CONSTANTS
  Requests,         \* the POST /api/swap calls, one requestHash each
  Operators,        \* consoles with the admin token
  LookupAttempts,   \* lookupAttempts of the provider client
  Patient,          \* do operators confirm only what can no longer change?
  Faults,           \* which of "crash", "rpc" and "garbled" may happen
  MaxFaults,        \* bound: how many of them in one behaviour
  None              \* no record, nobody's row

ASSUME BoundsAssumption ==
  IsFiniteSet(Requests) /\ LookupAttempts \in Nat \ {0} /\ MaxFaults \in Nat
ASSUME FaultsAssumption == Faults \subseteq {"crash", "rpc", "garbled"} /\ Patient \in BOOLEAN

VARIABLES
  ledger,    \* the swaps as the ledger has them, by id
  paused,    \* the ledger's pause switch
  orders,    \* the requests the provider has issued a card for
  wire,      \* per request: where its one POST /v1/orders is
  rec,       \* per request: the record object in the service's memory
  rows,      \* store.swaps: swap id -> the request whose record is there
  disk,      \* the rows as last persisted: swap id -> the record and whose it is
  th,        \* the threads
  server,    \* "down", "recovering" or "up"
  todo,      \* the rows the recovery has yet to look at
  faults     \* faults so far

world == <<orders, wire, faults>>
vars == <<ledger, paused, orders, wire, rec, rows, disk, th, server, todo, faults>>
-----------------------------------------------------------------------------
Recovery == "recovery"
Threads == Requests \cup Operators \cup {Recovery}
Ids == 1..Cardinality(Requests)

Status == {"Requested", "Sealed", "Settled", "Cancelled"}
Record == [id : Ids \cup {0}, status : Status, sealed : BOOLEAN]
Pcs == {"idle", "burn", "burnt", "ordering", "lookup", "check",
        "settle", "settled", "cancel", "cancelled", "done"}
Thread == [pc : Pcs, op : {"swap", "cancel", "refund", "recover"}, req : Requests \cup {None},
           id : Ids \cup {0}, tries : 0..LookupAttempts - 1]

TypeOK ==
  /\ ledger \in Seq([req : Requests, status : Status \ {"Sealed"}])
  /\ paused \in BOOLEAN
  /\ orders \subseteq Requests
  /\ wire \in [Requests -> {"unsent", "sent", "card", "declined", "failed", "garbled", "lost"}]
  /\ rec \in [Requests -> Record \cup {None}]
  /\ rows \in [Ids -> Requests \cup {None}]
  /\ disk \in [Ids -> (Record \X Requests) \cup {None}]
  /\ th \in [Threads -> Thread]
  /\ server \in {"down", "recovering", "up"}
  /\ todo \subseteq Ids
  /\ faults \in 0..MaxFaults

\* Threads have names of their own, and None is none of the values it stands beside.
ASSUME NamesAssumption ==
  /\ Requests \cap Operators = {} /\ Recovery \notin Requests \cup Operators
  /\ None \notin Requests \cup Record \cup (Record \X Requests)

Fresh(t) ==
  [pc |-> "idle", op |-> IF t \in Requests THEN "swap" ELSE IF t = Recovery THEN "recover" ELSE "cancel",
   req |-> IF t \in Requests THEN t ELSE None, id |-> 0, tries |-> 0]

Init ==
  /\ ledger = <<>> /\ paused = FALSE
  /\ orders = {} /\ wire = [r \in Requests |-> "unsent"]
  /\ rec = [r \in Requests |-> None]
  /\ rows = [i \in Ids |-> None] /\ disk = [i \in Ids |-> None]
  /\ th = [t \in Threads |-> Fresh(t)]
  /\ server = "up" /\ todo = {} /\ faults = 0
-----------------------------------------------------------------------------
Goto(t, pc) == th' = [th EXCEPT ![t].pc = pc]

\* A handler ends; an operator may press again, the recovery takes the next row.
Finish(t) == th' = [th EXCEPT ![t] = IF t \in Requests THEN [@ EXCEPT !.pc = "done"] ELSE Fresh(t)]

Fault(kind) ==
  /\ kind \in Faults /\ faults < MaxFaults
  /\ faults' = faults + 1

\* Mutant: the file is only written when the service is told to stop.
PersistLater == UNCHANGED disk

\* Every row is written, not only the one that changed.
Persist == disk' = [i \in Ids |-> IF rows'[i] = None THEN None ELSE <<rec'[rows'[i]], rows'[i]>>]

\* store.swaps.put: the record takes its row.
Put(r, record) ==
  /\ rec' = [rec EXCEPT ![r] = record]
  /\ rows' = [rows EXCEPT ![record.id] = r]
  /\ Persist

unrecorded == <<rec, rows, disk>>

\* The request is refused by the ledger, or its result never comes: the
\* method throws and the handler answers an error.
Throw(t) == Finish(t) /\ UNCHANGED <<unrecorded, server, todo>>
-----------------------------------------------------------------------------
(***************************************************************************)
(* swap: burn, then order.                                                 *)
(***************************************************************************)
\* requestSwap reads swapCount first, and will answer that number.
CountSwaps(r) ==
  /\ server = "up" /\ th[r].pc = "idle"
  /\ th' = [th EXCEPT ![r].pc = "burn", ![r].id = Len(ledger) + 1]
  /\ UNCHANGED <<ledger, paused, world, unrecorded, server, todo>>

Burn(r) ==
  /\ th[r].pc = "burn" /\ ~paused
  /\ ledger' = Append(ledger, [req |-> r, status |-> "Requested"])
  /\ Goto(r, "burnt")
  /\ UNCHANGED <<paused, world, unrecorded, server, todo>>

\* Paused, sold out, not available, or too few credits.
BurnRefused(r) ==
  /\ th[r].pc = "burn"
  /\ Throw(r)
  /\ UNCHANGED <<ledger, paused, world>>

\* The burn is known: record it, and send the order.
RecordAndOrder(r) ==
  /\ th[r].pc = "burnt"
  /\ Put(r, [id |-> th[r].id, status |-> "Requested", sealed |-> FALSE])
  /\ wire' = [wire EXCEPT ![r] = "sent"]
  /\ Goto(r, "ordering")
  /\ UNCHANGED <<ledger, paused, orders, faults, server, todo>>

\* The provider takes the order, late perhaps, and its answer may get lost or
\* be a gateway's 5xx; or it declines (any 4xx), or fails, without a card.
ProviderIssues(r) ==
  /\ wire[r] = "sent"
  /\ orders' = orders \cup {r}
  /\ \E reply \in {"card", "failed", "lost"} : wire' = [wire EXCEPT ![r] = reply]
  /\ UNCHANGED <<ledger, paused, faults, unrecorded, th, server, todo>>

ProviderRefuses(r) ==
  /\ wire[r] = "sent"
  /\ \E reply \in {"declined", "failed", "lost"} : wire' = [wire EXCEPT ![r] = reply]
  /\ UNCHANGED <<ledger, paused, orders, faults, unrecorded, th, server, todo>>

\* A 201 whose body does not parse reads as null.
ReplyGarbled(r) ==
  /\ wire[r] = "card" /\ Fault("garbled")
  /\ wire' = [wire EXCEPT ![r] = "garbled"]
  /\ UNCHANGED <<ledger, paused, orders, unrecorded, th, server, todo>>

\* Mutant: every error of the provider is taken for a final one.
ConfirmedFailureAnyError(reply) == reply \in {"declined", "failed"}

\* The one kind of answer that authorises a refund.
ConfirmedFailure(reply) == reply = "declined"

OrderDeclined(r) ==
  /\ th[r].pc = "ordering" /\ ConfirmedFailure(wire[r])
  /\ Goto(r, "cancel")
  /\ UNCHANGED <<ledger, paused, world, unrecorded, server, todo>>

\* A timeout (at any time), a dropped socket or a 5xx says nothing about the
\* card: ask about the request id.
OrderUncertain(r) ==
  /\ th[r].pc = "ordering" /\ wire[r] \in {"sent", "failed", "lost"}
  /\ Goto(r, "lookup")
  /\ UNCHANGED <<ledger, paused, world, unrecorded, server, todo>>

\* order.card of null throws.
OrderUnreadable(r) ==
  /\ th[r].pc = "ordering" /\ wire[r] = "garbled"
  /\ Throw(r)
  /\ UNCHANGED <<ledger, paused, world>>

\* The first half of sealAndSettle, up to its put; order is in hand.
SealRecord(t) ==
  LET r == th[t].req
  IN  /\ Put(r, [rec[r] EXCEPT !.status = "Sealed", !.sealed = TRUE])
      /\ Goto(t, "check")
      /\ UNCHANGED <<ledger, paused, world, server, todo>>

OrderAnswered(r) == th[r].pc = "ordering" /\ wire[r] = "card" /\ SealRecord(r)
-----------------------------------------------------------------------------
(***************************************************************************)
(* Lookups by request id: reconcileLookups, and the single one of          *)
(* recoverPending.                                                         *)
(***************************************************************************)
LookupFinds(t) == th[t].pc = "lookup" /\ th[t].req \in orders /\ SealRecord(t)

\* Mutant: one lookup too many.
LastLookupOneMore(t) == th[t].op = "recover" \/ th[t].tries = LookupAttempts

LastLookup(t) == th[t].op = "recover" \/ th[t].tries + 1 = LookupAttempts

\* No card found by the last lookup.  swap defers (and says so in the record,
\* whose status stays); cancel throws; the recovery moves on; forceRefund
\* goes on to refund, whether or not a lookup had failed.
GiveUpLookup(t) ==
  \/ th[t].op = "refund" /\ Goto(t, "cancel") /\ UNCHANGED unrecorded
  \/ th[t].op \in {"cancel", "recover"} /\ Finish(t) /\ UNCHANGED unrecorded
  \/ th[t].op = "swap" /\ Put(th[t].req, rec[th[t].req]) /\ Finish(t)

\* The answer is no such order, an error, or a body that does not parse: which
\* of them it is makes no difference to any caller.
LookupEmpty(t) ==
  /\ th[t].pc = "lookup"
  /\ IF LastLookup(t)
       THEN GiveUpLookup(t)
       ELSE th' = [th EXCEPT ![t].tries = @ + 1] /\ UNCHANGED unrecorded
  /\ UNCHANGED <<ledger, paused, world, server, todo>>
-----------------------------------------------------------------------------
(***************************************************************************)
(* settleDurable, and the refund.                                          *)
(***************************************************************************)
StatusOf(t) == ledger[rec[th[t].req].id].status

MarkSettled(t) ==
  /\ Put(th[t].req, [rec[th[t].req] EXCEPT !.status = "Settled"])
  /\ Finish(t)
  /\ UNCHANGED <<ledger, paused, world, server, todo>>

\* swapOf says what is left to do: settle, record the settlement, or throw.
CheckStatus(t) ==
  /\ th[t].pc = "check"
  /\ IF StatusOf(t) = "Settled" THEN MarkSettled(t)
     ELSE IF StatusOf(t) = "Requested"
       THEN Goto(t, "settle") /\ UNCHANGED <<ledger, paused, world, unrecorded, server, todo>>
       ELSE Throw(t) /\ UNCHANGED <<ledger, paused, world>>

SettleSwap(t) ==
  /\ th[t].pc = "settle" /\ ~paused /\ StatusOf(t) = "Requested"
  /\ ledger' = [ledger EXCEPT ![rec[th[t].req].id].status = "Settled"]
  /\ Goto(t, "settled")
  /\ UNCHANGED <<paused, world, unrecorded, server, todo>>

\* Mutant: the error of the settlement is swallowed.
SettleThrowsSwallowed(t) == Goto(t, "settled") /\ UNCHANGED <<unrecorded, server, todo>>

SettleThrows(t) == Throw(t)

\* Paused in between, or decided in between.
SettleRefused(t) ==
  /\ th[t].pc = "settle" /\ (paused \/ StatusOf(t) # "Requested")
  /\ SettleThrows(t)
  /\ UNCHANGED <<ledger, paused, world>>

SettleKnown(t) == th[t].pc = "settled" /\ MarkSettled(t)

\* Not blocked by pause.
CancelSwap(t) ==
  /\ th[t].pc = "cancel" /\ StatusOf(t) = "Requested"
  /\ ledger' = [ledger EXCEPT ![rec[th[t].req].id].status = "Cancelled"]
  /\ Goto(t, "cancelled")
  /\ UNCHANGED <<paused, world, unrecorded, server, todo>>

CancelRefused(t) ==
  /\ th[t].pc = "cancel" /\ StatusOf(t) # "Requested"
  /\ Throw(t)
  /\ UNCHANGED <<ledger, paused, world>>

CancelKnown(t) ==
  /\ th[t].pc = "cancelled"
  /\ Put(th[t].req, [rec[th[t].req] EXCEPT !.status = "Cancelled"])
  /\ Finish(t)
  /\ UNCHANGED <<ledger, paused, world, server, todo>>
-----------------------------------------------------------------------------
(***************************************************************************)
(* Operators and start-up.                                                 *)
(***************************************************************************)
\* Mutant: only what is still Requested can be taken up again.
UndecidedRequestedOnly(status) == status = "Requested"

Undecided(status) == status \in {"Requested", "Sealed"}

\* A Sealed record only needs settling; a Requested one is looked up first.
TakeUp(t, op, id) ==
  LET r == rows[id]
  IN  /\ r # None /\ Undecided(rec[r].status)
      /\ th' = [th EXCEPT ![t] = [Fresh(t) EXCEPT
                  !.pc = IF rec[r].status = "Sealed" THEN "check" ELSE "lookup",
                  !.op = op, !.req = r, !.id = id]]

\* confirmedNoOrder: the provider has told the operator that no order exists.
\* A patient operator also knows that none is still on its way.
Confirmed(r) == r \notin orders /\ (Patient => wire[r] # "sent")

PressCancel(o, id) ==
  /\ server = "up" /\ th[o].pc = "idle"
  /\ TakeUp(o, "cancel", id)
  /\ UNCHANGED <<ledger, paused, world, unrecorded, server, todo>>

PressRefund(o, id) ==
  /\ server = "up" /\ th[o].pc = "idle"
  /\ TakeUp(o, "refund", id)
  /\ rec[rows[id]].status = "Requested" => Confirmed(rows[id])
  /\ UNCHANGED <<ledger, paused, world, unrecorded, server, todo>>

SetPause(on) ==
  /\ server = "up" /\ paused # on
  /\ paused' = on
  /\ UNCHANGED <<ledger, world, unrecorded, th, server, todo>>

\* What was only in memory is gone; what is on the wire or the chain is not.
Crash ==
  /\ server # "down" /\ Fault("crash")
  /\ server' = "down"
  /\ th' = [t \in Threads |->
              IF t \in Requests /\ th[t].pc # "idle" THEN [th[t] EXCEPT !.pc = "done"] ELSE Fresh(t)]
  /\ rec' = [r \in Requests |-> None] /\ rows' = [i \in Ids |-> None] /\ todo' = {}
  /\ UNCHANGED <<ledger, paused, orders, wire, disk>>

\* Store.load, and the pending rows recoverPending will go through.
Restart ==
  /\ server = "down"
  /\ server' = "recovering"
  /\ rows' = [i \in Ids |-> IF disk[i] = None THEN None ELSE disk[i][2]]
  /\ rec' = [r \in Requests |->
               IF \E i \in Ids : rows'[i] = r
                 THEN disk[CHOOSE i \in Ids : rows'[i] = r][1] ELSE None]
  /\ todo' = {i \in Ids : rows'[i] # None /\ Undecided(rec'[rows'[i]].status)}
  /\ UNCHANGED <<ledger, paused, world, disk, th>>

RecoverNext(id) ==
  /\ server = "recovering" /\ th[Recovery].pc = "idle" /\ id \in todo
  /\ TakeUp(Recovery, "recover", id)
  /\ todo' = todo \ {id}
  /\ UNCHANGED <<ledger, paused, world, unrecorded, server>>

\* Only now does the service listen.
RecoverDone ==
  /\ server = "recovering" /\ th[Recovery].pc = "idle" /\ todo = {}
  /\ server' = "up"
  /\ UNCHANGED <<ledger, paused, world, unrecorded, th, todo>>

\* The reply of the chain is lost, whether or not the transaction is mined.
RpcFails(t) ==
  /\ th[t].pc \in {"burn", "burnt", "check", "settle", "settled", "cancel", "cancelled"}
  /\ Fault("rpc")
  /\ Throw(t)
  /\ UNCHANGED <<ledger, paused, orders, wire>>
-----------------------------------------------------------------------------
Provider(r) == ProviderIssues(r) \/ ProviderRefuses(r) \/ ReplyGarbled(r)

Swap(r) ==
  \/ CountSwaps(r) \/ Burn(r) \/ BurnRefused(r) \/ RecordAndOrder(r)
  \/ OrderAnswered(r) \/ OrderDeclined(r) \/ OrderUncertain(r) \/ OrderUnreadable(r)

Lookup(t) == LookupFinds(t) \/ LookupEmpty(t)

Decide(t) ==
  \/ CheckStatus(t) \/ SettleSwap(t) \/ SettleRefused(t) \/ SettleKnown(t)
  \/ CancelSwap(t) \/ CancelRefused(t) \/ CancelKnown(t)

Operator(o) == \E id \in Ids : PressCancel(o, id) \/ PressRefund(o, id)

Recover == Restart \/ RecoverDone \/ \E id \in Ids : RecoverNext(id)

Next ==
  \/ \E r \in Requests : Provider(r) \/ Swap(r)
  \/ \E t \in Threads : Lookup(t) \/ Decide(t) \/ RpcFails(t)
  \/ \E o \in Operators : Operator(o)
  \/ \E on \in BOOLEAN : SetPause(on)
  \/ Crash \/ Recover

Spec == Init /\ [][Next]_vars

(***************************************************************************)
(* Fairness: the event loop resumes whatever can go on and the process is  *)
(* restarted; the provider gets to what was sent, a lookup that keeps being *)
(* made is answered in the end, and an operator keeps pressing whichever   *)
(* button applies.                                                         *)
(***************************************************************************)
Step(t) == Lookup(t) \/ Decide(t) \/ (t \in Requests /\ Swap(t))

Fairness ==
  /\ \A t \in Threads : WF_vars(Step(t))
  /\ \A r \in Requests : WF_vars(ProviderIssues(r) \/ ProviderRefuses(r))
  /\ SF_vars(\E t \in Threads : LookupFinds(t))
  /\ \A id \in Ids : /\ SF_vars(\E o \in Operators : PressCancel(o, id))
                     /\ SF_vars(\E o \in Operators : PressRefund(o, id))
  /\ WF_vars(Recover)

FairSpec == Spec /\ Fairness
-----------------------------------------------------------------------------
(***************************************************************************)
(* The promise.                                                            *)
(***************************************************************************)
SwapsOf(r, status) == {s \in DOMAIN ledger : ledger[s].req = r /\ ledger[s].status = status}

Held(r) == SwapsOf(r, "Requested") # {}
Settled(r) == SwapsOf(r, "Settled") # {}
Refunded(r) == SwapsOf(r, "Cancelled") # {}

\* The card is in the wallet once a record that holds it is on disk.
InWallet(r) == \E i \in Ids : disk[i] # None /\ disk[i][2] = r /\ disk[i][1].sealed

promiseBar == [r \in Requests |-> IF Settled(r) THEN "delivered"
                                  ELSE IF Refunded(r) THEN "refunded"
                                  ELSE IF Held(r) THEN "held" ELSE "none"]
cardBar == [r \in Requests |-> InWallet(r)]

Promise == INSTANCE SwapPromise WITH promise <- promiseBar, card <- cardBar

\* Through every interleaving, crash and lost reply the service keeps the
\* promise of swap.js lines 1-15: sealed on disk before it is settled, refunded
\* only without a card, decided once.
KeepsThePromise == Promise!Spec

\* "nobody gets both" (swap.js line 212): no learner has the refund and a card.
NobodyGetsBoth == \A r \in Requests : ~(Refunded(r) /\ InWallet(r))

\* A swap has its record in the store, where the wallet and the console find it.
Recorded(s) == disk[s] # None /\ disk[s][2] = ledger[s].req

\* "never a spent balance with nothing to show for it" (swap.js lines 12-13):
\* an open swap has its record, or its handler is about to put it there.
NothingLost ==
  \A s \in DOMAIN ledger : ledger[s].status = "Requested" =>
    Recorded(s) \/ th[ledger[s].req].pc = "burnt"

\* What is left of it if no request burns on a stale count: a swap gets lost only
\* between its burn and its record, by a crash or a lost reply just then.  Once
\* it is recorded no crash, no restart and no other put takes its record away.
LostOnlyBeforeItsRecord ==
  [][\A s \in DOMAIN ledger' : ledger'[s].status = "Requested" =>
       \/ Recorded(s)' \/ th'[ledger'[s].req].pc = "burnt"
       \/ /\ s \in DOMAIN ledger /\ ~Recorded(s)
          /\ th[ledger[s].req].pc = "burnt" => faults' > faults]_vars

\* What a record says was decided, the ledger decided: what a learner is shown
\* as settled or refunded is so, though the ledger is asked between two awaits.
RecordsTellTheTruth ==
  \A i \in Ids : disk[i] # None /\ disk[i][1].status \in {"Settled", "Cancelled"} =>
    i \in DOMAIN ledger /\ ledger[i] = [req |-> disk[i][2], status |-> disk[i][1].status]

\* Credits that bought a card and the card are never apart: a settled swap's
\* own row on disk holds that request's sealed card, also after a crash.
SettledIsInWallet ==
  \A s \in DOMAIN ledger : ledger[s].status = "Settled" =>
    disk[s] # None /\ disk[s][2] = ledger[s].req /\ disk[s][1].sealed

\* Credits held "until a machine is sure" are not "a state a programme can
\* leave a newcomer in" (swap.js lines 203-206): once the programme stays
\* un-paused, a swap that has its record is in the end settled or refunded.
EverySwapIsDecided ==
  <>[]~paused =>
    \A s \in Ids : disk[s] # None ~> s \in DOMAIN ledger /\ ledger[s].status # "Requested"

\* A card that was sealed is in the end also shown as settled, whatever was
\* interrupted between the seal, the settlement and the record of it.
SealedIsSettled ==
  <>[]~paused =>
    \A s \in Ids : (disk[s] # None /\ disk[s][1].status = "Sealed")
                     ~> (disk[s] # None /\ disk[s][1].status = "Settled")
=============================================================================
