----------------------------- MODULE LiveStream -----------------------------
(***************************************************************************)
(* How the admin console keeps up with the service: the event stream it    *)
(* opens with a one-use ticket and opens again when it is lost, and the    *)
(* state it asks for on every event and every five seconds                 *)
(* (public/admin/app.js), over the tickets and streams of server.js.       *)
(*                                                                         *)
(* Each call of connectStream has a generation of its own; its ticket and  *)
(* its EventSource are named by it.  What the console shows of the ledger  *)
(* is a version number: how often the state had changed when it was read.  *)
(***************************************************************************)
EXTENDS Integers, FiniteSets

CONSTANTS
  Loads,       \* calls of load() that may be under way together
  MaxChanges,  \* bound: times the ledger or the swap records change
  MaxTyped,    \* bound: times another token is typed in
  MaxFaults    \* bound: requests that fail, connections lost, tickets too old

ASSUME StreamAssumption == MaxChanges \in Nat /\ MaxTyped \in Nat /\ MaxFaults \in Nat

\* Every generation after the first is due to a token or to a fault.
Generations == 1..(1 + MaxTyped + MaxFaults)
NoSource == 0

\* What a call of load() is at, when it is not the version it was answered.
NotCalled == -2
Asked == -1

VARIABLES
  token,       \* is the token typed in the right one?
  gen,         \* streamGeneration
  es,          \* the generation whose EventSource is current, or NoSource
  timer,       \* is reconnectTimer running?
  ask,         \* per generation: the request for a ticket, and how it ended
  source,      \* per generation: its EventSource, as the browser has it
  ticket,      \* per generation: its ticket, as the server has it
  streams,     \* the generations whose responses the server writes to
  opened,      \* history: how often each ticket has opened a stream
  truth,       \* the version of the state the server would answer with
  load,        \* the calls of load(): NotCalled, Asked, or the version answered
  shown,       \* the version the console shows, -1 before the first
  typed, faults

pageVars == <<token, gen, es, timer, ask, source>>
serverVars == <<ticket, streams, opened>>
viewVars == <<truth, load, shown>>
vars == <<pageVars, serverVars, viewVars, typed, faults>>
-----------------------------------------------------------------------------
AskState == {"none", "asked", "wrong", "answered", "failed", "taken", "stale"}
SourceState == {"none", "connecting", "open", "error", "closed"}

\* The token in the header of a request for a ticket is right, or wrong.
AskedWith(tok) == IF tok THEN "asked" ELSE "wrong"

Init ==
  /\ token \in BOOLEAN
  /\ gen = 1 /\ es = NoSource /\ timer = FALSE
  /\ ask = [g \in Generations |-> IF g = 1 THEN AskedWith(token) ELSE "none"]
  /\ source = [g \in Generations |-> "none"]
  /\ ticket = [g \in Generations |-> "none"]
  /\ streams = {}
  /\ opened = [g \in Generations |-> 0]
  /\ truth = 0 /\ load = [i \in Loads |-> NotCalled] /\ shown = -1
  /\ typed = 0 /\ faults = 0

Faulty == faults < MaxFaults /\ faults' = faults + 1
-----------------------------------------------------------------------------
\* The EventSources when connectStream begins.
SourcesClosed == IF es = NoSource THEN source ELSE [source EXCEPT ![es] = "closed"]

\* Mutant: the timer that is running is not cleared.
TimerLeftRunning == timer

\* reconnectTimer when connectStream begins.
TimerCleared == FALSE

\* connectStream up to its await.
Connect(tok) ==
  /\ gen' = gen + 1
  /\ source' = SourcesClosed
  /\ es' = NoSource /\ timer' = TimerCleared
  /\ ask' = [ask EXCEPT ![gen + 1] = AskedWith(tok)]

\* A token is typed: connectStream and load at once; the load is left to Poll.
ChangeToken ==
  /\ typed < MaxTyped /\ typed' = typed + 1
  /\ token' = ~token
  /\ Connect(~token)
  /\ UNCHANGED <<serverVars, viewVars, faults>>

TimerFires ==
  /\ timer
  /\ Connect(token)
  /\ UNCHANGED <<token, serverVars, viewVars, typed, faults>>

\* POST /api/admin/stream-ticket.
TicketIssued(g) ==
  /\ ask[g] = "asked"
  /\ ticket' = [ticket EXCEPT ![g] = "valid"]
  /\ ask' = [ask EXCEPT ![g] = "answered"]
  /\ UNCHANGED <<token, gen, es, timer, source, streams, opened, viewVars, typed, faults>>

\* 401, or no answer at all: connectStream shows the error and returns.
TicketFails(g) ==
  /\ ask[g] \in {"asked", "wrong"}
  /\ IF ask[g] = "wrong" THEN UNCHANGED faults ELSE Faulty
  /\ ask' = [ask EXCEPT ![g] = "failed"]
  /\ UNCHANGED <<token, gen, es, timer, source, serverVars, viewVars, typed>>

\* Mutant: a ticket that comes late is used all the same.
WantedAlways(g) == TRUE

\* Has connectStream not been called again since?
Wanted(g) == g = gen

\* The rest of connectStream, after its await.
TicketTaken(g) ==
  /\ ask[g] = "answered"
  /\ IF Wanted(g)
     THEN /\ es' = g
          /\ source' = [source EXCEPT ![g] = "connecting"]
          /\ ask' = [ask EXCEPT ![g] = "taken"]
     ELSE ask' = [ask EXCEPT ![g] = "stale"] /\ UNCHANGED <<es, source>>
  /\ UNCHANGED <<token, gen, timer, serverVars, viewVars, typed, faults>>

\* STREAM_TICKET_TTL_MS have passed.
TicketExpires(g) ==
  /\ ticket[g] = "valid" /\ Faulty
  /\ ticket' = [ticket EXCEPT ![g] = "expired"]
  /\ UNCHANGED <<pageVars, streams, opened, viewVars, typed>>

\* Mutant: the ticket stays good until it expires.
TicketKept(g) == ticket

\* consumeStreamTicket deletes the ticket it accepts.
Consumed(g) == [ticket EXCEPT ![g] = "used"]

\* GET /api/stream: the ticket is consumed and the response kept, also when
\* the page closed the EventSource before its request was served.
StreamServed(g) ==
  /\ source[g] \in {"connecting", "closed"} /\ ticket[g] = "valid"
  /\ ticket' = Consumed(g)
  /\ opened' = [opened EXCEPT ![g] = @ + 1]
  /\ streams' = streams \cup {g}
  /\ source' = [source EXCEPT ![g] = IF @ = "connecting" THEN "open" ELSE @]
  /\ UNCHANGED <<token, gen, es, timer, ask, viewVars, typed, faults>>

\* The same address is requested by someone else, before the page or after.
SomeoneElse(g) ==
  /\ ticket[g] = "valid" /\ Faulty
  /\ ticket' = Consumed(g)
  /\ opened' = [opened EXCEPT ![g] = @ + 1]
  /\ UNCHANGED <<pageVars, streams, viewVars, typed>>

\* 401: the ticket is gone.
StreamRefused(g) ==
  /\ source[g] = "connecting" /\ ticket[g] # "valid"
  /\ source' = [source EXCEPT ![g] = "error"]
  /\ UNCHANGED <<token, gen, es, timer, ask, serverVars, viewVars, typed, faults>>

Drop(g) ==
  /\ source[g] \in {"connecting", "open"} /\ Faulty
  /\ source' = [source EXCEPT ![g] = "error"]
  /\ UNCHANGED <<token, gen, es, timer, ask, serverVars, viewVars, typed>>

\* The 'close' of the request, or a write that fails.
ServerNotices(g) ==
  /\ g \in streams /\ source[g] # "open"
  /\ streams' = streams \ {g}
  /\ UNCHANGED <<pageVars, ticket, opened, viewVars, typed, faults>>

\* Mutant: the retry is left to the browser, which has a closed EventSource.
RetryLeftOut(g) == FALSE

\* onerror of an older generation changes nothing else.
Retry(g) == g = gen

\* onerror: the browser is kept from connecting again by itself with a used
\* ticket, and connectStream is to be called in a second.
OnError(g) ==
  /\ source[g] = "error"
  /\ source' = [source EXCEPT ![g] = "closed"]
  /\ IF Retry(g) THEN es' = NoSource /\ timer' = TRUE ELSE UNCHANGED <<es, timer>>
  /\ UNCHANGED <<token, gen, ask, serverVars, viewVars, typed, faults>>
-----------------------------------------------------------------------------
\* load() when every call is busy is left out: the ones under way stand for it.
Started(i) == [load EXCEPT ![i] = Asked]

\* broadcast writes to every stream; the page hears it on the one it has open.
Told(g) == g \in streams /\ source[g] = "open"

\* The state changes, and a page that is told asks for it.
Change(i) ==
  /\ truth < MaxChanges
  /\ truth' = truth + 1
  /\ IF es # NoSource /\ Told(es) /\ load[i] = NotCalled
     THEN load' = Started(i) ELSE UNCHANGED load
  /\ UNCHANGED <<pageVars, serverVars, shown, typed, faults>>

\* setInterval(load, 5000), and the load at start-up.
Poll(i) ==
  /\ load[i] = NotCalled
  /\ load' = Started(i)
  /\ UNCHANGED <<pageVars, serverVars, truth, shown, typed, faults>>

\* Mutant: the browser answers from its cache.
AnswerCached == IF shown >= 0 THEN shown ELSE truth

\* GET /api/admin/state is answered with what is true then, and not stored.
Answer == truth

LoadServed(i) ==
  /\ load[i] = Asked /\ token
  /\ load' = [load EXCEPT ![i] = Answer]
  /\ UNCHANGED <<pageVars, serverVars, truth, shown, typed, faults>>

\* The answer arrives, perhaps after one that was asked for later.
Render(i) ==
  /\ load[i] >= 0
  /\ shown' = load[i]
  /\ load' = [load EXCEPT ![i] = NotCalled]
  /\ UNCHANGED <<pageVars, serverVars, truth, typed, faults>>

\* A wrong token, or no answer: the badge says so and the figures stay.
LoadFails(i) ==
  /\ load[i] = Asked
  /\ IF token THEN Faulty ELSE UNCHANGED faults
  /\ load' = [load EXCEPT ![i] = NotCalled]
  /\ UNCHANGED <<pageVars, serverVars, truth, shown, typed>>
-----------------------------------------------------------------------------
Page(g) == TicketTaken(g) \/ OnError(g)
Server(g) == TicketIssued(g) \/ StreamServed(g) \/ StreamRefused(g) \/ ServerNotices(g)
Network(g) == TicketFails(g) \/ TicketExpires(g) \/ SomeoneElse(g) \/ Drop(g)

Next ==
  \/ \E g \in Generations : Page(g) \/ Server(g) \/ Network(g)
  \/ \E i \in Loads : Change(i) \/ Poll(i) \/ LoadServed(i) \/ Render(i) \/ LoadFails(i)
  \/ ChangeToken
  \/ TimerFires

\* The browser's tasks and timers run and the server answers what reaches it;
\* that requests, tickets and connections fail is left to chance.
Fairness ==
  /\ \A g \in Generations :
       /\ WF_vars(Page(g)) /\ WF_vars(TicketIssued(g) \/ TicketFails(g))
       /\ WF_vars(source[g] = "connecting" /\ (StreamServed(g) \/ StreamRefused(g)))
  /\ \A i \in Loads : WF_vars(Poll(i)) /\ WF_vars(LoadServed(i) \/ LoadFails(i)) /\ WF_vars(Render(i))
  /\ WF_vars(TimerFires)

Spec == Init /\ [][Next]_vars /\ Fairness
-----------------------------------------------------------------------------
Live(g) == source[g] \in {"connecting", "open", "error"}

\* The types; of gen: the page asks for no more streams than the tokens typed
\* and the faults met give it reason to.
TypeOK ==
  /\ token \in BOOLEAN /\ gen \in 1..(1 + typed + faults) /\ timer \in BOOLEAN
  /\ es \in Generations \cup {NoSource}
  /\ ask \in [Generations -> AskState] /\ source \in [Generations -> SourceState]
  /\ ticket \in [Generations -> {"none", "valid", "used", "expired"}]
  /\ streams \subseteq Generations /\ opened \in [Generations -> Nat]
  /\ truth \in 0..MaxChanges /\ shown \in -1..MaxChanges
  /\ load \in [Loads -> NotCalled..MaxChanges]

\* However token changes, late tickets, errors and the timer interleave, the
\* page never has two EventSources (every event would be shown twice), and it
\* has none that it has lost hold of.
OneSource == \A g \in Generations : Live(g) => g = es

\* "a one-minute, one-use ticket" (README.md line 88): whoever requests the
\* address of a stream, and however often, a ticket opens one stream at most.
TicketsAreOneUse == \A g \in Generations : opened[g] <= 1

\* A lost stream comes back: the console ends up on an open stream unless the
\* request for a ticket itself failed, which nothing repeats.
StreamComesBack == <>[](source[gen] = "open" \/ ask[gen] = "failed")

\* Answers may overtake each other and events may be missed while the stream is
\* lost, but with the right token the console ends up showing what is true.
ShownCatchesUp == <>[]token => <>[](shown = truth)
=============================================================================
