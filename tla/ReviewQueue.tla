----------------------------- MODULE ReviewQueue -----------------------------
(***************************************************************************)
(* What becomes of a learner's submission: POST /api/submit, which pays a  *)
(* pass at once and queues a near miss; the verifier console's approve and *)
(* reject; and the expiry of what nobody looked at (server/server.js),     *)
(* over the queue of server/store.js.                                      *)
(*                                                                         *)
(* Reject and expiry run in one go.  Whoever pays awaits the ledger: on    *)
(* the chain that is a wait during which any other handler may run; on the *)
(* in-memory mirror the award is done when the call returns, and nothing   *)
(* comes in between.  Of the ledger there is only what a mission pays now, *)
(* under which version, and who completed which.                           *)
(***************************************************************************)
EXTENDS Integers, Assessment

CONSTANTS
  Reviews,      \* ids of submissions that may be queued
  Learners, Missions,
  Submissions,  \* what learners send in
  Desks,        \* requests that may be waiting for the chain at once
  Environments, \* what the service may be started in
  ReviewTtl,    \* reviewTtlMs
  Terms,        \* what a mission may be configured to: its version and reward
  FirstTerms,   \* how the missions are configured at first
  MaxTime       \* bound: the last moment explored

ASSUME QueueAssumption ==
  /\ Environments \subseteq
       [LEDGER : {"chain", "memory", "unset"}, deployed : BOOLEAN, answers : BOOLEAN]
  /\ ReviewTtl \in Nat \ {0} /\ MaxTime \in Nat
  /\ Terms \subseteq [version : Nat \ {0}, reward : Nat \ {0}] /\ FirstTerms \in Terms
  /\ Submissions \subseteq Submission

VARIABLES
  mode,       \* ledger.mode, chosen at start-up
  queue,      \* store.reviewQueue: the rows put so far, by id
  mission,    \* the ledger's current terms of each mission
  completed,  \* the ledger's <<learner, mission, version>>
  paid,       \* history: what the ledger credited for the approval of each review
  desk,       \* per desk: the award its request awaits, if any
  now         \* store.now()

vars == <<mode, queue, mission, completed, paid, desk, now>>
-----------------------------------------------------------------------------
Row == [learner : Learners, mission : Missions, text : BOOLEAN, deadline : Nat,
        status : {"pending", "approved", "rejected", "expired"}, awarded : Nat]

\* createLedger and verifyLedger: the contract if there is one that answers in
\* time and the mirror was not asked for; else the mirror, unless the contract
\* was asked for, when the service does not start.
Starts(env) == env.LEDGER = "chain" => env.deployed /\ env.answers
Chosen(env) ==
  IF env.LEDGER # "memory" /\ env.deployed /\ env.answers THEN "chain" ELSE "memory"

Idle == [pc |-> "idle"]

\* Mutant: the amount is the one in the server's own table of missions.
TermsFromTable(m) == FirstTerms

\* ledger.missionOf, which awardCredits answers the amount from.
TermsRead(m) == mission[m]

\* A request that pays: for which review, if for one; what it read of the mission
\* beforehand; and of the history, whether that changed before it was paid what.
Awaiting(id, l, m) ==
  [pc |-> "awarding", id |-> id, learner |-> l, mission |-> m,
   amount |-> TermsRead(m).reward, revised |-> FALSE, credited |-> 0]

\* A pass is paid for no review.
NoReview == "none"

ASSUME ReviewsAssumption == NoReview \notin Reviews

Init ==
  /\ mode \in {Chosen(env) : env \in {e \in Environments : Starts(e)}}
  /\ queue = [id \in {} |-> Idle]
  /\ mission = [m \in Missions |-> FirstTerms]
  /\ completed = {}
  /\ paid = [id \in Reviews |-> {}]
  /\ desk = [d \in Desks |-> Idle]
  /\ now = 0
-----------------------------------------------------------------------------
\* Mutant: the status changes but the words stay.
FinalRowWithText(row, status) == [row EXCEPT !.status = status]

\* finalizeReview sets the status, whatever it was, and deletes the words.
FinalRow(row, status) == [row EXCEPT !.status = status, !.text = FALSE]

\* Mutant: a row expires only after its deadline has passed by a while.
OverdueLate(row) == row.status = "pending" /\ row.deadline + 1 < now

\* Mutant: what is decided expires as well.
OverdueDecided(row) == row.deadline <= now

Overdue(row) == row.status = "pending" /\ row.deadline <= now

\* The queue as every handler that reads it first leaves it.
Swept == [id \in DOMAIN queue |->
            IF Overdue(queue[id]) THEN FinalRow(queue[id], "expired") ELSE queue[id]]

\* approve and reject expire first, and refuse what is decided.
Open(id) == Swept[id].status = "pending"

Key(l, m) == <<l, m, mission[m].version>>
-----------------------------------------------------------------------------
\* A near miss is queued with its words.
SubmitForReview(id, l, m, sub) ==
  /\ Outcome(sub) = "review" /\ id \notin DOMAIN queue
  /\ queue' = [i \in DOMAIN queue \cup {id} |->
       IF i = id THEN [learner |-> l, mission |-> m, text |-> TRUE,
                       deadline |-> now + ReviewTtl, status |-> "pending", awarded |-> 0]
                 ELSE queue[i]]
  /\ UNCHANGED <<mode, mission, completed, paid, desk, now>>

\* The queue, a learner's reviews or the statistics are read.
Read ==
  /\ queue' = Swept
  /\ UNCHANGED <<mode, mission, completed, paid, desk, now>>

\* A pass is awarded at once, whether or not a review of it waits.
SubmitPassed(d, l, m, sub) ==
  /\ mode = "chain" /\ desk[d] = Idle
  /\ Outcome(sub) = "passed"
  /\ desk' = [desk EXCEPT ![d] = Awaiting(NoReview, l, m)]
  /\ UNCHANGED <<mode, queue, mission, completed, paid, now>>

\* Up to the award that approve awaits.
Approve(d, id) ==
  /\ mode = "chain" /\ desk[d] = Idle
  /\ id \in DOMAIN queue /\ Open(id)
  /\ queue' = Swept
  /\ desk' = [desk EXCEPT ![d] = Awaiting(id, queue[id].learner, queue[id].mission)]
  /\ UNCHANGED <<mode, mission, completed, paid, now>>

\* The ledger credits what the mission pays by now.
Credit(id, m) == IF id = NoReview THEN paid ELSE [paid EXCEPT ![id] = @ \cup {mission[m].reward}]

\* The transaction of awardCredits is mined.
Award(d) ==
  LET call == desk[d] IN
  /\ call.pc = "awarding"
  /\ Key(call.learner, call.mission) \notin completed
  /\ completed' = completed \cup {Key(call.learner, call.mission)}
  /\ paid' = Credit(call.id, call.mission)
  /\ desk' = [desk EXCEPT ![d].pc = "awarded", ![d].credited = mission[call.mission].reward]
  /\ UNCHANGED <<mode, queue, mission, now>>

\* Mutant: a refused award is taken for one that had been made before.
AwardThrowsAnswered(d) == desk' = [desk EXCEPT ![d].pc = "awarded"]

AwardThrows(d) == desk' = [desk EXCEPT ![d] = Idle]

\* Completed before, paused, over the cap, or the reply is lost: a row stays as
\* it is, and a pass is answered with nothing awarded.
AwardFails(d) ==
  /\ desk[d].pc \in {"awarding", "awarded"}
  /\ AwardThrows(d)
  /\ UNCHANGED <<mode, queue, mission, completed, paid, now>>

\* The amount a request answers with, and approve also puts down in the row.
Answered(d) == desk[d].pc = "awarded"

\* The rest of approve, once the award is known.
Finalize(d, id) ==
  /\ Answered(d) /\ desk[d].id = id
  /\ queue' = [queue EXCEPT ![id] = [FinalRow(@, "approved") EXCEPT !.awarded = desk[d].amount]]
  /\ desk' = [desk EXCEPT ![d] = Idle]
  /\ UNCHANGED <<mode, mission, completed, paid, now>>

\* The rest of submit.
TellLearner(d) ==
  /\ Answered(d) /\ desk[d].id = NoReview
  /\ desk' = [desk EXCEPT ![d] = Idle]
  /\ UNCHANGED <<mode, queue, mission, completed, paid, now>>

\* Over the mirror: read, award and answer with nothing in between.
PassedAtOnce(l, m, sub) ==
  /\ mode = "memory"
  /\ Outcome(sub) = "passed" /\ Key(l, m) \notin completed
  /\ completed' = completed \cup {Key(l, m)}
  /\ UNCHANGED <<mode, queue, mission, paid, desk, now>>

ApproveAtOnce(id) ==
  LET l == queue[id].learner  m == queue[id].mission IN
  /\ mode = "memory"
  /\ id \in DOMAIN queue /\ Open(id)
  /\ Key(l, m) \notin completed
  /\ completed' = completed \cup {Key(l, m)}
  /\ paid' = Credit(id, m)
  /\ queue' = [Swept EXCEPT ![id] = [FinalRow(@, "approved") EXCEPT !.awarded = TermsRead(m).reward]]
  /\ UNCHANGED <<mode, mission, desk, now>>

Reject(id) ==
  /\ id \in DOMAIN queue /\ Open(id)
  /\ queue' = [Swept EXCEPT ![id] = FinalRow(@, "rejected")]
  /\ UNCHANGED <<mode, mission, completed, paid, desk, now>>

\* An admin revises a mission: it pays something else, or can be completed again.
Revise(m) ==
  /\ \E terms \in Terms \ {mission[m]} : mission' = [mission EXCEPT ![m] = terms]
  /\ desk' = [d \in Desks |->
       IF desk[d].pc = "awarding" /\ desk[d].mission = m
       THEN [desk[d] EXCEPT !.revised = TRUE] ELSE desk[d]]
  /\ UNCHANGED <<mode, queue, completed, paid, now>>

Tick ==
  /\ now < MaxTime
  /\ now' = now + 1
  /\ UNCHANGED <<mode, queue, mission, completed, paid, desk>>
-----------------------------------------------------------------------------
Submit(l, m, sub) ==
  \/ \E id \in Reviews : SubmitForReview(id, l, m, sub)
  \/ \E d \in Desks : SubmitPassed(d, l, m, sub)
  \/ PassedAtOnce(l, m, sub)

Proceed(d) ==
  \/ Award(d) \/ AwardFails(d) \/ TellLearner(d)
  \/ \E id \in Reviews : Approve(d, id) \/ Finalize(d, id)

Next ==
  \/ \E l \in Learners, m \in Missions, sub \in Submissions : Submit(l, m, sub)
  \/ Read
  \/ \E d \in Desks : Proceed(d)
  \/ \E id \in Reviews : ApproveAtOnce(id) \/ Reject(id)
  \/ \E m \in Missions : Revise(m)
  \/ Tick

Spec == Init /\ [][Next]_vars
-----------------------------------------------------------------------------
\* An approval that is shown to the learner was paid by the ledger, whoever
\* else decided about the same review or the same mission meanwhile.
ApprovedMeansPaid == \A id \in DOMAIN queue : queue[id].status = "approved" => paid[id] # {}

\* "+{n} credits are in your balance" (i18n.js line 17): the amount a learner
\* is told is the one the ledger credited.  It was read before the transaction
\* (ledger.js line 479): only a revision of that mission during the call, and
\* nothing else that may happen meanwhile, makes them differ.
ToldIsCredited ==
  \A d \in Desks : Answered(d) => desk[d].amount = desk[d].credited \/ desk[d].revised

\* The words are "removed on decision or expiry" (store.js line 8): in no
\* state does a decided row still hold them, however the decision came.
DecidedHasNoText == \A id \in DOMAIN queue : queue[id].status # "pending" => ~queue[id].text

\* "already decided" (server.js lines 528 and 554): a review in a final state
\* (store.js line 147) is never decided again.
DecisionsAreFinal ==
  [][\A id \in DOMAIN queue : queue[id].status # "pending" => queue'[id] = queue[id]]_vars

\* What is left of it: nobody decides again but an approve that waited for the
\* ledger while others decided; neither a rejection, nor the expiry, nor an
\* award that failed.  The row then tells what that request is told.
OnlyAnAwardOverrides ==
  [][\A id \in DOMAIN queue : queue[id].status # "pending" /\ queue'[id] # queue[id] =>
       \E d \in Desks :
         /\ Answered(d) /\ desk[d].id = id /\ desk'[d] = Idle
         /\ queue'[id].status = "approved" /\ queue'[id].awarded = desk[d].amount
         /\ queue'[id].learner = queue[id].learner /\ paid[id] # {}]_vars

\* Over the mirror no decision is overridden; and "expired reviews being
\* impossible to approve" (README.md line 201): there the ledger pays only for
\* a review that is still pending within its time, once, and decides it in
\* that step, with the amount it credited.
DecidedOnceOverMirror ==
  [][mode = "memory" =>
       /\ \A id \in DOMAIN queue : queue[id].status # "pending" => queue'[id] = queue[id]
       /\ \A id \in Reviews : paid'[id] # paid[id] =>
            /\ queue[id].status = "pending" /\ now < queue[id].deadline
            /\ queue'[id].status = "approved" /\ paid'[id] = {queue'[id].awarded}]_vars
=============================================================================
