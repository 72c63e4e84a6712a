-------------------------- MODULE ReviewQueueProofs --------------------------
(***************************************************************************)
(* Proofs about the review queue, for any reviews, learners, missions,     *)
(* submissions, terms and desks, over either ledger.                       *)
(*                                                                         *)
(* What approve writes after its await rests on what it read before: so    *)
(* the invariant follows the requests that wait (Waiting), and says that   *)
(* over the mirror none ever does (MirrorWaitsForNothing).                 *)
(***************************************************************************)
EXTENDS ReviewQueue, TLAPS

Pending == [pc : {"awarding", "awarded"}, id : Reviews \cup {NoReview}, learner : Learners,
            mission : Missions, amount : Nat, revised : BOOLEAN, credited : Nat]

Types ==
  /\ mode \in {"chain", "memory"}
  /\ DOMAIN queue \subseteq Reviews /\ queue \in [DOMAIN queue -> Row]
  /\ mission \in [Missions -> Terms]
  /\ paid \in [Reviews -> SUBSET Nat]
  /\ desk \in [Desks -> Pending \cup {Idle}]
  /\ now \in Nat

\* What is known of a request that awaits the ledger, or has its answer.
Waiting ==
  \A d \in Desks : desk[d].pc # "idle" =>
    /\ desk[d].id # NoReview => desk[d].id \in DOMAIN queue
    /\ desk[d].pc = "awarded" /\ desk[d].id # NoReview => paid[desk[d].id] # {}
    /\ desk[d].pc = "awarding" =>
         desk[d].revised \/ desk[d].amount = mission[desk[d].mission].reward

\* Over the mirror no request waits, and what is not decided is not paid.
MirrorWaitsForNothing ==
  mode = "memory" =>
    /\ \A d \in Desks : desk[d] = Idle
    /\ \A id \in Reviews :
         id \notin DOMAIN queue \/ queue[id].status = "pending" => paid[id] = {}

Inv ==
  /\ Types /\ Waiting /\ MirrorWaitsForNothing
  /\ ApprovedMeansPaid /\ ToldIsCredited /\ DecidedHasNoText
-----------------------------------------------------------------------------
\* A row that is made final is a row, and its words are gone.
LEMMA FinalRowIsFinal ==
  ASSUME NEW row \in Row, NEW status \in {"approved", "rejected", "expired"}
  PROVE  /\ FinalRow(row, status) \in Row
         /\ FinalRow(row, status).status = status /\ ~FinalRow(row, status).text
         /\ \A n \in Nat : /\ [FinalRow(row, status) EXCEPT !.awarded = n] \in Row
                          /\ [FinalRow(row, status) EXCEPT !.awarded = n].status = status
                          /\ [FinalRow(row, status) EXCEPT !.awarded = n].awarded = n
                          /\ ~[FinalRow(row, status) EXCEPT !.awarded = n].text
  BY DEF FinalRow, Row

\* What a queue must look like beside what has been paid.
QueueIsGood(q) ==
  /\ DOMAIN q = DOMAIN queue /\ q \in [DOMAIN queue -> Row]
  /\ \A id \in DOMAIN queue :
       /\ q[id].status # "pending" => ~q[id].text
       /\ q[id].status = "pending" => queue[id].status = "pending"

\* Expiry keeps it so, and decides nothing but what is pending and late.
LEMMA SweepIsGood ==
  ASSUME Types, DecidedHasNoText
  PROVE  /\ QueueIsGood(Swept)
         /\ \A id \in DOMAIN queue :
              /\ Swept[id].status = "approved" => queue[id].status = "approved"
              /\ queue[id].status # "pending" => Swept[id] = queue[id]
              /\ Open(id) => queue[id].status = "pending" /\ now < queue[id].deadline
  <1>1. /\ DOMAIN Swept = DOMAIN queue
        /\ \A id \in DOMAIN queue :
             Swept[id] = IF Overdue(queue[id]) THEN FinalRow(queue[id], "expired") ELSE queue[id]
    BY DEF Swept
  <1>2. ASSUME NEW id \in DOMAIN queue
        PROVE  /\ Swept[id] \in Row
               /\ Swept[id].status # "pending" => ~Swept[id].text
               /\ Swept[id].status = "pending" => queue[id].status = "pending"
               /\ Swept[id].status = "approved" => queue[id].status = "approved"
               /\ queue[id].status # "pending" => Swept[id] = queue[id]
               /\ Open(id) => queue[id].status = "pending" /\ now < queue[id].deadline
    <2>1. queue[id] \in Row /\ now \in Nat
      BY DEF Types
    <2>2. /\ FinalRow(queue[id], "expired") \in Row
          /\ FinalRow(queue[id], "expired").status = "expired"
          /\ ~FinalRow(queue[id], "expired").text
      BY <2>1, FinalRowIsFinal
    <2>3. CASE Overdue(queue[id])
      BY <2>2, <2>3, <1>1 DEF Overdue, Open
    <2>4. CASE ~Overdue(queue[id])
      BY <2>1, <2>4, <1>1 DEF Overdue, Open, DecidedHasNoText, Row
    <2> QED BY <2>3, <2>4
  <1>3. Swept \in [DOMAIN queue -> Row]
    BY <1>1, <1>2 DEF Swept
  <1> QED BY <1>1, <1>2, <1>3 DEF QueueIsGood

\* The reward an award reads and pays is a natural number.
LEMMA RewardsAreNat ==
  ASSUME Types, NEW m \in Missions
  PROVE  mission[m].reward \in Nat /\ TermsRead(m) = mission[m]
  BY QueueAssumption DEF Types, TermsRead

\* No review, and nobody waits.
LEMMA InitInv == Init => Inv
  <1> SUFFICES ASSUME Init PROVE Inv
    OBVIOUS
  <1>1. DOMAIN queue = {} /\ queue \in [DOMAIN queue -> Row]
    BY DEF Init
  <1>2. mode \in {"chain", "memory"}
    BY DEF Init, Chosen
  <1>3. Types
    BY <1>1, <1>2, QueueAssumption DEF Init, Types
  <1>4. Waiting /\ MirrorWaitsForNothing /\ ToldIsCredited
    BY <1>1 DEF Init, Waiting, MirrorWaitsForNothing, ToldIsCredited, Answered, Idle
  <1>5. ApprovedMeansPaid /\ DecidedHasNoText
    BY <1>1 DEF ApprovedMeansPaid, DecidedHasNoText
  <1> QED BY <1>3, <1>4, <1>5 DEF Inv
-----------------------------------------------------------------------------
\* A step that only rewrites the queue, and approves nothing, keeps all that
\* does not mention it.
LEMMA QueueStepKeepsInv ==
  ASSUME Inv, QueueIsGood(queue'),
         \A id \in DOMAIN queue : queue'[id].status = "approved" => queue[id].status = "approved",
         UNCHANGED <<mode, mission, completed, paid, desk, now>>
  PROVE  Inv'
  <1>1. Types'
    BY DEF Inv, Types, QueueIsGood
  <1>2. Waiting' /\ ToldIsCredited' /\ MirrorWaitsForNothing'
    BY DEF Inv, Waiting, ToldIsCredited, Answered, MirrorWaitsForNothing, QueueIsGood
  <1>3. ApprovedMeansPaid' /\ DecidedHasNoText'
    BY DEF Inv, ApprovedMeansPaid, DecidedHasNoText, QueueIsGood
  <1> QED BY <1>1, <1>2, <1>3 DEF Inv

\* A review is queued with its words, and nothing has been paid for it.
LEMMA SubmitKeepsInv ==
  ASSUME Inv, NEW id \in Reviews, NEW l \in Learners, NEW m \in Missions,
         NEW sub \in Submissions, SubmitForReview(id, l, m, sub)
  PROVE  Inv'
  <1> DEFINE row == [learner |-> l, mission |-> m, text |-> TRUE,
                     deadline |-> now + ReviewTtl, status |-> "pending", awarded |-> 0]
  <1>1. /\ id \notin DOMAIN queue
        /\ queue' = [i \in DOMAIN queue \cup {id} |-> IF i = id THEN row ELSE queue[i]]
        /\ UNCHANGED <<mode, mission, completed, paid, desk, now>>
    BY DEF SubmitForReview
  <1>2. row \in Row
    BY QueueAssumption DEF Inv, Types, Row
  <1>3. /\ DOMAIN queue' = DOMAIN queue \cup {id} /\ queue'[id] = row
        /\ \A i \in DOMAIN queue : queue'[i] = queue[i]
    BY <1>1
  <1>4. queue' \in [DOMAIN queue' -> Row]
    BY <1>1, <1>2, <1>3 DEF Inv, Types
  <1>5. Types'
    BY <1>1, <1>3, <1>4 DEF Inv, Types
  <1>6. Waiting' /\ ToldIsCredited' /\ MirrorWaitsForNothing'
    BY <1>1, <1>3 DEF Inv, Waiting, ToldIsCredited, Answered, MirrorWaitsForNothing
  <1>7. ApprovedMeansPaid' /\ DecidedHasNoText'
    BY <1>1, <1>3 DEF Inv, ApprovedMeansPaid, DecidedHasNoText
  <1> QED BY <1>5, <1>6, <1>7 DEF Inv
-----------------------------------------------------------------------------
\* On the chain a desk takes up a call, beside a queue at most swept.
LEMMA AwaitKeepsInv ==
  ASSUME Inv, mode = "chain", NEW d \in Desks, NEW id \in DOMAIN queue \cup {NoReview},
         NEW l \in Learners, NEW m \in Missions,
         desk' = [desk EXCEPT ![d] = Awaiting(id, l, m)], queue' \in {queue, Swept},
         UNCHANGED <<mode, mission, completed, paid, now>>
  PROVE  Inv'
  <1>1. /\ QueueIsGood(queue')
        /\ \A i \in DOMAIN queue : queue'[i].status = "approved" => queue[i].status = "approved"
    BY SweepIsGood DEF Inv, QueueIsGood, Types, DecidedHasNoText
  <1>2. /\ Awaiting(id, l, m) \in Pending /\ Awaiting(id, l, m).pc = "awarding"
        /\ Awaiting(id, l, m).id = id /\ Awaiting(id, l, m).mission = m
        /\ Awaiting(id, l, m).amount = mission[m].reward
    BY RewardsAreNat DEF Inv, Types, Awaiting, Pending
  <1>3. Types'
    BY <1>1, <1>2 DEF Inv, Types, QueueIsGood
  <1>4. desk'[d] = Awaiting(id, l, m) /\ \A e \in Desks \ {d} : desk'[e] = desk[e]
    BY DEF Inv, Types
  <1>5. DOMAIN queue' = DOMAIN queue
    BY <1>1 DEF QueueIsGood
  <1>6. Waiting'
    BY <1>2, <1>4, <1>5 DEF Inv, Waiting
  <1>7. ToldIsCredited' /\ MirrorWaitsForNothing'
    BY <1>2, <1>4 DEF Inv, ToldIsCredited, Answered, MirrorWaitsForNothing
  <1>8. ApprovedMeansPaid' /\ DecidedHasNoText'
    BY <1>1 DEF Inv, ApprovedMeansPaid, DecidedHasNoText, QueueIsGood
  <1> QED BY <1>3, <1>6, <1>7, <1>8 DEF Inv

\* A desk that is busy is one of a service on the chain.
LEMMA BusyMeansChain ==
  ASSUME Inv, NEW d \in Desks, desk[d].pc # "idle"
  PROVE  mode = "chain" /\ desk[d] \in Pending
  BY DEF Inv, Types, MirrorWaitsForNothing, Idle

\* The transaction is mined.
LEMMA AwardKeepsInv ==
  ASSUME Inv, NEW d \in Desks, Award(d)
  PROVE  Inv'
  <1> DEFINE call == desk[d]
             reward == mission[call.mission].reward
             done == [call EXCEPT !.pc = "awarded", !.credited = reward]
  <1>1. /\ call.pc = "awarding" /\ paid' = Credit(call.id, call.mission)
        /\ desk' = [desk EXCEPT ![d].pc = "awarded", ![d].credited = reward]
        /\ UNCHANGED <<mode, queue, mission, now>>
    BY DEF Award
  <1>2. mode = "chain" /\ call \in Pending /\ reward \in Nat
    BY <1>1, BusyMeansChain, RewardsAreNat DEF Inv, Pending
  <1>3. /\ done \in Pending /\ done.pc = "awarded" /\ done.id = call.id
        /\ done.amount = call.amount /\ done.revised = call.revised /\ done.credited = reward
    BY <1>2 DEF Pending
  <1>4. /\ desk' = [desk EXCEPT ![d] = done] /\ desk'[d] = done
        /\ \A e \in Desks \ {d} : desk'[e] = desk[e]
    BY <1>1 DEF Inv, Types
  <1>5. /\ paid' \in [Reviews -> SUBSET Nat]
        /\ \A id \in Reviews : paid[id] \subseteq paid'[id]
        /\ call.id # NoReview => call.id \in Reviews /\ reward \in paid'[call.id]
    BY <1>1, <1>2 DEF Inv, Types, Credit, Pending
  <1>6. Types'
    BY <1>1, <1>3, <1>4, <1>5 DEF Inv, Types
  <1>7. Waiting'
    <2>1. call.id # NoReview => call.id \in DOMAIN queue
      BY <1>1 DEF Inv, Waiting
    <2>2. ASSUME NEW e \in Desks \ {d}, desk[e].pc = "awarded", desk[e].id # NoReview
          PROVE  paid'[desk[e].id] # {}
      BY <2>2, <1>5 DEF Inv, Waiting, Types
    <2> HIDE DEF done
    <2>3. ASSUME NEW e \in Desks, desk'[e].pc # "idle"
          PROVE  /\ desk'[e].id # NoReview => desk'[e].id \in DOMAIN queue
                 /\ desk'[e].pc = "awarded" /\ desk'[e].id # NoReview => paid'[desk'[e].id] # {}
                 /\ desk'[e].pc = "awarding" =>
                      desk'[e].revised \/ desk'[e].amount = mission[desk'[e].mission].reward
      <3>1. CASE e = d
        BY <3>1, <2>1, <1>3, <1>4, <1>5
      <3>2. CASE e # d
        BY <3>2, <2>2, <2>3, <1>4 DEF Inv, Waiting
      <3> QED BY <3>1, <3>2
    <2> QED BY <2>3, <1>1 DEF Waiting
  <1>8. ToldIsCredited'
    <2>1. call.revised \/ call.amount = reward
      BY <1>1 DEF Inv, Waiting
    <2> HIDE DEF done, reward
    <2> QED BY <2>1, <1>3, <1>4 DEF Inv, ToldIsCredited, Answered
  <1>9. MirrorWaitsForNothing'
    BY <1>1, <1>2 DEF MirrorWaitsForNothing
  <1>10. ApprovedMeansPaid' /\ DecidedHasNoText'
    BY <1>1, <1>5 DEF Inv, ApprovedMeansPaid, DecidedHasNoText, Types
  <1> QED BY <1>6, <1>7, <1>8, <1>9, <1>10 DEF Inv

\* A desk is done with: with a failure, or with an answer to a learner.
LEMMA DeskDoneKeepsInv ==
  ASSUME Inv, NEW d \in Desks, desk' = [desk EXCEPT ![d] = Idle],
         UNCHANGED <<mode, queue, mission, completed, paid, now>>
  PROVE  Inv'
  <1>1. desk'[d] = Idle /\ \A e \in Desks \ {d} : desk'[e] = desk[e]
    BY DEF Inv, Types
  <1>2. Types'
    BY DEF Inv, Types
  <1>3. Waiting' /\ ToldIsCredited' /\ MirrorWaitsForNothing'
    BY <1>1 DEF Inv, Waiting, ToldIsCredited, Answered, MirrorWaitsForNothing, Idle
  <1>4. ApprovedMeansPaid' /\ DecidedHasNoText'
    BY DEF Inv, ApprovedMeansPaid, DecidedHasNoText
  <1> QED BY <1>2, <1>3, <1>4 DEF Inv

\* The review is approved, whatever it is by now: it has been paid.
LEMMA FinalizeKeepsInv ==
  ASSUME Inv, NEW d \in Desks, NEW id \in Reviews, Finalize(d, id)
  PROVE  Inv'
  <1> DEFINE row == [FinalRow(queue[id], "approved") EXCEPT !.awarded = desk[d].amount]
  <1>1. /\ desk[d].pc = "awarded" /\ desk[d].id = id
        /\ queue' = [queue EXCEPT ![id] = row] /\ desk' = [desk EXCEPT ![d] = Idle]
        /\ UNCHANGED <<mode, mission, completed, paid, now>>
    BY DEF Finalize, Answered
  <1>2. /\ mode = "chain" /\ desk[d].amount \in Nat
        /\ id \in DOMAIN queue /\ paid[id] # {}
    BY <1>1, BusyMeansChain, ReviewsAssumption DEF Inv, Waiting, Pending
  <1>3. row \in Row /\ row.status = "approved" /\ ~row.text
    BY <1>2, FinalRowIsFinal DEF Inv, Types
  <1>4. /\ DOMAIN queue' = DOMAIN queue /\ queue'[id] = row
        /\ \A i \in DOMAIN queue \ {id} : queue'[i] = queue[i]
        /\ queue' \in [DOMAIN queue -> Row]
    BY <1>1, <1>2, <1>3 DEF Inv, Types
  <1>5. desk'[d] = Idle /\ \A e \in Desks \ {d} : desk'[e] = desk[e]
    BY <1>1 DEF Inv, Types
  <1>6. Types'
    BY <1>1, <1>4 DEF Inv, Types
  <1>7. Waiting' /\ ToldIsCredited'
    BY <1>1, <1>4, <1>5 DEF Inv, Waiting, ToldIsCredited, Answered, Idle
  <1>8. MirrorWaitsForNothing'
    BY <1>1, <1>2 DEF MirrorWaitsForNothing
  <1>9. ApprovedMeansPaid' /\ DecidedHasNoText'
    BY <1>1, <1>2, <1>3, <1>4 DEF Inv, ApprovedMeansPaid, DecidedHasNoText
  <1> QED BY <1>6, <1>7, <1>8, <1>9 DEF Inv

\* Over the mirror the award and the decision are one.
LEMMA ApproveAtOnceDecides ==
  ASSUME Inv, NEW id \in Reviews, ApproveAtOnce(id)
  PROVE  /\ Inv'
         /\ queue[id].status = "pending" /\ now < queue[id].deadline
         /\ queue'[id].status = "approved" /\ paid'[id] = {queue'[id].awarded}
         /\ \A i \in Reviews \ {id} : paid'[i] = paid[i]
         /\ \A i \in DOMAIN queue : queue[i].status # "pending" => queue'[i] = queue[i]
  <1> DEFINE m == queue[id].mission
             row == [FinalRow(Swept[id], "approved") EXCEPT !.awarded = mission[m].reward]
  <1>1. /\ mode = "memory" /\ id \in DOMAIN queue /\ Open(id) /\ paid' = Credit(id, m)
        /\ queue' = [Swept EXCEPT ![id] =
                       [FinalRow(@, "approved") EXCEPT !.awarded = TermsRead(m).reward]]
        /\ UNCHANGED <<mode, mission, desk, now>>
    BY DEF ApproveAtOnce
  <1>2. /\ QueueIsGood(Swept)
        /\ \A i \in DOMAIN queue :
             /\ Swept[i].status = "approved" => queue[i].status = "approved"
             /\ queue[i].status # "pending" => Swept[i] = queue[i]
        /\ queue[id].status = "pending" /\ now < queue[id].deadline
    BY <1>1, SweepIsGood DEF Inv
  <1>3. m \in Missions /\ mission[m].reward \in Nat /\ TermsRead(m) = mission[m]
    BY <1>1, RewardsAreNat DEF Inv, Types, Row
  <1>4. row \in Row /\ row.status = "approved" /\ ~row.text /\ row.awarded = mission[m].reward
    BY <1>1, <1>2, <1>3, FinalRowIsFinal DEF QueueIsGood
  <1>5. /\ DOMAIN queue' = DOMAIN queue /\ queue'[id] = row
        /\ \A i \in DOMAIN queue \ {id} : queue'[i] = Swept[i]
        /\ queue' \in [DOMAIN queue -> Row]
    <2>1. queue' = [Swept EXCEPT ![id] = row]
      BY <1>1, <1>3
    <2> HIDE DEF row
    <2> QED BY <2>1, <1>1, <1>2, <1>4 DEF QueueIsGood
  <1>6. paid[id] = {}
    BY <1>1, <1>2 DEF Inv, MirrorWaitsForNothing
  <1>7. /\ paid' \in [Reviews -> SUBSET Nat] /\ paid'[id] = {mission[m].reward}
        /\ \A i \in Reviews \ {id} : paid'[i] = paid[i]
    BY <1>1, <1>3, <1>6, ReviewsAssumption DEF Inv, Types, Credit
  <1>8. Types'
    BY <1>1, <1>5, <1>7 DEF Inv, Types
  <1>9. Waiting' /\ ToldIsCredited'
    BY <1>1 DEF Inv, MirrorWaitsForNothing, Waiting, ToldIsCredited, Answered, Idle
  <1>10. MirrorWaitsForNothing'
    BY <1>1, <1>2, <1>4, <1>5, <1>7 DEF Inv, MirrorWaitsForNothing, QueueIsGood
  <1>11. ApprovedMeansPaid'
    BY <1>2, <1>5, <1>7 DEF Inv, ApprovedMeansPaid, Types
  <1>12. DecidedHasNoText'
    BY <1>2, <1>4, <1>5 DEF DecidedHasNoText, QueueIsGood
  <1> QED BY <1>2, <1>4, <1>5, <1>7, <1>8, <1>9, <1>10, <1>11, <1>12 DEF Inv

\* Someone decides a review without paying.
LEMMA RejectIsGood ==
  ASSUME Inv, NEW id \in Reviews, Reject(id)
  PROVE  /\ Inv'
         /\ \A i \in DOMAIN queue : queue[i].status # "pending" => queue'[i] = queue[i]
  <1> DEFINE row == FinalRow(Swept[id], "rejected")
  <1>1. /\ id \in DOMAIN queue /\ Open(id) /\ queue' = [Swept EXCEPT ![id] = row]
        /\ UNCHANGED <<mode, mission, completed, paid, desk, now>>
    BY DEF Reject
  <1>2. /\ QueueIsGood(Swept)
        /\ \A i \in DOMAIN queue :
             /\ Swept[i].status = "approved" => queue[i].status = "approved"
             /\ queue[i].status # "pending" => Swept[i] = queue[i]
        /\ queue[id].status = "pending"
    BY <1>1, SweepIsGood DEF Inv
  <1>3. row \in Row /\ row.status = "rejected" /\ ~row.text
    BY <1>1, <1>2, FinalRowIsFinal DEF QueueIsGood
  <1>4. /\ DOMAIN queue' = DOMAIN queue /\ queue'[id] = row
        /\ \A i \in DOMAIN queue \ {id} : queue'[i] = Swept[i]
        /\ queue' \in [DOMAIN queue -> Row]
    <2> HIDE DEF row
    <2> QED BY <1>1, <1>2, <1>3 DEF QueueIsGood
  <1>5. QueueIsGood(queue')
    BY <1>2, <1>3, <1>4 DEF QueueIsGood
  <1>6. \A i \in DOMAIN queue : queue'[i].status = "approved" => queue[i].status = "approved"
    BY <1>2, <1>3, <1>4
  <1> QED BY <1>1, <1>2, <1>4, <1>5, <1>6, QueueStepKeepsInv

\* A mission is revised: whoever awaits an award for it no longer knows.
LEMMA ReviseKeepsInv ==
  ASSUME Inv, NEW m \in Missions, Revise(m)
  PROVE  Inv'
  <1> DEFINE told(d) == IF desk[d].pc = "awarding" /\ desk[d].mission = m
                        THEN [desk[d] EXCEPT !.revised = TRUE] ELSE desk[d]
  <1>1. PICK terms \in Terms : mission' = [mission EXCEPT ![m] = terms]
    BY DEF Revise
  <1>2. desk' = [d \in Desks |-> told(d)] /\ UNCHANGED <<mode, queue, completed, paid, now>>
    BY DEF Revise
  <1>3. ASSUME NEW d \in Desks
        PROVE  /\ desk'[d] = told(d) /\ told(d) \in Pending \cup {Idle}
               /\ told(d).pc = desk[d].pc
               /\ desk[d].pc # "awarding" => told(d) = desk[d]
               /\ told(d).pc # "idle" => told(d).id = desk[d].id
               /\ told(d).pc = "awarding" => /\ told(d).amount = desk[d].amount
                                             /\ told(d).mission = desk[d].mission
                                             /\ told(d).mission = m => told(d).revised
                                             /\ told(d).mission # m => told(d) = desk[d]
    <2>1. desk'[d] = told(d)
      BY <1>2
    <2>2. CASE desk[d] = Idle
      BY <2>1, <2>2 DEF Idle
    <2>3. CASE desk[d] \in Pending
      BY <2>1, <2>3 DEF Pending
    <2> QED BY <2>2, <2>3 DEF Inv, Types
  <1> HIDE DEF told
  <1>4. mission' \in [Missions -> Terms] /\ \A n \in Missions \ {m} : mission'[n] = mission[n]
    BY <1>1 DEF Inv, Types
  <1>5. Types'
    BY <1>2, <1>3, <1>4 DEF Inv, Types
  <1>6. Waiting'
    <2> SUFFICES ASSUME NEW d \in Desks, desk'[d].pc # "idle"
                 PROVE  /\ desk'[d].id # NoReview => desk'[d].id \in DOMAIN queue
                        /\ desk'[d].pc = "awarded" /\ desk'[d].id # NoReview
                              => paid[desk'[d].id] # {}
                        /\ desk'[d].pc = "awarding" =>
                             desk'[d].revised \/ desk'[d].amount = mission'[desk'[d].mission].reward
      BY <1>2 DEF Waiting
    <2>1. /\ desk'[d] = told(d) /\ told(d).pc = desk[d].pc /\ told(d).id = desk[d].id
      BY <1>3
    <2>2. told(d) \in Pending
      BY <1>3, <2>1 DEF Idle
    <2>3. CASE desk[d].pc = "awarding" /\ told(d).mission # m
      BY <2>1, <2>2, <2>3, <1>3, <1>4 DEF Inv, Waiting, Pending
    <2>4. CASE desk[d].pc = "awarding" /\ told(d).mission = m
      BY <2>1, <2>4, <1>3 DEF Inv, Waiting
    <2>5. CASE desk[d].pc # "awarding"
      BY <2>1, <2>5 DEF Inv, Waiting
    <2> QED BY <2>3, <2>4, <2>5
  <1>7. ToldIsCredited'
    BY <1>3 DEF Inv, ToldIsCredited, Answered
  <1>8. MirrorWaitsForNothing'
    BY <1>2, <1>3 DEF Inv, MirrorWaitsForNothing, Idle
  <1>9. ApprovedMeansPaid' /\ DecidedHasNoText'
    BY <1>2 DEF Inv, ApprovedMeansPaid, DecidedHasNoText
  <1> QED BY <1>5, <1>6, <1>7, <1>8, <1>9 DEF Inv
-----------------------------------------------------------------------------
\* Every kind of step keeps the invariant; over the mirror, only an approval
\* pays for a review, and nothing touches one that is decided.
DecidesOnce ==
  mode = "memory" =>
    /\ \A id \in DOMAIN queue : queue[id].status # "pending" => queue'[id] = queue[id]
    /\ \A id \in Reviews : paid'[id] # paid[id] =>
         /\ queue[id].status = "pending" /\ now < queue[id].deadline
         /\ queue'[id].status = "approved" /\ paid'[id] = {queue'[id].awarded}

\* Every step is one of these.
LEMMA StepIsGood == Inv /\ [Next]_vars => Inv' /\ DecidesOnce
  <1> SUFFICES ASSUME Inv, [Next]_vars PROVE Inv' /\ DecidesOnce
    OBVIOUS
  <1>1. ASSUME NEW id \in Reviews, NEW l \in Learners, NEW m \in Missions,
               NEW sub \in Submissions, SubmitForReview(id, l, m, sub)
        PROVE  Inv' /\ DecidesOnce
    BY <1>1, SubmitKeepsInv DEF SubmitForReview, DecidesOnce
  <1>2. CASE Read
    BY <1>2, SweepIsGood, QueueStepKeepsInv DEF Read, Inv, DecidesOnce
  <1>3. ASSUME NEW d \in Desks, NEW l \in Learners, NEW m \in Missions,
               NEW sub \in Submissions, SubmitPassed(d, l, m, sub)
        PROVE  Inv' /\ DecidesOnce
    BY <1>3, AwaitKeepsInv DEF SubmitPassed, DecidesOnce
  <1>4. ASSUME NEW d \in Desks, NEW id \in Reviews, Approve(d, id)
        PROVE  Inv' /\ DecidesOnce
    <2>1. queue[id].learner \in Learners /\ queue[id].mission \in Missions
      BY <1>4 DEF Approve, Inv, Types, Row
    <2> QED BY <1>4, <2>1, AwaitKeepsInv DEF Approve, DecidesOnce
  <1>5. ASSUME NEW d \in Desks, Award(d)
        PROVE  Inv' /\ DecidesOnce
    BY <1>5, AwardKeepsInv, BusyMeansChain DEF Award, DecidesOnce
  <1>6. ASSUME NEW d \in Desks, AwardFails(d) \/ TellLearner(d)
        PROVE  Inv' /\ DecidesOnce
    BY <1>6, DeskDoneKeepsInv DEF AwardFails, AwardThrows, TellLearner, DecidesOnce
  <1>7. ASSUME NEW d \in Desks, NEW id \in Reviews, Finalize(d, id)
        PROVE  Inv' /\ DecidesOnce
    BY <1>7, FinalizeKeepsInv, BusyMeansChain DEF Finalize, Answered, DecidesOnce
  <1>8. ASSUME NEW l \in Learners, NEW m \in Missions, NEW sub \in Submissions,
               PassedAtOnce(l, m, sub)
        PROVE  Inv' /\ DecidesOnce
    <2>1. UNCHANGED <<mode, queue, mission, paid, desk, now>>
      BY <1>8 DEF PassedAtOnce
    <2>2. Inv'
      BY <2>1 DEF Inv, Types, Waiting, MirrorWaitsForNothing, ApprovedMeansPaid,
         ToldIsCredited, Answered, DecidedHasNoText
    <2> QED BY <2>1, <2>2 DEF DecidesOnce
  <1>9. ASSUME NEW id \in Reviews, ApproveAtOnce(id)
        PROVE  Inv' /\ DecidesOnce
    BY <1>9, ApproveAtOnceDecides DEF DecidesOnce
  <1>10. ASSUME NEW id \in Reviews, Reject(id)
         PROVE  Inv' /\ DecidesOnce
    BY <1>10, RejectIsGood DEF Reject, DecidesOnce
  <1>11. ASSUME NEW m \in Missions, Revise(m)
         PROVE  Inv' /\ DecidesOnce
    BY <1>11, ReviseKeepsInv DEF Revise, DecidesOnce
  <1>12. CASE Tick
    <2>1. now' \in Nat /\ UNCHANGED <<mode, queue, mission, completed, paid, desk>>
      BY <1>12 DEF Tick, Inv, Types
    <2>2. Inv'
      BY <2>1 DEF Inv, Types, Waiting, MirrorWaitsForNothing, ApprovedMeansPaid,
         ToldIsCredited, Answered, DecidedHasNoText
    <2> QED BY <2>1, <2>2 DEF DecidesOnce
  <1>13. CASE UNCHANGED vars
    <2>1. UNCHANGED <<mode, queue, mission, completed, paid, desk, now>>
      BY <1>13 DEF vars
    <2>2. Inv'
      BY <2>1 DEF Inv, Types, Waiting, MirrorWaitsForNothing, ApprovedMeansPaid,
         ToldIsCredited, Answered, DecidedHasNoText
    <2> QED BY <2>1, <2>2 DEF DecidesOnce
  <1> QED
    BY <1>1, <1>2, <1>3, <1>4, <1>5, <1>6, <1>7, <1>8, <1>9, <1>10, <1>11, <1>12, <1>13
    DEF Next, Submit, Proceed

\* Every reachable state satisfies the invariant.
THEOREM Invariance == Spec => []Inv
  <1>1. Inv /\ [Next]_vars => Inv'
    BY StepIsGood
  <1> QED BY <1>1, InitInv, PTL DEF Spec

\* An approval that a learner is shown was paid by the ledger, over the chain
\* too, where approve writes after an await what it checked before.
THEOREM ApprovalsArePaid == Spec => []ApprovedMeansPaid
  BY Invariance, PTL DEF Inv

\* The amount an answer names is what was credited, but for a revision of the
\* mission during the call.
THEOREM ToldAmountIsCredited == Spec => []ToldIsCredited
  BY Invariance, PTL DEF Inv

\* However a row is decided, its words are gone with that.
THEOREM DecidedRowsHaveNoText == Spec => []DecidedHasNoText
  BY Invariance, PTL DEF Inv

\* Over the mirror a decision is final, and pays once and in time.
THEOREM MirrorDecidesOnce == Spec => DecidedOnceOverMirror
  <1>1. Inv /\ [Next]_vars =>
          [mode = "memory" =>
             /\ \A id \in DOMAIN queue : queue[id].status # "pending" => queue'[id] = queue[id]
             /\ \A id \in Reviews : paid'[id] # paid[id] =>
                  /\ queue[id].status = "pending" /\ now < queue[id].deadline
                  /\ queue'[id].status = "approved" /\ paid'[id] = {queue'[id].awarded}]_vars
    BY StepIsGood DEF DecidesOnce
  <1> QED BY <1>1, Invariance, PTL DEF Spec, DecidedOnceOverMirror

\* No step decides a review again but the last one of an approve (server.js
\* line 537), which was paid before: so the race of a rejection with an
\* approval that awaits the chain is the only way to lose a decision.
THEOREM OnlyAwardsOverride == Spec => OnlyAnAwardOverrides
  <1> DEFINE Stands == \A id \in DOMAIN queue : queue[id].status # "pending" => queue'[id] = queue[id]
             Told(id) == \E d \in Desks :
               /\ Answered(d) /\ desk[d].id = id /\ desk'[d] = Idle
               /\ queue'[id].status = "approved" /\ queue'[id].awarded = desk[d].amount
               /\ queue'[id].learner = queue[id].learner /\ paid[id] # {}
  <1>1. ASSUME Inv, queue' \in {queue, Swept} PROVE Stands
    BY <1>1, SweepIsGood DEF Inv
  <1>2. ASSUME NEW id \in Reviews, NEW l \in Learners, NEW m \in Missions, NEW sub \in Submissions,
               SubmitForReview(id, l, m, sub)
        PROVE  Stands
    BY <1>2 DEF SubmitForReview
  <1>3. ASSUME Inv, NEW d \in Desks, NEW id \in Reviews, Finalize(d, id)
        PROVE  \A i \in DOMAIN queue : queue'[i] = queue[i] \/ Told(i)
    <2> DEFINE row == [FinalRow(queue[id], "approved") EXCEPT !.awarded = desk[d].amount]
    <2>1. /\ desk[d].pc = "awarded" /\ desk[d].id = id
          /\ queue' = [queue EXCEPT ![id] = row] /\ desk' = [desk EXCEPT ![d] = Idle]
      BY <1>3 DEF Finalize, Answered
    <2>2. desk[d].amount \in Nat /\ id \in DOMAIN queue /\ paid[id] # {}
      BY <1>3, <2>1, BusyMeansChain, ReviewsAssumption DEF Inv, Waiting, Pending
    <2>3. queue[id] \in Row /\ DOMAIN desk = Desks
      BY <1>3, <2>2 DEF Inv, Types
    <2>4. row.status = "approved" /\ row.awarded = desk[d].amount
      BY <2>2, <2>3, FinalRowIsFinal
    <2>5. row.learner = queue[id].learner
      BY <2>3 DEF FinalRow, Row
    <2> HIDE DEF row
    <2>6. queue'[id] = row /\ \A i \in DOMAIN queue \ {id} : queue'[i] = queue[i]
      BY <2>1, <2>2
    <2>7. desk'[d] = Idle
      BY <2>1, <2>3
    <2>8. Told(id)
      BY <2>1, <2>2, <2>4, <2>5, <2>6, <2>7 DEF Answered
    <2> HIDE DEF Told
    <2> QED BY <2>6, <2>8
  <1>4. ASSUME Inv, [Next]_vars
        PROVE  \A i \in DOMAIN queue : queue[i].status # "pending" /\ queue'[i] # queue[i] => Told(i)
    <2>1. CASE queue' \in {queue, Swept}
      BY <1>1, <1>4, <2>1
    <2>2. CASE \E id \in Reviews : ApproveAtOnce(id) \/ Reject(id)
      BY <1>4, <2>2, ApproveAtOnceDecides, RejectIsGood
    <2> HIDE DEF Told
    <2>3. CASE \E d \in Desks, id \in Reviews : Finalize(d, id)
      BY <1>3, <1>4, <2>3
    <2>4. CASE \E l \in Learners, m \in Missions, sub \in Submissions, id \in Reviews :
                 SubmitForReview(id, l, m, sub)
      BY <1>2, <2>4
    <2>5. \/ queue' \in {queue, Swept}
          \/ \E id \in Reviews : ApproveAtOnce(id) \/ Reject(id)
          \/ \E d \in Desks, id \in Reviews : Finalize(d, id)
          \/ \E l \in Learners, m \in Missions, sub \in Submissions, id \in Reviews :
               SubmitForReview(id, l, m, sub)
      BY <1>4 DEF Next, Submit, Proceed, Read, SubmitPassed, PassedAtOnce, Approve, Award, AwardFails,
                  TellLearner, Revise, Tick, vars
    <2> QED BY <2>1, <2>2, <2>3, <2>4, <2>5
  <1>5. Inv /\ [Next]_vars =>
          [\A id \in DOMAIN queue : queue[id].status # "pending" /\ queue'[id] # queue[id] =>
             \E d \in Desks :
               /\ Answered(d) /\ desk[d].id = id /\ desk'[d] = Idle
               /\ queue'[id].status = "approved" /\ queue'[id].awarded = desk[d].amount
               /\ queue'[id].learner = queue[id].learner /\ paid[id] # {}]_vars
    BY <1>4
  <1> QED BY <1>5, Invariance, PTL DEF Spec, OnlyAnAwardOverrides
=============================================================================
