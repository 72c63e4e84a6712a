----------------------------- MODULE Assessment -----------------------------
(***************************************************************************)
(* server/assessment.js: the fixed criteria of a mission and what becomes  *)
(* of a submission that is held against them.  Of a typed attempt there is *)
(* only what the criteria look for: a phrase of the mission, a '?'.  Of    *)
(* the answers there is which ones are right; one not given is not right.  *)
(***************************************************************************)
EXTENDS FiniteSets

\* The five criteria each mission of MISSIONS has, and their types.
Choices == {"q1", "q2", "q3"}
Criteria == Choices \cup {"phrase", "question"}

\* What a submission can be: any answers, and any attempts.
Submission == [answers : SUBSET Choices, attempts : SUBSET SUBSET {"phrase", "?"}]

\* grade's three ways to meet a criterion.
Met(sub, c) ==
  \/ c \in Choices /\ c \in sub.answers
  \/ c = "phrase" /\ \E a \in sub.attempts : "phrase" \in a
  \/ c = "question" /\ \E a \in sub.attempts : "?" \in a

Missed(sub) == {c \in Criteria : ~Met(sub, c)}

\* All met passes, one missed goes to a person, more is to be tried again.
Outcome(sub) ==
  CASE Missed(sub) = {} -> "passed"
    [] Cardinality(Missed(sub)) = 1 -> "review"
    [] OTHER -> "failed"
=============================================================================
