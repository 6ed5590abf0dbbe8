-------------------------- MODULE MCCandidateStore --------------------------
(* An instance of CandidateStore alone, for TLC. *)
EXTENDS CandidateStore

CONSTANTS ana, likes, dislikes, c1, c2, turn, job

OnePerson == {ana}

\* The same value under two predicates.
Opposites == {likes, dislikes}
OppositePolarity == [k \in Opposites |-> Opposites \ {k}]

TwoRows == {c1, c2}
Tasks == {turn, job}
=============================================================================
