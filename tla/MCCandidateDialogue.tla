------------------------ MODULE MCCandidateDialogue ------------------------
(* Small instances of CandidateDialogue, by combinations of turns. *)
EXTENDS CandidateDialogue, TLC

CONSTANTS ana, likes, dislikes, unsaid, c1, c2, c3, t1, t2, job

People == {ana}
Tastes == {likes, dislikes, unsaid}
Opposites == (likes :> {dislikes} @@ dislikes :> {likes} @@ unsaid :> {})
Predicates == (likes :> "likes" @@ dislikes :> "dislikes" @@ unsaid :> "likes")
Rows == {c1, c2, c3}
Tasks == {t1, t2, job}
Turners == {t1, t2}

Says1(part) == [parts |-> <<part>>, filler |-> FALSE, stop |-> TRUE]
Of(claim, lead, object) == [claim |-> claim, lead |-> lead, object |-> object, contrast |-> "none"]

(* "I like tea", "she says: I like tea", "I do not like it, but ..." *)
Plainly   == <<Says1(Of(likes, "own", "thing"))>>
Attributed == <<[parts |-> <<Plain>>, filler |-> FALSE, stop |-> FALSE],
                Says1(Of(likes, "own", "thing"))>>
Twice     == <<Says1(Of(likes, "own", "thing")), Says1(Of(unsaid, "own", "thing"))>>
Denied    == <<[parts |-> <<Of(likes, "negator", "thing"), Of(dislikes, "own", "thing")>>,
                filler |-> FALSE, stop |-> TRUE]>>

Triple(claim, topic, shape, words) ==
    [claim |-> claim, topic |-> topic, shape |-> shape, words |-> words]
Good(claim) == Triple(claim, "taste", "phrase", "free")

Extractions == {<<Good(likes)>>, <<Good(dislikes), Good(unsaid), Good(likes)>>,
                <<Triple(likes, "other", "phrase", "free"),
                  Triple(likes, "taste", "phrase", "denied")>>}

Proposed1(k) == Proposed(ana, k, 1)
Offered1(k) == [Proposed1(k) EXCEPT !.status = "offered", !.offeredAt = 1, !.offers = 1]

\* A row of the table that is taken: its candidate lapsed.
Gone == Resolved(Proposed1(unsaid), "expired")

(* Empty tables, a claim that waits (one of two has been offered before),  *)
(* an open offer, and a claim about to lapse: one more and the cap of two  *)
(* is reached, with two rows free.                                         *)
None       == (c1 :> NoRow @@ c2 :> NoRow @@ c3 :> Gone)
TwoWaiting == (c1 :> [Proposed1(likes) EXCEPT !.offers = 1]
               @@ c2 :> Proposed1(dislikes) @@ c3 :> Gone)
Open       == (c1 :> Offered1(likes) @@ c2 :> NoRow @@ c3 :> Gone)
Lapsing    == (c1 :> Proposed(ana, dislikes, 0) @@ c2 :> NoRow @@ c3 :> NoRow)

Mix(n, kinds, rows, known, sentences, diary, revocable, faults) ==
    [turns |-> n, kinds |-> kinds, table |-> rows, facts |-> [p \in People |-> known],
     sentences |-> sentences, extractions |-> [t \in Turners |-> Extractions], diary |-> diary,
     revocable |-> revocable, faults |-> faults, edited |-> {},
     until |-> MaxTime]

Proposing == Mix(1, {"propose"}, None, {}, {Plainly, Attributed, Denied}, FALSE, {}, TRUE)
Metered   == [Mix(2, {"propose"}, None, {}, {Plainly}, TRUE, {}, FALSE)
              EXCEPT !.extractions = [t \in Turners |-> {<<>>}]]
Revoking  == Mix(1, {"propose"}, None, {}, {Plainly, Twice}, FALSE, Both, FALSE)
Crowded   == [Mix(2, {"propose"}, Lapsing, {}, {Twice}, FALSE, {}, FALSE)
              EXCEPT !.extractions = (t1 :> {<<Good(likes)>>}
                                       @@ t2 :> {<<Good(likes)>>, <<Good(unsaid)>>}),
                     !.until = 1]
Offering  == Mix(2, {"offer"}, TwoWaiting, {}, {}, FALSE, {}, TRUE)
Answering == Mix(3, {"answer", "offer"}, Open, {}, {}, FALSE, {}, FALSE)
Edits     == [Mix(2, {"answer"}, Open, {}, {}, FALSE, {}, FALSE)
              EXCEPT !.edited = {likes, dislikes}]
Opposed   == Mix(2, {"answer"}, Open, {dislikes}, {}, FALSE, {"voice"}, TRUE)

AllMixes == {Proposing, Metered, Revoking, Crowded, Offering, Answering, Edits, Opposed}
=============================================================================
