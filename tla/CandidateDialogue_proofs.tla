---------------------- MODULE CandidateDialogue_proofs ----------------------
(***************************************************************************)
(* Of voice turns over the candidate store, for any turns, people, tastes  *)
(* and rows, and whatever the extractor answers: the store keeps what it   *)
(* promises, a taste is stored only if it was said and while both consents *)
(* held, the model is called within its budget, nobody is asked twice, and *)
(* an answer says what was done.                                           *)
(*                                                                         *)
(* A turn keeps what it has read across awaits.  What the proofs rest on   *)
(* is what stays true of that (Sound), whatever others do meanwhile.       *)
(***************************************************************************)
EXTENDS CandidateDialogue, CandidateStore_proofs, WellFoundedInduction, SequenceTheorems

-----------------------------------------------------------------------------
(* What a turn may hold. *)

OnTriple == {"face1", "voice1", "precheck", "propose", "face2", "voice2", "insert"}
OnOffer  == {"prepared", "still", "read", "mark", "marked", "confirm", "resolve", "said"}
Places   == OnTriple \union OnOffer \union {"voice", "acquire", "extract", "triple"}

Shape(q) ==
    q = [kind |-> q.kind, at |-> q.at, p |-> q.p, c |-> q.c, now |-> q.now,
         strong |-> q.strong, accept |-> q.accept, matches |-> q.matches,
         triples |-> q.triples, rows |-> q.rows, held |-> q.held, stored |-> q.stored,
         won |-> q.won, said |-> q.said]

IsTurn(q) ==
    /\ Shape(q)
    /\ q.at \in Places
    /\ q.p \in Person
    /\ q.triples \in Seq(Triples)
    /\ q.at \in OnTriple => q.triples # <<>>
    /\ q.at \in OnOffer \/ q.kind = "offer" => q.c \in CandId
    /\ q.won \in BOOLEAN /\ q.accept \in BOOLEAN

(* The clock reading of a turn is of this or an earlier moment. *)
InTime(q, time) == q.now \in 1..time

(* What is stored, or about to be, was said. *)
OnlySaid(q) ==
    /\ q.at \in OnTriple => Head(q.triples).claim \in q.matches
    /\ \A s \in q.stored : s.claim \in q.matches

(* After the audit every consent that is active has been noted, and those  *)
(* that were read again are among them.                                    *)
OnlyHeld(q, active) ==
    /\ q.held \subseteq Both
    /\ q.at \in {"face2", "voice2", "insert"} => active \subseteq q.held
    /\ q.at \in {"voice2", "insert"} => "face" \in q.held
    /\ q.at = "insert" => "voice" \in q.held
    /\ \A s \in q.stored : s.held = Both

Sound(q, time, active) == IsTurn(q) /\ InTime(q, time) /\ OnlySaid(q) /\ OnlyHeld(q, active)

TurnsInv ==
    /\ TInv /\ clock # 0
    /\ mix \in Mixes
    /\ consents \subseteq Both
    /\ turn = [t \in Talkers \union {Diary} |-> turn[t]]
    /\ turn[Diary] \in {Idle, [at |-> "extract"]}
    /\ \A t \in Talkers : turn[t] # Idle => Sound(turn[t], clock, consents)

LEMMA Talking == Diary \notin Talkers /\ Talkers \subseteq Task \ {Retention}
  BY DialogueAssumption

-----------------------------------------------------------------------------
(* The gate and the classifier. *)

LEMMA NumbersAreWellFounded ==
    \E R : IsWellFoundedOn(R, Nat) /\ \A x, y \in Nat : y < x => <<y, x>> \in R
  <1>1. \A x, y \in Nat : y < x => <<y, x>> \in OpToRel(<, Nat)
    BY DEF OpToRel
  <1> QED
    BY NatLessThanWellFounded, <1>1

LEMMA LeastOf ==
    ASSUME NEW S, S \subseteq Nat, S # {}
    PROVE  \E x \in S : \A y \in S : x <= y
  <1>1. PICK R : IsWellFoundedOn(R, Nat) /\ \A x, y \in Nat : y < x => <<y, x>> \in R
    BY NumbersAreWellFounded
  <1>2. PICK x \in S : \A y \in S : ~(<<y, x>> \in R)
    BY <1>1, WFMin
  <1>3. ASSUME NEW y \in S PROVE x <= y
    <2>1. x \in Nat /\ y \in Nat
      OBVIOUS
    <2>2. ~(<<y, x>> \in R)
      BY <1>2
    <2>3. \A a, b \in Nat : b < a => <<b, a>> \in R
      BY <1>1
    <2>4. ~(y < x)
      BY <2>1, <2>2, <2>3
    <2> QED
      BY <2>1, <2>4
  <1> QED
    BY <1>3

LEMMA LastOfThree ==
  ASSUME NEW a, NEW b, NEW c, FirstRefusal(<<a, b, c>>) = "none"
  PROVE  c = "none"
  <1> DEFINE reasons == <<a, b, c>>
             refused == {i \in DOMAIN reasons : reasons[i] # "none"}
             first   == Min(refused)
  <1> SUFFICES ASSUME c # "none" PROVE FALSE
    OBVIOUS
  <1>1. DOMAIN reasons = 1..3 /\ reasons[1] = a /\ reasons[2] = b /\ reasons[3] = c
    OBVIOUS
  <1>2. 3 \in refused /\ refused \subseteq {1, 2, 3}
    BY <1>1
  <1>3. \E x \in refused : \A y \in refused : x <= y
    BY <1>2, LeastOf
  <1>4. first \in refused
    BY <1>3 DEF Min
  <1>5. FirstRefusal(reasons) = reasons[first]
    BY <1>2 DEF FirstRefusal
  <1> QED
    BY <1>4, <1>5

(* What the classifier lets through was said. *)
LEMMA Grounded ==
  ASSUME NEW triple, NEW matches, Classify(triple, matches) = "none"
  PROVE  triple.claim \in matches
  BY LastOfThree DEF Classify, Grounding

-----------------------------------------------------------------------------
(* How turns go on. *)

(* The turn t goes on by itself, and becomes q. *)
Becomes(t, q) ==
    /\ turn' = [turn EXCEPT ![t] = q]
    /\ UNCHANGED <<consents, mix, clock>>

LEMMA TurnGoesOn ==
    ASSUME TurnsInv, TInv', NEW t \in Talkers, NEW q, Becomes(t, q),
           q # Idle => Sound(q, clock, consents)
    PROVE  TurnsInv'
  <1>2. turn' = [u \in Talkers \union {Diary} |-> turn'[u]] /\ turn'[t] = q
        /\ \A u \in Talkers \union {Diary} : u # t => turn'[u] = turn[u]
    BY DEF TurnsInv, Becomes
  <1>3. turn'[Diary] = turn[Diary]
    BY <1>2, Talking
  <1>4. \A u \in Talkers : turn'[u] # Idle => Sound(turn'[u], clock', consents')
    BY <1>2 DEF TurnsInv, Becomes
  <1> QED
    BY <1>2, <1>3, <1>4 DEF TurnsInv, Becomes, Idle

(* A turn that is under way, and where it is. *)
LEMMA UnderWay ==
    ASSUME TurnsInv, NEW t \in Talkers, turn[t].at # "idle"
    PROVE  turn[t] # Idle /\ Sound(turn[t], clock, consents) /\ t \in Task /\ t # Retention
  BY Talking DEF TurnsInv, Idle

-----------------------------------------------------------------------------
(* Every step of the dialogue is a step of the store, or leaves it alone.  *)

LEMMA Claiming ==
    ASSUME NEW q, IsTurn(q), q.triples # <<>>
    PROVE  Head(q.triples) \in Triples /\ Head(q.triples).claim \in Claim
           /\ Tail(q.triples) \in Seq(Triples)
  <1>1. q.triples \in Seq(Triples)
    BY DEF IsTurn
  <1>2. Head(q.triples) \in Triples /\ Tail(q.triples) \in Seq(Triples)
    BY <1>1, HeadTailProperties
  <1> QED
    BY <1>2 DEF Triples

LEMMA Idling ==
    ASSUME TurnsInv, NEW t \in Talkers,
           \/ Proposal(t) /\ ~InsertCandidate(t)
           \/ Offer(t) /\ ~Mark(t)
           \/ Reply(t) /\ ~Resolve(t) /\ ~CheckpointFails(t)
    PROVE  UNCHANGED vars
  <1> USE DEF Starts, Moves, Acquires, Refused, Releases, Authorize, VoiceVerifies, Enrolled
  <1>1. CASE Proposal(t) /\ ~InsertCandidate(t)
    BY <1>1 DEF Proposal, Propose, ProposerVerified, Acquire, Extracted, ClassifyTriple,
                FirstCheck, Precheck, AuthorizeProposal, SecondCheck
  <1>2. CASE Offer(t) /\ ~Mark(t)
    BY <1>2 DEF Offer, PrepareOffer, OffererVerified, CommitOffer, StillOfferable,
                AuthorizeRead, AskQuestion
  <1>3. CASE Reply(t) /\ ~Resolve(t) /\ ~CheckpointFails(t)
    BY <1>3 DEF Reply, Answer, AuthorizeAnswer, Answered
  <1> QED
    BY <1>1, <1>2, <1>3

LEMMA Entering ==
    ASSUME TurnsInv, NEW t \in Talkers, InsertCandidate(t) \/ Mark(t) \/ Resolve(t)
    PROVE  \E now \in Now : Entry(t, now)
  <1>1. turn[t].at # "idle"
    BY DEF InsertCandidate, Mark, Resolve, At
  <1>2. IsTurn(turn[t]) /\ turn[t].now \in Now
    BY <1>1, UnderWay DEF Sound, InTime, Now
  <1>3. turn[t].p \in Person
    BY <1>2 DEF IsTurn
  <1>4. CASE InsertCandidate(t)
    <2>1. Claimed(t) \in Claim
      BY <1>2, <1>4, Claiming DEF InsertCandidate, At, Claimed, IsTurn, OnTriple
    <2> QED
      BY <1>2, <1>3, <1>4, <2>1 DEF InsertCandidate, Entry
  <1>5. CASE Mark(t) \/ Resolve(t)
    <2>1. turn[t].c \in CandId
      BY <1>2, <1>5 DEF Mark, Resolve, At, IsTurn, OnOffer
    <2> QED
      BY <1>2, <1>3, <1>5, <2>1 DEF Mark, Resolve, Entry
  <1> QED
    BY <1>4, <1>5

LEMMA StoreSteps ==
    ASSUME TurnsInv, [DialogueNext]_allVars
    PROVE  [Next]_vars
  <1>1. ASSUME NEW t \in Talkers, Proposal(t) \/ Offer(t) \/ Reply(t)
        PROVE  [Next]_vars
    <2>1. CASE InsertCandidate(t) \/ Mark(t) \/ Resolve(t)
      BY <2>1, Entering, Talking DEF Next
    <2>2. CASE CheckpointFails(t)
      BY <2>2, Talking DEF CheckpointFails, Next, Checkpoint
    <2> QED
      BY <1>1, <2>1, <2>2, Idling
  <1>2. ASSUME NEW t \in Talkers, Cancel(t) PROVE [Next]_vars
    BY <1>2, Talking DEF Cancel, Next, Checkpoint
  <1>3. ASSUME DiaryStarts \/ DiaryEnds \/ \E consent \in mix.revocable : Revoke(consent) \/ Give(consent)
        PROVE  UNCHANGED vars
    BY <1>3 DEF DiaryStarts, DiaryEnds, Acquires, Releases, Revoke, Give
  <1>4. ASSUME StopTurns PROVE Next
    BY <1>4 DEF StopTurns, Next
  <1>5. ASSUME StoreStep PROVE Next
    <2>1. ASSUME NEW t \in Task,
                 \/ StartCheckpoint(t) \/ SkipCheckpoint(t)
                 \/ \E truncated \in BOOLEAN : EndCheckpoint(t, truncated)
          PROVE  Next
      BY <2>1 DEF Next, Checkpoint
    <2> QED
      BY <1>5, <2>1 DEF StoreStep, Next
  <1> QED
    BY <1>1, <1>2, <1>3, <1>4, <1>5 DEF DialogueNext, allVars

LEMMA TypesStep ==
    ASSUME TurnsInv, [DialogueNext]_allVars
    PROVE  TInv'
  <1>1. ASSUME UNCHANGED vars PROVE TInv'
    BY <1>1 DEF TurnsInv, TInv, TypeOK, TableOK, vars
  <1> QED
    BY <1>1, StoreSteps, TInvStep DEF TurnsInv

-----------------------------------------------------------------------------
(* What a turn reads stays true, step by step.                             *)

(* What a turn r keeps of what it was, q: all but its place, its triples   *)
(* and its words.                                                          *)
Same(q, r) ==
    /\ Shape(r)
    /\ r.kind = q.kind /\ r.p = q.p /\ r.c = q.c /\ r.now = q.now
    /\ r.matches = q.matches /\ r.held = q.held /\ r.stored = q.stored
    /\ r.won = q.won /\ r.accept = q.accept /\ r.said = q.said

(* The one way to the slot, the one way to a question, and who speaks. *)
Lands(t, q) ==
    /\ q.at = "extract" => Acquire(t)
    /\ q.at = "marked" => Mark(t)
    /\ turn[t] # Idle /\ q.said # turn[t].said => Reply(t)

(* The turn t has ended, or goes on with what stays true. *)
Keeps(t) ==
    \E q : Becomes(t, q) /\ (q = Idle \/ (Sound(q, clock, consents) /\ Lands(t, q)))

LEMMA KeepsInv ==
    ASSUME TurnsInv, TInv', NEW t \in Talkers, Keeps(t)
    PROVE  TurnsInv'
  BY TurnGoesOn DEF Keeps

LEMMA Begins ==
    ASSUME TurnsInv, NEW t \in Talkers, At(t, {"idle"}), NEW p \in Person, NEW matches
    PROVE  /\ Sound([Turn("propose", "voice", p, NoCandidate, clock)
                     EXCEPT !.matches = matches], clock, consents)
           /\ Lands(t, [Turn("propose", "voice", p, NoCandidate, clock)
                        EXCEPT !.matches = matches])
           /\ \A c \in CandId :
                /\ Sound(Turn("offer", "voice", p, c, clock), clock, consents)
                /\ Lands(t, Turn("offer", "voice", p, c, clock))
                /\ \A accept \in BOOLEAN :
                     /\ Sound([Turn("answer", "confirm", p, c, clock) EXCEPT
                               !.strong = TRUE, !.accept = accept], clock, consents)
                     /\ Lands(t, [Turn("answer", "confirm", p, c, clock) EXCEPT
                                  !.strong = TRUE, !.accept = accept])
  <1>0. turn[t] = Idle
    BY DEF At, TurnsInv, Sound, IsTurn, Places, OnTriple, OnOffer
  <1>1. clock \in 1..clock
    BY DEF TurnsInv, TInv, TypeOK
  <1>2. <<>> \in Seq(Triples)
    OBVIOUS
  <1> USE DEF Turn
  <1>3. /\ Sound([Turn("propose", "voice", p, NoCandidate, clock)
                  EXCEPT !.matches = matches], clock, consents)
        /\ Lands(t, [Turn("propose", "voice", p, NoCandidate, clock)
                     EXCEPT !.matches = matches])
    <2>1. PICK r : r = [Turn("propose", "voice", p, NoCandidate, clock) EXCEPT !.matches = matches]
      OBVIOUS
    <2>2. /\ r.kind = "propose" /\ r.at = "voice" /\ r.p = p /\ r.now = clock
          /\ r.matches = matches /\ r.triples = <<>> /\ r.held = {} /\ r.stored = {}
          /\ r.won = FALSE /\ r.accept = FALSE
      BY <2>1
    <2>3. Shape(r)
      BY <2>1 DEF Shape
    <2>4. IsTurn(r) /\ InTime(r, clock) /\ OnlySaid(r) /\ OnlyHeld(r, consents)
      BY <1>1, <1>2, <2>2, <2>3 DEF IsTurn, InTime, OnlySaid, OnlyHeld, OnTriple, OnOffer, Places
    <2>5. Lands(t, r)
      BY <1>0, <2>2 DEF Lands
    <2> QED
      BY <2>1, <2>4, <2>5 DEF Sound
  <1>4. ASSUME NEW c \in CandId
        PROVE  /\ Sound(Turn("offer", "voice", p, c, clock), clock, consents)
               /\ Lands(t, Turn("offer", "voice", p, c, clock))
    <2>1. PICK r : r = Turn("offer", "voice", p, c, clock)
      OBVIOUS
    <2>2. /\ r.kind = "offer" /\ r.at = "voice" /\ r.p = p /\ r.c = c /\ r.now = clock
          /\ r.matches = {} /\ r.triples = <<>> /\ r.held = {} /\ r.stored = {}
          /\ r.won = FALSE /\ r.accept = FALSE
      BY <2>1
    <2>3. Shape(r)
      BY <2>1 DEF Shape
    <2>4. IsTurn(r) /\ InTime(r, clock) /\ OnlySaid(r) /\ OnlyHeld(r, consents)
      BY <1>1, <1>2, <2>2, <2>3 DEF IsTurn, InTime, OnlySaid, OnlyHeld, OnTriple, OnOffer, Places
    <2>5. Lands(t, r)
      BY <1>0, <2>2 DEF Lands
    <2> QED
      BY <2>1, <2>4, <2>5 DEF Sound
  <1>5. ASSUME NEW c \in CandId, NEW accept \in BOOLEAN
        PROVE  /\ Sound([Turn("answer", "confirm", p, c, clock) EXCEPT
                         !.strong = TRUE, !.accept = accept], clock, consents)
               /\ Lands(t, [Turn("answer", "confirm", p, c, clock) EXCEPT
                            !.strong = TRUE, !.accept = accept])
    <2>1. PICK r : r = [Turn("answer", "confirm", p, c, clock) EXCEPT
                        !.strong = TRUE, !.accept = accept]
      OBVIOUS
    <2>2. /\ r.kind = "answer" /\ r.at = "confirm" /\ r.p = p /\ r.c = c /\ r.now = clock
          /\ r.matches = {} /\ r.triples = <<>> /\ r.held = {} /\ r.stored = {}
          /\ r.won = FALSE /\ r.accept = accept
      BY <2>1
    <2>3. Shape(r)
      BY <2>1 DEF Shape
    <2>4. IsTurn(r) /\ InTime(r, clock) /\ OnlySaid(r) /\ OnlyHeld(r, consents)
      BY <1>1, <1>2, <2>2, <2>3 DEF IsTurn, InTime, OnlySaid, OnlyHeld, OnTriple, OnOffer, Places
    <2>5. Lands(t, r)
      BY <1>0, <2>2 DEF Lands
    <2> QED
      BY <2>1, <2>4, <2>5 DEF Sound
  <1> QED
    BY <1>3, <1>4, <1>5

LEMMA ProposalKeeps ==
    ASSUME TurnsInv, NEW t \in Talkers, Proposal(t)
    PROVE  Keeps(t)
  <1> DEFINE q == turn[t]
  <1>1. q.at # "idle" => Sound(q, clock, consents)
    BY UnderWay
  <1>2. UNCHANGED clock
    <2>1. CASE InsertCandidate(t)
      BY <2>1 DEF InsertCandidate, Insert, Commits
    <2>2. CASE ~InsertCandidate(t)
      BY <2>2, Idling DEF vars
    <2> QED
      BY <2>1, <2>2
  <1>3. ASSUME NEW r, turn' = [turn EXCEPT ![t] = r], UNCHANGED <<consents, mix>>,
               r = Idle \/ (Sound(r, clock, consents) /\ Lands(t, r))
        PROVE  Keeps(t)
    BY <1>2, <1>3 DEF Keeps, Becomes
  <1>4. CASE Propose(t)
    <2>1. PICK p \in Person, sentence \in mix.sentences :
            Starts(t, "propose", [Turn("propose", "voice", p, NoCandidate, clock)
                                  EXCEPT !.matches = MatchPreference(sentence, FALSE).matches])
      BY <1>4 DEF Propose
    <2> QED
      BY <1>3, <2>1, Begins DEF Starts, At
  <1>5. CASE ProposerVerified(t)
    <2>1. PICK r : /\ turn' = [turn EXCEPT ![t] = r] /\ UNCHANGED <<consents, mix>>
                   /\ r = Idle \/ r = [q EXCEPT !.at = "acquire", !.strong = TRUE]
      BY <1>5 DEF ProposerVerified, VoiceVerifies, Moves, Goes
    <2>2. ASSUME r # Idle PROVE Sound(r, clock, consents) /\ Lands(t, r)
      <3>1. q.at = "voice" /\ q.kind = "propose" /\ Sound(q, clock, consents)
        BY <1>1, <1>5 DEF ProposerVerified, At
      <3>2. Same(q, r) /\ r.at = "acquire" /\ r.triples = q.triples
        BY <2>1, <2>2, <3>1 DEF Sound, IsTurn, Shape, Same
      <3> QED
        BY <3>1, <3>2 DEF Sound, Same, IsTurn, InTime, OnlySaid, OnlyHeld,
                                OnTriple, OnOffer, Places, Lands
    <2> QED
      BY <1>3, <2>1, <2>2
  <1>6. CASE Acquire(t)
    <2>1. PICK r : /\ turn' = [turn EXCEPT ![t] = r] /\ UNCHANGED <<consents, mix>>
                   /\ r = Idle \/ r = [q EXCEPT !.at = "extract"]
      BY <1>6 DEF Acquire, Acquires, Refused, To
    <2>2. ASSUME r # Idle PROVE Sound(r, clock, consents) /\ Lands(t, r)
      <3>1. q.at = "acquire" /\ Sound(q, clock, consents)
        BY <1>1, <1>6 DEF Acquire, At
      <3>2. Same(q, r) /\ r.at = "extract" /\ r.triples = q.triples
        BY <2>1, <2>2, <3>1 DEF Sound, IsTurn, Shape, Same
      <3> QED
        BY <1>6, <3>1, <3>2 DEF Sound, Same, IsTurn, InTime, OnlySaid, OnlyHeld,
                                OnTriple, OnOffer, Places, Lands
    <2> QED
      BY <1>3, <2>1, <2>2
  <1>7. CASE Extracted(t)
    <2>1. PICK r : /\ turn' = [turn EXCEPT ![t] = r] /\ UNCHANGED <<consents, mix>>
                   /\ \/ r = Idle
                      \/ \E triples \in mix.extractions[t] :
                           r = [q EXCEPT !.at = "triple", !.triples = triples]
      BY <1>7 DEF Extracted, Releases
    <2>2. ASSUME r # Idle PROVE Sound(r, clock, consents) /\ Lands(t, r)
      <3>1. q.at = "extract" /\ Sound(q, clock, consents)
        BY <1>1, <1>7 DEF Extracted, At
      <3>2. PICK triples \in mix.extractions[t] : r = [q EXCEPT !.at = "triple", !.triples = triples]
        BY <2>1, <2>2
      <3>3. Same(q, r) /\ r.at = "triple" /\ r.triples = triples
        BY <3>1, <3>2 DEF Sound, IsTurn, Shape, Same
      <3>4. triples \in Seq(Triples)
        BY <3>2, MixesAssumption DEF TurnsInv
      <3> QED
        BY <3>1, <3>3, <3>4 DEF Sound, Same, IsTurn, InTime, OnlySaid, OnlyHeld,
                                OnTriple, OnOffer, Places, Lands
    <2> QED
      BY <1>3, <2>1, <2>2
  <1>8. CASE ClassifyTriple(t)
    <2>1. PICK r : /\ turn' = [turn EXCEPT ![t] = r] /\ UNCHANGED <<consents, mix>>
                   /\ \/ r = Idle
                      \/ q.triples # <<>> /\ r = [q EXCEPT !.triples = Tail(@)]
                      \/ /\ q.triples # <<>> /\ r = [q EXCEPT !.at = "face1"]
                         /\ Classify(Head(q.triples), q.matches) = "none"
      BY <1>8 DEF ClassifyTriple, Moves, Goes, To
    <2>2. q.at = "triple" /\ Sound(q, clock, consents)
      BY <1>1, <1>8 DEF ClassifyTriple, At
    <2>3. CASE q.triples # <<>> /\ r = [q EXCEPT !.triples = Tail(@)]
      <3>1. Same(q, r) /\ r.at = "triple" /\ r.triples = Tail(q.triples)
        BY <2>2, <2>3 DEF Sound, IsTurn, Shape, Same
      <3>2. r.triples \in Seq(Triples)
        BY <2>2, <2>3, <3>1, Claiming DEF Sound
      <3>3. Sound(r, clock, consents) /\ Lands(t, r)
        BY <2>2, <3>1, <3>2 DEF Sound, Same, IsTurn, InTime, OnlySaid, OnlyHeld,
                                OnTriple, OnOffer, Places, Lands
      <3> QED
        BY <1>3, <2>1, <3>3
    <2>4. CASE /\ q.triples # <<>> /\ r = [q EXCEPT !.at = "face1"]
               /\ Classify(Head(q.triples), q.matches) = "none"
      <3>1. Same(q, r) /\ r.at = "face1" /\ r.triples = q.triples
        BY <2>2, <2>4 DEF Sound, IsTurn, Shape, Same
      <3>2. Head(r.triples).claim \in r.matches
        BY <2>4, <3>1, Grounded DEF Same
      <3>3. Sound(r, clock, consents) /\ Lands(t, r)
        BY <2>2, <2>4, <3>1, <3>2 DEF Sound, Same, IsTurn, InTime, OnlySaid, OnlyHeld,
                                      OnTriple, OnOffer, Places, Lands
      <3> QED
        BY <1>3, <2>1, <3>3
    <2> QED
      BY <1>3, <2>1, <2>3, <2>4
  (* The next triple: what was heard and stored stays. *)
  <1>9. ASSUME q.at \in OnTriple, Sound(q, clock, consents)
        PROVE  Sound(NextTriple(t), clock, consents) /\ Lands(t, NextTriple(t))
    <2>1. PICK r : r = NextTriple(t)
      OBVIOUS
    <2>2. Same(q, r) /\ r.at = "triple" /\ r.triples = Tail(q.triples)
      BY <1>9, <2>1 DEF NextTriple, Sound, IsTurn, Shape, Same
    <2>3. r.triples \in Seq(Triples)
      BY <1>9, <2>2, Claiming DEF Sound, IsTurn
    <2> QED
      BY <1>9, <2>1, <2>2, <2>3 DEF Sound, Same, IsTurn, InTime, OnlySaid, OnlyHeld,
                                    OnTriple, OnOffer, Places, Lands
  (* The two checks before the audit. *)
  <1>10. CASE FirstCheck(t) \/ Precheck(t)
    <2>1. PICK r : /\ turn' = [turn EXCEPT ![t] = r] /\ UNCHANGED <<consents, mix>>
                   /\ \/ r = NextTriple(t)
                      \/ \E at \in {"voice1", "precheck", "propose"} : r = [q EXCEPT !.at = at]
      BY <1>10 DEF FirstCheck, Precheck, Enrolled, Moves, Goes, To
    <2>2. q.at \in {"face1", "voice1", "precheck"} /\ Sound(q, clock, consents)
      BY <1>1, <1>10 DEF FirstCheck, Precheck, Enrolled, At
    <2>3. ASSUME NEW at \in {"voice1", "precheck", "propose"}, r = [q EXCEPT !.at = at]
          PROVE  Sound(r, clock, consents) /\ Lands(t, r)
      <3>1. Same(q, r) /\ r.at = at /\ r.triples = q.triples
        BY <2>2, <2>3 DEF Sound, IsTurn, Shape, Same
      <3> QED
        BY <2>2, <3>1 DEF Sound, Same, IsTurn, InTime, OnlySaid, OnlyHeld,
                          OnTriple, OnOffer, Places, Lands
    <2> QED
      BY <1>3, <1>9, <2>1, <2>2, <2>3 DEF OnTriple
  (* The audit notes the consents that are active. *)
  <1>11. CASE AuthorizeProposal(t)
    <2>1. PICK r : /\ turn' = [turn EXCEPT ![t] = r] /\ UNCHANGED <<consents, mix>>
                   /\ \/ r = Idle
                      \/ r = [q EXCEPT !.at = "face2", !.rows = @ \union {"propose"},
                                       !.held = consents]
      BY <1>11 DEF AuthorizeProposal, Authorize, Moves, Goes
    <2>2. q.at = "propose" /\ Sound(q, clock, consents)
      BY <1>1, <1>11 DEF AuthorizeProposal, At
    <2>3. ASSUME r # Idle PROVE Sound(r, clock, consents) /\ Lands(t, r)
      <3>1. /\ Shape(r) /\ r.kind = q.kind /\ r.p = q.p /\ r.c = q.c /\ r.now = q.now
            /\ r.matches = q.matches /\ r.held = consents /\ r.stored = q.stored
            /\ r.won = q.won /\ r.accept = q.accept /\ r.said = q.said
            /\ r.at = "face2" /\ r.triples = q.triples
        BY <2>1, <2>2, <2>3 DEF Sound, IsTurn, Shape
      <3> QED
        BY <2>2, <3>1 DEF Sound, IsTurn, InTime, OnlySaid, OnlyHeld, OnTriple, OnOffer, Places, Lands,
                          TurnsInv
    <2> QED
      BY <1>3, <2>1, <2>3
  (* The checks after it: a consent that is read is active, so it was noted. *)
  <1>12. CASE SecondCheck(t)
    <2>1. PICK r : /\ turn' = [turn EXCEPT ![t] = r] /\ UNCHANGED <<consents, mix>>
                   /\ \/ r = NextTriple(t)
                      \/ /\ q.at = "face2" /\ "face" \in consents
                         /\ r = [q EXCEPT !.at = "voice2"]
                      \/ /\ q.at = "voice2" /\ "voice" \in consents
                         /\ r = [q EXCEPT !.at = "insert", !.now = clock]
      BY <1>12 DEF SecondCheck, Enrolled, Moves, Goes, To, At
    <2>2. q.at \in {"face2", "voice2"} /\ Sound(q, clock, consents)
      BY <1>1, <1>12 DEF SecondCheck, Enrolled, At
    <2>3. CASE q.at = "face2" /\ "face" \in consents /\ r = [q EXCEPT !.at = "voice2"]
      <3>1. Same(q, r) /\ r.at = "voice2" /\ r.triples = q.triples
        BY <2>2, <2>3 DEF Sound, IsTurn, Shape, Same
      <3>2. Sound(r, clock, consents) /\ Lands(t, r)
        BY <2>2, <2>3, <3>1 DEF Sound, Same, IsTurn, InTime, OnlySaid, OnlyHeld,
                                OnTriple, OnOffer, Places, Lands
      <3> QED
        BY <1>3, <2>1, <3>2
    <2>4. CASE /\ q.at = "voice2" /\ "voice" \in consents
               /\ r = [q EXCEPT !.at = "insert", !.now = clock]
      <3>1. /\ Shape(r) /\ r.kind = q.kind /\ r.p = q.p /\ r.c = q.c /\ r.now = clock
            /\ r.matches = q.matches /\ r.held = q.held /\ r.stored = q.stored
            /\ r.won = q.won /\ r.accept = q.accept /\ r.said = q.said
            /\ r.at = "insert" /\ r.triples = q.triples
        BY <2>2, <2>4 DEF Sound, IsTurn, Shape
      <3>2. r.now \in 1..clock
        BY <3>1 DEF TurnsInv, TInv, TypeOK
      <3>3. Sound(r, clock, consents) /\ Lands(t, r)
        BY <2>2, <2>4, <3>1, <3>2 DEF Sound, IsTurn, InTime, OnlySaid, OnlyHeld,
                                      OnTriple, OnOffer, Places, Lands
      <3> QED
        BY <1>3, <2>1, <3>3
    <2> QED
      BY <1>3, <1>9, <2>1, <2>2, <2>3, <2>4 DEF OnTriple
  (* What is stored was said, and stored while both consents held. *)
  <1>13. CASE InsertCandidate(t)
    <2>1. PICK r : /\ turn' = [turn EXCEPT ![t] = r] /\ UNCHANGED <<consents, mix>>
                   /\ \E stored : /\ stored \subseteq
                                       q.stored \union {[claim |-> Claimed(t), held |-> q.held]}
                                  /\ r = [NextTriple(t) EXCEPT !.stored = stored]
      <3>1. turn[t] = q
        OBVIOUS
      <3>2. NextTriple(t).stored = q.stored
        BY <1>1, <1>13 DEF InsertCandidate, At, NextTriple, Sound, IsTurn, Shape
      <3> QED
        BY <1>13, <3>2 DEF InsertCandidate, Goes
    <2>2. q.at = "insert" /\ Sound(q, clock, consents) /\ Sound(NextTriple(t), clock, consents)
      BY <1>1, <1>9, <1>13 DEF InsertCandidate, At, OnTriple
    <2>3. PICK stored : /\ stored \subseteq
                             q.stored \union {[claim |-> Claimed(t), held |-> q.held]}
                        /\ r = [NextTriple(t) EXCEPT !.stored = stored]
      BY <2>1
    <2>4. PICK n : n = NextTriple(t)
      OBVIOUS
    <2>5. /\ Shape(r) /\ r.kind = n.kind /\ r.p = n.p /\ r.c = n.c /\ r.now = n.now
          /\ r.matches = n.matches /\ r.held = n.held /\ r.stored = stored
          /\ r.won = n.won /\ r.accept = n.accept /\ r.said = n.said
          /\ r.at = n.at /\ r.triples = n.triples
      BY <2>2, <2>3, <2>4 DEF Sound, IsTurn, Shape
    <2>6. n.matches = q.matches /\ n.at = "triple" /\ n.said = q.said
      BY <2>2, <2>4 DEF NextTriple, Sound, IsTurn, Shape
    <2>7. Claimed(t) \in q.matches /\ q.held = Both
      BY <2>2 DEF Sound, OnlySaid, OnlyHeld, Claimed, OnTriple, Both
    <2>8. \A s \in stored : s.claim \in q.matches /\ s.held = Both
      BY <2>2, <2>3, <2>7 DEF Sound, OnlySaid, OnlyHeld
    <2>9. Sound(r, clock, consents)
      BY <2>2, <2>4, <2>5, <2>6, <2>8 DEF Sound, IsTurn, InTime, OnlySaid, OnlyHeld,
                                          OnTriple, OnOffer, Places
    <2>10. Lands(t, r)
      BY <2>5, <2>6 DEF Lands
    <2> QED
      BY <1>3, <2>1, <2>9, <2>10
  <1> QED
    BY <1>4, <1>5, <1>6, <1>7, <1>8, <1>10, <1>11, <1>12, <1>13 DEF Proposal

LEMMA OfferKeeps ==
    ASSUME TurnsInv, NEW t \in Talkers, Offer(t)
    PROVE  Keeps(t)
  <1> DEFINE q == turn[t]
  <1>1. q.at # "idle" => Sound(q, clock, consents)
    BY UnderWay
  <1>2. UNCHANGED clock
    <2>1. CASE Mark(t)
      BY <2>1 DEF Mark, MarkOffered, Commits
    <2>2. CASE ~Mark(t)
      BY <2>2, Idling DEF vars
    <2> QED
      BY <2>1, <2>2
  <1>3. ASSUME NEW r, turn' = [turn EXCEPT ![t] = r], UNCHANGED <<consents, mix>>,
               r = Idle \/ (Sound(r, clock, consents) /\ Lands(t, r))
        PROVE  Keeps(t)
    BY <1>2, <1>3 DEF Keeps, Becomes
  <1>4. CASE PrepareOffer(t)
    <2>1. PICK p \in Person, c \in CandId :
            Starts(t, "offer", Turn("offer", "voice", p, c, clock))
      BY <1>4 DEF PrepareOffer, NextOfferable
    <2> QED
      BY <1>3, <2>1, Begins DEF Starts, At
  <1>5. CASE OffererVerified(t)
    <2>1. PICK r : /\ turn' = [turn EXCEPT ![t] = r] /\ UNCHANGED <<consents, mix>>
                   /\ r = Idle \/ r = [q EXCEPT !.at = "prepared", !.strong = TRUE]
      BY <1>5 DEF OffererVerified, VoiceVerifies, Moves, Goes
    <2>2. ASSUME r # Idle PROVE Sound(r, clock, consents) /\ Lands(t, r)
      <3>1. q.at = "voice" /\ q.kind = "offer" /\ Sound(q, clock, consents)
        BY <1>1, <1>5 DEF OffererVerified, At
      <3>2. Same(q, r) /\ r.at = "prepared" /\ r.triples = q.triples
        BY <2>1, <2>2, <3>1 DEF Sound, IsTurn, Shape, Same
      <3> QED
        BY <3>1, <3>2 DEF Sound, Same, IsTurn, InTime, OnlySaid, OnlyHeld,
                          OnTriple, OnOffer, Places, Lands
    <2> QED
      BY <1>3, <2>1, <2>2
  <1>6. CASE CommitOffer(t)
    <2>1. PICK r : /\ turn' = [turn EXCEPT ![t] = r] /\ UNCHANGED <<consents, mix>>
                   /\ r = [q EXCEPT !.at = "still", !.now = clock]
      BY <1>6 DEF CommitOffer, Moves, Goes
    <2>2. q.at = "prepared" /\ Sound(q, clock, consents)
      BY <1>1, <1>6 DEF CommitOffer, At
    <2>3. /\ Shape(r) /\ r.kind = q.kind /\ r.p = q.p /\ r.c = q.c /\ r.now = clock
          /\ r.matches = q.matches /\ r.held = q.held /\ r.stored = q.stored
          /\ r.won = q.won /\ r.accept = q.accept /\ r.said = q.said
          /\ r.at = "still" /\ r.triples = q.triples
      BY <2>1, <2>2 DEF Sound, IsTurn, Shape
    <2>4. r.now \in 1..clock
      BY <2>3 DEF TurnsInv, TInv, TypeOK
    <2>5. Sound(r, clock, consents) /\ Lands(t, r)
      BY <2>2, <2>3, <2>4 DEF Sound, IsTurn, InTime, OnlySaid, OnlyHeld, OnTriple, OnOffer,
                              Places, Lands
    <2> QED
      BY <1>3, <2>1, <2>5
  <1>7. CASE StillOfferable(t)
    <2>1. PICK r : /\ turn' = [turn EXCEPT ![t] = r] /\ UNCHANGED <<consents, mix>>
                   /\ r = Idle \/ r = [q EXCEPT !.at = "read"]
      BY <1>7 DEF StillOfferable, Moves, Goes, To
    <2>2. q.at = "still" /\ Sound(q, clock, consents)
      BY <1>1, <1>7 DEF StillOfferable, At
    <2>3. ASSUME r # Idle PROVE Sound(r, clock, consents) /\ Lands(t, r)
      <3>1. Same(q, r) /\ r.at = "read" /\ r.triples = q.triples
        BY <2>1, <2>2, <2>3 DEF Sound, IsTurn, Shape, Same
      <3> QED
        BY <2>2, <3>1 DEF Sound, Same, IsTurn, InTime, OnlySaid, OnlyHeld,
                          OnTriple, OnOffer, Places, Lands
    <2> QED
      BY <1>3, <2>1, <2>3
  <1>8. CASE AuthorizeRead(t)
    <2>1. PICK r : /\ turn' = [turn EXCEPT ![t] = r] /\ UNCHANGED <<consents, mix>>
                   /\ \/ r = Idle
                      \/ r = [q EXCEPT !.at = "mark", !.rows = @ \union {"read"},
                                       !.held = consents]
      BY <1>8 DEF AuthorizeRead, Authorize, Moves, Goes
    <2>2. q.at = "read" /\ Sound(q, clock, consents)
      BY <1>1, <1>8 DEF AuthorizeRead, At
    <2>3. ASSUME r # Idle PROVE Sound(r, clock, consents) /\ Lands(t, r)
      <3>1. /\ Shape(r) /\ r.kind = q.kind /\ r.p = q.p /\ r.c = q.c /\ r.now = q.now
            /\ r.matches = q.matches /\ r.held = consents /\ r.stored = q.stored
            /\ r.won = q.won /\ r.accept = q.accept /\ r.said = q.said
            /\ r.at = "mark" /\ r.triples = q.triples
        BY <2>1, <2>2, <2>3 DEF Sound, IsTurn, Shape
      <3> QED
        BY <2>2, <3>1 DEF Sound, IsTurn, InTime, OnlySaid, OnlyHeld, OnTriple, OnOffer, Places, Lands,
                          TurnsInv
    <2> QED
      BY <1>3, <2>1, <2>3
  <1>9. CASE Mark(t)
    <2>1. PICK opened \in BOOLEAN :
               /\ turn' = [turn EXCEPT ![t].at = "marked", ![t].won = opened]
               /\ UNCHANGED <<consents, mix>>
      BY <1>9 DEF Mark
    <2>2. PICK r : r = [q EXCEPT !.at = "marked", !.won = opened]
      OBVIOUS
    <2>3. turn' = [turn EXCEPT ![t] = r]
      BY <2>1, <2>2 DEF TurnsInv
    <2>4. q.at = "mark" /\ Sound(q, clock, consents)
      BY <1>1, <1>9 DEF Mark, At
    <2>5. /\ Shape(r) /\ r.kind = q.kind /\ r.p = q.p /\ r.c = q.c /\ r.now = q.now
          /\ r.matches = q.matches /\ r.held = q.held /\ r.stored = q.stored
          /\ r.won = opened /\ r.accept = q.accept /\ r.said = q.said
          /\ r.at = "marked" /\ r.triples = q.triples
      BY <2>2, <2>4 DEF Sound, IsTurn, Shape
    <2>6. Sound(r, clock, consents) /\ Lands(t, r)
      BY <1>9, <2>4, <2>5 DEF Sound, IsTurn, InTime, OnlySaid, OnlyHeld, OnTriple, OnOffer,
                              Places, Lands
    <2> QED
      BY <1>3, <2>1, <2>3, <2>6
  <1>10. CASE AskQuestion(t)
    BY <1>3, <1>10 DEF AskQuestion
  <1> QED
    BY <1>4, <1>5, <1>6, <1>7, <1>8, <1>9, <1>10 DEF Offer

LEMMA ReplyKeeps ==
    ASSUME TurnsInv, NEW t \in Talkers, Reply(t)
    PROVE  Keeps(t)
  <1> DEFINE q == turn[t]
  <1>1. q.at # "idle" => Sound(q, clock, consents)
    BY UnderWay
  <1>2. UNCHANGED clock
    <2>1. CASE Resolve(t)
      BY <2>1 DEF Resolve, Promote, Reject, Commits
    <2>2. CASE CheckpointFails(t)
      BY <2>2 DEF CheckpointFails, CheckpointRaised
    <2>3. CASE ~Resolve(t) /\ ~CheckpointFails(t)
      BY <2>3, Idling DEF vars
    <2> QED
      BY <2>1, <2>2, <2>3
  <1>3. ASSUME NEW r, turn' = [turn EXCEPT ![t] = r], UNCHANGED <<consents, mix>>,
               r = Idle \/ (Sound(r, clock, consents) /\ Lands(t, r))
        PROVE  Keeps(t)
    BY <1>2, <1>3 DEF Keeps, Becomes
  <1>4. CASE Answer(t)
    <2>1. PICK p \in Person, c \in CandId, accept \in BOOLEAN :
            Starts(t, "answer", [Turn("answer", "confirm", p, c, clock) EXCEPT
                                        !.strong = TRUE, !.accept = accept])
      BY <1>4 DEF Answer, FindOffered, OpenOffers
    <2> QED
      BY <1>3, <2>1, Begins DEF Starts, At
  (* An answer says something. *)
  <1>5. ASSUME q.at \in {"confirm", "resolve", "said"}, NEW words,
               turn' = [turn EXCEPT ![t] = Says(t, words)], UNCHANGED <<consents, mix>>
        PROVE  Keeps(t)
    <2>1. PICK r : r = Says(t, words)
      OBVIOUS
    <2>2. Sound(q, clock, consents)
      BY <1>1, <1>5
    <2>3. /\ Shape(r) /\ r.kind = q.kind /\ r.p = q.p /\ r.c = q.c /\ r.now = q.now
          /\ r.matches = q.matches /\ r.held = q.held /\ r.stored = q.stored
          /\ r.won = q.won /\ r.accept = q.accept
          /\ r.at = "said" /\ r.triples = q.triples
      BY <2>1, <2>2 DEF Says, Sound, IsTurn, Shape, Same
    <2>4. Sound(r, clock, consents) /\ Lands(t, r)
      BY <1>5, <2>2, <2>3 DEF Sound, Same, IsTurn, InTime, OnlySaid, OnlyHeld,
                              OnTriple, OnOffer, Places, Lands
    <2> QED
      BY <1>3, <1>5, <2>1, <2>4
  <1>6. CASE AuthorizeAnswer(t)
    <2>1. CASE turn' = [turn EXCEPT ![t] = Says(t, "failed")] /\ UNCHANGED <<consents, mix>>
      BY <1>5, <1>6, <2>1 DEF AuthorizeAnswer, At
    <2>2. CASE Authorize(t, "confirm", "resolve")
      <3>1. PICK r : /\ turn' = [turn EXCEPT ![t] = r] /\ UNCHANGED <<consents, mix>>
                     /\ \/ r = Idle
                        \/ r = [q EXCEPT !.at = "resolve", !.rows = @ \union {"confirm"},
                                         !.held = consents]
        BY <2>2 DEF Authorize, Moves, Goes
      <3>2. q.at = "confirm" /\ Sound(q, clock, consents)
        BY <1>1, <1>6 DEF AuthorizeAnswer, At
      <3>3. ASSUME r # Idle PROVE Sound(r, clock, consents) /\ Lands(t, r)
        <4>1. /\ Shape(r) /\ r.kind = q.kind /\ r.p = q.p /\ r.c = q.c /\ r.now = q.now
              /\ r.matches = q.matches /\ r.held = consents /\ r.stored = q.stored
              /\ r.won = q.won /\ r.accept = q.accept /\ r.said = q.said
              /\ r.at = "resolve" /\ r.triples = q.triples
          BY <3>1, <3>2, <3>3 DEF Sound, IsTurn, Shape
        <4> QED
          BY <3>2, <4>1 DEF Sound, IsTurn, InTime, OnlySaid, OnlyHeld, OnTriple, OnOffer, Places, Lands,
                            TurnsInv
      <3> QED
        BY <1>3, <3>1, <3>3
    <2> QED
      BY <1>6, <2>1, <2>2 DEF AuthorizeAnswer, Moves, Goes
  <1>7. CASE Resolve(t)
    <2>1. PICK words : turn' = [turn EXCEPT ![t] = Says(t, words)] /\ UNCHANGED <<consents, mix>>
      BY <1>7 DEF Resolve, Goes
    <2> QED
      BY <1>5, <1>7, <2>1 DEF Resolve, At
  <1>8. CASE CheckpointFails(t)
    BY <1>5, <1>8 DEF CheckpointFails, Goes
  <1>9. CASE Answered(t)
    BY <1>3, <1>9 DEF Answered, Moves, Goes
  <1> QED
    BY <1>4, <1>6, <1>7, <1>8, <1>9 DEF Reply

(* Later, and with fewer consents, what a turn holds is still sound.       *)
LEMMA Later ==
    ASSUME TurnsInv, TInv', UNCHANGED <<turn, mix>>, clock' \in {clock, clock + 1},
           consents' \subseteq consents
    PROVE  TurnsInv'
  <1>1. clock \in Nat /\ clock' \in Nat /\ clock' # 0
    BY DEF TurnsInv, TInv, TypeOK
  <1>2. ASSUME NEW t \in Talkers, turn[t] # Idle
        PROVE  Sound(turn[t], clock', consents')
    <2>1. PICK q : q = turn[t]
      OBVIOUS
    <2>2. Sound(q, clock, consents)
      BY <1>2, <2>1 DEF TurnsInv
    <2>3. InTime(q, clock')
      BY <1>1, <2>2 DEF Sound, InTime
    <2>4. OnlyHeld(q, consents')
      BY <2>2 DEF Sound, OnlyHeld
    <2> QED
      BY <2>1, <2>2, <2>3, <2>4 DEF Sound
  <1> QED
    BY <1>1, <1>2 DEF TurnsInv

LEMMA GiveKeeps ==
    ASSUME TurnsInv, TInv', NEW consent \in {"face", "voice"}, Give(consent)
    PROVE  TurnsInv'
  <1> USE DEF Give
  <1>1. UNCHANGED <<clock, mix>> /\ consents' = consents \union {consent}
    BY DEF vars
  <1>2. /\ turn' = [u \in Talkers \union {Diary} |-> turn'[u]]
        /\ \A u \in Talkers \union {Diary} :
             turn'[u] = IF u \in Talkers /\ turn[u] # Idle
                        THEN [turn[u] EXCEPT !.held = @ \union {consent}] ELSE turn[u]
    BY DEF TurnsInv
  <1>3. turn'[Diary] = turn[Diary]
    BY <1>2, Talking
  <1>4. ASSUME NEW t \in Talkers, turn'[t] # Idle
        PROVE  Sound(turn'[t], clock', consents')
    <2>1. turn[t] # Idle
      BY <1>2, <1>4
    <2>2. PICK q : q = turn[t]
      OBVIOUS
    <2>3. PICK r : r = turn'[t]
      OBVIOUS
    <2>4. Sound(q, clock, consents) /\ r = [q EXCEPT !.held = @ \union {consent}]
      BY <1>2, <2>1, <2>2, <2>3 DEF TurnsInv
    <2>5. /\ Shape(r) /\ r.kind = q.kind /\ r.p = q.p /\ r.c = q.c /\ r.now = q.now
          /\ r.matches = q.matches /\ r.held = q.held \union {consent}
          /\ r.stored = q.stored /\ r.won = q.won /\ r.accept = q.accept
          /\ r.at = q.at /\ r.triples = q.triples
      BY <2>4 DEF Sound, IsTurn, Shape
    <2>6. IsTurn(r) /\ InTime(r, clock) /\ OnlySaid(r)
      BY <2>4, <2>5 DEF Sound, IsTurn, InTime, OnlySaid
    <2>7. OnlyHeld(r, consents')
      BY <1>1, <2>4, <2>5 DEF Sound, OnlyHeld, Both
    <2> QED
      BY <1>1, <2>3, <2>6, <2>7 DEF Sound
  <1>5. consents' \subseteq Both
    BY <1>1 DEF TurnsInv, Both
  <1> QED
    BY <1>1, <1>2, <1>3, <1>4, <1>5 DEF TurnsInv

LEMMA TurnsStep ==
    ASSUME TurnsInv, [DialogueNext]_allVars
    PROVE  TurnsInv'
  <1>1. TInv'
    BY TypesStep
  <1>2. clock' = clock => clock' # 0
    BY DEF TurnsInv
  <1>3. ASSUME NEW t \in Talkers, Proposal(t) \/ Offer(t) \/ Reply(t)
        PROVE  TurnsInv'
    BY <1>1, <1>3, ProposalKeeps, OfferKeeps, ReplyKeeps, KeepsInv
  <1>4. ASSUME NEW t \in Talkers, Cancel(t) PROVE TurnsInv'
    <2>1. Becomes(t, Idle)
      BY <1>4 DEF Cancel, Becomes, CheckpointRaised, vars
    <2> QED
      BY <1>1, <2>1, KeepsInv DEF Keeps
  <1>5. ASSUME DiaryStarts \/ DiaryEnds PROVE TurnsInv'
    <2>1. PICK r \in {Idle, [at |-> "extract"]} :
            /\ turn' = [turn EXCEPT ![Diary] = r] /\ UNCHANGED <<consents, mix, clock>>
      BY <1>5 DEF DiaryStarts, DiaryEnds, Acquires, Releases, vars
    <2>2. /\ turn' = [u \in Talkers \union {Diary} |-> turn'[u]] /\ turn'[Diary] = r
          /\ \A u \in Talkers : turn'[u] = turn[u]
      BY <2>1, Talking DEF TurnsInv
    <2> QED
      BY <1>1, <2>1, <2>2 DEF TurnsInv, Idle
  <1>6. ASSUME NEW consent \in mix.revocable, Revoke(consent) PROVE TurnsInv'
    BY <1>1, <1>6, Later DEF Revoke, vars
  <1>7. ASSUME NEW consent \in mix.revocable, Give(consent) PROVE TurnsInv'
    <2>1. consent \in {"face", "voice"}
      BY MixesAssumption DEF TurnsInv
    <2> QED
      BY <1>1, <1>7, <2>1, GiveKeeps
  <1>8. ASSUME StopTurns PROVE TurnsInv'
    <2>1. UNCHANGED <<clock, mix, consents>>
      BY <1>8 DEF StopTurns, Stop
    <2>2. /\ turn' = [u \in Talkers \union {Diary} |-> turn'[u]]
          /\ \A u \in Talkers \union {Diary} : turn'[u] = Idle
      BY <1>8 DEF StopTurns, TurnsInv
    <2> QED
      BY <1>1, <2>1, <2>2 DEF TurnsInv
  <1>9. ASSUME StoreStep PROVE TurnsInv'
    <2>1. clock' \in {clock, clock + 1}
      BY <1>9 DEF StoreStep, StartCheckpoint, SkipCheckpoint, EndCheckpoint, RetentionRun, Commits,
                  Tick, Reconcile, Serve, EditFact
    <2> QED
      BY <1>1, <1>9, <2>1, Later DEF StoreStep, dialogueVars
  <1>10. ASSUME UNCHANGED allVars PROVE TurnsInv'
    BY <1>1, <1>10, Later DEF allVars, vars, dialogueVars
  <1> QED
    BY <1>3, <1>4, <1>5, <1>6, <1>7, <1>8, <1>9, <1>10 DEF DialogueNext

LEMMA MixRows ==
    ASSUME DialogueInit
    PROVE  TInv /\ OneOpenOffer /\ LiveInv(table) /\ StartsClean /\ ScrubIsOwed
  <1>1. PICK m \in Mixes : mix = m /\ table = m.table /\ facts = m.facts
    BY DEF DialogueInit
  <1>2. /\ m.facts \in [Person -> SUBSET Claim]
        /\ m.table \in [CandId -> Row]
        /\ \A c \in CandId : /\ Live(m.table[c]) <=> m.table[c].claim # Erased
                             /\ m.table[c].offers <= MaxOffers
        /\ \A p \in Person : /\ IsFiniteSet(LiveOf(m.table, p))
                             /\ Cardinality(LiveOf(m.table, p)) <= MaxLive
        /\ \A c, d \in CandId :
             /\ Live(m.table[c]) /\ Live(m.table[d]) /\ m.table[c].subject = m.table[d].subject
             /\ \/ m.table[c].claim = m.table[d].claim
                \/ m.table[c].status = "offered" /\ m.table[d].status = "offered"
             => c = d
    BY MixesAssumption
  <1>3. TInv
    BY <1>1, <1>2 DEF DialogueInit, TInv, TypeOK, TableOK, RowOK
  <1>4. OneOpenOffer
    BY <1>1, <1>2 DEF OneOpenOffer, Live, LiveStatus
  <1>5. LiveInv(table)
    BY <1>1, <1>2 DEF LiveInv, LiveOf
  <1> QED
    BY <1>3, <1>4, <1>5 DEF DialogueInit, StartsClean, ScrubIsOwed

LEMMA TurnsInvariant == DialogueSpec => []TurnsInv
  <1>1. DialogueInit => TurnsInv
    <2> SUFFICES ASSUME DialogueInit PROVE TurnsInv
      OBVIOUS
    <2>1. /\ turn = [t \in Talkers \union {Diary} |-> turn[t]]
          /\ \A t \in Talkers \union {Diary} : turn[t] = Idle
      BY DEF DialogueInit
    <2>2. turn[Diary] = Idle /\ \A t \in Talkers : turn[t] = Idle
      BY <2>1
    <2>3. TInv
      BY MixRows
    <2>4. clock # 0 /\ mix \in Mixes /\ consents \subseteq Both
      BY DEF DialogueInit
    <2> QED
      BY <2>1, <2>2, <2>3, <2>4 DEF TurnsInv
  <1>2. TurnsInv /\ [DialogueNext]_allVars => TurnsInv'
    BY TurnsStep
  <1> QED
    BY <1>1, <1>2, PTL DEF DialogueSpec

-----------------------------------------------------------------------------
(* What the store promises, under the turns that use it.                   *)

(* However the turns interleave, are cancelled and stop, they only do what *)
(* the store lets its callers do (candidates.py): a resolution stays, and  *)
(* a taste becomes confirmed only with its fact, from an open offer.       *)
THEOREM TurnsUseTheStore ==
    DialogueSpec => [][Next]_vars /\ ResolutionIsFinal /\ ConfirmedIsFact
  <1> DEFINE Final == \A c \in CandId :
                        table[c].status \in FinalStatus => table'[c] = table[c]
             Confirmed == \A c \in CandId :
                            table[c].status # "confirmed" /\ table'[c].status = "confirmed" =>
                              LET p == table[c].subject
                              IN  /\ table[c].status = "offered"
                                  /\ table[c].claim \in facts'[p]
                                  /\ facts[p] \cap Opposite[table[c].claim] = {}
  <1>1. TurnsInv /\ [DialogueNext]_allVars => [Next]_vars /\ Final /\ Confirmed
    <2> SUFFICES ASSUME TurnsInv, [DialogueNext]_allVars
                 PROVE  [Next]_vars /\ Final /\ Confirmed
      OBVIOUS
    <2>1. TInv /\ [Next]_vars
      BY StoreSteps DEF TurnsInv
    <2>2. Final
      BY <2>1, FinalStep
    <2>3. ASSUME UNCHANGED vars PROVE Confirmed
      BY <2>3 DEF vars
    <2>4. ASSUME Next PROVE Confirmed
      BY <2>1, <2>4, ConfirmedStep DEF Confirms
    <2> QED
      BY <2>1, <2>2, <2>3, <2>4
  <1>2. TurnsInv /\ [DialogueNext]_allVars => [Next]_vars
    BY <1>1
  <1>3. TurnsInv /\ [DialogueNext]_allVars => [Final]_vars
    BY <1>1
  <1>4. TurnsInv /\ [DialogueNext]_allVars => [Confirmed]_vars
    BY <1>1
  <1>5. []TurnsInv /\ [][DialogueNext]_allVars => [][Next]_vars
    BY <1>2, PTL
  <1>6. []TurnsInv /\ [][DialogueNext]_allVars => [][Final]_vars
    BY <1>3, PTL
  <1>7. []TurnsInv /\ [][DialogueNext]_allVars => [][Confirmed]_vars
    BY <1>4, PTL
  <1> QED
    BY <1>5, <1>6, <1>7, TurnsInvariant, PTL
       DEF DialogueSpec, ResolutionIsFinal, ConfirmedIsFact

(* The store's invariants hold of any rows that satisfy them at first: one *)
(* open offer of a person, distinct live claims within the caps, and no    *)
(* open offer or value left by an earlier process (candidates.py:426-721). *)
THEOREM TurnsKeepTheRows ==
    DialogueSpec => [](OneOpenOffer /\ LiveRows /\ StartsClean)
  <1> DEFINE RowsInv == OneOpenOffer /\ LiveInv(table) /\ StartsClean
  <1>1. DialogueInit => RowsInv
    BY MixRows
  <1>2. TurnsInv /\ RowsInv /\ [DialogueNext]_allVars => RowsInv'
    <2> SUFFICES ASSUME TurnsInv, RowsInv, [DialogueNext]_allVars
                 PROVE  RowsInv'
      OBVIOUS
    <2>1. TInv /\ [Next]_vars
      BY StoreSteps DEF TurnsInv
    <2>2. StartsClean'
      BY <2>1, StartsStep
    <2>3. ASSUME UNCHANGED vars PROVE OneOpenOffer' /\ LiveInv(table')
      BY <2>3 DEF vars, OneOpenOffer
    <2>4. ASSUME Next PROVE OneOpenOffer' /\ LiveInv(table')
      BY <2>1, <2>4, OneOpenOfferStep, LiveInvStep
    <2> QED
      BY <2>1, <2>2, <2>3, <2>4
  <1>3. TurnsInv /\ RowsInv => OneOpenOffer /\ LiveRows /\ StartsClean
    BY DEF TurnsInv, TInv, TableOK, RowOK, LiveInv, LiveRows
  <1> QED
    BY <1>1, <1>2, <1>3, TurnsInvariant, PTL DEF DialogueSpec

(* No erased value stays in the write-ahead log unnoticed, although turns  *)
(* are cancelled in the middle of a checkpoint (candidates.py:224-244).    *)
THEOREM TurnsOweTheirScrubs ==
    ASSUME ~CommitCancel
    PROVE  DialogueSpec => []ScrubIsOwed
  <1>1. DialogueInit => ScrubIsOwed
    BY MixRows
  <1>2. TurnsInv /\ ScrubIsOwed /\ [DialogueNext]_allVars => ScrubIsOwed'
    <2> SUFFICES ASSUME TurnsInv, ScrubIsOwed, [DialogueNext]_allVars
                 PROVE  ScrubIsOwed'
      OBVIOUS
    <2>1. TInv /\ [Next]_vars
      BY StoreSteps DEF TurnsInv
    <2>2. ASSUME UNCHANGED vars PROVE ScrubIsOwed'
      BY <2>2 DEF vars, ScrubIsOwed
    <2> QED
      BY <2>1, <2>2, ScrubStep
  <1> QED
    BY <1>1, <1>2, TurnsInvariant, PTL DEF DialogueSpec

(* Nor does a turn put off that a value lapses: its deadline stays, whatever *)
(* is offered, answered late or cancelled (candidates.py run_housekeeping).  *)
THEOREM TurnsPutNothingOff == DialogueSpec => ValuesLapse
  <1>1. TurnsInv /\ [Next]_vars => [\A c \in CandId : Lapses(c)]_vars
    BY LapsesStep DEF TurnsInv
  <1>2. []TurnsInv /\ [][Next]_vars => [][\A c \in CandId : Lapses(c)]_vars
    BY <1>1, PTL
  <1>3. ValuesLapse <=> [][\A c \in CandId : Lapses(c)]_vars
    BY DEF ValuesLapse, Lapses
  <1>4. DialogueSpec => [][Next]_vars
    BY TurnsUseTheStore
  <1> QED
    BY <1>2, <1>3, <1>4, TurnsInvariant, PTL

-----------------------------------------------------------------------------
(* What turns store. *)

(* Whatever the extractor returns, in any number of triples, a turn stores *)
(* only what the gate heard the owner say (candidate_classifier.py:138-175).*)
THEOREM StoresWhatWasSaid == DialogueSpec => []StoredWasSaid
  <1>1. TurnsInv => StoredWasSaid
    BY DEF TurnsInv, Sound, OnlySaid, StoredWasSaid
  <1> QED
    BY <1>1, TurnsInvariant, PTL

(* Each taste is stored only if both consents were active at some moment   *)
(* since its own audit row, for any order of revocations and renewals      *)
(* (candidate_proposal.py:325-390).                                        *)
THEOREM StoresWhileEnrolled == DialogueSpec => []StoredWhileEnrolled
  <1>1. TurnsInv => StoredWhileEnrolled
    BY DEF TurnsInv, Sound, OnlyHeld, StoredWhileEnrolled
  <1> QED
    BY <1>1, TurnsInvariant, PTL

-----------------------------------------------------------------------------
(* Questions.                                                              *)

(* The turns that opened c and have not asked about it: there are at most  *)
(* as many as openings nobody has asked about.                             *)
Asking(c) == {t \in Talkers : turn[t].at = "marked" /\ turn[t].won /\ turn[t].c = c}

QuestionsInv ==
    /\ unasked = [c \in CandId |-> unasked[c]]
    /\ \A c \in CandId : unasked[c] \in Int /\ Cardinality(Asking(c)) <= unasked[c]

LEMMA AskingFinite ==
    ASSUME NEW c
    PROVE  IsFiniteSet(Asking(c)) /\ Cardinality(Asking(c)) \in Nat
  <1>1. Asking(c) \subseteq Talkers
    BY DEF Asking
  <1> QED
    BY <1>1, DialogueAssumption, FS_Subset, FS_CardinalityType

LEMMA FewerAsk ==
    ASSUME QuestionsInv, unasked' = unasked, \A c \in CandId : Asking(c)' \subseteq Asking(c)
    PROVE  QuestionsInv'
  <1> SUFFICES ASSUME NEW c \in CandId PROVE Cardinality(Asking(c)') <= unasked'[c]
    BY DEF QuestionsInv
  <1>1. /\ Cardinality(Asking(c)') <= Cardinality(Asking(c))
        /\ Cardinality(Asking(c)') \in Nat
    BY AskingFinite, FS_Subset, FS_CardinalityType
  <1> QED
    BY <1>1, AskingFinite DEF QuestionsInv

(* Between the mark and the question, a turn only stops. *)
LEMMA NobodyMarks ==
    ASSUME TurnsInv, [DialogueNext]_allVars,
           \A t \in Talkers : ~Mark(t) /\ ~AskQuestion(t)
    PROVE  unasked' = unasked /\ \A c \in CandId : Asking(c)' \subseteq Asking(c)
  <1> DEFINE Stays(u) == turn'[u].at = "marked" =>
                           turn[u].at = "marked" /\ turn'[u].won = turn[u].won /\ turn'[u].c = turn[u].c
  <1>1. unasked' = unasked
    <2> USE DEF Starts, Moves, Goes, Acquires, Refused, Releases, Authorize, VoiceVerifies, Enrolled
    <2>1. ASSUME NEW t \in Talkers, Proposal(t) PROVE unasked' = unasked
      BY <2>1 DEF Proposal, Propose, ProposerVerified, Acquire, Extracted, ClassifyTriple,
                  FirstCheck, Precheck, AuthorizeProposal, SecondCheck, InsertCandidate
    <2>2. ASSUME NEW t \in Talkers, Offer(t) PROVE unasked' = unasked
      BY <2>2 DEF Offer, PrepareOffer, OffererVerified, CommitOffer, StillOfferable,
                  AuthorizeRead
    <2>3. ASSUME NEW t \in Talkers, Reply(t) PROVE unasked' = unasked
      BY <2>3 DEF Reply, Answer, AuthorizeAnswer, Answered, Resolve, CheckpointFails
    <2> QED
      BY <2>1, <2>2, <2>3 DEF DialogueNext, Cancel, DiaryStarts, DiaryEnds, Revoke, Give,
                              StopTurns, StoreStep, dialogueVars, allVars
  <1>2. ASSUME NEW t \in Talkers, NEW r, turn' = [turn EXCEPT ![t] = r], r.at # "marked"
        PROVE  \A u \in Talkers : Stays(u)
    BY <1>2 DEF TurnsInv
  <1>3. ASSUME NEW t \in Talkers, Proposal(t) \/ Offer(t) \/ Reply(t)
        PROVE  \A u \in Talkers : Stays(u)
    <2>1. Keeps(t)
      BY <1>3, ProposalKeeps, OfferKeeps, ReplyKeeps
    <2>2. PICK r : turn' = [turn EXCEPT ![t] = r] /\ (r = Idle \/ Lands(t, r))
      BY <2>1 DEF Keeps, Becomes
    <2>3. r.at # "marked"
      BY <2>2 DEF Lands, Idle
    <2> QED
      BY <1>2, <2>2, <2>3
  <1>4. ASSUME NEW t \in Talkers, Cancel(t) PROVE \A u \in Talkers : Stays(u)
    BY <1>2, <1>4 DEF Cancel, Idle
  <1>5. ASSUME NEW r, turn' = [turn EXCEPT ![Diary] = r] PROVE \A u \in Talkers : Stays(u)
    BY <1>5, Talking DEF TurnsInv
  <1>6. ASSUME DiaryStarts \/ DiaryEnds PROVE \A u \in Talkers : Stays(u)
    BY <1>5, <1>6 DEF DiaryStarts, DiaryEnds, Acquires, Releases
  <1>7. ASSUME NEW consent, Give(consent), NEW u \in Talkers PROVE Stays(u)
    <2>1. turn'[u] = IF turn[u] # Idle THEN [turn[u] EXCEPT !.held = @ \union {consent}]
                     ELSE turn[u]
      BY <1>7 DEF Give, TurnsInv
    <2>2. turn[u] # Idle => Shape(turn[u])
      BY DEF TurnsInv, Sound, IsTurn
    <2> QED
      BY <2>1, <2>2 DEF Shape
  <1>8. ASSUME StopTurns, NEW u \in Talkers PROVE Stays(u)
    BY <1>8 DEF StopTurns, TurnsInv, Idle
  <1>9. ASSUME UNCHANGED turn, NEW u \in Talkers PROVE Stays(u)
    BY <1>9
  <1>10. \A u \in Talkers : Stays(u)
    BY <1>3, <1>4, <1>6, <1>7, <1>8, <1>9 DEF DialogueNext, Revoke, StoreStep, dialogueVars, allVars
  <1> QED
    BY <1>1, <1>10 DEF Asking

(* A turn that opened c owes a question about it. *)
LEMMA MarkAsks ==
    ASSUME TurnsInv, QuestionsInv, NEW t \in Talkers, Mark(t)
    PROVE  QuestionsInv'
  <1> DEFINE c == turn[t].c
             opened == table[c] # table'[c] /\ table'[c].status = "offered"
  <1>1. /\ turn' = [turn EXCEPT ![t].at = "marked", ![t].won = opened]
        /\ unasked' = [unasked EXCEPT ![c] = IF opened THEN @ + 1 ELSE @]
        /\ turn[t].at = "mark"
    BY DEF Mark, At
  <1>2. Shape(turn[t]) /\ c \in CandId
    BY <1>1, UnderWay DEF Sound, IsTurn, OnOffer
  <1>3. /\ turn'[t].at = "marked" /\ turn'[t].won = opened /\ turn'[t].c = c
        /\ \A u \in Talkers : u # t => turn'[u] = turn[u]
    <2>1. \A u \in Talkers : turn'[u] = IF u = t THEN [turn[t] EXCEPT !.at = "marked", !.won = opened]
                                        ELSE turn[u]
      BY <1>1 DEF TurnsInv
    <2> QED
      BY <1>2, <2>1 DEF Shape
  <1> SUFFICES ASSUME NEW d \in CandId
               PROVE  unasked'[d] \in Int /\ Cardinality(Asking(d)') <= unasked'[d]
    BY <1>1 DEF QuestionsInv
  <1>4. t \notin Asking(d)
    BY <1>1 DEF Asking
  <1>5. CASE opened /\ d = c
    <2>1. Asking(d)' = Asking(d) \union {t}
      BY <1>3, <1>5 DEF Asking
    <2>2. Cardinality(Asking(d)') = Cardinality(Asking(d)) + 1
      BY <1>4, <2>1, AskingFinite, FS_AddElement
    <2>3. unasked'[d] = unasked[d] + 1
      BY <1>1, <1>5 DEF QuestionsInv
    <2> QED
      BY <2>2, <2>3, AskingFinite DEF QuestionsInv
  <1>6. CASE ~(opened /\ d = c)
    <2>1. Asking(d)' = Asking(d)
      BY <1>1, <1>3, <1>6 DEF Asking
    <2>2. unasked'[d] = unasked[d]
      BY <1>1, <1>6 DEF QuestionsInv
    <2> QED
      BY <2>1, <2>2 DEF QuestionsInv
  <1> QED
    BY <1>5, <1>6

LEMMA AskAsks ==
    ASSUME TurnsInv, QuestionsInv, NEW t \in Talkers, AskQuestion(t)
    PROVE  QuestionsInv'
  <1> DEFINE c == turn[t].c
  <1>1. /\ turn' = [turn EXCEPT ![t] = Idle]
        /\ unasked' = [unasked EXCEPT ![c] = IF turn[t].won THEN @ - 1 ELSE @]
        /\ turn[t].at = "marked"
    BY DEF AskQuestion, At
  <1>2. c \in CandId
    BY <1>1, UnderWay DEF Sound, IsTurn, OnOffer
  <1>3. turn'[t].at = "idle" /\ \A u \in Talkers : u # t => turn'[u] = turn[u]
    BY <1>1 DEF TurnsInv, Idle
  <1> SUFFICES ASSUME NEW d \in CandId
               PROVE  unasked'[d] \in Int /\ Cardinality(Asking(d)') <= unasked'[d]
    BY <1>1 DEF QuestionsInv
  <1>4. Asking(d)' = Asking(d) \ {t}
    BY <1>3 DEF Asking
  <1>5. CASE turn[t].won /\ d = c
    <2>1. t \in Asking(d)
      BY <1>1, <1>5 DEF Asking
    <2>2. Cardinality(Asking(d)') = Cardinality(Asking(d)) - 1
      BY <1>4, <2>1, AskingFinite, FS_RemoveElement
    <2>3. unasked'[d] = unasked[d] - 1
      BY <1>1, <1>5 DEF QuestionsInv
    <2> QED
      BY <2>2, <2>3, AskingFinite DEF QuestionsInv
  <1>6. CASE ~(turn[t].won /\ d = c)
    <2>1. Asking(d)' = Asking(d)
      BY <1>4, <1>6 DEF Asking
    <2>2. unasked'[d] = unasked[d]
      BY <1>1, <1>6 DEF QuestionsInv
    <2> QED
      BY <2>1, <2>2 DEF QuestionsInv
  <1> QED
    BY <1>5, <1>6

(* For any number of turns that prepare the same offer, in any order: only *)
(* the one whose update opened it asks, once (candidate_dialogue.py:202-250,*)
(* text_turn.py:301-325).                                                  *)
THEOREM AskedOncePerOffer == DialogueSpec => []OneQuestionPerOffer
  <1>1. DialogueInit => QuestionsInv
    <2> SUFFICES ASSUME DialogueInit PROVE QuestionsInv
      OBVIOUS
    <2>1. \A c \in CandId : Asking(c) = {}
      BY DEF DialogueInit, Asking, Idle
    <2>2. unasked = [c \in CandId |-> unasked[c]] /\ \A c \in CandId : unasked[c] = 0
      BY DEF DialogueInit
    <2>3. \A c \in CandId : Cardinality(Asking(c)) = 0
      BY <2>1, FS_EmptySet
    <2> QED
      BY <2>2, <2>3 DEF QuestionsInv
  <1>2. TurnsInv /\ QuestionsInv /\ [DialogueNext]_allVars => QuestionsInv'
    BY NobodyMarks, FewerAsk, MarkAsks, AskAsks
  <1>3. QuestionsInv => OneQuestionPerOffer
    BY AskingFinite DEF QuestionsInv, OneQuestionPerOffer
  <1> QED
    BY <1>1, <1>2, <1>3, TurnsInvariant, PTL DEF DialogueSpec

-----------------------------------------------------------------------------
(* Answers.                                                                *)

(* What resolving the candidate c for p did to it: it was live if it became *)
(* rejected, and only a promotion confirms it.                              *)
LEMMA Resolution ==
    ASSUME TInv, NEW t \in Task, NEW now \in Now, NEW c \in CandId, NEW p \in Person
    PROVE  /\ /\ Promote(t, c, p, now) \/ Reject(t, c, p, now)
              /\ table[c].status # "rejected" /\ table'[c].status = "rejected"
              => Live(table[c])
           /\ Promote(t, c, p, now) /\ Confirms(c) => table[c].claim \in facts'[p]
           /\ Reject(t, c, p, now) => ~Confirms(c)
  <1>1. now \in Nat
    BY DEF Now, TInv, TypeOK
  <1>2. /\ Kept(now) \in [CandId -> Row]
        /\ Kept(now)[c].status \in {table[c].status, "proposed", "offered", "expired"}
        /\ Kept(now)[c].status = "offered" => Kept(now)[c] = table[c]
    BY <1>1, KeptAges DEF Ages, Aged, LiveStatus
  <1>3. ASSUME table' = Kept(now)
        PROVE  ~Confirms(c) /\ (table'[c].status = "rejected" => table[c].status = "rejected")
    BY <1>2, <1>3 DEF Confirms
  <1>4. ASSUME Answerable(Kept(now), c, p),
               table' = [Kept(now) EXCEPT ![c] = Resolved(@, "rejected")]
        PROVE  ~Confirms(c) /\ Live(table[c])
    <2>1. Live(table[c])
      BY <1>2, <1>4 DEF Answerable, Live, LiveStatus
    <2>2. table'[c].status = "rejected"
      BY <1>2, <1>4 DEF Resolved
    <2> QED
      BY <2>1, <2>2 DEF Confirms
  <1>5. ASSUME Answerable(Kept(now), c, p),
               table' = [Kept(now) EXCEPT ![c] = Resolved(@, "confirmed")],
               facts' = [facts EXCEPT ![p] = @ \cup {Kept(now)[c].claim}]
        PROVE  table'[c].status # "rejected" /\ table[c].claim \in facts'[p]
    <2>1. table'[c].status = "confirmed"
      BY <1>2, <1>5 DEF Resolved
    <2>2. table[c].claim \in facts'[p]
      BY <1>2, <1>5 DEF Answerable, TInv, TypeOK
    <2> QED
      BY <2>1, <2>2
  <1>6. ASSUME Promote(t, c, p, now)
        PROVE  \/ table' = Kept(now)
               \/ /\ Answerable(Kept(now), c, p)
                  /\ table' = [Kept(now) EXCEPT ![c] = Resolved(@, "rejected")]
               \/ /\ Answerable(Kept(now), c, p)
                  /\ table' = [Kept(now) EXCEPT ![c] = Resolved(@, "confirmed")]
                  /\ facts' = [facts EXCEPT ![p] = @ \cup {Kept(now)[c].claim}]
    BY <1>6 DEF Promote, Commits, Kept
  <1>7. ASSUME Reject(t, c, p, now)
        PROVE  \/ table' = Kept(now)
               \/ /\ Answerable(Kept(now), c, p)
                  /\ table' = [Kept(now) EXCEPT ![c] = Resolved(@, "rejected")]
    BY <1>7 DEF Reject, Commits, Kept
  <1> QED
    BY <1>3, <1>4, <1>5, <1>6, <1>7

(* Nobody else makes a turn speak. *)
LEMMA SpeaksItself ==
    ASSUME TurnsInv, DialogueNext, NEW t \in Talkers, turn[t] # Idle, turn'[t] # Idle,
           turn'[t].said # turn[t].said
    PROVE  Reply(t)
  <1>1. ASSUME NEW u \in Talkers, NEW r, turn' = [turn EXCEPT ![u] = r],
               r = Idle \/ Lands(u, r)
        PROVE  Reply(t)
    <2>1. u = t
      BY <1>1 DEF TurnsInv
    <2>2. turn'[t] = r
      BY <1>1, <2>1 DEF TurnsInv
    <2> QED
      BY <1>1, <2>1, <2>2 DEF Lands
  <1>2. ASSUME NEW u \in Talkers, Proposal(u) \/ Offer(u) \/ Reply(u) PROVE Reply(t)
    <2>1. Keeps(u)
      BY <1>2, ProposalKeeps, OfferKeeps, ReplyKeeps
    <2> QED
      BY <1>1, <2>1 DEF Keeps, Becomes
  <1>3. ASSUME NEW u \in Talkers, Cancel(u) PROVE Reply(t)
    BY <1>1, <1>3 DEF Cancel
  <1>4. ASSUME NEW r, turn' = [turn EXCEPT ![Diary] = r] PROVE FALSE
    BY <1>4, Talking DEF TurnsInv
  <1>5. ~DiaryStarts /\ ~DiaryEnds
    BY <1>4 DEF DiaryStarts, DiaryEnds, Acquires, Releases
  <1>6. ASSUME NEW consent, Give(consent) PROVE FALSE
    <2>1. turn'[t] = [turn[t] EXCEPT !.held = @ \union {consent}]
      BY <1>6 DEF Give, TurnsInv
    <2>2. Shape(turn[t])
      BY DEF TurnsInv, Sound, IsTurn
    <2> QED
      BY <2>1, <2>2 DEF Shape
  <1>7. ~StopTurns
    BY DEF StopTurns, TurnsInv
  <1> QED
    BY <1>2, <1>3, <1>5, <1>6, <1>7 DEF DialogueNext, Revoke, StoreStep, dialogueVars

(* An answer announces what its own transaction did, whatever else runs    *)
(* between the question and the answer (candidate_dialogue.py:253-409).    *)
THEOREM AnswersTellTheTruth == DialogueSpec => AnswersAreTrue
  <1> DEFINE Truthful(t) ==
        turn[t] # Idle /\ turn'[t] # Idle /\ turn'[t].said \notin {"nothing", turn[t].said} =>
          LET c == turn[t].c
              settled == Live(table[c]) /\ table'[c].status \in {"confirmed", "rejected"}
          IN  CASE turn'[t].said = "saved"  -> /\ table'[c].status = "confirmed"
                                               /\ table[c].claim \in facts'[turn[t].p]
                [] turn'[t].said = "failed" -> ~settled
                [] OTHER                    -> settled /\ table'[c].status = "rejected"
  <1>1. TurnsInv /\ [DialogueNext]_allVars => [\A t \in Talkers : Truthful(t)]_allVars
    <2> SUFFICES ASSUME TurnsInv, DialogueNext, NEW t \in Talkers,
                        turn[t] # Idle, turn'[t] # Idle,
                        turn'[t].said \notin {"nothing", turn[t].said}
                 PROVE  Truthful(t)
      OBVIOUS
    <2> DEFINE q == turn[t]
               c == q.c
               settled == Live(table[c]) /\ table'[c].status \in {"confirmed", "rejected"}
    <2>1. Reply(t) /\ IsTurn(q) /\ Shape(q) /\ q.now \in Now /\ q.p \in Person
      BY SpeaksItself DEF TurnsInv, Sound, IsTurn, InTime, Now
    <2>2. \A words : Says(t, words).said = words
      BY <2>1 DEF Says, Shape
    <2>3. ASSUME turn'[t].said = "failed", ~settled PROVE Truthful(t)
      BY <2>3
    (* Nothing is settled when the table stays as it is. *)
    <2>4. ASSUME turn'[t].said = "failed", UNCHANGED table PROVE Truthful(t)
      BY <2>3, <2>4 DEF Live, LiveStatus
    <2>5. ASSUME NEW words, turn' = [turn EXCEPT ![t] = Says(t, words)]
          PROVE  turn'[t].said = words
      BY <2>2, <2>5 DEF TurnsInv
    <2>6. ~Answer(t)
      BY <2>1 DEF Answer, Starts, At, IsTurn, Places, OnTriple, OnOffer
    <2>7. CASE AuthorizeAnswer(t)
      <3>1. ~Authorize(t, "confirm", "resolve")
        <4>1. ASSUME turn' = [turn EXCEPT ![t] = [q EXCEPT !.at = "resolve",
                                !.rows = @ \union {"confirm"}, !.held = consents]]
              PROVE  FALSE
          BY <2>1, <4>1 DEF TurnsInv, Shape
        <4>2. ASSUME turn' = [turn EXCEPT ![t] = Idle] PROVE FALSE
          BY <4>2 DEF TurnsInv
        <4> QED
          BY <4>1, <4>2 DEF Authorize, Moves, Goes
      <3>2. turn' = [turn EXCEPT ![t] = Says(t, "failed")] /\ UNCHANGED table
        BY <2>7, <3>1 DEF AuthorizeAnswer, Moves, Goes, vars
      <3> QED
        BY <2>4, <2>5, <3>2
    <2>8. CASE CheckpointFails(t)
      BY <2>4, <2>5, <2>8 DEF CheckpointFails, Goes, CheckpointRaised
    <2>9. ~Answered(t)
      BY DEF Answered, Moves, Goes, TurnsInv
    <2>10. CASE Resolve(t)
      <3>1. c \in CandId /\ t \in Task /\ TInv
        BY <2>1, <2>10, Talking DEF Resolve, At, IsTurn, OnOffer, TurnsInv
      <3> DEFINE Became(status) == ~(table[c].status = status) /\ table'[c].status = status
      <3>2. CASE q.accept
        <4>1. /\ Promote(t, c, q.p, q.now)
              /\ turn'[t].said = IF Became("confirmed") THEN "saved"
                                 ELSE IF Became("rejected") THEN "contradiction" ELSE "failed"
          BY <2>5, <2>10, <3>2 DEF Resolve, Goes
        <4>2. /\ Became("rejected") => Live(table[c])
              /\ Became("confirmed") => table[c].claim \in facts'[q.p]
          BY <2>1, <3>1, <4>1, Resolution DEF Confirms
        <4>3. CASE Became("confirmed")
          BY <4>1, <4>2, <4>3
        <4>4. CASE ~Became("confirmed") /\ Became("rejected")
          BY <4>1, <4>2, <4>4
        <4>5. CASE ~Became("confirmed") /\ ~Became("rejected")
          BY <2>3, <4>1, <4>5 DEF Live, LiveStatus
        <4> QED
          BY <4>3, <4>4, <4>5
      <3>3. CASE ~q.accept
        <4>1. /\ Reject(t, c, q.p, q.now)
              /\ turn'[t].said = IF Became("rejected") THEN "rejected" ELSE "failed"
          BY <2>5, <2>10, <3>3 DEF Resolve, Goes
        <4>2. Became("rejected") => Live(table[c])
          BY <2>1, <3>1, <4>1, Resolution
        <4>3. ~Became("confirmed")
          BY <2>1, <3>1, <4>1, Resolution DEF Confirms
        <4>4. CASE Became("rejected")
          BY <4>1, <4>2, <4>4
        <4>5. CASE ~Became("rejected")
          BY <2>3, <4>1, <4>3, <4>5 DEF Live, LiveStatus
        <4> QED
          BY <4>4, <4>5
      <3> QED
        BY <3>2, <3>3
    <2> QED
      BY <2>1, <2>6, <2>7, <2>8, <2>9, <2>10 DEF Reply
  <1>2. []TurnsInv /\ [][DialogueNext]_allVars => [][\A t \in Talkers : Truthful(t)]_allVars
    BY <1>1, PTL
  <1> QED
    BY <1>2, TurnsInvariant, PTL DEF DialogueSpec, AnswersAreTrue

-----------------------------------------------------------------------------
(* The extraction slot and its budget.                                     *)

Waiting == {t \in Talkers \union {Diary} : turn[t].at = "extract"}

SlotInv ==
    /\ busy \in BOOLEAN
    /\ busy => \E t \in Talkers \union {Diary} : Waiting = {t}
    /\ ~busy => Waiting = {}

(* What others do to the slot: nothing. *)
SlotStays ==
    /\ UNCHANGED <<busy, starts, extracted>>
    /\ Waiting' = Waiting

LEMMA OtherTurns ==
    ASSUME TurnsInv, NEW t \in Talkers, Proposal(t) \/ Offer(t) \/ Reply(t),
           ~Acquire(t), ~Extracted(t)
    PROVE  SlotStays
  <1>1. turn[t].at # "extract"
    BY DEF Proposal, Propose, ProposerVerified, ClassifyTriple, FirstCheck,
           Precheck, AuthorizeProposal, SecondCheck, InsertCandidate, Starts, Enrolled,
           Offer, PrepareOffer, OffererVerified, CommitOffer, StillOfferable, AuthorizeRead, Mark,
           AskQuestion, Reply, Answer, AuthorizeAnswer, Answered, Resolve, CheckpointFails, At
  <1>2. UNCHANGED <<busy, starts, extracted>>
    <2> USE DEF Starts, Moves, Goes, Authorize, VoiceVerifies, Enrolled
    <2>1. CASE Proposal(t)
      BY <2>1 DEF Proposal, Propose, ProposerVerified, ClassifyTriple, FirstCheck,
                  Precheck, AuthorizeProposal, SecondCheck, InsertCandidate
    <2>2. CASE Offer(t)
      BY <2>2 DEF Offer, PrepareOffer, OffererVerified, CommitOffer, StillOfferable,
                  AuthorizeRead, Mark, AskQuestion
    <2>3. CASE Reply(t)
      BY <2>3 DEF Reply, Answer, AuthorizeAnswer, Answered, Resolve, CheckpointFails
    <2> QED
      BY <2>1, <2>2, <2>3
  <1>3. Keeps(t)
    BY ProposalKeeps, OfferKeeps, ReplyKeeps
  <1>4. PICK r : turn' = [turn EXCEPT ![t] = r] /\ (r = Idle \/ Lands(t, r))
    BY <1>3 DEF Keeps, Becomes
  <1>5. r.at # "extract"
    BY <1>4 DEF Lands, Idle
  <1>6. Waiting' = Waiting
    BY <1>1, <1>4, <1>5 DEF Waiting, TurnsInv
  <1> QED
    BY <1>2, <1>6 DEF SlotStays

(* A start within the budget, a start refused, and a slot given back. *)
Acquired ==
    /\ ~busy /\ Len(Recent(clock)) < PerHour
    /\ busy' = TRUE /\ starts' = Append(Recent(clock), clock)
    /\ extracted' = Append(extracted, clock)
    /\ \E t \in Talkers \union {Diary} : Waiting' = {t}

Returned ==
    /\ busy' = FALSE /\ Waiting' = {} /\ UNCHANGED <<starts, extracted>>

LEMMA SlotSteps ==
    ASSUME TurnsInv, SlotInv, [DialogueNext]_allVars
    PROVE  \/ SlotStays
           \/ Acquired
           \/ Returned
           \/ starts' = Recent(clock) /\ UNCHANGED <<busy, extracted>> /\ Waiting' = Waiting
           \/ busy' = FALSE /\ Waiting' = {} /\ starts' = <<>> /\ extracted' = <<>>
  <1> DEFINE Goal == \/ SlotStays
                     \/ Acquired
                     \/ Returned
                     \/ /\ starts' = Recent(clock) /\ UNCHANGED <<busy, extracted>>
                        /\ Waiting' = Waiting
                     \/ busy' = FALSE /\ Waiting' = {} /\ starts' = <<>> /\ extracted' = <<>>
  <1>1. \A t \in Talkers \union {Diary} : turn' = [turn EXCEPT ![t] = Idle] =>
             Waiting' = Waiting \ {t}
    BY DEF TurnsInv, Waiting, Idle
  <1>2. ASSUME NEW t \in Talkers \union {Diary}, NEW r, r.at = "extract", Acquires(t, r)
        PROVE  Goal
    <2>1. Waiting' = {t}
      BY <1>2 DEF Acquires, SlotInv, Waiting, TurnsInv
    <2> QED
      BY <1>2, <2>1 DEF Acquires, Acquired
  (* Whoever waits for the model is the one that has the slot. *)
  <1>3. ASSUME NEW t \in Talkers \union {Diary}, turn[t].at = "extract"
        PROVE  busy /\ Waiting = {t}
    BY <1>3 DEF SlotInv, Waiting
  <1>4. ASSUME NEW t \in Talkers \union {Diary}, turn[t].at = "extract",
               NEW r, r.at # "extract", Releases(t, r)
        PROVE  Goal
    <2>1. Waiting' = {}
      BY <1>3, <1>4 DEF Releases, Waiting, TurnsInv
    <2> QED
      BY <1>4, <2>1 DEF Releases, Returned
  <1>5. ASSUME NEW t \in Talkers, Acquire(t) PROVE Goal
    <2>1. turn[t].at = "acquire"
      BY <1>5 DEF Acquire, At
    <2>2. To(t, "extract").at = "extract"
      BY <2>1, UnderWay DEF Sound, IsTurn, Shape, To
    <2>3. ASSUME Refused(t) PROVE Goal
      <3>1. Waiting' = Waiting
        BY <1>1, <2>1, <2>3 DEF Refused, Waiting
      <3> QED
        BY <2>3, <3>1 DEF Refused, SlotStays
    <2> QED
      BY <1>2, <1>5, <2>2, <2>3 DEF Acquire
  <1>6. ASSUME NEW t \in Talkers, Extracted(t) PROVE Goal
    <2>1. turn[t].at = "extract"
      BY <1>6 DEF Extracted, At
    <2>2. \A triples : [turn[t] EXCEPT !.at = "triple", !.triples = triples].at = "triple"
      BY <2>1, UnderWay DEF Sound, IsTurn, Shape
    <2> QED
      BY <1>4, <1>6, <2>1, <2>2 DEF Extracted, Idle
  <1>7. ASSUME NEW t \in Talkers, Proposal(t) \/ Offer(t) \/ Reply(t) PROVE Goal
    BY <1>5, <1>6, <1>7, OtherTurns
  <1>8. ASSUME DiaryStarts PROVE Goal
    BY <1>2, <1>8 DEF DiaryStarts
  <1>9. ASSUME DiaryEnds PROVE Goal
    BY <1>4, <1>9 DEF DiaryEnds, Idle
  <1>10. ASSUME NEW t \in Talkers, Cancel(t) PROVE Goal
    <2>1. Waiting' = Waiting \ {t} /\ busy' = (busy /\ turn[t].at # "extract")
          /\ UNCHANGED <<starts, extracted>>
      BY <1>1, <1>10 DEF Cancel
    <2>2. CASE turn[t].at = "extract"
      BY <1>3, <2>1, <2>2 DEF Returned
    <2>3. CASE turn[t].at # "extract"
      BY <2>1, <2>3 DEF Waiting, SlotStays, SlotInv
    <2> QED
      BY <2>2, <2>3
  <1>11. ASSUME NEW consent, Give(consent) PROVE Goal
    <2>1. \A u \in Talkers \union {Diary} : turn'[u].at = turn[u].at
      <3>1. ASSUME NEW u \in Talkers \union {Diary} PROVE turn'[u].at = turn[u].at
        <4>1. turn'[u] = IF u \in Talkers /\ turn[u] # Idle
                         THEN [turn[u] EXCEPT !.held = @ \union {consent}] ELSE turn[u]
          BY <1>11 DEF Give, TurnsInv
        <4>2. u \in Talkers /\ turn[u] # Idle => Shape(turn[u])
          BY DEF TurnsInv, Sound, IsTurn
        <4> QED
          BY <4>1, <4>2 DEF Shape
      <3> QED
        BY <3>1
    <2> QED
      BY <1>11, <2>1 DEF Give, Waiting, SlotStays
  <1>12. ASSUME StopTurns PROVE Goal
    <2>1. Waiting' = {}
      BY <1>12 DEF StopTurns, TurnsInv, Waiting, Idle
    <2> QED
      BY <1>12, <2>1 DEF StopTurns
  <1>13. ASSUME UNCHANGED <<turn, busy, starts, extracted>> PROVE Goal
    BY <1>13 DEF Waiting, SlotStays
  <1> QED
    BY <1>7, <1>8, <1>9, <1>10, <1>11, <1>12, <1>13
       DEF DialogueNext, Revoke, StoreStep, dialogueVars, allVars

(* s is what is left of e when the first k, all old at the time now, are   *)
(* dropped.                                                                *)
Rest(s, e, k, now) ==
    /\ s \in Seq(Nat) /\ Len(s) = Len(e) - k
    /\ \A j \in 1..Len(s) : s[j] = e[j + k]
    /\ \A i \in 1..k : e[i] + Hour <= now

Metered(e) == \A i \in 1..Len(e) - PerHour : e[i + PerHour] >= e[i] + Hour

MeterInv ==
    /\ extracted \in Seq(Nat)
    /\ \E k \in 0..Len(extracted) : Rest(starts, extracted, k, clock)
    /\ Metered(extracted)

LEMMA RecentIsRest ==
    ASSUME starts \in Seq(Nat), NEW now \in Nat
    PROVE  \E m \in 0..Len(starts) : Rest(Recent(now), starts, m, now)
  <1> DEFINE fresh == {i \in DOMAIN starts : now - starts[i] < Hour}
  <1>1. PICK n \in Nat : n = Len(starts) /\ DOMAIN starts = 1..n
    OBVIOUS
  <1>2. \A i \in 1..n : starts[i] \in Nat
    BY <1>1
  <1>3. Hour \in Nat
    BY DialogueAssumption
  <1>4. \A i \in 1..n : i \notin fresh => starts[i] + Hour <= now
    BY <1>1, <1>2, <1>3
  <1>5. CASE fresh = {}
    <2>1. Recent(now) = <<>>
      BY <1>5 DEF Recent
    <2>2. Len(<<>>) = 0 /\ <<>> \in Seq(Nat)
      OBVIOUS
    <2>3. Rest(<<>>, starts, n, now)
      BY <1>1, <1>4, <1>5, <2>2 DEF Rest
    <2> QED
      BY <1>1, <2>1, <2>3
  <1>6. CASE fresh # {}
    <2>1. fresh \subseteq 1..n
      BY <1>1
    <2>2. \E x \in fresh : \A y \in fresh : x <= y
      <3>1. PICK some : some = fresh
        OBVIOUS
      <3>2. some \subseteq Nat /\ some # {}
        BY <1>6, <2>1, <3>1
      <3>3. \E x \in some : \A y \in some : x <= y
        BY <3>2, LeastOf
      <3> QED
        BY <3>1, <3>3
    <2>3. PICK first : first = Min(fresh)
      OBVIOUS
    <2>4. first \in fresh /\ \A y \in fresh : first <= y
      BY <2>2, <2>3 DEF Min
    <2>5. Recent(now) = SubSeq(starts, first, n)
      BY <1>1, <1>6, <2>3 DEF Recent
    <2>6. first \in 1..n
      BY <2>1, <2>4
    <2>7. \A i \in first..n : starts[i] \in Nat
      BY <1>2, <2>6
    <2>8. /\ Recent(now) \in Seq(Nat)
          /\ Len(Recent(now)) = n - first + 1
          /\ \A j \in 1..n - first + 1 : Recent(now)[j] = starts[first + j - 1]
      BY <2>5, <2>6, <2>7, SubSeqProperties
    <2>9. \A i \in 1..first - 1 : i \in 1..n /\ i \notin fresh
      BY <2>1, <2>4, <2>6
    <2>10. Rest(Recent(now), starts, first - 1, now)
      <3>1. PICK s : s = Recent(now)
        OBVIOUS
      <3>2. s \in Seq(Nat) /\ Len(s) = n - (first - 1)
        BY <2>6, <2>8, <3>1
      <3>3. \A j \in 1..Len(s) : s[j] = starts[j + (first - 1)]
        <4>1. ASSUME NEW j \in 1..Len(s) PROVE s[j] = starts[j + (first - 1)]
          <5>1. j \in 1..n - first + 1 /\ first + j - 1 = j + (first - 1)
            BY <2>6, <3>2
          <5> QED
            BY <2>8, <3>1, <5>1
        <4> QED
          BY <4>1
      <3>4. \A i \in 1..first - 1 : starts[i] + Hour <= now
        BY <1>4, <2>9
      <3> QED
        BY <1>1, <3>1, <3>2, <3>3, <3>4 DEF Rest
    <2> QED
      BY <1>1, <2>6, <2>10
  <1> QED
    BY <1>5, <1>6

(* What is left of what is left. *)
LEMMA RestOfRest ==
    ASSUME NEW e \in Seq(Nat), NEW s, NEW k \in 0..Len(e), NEW now \in Nat, Rest(s, e, k, now),
           NEW r, NEW m \in 0..Len(s), Rest(r, s, m, now)
    PROVE  k + m \in 0..Len(e) /\ Rest(r, e, k + m, now)
  <1>1. PICK n \in Nat : n = Len(e)
    OBVIOUS
  <1>2. k \in 0..n /\ m \in 0..n - k /\ Len(s) = n - k /\ Len(r) = n - (k + m)
    BY <1>1 DEF Rest
  <1>3. ASSUME NEW j \in 1..Len(r) PROVE r[j] = e[j + (k + m)]
    <2>1. j + m \in 1..Len(s) /\ (j + m) + k = j + (k + m)
      BY <1>2
    <2>2. r[j] = s[j + m] /\ s[j + m] = e[(j + m) + k]
      BY <2>1 DEF Rest
    <2> QED
      BY <2>1, <2>2
  <1>4. ASSUME NEW i \in 1..k + m PROVE e[i] + Hour <= now
    <2>1. CASE i <= k
      <3>1. i \in 1..k
        BY <1>2, <2>1
      <3> QED
        BY <3>1 DEF Rest
    <2>2. CASE i > k
      <3>1. i - k \in 1..m /\ i - k \in 1..Len(s) /\ (i - k) + k = i
        BY <1>2, <2>2
      <3>2. s[i - k] = e[(i - k) + k] /\ s[i - k] + Hour <= now
        BY <3>1 DEF Rest
      <3> QED
        BY <3>1, <3>2
    <2> QED
      BY <1>2, <2>1, <2>2
  <1> QED
    BY <1>1, <1>2, <1>3, <1>4 DEF Rest

(* One more start, when fewer than PerHour are left. *)
LEMMA StartWithin ==
    ASSUME NEW e \in Seq(Nat), NEW r, NEW k \in 0..Len(e), NEW now \in Nat, Rest(r, e, k, now),
           Len(r) < PerHour, Metered(e)
    PROVE  /\ Append(e, now) \in Seq(Nat)
           /\ k \in 0..Len(Append(e, now))
           /\ Rest(Append(r, now), Append(e, now), k, now)
           /\ Metered(Append(e, now))
  <1>1. PICK n \in Nat : n = Len(e)
    OBVIOUS
  <1>2. PICK f : f = Append(e, now)
    OBVIOUS
  <1>3. /\ f \in Seq(Nat) /\ Len(f) = n + 1 /\ f[n + 1] = now
        /\ \A i \in 1..n : f[i] = e[i]
    BY <1>1, <1>2
  <1>4. PICK s : s = Append(r, now)
    OBVIOUS
  <1>5. r \in Seq(Nat) /\ Len(r) = n - k /\ k \in 0..n
    BY <1>1 DEF Rest
  <1>6. /\ s \in Seq(Nat) /\ Len(s) = (n - k) + 1 /\ s[(n - k) + 1] = now
        /\ \A i \in 1..n - k : s[i] = r[i]
    <2>1. PICK left \in Nat : left = Len(r)
      BY <1>5
    <2>2. /\ s \in Seq(Nat) /\ Len(s) = left + 1 /\ s[left + 1] = now
          /\ \A i \in 1..left : s[i] = r[i]
      <3>1. r \in Seq(Nat)
        BY <1>5
      <3> QED
        BY <1>4, <2>1, <3>1, AppendProperties
    <2> QED
      BY <1>5, <2>1, <2>2
  <1>7. ASSUME NEW j \in 1..Len(s) PROVE s[j] = f[j + k]
    <2>1. CASE j = (n - k) + 1
      BY <1>3, <1>5, <1>6, <2>1
    <2>2. CASE j # (n - k) + 1
      <3>1. j \in 1..Len(r) /\ j + k \in 1..n
        BY <1>5, <1>6, <2>2
      <3>2. r[j] = e[j + k]
        BY <3>1 DEF Rest
      <3> QED
        BY <1>3, <1>5, <1>6, <3>1, <3>2
    <2> QED
      BY <2>1, <2>2
  <1>8. \A i \in 1..k : i \in 1..n /\ f[i] + Hour <= now
    BY <1>3, <1>5 DEF Rest
  <1>9. Rest(s, f, k, now)
    <2>1. Len(s) = Len(f) - k
      BY <1>3, <1>5, <1>6
    <2> QED
      BY <1>6, <1>7, <1>8, <2>1 DEF Rest
  <1>10. Metered(f)
    <2>1. PerHour \in Nat \ {0}
      BY DialogueAssumption
    <2>2. ASSUME NEW i \in 1..Len(f) - PerHour PROVE f[i + PerHour] >= f[i] + Hour
      <3>1. CASE i + PerHour = n + 1
        <4>1. i \in 1..k
          BY <1>3, <1>5, <2>1, <3>1
        <4> QED
          BY <1>3, <1>8, <3>1, <4>1
      <3>2. CASE i + PerHour # n + 1
        <4>1. i \in 1..n - PerHour /\ i \in 1..n /\ i + PerHour \in 1..n
          BY <1>3, <2>1, <3>2
        <4>2. e[i + PerHour] >= e[i] + Hour
          BY <1>1, <4>1 DEF Metered
        <4> QED
          BY <1>3, <4>1, <4>2
      <3> QED
        BY <3>1, <3>2
    <2> QED
      BY <2>2 DEF Metered
  <1> QED
    BY <1>2, <1>3, <1>4, <1>5, <1>9, <1>10

LEMMA NothingMetered ==
    /\ <<>> \in Seq(Nat) /\ Len(<<>>) = 0
    /\ \A now \in Nat : Rest(<<>>, <<>>, 0, now)
    /\ Metered(<<>>)
  <1>1. Len(<<>>) = 0 /\ <<>> \in Seq(Nat)
    OBVIOUS
  <1>2. PerHour \in Nat
    BY DialogueAssumption
  <1>3. \A now \in Nat : Rest(<<>>, <<>>, 0, now)
    BY <1>1 DEF Rest
  <1>4. Metered(<<>>)
    BY <1>1, <1>2 DEF Metered
  <1> QED
    BY <1>1, <1>3, <1>4

(* Time does not go back. *)
LEMMA ClockMoves ==
    ASSUME [Next]_vars
    PROVE  clock' \in {clock, clock + 1}
  <1>1. ASSUME NEW t \in Task, NEW now \in Now, Entry(t, now) PROVE clock' = clock
    <2>1. \A rows : Commits(t, rows) => clock' = clock
      BY DEF Commits
    <2>2. \A p \in Person, k \in Claim : Insert(t, p, k, now) => clock' = clock
      BY <2>1 DEF Insert
    <2>3. \A c \in CandId, p \in Person : MarkOffered(t, c, p, now) => clock' = clock
      BY <2>1, Zenon DEF MarkOffered
    <2>4. \A c \in CandId, p \in Person : Reject(t, c, p, now) => clock' = clock
      BY <2>1, Zenon DEF Reject
    <2>5. \A c \in CandId, p \in Person : Promote(t, c, p, now) => clock' = clock
      BY <2>1, Zenon DEF Promote
    <2> QED
      BY <1>1, <2>2, <2>3, <2>4, <2>5 DEF Entry
  <1>2. ASSUME NEW t \in Task, Checkpoint(t) PROVE clock' = clock
    BY <1>2 DEF Checkpoint, StartCheckpoint, SkipCheckpoint, EndCheckpoint, CheckpointRaised
  <1> QED
    BY <1>1, <1>2 DEF Next, RetentionRun, Commits, Tick, Stop, Reconcile, Serve, EditFact, vars

LEMMA MeterStep ==
    ASSUME TurnsInv, SlotInv, MeterInv, [DialogueNext]_allVars
    PROVE  SlotInv' /\ MeterInv'
  <1>1. clock \in Nat /\ clock' \in Nat /\ clock' >= clock
    <2>1. clock \in Nat /\ clock' \in {clock, clock + 1}
      BY StoreSteps, ClockMoves DEF TurnsInv, TInv, TypeOK
    <2> QED
      BY <2>1
  <1>2. PICK k \in 0..Len(extracted) : Rest(starts, extracted, k, clock)
    BY DEF MeterInv
  <1>3. extracted \in Seq(Nat) /\ starts \in Seq(Nat) /\ Metered(extracted)
    BY <1>2 DEF MeterInv, Rest
  (* What is old stays old. *)
  <1>4. ASSUME NEW s, NEW e \in Seq(Nat), NEW m \in 0..Len(e), Rest(s, e, m, clock)
        PROVE  Rest(s, e, m, clock')
    <2>1. ASSUME NEW i \in 1..m PROVE e[i] + Hour <= clock'
      <3>1. e[i] \in Nat /\ e[i] + Hour <= clock /\ Hour \in Nat
        BY <1>4, DialogueAssumption DEF Rest
      <3> QED
        BY <1>1, <3>1
    <2> QED
      BY <1>4, <2>1 DEF Rest
  <1>5. PICK m \in 0..Len(starts) : Rest(Recent(clock), starts, m, clock)
    BY <1>1, <1>3, RecentIsRest
  <1>6. k + m \in 0..Len(extracted) /\ Rest(Recent(clock), extracted, k + m, clock)
    BY <1>1, <1>2, <1>3, <1>5, RestOfRest
  <1>7. CASE SlotStays
    <2>1. MeterInv'
      BY <1>2, <1>3, <1>4, <1>7 DEF SlotStays, MeterInv
    <2>2. SlotInv'
      BY <1>7 DEF SlotStays, SlotInv
    <2> QED
      BY <2>1, <2>2
  <1>8. CASE Acquired
    <2>1. /\ extracted' \in Seq(Nat) /\ k + m \in 0..Len(extracted')
          /\ Rest(starts', extracted', k + m, clock) /\ Metered(extracted')
      BY <1>1, <1>3, <1>6, <1>8, StartWithin DEF Acquired
    <2>2. MeterInv'
      BY <1>4, <2>1 DEF MeterInv
    <2>3. SlotInv'
      BY <1>8 DEF Acquired, SlotInv
    <2> QED
      BY <2>2, <2>3
  <1>9. CASE Returned
    <2>1. MeterInv'
      BY <1>2, <1>3, <1>4, <1>9 DEF Returned, MeterInv
    <2>2. SlotInv'
      BY <1>9 DEF Returned, SlotInv
    <2> QED
      BY <2>1, <2>2
  <1>10. CASE starts' = Recent(clock) /\ UNCHANGED <<busy, extracted>> /\ Waiting' = Waiting
    <2>1. MeterInv'
      BY <1>3, <1>4, <1>6, <1>10 DEF MeterInv
    <2>2. SlotInv'
      BY <1>10 DEF SlotInv
    <2> QED
      BY <2>1, <2>2
  <1>11. CASE busy' = FALSE /\ Waiting' = {} /\ starts' = <<>> /\ extracted' = <<>>
    <2>1. MeterInv'
      BY <1>1, <1>11, NothingMetered DEF MeterInv
    <2>2. SlotInv'
      BY <1>11 DEF SlotInv
    <2> QED
      BY <2>1, <2>2
  <1> QED
    BY <1>7, <1>8, <1>9, <1>10, <1>11, SlotSteps

(* The slot is taken exactly while somebody waits for the model, whatever  *)
(* fails or is cancelled, and no span of an hour holds more starts than    *)
(* the budget, for any hour and budget, although the limiter drops the old *)
(* ones (candidate_limits.py:31-70).                                       *)
THEOREM ExtractionsAreMetered == DialogueSpec => []ExtractionIsMetered
  <1>1. DialogueInit => SlotInv /\ MeterInv
    <2> SUFFICES ASSUME DialogueInit PROVE SlotInv /\ MeterInv
      OBVIOUS
    <2>1. Waiting = {}
      BY DEF DialogueInit, Waiting, Idle
    <2>2. MeterInv
      BY NothingMetered DEF DialogueInit, MeterInv
    <2> QED
      BY <2>1, <2>2 DEF DialogueInit, SlotInv
  <1>2. TurnsInv /\ SlotInv /\ MeterInv /\ [DialogueNext]_allVars => SlotInv' /\ MeterInv'
    BY MeterStep
  <1>3. TurnsInv /\ SlotInv /\ MeterInv => ExtractionIsMetered
    <2> SUFFICES ASSUME TurnsInv, SlotInv, MeterInv PROVE ExtractionIsMetered
      OBVIOUS
    <2>1. {t \in DOMAIN turn : turn[t].at = "extract"} = Waiting
      BY DEF TurnsInv, Waiting
    <2>2. Cardinality(Waiting) = IF busy THEN 1 ELSE 0
      BY FS_EmptySet, FS_Singleton DEF SlotInv
    <2> QED
      BY <2>1, <2>2 DEF ExtractionIsMetered, MeterInv, Metered
  <1> QED
    BY <1>1, <1>2, <1>3, TurnsInvariant, PTL DEF DialogueSpec
=============================================================================
