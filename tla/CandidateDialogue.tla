------------------------- MODULE CandidateDialogue -------------------------
(***************************************************************************)
(* How a voice turn uses the candidate store: the owner states a taste,    *)
(* a later turn offers to keep it, another one answers                     *)
(* (memory/candidate_proposal.py, candidate_dialogue.py,                   *)
(* candidate_policy.py, candidate_limits.py, enrollment.py).               *)
(*                                                                         *)
(* A turn is a coroutine that enters the store of CandidateStore; every    *)
(* await is a step, so consents may be revoked, offers lapse and other     *)
(* turns run between what it read and what it does.  A cancelled turn, or  *)
(* one whose step raised, stops where it was.  A turn reads its clock      *)
(* before it waits for the write lock.                                     *)
(***************************************************************************)
EXTENDS CandidateStore, TasteGate

CONSTANTS
    Talkers,        \* the coroutines of Task that serve voice turns
    Diary,          \* the coroutine of the conversation job, outside the store
    NoClaim,        \* the phrase of an answer that names no value
    NoCandidate,
    Hour,           \* the span of the extraction budget
    PerHour,        \* memory_candidate_extractions_per_hour
    Mixes           \* bound: which turns run, and from which state

ASSUME DialogueAssumption ==
    /\ Talkers \subseteq Task \ {Retention} /\ IsFiniteSet(Talkers)
    /\ Diary \notin Task
    /\ {Hour, PerHour} \subseteq Nat \ {0}

Triples == [claim : Claim, topic : STRING, shape : STRING, words : STRING]

(* A behaviour starts from rows and facts that the store may hold, and the *)
(* extractor answers with triples, whatever they say.                      *)
ASSUME MixesAssumption ==
    \A m \in Mixes :
        /\ m.facts \in [Person -> SUBSET Claim]
        /\ m.table \in [CandId -> Row]
        /\ \A c \in CandId : /\ Live(m.table[c]) <=> m.table[c].claim # Erased
                             /\ m.table[c].offers <= MaxOffers
        /\ \A p \in Person : /\ IsFiniteSet(LiveOf(m.table, p))
                             /\ Cardinality(LiveOf(m.table, p)) <= MaxLive
        /\ \A c, d \in CandId :
             /\ Live(m.table[c]) /\ Live(m.table[d]) /\ m.table[c].subject = m.table[d].subject
             /\ \/ m.table[c].claim = m.table[d].claim
                \/ m.table[c].status = "offered" /\ m.table[d].status = "offered"
             => c = d
        /\ m.extractions \in [Talkers -> SUBSET Seq(Triples)]
        /\ m.revocable \subseteq {"face", "voice"}
        /\ m.edited \subseteq Edited

VARIABLES
    consents,   \* the biometric consents of the owner that are active
    busy,       \* ExtractionLimiter._busy
    starts,     \* ExtractionLimiter._starts
    extracted,  \* history: when the process started its extractions
    turn,       \* what each talker, and the diary, is doing
    unasked,    \* history: times a candidate was offered and not yet asked about
    turns,      \* how many turns have begun
    mix

dialogueVars == <<consents, busy, starts, extracted, turn, unasked, turns, mix>>
allVars == <<vars, dialogueVars>>

Idle == [at |-> "idle"]
Both == {"face", "voice"}

At(t, places) == turn[t].at \in places /\ pc[t] = "idle"

(* What a turn has heard, written and said; "held" collects the consents *)
(* that have been active at some moment since its last audit row, and    *)
(* "stored" each claim with those that had been when it was stored.      *)
Turn(kind, at, p, c, now) ==
    [kind |-> kind, at |-> at, p |-> p, c |-> c, now |-> now, strong |-> FALSE,
     accept |-> FALSE, matches |-> {}, triples |-> <<>>, rows |-> {}, held |-> {},
     stored |-> {}, won |-> FALSE, said |-> "nothing"]

Goes(t, record) ==
    /\ turn' = [turn EXCEPT ![t] = record]
    /\ UNCHANGED <<consents, busy, starts, extracted, unasked, turns, mix>>

(* A step that does not enter the store. *)
Moves(t, record) == Goes(t, record) /\ UNCHANGED vars

To(t, at) == [turn[t] EXCEPT !.at = at]

DialogueInit ==
    /\ mix \in Mixes
    /\ table = mix.table
    /\ facts = mix.facts
    /\ logged = FALSE /\ clock = 1 /\ phase = "up" /\ enabled = TRUE /\ pending = FALSE
    /\ pc = [t \in Task |-> "idle"]
    /\ consents = Both
    /\ busy = FALSE /\ starts = <<>> /\ extracted = <<>>
    /\ turn = [t \in Talkers \union {Diary} |-> Idle]
    /\ unasked = [c \in CandId |-> 0]
    /\ turns = 0

Starts(t, kind, record) ==
    /\ kind \in mix.kinds /\ turns < mix.turns /\ clock <= mix.until
    /\ phase = "up" /\ enabled
    /\ At(t, {"idle"})
    /\ turn' = [turn EXCEPT ![t] = record]
    /\ turns' = turns + 1
    /\ UNCHANGED <<vars, consents, busy, starts, extracted, unasked, mix>>

-----------------------------------------------------------------------------
(* authorize_step: nothing is done without a face and voice actor, and the *)
(* decision's audit row; the policy allows the owner's own normal data.    *)

Authorize(t, step, next) ==
    \/ Moves(t, [turn[t] EXCEPT !.at = next, !.rows = @ \union {step}, !.held = consents])
    \/ mix.faults /\ Moves(t, Idle)

(* verify_face_and_voice, on the clip of the turn. *)
VoiceVerifies(t, next) ==
    /\ "voice" \in consents
    /\ Moves(t, [turn[t] EXCEPT !.at = next, !.strong = TRUE])

-----------------------------------------------------------------------------
(* The extraction slot. *)

\* Mutation of Recent: once the oldest start is old, all are dropped.
RecentOrNone(now) == IF starts # <<>> /\ now - Head(starts) >= Hour THEN <<>> ELSE starts

(* The starts are dropped from the oldest on, up to the first recent one. *)
Recent(now) ==
    LET fresh == {i \in DOMAIN starts : now - starts[i] < Hour}
    IN  IF fresh = {} THEN <<>> ELSE SubSeq(starts, Min(fresh), Len(starts))

(* try_acquire *)
Acquires(t, record) ==
    /\ ~busy
    /\ Len(Recent(clock)) < PerHour
    /\ busy' = TRUE
    /\ starts' = Append(Recent(clock), clock)
    /\ extracted' = Append(extracted, clock)
    /\ turn' = [turn EXCEPT ![t] = record]
    /\ UNCHANGED <<vars, consents, unasked, turns, mix>>

(* A refusal prunes the old starts all the same, unless the slot is taken. *)
Refused(t) ==
    /\ busy \/ Len(Recent(clock)) >= PerHour
    /\ starts' = IF busy THEN starts ELSE Recent(clock)
    /\ turn' = [turn EXCEPT ![t] = Idle]
    /\ UNCHANGED <<vars, consents, busy, extracted, unasked, turns, mix>>

Releases(t, record) ==
    /\ busy' = FALSE
    /\ turn' = [turn EXCEPT ![t] = record]
    /\ UNCHANGED <<vars, consents, starts, extracted, unasked, turns, mix>>

(* _summarize of the diary shares the slot. *)
DiaryStarts ==
    /\ mix.diary /\ phase = "up" /\ turn[Diary] = Idle
    /\ Acquires(Diary, [at |-> "extract"])

DiaryEnds == turn[Diary].at = "extract" /\ Releases(Diary, Idle)

-----------------------------------------------------------------------------
(* propose_candidates *)

(* The gate, a face actor, and no extraction in flight. *)
Propose(t) ==
    \E p \in Person, sentence \in mix.sentences :
        LET gate == MatchPreference(sentence, FALSE)
        IN  /\ gate.matches # {} /\ ~busy
            /\ Starts(t, "propose", [Turn("propose", "voice", p, NoCandidate, clock)
                                     EXCEPT !.matches = gate.matches])

ProposerVerified(t) ==
    /\ At(t, {"voice"}) /\ turn[t].kind = "propose"
    /\ VoiceVerifies(t, "acquire") \/ Moves(t, Idle)

Acquire(t) ==
    /\ At(t, {"acquire"})
    /\ Acquires(t, To(t, "extract")) \/ Refused(t)

(* The model answers with triples of its own choosing, or fails. *)
Extracted(t) ==
    /\ At(t, {"extract"})
    /\ \/ \E triples \in mix.extractions[t] :
            Releases(t, [turn[t] EXCEPT !.at = "triple", !.triples = triples])
       \/ Releases(t, Idle)

\* Mutation of ClassifyTriple: the words are not looked up in the sentence.
ClassifyUngrounded(t) ==
    /\ At(t, {"triple"})
    /\ IF turn[t].triples = <<>> THEN Moves(t, Idle)
       ELSE IF FirstRefusal(<<PairRefusal(Head(turn[t].triples), turn[t].matches),
                              PhraseRefusal(Head(turn[t].triples))>>) = "none"
       THEN Moves(t, To(t, "face1"))
       ELSE Moves(t, [turn[t] EXCEPT !.triples = Tail(@)])

ClassifyTriple(t) ==
    /\ At(t, {"triple"})
    /\ IF turn[t].triples = <<>> THEN Moves(t, Idle)
       ELSE IF Classify(Head(turn[t].triples), turn[t].matches) = "none"
       THEN Moves(t, To(t, "face1"))
       ELSE Moves(t, [turn[t] EXCEPT !.triples = Tail(@)])

Claimed(t) == Head(turn[t].triples).claim

NextTriple(t) == [turn[t] EXCEPT !.at = "triple", !.triples = Tail(@)]

(* is_enrolled_for_strong reads the two consents one after the other; a *)
(* read that fails counts as a refusal.                                 *)
Enrolled(t, here, consent, next) ==
    /\ At(t, {here})
    /\ \/ consent \in consents /\ Moves(t, next)
       \/ consent \notin consents /\ Moves(t, NextTriple(t))
       \/ mix.faults /\ Moves(t, NextTriple(t))

FirstCheck(t) ==
    \/ Enrolled(t, "face1", "face", To(t, "voice1"))
    \/ Enrolled(t, "voice1", "voice", To(t, "precheck"))

\* Mutation of SecondCheck: nothing is read again after the audit.
SecondCheckSkipped(t) ==
    /\ At(t, {"face2"})
    /\ Moves(t, [turn[t] EXCEPT !.at = "insert", !.now = clock])

SecondCheck(t) ==
    \/ Enrolled(t, "face2", "face", To(t, "voice2"))
    \/ Enrolled(t, "voice2", "voice", [turn[t] EXCEPT !.at = "insert", !.now = clock])

Precheck(t) ==
    /\ At(t, {"precheck"})
    /\ Moves(t, IF Blocked(table, turn[t].p, Claimed(t)) THEN NextTriple(t) ELSE To(t, "propose"))

AuthorizeProposal(t) == At(t, {"propose"}) /\ Authorize(t, "propose", "face2")

InsertCandidate(t) ==
    /\ At(t, {"insert"})
    /\ Insert(t, turn[t].p, Claimed(t), turn[t].now)
    /\ LET added == \E c \in CandId : table[c].status = "absent" /\ table'[c].status # "absent"
       IN  Goes(t, [NextTriple(t) EXCEPT
                        !.stored = IF added
                                   THEN @ \union {[claim |-> Claimed(t), held |-> turn[t].held]}
                                   ELSE @])

Proposal(t) ==
    \/ Propose(t) \/ ProposerVerified(t) \/ Acquire(t) \/ Extracted(t) \/ ClassifyTriple(t)
    \/ FirstCheck(t) \/ Precheck(t) \/ AuthorizeProposal(t) \/ SecondCheck(t)
    \/ InsertCandidate(t)

-----------------------------------------------------------------------------
(* prepare_offer and commit_offer *)

Offerable(c, p, now) ==
    /\ table[c].subject = p
    /\ table[c].status = "proposed" \/ Unanswered(table[c], now)
    /\ table[c].expiresAt > now
    /\ table[c].offers < MaxOffers
    /\ ~HasOpenOffer(table, p, now)

(* The oldest one: the deadline grows with the time of the proposal. *)
NextOfferable(p, now) ==
    {c \in CandId : /\ Offerable(c, p, now)
                    /\ \A d \in CandId : Offerable(d, p, now) =>
                                           table[c].expiresAt <= table[d].expiresAt}

PrepareOffer(t) ==
    \E p \in Person : \E c \in NextOfferable(p, clock) :
        Starts(t, "offer", Turn("offer", "voice", p, c, clock))

OffererVerified(t) ==
    /\ At(t, {"voice"}) /\ turn[t].kind = "offer"
    /\ VoiceVerifies(t, "prepared") \/ Moves(t, Idle)

(* The reply was built: the offer is committed with one clock reading. *)
CommitOffer(t) ==
    /\ At(t, {"prepared"})
    /\ Moves(t, [turn[t] EXCEPT !.at = "still", !.now = clock])

StillOfferable(t) ==
    /\ At(t, {"still"})
    /\ Moves(t, IF Offerable(turn[t].c, turn[t].p, turn[t].now) THEN To(t, "read") ELSE Idle)

AuthorizeRead(t) == At(t, {"read"}) /\ Authorize(t, "read", "mark")

\* Mutation of Mark: whether the update changed the row is not looked at.
MarkUnseen(t) ==
    /\ At(t, {"mark"})
    /\ MarkOffered(t, turn[t].c, turn[t].p, turn[t].now)
    /\ LET c == turn[t].c
           opened == table[c] # table'[c] /\ table'[c].status = "offered"
       IN  /\ turn' = [turn EXCEPT ![t].at = "marked", ![t].won = TRUE]
           /\ unasked' = [unasked EXCEPT ![c] = IF opened THEN @ + 1 ELSE @]
    /\ UNCHANGED <<consents, busy, starts, extracted, turns, mix>>

Mark(t) ==
    /\ At(t, {"mark"})
    /\ MarkOffered(t, turn[t].c, turn[t].p, turn[t].now)
    /\ LET c == turn[t].c
           opened == table[c] # table'[c] /\ table'[c].status = "offered"
       IN  /\ turn' = [turn EXCEPT ![t].at = "marked", ![t].won = opened]
           /\ unasked' = [unasked EXCEPT ![c] = IF opened THEN @ + 1 ELSE @]
    /\ UNCHANGED <<consents, busy, starts, extracted, turns, mix>>

(* The question is spoken after the reply, once the checkpoint is over. *)
AskQuestion(t) ==
    /\ At(t, {"marked"})
    /\ turn' = [turn EXCEPT ![t] = Idle]
    /\ unasked' = [unasked EXCEPT ![turn[t].c] = IF turn[t].won THEN @ - 1 ELSE @]
    /\ UNCHANGED <<vars, consents, busy, starts, extracted, turns, mix>>

Offer(t) ==
    \/ PrepareOffer(t) \/ OffererVerified(t) \/ CommitOffer(t) \/ StillOfferable(t)
    \/ AuthorizeRead(t) \/ Mark(t) \/ AskQuestion(t)

-----------------------------------------------------------------------------
(* answer_offer *)

(* find_offered: the offer that repeats the value, or the only open one. *)
OpenOffers(p, phrase, now) ==
    {c \in CandId : /\ table[c].subject = p /\ table[c].status = "offered"
                    /\ ~Unanswered(table[c], now)
                    /\ table[c].expiresAt > now
                    /\ phrase # NoClaim => table[c].claim = phrase}

FindOffered(p, phrase, now) ==
    LET open == OpenOffers(p, phrase, now)
    IN  IF Cardinality(open) = 1 THEN open ELSE {}

(* Without an open offer, or with a face whose voice did not verify, the *)
(* turn answers something else and touches nothing.                      *)
Answer(t) ==
    \E p \in Person, phrase \in Claim \union {NoClaim}, accept \in BOOLEAN :
        \E c \in FindOffered(p, phrase, clock) :
            /\ "voice" \in consents
            /\ Starts(t, "answer", [Turn("answer", "confirm", p, c, clock) EXCEPT
                                        !.strong = TRUE, !.accept = accept])

(* Once the offer is found, whatever goes wrong is said as a failure. *)
Says(t, words) == [turn[t] EXCEPT !.at = "said", !.said = words]

AuthorizeAnswer(t) ==
    /\ At(t, {"confirm"})
    /\ \/ Authorize(t, "confirm", "resolve")
       \/ mix.faults /\ Moves(t, Says(t, "failed"))

\* Mutation of Resolve: whatever promote did is announced as saved.
ResolveSaying(t) ==
    /\ At(t, {"resolve"})
    /\ LET c == turn[t].c
       IN  IF turn[t].accept
           THEN /\ Promote(t, c, turn[t].p, turn[t].now)
                /\ Goes(t, Says(t, "saved"))
           ELSE /\ Reject(t, c, turn[t].p, turn[t].now)
                /\ Goes(t, Says(t, "rejected"))

Resolve(t) ==
    /\ At(t, {"resolve"})
    /\ LET c == turn[t].c
           became(status) == ~(table[c].status = status) /\ table'[c].status = status
       IN  IF turn[t].accept
           THEN /\ Promote(t, c, turn[t].p, turn[t].now)
                /\ Goes(t, Says(t, IF became("confirmed") THEN "saved"
                                   ELSE IF became("rejected") THEN "contradiction"
                                   ELSE "failed"))
           ELSE /\ Reject(t, c, turn[t].p, turn[t].now)
                /\ Goes(t, Says(t, IF became("rejected") THEN "rejected" ELSE "failed"))

Answered(t) == At(t, {"said"}) /\ Moves(t, Idle)

(* A checkpoint that raises after the commit is said as a failure too, *)
(* although the answer has been kept.                                  *)
CheckpointFails(t) ==
    /\ mix.faults
    /\ turn[t].at = "said"
    /\ CheckpointRaised(t)
    /\ Goes(t, Says(t, "failed"))

Reply(t) == Answer(t) \/ AuthorizeAnswer(t) \/ Resolve(t) \/ CheckpointFails(t) \/ Answered(t)

-----------------------------------------------------------------------------
(* Everything else that happens meanwhile. *)

(* The client hangs up, or the step raises: a slot that is held is given   *)
(* back, a checkpoint that is running is cancelled with its debt recorded. *)
Cancel(t) ==
    /\ mix.faults
    /\ turn[t].at \notin {"idle", "said"}
    /\ \/ pc[t] = "idle" /\ UNCHANGED vars
       \/ CheckpointRaised(t)
    /\ turn' = [turn EXCEPT ![t] = Idle]
    /\ busy' = (busy /\ turn[t].at # "extract")
    /\ UNCHANGED <<consents, starts, extracted, unasked, turns, mix>>

Revoke(consent) ==
    /\ consent \in consents
    /\ consents' = consents \ {consent}
    /\ UNCHANGED <<vars, busy, starts, extracted, turn, unasked, turns, mix>>

(* A consent that is given again counts for every turn under way. *)
Give(consent) ==
    /\ consent \notin consents
    /\ consents' = consents \union {consent}
    /\ turn' = [t \in DOMAIN turn |->
                  IF t \in Talkers /\ turn[t] # Idle
                  THEN [turn[t] EXCEPT !.held = @ \union {consent}] ELSE turn[t]]
    /\ UNCHANGED <<vars, busy, starts, extracted, unasked, turns, mix>>

(* The process stops with every turn; limiter and slot start afresh. *)
StopTurns ==
    /\ mix.faults
    /\ Stop
    /\ turn' = [t \in DOMAIN turn |-> Idle]
    /\ busy' = FALSE /\ starts' = <<>> /\ extracted' = <<>>
    /\ UNCHANGED <<consents, unasked, turns, mix>>

StoreStep ==
    /\ \/ \E t \in Task : \/ StartCheckpoint(t) \/ SkipCheckpoint(t)
                          \/ \E truncated \in BOOLEAN : EndCheckpoint(t, truncated)
       \/ RetentionRun
       \/ Tick
       \/ \E on \in BOOLEAN : Reconcile(on)
       \/ \E truncated \in BOOLEAN : Serve(truncated)
       \/ \E p \in Person, k \in Edited \cap mix.edited : EditFact(p, k)
    /\ UNCHANGED dialogueVars

DialogueNext ==
    \/ \E t \in Talkers : Proposal(t) \/ Offer(t) \/ Reply(t) \/ Cancel(t)
    \/ DiaryStarts \/ DiaryEnds
    \/ \E consent \in mix.revocable : Revoke(consent) \/ Give(consent)
    \/ StopTurns
    \/ StoreStep

DialogueSpec == DialogueInit /\ [][DialogueNext]_allVars

(* Time passes, the retention job runs and its checkpoint returns, and a *)
(* stopped server is started again; a call of the model returns.         *)
FairDialogueSpec ==
    /\ DialogueSpec
    /\ WF_allVars(Tick /\ UNCHANGED dialogueVars)
    /\ WF_allVars(RetentionRun /\ UNCHANGED dialogueVars)
    /\ WF_allVars(Checkpoint(Retention) /\ UNCHANGED dialogueVars)
    /\ WF_allVars((\E on \in BOOLEAN : Reconcile(on)) /\ UNCHANGED dialogueVars)
    /\ WF_allVars((\E truncated \in BOOLEAN : Serve(truncated)) /\ UNCHANGED dialogueVars)

-----------------------------------------------------------------------------
(* A taste is stored only if, after its own audit row, the face's and the  *)
(* voice's consent were each active: a revocation that is complete before  *)
(* the audit stops the write, however long the model took and whatever the *)
(* turn has stored before (candidate_proposal._store).                     *)
StoredWhileEnrolled ==
    \A t \in Talkers : turn[t] # Idle => \A s \in turn[t].stored : s.held = Both

(* Whatever the extractor returns, a turn stores only what the gate heard  *)
(* the owner say of themselves (classify, match_preference).               *)
StoredWasSaid ==
    \A t \in Talkers : turn[t] # Idle => \A s \in turn[t].stored : s.claim \in turn[t].matches

(* The slot is taken exactly while one turn, or the diary, is waiting for  *)
(* the model, whatever fails or is cancelled, and no span of an hour has   *)
(* more starts than the budget, although the limiter forgets the old ones  *)
(* (ExtractionLimiter).                                                    *)
ExtractionIsMetered ==
    /\ Cardinality({t \in DOMAIN turn : turn[t].at = "extract"}) = IF busy THEN 1 ELSE 0
    /\ \A i \in 1..Len(extracted) - PerHour : extracted[i + PerHour] >= extracted[i] + Hour

(* The owner is asked once for every time a candidate is opened, by the    *)
(* turn that opened it, although several turns prepare the same offer      *)
(* (prepare_offer, commit_offer, mark_offered).                            *)
OneQuestionPerOffer == \A c \in CandId : unasked[c] >= 0

(* What an answer announces is what its transaction did: "saved" with the  *)
(* fact active, "rejected" and "contradiction" with the candidate closed,  *)
(* "failed" with neither its doing (answer_offer, promote); only a         *)
(* checkpoint that raises turns the words of a kept answer into "failed".  *)
AnswersAreTrue ==
    [][\A t \in Talkers :
          turn[t] # Idle /\ turn'[t] # Idle /\ turn'[t].said \notin {"nothing", turn[t].said} =>
          LET c == turn[t].c
              settled == Live(table[c]) /\ table'[c].status \in {"confirmed", "rejected"}
          IN  CASE turn'[t].said = "saved"  -> /\ table'[c].status = "confirmed"
                                               /\ table[c].claim \in facts'[turn[t].p]
                [] turn'[t].said = "failed" -> ~settled
                [] OTHER                    -> settled /\ table'[c].status = "rejected"]_allVars
=============================================================================
