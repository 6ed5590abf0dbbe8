----------------------------- MODULE TasteGate -----------------------------
(***************************************************************************)
(* Whether what the owner said declares a taste of their own, and which of *)
(* the extractor's triples may be kept: the pure decisions of              *)
(* memory/preference_gate.py and memory/candidate_classifier.py.           *)
(*                                                                         *)
(* Words are abstracted to what the rules tell apart.  A sentence is a     *)
(* sequence of clauses [parts, filler, stop]: the parts between            *)
(* coordinations, whether the clause has only lead-in words, and whether a *)
(* hard stop ends it.  A part is "plain", or what surrounds a trigger:     *)
(*   [claim, lead, object, contrast].                                      *)
(* A triple is [claim, topic, shape, words], the claim being what its      *)
(* predicate and its object amount to.                                     *)
(***************************************************************************)
EXTENDS Integers, Sequences, SequencesExt

CONSTANT Predicate   \* Predicate[k]: the predicate of the claim k

Reasons == {"not_a_taste", "negation_unsupported", "sensitive_topic", "gate_no_match",
            "gate_mismatch", "not_grounded"}

Plain == [claim |-> "none", lead |-> "none", object |-> "none", contrast |-> "none"]

HasTrigger(part) == part # Plain

LeadRefusal(part) ==
    CASE part.lead = "negator" -> "negation_unsupported"
      [] part.lead = "other"   -> "not_a_taste"
      [] OTHER                 -> "none"

ObjectRefusal(part) ==
    CASE part.object \in {"nothing", "clause", "person"} -> "not_a_taste"
      [] part.object = "negator" -> "negation_unsupported"
      [] part.object = "denied"  -> "sensitive_topic"
      [] OTHER -> "none"

(* "... menos X" denies part of it; "prefiero X a Y" compares. *)
ContrastRefusal(part) ==
    IF \/ part.contrast = "exclusion"
       \/ part.contrast = "comparison" /\ Predicate[part.claim] = "prefers"
    THEN "negation_unsupported" ELSE "none"

FirstRefusal(reasons) ==
    LET refused == {i \in DOMAIN reasons : reasons[i] # "none"}
    IN  IF refused = {} THEN "none" ELSE reasons[Min(refused)]

MatchPart(part) ==
    FirstRefusal(<<LeadRefusal(part), ObjectRefusal(part), ContrastRefusal(part)>>)

-----------------------------------------------------------------------------
(* One clause: words that are not a lead-in, before a soft break, put what *)
(* follows in somebody else's mouth until the sentence ends.               *)

NoOutcome == [matches |-> {}, refusal |-> "none", attributed |-> FALSE]

MatchClause(so_far, clause) ==
    LET triggers == SelectSeq(clause.parts, HasTrigger)
        verdicts == [i \in DOMAIN triggers |-> MatchPart(triggers[i])]
        heard    == triggers # <<>> /\ ~so_far.attributed
        own      == {triggers[i].claim : i \in {j \in DOMAIN triggers : verdicts[j] = "none"}}
        refused  == CASE triggers = <<>>    -> "none"
                      [] so_far.attributed  -> "not_a_taste"
                      [] OTHER              -> FirstRefusal(verdicts)
    IN  [matches    |-> so_far.matches \union (IF heard THEN own ELSE {}),
         refusal    |-> FirstRefusal(<<so_far.refusal, refused>>),
         attributed |-> /\ ~clause.stop
                        /\ so_far.attributed \/ (triggers = <<>> /\ ~clause.filler)]

MatchPreference(clauses, question) ==
    LET outcome == FoldLeft(MatchClause, NoOutcome, clauses)
    IN  IF question THEN [matches |-> {}, reason |-> "not_a_taste"]
        ELSE IF outcome.matches # {} THEN [matches |-> outcome.matches, reason |-> "none"]
        ELSE [matches |-> {},
              reason  |-> FirstRefusal(<<outcome.refusal, "gate_no_match">>)]

-----------------------------------------------------------------------------
(* The classifier. *)

PairRefusal(triple, matches) ==
    IF Predicate[triple.claim] \notin {Predicate[k] : k \in matches} THEN "gate_mismatch"
    ELSE IF triple.topic # "taste" THEN "sensitive_topic"
    ELSE "none"

(* "denied" stands for a denied word, a name inside the sentence, or a word *)
(* of somebody the house knows.                                             *)
PhraseRefusal(triple) ==
    IF triple.shape # "phrase" THEN "not_a_taste"
    ELSE IF triple.words = "denied" THEN "sensitive_topic"
    ELSE "none"

Grounding(triple, matches) == IF triple.claim \in matches THEN "none" ELSE "not_grounded"

Classify(triple, matches) ==
    FirstRefusal(<<PairRefusal(triple, matches), PhraseRefusal(triple),
                   Grounding(triple, matches)>>)
=============================================================================
