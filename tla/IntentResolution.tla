-------------------------- MODULE IntentResolution --------------------------
(***************************************************************************)
(* What a message needs: the ordered, closed rules of                      *)
(* cognition/intent_resolution.py with the grammars they use               *)
(* (cognition/recall_cues.py, cognition/sensitive_questions.py,            *)
(* secret_values.py and the answers to a memory offer).                    *)
(***************************************************************************)
EXTENDS HouseholdRequest

(* Recall cues, and the questions about the name of a relative. *)
StrongPhrases   == {"te_conte"}
WeakPhrases     == {"te_acuerdas"}
WindowWords     == {"ayer"}
StopWords       == LeadingFillers \union OwnPossessives \union Articles \union Interrogatives
                     \union WhyOpenings \union {"su", "de", "es", "para", "si"}
RelationWords   == {"mama", "pareja", "perro"}
RelativeShapes  == {<<"como", "se_llama", "mi">>, <<"quien", "es", "mi">>}

Strength(words) ==
    CASE Has(words, StrongPhrases) -> "strong"
      [] Has(words, WeakPhrases)   -> "weak"
      [] OTHER                     -> "none"

IsQuestion(message) ==
    \/ Marked(message)
    \/ OpensWith(Words(message), Interrogatives \union StrongPhrases \union WeakPhrases)

(* A cue with neither a date nor a content word is no recall question. *)
ClassifyRecallCue(message) ==
    LET words == Words(message)
        cue   == StrongPhrases \union WeakPhrases \union WindowWords
        query == Body(SelectSeq(words, LAMBDA word : word \notin cue))
    IN  IF /\ IsQuestion(message)
           /\ Has(words, WindowWords) \/ \E i \in DOMAIN query : query[i] \notin StopWords
        THEN Strength(words) ELSE "none"

(* The relation asked about, as the word that names it. *)
RelationsOf(words) ==
    {word \in RelationWords : \E shape \in RelativeShapes : HasPhrase(words, Append(shape, word))}

-----------------------------------------------------------------------------
(* The owner's own sensitive questions.  The phrase opens the body; a      *)
(* closed topic allows only fillers after it, an open one names what is    *)
(* asked in the words that follow.                                         *)
SensitiveOpeners         == {"dime"}
SensitiveTrailingFillers == {"po", "oye"}
SecretWords              == {"clave", "codigo"}
DocumentWords            == {"testamento"}
DocumentReach            == 3

SensitivePhrases ==
    [medication        |-> {<<"que_remedios_tomo">>},
     anticoagulant     |-> {<<"tomo_anticoagulante">>},
     own_birthday      |-> {<<"cuando_es_mi_cumple">>},
     child_birthday    |-> {<<"cuando", "cumple">>, <<"cuando", "nacio">>},
     secret_holder     |-> {<<"quien", "tiene", "la">>},
     document_location |-> {<<"donde_guardo">>}]

Topics   == DOMAIN SensitivePhrases
Security == {"secret_holder", "document_location"}
NoQuery  == [topic |-> "none", keywords |-> {}]

SensitiveBody(message) ==
    DropLeading(Words(message), LeadingFillers \union AsideOpenings \union SensitiveOpeners)

(* Where the span of the topic may end, after its phrase. *)
SpanEnds(topic, body, phraseEnd) ==
    CASE topic = "secret_holder" ->
             {i \in {phraseEnd + 1} \intersect DOMAIN body : body[i] \in SecretWords}
      [] topic = "document_location" ->
             {i \in phraseEnd + 1..phraseEnd + DocumentReach :
                  i \in DOMAIN body /\ body[i] \in DocumentWords}
      [] OTHER -> {phraseEnd}

TailOf(topic, phrase, body) ==
    LET end == Min(SpanEnds(topic, body, Len(phrase)))
    IN  DropTrailing(SubSeq(body, end + 1, Len(body)), SensitiveTrailingFillers)

Asked(topic, phrase, message) ==
    LET body == SensitiveBody(message)
    IN  /\ IsPrefix(phrase, body)
        /\ SpanEnds(topic, body, Len(phrase)) # {}
        /\ topic \in {"medication", "anticoagulant", "own_birthday"} => TailOf(topic, phrase, body) = <<>>
        /\ topic = "anticoagulant" => Marked(message)

ClassifySensitiveQuestion(message) ==
    LET found == {q \in UNION {{topic} \X SensitivePhrases[topic] : topic \in Topics} :
                      Asked(q[1], q[2], message)}
    IN  IF found = {} THEN NoQuery
        ELSE LET query == CHOOSE q \in found : TRUE
             IN  [topic    |-> query[1],
                  keywords |-> ToSet(TailOf(query[1], query[2], SensitiveBody(message)))]

-----------------------------------------------------------------------------
(* A secret stated, asked for, or offered; "es clave" says important. *)
CopulaSecretWords == {"clave"}
DeveloperWords    == {"codigo"}
ValueWords        == {"mil"}
SlangBeforeClave  == {"es"}
Copulas           == {"es"}
ValueWindow       == 6
AskOpeners        == {"dime"}
OfferOpeners      == {"guarda"}
OfferReach        == 3
Objects           == {"del_banco"}

IsSecretWord(words, i) ==
    /\ i \in DOMAIN words
    /\ words[i] \in SecretWords
    /\ words[i] \in CopulaSecretWords => i = 1 \/ words[i - 1] \notin SlangBeforeClave

StatesAValue(words) ==
    \E i \in DOMAIN words, j \in DOMAIN words :
        /\ IsSecretWord(words, i)
        /\ j \in i + 1..i + ValueWindow
        /\ \/ words[j] \in ValueWords
           \/ words[i] \in CopulaSecretWords /\ words[j] \in Copulas /\ j < Len(words)

(* "mi clave", but "la clave" only of an object. *)
NamesASecret(words, i) ==
    /\ IsSecretWord(words, i + 1)
    /\ \/ words[i] \in OwnPossessives
       \/ words[i] \in Articles /\ Has(Slice(words, i + 2, i + 2), Objects)

AsksForAValue(words) ==
    \E i \in DOMAIN words :
        \/ words[i] \in AskOpeners /\ NamesASecret(words, i + 1)
        \/ words[i] = "que" /\ IsSecretWord(words, i + 1) /\ Has(Slice(words, i + 2, i + 2), {"tengo"})

OffersASecret(words) ==
    LET body == Body(words)
    IN  /\ OpensWith(words, OfferOpeners)
        /\ \E i \in 2..OfferReach + 1 :
             /\ IsSecretWord(body, i)
             /\ body[i] \in DeveloperWords => i > 2 /\ NamesASecret(body, i - 1)

SecretKind(words) ==
    CASE StatesAValue(words)  -> "stated"
      [] AsksForAValue(words) -> "asked"
      [] OffersASecret(words) -> "offered"
      [] OTHER                -> "none"

-----------------------------------------------------------------------------
(* The answer to a memory offer: openers, one closed verb, maybe the value *)
(* and courtesies.  A short verb is ordinary speech without its cue.       *)
AnswerOpeners   == {"oye", "po", "si"}
AnswerTrailers  == {"po"}
AcceptPrefixes  == {"autorizo", "guarda"}
RejectPrefixes  == {"no_autorizo", "no_guardes"}
ShortPrefixes   == {"guarda", "no_guardes"}
AloneAfterYes   == {"guarda"}
LongTrailers    == {"si", "autorizo"}
LongLeaders     == {"si"}
SaveForms       == {"a_guardar"}
Connectors      == {"que"}
MaxPhraseWords  == 6
NoAnswer        == [accept |-> FALSE, phrase |-> <<"none">>]

DropAllLeading(words, class) ==
    IF ToSet(words) \subseteq class THEN <<>> ELSE DropLeading(words, class)

(* The words of the value after the verb. *)
ValueOf(verb, words) ==
    LET emphatic == IF verb \in ShortPrefixes THEN words
                    ELSE DropAllLeading(DropTrailing(words, LongTrailers), LongLeaders)
    IN  IF Has(Slice(emphatic, 1, 1), SaveForms) THEN Tail(emphatic) ELSE emphatic

AnswerAlone(verb, affirmed) ==
    verb \in ShortPrefixes => verb \in RejectPrefixes \/ (verb \in AloneAfterYes /\ affirmed)

ParseMemoryAnswer(words) ==
    LET text     == DropTrailing(DropAllLeading(words, AnswerOpeners), AnswerTrailers)
        affirmed == Has(Slice(words, 1, Len(words) - Len(DropAllLeading(words, AnswerOpeners))), {"si"})
        verb     == text[1]
        value    == ValueOf(verb, Tail(text))
        owned    == Has(Slice(value, 1, 1), OwnPossessives)
        phrase   == IF owned THEN Tail(value) ELSE value
        parsed   == [accept |-> verb \in AcceptPrefixes, phrase |-> phrase]
    IN  IF text = <<>> \/ ~Has(Slice(text, 1, 1), AcceptPrefixes \union RejectPrefixes) THEN NoAnswer
        ELSE IF phrase = <<>>
        THEN IF ~owned /\ AnswerAlone(verb, affirmed) THEN parsed ELSE NoAnswer
        ELSE IF \/ Head(phrase) \in Connectors \/ Len(phrase) > MaxPhraseWords
                \/ verb \in ShortPrefixes /\ ~owned /\ Head(phrase) \notin Articles
        THEN NoAnswer ELSE parsed

IsAnswer(message) == ParseMemoryAnswer(Words(message)) # NoAnswer

-----------------------------------------------------------------------------
(* The rules, and the phrases each takes. *)
EnrolmentPhrases == {"aprende_mi_cara"}
EnrolmentOpening == {"conoce_a"}
IdentityPhrases  == {"quien_soy"}
ProfilePhrases   == {<<"que_sabes_de_mi">>, <<"que", "te_conte">>}
ScenePhrases     == {"que_ves"}
DatePhrases      == {"que_dia_es_hoy"}
DateAliases      == {<<"me_dice_la_fecha">>}
AmbiguousAliases == {<<"que_dia_soy">>}
OwnAge           == {"cuantos_anos_tengo"}
IsoDates         == {"iso_date"}
AgeWords         == OwnAge \union {"edad"}
RelationshipWords == {"que_relacion_tengo", "relacion"}

\* Mutation of RecallHolds: any cue goes to the diary.
RecallHoldsAtOnce(message) == ClassifyRecallCue(message) # "none"

(* A weak cue gives way to the household's rule: only a strong one goes to *)
(* the diary before it.                                                    *)
RecallHolds(message) ==
    \/ ClassifyRecallCue(message) = "strong"
    \/ ClassifyRecallCue(message) = "weak" /\ ~RequestsHouseholdData(message)

ProtectedHolds(message) ==
    IF IsAnswer(message) THEN MentionsTheHousehold(Words(message))
    ELSE RequestsHouseholdData(message)

AgeHolds(message) ==
    LET words == Words(message)
    IN  /\ Has(words, AgeWords)
        /\ \/ Has(words, OwnAge \union IsoDates) \/ IsAnswer(message)
           \/ HasPhrase(words, <<"mi", "edad">>) /\ StatesARequest(words, Marked(message))

RelationshipHolds(message) ==
    /\ Has(Words(message), RelationshipWords)
    /\ IsAnswer(message) \/ Has(Words(message), {"que_relacion_tengo"})

RuleHolds(rule, message) ==
    LET words == Words(message)
    IN  CASE rule = "stated_secret"        -> SecretKind(words) = "stated"
          [] rule = "sensitive_question"   -> ClassifySensitiveQuestion(message) # NoQuery
          [] rule = "asked_secret"         -> SecretKind(words) \in {"asked", "offered"}
          [] rule = "own_children_list"    -> HasPhrase(words, <<"quienes_son", "mi", "hijo">>)
          [] rule = "own_children_count"   -> HasPhrase(words, <<"cuantos", "hijo", "tengo">>)
          [] rule = "own_child_name"       -> \E shape \in RelativeShapes, child \in ChildWords :
                                                  HasPhrase(words, Append(shape, child))
          [] rule = "relatives"            -> RelationsOf(words) # {}
          [] rule = "recall"               -> RecallHolds(message)
          [] rule = "protected_household"  -> ProtectedHolds(message)
          [] rule = "biometric_enrollment" -> \/ OpensWith(words, EnrolmentOpening)
                                              \/ Has(words, EnrolmentPhrases)
          [] rule = "active_identity"      -> Has(words, IdentityPhrases)
          [] rule = "profile_summary"      -> \E phrase \in ProfilePhrases : IsSuffix(phrase, words)
          [] rule = "ambiguous_date"       -> words \in AmbiguousAliases
          [] rule = "current_date_stt"     -> words \in DateAliases
          [] rule = "current_date"         -> Has(words, DatePhrases)
          [] rule = "explicit_age"         -> AgeHolds(message)
          [] rule = "relationship"         -> RelationshipHolds(message)
          [] rule = "scene_description"    -> Has(words, ScenePhrases)
          [] rule = "memory_answer"        -> IsAnswer(message)

If(on, rules) == IF on THEN rules ELSE <<>>

(* The order decides; the answer is last, so what is also protected, dated *)
(* or about an identity is never taken for one.                            *)
RulesFor(on) ==
    If("secrets" \in on, <<"stated_secret">>)
    \o If("sensitive" \in on, <<"sensitive_question">>)
    \o If("secrets" \in on, <<"asked_secret">>)
    \o <<"own_children_list", "own_children_count">>
    \o If("recall" \in on, <<"own_child_name", "relatives", "recall">>)
    \o <<"protected_household", "biometric_enrollment", "active_identity", "profile_summary",
         "ambiguous_date", "current_date_stt", "current_date", "explicit_age", "relationship",
         "scene_description", "memory_answer">>

Rules == ToSet(RulesFor({"recall", "sensitive", "secrets"}))

HoldingRules(message) == {rule \in Rules : RuleHolds(rule, message)}

(* The first rule that holds, of those that run; none is conversation. *)
ResolveInformationNeed(holding, on) ==
    LET rules == RulesFor(on)
        holds == {i \in DOMAIN rules : rules[i] \in holding}
    IN  IF holds = {} THEN "generic_conversation" ELSE rules[Min(holds)]
=============================================================================
