-------------------------- MODULE HouseholdRequest --------------------------
(***************************************************************************)
(* Does a message ask about the household: the closed grammar of           *)
(* cognition/household_request.py.                                         *)
(*                                                                         *)
(* A message is a sequence of sentences [words, mark]; "mark" says whether *)
(* the sentence asks, exclaims or neither, a closing tag such as           *)
(* "cachai?" set aside.  Each list of words or phrases of the code is a    *)
(* set that holds a representative or two, a phrase being one word here;   *)
(* a word is in as many sets as in the code.                               *)
(***************************************************************************)
EXTENDS Integers, Sequences, SequencesExt

LeadingFillers  == {"oye", "po"}
TrailingFillers == {"po"}
AsideOpenings   == {"sabes_que"}
ClosingAsides   == {"no_me_acuerdo"}
WhyOpenings     == {"por_que"}

OwnPossessives == {"mi"}
Possessives    == OwnPossessives \union {"su"}
Articles       == {"la"}

ChildWords                     == {"hijo"}
HouseholdWords                 == ChildWords \union {"mama"}
HouseholdWordsNeedingPossessive == {"pareja"}
MoreRelatives                  == {"suegra"}
PetWords                       == {"perro"}
RelativeOrPet ==
    HouseholdWords \union HouseholdWordsNeedingPossessive \union MoreRelatives \union PetWords

HouseholdPhrases  == {"le_gusta"}
BirthWords        == {"nacio"}
DataWords         == BirthWords \union HouseholdPhrases \union {"cumple", "se_llama"}
SoftDataWords     == {"sabes", "te_acuerdas"}
SoftDataLinks     == {"de"}
VerblessDataNouns == {"edad"}
VerblessLinks     == BirthWords \union {"de"}

AdviceWords  == {"regalo"}
RobotPhrases == {"te_gusta"}

Interrogatives      == {"que", "quien", "cuando", "como", "cuantos"}
SubordinatingOpeners == {"que", "cuando", "como"}
CountWords          == {"cuantos"}
RequestPhrases      == {"dime", "sabes", "te_acuerdas"} \union ClosingAsides
FirstPersonHave     == {"tengo"}

HaveReach        == 2
ReferenceReach   == 2
ClosingWords     == 2
VerblessMinWords == 3

-----------------------------------------------------------------------------
(* At most up to the end of the words. *)
Slice(words, first, last) == SubSeq(words, first, Min({last, Len(words)}))

Has(words, class) == \E i \in DOMAIN words : words[i] \in class

Follows(words, first, second) ==
    \E i \in 2..Len(words) : words[i - 1] \in first /\ words[i] \in second

HasPhrase(words, phrase) ==
    \E i \in DOMAIN words : Slice(words, i, i + Len(phrase) - 1) = phrase

(* The words from the first that is not in the class; all, if all are. *)
DropLeading(words, class) ==
    LET kept == {i \in DOMAIN words : words[i] \notin class}
    IN  IF kept = {} THEN words ELSE SubSeq(words, Min(kept), Len(words))

DropTrailing(words, class) ==
    SubSeq(words, 1, Max({0} \union {i \in DOMAIN words : words[i] \notin class}))

Body(words) == DropLeading(words, LeadingFillers \union AsideOpenings)

OpensWith(words, class) == Has(Slice(Body(words), 1, 1), class)

Words(message)  == FoldLeft(LAMBDA all, sentence : all \o sentence.words, <<>>, message)
Marked(message) == \E i \in DOMAIN message : message[i].mark = "asks"

-----------------------------------------------------------------------------
NamesTheHousehold(words) ==
    \E i, j \in DOMAIN words : /\ words[i] \in OwnPossessives
                               /\ j \in i + 1..i + ReferenceReach
                               /\ words[j] \in RelativeOrPet

(* The broad test, for what has the shape of an answer. *)
MentionsTheHousehold(words) ==
    \/ Has(words, HouseholdWords \union BirthWords \union HouseholdPhrases)
    \/ Follows(words, Possessives, HouseholdWordsNeedingPossessive)
    \/ NamesTheHousehold(words)

PointsAt(words, i) ==
    /\ Follows(Slice(words, i, i + 1), SoftDataWords, SoftDataLinks)
    /\ Len(words) > i + 1 + (IF Has(Slice(words, i + 2, i + 2), Articles) THEN 1 ELSE 0)

AsksForADatum(words) ==
    \/ Has(words, DataWords)
    \/ HasPhrase(words, <<"edad", "de">>) \/ HasPhrase(words, <<"quien", "es">>)
    \/ Follows(words, CountWords, RelativeOrPet)
    \/ \E i \in DOMAIN words : PointsAt(words, i)

(* Without an accent, "cuando mi hijo llega" opens a story. *)
OpensWithAnInterrogative(words) ==
    /\ OpensWith(words, Interrogatives)
    /\ ~Follows(Slice(Body(words), 1, 2), SubordinatingOpeners, Possessives)

StatesARequest(words, marked) ==
    marked \/ OpensWith(words, RequestPhrases) \/ OpensWithAnInterrogative(words)

ClosesOnTheHousehold(words) ==
    LET ended == DropTrailing(words, TrailingFillers)
        end   == Len(ended) - (IF ended # <<>> /\ Last(ended) \in ClosingAsides THEN 1 ELSE 0)
    IN  \E i \in DOMAIN ended : i \in end - ClosingWords + 1..end /\ ended[i] \in RelativeOrPet

HouseholdRequestForm(words, marked) ==
    \/ marked \/ OpensWith(words, RequestPhrases)
    \/ OpensWithAnInterrogative(words) /\ ClosesOnTheHousehold(words)

(* "la edad de mi hija": a datum, then the person, then maybe a name. *)
IsVerblessRequest(words) ==
    LET body  == Body(DropTrailing(words, TrailingFillers))
        datum == IF Has(Slice(body, 1, 1), Articles) THEN Tail(body) ELSE body
        named == Len(datum) > VerblessMinWords /\ Last(datum) \notin RelativeOrPet
        n     == IF named THEN Len(datum) - 1 ELSE Len(datum)
    IN  /\ Len(datum) >= VerblessMinWords
        /\ datum[1] \in VerblessDataNouns
        /\ datum[n - 1] \in OwnPossessives /\ datum[n] \in RelativeOrPet
        /\ \A i \in 2..n - 2 : datum[i] \in VerblessLinks

AsksWhatOneHas(words, marked) ==
    LET Near(i) == {words[j] : j \in (DOMAIN words \intersect i - HaveReach..i + HaveReach) \ {i}}
        have    == {i \in DOMAIN words : /\ words[i] \in FirstPersonHave
                                         /\ Near(i) \intersect RelativeOrPet # {}}
    IN  /\ marked \/ OpensWithAnInterrogative(words)
        /\ have # {}
        /\ Near(Min(have)) \intersect OwnPossessives = {}

AsksWhy(words) == Has(Slice(DropLeading(words, LeadingFillers), 1, 1), WhyOpenings)

AfterTheRequestOpening(words) ==
    IF OpensWith(words, RequestPhrases) THEN Tail(Body(words)) ELSE Body(words)

(* A request phrase is passed over: "para" and "mi" meet across it. *)
AsksAdviceOrSpeaksToTheRobot(words) ==
    LET rest == AfterTheRequestOpening(words)
    IN  \/ AsksWhy(words)
        \/ Has(rest, AdviceWords \union RobotPhrases)
        \/ \E i, j \in DOMAIN rest :
             /\ i < j /\ rest[i] = "para" /\ rest[j] \in OwnPossessives
             /\ \A k \in i + 1..j - 1 : rest[k] \in RequestPhrases

(* "mi nieto como se llama": the question follows the relative right away. *)
SubjectFirstQuestion(words) ==
    LET body  == Body(words)
        named == {i \in DOMAIN body : i \in 2..ReferenceReach + 1 /\ body[i] \in RelativeOrPet}
    IN  /\ OpensWith(words, OwnPossessives)
        /\ named # {}
        /\ IsPrefix(<<"como", "se_llama">>, SubSeq(body, Min(named) + 1, Len(body)))

SentenceRequests(sentence) ==
    LET words  == sentence.words
        marked == sentence.mark = "asks"
    IN  \/ AsksWhatOneHas(words, marked)
        \/ /\ NamesTheHousehold(words)
           /\ \/ IsVerblessRequest(words)
              \/ /\ sentence.mark # "exclaims"
                 /\ HouseholdRequestForm(words, marked) \/ SubjectFirstQuestion(words)
                 /\ ~AsksAdviceOrSpeaksToTheRobot(words)

(* A question and a story beside it never add up. *)
RequestsHouseholdData(message) == \E i \in DOMAIN message : SentenceRequests(message[i])

(* A datum of somebody it does not name as family. *)
RequestsDataOfAName(message) ==
    \E i \in DOMAIN message :
        LET words == message[i].words
        IN  /\ ~NamesTheHousehold(words)
            /\ AsksForADatum(words)
            /\ StatesARequest(words, message[i].mark = "asks")
=============================================================================
