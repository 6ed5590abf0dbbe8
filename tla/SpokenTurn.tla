----------------------------- MODULE SpokenTurn -----------------------------
(***************************************************************************)
(* A spoken or written message through the cognitive controller            *)
(* (cognition/controller.py, routers/transcribe.py): what it needs, who    *)
(* says it, and whether a closed branch answers it or the language model   *)
(* does.  The branches that read run as requests of HouseholdAccess.       *)
(***************************************************************************)
EXTENDS HouseholdAccess, IntentResolution

CONSTANTS
    Messages,       \* bound: what may be said
    StoredNames     \* the words that name somebody the household stores

ASSUME MessagesAssumption ==
    \A message \in Messages :
        message \in Seq([words : Seq(STRING), mark : {"asks", "exclaims", "none"}])

VARIABLE turn       \* the message each request answers

spokenVars == <<vars, turn>>

Nothing == <<>>
Silent  == [said |-> Nothing, on |-> {}, weak |-> FALSE,
            family |-> FALSE, name |-> FALSE, reply |-> "none"]

SpokenInit == Init /\ turn = [r \in Requests |-> Silent]

Names(message) == \E i \in DOMAIN message : Has(message[i].words, StoredNames)

-----------------------------------------------------------------------------
(* A question about the family or a pet of the speaker, as anybody would   *)
(* put it: "my" right before the relative, a question mark or an opening   *)
(* "dime", and no advice, no taste of the robot's and no "why".            *)
AsksAboutTheFamily(sentence) ==
    LET words == sentence.words
        spoken == {i \in DOMAIN words : words[i] \notin LeadingFillers \union AsideOpenings}
    IN  /\ \E i \in 2..Len(words) : words[i - 1] = "mi" /\ words[i] \in RelativeOrPet
        /\ \A i \in DOMAIN words :
             words[i] \notin AdviceWords \union RobotPhrases \union WhyOpenings \union {"para"}
        /\ \/ sentence.mark = "asks"
           \/ /\ sentence.mark = "none"
              /\ \E i \in spoken : words[i] = "dime" /\ \A j \in spoken : i <= j

(* A message with a stored name and no relative that no rule takes by its *)
(* words, but for a birthday.                                             *)
AsksOnlyOfAName(message) ==
    /\ Names(message) /\ ~Has(Words(message), RelativeOrPet)
    /\ HoldingRules(message) \subseteq {"sensitive_question"}
    /\ ClassifySensitiveQuestion(message).topic \in {"none", "child_birthday"}

-----------------------------------------------------------------------------
(* What the controller does about a rule: it ends the turn, or goes on as  *)
(* a request of some kind whose actor is observed first.                   *)
Ended(reply)     == [reply |-> reply, kind |-> "none", then |-> "none"]
Goes(kind, then) == [reply |-> "pending", kind |-> kind, then |-> then]

(* "closed" is the controller's own plan, or a turn that failed;           *)
(* "generation" is the language model.  These rules read nothing stored.   *)
Refusals             == {"stated_secret", "asked_secret", "biometric_enrollment"}
AnsweredFromTheClock == {"ambiguous_date", "current_date_stt", "current_date", "explicit_age"}
WhoIsThere           == {"active_identity"}
Closed == Refusals \union AnsweredFromTheClock \union WhoIsThere
          \union {"relationship", "scene_description"}

SensitiveOutcome(query) ==
    CASE query.topic \in Security -> Goes("security", "ask")
      [] query.topic = "own_birthday" -> Goes("own_birthday", "ask")
      [] query.topic \in {"medication", "anticoagulant"} -> Goes("medical", "ask")
      [] query.keywords \intersect ChildWords # {} -> Goes("birthdays", "ask")
      [] OTHER -> Goes("birthdays", "judge_child")

(* A read of the stored names that fails is a house that knows nobody. *)
AsksAboutKnownName(message, on) ==
    "names" \in on /\ RequestsDataOfAName(message) /\ Names(message)

Outcomes(message, rule, on) ==
    CASE rule \in Closed -> {Ended("closed")}
      [] rule \in {"own_children_list", "own_child_name"} -> {Goes("children", "ask")}
      [] rule = "own_children_count"                      -> {Goes("count", "ask")}
      [] rule = "relatives" ->
             {Goes(IF "pareja" \in RelationsOf(Words(message)) THEN "partner" ELSE "relatives", "ask")}
      [] rule = "recall"              -> {Goes("recall", "ask")}
      [] rule = "sensitive_question"  -> {SensitiveOutcome(ClassifySensitiveQuestion(message))}
      [] rule = "protected_household" -> {Goes("household", "ask")}
      [] rule = "profile_summary"     ->
             {IF "profile" \in on THEN Goes("profile", "ask") ELSE Ended("generation")}
      [] rule = "memory_answer"       -> {Ended("closed"), Ended("generation")}
      [] OTHER ->
             {Ended("generation")} \union
             (IF AsksAboutKnownName(message, on) THEN {Goes("household", "judge_name")} ELSE {})

-----------------------------------------------------------------------------
(* What the turn remembers of a message. *)
Heard(message) ==
    [Silent EXCEPT
        !.family = ~IsAnswer(message) /\ \E i \in DOMAIN message : AsksAboutTheFamily(message[i]),
        !.name = AsksOnlyOfAName(message)]

(* How the turn goes on; the message is kept while it may be resolved again. *)
Resolved(heard, message, on, rule, outcome) ==
    LET again == outcome.then = "judge_child"
    IN  [heard EXCEPT
            !.said = IF again THEN message ELSE Nothing,
            !.on = IF again THEN on ELSE {},
            !.weak = rule = "recall" /\ ClassifyRecallCue(message) = "weak",
            !.reply = outcome.reply]

(* What a setting wires into the controller of a voice turn: without the  *)
(* memory there is no reader at all and no guard of the secrets.          *)
Wired(settings) ==
    IF "memory" \in settings
    THEN {"names", "secrets"} \union (settings \intersect {"profile", "recall", "sensitive"})
    ELSE {}

SetReply(r, reply) == turn' = [turn EXCEPT ![r].reply = reply]

(* Whoever is in the frame, with the token their robot holds. *)
Hear(r) ==
    /\ req[r] = New /\ turn[r] = Silent
    /\ Bounds.switches[r] # {}
    /\ \E message \in Messages :
       LET holding == HoldingRules(message)
           heard   == Heard(message)
       IN  \E settings \in Bounds.switches[r] :
           LET on   == Wired(settings)
               rule == ResolveInformationNeed(holding, on)
           IN  \E outcome \in Outcomes(message, rule, on) :
               /\ turn' = [turn EXCEPT ![r] = Resolved(heard, message, on, rule, outcome)]
               /\ IF outcome.reply = "pending"
                  THEN \E frame \in Bounds.frames, clip \in Bounds.clips, token \in Bounds.tokens[r] :
                         Local(r, Started(outcome.kind, frame, clip, token, outcome.then))
                  ELSE UNCHANGED vars

(* Only the roles that the policy lets read the household's data reach the *)
(* protected branch by a name, or the refusal would confirm the name.      *)
MayReadTheHousehold(actor) == actor.status = "identified" /\ actor.role \in {"owner", "adult"}

\* Mutation of JudgeName: whoever asks goes on to the protected branch.
JudgeNameOfAnybody(r) ==
    /\ req[r].pc = "judge_name"
    /\ Local(r, To(r, "ask")) /\ UNCHANGED turn

JudgeName(r) ==
    /\ req[r].pc = "judge_name"
    /\ IF MayReadTheHousehold(req[r].actor)
       THEN Local(r, To(r, "ask")) /\ UNCHANGED turn
       ELSE Local(r, To(r, "done")) /\ SetReply(r, "generation")

(* A stored name counts for the owner alone; what is no child's birthday   *)
(* is resolved again as if the sensitive reader were not wired.            *)
OwnerAlone(r) ==
    MayReadOwnMemory(req[r].actor) /\ ~req[r].veto /\ req[r].actor.role = "owner"

(* What spends a grant resolves its actor anew; the face is judged once. *)
Redirected(r, outcome) ==
    LET anew == /\ outcome.kind \in Spends
                /\ ~IsFaceActor(req[r].actor) /\ req[r].actor.status # "ambiguous"
    IN  [req[r] EXCEPT
            !.kind = outcome.kind,
            !.then = outcome.then,
            !.pc = IF anew THEN "token" ELSE outcome.then,
            !.actor = IF anew THEN UnknownActor ELSE @]

JudgeChild(r) ==
    /\ req[r].pc = "judge_child"
    /\ LET said     == turn[r].said
           on       == turn[r].on \ {"sensitive"}
           keywords == ClassifySensitiveQuestion(said).keywords
           rule     == ResolveInformationNeed(HoldingRules(said), on)
       IN  \/ /\ OwnerAlone(r) /\ keywords \intersect StoredNames # {}
              /\ Local(r, To(r, "ask")) /\ UNCHANGED turn
           \/ /\ ~OwnerAlone(r) \/ keywords \intersect StoredNames = {}
              /\ keywords \intersect RelationWords # {}
              /\ Local(r, To(r, "done")) /\ SetReply(r, "closed")
           \/ /\ ~OwnerAlone(r) \/ keywords \intersect StoredNames = {}
              /\ keywords \intersect RelationWords = {}
              /\ \E outcome \in Outcomes(said, rule, on) :
                   /\ turn' = [turn EXCEPT ![r] = Resolved(turn[r], said, on, rule, outcome)]
                   /\ Local(r, IF outcome.reply = "pending"
                               THEN Redirected(r, outcome)
                               ELSE To(r, "done"))

(* A weak cue that found nothing is ordinary conversation; every other     *)
(* request has a sentence of its own, refused, unknown or failed.          *)
RecallReply(weak, found) == IF weak /\ ~found THEN "generation" ELSE "closed"
OwnReply       == "closed"
RelativesReply == "closed"
HouseholdReply == "closed"

ReplyOf(kind, weak, found) ==
    CASE kind = "recall"     -> RecallReply(weak, found)
      [] kind \in OwnKinds \ {"recall"} -> OwnReply
      [] kind \in Relations -> RelativesReply
      [] OTHER               -> HouseholdReply

EndTurn(r) ==
    /\ req[r] # New /\ req[r].pc = "done"
    /\ turn[r].reply = "pending"
    /\ \E found \in BOOLEAN :
         /\ found => req[r].read # {}
         /\ SetReply(r, ReplyOf(req[r].kind, turn[r].weak, found))
    /\ UNCHANGED vars

SpokenStep(r) == Hear(r) \/ JudgeName(r) \/ JudgeChild(r) \/ EndTurn(r)

(* A turn that the process dies in is never answered. *)
Lost == turn' = [r \in Requests |-> IF turn[r].reply = "pending" THEN Silent ELSE turn[r]]

SpokenNext ==
    \/ Serve /\ UNCHANGED turn
    \/ \E r \in Requests : SpokenStep(r)
    \/ Restart /\ Lost

SpokenSpec == SpokenInit /\ [][SpokenNext]_spokenVars

(* The event loop runs every coroutine that can run: an attempt that holds *)
(* the lock, and a request, go on.                                         *)
FairSpokenSpec ==
    /\ SpokenSpec
    /\ \A c \in Callers :
         WF_spokenVars(/\ Attempt(c)
                       /\ UNCHANGED <<clock, operatorVars, biometrics, req, mix, turn>>)

-----------------------------------------------------------------------------
(* The language model, which holds no stored value and would invent one,   *)
(* never gets a question about the speaker's household, whichever readers  *)
(* are wired, whoever asks and whatever fails: not through a weak cue that *)
(* found nothing, nor through a birthday of nobody in the house; what has  *)
(* the shape of an answer is set aside (CognitiveController.decide,        *)
(* resolve_information_need).                                              *)
HouseholdStaysProtected ==
    \A r \in Requests : turn[r].family => turn[r].reply # "generation"

(* A token of the owner was good, and then its person or role could not be *)
(* read: the turn ends with the error of the store.                        *)
LeftUnread(actor) == actor.status = "unknown" /\ HoldsToken(actor)

(* Nobody learns from a refusal which names the household stores: unless   *)
(* the policy may let the speaker read it, a message with a stored name    *)
(* that no rule takes by its words is conversation, as with any other name *)
(* (_asks_about_known_name, _child_scope).  Only who holds a good token of *)
(* the owner while the store fails gets its error.                         *)
NamesAreNoOracle ==
    \A r \in Requests :
        turn[r].name /\ turn[r].reply = "closed" =>
            MayReadTheHousehold(req[r].actor) \/ LeftUnread(req[r].actor)
=============================================================================
