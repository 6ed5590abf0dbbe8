-------------------------- MODULE HouseholdAccess --------------------------
(***************************************************************************)
(* From a face, a voice or a one-use token to protected data: the requests *)
(* that read the owner's and the household's data, and those that enrol or *)
(* revoke biometrics (identity_fusion.py, face_authentication.py,          *)
(* speaker_authentication.py, controller.py, household_tools.py,           *)
(* memory/policy_gated_v4_reader.py, memory/sensitive_access.py,           *)
(* memory/profile_card_access.py, memory/recall_access.py,                 *)
(* memory/biometric_consent.py, memory/voice_consent.py,                   *)
(* voice/voiceprints.py, vision/faces.py, routers/auth.py).                *)
(*                                                                         *)
(* Every await is a step: a consent or a profile may be revoked, a grant   *)
(* spent or a role lost between the moment a request looks at it and the   *)
(* moment it uses what it saw.                                             *)
(***************************************************************************)
EXTENDS OwnerUnlock

CONSTANTS
    Requests,       \* the requests served at one time
    LeastPrints,    \* speaker_min_reference_count
    MaxProfiles,    \* bound: face profiles, and voiceprints
    Mixes           \* bound: by name, which requests run together and from which state

VARIABLES
    faceConsent, voiceConsent,  \* whether the owner's grant is active
    faces, prints,              \* how many profiles the owner has
    req,                        \* the requests
    mix                         \* the name of the combination this behaviour is about

biometrics == <<faceConsent, voiceConsent, faces, prints>>
vars == <<clock, operatorVars, unlockVars, grants, biometrics, req, mix>>

Bounds == Mixes[mix]

-----------------------------------------------------------------------------
(* What each request asks of the policy, in order; each question is        *)
(* audited before the next step, and "reads" marks those that a read of    *)
(* protected rows follows.                                                 *)

Question(action, visibility, sensitivity, reads) ==
    [action |-> action, visibility |-> {visibility}, sensitivity |-> {sensitivity},
     reads |-> reads]

HouseholdRead(sensitivity) ==
    <<Question("execute_household_tool", "household", sensitivity, FALSE),
      Question("read_household_data", "household", sensitivity, TRUE)>>

OwnRead(sensitivity) ==
    <<Question("read_personal_conversation_memory", "personal", sensitivity, TRUE)>>

Biometric == <<Question("enroll_biometric", "personal", "biometric", FALSE)>>

(* Nobody's request for the children, and any other about the household,   *)
(* asks about the household and whatever the answer reads nothing.         *)
HouseholdQuestion == Question("read_household_data", "household", "private", FALSE)

(* The ids of the children are one authorized read, the birth date of each *)
(* another; a partner may be at either end of the relation.                *)
OwnChildren == HouseholdRead("child_data")
ChildrenCount == HouseholdRead("child_data")
BirthDate   == HouseholdRead("child_data")
Birthdays   == OwnChildren \o BirthDate
Relatives   == HouseholdRead("normal")
Partner     == Relatives \o Tail(Relatives)
ProfileCard == OwnRead("normal")
Recall      == OwnRead("normal")
OwnBirthday  == OwnRead("private")
Medical      == OwnRead("medical")
SecurityData == OwnRead("security")

Plans ==
    [children     |-> OwnChildren,
     count        |-> ChildrenCount,
     household    |-> <<HouseholdQuestion>>,
     relatives    |-> Relatives,
     partner      |-> Partner,
     birthdays    |-> Birthdays,
     profile      |-> ProfileCard,
     recall       |-> Recall,
     own_birthday |-> OwnBirthday,
     medical      |-> Medical,
     security     |-> SecurityData,
     face_enroll  |-> Biometric,
     face_revoke  |-> Biometric,
     voice_enroll |-> Biometric,
     voice_revoke |-> Biometric]

Kinds      == DOMAIN Plans
Admin      == {"face_enroll", "face_revoke", "voice_enroll", "voice_revoke"}
Sensitives == {"birthdays", "own_birthday", "medical", "security"}
Relations  == {"relatives", "partner"}
OwnKinds   == {"profile", "recall"} \union Sensitives

(* A question about one's own children, and administration, spend a grant; *)
(* every other request only looks at who is there.                         *)
OwnChildrenKinds == {"children", "count"}
Spends           == OwnChildrenKinds \union Admin

ScopeOf(kind) == IF kind \in Admin THEN "biometric_admin" ELSE "personal_protected_read"

(* No token that a behaviour starts with is one that it will issue. *)
ASSUME MixesAssumption ==
    \A m \in DOMAIN Mixes :
        LET bounds == Mixes[m]
        IN  /\ bounds.callers \subseteq Callers
            /\ bounds.unlocks \subseteq Scopes
            /\ bounds.calls \in Nat /\ bounds.enrolled \in BOOLEAN
            /\ \A t \in DOMAIN bounds.scopes : t > bounds.calls /\ bounds.scopes[t] \in Scopes
            /\ \A r \in Requests :
                 bounds.kinds[r] \subseteq Kinds /\ bounds.tokens[r] \subseteq Nat

-----------------------------------------------------------------------------
New == [pc |-> "new"]
NoToken == 0

(* "then" is where it goes once its actor is known; "seen" collects what   *)
(* has been true at some moment since it began; "rows" are its audit rows, *)
(* "read" the steps of its plan it read in.                                *)
Started(kind, frame, clip, token, then) ==
    [pc |-> IF frame = "none" THEN "token" ELSE "face", then |-> then,
     kind |-> kind, frame |-> frame, clip |-> clip, token |-> token, at |-> clock,
     actor |-> UnknownActor, veto |-> FALSE, references |-> 0, role |-> "unknown",
     step |-> 1, rows |-> {}, read |-> {},
     seen |-> [owner |-> role = "owner", face |-> faceConsent, voice |-> voiceConsent,
               prints |-> prints >= LeastPrints]]

Active(r) == req[r].pc \notin {"new", "done"}

Init ==
    /\ mix \in DOMAIN Mixes
    /\ UnlockInit
    /\ grants = [t \in Tokens |->
                   IF t \in DOMAIN Bounds.scopes THEN Grant(Bounds.scopes[t], TTL) ELSE NoGrant]
    /\ faceConsent = Bounds.enrolled /\ voiceConsent = Bounds.enrolled
    /\ faces = IF Bounds.enrolled THEN 1 ELSE 0
    /\ prints = IF Bounds.enrolled THEN LeastPrints ELSE 0
    /\ req = [r \in Requests |-> New]

(* A step of one request leaves everything else alone. *)
Step(r, next) ==
    /\ req' = [req EXCEPT ![r] = next]
    /\ UNCHANGED <<clock, operatorVars, unlockVars, biometrics, mix>>

Local(r, next) == Step(r, next) /\ UNCHANGED grants

To(r, pc) == [req[r] EXCEPT !.pc = pc]

Begin(r) ==
    /\ req[r].pc = "new"
    /\ \E kind \in Bounds.kinds[r], token \in Bounds.tokens[r] :
         IF kind \in Admin
         THEN Local(r, Started(kind, "none", "none", token, "ask"))
         ELSE \E frame \in Bounds.frames, clip \in Bounds.clips :
                Local(r, Started(kind, frame, clip, token, "ask"))

-----------------------------------------------------------------------------
(* FaceRequestResolver: detect, match when there is exactly one face, then *)
(* read the role and the consent.  A failed detection counts as no face,   *)
(* a failed read as no evidence; both fall through to the token.           *)

FaceMatches(r) == req[r].frame = "owner" /\ faces > 0

MatchFace(r) ==
    /\ req[r].pc = "face"
    /\ \/ /\ FaceVerdict(IF req[r].frame = "two" THEN 2 ELSE 1, FaceMatches(r),
                         FALSE, "owner") = "ambiguous"
          /\ Local(r, [req[r] EXCEPT !.pc = req[r].then, !.actor = AmbiguousActor, !.veto = TRUE])
       \/ FaceMatches(r) /\ Local(r, To(r, "face_role"))
       \/ req[r].frame # "two" /\ ~FaceMatches(r) /\ Local(r, To(r, "token"))
       \/ Bounds.faults /\ Local(r, To(r, "token"))

FaceRole(r) ==
    /\ req[r].pc = "face_role"
    /\ \/ /\ FaceVerdict(1, TRUE, FALSE, role) = "other_person"
          /\ Local(r, [req[r] EXCEPT !.pc = req[r].then, !.actor = AmbiguousActor])
       \/ /\ role = "owner"
          /\ Local(r, [req[r] EXCEPT !.pc = "face_consent", !.role = role])
       \/ Bounds.faults /\ Local(r, To(r, "token"))

\* Mutation of FaceConsent: a match of the owner is enough.
FaceWithoutConsent(r) ==
    /\ req[r].pc = "face_consent"
    /\ Local(r, [req[r] EXCEPT
           !.pc = IF req[r].clip = "none" THEN req[r].then ELSE "voice",
           !.actor = ResolveActivePerson({FaceEvidence(Owner)}, {Owner},
                                         [p \in {Owner} |-> req[r].role], clock)])

FaceConsent(r) ==
    /\ req[r].pc = "face_consent"
    /\ \/ /\ FaceVerdict(1, TRUE, faceConsent, req[r].role) = "identified"
          /\ Local(r, [req[r] EXCEPT
                 !.pc = IF req[r].clip = "none" THEN req[r].then ELSE "voice",
                 !.actor = ResolveActivePerson({FaceEvidence(Owner)}, {Owner},
                                               [p \in {Owner} |-> req[r].role], clock)])
       \/ ~faceConsent /\ Local(r, To(r, "token"))
       \/ Bounds.faults /\ Local(r, To(r, "token"))

-----------------------------------------------------------------------------
(* SpeakerRequestResolver: the references and the distance come from one   *)
(* read; the consent is read last.  Any failure leaves the face alone.     *)

MatchVoice(r) ==
    /\ req[r].pc = "voice"
    /\ \/ Local(r, [req[r] EXCEPT !.pc = "voice_role", !.references = prints])
       \/ Bounds.faults /\ Local(r, To(r, req[r].then))

VoiceRole(r) ==
    /\ req[r].pc = "voice_role"
    /\ Local(r, [req[r] EXCEPT !.pc = "voice_consent", !.role = role])

VoiceConsent(r) ==
    /\ req[r].pc = "voice_consent"
    /\ LET close   == req[r].clip = "owner" /\ req[r].references > 0
           verdict == SpeakerVerdict(TRUE, req[r].references, LeastPrints, close,
                                     voiceConsent, req[r].role)
           voice   == NobodyAs("unknown", {VoiceEvidence(Owner)})
       IN  Local(r, [req[r] EXCEPT
               !.pc = req[r].then,
               !.actor = IF verdict = "verified"
                         THEN FuseFaceAndVoice(req[r].actor, voice, clock)
                         ELSE req[r].actor])

-----------------------------------------------------------------------------
(* OwnerRequestResolver: the token, then the person and the role. *)

ResolveToken(r) ==
    /\ req[r].pc = "token"
    /\ LET token == req[r].token
           scope == ScopeOf(req[r].kind)
           spend == req[r].kind \in Spends
           found == IF spend THEN ConsumedEvidence(token, scope)
                    ELSE PeekEvidence(token, scope)
       IN  /\ Step(r, [req[r] EXCEPT
                  !.pc = IF found = {} THEN req[r].then ELSE "token_role",
                  !.actor = NobodyAs("unknown", found)])
           /\ IF spend THEN ConsumeLeaves(token, scope) ELSE PeekLeaves(token)

TokenRole(r) ==
    /\ req[r].pc = "token_role"
    /\ \/ Local(r, [req[r] EXCEPT
              !.pc = req[r].then,
              !.actor = ResolveActivePerson(req[r].actor.evidence, {Owner},
                                            [p \in {Owner} |-> role], clock)])
       \/ Bounds.faults /\ Local(r, To(r, "done"))

-----------------------------------------------------------------------------
(* Questions to the policy. *)

(* resolve_consent: by the face that identified, or by the spent grant. *)
Identifies(r) ==
    /\ req[r].actor.person # NoPerson
    /\ req[r].actor.role = "owner"
    /\ HoldsToken(req[r].actor) => req[r].kind \in Spends

(* The owner's own protected categories also need the closed commissioning. *)
ConsentFor(r, altaClosed) ==
    IF req[r].kind \in {"profile", "recall", "own_birthday"} THEN "not_required"
    ELSE IF req[r].kind \in {"medical", "security"}
         THEN IF Identifies(r) /\ altaClosed THEN "granted" ELSE "missing"
    ELSE IF Identifies(r) THEN "granted" ELSE "not_required"

PolicyRequest(r, question, altaClosed) ==
    [actor |-> req[r].actor, action |-> question.action,
     target |-> req[r].actor.person, subject |-> NoSubject, shape |-> NoSubject,
     visibility |-> question.visibility, sensitivity |-> question.sensitivity,
     consent |-> ConsentFor(r, altaClosed), at |-> req[r].at]

(* Requests that are refused before the policy is asked. *)
NotAsked(r) ==
    \/ req[r].kind \in OwnKinds /\ ~MayReadOwnMemory(req[r].actor)
    \/ req[r].kind \in Sensitives /\ req[r].veto
    \/ req[r].kind = "security" /\ ~AtLeast(req[r].actor.assurance, "strong")
    \/ req[r].kind \in Relations /\ ~Identified(req[r].actor)

QuestionOf(r) ==
    IF req[r].kind \in OwnChildrenKinds /\ req[r].actor.person = NoPerson
    THEN HouseholdQuestion
    ELSE Plans[req[r].kind][req[r].step]

Row(question, decision) == [question |-> question, decision |-> decision]

AfterAllowed(r, question) ==
    IF question.reads THEN "read"
    ELSE IF req[r].kind \in Admin THEN "admin"
    ELSE IF question = HouseholdQuestion THEN "done"
    ELSE "ask"

\* Mutation of Ask: an audit that fails is logged and the request goes on.
AskWhateverTheAudit(r) ==
    /\ req[r].pc = "ask"
    /\ IF NotAsked(r) THEN Local(r, To(r, "done"))
       ELSE \E altaClosed, written \in BOOLEAN :
            LET question == QuestionOf(r)
                decision == EvaluateAuthorization(PolicyRequest(r, question, altaClosed))
                next     == IF decision = "allowed" THEN AfterAllowed(r, question) ELSE "done"
            IN  Local(r, [req[r] EXCEPT
                    !.pc = next,
                    !.step = IF next = "ask" THEN @ + 1 ELSE @,
                    !.rows = IF written THEN @ \union {Row(question, decision)} ELSE @])

(* The decision is written to the audit before anything is done about it; *)
(* if it cannot be written, the request ends there.                       *)
Ask(r) ==
    /\ req[r].pc = "ask"
    /\ IF NotAsked(r) THEN Local(r, To(r, "done"))
       ELSE \E altaClosed \in BOOLEAN :
            LET question == QuestionOf(r)
                decision == EvaluateAuthorization(PolicyRequest(r, question, altaClosed))
                next     == IF decision = "allowed" THEN AfterAllowed(r, question) ELSE "done"
            IN  \/ Local(r, [req[r] EXCEPT
                       !.pc = next,
                       !.step = IF next = "ask" THEN @ + 1 ELSE @,
                       !.rows = @ \union {Row(question, decision)}])
                \/ Bounds.faults /\ Local(r, To(r, "done"))

Read(r) ==
    /\ req[r].pc = "read"
    /\ \/ LET last == req[r].step = Len(Plans[req[r].kind])
          IN  Local(r, [req[r] EXCEPT
                  !.pc = IF last THEN "done" ELSE "ask",
                  !.step = IF last THEN @ ELSE @ + 1,
                  !.read = @ \union {req[r].step}])
       \/ Bounds.faults /\ Local(r, To(r, "done"))

-----------------------------------------------------------------------------
(* Biometric administration, each transaction a step. *)

Noting(seen) ==
    [seen EXCEPT !.face = @ \/ faceConsent', !.voice = @ \/ voiceConsent',
                 !.prints = @ \/ prints' >= LeastPrints]

(* What the step makes true is noted in every request that is under way. *)
Noted(r, pc) ==
    req' = [q \in Requests |->
              LET now == IF q = r THEN To(q, pc) ELSE req[q]
              IN  IF now.pc \in {"new", "done"} THEN now
                  ELSE [now EXCEPT !.seen = Noting(@)]]

Change(r, pc) ==
    /\ UNCHANGED <<clock, operatorVars, unlockVars, grants, mix>>
    /\ Noted(r, pc)

EnrolFace(r) ==
    /\ req[r].pc = "admin" /\ req[r].kind = "face_enroll"
    /\ faces < MaxProfiles
    /\ faces' = faces + 1
    /\ UNCHANGED <<faceConsent, voiceConsent, prints>>
    /\ Change(r, "grant_face")

GrantFaceConsent(r) ==
    /\ req[r].pc = "grant_face"
    /\ faceConsent' = TRUE
    /\ UNCHANGED <<voiceConsent, faces, prints>>
    /\ Change(r, "done")

RevokeFaceConsent(r) ==
    /\ req[r].pc = "admin" /\ req[r].kind = "face_revoke"
    /\ faces' = 0 /\ faceConsent' = FALSE
    /\ UNCHANGED <<voiceConsent, prints>>
    /\ Change(r, "done")

GrantVoiceConsent(r) ==
    /\ req[r].pc = "admin" /\ req[r].kind = "voice_enroll"
    /\ voiceConsent' = TRUE
    /\ UNCHANGED <<faceConsent, faces, prints>>
    /\ Change(r, "enrol_print")

EnrolVoiceprint(r) ==
    /\ req[r].pc = "enrol_print"
    /\ prints < MaxProfiles
    /\ prints' = prints + 1
    /\ UNCHANGED <<faceConsent, voiceConsent, faces>>
    /\ Change(r, "done")

RevokeVoiceConsent(r) ==
    /\ req[r].pc = "admin" /\ req[r].kind = "voice_revoke"
    /\ prints' = 0 /\ voiceConsent' = FALSE
    /\ UNCHANGED <<faceConsent, faces>>
    /\ Change(r, "done")

(* The picture is rejected, or the model of the face or the voice fails. *)
EnrolmentRejected(r) ==
    /\ req[r].pc = "admin" /\ req[r].kind \in {"face_enroll", "voice_enroll"}
    /\ Local(r, To(r, "done"))

AdminStep(r) ==
    \/ EnrolmentRejected(r)
    \/ EnrolFace(r) \/ GrantFaceConsent(r) \/ RevokeFaceConsent(r)
    \/ GrantVoiceConsent(r) \/ EnrolVoiceprint(r) \/ RevokeVoiceConsent(r)

RequestStep(r) ==
    \/ Begin(r) \/ MatchFace(r) \/ FaceRole(r) \/ FaceConsent(r)
    \/ MatchVoice(r) \/ VoiceRole(r) \/ VoiceConsent(r)
    \/ ResolveToken(r) \/ TokenRole(r) \/ Ask(r) \/ Read(r) \/ AdminStep(r)

-----------------------------------------------------------------------------
(* The process dies: its requests, its tokens and its limiter are gone. *)
Restart ==
    /\ Bounds.faults
    /\ line' = <<>> /\ call' = [c \in Callers |-> Idle]
    /\ failures' = <<>> /\ blocked' = NotBlocked /\ wrong' = <<>>
    /\ grants' = [t \in Tokens |-> NoGrant]
    /\ req' = [r \in Requests |-> IF Active(r) THEN To(r, "done") ELSE req[r]]
    /\ UNCHANGED <<clock, operatorVars, calls, biometrics, mix>>

Serve ==
    \/ clock < Bounds.until /\ Tick /\ UNCHANGED <<biometrics, req, mix>>
    \/ \E step \in Bounds.operator : OperatorStep(step) /\ UNCHANGED <<biometrics, req, mix>>
    \/ \E c \in Bounds.callers :
         /\ UnlockStep(c, IF calls < Bounds.calls THEN Bounds.unlocks ELSE {})
         /\ UNCHANGED <<biometrics, req, mix>>
    \/ \E r \in Requests : RequestStep(r)

Next == Serve \/ Restart

Spec == Init /\ [][Next]_vars

(* The PIN cannot be guessed faster than the limiter says, whoever asks in *)
(* whatever order: of any MaxFailures + 1 wrong attempts with no right one *)
(* in between, the last comes at least Window after the first              *)
(* (OwnerUnlockService.unlock).                                            *)
GuessesBounded ==
    \A i \in 1..Len(wrong) - MaxFailures : wrong[i + MaxFailures] >= wrong[i] + Window

(* A token is issued only for a PIN that was the active one at some moment *)
(* of the attempt, although the operator may rotate or revoke it while the *)
(* digest is computed (unlock, get_active_owner_pin_credential).           *)
IssuedForAnActivePin ==
    [][\A t \in Tokens : ~Live(t) /\ grants'[t] # NoGrant =>
          \E c \in Callers : /\ call[c] # Idle
                             /\ call[c].token = t
                             /\ call[c].guess \in call[c].actives]_vars

(* Every attempt is answered: no failure, block or exception keeps the     *)
(* lock (unlock, async with _attempt_lock).                                *)
EveryAttemptAnswered == \A c \in Callers : call[c] # Idle ~> call[c] = Idle

(* A request that has read protected rows has, in the audit, an allowed    *)
(* decision for every question of its plan up to that read: a failed audit *)
(* or a refusal half way reads nothing more (_authorize_tool,              *)
(* PolicyGatedV4Reader._authorize, read_card, recall_reply, _read_own).    *)
ReadsAreAudited ==
    \A r \in Requests : req[r] # New =>
        \A s \in req[r].read : \A i \in 1..s :
            Row(Plans[req[r].kind][i], "allowed") \in req[r].rows

(* What is read rests on facts that held at some moment of the request:    *)
(* the owner's role, and the grant, or the face with its consent; for      *)
(* security data also the voice, its consent and enough references, though *)
(* each is read at an await of its own and may be revoked at any other     *)
(* (FaceRequestResolver, SpeakerRequestResolver, sensitive_access).        *)
RevokedSpeakerReadsNothing ==
    \A r \in Requests : req[r] # New /\ req[r].read # {} =>
        /\ req[r].seen.owner
        /\ HoldsToken(req[r].actor) \/ req[r].seen.face
        /\ req[r].kind = "security" => req[r].seen.voice /\ req[r].seen.prints

(* A grant serves one request, of the operation it was issued for: two     *)
(* requests that carry the same token never both act on it                 *)
(* (consume_evidence, OwnerRequestResolver.resolve_actor).                 *)
OneRequestPerGrant ==
    \A r, s \in Requests :
        /\ r # s
        /\ \A q \in {r, s} : /\ req[q] # New
                             /\ req[q].kind \in Spends
                             /\ HoldsToken(req[q].actor)
                             /\ \E row \in req[q].rows : row.decision = "allowed"
        => req[r].token # req[s].token

(* "a voiceprint must never exist without an active grant"                 *)
(* (enroll_owner_voice): a revocation between the grant and the voiceprint *)
(* leaves one.                                                             *)
NoPrintWithoutConsent == prints > 0 => voiceConsent
=============================================================================
