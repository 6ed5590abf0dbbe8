------------------------------ MODULE Identity ------------------------------
(***************************************************************************)
(* Who is speaking: the pure decisions of the identity layer               *)
(* (server/cognition/identity.py, identity_fusion.py, strong_actor.py,     *)
(* face_authentication.py, speaker_authentication.py).                     *)
(*                                                                         *)
(* A piece of evidence is a record                                         *)
(*   [source, candidate, expires, scope, spent];                           *)
(* an actor is a record [person, status, role, assurance, evidence].       *)
(* Confidences, references and names decide nothing and are left out; a    *)
(* distance is abstracted to "within the threshold or not".                *)
(***************************************************************************)
EXTENDS Integers

CONSTANTS
    NoPerson,   \* the person id of evidence, or of an actor, that names nobody
    Never       \* the expiry of evidence that has none

Source == {"session", "manual", "face", "voice", "context", "local_unlock"}
Status == {"identified", "probable", "unknown", "ambiguous"}
Role   == {"owner", "adult", "child", "guest", "unknown"}

Assurance == {"none", "basic", "strong"}

(* Assurance is compared by rank: as words, "basic" < "none". *)
Rank == [none |-> 0, basic |-> 1, strong |-> 2]

AtLeast(assurance, least) == Rank[assurance] >= Rank[least]

-----------------------------------------------------------------------------
(* Evidence of one turn, fused into the active person. *)

Trusted    == {"manual", "local_unlock", "face"}
Resolvable == Trusted \union {"session", "voice"}

AssuranceOf(sources) ==
    IF "local_unlock" \in sources \/ {"face", "voice"} \subseteq sources THEN "strong"
    ELSE IF sources \intersect Trusted # {} THEN "basic"
    ELSE "none"

Expired(item, now) == item.expires # Never /\ item.expires <= now

(* The evidence that counts: fresh, of a resolvable source, and naming an *)
(* entity the lookup confirms to be a person.                             *)
Candidates(evidence, persons, now) ==
    {item \in evidence : /\ item.source \in Resolvable
                         /\ ~Expired(item, now)
                         /\ item.candidate \in persons}

Sources(items) == {item.source : item \in items}
Named(items)   == {item.candidate : item \in items}

NobodyAs(status, evidence) ==
    [person |-> NoPerson, status |-> status, role |-> "unknown",
     assurance |-> "none", evidence |-> evidence]

(* Several sources that disagree name nobody; a source that is not trusted *)
(* makes its person probable and never identified.                         *)
ResolveActivePerson(evidence, persons, roleOf, now) ==
    LET fresh == Candidates(evidence, persons, now)
        identified == Sources(fresh) \intersect Trusted # {}
    IN  IF fresh = {} THEN NobodyAs("unknown", evidence)
        ELSE IF \E a, b \in fresh : a.candidate # b.candidate
             THEN NobodyAs("ambiguous", evidence)
        ELSE LET person == (CHOOSE item \in fresh : TRUE).candidate
             IN  [person    |-> person,
                  status    |-> IF identified THEN "identified" ELSE "probable",
                  role      |-> roleOf[person],
                  assurance |-> IF identified THEN AssuranceOf(Sources(fresh)) ELSE "none",
                  evidence  |-> evidence]

UnknownActor   == NobodyAs("unknown", {})
AmbiguousActor == NobodyAs("ambiguous", {})

-----------------------------------------------------------------------------
(* The verdict of the face of one frame.  Two faces are never matched, and *)
(* a match of anyone but the owner is a veto whatever their consent.       *)
FaceVerdict(faces, matched, consent, role) ==
    IF faces > 1 THEN "ambiguous"
    ELSE IF ~matched THEN "unknown"
    ELSE IF role # "owner" THEN "other_person"
    ELSE IF consent THEN "identified"
    ELSE "unknown"

FaceEvidence(person) ==
    [source |-> "face", candidate |-> person, expires |-> Never,
     scope |-> "none", spent |-> FALSE]

(* The verdict of the voice of one clip against one person's references. *)
SpeakerVerdict(available, references, least, close, consent, role) ==
    IF ~available THEN "unavailable"
    ELSE IF references >= least /\ close /\ consent /\ role = "owner" THEN "verified"
    ELSE "unknown"

VoiceEvidence(person) ==
    [source |-> "voice", candidate |-> person, expires |-> Never,
     scope |-> "none", spent |-> FALSE]

(* A verified voice raises the face of the same person to strong, and is *)
(* worth nothing by itself.                                              *)
FuseFaceAndVoice(face, voice, now) ==
    LET same  == {item \in voice.evidence : item.candidate = face.person}
        fused == ResolveActivePerson(face.evidence \union same, {face.person},
                                     [p \in {face.person} |-> face.role], now)
    IN  IF /\ face.person # NoPerson
           /\ same # {}
           /\ fused.assurance = "strong"
        THEN fused
        ELSE face

-----------------------------------------------------------------------------
(* Which actors a caller accepts. *)

HoldsToken(actor) == "local_unlock" \in Sources(actor.evidence)

OwnSources(actor) == Sources({item \in actor.evidence : item.candidate = actor.person})

Identified(actor) == actor.status = "identified" /\ actor.person # NoPerson

IsFaceActor(actor) ==
    Identified(actor) /\ ~HoldsToken(actor) /\ "face" \in OwnSources(actor)

IsFaceAndVoiceActor(actor) ==
    /\ Identified(actor) /\ ~HoldsToken(actor)
    /\ actor.assurance = "strong"
    /\ {"face", "voice"} \subseteq OwnSources(actor)

(* Whether the policy is worth asking about the speaker's own memory. *)
MayReadOwnMemory(actor) == IsFaceActor(actor) /\ AtLeast(actor.assurance, "basic")
=============================================================================
