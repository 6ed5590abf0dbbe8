------------------------- MODULE SpokenTurn_proofs -------------------------
(***************************************************************************)
(* Of requests, PIN attempts and messages together, for any numbers of     *)
(* them: guesses are bounded, a token was issued for an active PIN and     *)
(* serves one request, what is read was audited before, and what it rests  *)
(* on held while the request ran.                                          *)
(*                                                                         *)
(* A step of a request and a step of an attempt disturb each other in the  *)
(* registry of grants alone, so that the proof has three parts: the        *)
(* attempts under their lock (UnlockInv), every request by itself          *)
(* (RequestInv), and what is spent (SpentIsGone), which rests on both.     *)
(* Then the messages: what one with a stored name may lead to (NameInv),   *)
(* and what a question about the family never leads to (FamilyInv).  Last, *)
(* how far a print may outlive its consent, and the line of the attempts.  *)
(* Before them, what the identity layer and the household policy promise   *)
(* for every evidence and every request: the model checker evaluates both  *)
(* modules on the few requests a turn makes, these theorems are about all. *)
(***************************************************************************)
EXTENDS SpokenTurn, WellFoundedInduction, SequenceTheorems, TLAPS

-----------------------------------------------------------------------------
(* Identity. *)

LEMMA FreshEvidence ==
    ASSUME NEW evidence, NEW persons, NEW now
    PROVE  Candidates(evidence, persons, now) \subseteq evidence
  BY DEF Candidates

LEMMA OnlyTrustedEvidenceIdentifies ==
    ASSUME NEW evidence, NEW persons, NEW roleOf, NEW now,
           ResolveActivePerson(evidence, persons, roleOf, now).status = "identified"
    PROVE  Sources(Candidates(evidence, persons, now)) \intersect Trusted # {}
  <1> DEFINE fresh == Candidates(evidence, persons, now)
             actor == ResolveActivePerson(evidence, persons, roleOf, now)
  <1>1. CASE fresh = {}
    <2>1. actor.status = "unknown"
      BY <1>1 DEF ResolveActivePerson, NobodyAs
    <2> QED BY <2>1
  <1>2. CASE \E a, b \in fresh : a.candidate # b.candidate
    <2>1. fresh # {} /\ actor.status = "ambiguous"
      BY <1>2 DEF ResolveActivePerson, NobodyAs
    <2> QED BY <2>1
  <1>3. CASE fresh # {} /\ ~\E a, b \in fresh : a.candidate # b.candidate
    <2>1. actor.status = IF Sources(fresh) \intersect Trusted # {}
                         THEN "identified" ELSE "probable"
      BY <1>3 DEF ResolveActivePerson
    <2> QED BY <2>1
  <1> QED BY <1>1, <1>2, <1>3

(* A voice, a session or a context never identify anybody: without a face, *)
(* a PIN grant or a manual selection the speaker stays unidentified        *)
(* (identity.py, resolve_active_person).                                   *)
THEOREM VoiceAloneNeverIdentifies ==
    ASSUME NEW evidence, NEW persons, NEW roleOf, NEW now,
           \A item \in evidence : item.source \notin Trusted
    PROVE  ResolveActivePerson(evidence, persons, roleOf, now).status # "identified"
  <1> SUFFICES ASSUME ResolveActivePerson(evidence, persons, roleOf, now).status = "identified"
               PROVE  FALSE
    OBVIOUS
  <1>1. Sources(Candidates(evidence, persons, now)) \intersect Trusted # {}
    BY OnlyTrustedEvidenceIdentifies
  <1>2. PICK item \in Candidates(evidence, persons, now) : item.source \in Trusted
    BY <1>1 DEF Sources
  <1> QED BY <1>2, FreshEvidence

(* Strong assurance is a PIN grant, or the face and the voice of one and   *)
(* the same person, all of them fresh: no single biometric reaches it.     *)
THEOREM StrongIsGrantOrFaceAndVoice ==
    ASSUME NEW evidence, NEW persons, NEW roleOf, NEW now,
           ResolveActivePerson(evidence, persons, roleOf, now).assurance = "strong"
    PROVE  LET fresh == Candidates(evidence, persons, now)
               actor == ResolveActivePerson(evidence, persons, roleOf, now)
           IN  /\ \A item \in fresh : item.candidate = actor.person
               /\ \/ \E item \in fresh : item.source = "local_unlock"
                  \/ \E face, voice \in fresh : face.source = "face" /\ voice.source = "voice"
  <1> DEFINE fresh == Candidates(evidence, persons, now)
             actor == ResolveActivePerson(evidence, persons, roleOf, now)
  <1>1. CASE fresh = {}
    <2>1. actor.assurance = "none"
      BY <1>1 DEF ResolveActivePerson, NobodyAs
    <2> QED BY <2>1
  <1>2. CASE \E a, b \in fresh : a.candidate # b.candidate
    <2>1. fresh # {} /\ actor.assurance = "none"
      BY <1>2 DEF ResolveActivePerson, NobodyAs
    <2> QED BY <2>1
  <1>3. CASE fresh # {} /\ ~\E a, b \in fresh : a.candidate # b.candidate
    <2>1. /\ actor.person = (CHOOSE item \in fresh : TRUE).candidate
          /\ actor.assurance = IF Sources(fresh) \intersect Trusted # {}
                               THEN AssuranceOf(Sources(fresh)) ELSE "none"
      BY <1>3 DEF ResolveActivePerson
    <2>2. (CHOOSE item \in fresh : TRUE) \in fresh
      BY <1>3
    <2>3. \A item \in fresh : item.candidate = actor.person
      BY <1>3, <2>1, <2>2
    <2>4. AssuranceOf(Sources(fresh)) = "strong"
      BY <2>1
    <2>5. "local_unlock" \in Sources(fresh) \/ {"face", "voice"} \subseteq Sources(fresh)
      BY <2>4 DEF AssuranceOf
    <2>6. \/ \E item \in fresh : item.source = "local_unlock"
          \/ \E face, voice \in fresh : face.source = "face" /\ voice.source = "voice"
      BY <2>5 DEF Sources
    <2> QED BY <2>3, <2>6
  <1> QED BY <1>1, <1>2, <1>3

-----------------------------------------------------------------------------
(* The policy. *)

LEMMA AllowedMeansResolved ==
    ASSUME NEW request,
           EvaluateAuthorization(request) = "allowed",
           request.action # "general_conversation"
    PROVE  /\ ResolvedActor(request)
           /\ ~LacksRequiredAssurance(request)
           /\ EvaluateResolvedRequest(request) = "allowed"
  BY DEF EvaluateAuthorization

(* Nobody the house does not know, by face or by PIN, is allowed anything  *)
(* but a conversation without protected categories.                        *)
THEOREM StrangersOnlyConverse ==
    ASSUME NEW request, EvaluateAuthorization(request) = "allowed"
    PROVE  \/ Identified(request.actor) /\ request.actor.role # "unknown"
           \/ /\ request.action = "general_conversation"
              /\ request.visibility = {"public"} /\ request.sensitivity = {"normal"}
  BY AllowedMeansResolved DEF EvaluateAuthorization, ResolvedActor, Allow

LEMMA PersonalMemoryRule ==
    ASSUME NEW request, NEW action \in PersonalMemoryActions, request.action = action,
           EvaluateAuthorization(request) = "allowed"
    PROVE  LET capability == PersonalMemoryCapabilities[action]
           IN  /\ request.actor.role = "owner"
               /\ OwnData(request, capability)
               /\ AtLeast(request.actor.assurance, RequiredAssurance(request, capability))
               /\ GrantsCount(request, capability)
               /\ HasConsent(request, capability)
               /\ ~LacksRequiredAssurance(request)
  <1>1. request.action # "general_conversation"
    BY DEF PersonalMemoryActions, PersonalMemoryCapabilities
  <1>2. EvaluatePersonalMemory(request, PersonalMemoryCapabilities[action]) = "allowed"
        /\ ~LacksRequiredAssurance(request)
    BY <1>1, AllowedMeansResolved DEF EvaluateResolvedRequest
  <1> QED BY <1>2 DEF EvaluatePersonalMemory, Allow

(* The personal memory is the owner's alone, for every action on it: the   *)
(* person who asks is the owner and the data is that person's.             *)
THEOREM PersonalMemoryIsTheOwners ==
    ASSUME NEW request, request.action \in PersonalMemoryActions,
           EvaluateAuthorization(request) = "allowed"
    PROVE  request.actor.role = "owner" /\ request.target = request.actor.person
  BY PersonalMemoryRule DEF OwnData

(* ADR 0019 sections 3 and 4: without strong assurance (a photograph has   *)
(* at most basic) no action on the personal memory reaches biometric or    *)
(* security data, and only a read reaches medical or location data.        *)
THEOREM PhotographReachesNothingStrong ==
    ASSUME NEW request, request.action \in PersonalMemoryActions,
           request.actor.assurance \in {"none", "basic"},
           EvaluateAuthorization(request) = "allowed"
    PROVE  /\ request.sensitivity \intersect {"biometric", "security"} = {}
           /\ request.action # "read_personal_conversation_memory"
              => request.sensitivity \intersect {"medical", "location"} = {}
           /\ request.action \notin {"confirm_personal_memory", "forget_personal_memory"}
  <1> DEFINE capability == PersonalMemoryCapabilities[request.action]
  <1>1. AtLeast(request.actor.assurance, RequiredAssurance(request, capability))
        /\ ~LacksRequiredAssurance(request)
    BY PersonalMemoryRule
  <1>2. RequiredAssurance(request, capability) # "strong"
    BY <1>1 DEF AtLeast, Rank
  <1>3. request.sensitivity \intersect StrongCategories(request.action) = {}
        /\ capability.least # "strong"
    BY <1>2 DEF RequiredAssurance
  <1>4. "security" \notin request.sensitivity
    BY <1>1 DEF LacksRequiredAssurance, HighAssuranceCategories
  <1>5. request.action \notin {"confirm_personal_memory", "forget_personal_memory"}
    BY <1>3 DEF PersonalMemoryCapabilities, PersonalMemory
  <1>6. /\ "biometric" \in StrongCategories(request.action)
        /\ request.action # "read_personal_conversation_memory"
           => {"medical", "location"} \subseteq StrongCategories(request.action)
    BY DEF StrongCategories, PersonalStrongCategories, OwnReadBasicCategories
  <1> QED BY <1>3, <1>4, <1>5, <1>6

(* An erasure needs a PIN grant issued for erasing, spent by this very     *)
(* request and still fresh; a grant for reading never erases.              *)
THEOREM ForgetNeedsItsOwnGrant ==
    ASSUME NEW request, request.action = "forget_personal_memory",
           EvaluateAuthorization(request) = "allowed"
    PROVE  /\ \E item \in Grants(request.actor) : TRUE
           /\ \A item \in Grants(request.actor) :
                 /\ item.scope = "personal_memory_forget" /\ item.spent
                 /\ item.candidate = request.actor.person
                 /\ item.expires > request.at
  <1>1. "forget_personal_memory" \in PersonalMemoryActions
    BY DEF PersonalMemoryActions, PersonalMemoryCapabilities
  <1>2. GrantsCount(request, PersonalMemoryCapabilities["forget_personal_memory"])
    BY <1>1, PersonalMemoryRule
  <1>3. PersonalMemoryCapabilities["forget_personal_memory"] =
        PersonalMemory("strong", FALSE, TRUE, "personal_memory_forget",
                       {"personal", "private", "temporary"})
    BY DEF PersonalMemoryCapabilities
  <1> QED BY <1>2, <1>3 DEF GrantsCount, ValidGrant, PersonalMemory

(* A token proves the PIN and not the speaker: it never proposes, corrects *)
(* or confirms a memory, of the owner or of the household.                 *)
THEOREM TokensNeverWriteMemory ==
    ASSUME NEW request,
           request.action \in HouseholdMemoryActions
              \union {"propose_personal_memory", "confirm_personal_memory",
                      "correct_personal_memory"},
           EvaluateAuthorization(request) = "allowed"
    PROVE  ~HoldsToken(request.actor)
  <1>1. CASE request.action \in HouseholdMemoryActions
    <2>1. request.action # "general_conversation" /\ request.action \notin PersonalMemoryActions
      BY <1>1 DEF HouseholdMemoryActions, PersonalMemoryActions, PersonalMemoryCapabilities
    <2>2. EvaluateHouseholdMemory(request) = "allowed"
      BY <1>1, <2>1, AllowedMeansResolved DEF EvaluateResolvedRequest
    <2>3. Grants(request.actor) = {}
      BY <2>2 DEF EvaluateHouseholdMemory, Allow
    <2> QED BY <2>3 DEF Grants, HoldsToken, Sources
  <1>2. CASE request.action \notin HouseholdMemoryActions
    <2>1. request.action \in PersonalMemoryActions
          /\ PersonalMemoryCapabilities[request.action].scope = NoScope
      BY <1>2 DEF PersonalMemoryActions, PersonalMemoryCapabilities, PersonalMemory
    <2>2. GrantsCount(request, PersonalMemoryCapabilities[request.action])
      BY <2>1, PersonalMemoryRule
    <2>3. \A item \in Grants(request.actor) : FALSE
      BY <2>1, <2>2 DEF GrantsCount, ValidGrant
    <2> QED BY <2>3 DEF Grants, HoldsToken, Sources
  <1> QED BY <1>1, <1>2

(* Sensitive household data is read only with granted consent, and then by *)
(* the owner alone.                                                        *)
THEOREM SensitiveReadsAreConsented ==
    ASSUME NEW request, request.action \in ReadActions, Sensitive(request),
           EvaluateAuthorization(request) = "allowed"
    PROVE  request.consent = "granted" /\ request.actor.role = "owner"
  <1>1. /\ request.action # "general_conversation"
        /\ request.action \notin PersonalMemoryActions
        /\ request.action \notin HouseholdMemoryActions
    BY DEF ReadActions, PersonalMemoryActions, PersonalMemoryCapabilities,
           HouseholdMemoryActions
  <1>2. EvaluateSensitiveRead(request) = "allowed"
    BY <1>1, AllowedMeansResolved
       DEF EvaluateResolvedRequest, EvaluateLegacyRequest, EvaluateRead
  <1> QED BY <1>2 DEF EvaluateSensitiveRead

-----------------------------------------------------------------------------
(* The window of the limiter.  Of attempts that are in order of time, the *)
(* recent ones are the last ones.                                         *)

LEMMA NumbersAreWellFounded ==
    \E R : IsWellFoundedOn(R, Nat) /\ \A x, y \in Nat : y < x => <<y, x>> \in R
  <1>1. \A x, y \in Nat : y < x => <<y, x>> \in OpToRel(<, Nat)
    BY DEF OpToRel
  <1> QED
    BY NatLessThanWellFounded, <1>1

LEMMA LeastOf ==
    ASSUME NEW S, S \subseteq Nat, S # {}
    PROVE  \E x \in S : \A y \in S : x <= y
  <1>1. PICK R : IsWellFoundedOn(R, Nat) /\ \A x, y \in Nat : y < x => <<y, x>> \in R
    BY NumbersAreWellFounded
  <1>2. PICK x \in S : \A y \in S : ~(<<y, x>> \in R)
    BY <1>1, WFMin
  <1>3. ASSUME NEW y \in S PROVE x <= y
    <2>1. x \in Nat /\ y \in Nat
      OBVIOUS
    <2>2. ~(<<y, x>> \in R)
      BY <1>2
    <2>3. \A a, b \in Nat : b < a => <<b, a>> \in R
      BY <1>1
    <2>4. ~(y < x)
      BY <2>1, <2>2, <2>3
    <2> QED
      BY <2>1, <2>4
  <1> QED
    BY <1>3

InOrder(s) == \A i, j \in 1..Len(s) : i <= j => s[i] <= s[j]

LEMMA RecentAreLast ==
    ASSUME NEW s \in Seq(Int), InOrder(s), NEW cutoff \in Int
    PROVE  \E p \in 0..Len(s) : /\ \A i \in 1..p : s[i] <= cutoff
                                /\ \A i \in p + 1..Len(s) : s[i] > cutoff
  <1> DEFINE late == {i \in 1..Len(s) : s[i] > cutoff}
  <1>1. Len(s) \in Nat /\ \A i \in 1..Len(s) : s[i] \in Int
    OBVIOUS
  <1>2. CASE late = {}
    <2>1. \A i \in 1..Len(s) : s[i] <= cutoff
      BY <1>1, <1>2
    <2>2. Len(s) \in 0..Len(s) /\ \A i \in Len(s) + 1..Len(s) : s[i] > cutoff
      BY <1>1
    <2> QED
      BY <2>1, <2>2
  <1>3. CASE late # {}
    <2>1. late \subseteq Nat
      BY <1>1
    <2>2. PICK x \in late : \A y \in late : x <= y
      BY <1>3, <2>1, LeastOf
    <2>3. x - 1 \in 0..Len(s)
      BY <1>1, <2>2
    <2>4. \A i \in 1..x - 1 : s[i] <= cutoff
      BY <1>1, <2>2
    <2>5. \A i \in x..Len(s) : s[i] > cutoff
      BY <1>1, <2>2 DEF InOrder
    <2>6. PICK p \in 0..Len(s) : p = x - 1
      BY <2>3
    <2>7. \A i \in 1..p : s[i] <= cutoff
      BY <2>4, <2>6
    <2>8. p + 1 = x
      BY <1>1, <2>1, <2>2, <2>6
    <2>9. \A i \in p + 1..Len(s) : s[i] > cutoff
      BY <2>5, <2>8
    <2> QED
      BY <2>7, <2>9
  <1> QED
    BY <1>2, <1>3

Keeps(g, s, cutoff) ==
    g = [i \in 0..Len(s) |-> IF i = 0 THEN <<>>
                             ELSE IF s[i] > cutoff THEN Append(g[i - 1], s[i])
                             ELSE g[i - 1]]

LEMMA AfterIs ==
    ASSUME NEW s, NEW cutoff
    PROVE  After(s, cutoff) = (CHOOSE g : Keeps(g, s, cutoff))[Len(s)]
  BY DEF After, Keeps

LEMMA SuffixKeeps ==
    ASSUME NEW s \in Seq(Int), NEW cutoff \in Int, NEW p \in 0..Len(s),
           \A i \in 1..p : s[i] <= cutoff,
           \A i \in p + 1..Len(s) : s[i] > cutoff
    PROVE  Keeps([i \in 0..Len(s) |-> SubSeq(s, p + 1, i)], s, cutoff)
  <1> DEFINE g == [i \in 0..Len(s) |-> SubSeq(s, p + 1, i)]
  <1>1. Len(s) \in Nat /\ p \in Nat /\ \A i \in 1..Len(s) : s[i] \in Int
    OBVIOUS
  <1>2. \A i \in 0..p : SubSeq(s, p + 1, i) = <<>>
    BY <1>1, SubSeqEmpty
  <1>3. ASSUME NEW i \in p + 1..Len(s)
        PROVE  SubSeq(s, p + 1, i) = Append(SubSeq(s, p + 1, i - 1), s[i])
    <2>1. p + 1 \in 1..Len(s) /\ i \in p + 1..Len(s) /\ i \in 1..Len(s)
      BY <1>1
    <2>2. SubSeq(s, p + 1, i) = SubSeq(s, p + 1, i - 1) \o <<s[i]>>
      BY <2>1, SubSeqRecursiveSecond
    <2>3. SubSeq(s, p + 1, i - 1) \in Seq(Int)
      <3>1. \A k \in p + 1..i - 1 : s[k] \in Int
        BY <1>1
      <3> QED
        BY <1>1, <2>1, <3>1, SubSeqProperties
    <2> QED
      BY <1>1, <2>1, <2>2, <2>3, AppendIsConcat
  <1>4. \A i \in 0..Len(s) : g[i] = SubSeq(s, p + 1, i)
    OBVIOUS
  <1>. HIDE DEF g
  <1>7. ASSUME NEW i \in 0..Len(s)
        PROVE  g[i] = IF i = 0 THEN <<>>
                      ELSE IF s[i] > cutoff THEN Append(g[i - 1], s[i])
                      ELSE g[i - 1]
    <2>1. CASE i = 0
      BY <1>1, <1>2, <1>4, <2>1
    <2>2. CASE i \in 1..p
      <3>1. i - 1 \in 0..p /\ i \in 0..p /\ i - 1 \in 0..Len(s) /\ i # 0 /\ ~(s[i] > cutoff)
        BY <1>1, <2>2
      <3>2. g[i] = <<>> /\ g[i - 1] = <<>>
        BY <1>2, <1>4, <3>1
      <3> QED
        BY <3>1, <3>2
    <2>3. CASE i \in p + 1..Len(s)
      <3>1. i - 1 \in 0..Len(s) /\ i # 0 /\ s[i] > cutoff
        BY <1>1, <2>3
      <3>2. g[i] = Append(g[i - 1], s[i])
        BY <1>3, <1>4, <2>3, <3>1
      <3> QED
        BY <3>1, <3>2
    <2>4. i = 0 \/ i \in 1..p \/ i \in p + 1..Len(s)
      BY <1>1
    <2> QED
      BY <2>1, <2>2, <2>3, <2>4
  <1>5. g = [i \in 0..Len(s) |-> g[i]]
    BY DEF g
  <1>6. Keeps(g, s, cutoff)
    BY <1>5, <1>7 DEF Keeps
  <1> QED
    BY <1>6 DEF g

\* What the recursion defines is unique.
LEMMA KeepsIsUnique ==
    ASSUME NEW s, Len(s) \in Nat, NEW cutoff,
           NEW f, Keeps(f, s, cutoff), NEW g, Keeps(g, s, cutoff)
    PROVE  f[Len(s)] = g[Len(s)]
  <1> DEFINE apart == {i \in 0..Len(s) : f[i] # g[i]}
  <1>1. ASSUME apart # {} PROVE FALSE
    <2>1. apart \subseteq Nat
      OBVIOUS
    <2>2. PICK n \in apart : \A m \in apart : n <= m
      BY <1>1, <2>1, LeastOf
    <2>3. CASE n = 0
      BY <2>2, <2>3 DEF Keeps
    <2>4. CASE n # 0
      <3>1. n - 1 \in 0..Len(s) /\ n \in 0..Len(s) /\ n - 1 \notin apart
        BY <2>2, <2>4
      <3>2. f[n - 1] = g[n - 1]
        BY <3>1
      <3>3. /\ f[n] = IF s[n] > cutoff THEN Append(f[n - 1], s[n]) ELSE f[n - 1]
            /\ g[n] = IF s[n] > cutoff THEN Append(g[n - 1], s[n]) ELSE g[n - 1]
        BY <2>4, <3>1 DEF Keeps
      <3> QED
        BY <2>2, <3>2, <3>3
    <2> QED
      BY <2>3, <2>4
  <1> QED
    BY <1>1

(* The failures that prune_and_check_block keeps are the last ones, and     *)
(* those it drops lie outside the window.                                  *)
LEMMA AfterIsSuffix ==
    ASSUME NEW s \in Seq(Nat), InOrder(s), NEW cutoff \in Int
    PROVE  \E p \in 0..Len(s) :
             /\ After(s, cutoff) \in Seq(Nat)
             /\ Len(After(s, cutoff)) = Len(s) - p
             /\ \A i \in 1..Len(s) - p : After(s, cutoff)[i] = s[p + i]
             /\ \A i \in 1..p : s[i] <= cutoff
  <1>1. Len(s) \in Nat /\ s \in Seq(Int) /\ \A i \in 1..Len(s) : s[i] \in Nat
    BY SeqMonotonic
  <1>2. PICK p \in 0..Len(s) : /\ \A i \in 1..p : s[i] <= cutoff
                               /\ \A i \in p + 1..Len(s) : s[i] > cutoff
    BY <1>1, RecentAreLast
  <1> DEFINE g == [i \in 0..Len(s) |-> SubSeq(s, p + 1, i)]
             chosen == CHOOSE f : Keeps(f, s, cutoff)
  <1>3. Keeps(g, s, cutoff)
    BY <1>1, <1>2, SuffixKeeps
  <1>4. Keeps(chosen, s, cutoff)
    BY <1>3
  <1>5. g[Len(s)] = SubSeq(s, p + 1, Len(s))
    BY <1>1
  <1>6. After(s, cutoff) = chosen[Len(s)]
    BY AfterIs
  <1> HIDE DEF g, chosen
  <1>7. chosen[Len(s)] = g[Len(s)]
    BY <1>1, <1>3, <1>4, KeepsIsUnique
  <1>8. \A i \in p + 1..Len(s) : s[i] \in Nat
    BY <1>1
  <1>9. /\ SubSeq(s, p + 1, Len(s)) \in Seq(Nat)
        /\ Len(SubSeq(s, p + 1, Len(s))) = Len(s) - p
        /\ \A i \in 1..Len(s) - p : SubSeq(s, p + 1, Len(s))[i] = s[p + i]
    <2>1. p + 1 \in Int /\ Len(s) \in Int /\ Len(s) - (p + 1) + 1 = Len(s) - p
      BY <1>1
    <2>2. /\ SubSeq(s, p + 1, Len(s)) \in Seq(Nat)
          /\ Len(SubSeq(s, p + 1, Len(s))) =
               IF p + 1 <= Len(s) THEN Len(s) - (p + 1) + 1 ELSE 0
          /\ \A i \in 1..Len(s) - (p + 1) + 1 : SubSeq(s, p + 1, Len(s))[i] = s[(p + 1) + i - 1]
      BY <1>8, <2>1, SubSeqProperties
    <2>3. \A i \in 1..Len(s) - p : (p + 1) + i - 1 = p + i
      BY <1>1
    <2>4. Len(SubSeq(s, p + 1, Len(s))) = Len(s) - p
      <3>1. p \in Nat /\ p <= Len(s)
        BY <1>1
      <3>2. (IF p + 1 <= Len(s) THEN Len(s) - (p + 1) + 1 ELSE 0) = Len(s) - p
        BY <1>1, <3>1
      <3> QED
        BY <2>2, <3>2
    <2>5. \A i \in 1..Len(s) - p : SubSeq(s, p + 1, Len(s))[i] = s[p + i]
      BY <2>1, <2>2, <2>3
    <2> QED
      BY <2>2, <2>4, <2>5
  <1> QED
    BY <1>2, <1>5, <1>6, <1>7, <1>9

-----------------------------------------------------------------------------
(* The unlocking side: what a variable may hold. *)

Inside == {"credential", "role", "verify", "person"}

AttemptRecord ==
    [pc : Inside \union {"waiting"}, token : Nat, guess : Nat, scope : Scopes, now : Nat,
     credential : Nat, actives : SUBSET Nat]

GrantRecord ==
    [source : {"local_unlock"}, candidate : {Owner}, expires : Nat, scope : Scopes,
     spent : {FALSE}]

UnlockTypes ==
    /\ clock \in Nat /\ pin \in Nat /\ pins \in Nat /\ calls \in Nat
    /\ mix \in DOMAIN Mixes
    /\ role \in {"owner", "unknown"}
    /\ line \in Seq(Callers)
    /\ call \in [Callers -> {Idle} \union AttemptRecord]
    /\ failures \in Seq(Nat) /\ wrong \in Seq(Nat) /\ blocked \in Nat \union {NotBlocked}
    /\ grants \in [Tokens -> {NoGrant} \union GrantRecord]

(* Only the caller that holds the lock has been let in. *)
LockIsHeld ==
    \A c \in Callers : call[c].pc \in Inside => line # <<>> /\ Head(line) = c

(* The failures the limiter remembers are the last wrong attempts; any     *)
(* other lies a window before whatever the lock will let in, by the clock  *)
(* or by the block.                                                        *)
Older == 1..Len(wrong) - Len(failures)

FailuresAreLast ==
    /\ Len(failures) < MaxFailures
    /\ Len(failures) <= Len(wrong)
    /\ \A i \in 1..Len(failures) : failures[i] = wrong[Len(wrong) - Len(failures) + i]

OlderAreOut ==
    \A i \in Older : \/ wrong[i] + Window <= clock
                     \/ blocked # NotBlocked /\ wrong[i] + Window <= blocked

AttemptsInTime ==
    /\ InOrder(wrong)
    /\ \A i \in 1..Len(wrong) : wrong[i] <= clock
    /\ \A c \in Callers : call[c].pc \in Inside =>
         /\ blocked = NotBlocked
         /\ call[c].now <= clock
         /\ \A i \in 1..Len(wrong) : wrong[i] <= call[c].now
         /\ \A i \in Older : wrong[i] + Window <= call[c].now

(* An attempt remembers the PIN that is active, and the one it has read. *)
PinsAreSeen ==
    \A c \in Callers :
        /\ call[c].pc \in Inside => pin \in call[c].actives
        /\ call[c].pc \in {"role", "verify"} => call[c].credential \in call[c].actives
        /\ call[c].pc = "person" => call[c].guess \in call[c].actives

(* A token that an attempt will issue is not live yet. *)
Coming(t) ==
    \/ calls < t /\ t <= Bounds.calls
    \/ \E c \in Callers : call[c] # Idle /\ call[c].token = t

TokensAreNew ==
    /\ \A c \in Callers : call[c] # Idle => call[c].token \in 1..calls
    /\ \A c, d \in Callers : c # d /\ call[c] # Idle /\ call[d] # Idle =>
                               call[c].token # call[d].token
    /\ \A t \in Tokens : grants[t] # NoGrant => ~Coming(t)

UnlockInv ==
    /\ UnlockTypes /\ LockIsHeld
    /\ FailuresAreLast /\ OlderAreOut /\ AttemptsInTime /\ GuessesBounded
    /\ PinsAreSeen /\ TokensAreNew

-----------------------------------------------------------------------------
(* The requests: what one may hold. *)

Judging  == {"face", "face_role", "face_consent", "voice", "voice_role", "voice_consent",
             "token", "token_role"}
Thens    == {"ask", "judge_name", "judge_child"}
Unasked  == Judging \union Thens
Changing == {"admin", "grant_face", "enrol_print"}

IsRecord(q) ==
    q = [pc |-> q.pc, then |-> q.then, kind |-> q.kind, frame |-> q.frame, clip |-> q.clip,
         token |-> q.token, at |-> q.at, actor |-> q.actor, veto |-> q.veto,
         references |-> q.references, role |-> q.role, step |-> q.step, rows |-> q.rows,
         read |-> q.read, seen |-> q.seen]

Seen == [owner : BOOLEAN, face : BOOLEAN, voice : BOOLEAN, prints : BOOLEAN]

IsRequest(q) ==
    /\ IsRecord(q)
    /\ q.seen \in Seen
    /\ q.pc \in Unasked \union Changing \union {"read", "done"}
    /\ q.then \in Thens
    /\ q.kind \in Kinds

AllowedUpTo(q, last) == \A i \in 1..last : Row(Plans[q.kind][i], "allowed") \in q.rows

(* Before it first asks it has no row; then it has those of every step it  *)
(* has left behind, and while it reads also of the step it is at.          *)
IsAudited(q) ==
    /\ q.step \in Nat \ {0}
    /\ q.pc \in Unasked \ {"ask"} => q.step = 1 /\ q.rows = {} /\ q.read = {}
    /\ q.pc \in Unasked \union {"read"} => q.step <= Len(Plans[q.kind])
    /\ AllowedUpTo(q, q.step - 1)
    /\ q.pc = "read" => AllowedUpTo(q, q.step)
    /\ \A s \in q.read : s \in Nat /\ AllowedUpTo(q, s)

(* What an actor rests on has been true since the request began. *)
IsGrounded(actor, seen) ==
    /\ actor.role \in {"owner", "unknown"}
    /\ actor.role = "owner" => seen.owner
    /\ actor.assurance \in Assurance
    /\ Sources(actor.evidence) \subseteq {"face", "voice", "local_unlock"}
    /\ "face" \in Sources(actor.evidence) => seen.face
    /\ "voice" \in Sources(actor.evidence) => seen.voice /\ seen.prints
    /\ actor.status = "identified" => HoldsToken(actor) \/ "face" \in Sources(actor.evidence)
    /\ actor.assurance = "strong" => HoldsToken(actor) \/ "voice" \in Sources(actor.evidence)
    /\ actor.status = "ambiguous" => ~HoldsToken(actor)

Entitled(q) ==
    /\ q.seen.owner
    /\ HoldsToken(q.actor) \/ q.seen.face
    /\ q.kind = "security" => q.seen.voice /\ q.seen.prints

HasSeen(q) ==
    /\ IsGrounded(q.actor, q.seen)
    /\ q.role \in {"owner", "unknown"}
    /\ q.role = "owner" => q.seen.owner
    /\ q.pc \in {"voice_role", "voice_consent"} /\ q.references >= LeastPrints => q.seen.prints
    /\ q.pc = "read" \/ q.read # {} => Entitled(q)

(* What holds now is noted by every request under way. *)
NotesWhatHolds(q) ==
    q.pc # "done" =>
        /\ role = "owner" => q.seen.owner
        /\ faceConsent => q.seen.face
        /\ voiceConsent => q.seen.voice
        /\ prints >= LeastPrints => q.seen.prints

Sound(q) == IsRequest(q) /\ IsAudited(q) /\ HasSeen(q) /\ NotesWhatHolds(q)

RequestInv ==
    /\ req = [r \in Requests |-> req[r]]
    /\ faceConsent \in BOOLEAN /\ voiceConsent \in BOOLEAN
    /\ \A r \in Requests : req[r] # New => Sound(req[r])

(* A grant that a request has spent is gone, will never be issued again,   *)
(* and no other request has it.                                            *)
HasSpent(r) == req[r] # New /\ req[r].kind \in Spends /\ HoldsToken(req[r].actor)

SpentIsGone ==
    /\ \A r \in Requests : HasSpent(r) =>
         /\ req[r].token \in Tokens
         /\ grants[req[r].token] = NoGrant
         /\ ~Coming(req[r].token)
    /\ \A r, s \in Requests : r # s /\ HasSpent(r) /\ HasSpent(s) => req[r].token # req[s].token

Inv == UnlockInv /\ RequestInv /\ SpentIsGone

-----------------------------------------------------------------------------
(* Unlocking keeps its invariant.  First the steps of the clock and of the *)
(* operator.                                                               *)

LEMMA Constants ==
    /\ Window \in Nat \ {0} /\ MaxFailures \in Nat \ {0} /\ TTL \in Nat \ {0}
    /\ MaxCalls \in Nat
    /\ Tokens = 1..MaxCalls
    /\ Idle \notin AttemptRecord /\ NoGrant \notin GrantRecord
    /\ Idle.pc = "idle"
    /\ NotBlocked \notin Nat
  <1>1. \A a \in AttemptRecord : a.pc # "idle"
    BY DEF AttemptRecord, Inside
  <1>2. \A g \in GrantRecord : g.source # "none"
    BY DEF GrantRecord
  <1> QED
    BY <1>1, <1>2, UnlockAssumption DEF Tokens, Idle, NoGrant, NotBlocked

LEMMA BoundsAre ==
    ASSUME mix \in DOMAIN Mixes
    PROVE  /\ Bounds.callers \subseteq Callers
           /\ Bounds.unlocks \subseteq Scopes
           /\ Bounds.calls \in Nat /\ Bounds.enrolled \in BOOLEAN
           /\ \A t \in DOMAIN Bounds.scopes : t > Bounds.calls /\ Bounds.scopes[t] \in Scopes
           /\ \A r \in Requests : Bounds.kinds[r] \subseteq Kinds /\ Bounds.tokens[r] \subseteq Nat
  BY MixesAssumption DEF Bounds

LEMMA UnlockInitial ==
    ASSUME Init
    PROVE  UnlockInv
  <1> USE DEF UnlockInit
  <1>1. clock = 0 /\ pin = 1 /\ pins = 1 /\ calls = 0 /\ role = "owner" /\ line = <<>>
        /\ failures = <<>> /\ wrong = <<>> /\ blocked = NotBlocked
        /\ call = [c \in Callers |-> Idle] /\ mix \in DOMAIN Mixes
    BY DEF Init
  <1>2. Len(failures) = 0 /\ Len(wrong) = 0 /\ Older = {}
    BY <1>1 DEF Older
  <1>3. \A c \in Callers : call[c] = Idle /\ call[c].pc \notin Inside /\ call[c].pc = "idle"
    BY <1>1, Constants DEF Inside
  <1>4. grants \in [Tokens -> {NoGrant} \union GrantRecord]
    <2>1. \A t \in Tokens : t \in DOMAIN Bounds.scopes => Grant(Bounds.scopes[t], TTL) \in GrantRecord
      BY <1>1, BoundsAre, Constants DEF Grant, GrantRecord
    <2> QED
      BY <2>1 DEF Init
  <1>5. UnlockTypes
    BY <1>1, <1>3, <1>4, Constants DEF UnlockTypes
  <1>6. LockIsHeld /\ PinsAreSeen
    BY <1>3 DEF LockIsHeld, PinsAreSeen, Inside
  <1>7. FailuresAreLast /\ OlderAreOut /\ AttemptsInTime
    BY <1>2, <1>3, Constants DEF FailuresAreLast, OlderAreOut, AttemptsInTime, InOrder
  <1>8. GuessesBounded
    BY <1>2, Constants DEF GuessesBounded
  <1>9. TokensAreNew
    <2>1. ASSUME NEW t \in Tokens, grants[t] # NoGrant PROVE ~Coming(t)
      <3>1. t \in DOMAIN Bounds.scopes
        BY <2>1 DEF Init
      <3>2. t > Bounds.calls /\ Bounds.calls \in Nat /\ t \in Nat
        BY <1>1, <2>1, <3>1, BoundsAre, Constants
      <3> QED
        BY <1>3, <3>2 DEF Coming
    <2> QED
      BY <1>3, <2>1 DEF TokensAreNew
  <1> QED
    BY <1>5, <1>6, <1>7, <1>8, <1>9 DEF UnlockInv

LEMMA TickUnlock ==
    ASSUME UnlockInv, Tick, UNCHANGED mix
    PROVE  UnlockInv'
  <1> USE DEF operatorVars, unlockVars
  <1>1. clock \in Nat /\ clock' = clock + 1 /\ clock' \in Nat
    BY DEF UnlockInv, UnlockTypes, Tick
  <1>2. UNCHANGED <<role, pin, pins, saving, line, call, calls, failures, blocked, wrong, grants, mix>>
    BY DEF Tick
  <1>3. Older' = Older /\ Bounds' = Bounds
    BY <1>2 DEF Older, Bounds
  <1>4. UnlockTypes'
    BY <1>1, <1>2 DEF UnlockInv, UnlockTypes
  <1>5. LockIsHeld' /\ PinsAreSeen'
    BY <1>2 DEF UnlockInv, LockIsHeld, PinsAreSeen
  <1>6. FailuresAreLast' /\ GuessesBounded'
    BY <1>2 DEF UnlockInv, FailuresAreLast, GuessesBounded
  <1>7. Len(wrong) \in Nat /\ Len(failures) \in Nat /\ \A i \in 1..Len(wrong) : wrong[i] \in Nat
    BY DEF UnlockInv, UnlockTypes
  <1>8. \A i \in Older : i \in 1..Len(wrong)
    BY <1>7 DEF Older
  <1>9. OlderAreOut'
    BY <1>1, <1>2, <1>3, <1>7, <1>8, Constants DEF UnlockInv, OlderAreOut
  <1>10. AttemptsInTime'
    <2>1. \A c \in Callers : call[c].pc \in Inside => call[c].now \in Nat
      BY Constants DEF UnlockInv, UnlockTypes, AttemptRecord, Inside
    <2> QED
      BY <1>1, <1>2, <1>3, <1>7, <2>1 DEF UnlockInv, AttemptsInTime, InOrder
  <1>11. TokensAreNew'
    BY <1>2, <1>3 DEF UnlockInv, TokensAreNew, Coming
  <1> QED
    BY <1>4, <1>5, <1>6, <1>9, <1>10, <1>11 DEF UnlockInv

LEMMA MoreActives ==
    ASSUME NEW a \in AttemptRecord, NEW version \in Nat
    PROVE  LET b == [a EXCEPT !.actives = @ \union {version}]
           IN  /\ b \in AttemptRecord
               /\ b.pc = a.pc /\ b.token = a.token /\ b.now = a.now
               /\ b.credential = a.credential /\ b.guess = a.guess
               /\ b.actives = a.actives \union {version}
  <1>1. a.actives \union {version} \in SUBSET Nat
    BY DEF AttemptRecord
  <1> DEFINE more == a.actives \union {version}
             b    == [a EXCEPT !.actives = more]
  <1> HIDE DEF more
  <1>2. /\ b \in AttemptRecord
        /\ b.pc = a.pc /\ b.token = a.token /\ b.now = a.now
        /\ b.credential = a.credential /\ b.guess = a.guess
        /\ b.actives = more
    BY <1>1 DEF AttemptRecord, more
  <1> QED
    BY <1>2 DEF more

(* What an attempt in progress keeps when another PIN becomes the active   *)
(* one, or none does.                                                      *)
AttemptStays(c) ==
    /\ call'[c].pc = call[c].pc
    /\ call[c] # Idle <=> call'[c] # Idle
    /\ call[c] # Idle => /\ call'[c].token = call[c].token
                         /\ call'[c].now = call[c].now
                         /\ call'[c].credential = call[c].credential
                         /\ call'[c].guess = call[c].guess
                         /\ call[c].actives \subseteq call'[c].actives
    /\ call[c].pc \in Inside => pin' \in call'[c].actives

\* What changes of the attempts when a version becomes the active one.
LEMMA BecomingActive ==
    ASSUME UnlockInv, NEW version \in Nat, BecomesActive(version)
    PROVE  /\ pin' = version
           /\ call' \in [Callers -> {Idle} \union AttemptRecord]
           /\ \A c \in Callers : AttemptStays(c)
  <1>1. call \in [Callers -> {Idle} \union AttemptRecord]
    BY DEF UnlockInv, UnlockTypes
  <1>2. ASSUME NEW c \in Callers, call[c].pc \in {"idle", "waiting"}
        PROVE  call'[c] = call[c]
    BY <1>2 DEF BecomesActive
  <1>3. ASSUME NEW c \in Callers, call[c].pc \notin {"idle", "waiting"}
        PROVE  /\ call[c] \in AttemptRecord
               /\ call'[c] = [call[c] EXCEPT !.actives = @ \union {version}]
    BY <1>1, <1>3, Constants DEF BecomesActive
  <1>4. ASSUME NEW c \in Callers, call[c].pc \notin {"idle", "waiting"}
        PROVE  /\ call'[c] \in AttemptRecord
               /\ call'[c].pc = call[c].pc /\ call'[c].token = call[c].token
               /\ call'[c].now = call[c].now /\ call'[c].credential = call[c].credential
               /\ call'[c].guess = call[c].guess
               /\ call'[c].actives = call[c].actives \union {version}
    <2>1. call[c] \in AttemptRecord
      BY <1>3, <1>4
    <2>2. call'[c] = [call[c] EXCEPT !.actives = @ \union {version}]
      BY <1>3, <1>4
    <2> QED
      BY <2>1, <2>2, MoreActives
  <1>5. DOMAIN call' = Callers /\ call' = [c \in Callers |-> call'[c]]
    BY DEF BecomesActive
  <1>6. \A c \in Callers : call'[c] \in {Idle} \union AttemptRecord
    BY <1>1, <1>2, <1>4
  <1>7. pin' = version
    BY DEF BecomesActive
  <1>8. ASSUME NEW c \in Callers PROVE AttemptStays(c)
    <2>1. CASE call[c].pc \in {"idle", "waiting"}
      BY <1>2, <2>1 DEF AttemptStays, Inside
    <2>2. CASE call[c].pc \notin {"idle", "waiting"}
      <3>1. call[c] # Idle /\ call'[c] # Idle
        BY <1>4, <2>2, Constants
      <3>2. version \in call'[c].actives /\ call[c].actives \subseteq call'[c].actives
        BY <1>4, <2>2
      <3> QED
        BY <1>4, <1>7, <2>2, <3>1, <3>2 DEF AttemptStays
    <2> QED
      BY <2>1, <2>2
  <1> QED
    BY <1>5, <1>6, <1>7, <1>8

\* What a step of the operator may change.
LEMMA OperatorTypes ==
    ASSUME UnlockInv, NEW step, OperatorStep(step)
    PROVE  /\ UNCHANGED <<clock, line, calls, failures, blocked, wrong, grants>>
           /\ role' \in {"owner", "unknown"} /\ (role' = "owner" => role = "owner")
           /\ pins' \in Nat
           /\ \/ UNCHANGED <<pin, call>>
              \/ \E version \in Nat : BecomesActive(version)
  <1>1. role \in {"owner", "unknown"} /\ pins \in Nat /\ pins + 1 \in Nat /\ NoPin \in Nat
    BY DEF UnlockInv, UnlockTypes, NoPin
  <1>2. CASE CheckOwnerRole
    BY <1>1, <1>2 DEF OperatorStep, CheckOwnerRole, Limiter
  <1>3. CASE SavePin
    BY <1>1, <1>3 DEF OperatorStep, SavePin, Limiter
  <1>4. CASE RevokePin
    BY <1>1, <1>4 DEF OperatorStep, RevokePin, Limiter
  <1>5. CASE RevokeActiveRole
    BY <1>1, <1>5 DEF OperatorStep, RevokeActiveRole, Limiter
  <1> QED
    BY <1>2, <1>3, <1>4, <1>5 DEF OperatorStep

LEMMA OperatorUnlock ==
    ASSUME UnlockInv, NEW step, OperatorStep(step), UNCHANGED mix
    PROVE  UnlockInv'
  <1>1. /\ UNCHANGED <<clock, line, calls, failures, blocked, wrong, grants, mix>>
        /\ role' \in {"owner", "unknown"} /\ pins' \in Nat
    BY OperatorTypes
  <1>2. /\ pin' \in Nat
        /\ call' \in [Callers -> {Idle} \union AttemptRecord]
        /\ \A c \in Callers : AttemptStays(c)
    <2>1. CASE UNCHANGED <<pin, call>>
      BY <2>1 DEF UnlockInv, UnlockTypes, PinsAreSeen, AttemptStays
    <2>2. CASE \E version \in Nat : BecomesActive(version)
      BY <2>2, BecomingActive
    <2> QED
      BY <2>1, <2>2, OperatorTypes
  <1>3. \A c \in Callers : call[c].pc \in Inside => call[c] # Idle
    BY Constants DEF Inside
  <1>4. Older' = Older /\ Bounds' = Bounds
    BY <1>1 DEF Older, Bounds
  <1>5. UnlockTypes'
    BY <1>1, <1>2 DEF UnlockInv, UnlockTypes
  <1>6. LockIsHeld'
    BY <1>1, <1>2 DEF UnlockInv, LockIsHeld, AttemptStays
  <1>7. FailuresAreLast' /\ GuessesBounded' /\ OlderAreOut'
    BY <1>1, <1>4 DEF UnlockInv, FailuresAreLast, GuessesBounded, OlderAreOut
  <1>8. AttemptsInTime'
    BY <1>1, <1>2, <1>3, <1>4 DEF UnlockInv, AttemptsInTime, InOrder, AttemptStays
  <1>9. PinsAreSeen'
    BY <1>2, <1>3 DEF UnlockInv, PinsAreSeen, Inside, AttemptStays
  <1>10. TokensAreNew'
    BY <1>1, <1>2, <1>4 DEF UnlockInv, TokensAreNew, Coming, AttemptStays
  <1> QED
    BY <1>5, <1>6, <1>7, <1>8, <1>9, <1>10 DEF UnlockInv

-----------------------------------------------------------------------------
(* Then the steps of an attempt.  Whoever is answered was the only one let *)
(* in, so nobody is left inside.                                           *)

Around == <<clock, operatorVars, mix>>

LEMMA Holder ==
    ASSUME UnlockInv, NEW c \in Callers, NEW pcs \in SUBSET (Inside \union {"waiting"}),
           Holds(c, pcs)
    PROVE  /\ call[c] \in AttemptRecord /\ call[c] # Idle /\ call[c].pc \in pcs
           /\ line # <<>>
           /\ \A d \in Callers : d # c => call[d].pc \notin Inside
  <1>1. call[c] \in {Idle} \union AttemptRecord /\ Idle.pc = "idle"
    BY Constants DEF UnlockInv, UnlockTypes
  <1>2. call[c].pc \in pcs /\ "idle" \notin pcs
    BY DEF Holds, Inside
  <1> QED
    BY <1>1, <1>2 DEF UnlockInv, LockIsHeld, Holds

LEMMA Answering ==
    ASSUME UnlockInv, NEW c \in Callers, Holds(c, Inside \union {"waiting"}), Answered(c),
           UNCHANGED Around
    PROVE  /\ call'[c] = Idle /\ \A d \in Callers : d # c => call'[d] = call[d]
           /\ call' \in [Callers -> {Idle} \union AttemptRecord]
           /\ line' \in Seq(Callers)
           /\ \A d \in Callers : call'[d].pc \notin Inside
           /\ LockIsHeld' /\ PinsAreSeen'
           /\ calls' = calls
  <1>1. call \in [Callers -> {Idle} \union AttemptRecord] /\ line \in Seq(Callers)
    BY DEF UnlockInv, UnlockTypes
  <1>2. line # <<>> /\ \A d \in Callers : d # c => call[d].pc \notin Inside
    BY Holder
  <1>3. /\ call'[c] = Idle /\ \A d \in Callers : d # c => call'[d] = call[d]
        /\ call' \in [Callers -> {Idle} \union AttemptRecord]
    BY <1>1 DEF Answered
  <1>4. line' \in Seq(Callers)
    BY <1>1, <1>2 DEF Answered
  <1>5. \A d \in Callers : call'[d].pc \notin Inside
    BY <1>2, <1>3, Constants DEF Inside
  <1>6. LockIsHeld' /\ PinsAreSeen'
    BY <1>5 DEF LockIsHeld, PinsAreSeen, Inside
  <1> QED
    BY <1>3, <1>4, <1>5, <1>6 DEF Answered

LEMMA AnsweringTokens ==
    ASSUME UnlockInv, NEW c \in Callers, Holds(c, Inside \union {"waiting"}), Answered(c),
           UNCHANGED Around, UNCHANGED grants
    PROVE  TokensAreNew'
  <1>1. /\ call'[c] = Idle /\ \A d \in Callers : d # c => call'[d] = call[d]
        /\ calls' = calls
    BY Answering
  <1>2. \A d \in Callers : call'[d] # Idle => d # c /\ call[d] # Idle /\ call'[d] = call[d]
    BY <1>1
  <1>3. Bounds' = Bounds
    BY DEF Around, Bounds
  <1>4. \A t \in Tokens : Coming(t)' => Coming(t)
    BY <1>1, <1>2, <1>3 DEF Coming
  <1> QED
    BY <1>1, <1>2, <1>4 DEF UnlockInv, TokensAreNew

\* A wrong attempt is the last one, and the one to wait for.
LEMMA Failing ==
    ASSUME UnlockInv, NEW c \in Callers, Holds(c, Inside), Fail(c), UNCHANGED <<Around, grants>>
    PROVE  UnlockInv'
  <1> DEFINE now == call[c].now
  <1>1. call[c] \in AttemptRecord /\ call[c].pc \in Inside
    BY Holder
  <1>2. now \in Nat /\ Window \in Nat /\ MaxFailures \in Nat \ {0} /\ clock \in Nat
    BY <1>1, Constants DEF AttemptRecord, UnlockInv, UnlockTypes
  <1>3. Holds(c, Inside \union {"waiting"}) /\ Answered(c) /\ RecordFailure(now)
    BY DEF Fail, Holds
  <1>4. failures \in Seq(Nat) /\ wrong \in Seq(Nat) /\ blocked = NotBlocked
    BY <1>1 DEF UnlockInv, UnlockTypes, AttemptsInTime
  <1>5. PICK n \in Nat : n = Len(wrong)
    BY <1>4
  <1>6. PICK k \in Nat : k = Len(failures)
    BY <1>4
  <1>7. /\ k < MaxFailures /\ k <= n
        /\ \A i \in 1..k : failures[i] = wrong[n - k + i]
    BY <1>5, <1>6 DEF UnlockInv, FailuresAreLast
  <1>8. /\ \A i \in 1..n : wrong[i] \in Nat /\ wrong[i] <= now
        /\ \A i \in 1..n - k : wrong[i] + Window <= now
        /\ \A i, j \in 1..n : i <= j => wrong[i] <= wrong[j]
        /\ now <= clock
    BY <1>1, <1>4, <1>5, <1>6 DEF UnlockInv, AttemptsInTime, Older, InOrder
  <1>9. /\ wrong' \in Seq(Nat) /\ Len(wrong') = n + 1
        /\ \A i \in 1..n : wrong'[i] = wrong[i]
        /\ wrong'[n + 1] = now
    BY <1>2, <1>3, <1>4, <1>5, AppendProperties DEF RecordFailure
  <1> HIDE DEF now
  <1>10. \/ /\ k + 1 >= MaxFailures /\ blocked' = now + Window
            /\ failures' = <<>>
         \/ /\ k + 1 < MaxFailures /\ blocked' = NotBlocked
            /\ failures' \in Seq(Nat) /\ Len(failures') = k + 1
            /\ \A i \in 1..k : failures'[i] = failures[i]
            /\ failures'[k + 1] = now
    <2>1. CASE k + 1 >= MaxFailures
      BY <1>3, <1>6, <2>1 DEF RecordFailure
    <2>2. CASE ~(k + 1 >= MaxFailures)
      <3>1. failures' = Append(failures, now) /\ blocked' = NotBlocked
        BY <1>3, <1>4, <1>6, <2>2 DEF RecordFailure
      <3>2. k + 1 < MaxFailures
        BY <1>2, <2>2
      <3> QED
        BY <1>2, <1>4, <1>6, <3>1, <3>2, AppendProperties
    <2> QED
      BY <2>1, <2>2
  <1>11. Len(<<>>) = 0 /\ <<>> \in Seq(Nat)
    OBVIOUS
  <1>12. /\ call' \in [Callers -> {Idle} \union AttemptRecord]
         /\ line' \in Seq(Callers)
         /\ \A d \in Callers : call'[d].pc \notin Inside
         /\ LockIsHeld' /\ PinsAreSeen' /\ calls' = calls
    BY <1>3, Answering
  <1>13. UnlockTypes'
    <2>1. now + Window \in Nat
      BY <1>2
    <2>2. failures' \in Seq(Nat) /\ blocked' \in Nat \union {NotBlocked}
      BY <1>10, <1>11, <2>1
    <2> QED
      BY <1>9, <1>12, <2>2 DEF UnlockInv, UnlockTypes, Around, operatorVars
  <1>14. FailuresAreLast'
    <2>1. CASE failures' = <<>>
      BY <1>2, <1>9, <1>11, <2>1 DEF FailuresAreLast
    <2>2. CASE /\ k + 1 < MaxFailures /\ blocked' = NotBlocked
               /\ failures' \in Seq(Nat) /\ Len(failures') = k + 1
               /\ \A i \in 1..k : failures'[i] = failures[i]
               /\ failures'[k + 1] = now
      <3>1. \A i \in 1..k + 1 : failures'[i] = wrong'[(n + 1) - (k + 1) + i]
        <4>1. ASSUME NEW i \in 1..k PROVE failures'[i] = wrong'[(n + 1) - (k + 1) + i]
          <5>1. (n + 1) - (k + 1) + i = n - k + i /\ n - k + i \in 1..n
            BY <1>5, <1>6, <1>7
          <5> QED
            BY <1>7, <1>9, <2>2, <5>1
        <4>2. (n + 1) - (k + 1) + (k + 1) = n + 1
          BY <1>5, <1>6
        <4>3. failures'[k + 1] = wrong'[(n + 1) - (k + 1) + (k + 1)]
          BY <1>9, <2>2, <4>2
        <4>4. \A i \in 1..k + 1 : i \in 1..k \/ i = k + 1
          BY <1>6
        <4> QED
          BY <4>1, <4>3, <4>4
      <3> QED
        BY <1>7, <1>9, <2>2, <3>1 DEF FailuresAreLast
    <2> QED
      BY <1>10, <2>1, <2>2
  <1>15. OlderAreOut'
    <2>1. CASE failures' = <<>> /\ blocked' = now + Window
      <3>1. \A i \in 1..n + 1 : wrong'[i] \in Nat /\ wrong'[i] + Window <= now + Window
        BY <1>2, <1>5, <1>8, <1>9, SMTT(30)
      <3>2. now + Window # NotBlocked
        BY <1>2 DEF NotBlocked
      <3>3. Older' = 1..n + 1
        BY <1>9, <1>11, <2>1 DEF Older
      <3> QED
        BY <2>1, <3>1, <3>2, <3>3 DEF OlderAreOut
    <2>2. CASE Len(failures') = k + 1
      <3>1. Older' = 1..n - k
        BY <1>5, <1>6, <1>9, <2>2 DEF Older
      <3>2. \A i \in 1..n - k : wrong'[i] = wrong[i] /\ wrong[i] + Window <= clock
        BY <1>2, <1>5, <1>6, <1>7, <1>8, <1>9, SMTT(30)
      <3> QED
        BY <3>1, <3>2 DEF OlderAreOut, Around
    <2> QED
      BY <1>10, <2>1, <2>2
  <1>16. AttemptsInTime'
    <2>1. ASSUME NEW i \in 1..n + 1, NEW j \in 1..n + 1, i <= j
          PROVE  wrong'[i] <= wrong'[j]
      <3>1. CASE j \in 1..n
        <4>1. i \in 1..n
          BY <1>5, <2>1, <3>1
        <4> QED
          BY <1>8, <1>9, <2>1, <3>1, <4>1
      <3>2. CASE j = n + 1 /\ i \in 1..n
        BY <1>8, <1>9, <3>2
      <3>3. CASE j = n + 1 /\ i = n + 1
        BY <1>2, <1>9, <3>3
      <3> QED
        BY <1>5, <2>1, <3>1, <3>2, <3>3
    <2>2. \A i \in 1..n + 1 : wrong'[i] <= clock
      BY <1>2, <1>5, <1>8, <1>9
    <2> QED
      BY <1>9, <1>12, <2>1, <2>2 DEF AttemptsInTime, InOrder, Around
  <1>17. GuessesBounded'
    <2>1. ASSUME NEW i \in 1..(n + 1) - MaxFailures
          PROVE  wrong'[i + MaxFailures] >= wrong'[i] + Window
      <3>1. CASE i = (n + 1) - MaxFailures
        <4>1. i \in 1..n - k /\ i \in 1..n /\ i + MaxFailures = n + 1
          BY <1>2, <1>5, <1>6, <1>7, <3>1
        <4> QED
          BY <1>2, <1>8, <1>9, <4>1
      <3>2. CASE i # (n + 1) - MaxFailures
        <4>1. i \in 1..n - MaxFailures /\ i \in 1..n /\ i + MaxFailures \in 1..n
          BY <1>2, <1>5, <3>2
        <4>2. wrong[i + MaxFailures] >= wrong[i] + Window
          BY <1>5, <4>1 DEF UnlockInv, GuessesBounded
        <4> QED
          BY <1>9, <4>1, <4>2
      <3> QED
        BY <3>1, <3>2
    <2> QED
      BY <1>9, <2>1 DEF GuessesBounded
  <1>18. TokensAreNew'
    BY <1>3, AnsweringTokens
  <1> QED
    BY <1>12, <1>13, <1>14, <1>15, <1>16, <1>17, <1>18 DEF UnlockInv

\* An attempt that is answered and counts as nothing.
LEMMA Quiet ==
    ASSUME UnlockInv, NEW c \in Callers, Holds(c, Inside \union {"waiting"}), Answered(c),
           UNCHANGED <<Around, Limiter, grants>>
    PROVE  UnlockInv'
  <1>1. /\ call' \in [Callers -> {Idle} \union AttemptRecord]
        /\ line' \in Seq(Callers)
        /\ \A d \in Callers : call'[d].pc \notin Inside
        /\ LockIsHeld' /\ PinsAreSeen' /\ calls' = calls
    BY Answering
  <1>2. UNCHANGED <<clock, role, pin, pins, mix, failures, blocked, wrong, grants>>
    BY DEF Around, operatorVars, Limiter
  <1>3. Older' = Older
    BY <1>2 DEF Older
  <1>4. UnlockTypes'
    BY <1>1, <1>2 DEF UnlockInv, UnlockTypes
  <1>5. FailuresAreLast' /\ OlderAreOut' /\ GuessesBounded'
    BY <1>2, <1>3 DEF UnlockInv, FailuresAreLast, OlderAreOut, GuessesBounded
  <1>6. AttemptsInTime'
    BY <1>1, <1>2 DEF UnlockInv, AttemptsInTime, InOrder
  <1>7. TokensAreNew'
    BY AnsweringTokens
  <1> QED
    BY <1>1, <1>4, <1>5, <1>6, <1>7 DEF UnlockInv

\* A grant is issued to the number of its attempt, which nobody else has.
LEMMA Issuing ==
    ASSUME UnlockInv, NEW c \in Callers, IssueForPerson(c), UNCHANGED Around
    PROVE  UnlockInv'
  <1>0. PICK token : token = call[c].token
    OBVIOUS
  <1> DEFINE grant == Grant(call[c].scope, clock + TTL)
  <1>1. /\ call[c] \in AttemptRecord /\ call[c] # Idle
        /\ Holds(c, Inside \union {"waiting"}) /\ Answered(c)
    BY Holder, Constants DEF IssueForPerson, Holds, Inside
  <1>2. /\ call'[c] = Idle /\ \A d \in Callers : d # c => call'[d] = call[d]
        /\ call' \in [Callers -> {Idle} \union AttemptRecord]
        /\ line' \in Seq(Callers)
        /\ \A d \in Callers : call'[d].pc \notin Inside
        /\ LockIsHeld' /\ PinsAreSeen' /\ calls' = calls
    BY <1>1, Answering
  <1>3. UNCHANGED <<clock, role, pin, pins, mix, failures, blocked, wrong>>
    BY DEF Around, operatorVars, Limiter, IssueForPerson
  <1>4. Older' = Older /\ Bounds' = Bounds
    BY <1>3 DEF Older, Bounds
  <1>5. token \in 1..calls /\ calls \in Nat /\ clock \in Nat
    BY <1>0, <1>1 DEF UnlockInv, UnlockTypes, TokensAreNew
  <1>6. grant \in GrantRecord
    <2>1. call[c].scope \in Scopes /\ clock + TTL \in Nat
      BY <1>1, <1>5, Constants DEF AttemptRecord
    <2> QED
      BY <2>1 DEF Grant, GrantRecord
  <1>7. grants \in [Tokens -> {NoGrant} \union GrantRecord] /\ grants' = [grants EXCEPT ![token] = grant]
    BY <1>0 DEF UnlockInv, UnlockTypes, IssueForPerson
  <1> HIDE DEF grant
  <1>8. /\ grants' \in [Tokens -> {NoGrant} \union GrantRecord]
        /\ \A t \in Tokens : t # token => grants'[t] = grants[t]
    BY <1>6, <1>7
  <1>9. UnlockTypes'
    BY <1>2, <1>3, <1>8 DEF UnlockInv, UnlockTypes
  <1>10. FailuresAreLast' /\ OlderAreOut' /\ GuessesBounded'
    BY <1>3, <1>4 DEF UnlockInv, FailuresAreLast, OlderAreOut, GuessesBounded
  <1>11. AttemptsInTime'
    BY <1>2, <1>3 DEF UnlockInv, AttemptsInTime, InOrder
  <1>12. TokensAreNew'
    <2>1. \A d \in Callers : call'[d] # Idle => d # c /\ call[d] # Idle /\ call'[d] = call[d]
      BY <1>2
    <2>2. \A t \in Tokens : Coming(t)' => Coming(t)
      BY <1>2, <1>4, <2>1 DEF Coming
    <2>3. ~Coming(token)'
      <3>1. \A d \in Callers : call'[d] # Idle => call'[d].token # token
        BY <1>0, <1>1, <2>1 DEF UnlockInv, TokensAreNew
      <3>2. ~(calls' < token)
        BY <1>2, <1>5
      <3> QED
        BY <3>1, <3>2 DEF Coming
    <2>4. \A t \in Tokens : grants'[t] # NoGrant => ~Coming(t)'
      BY <1>8, <2>2, <2>3 DEF UnlockInv, TokensAreNew
    <2> QED
      BY <1>2, <2>1, <2>4 DEF UnlockInv, TokensAreNew
  <1> QED
    BY <1>2, <1>9, <1>10, <1>11, <1>12 DEF UnlockInv

\* An attempt that has the lock goes on.
LEMMA Replacing ==
    ASSUME UnlockInv, NEW c \in Callers, Holds(c, Inside \union {"waiting"}),
           NEW a \in AttemptRecord, call' = [call EXCEPT ![c] = a],
           a.token = call[c].token, a.pc \in Inside, pin \in a.actives,
           a.pc \in {"role", "verify"} => a.credential \in a.actives,
           a.pc = "person" => a.guess \in a.actives,
           UNCHANGED <<line, calls, grants, Around>>
    PROVE  /\ call'[c] = a
           /\ \A d \in Callers : d # c => call'[d] = call[d] /\ call[d].pc \notin Inside
           /\ call' \in [Callers -> {Idle} \union AttemptRecord]
           /\ LockIsHeld' /\ PinsAreSeen' /\ TokensAreNew'
  <1>1. call \in [Callers -> {Idle} \union AttemptRecord]
    BY DEF UnlockInv, UnlockTypes
  <1>2. /\ line # <<>> /\ call[c] # Idle
        /\ \A d \in Callers : d # c => call[d].pc \notin Inside
    BY Holder
  <1>3. /\ call'[c] = a /\ \A d \in Callers : d # c => call'[d] = call[d]
        /\ call' \in [Callers -> {Idle} \union AttemptRecord]
    BY <1>1
  <1>4. Head(line) = c /\ line' = line /\ pin' = pin /\ calls' = calls /\ grants' = grants
        /\ Bounds' = Bounds
    BY DEF Holds, Around, operatorVars, Bounds
  <1>5. LockIsHeld'
    BY <1>2, <1>3, <1>4 DEF LockIsHeld
  <1>6. PinsAreSeen'
    <2>1. \A d \in Callers : d # c => call'[d].pc \notin Inside
      BY <1>2, <1>3
    <2> QED
      BY <1>3, <1>4, <2>1 DEF PinsAreSeen, Inside
  <1>7. a # Idle
    BY Constants
  <1>8. TokensAreNew'
    <2>1. \A d \in Callers : /\ call'[d] # Idle <=> call[d] # Idle
                             /\ call[d] # Idle => call'[d].token = call[d].token
      BY <1>2, <1>3, <1>7
    <2> QED
      BY <1>4, <2>1 DEF UnlockInv, TokensAreNew, Coming
  <1> QED
    BY <1>2, <1>3, <1>5, <1>6, <1>8

\* Inside, it keeps the time it was let in at.
LEMMA GoingOn ==
    ASSUME UnlockInv, NEW c \in Callers, Holds(c, Inside),
           NEW a \in AttemptRecord, call' = [call EXCEPT ![c] = a],
           a.token = call[c].token, a.now = call[c].now, a.pc \in Inside, pin \in a.actives,
           a.pc \in {"role", "verify"} => a.credential \in a.actives,
           a.pc = "person" => a.guess \in a.actives,
           \/ UNCHANGED Limiter
           \/ failures' = <<>> /\ wrong' = <<>> /\ UNCHANGED blocked,
           UNCHANGED <<line, calls, grants, Around>>
    PROVE  UnlockInv'
  <1>1. Holds(c, Inside \union {"waiting"}) /\ call[c].pc \in Inside
    BY DEF Holds
  <1>2. /\ call'[c] = a
        /\ \A d \in Callers : d # c => call'[d] = call[d] /\ call[d].pc \notin Inside
        /\ call' \in [Callers -> {Idle} \union AttemptRecord]
        /\ LockIsHeld' /\ PinsAreSeen' /\ TokensAreNew'
    BY <1>1, Replacing
  <1>3. UNCHANGED <<clock, role, pin, pins, mix, blocked, line, calls, grants>>
    BY DEF Around, operatorVars, Limiter
  <1>4. CASE UNCHANGED Limiter
    <2>1. failures' = failures /\ wrong' = wrong /\ Older' = Older
      BY <1>4 DEF Limiter, Older
    <2>2. UnlockTypes'
      BY <1>2, <1>3, <2>1 DEF UnlockInv, UnlockTypes
    <2>3. FailuresAreLast' /\ OlderAreOut' /\ GuessesBounded'
      BY <1>3, <2>1 DEF UnlockInv, FailuresAreLast, OlderAreOut, GuessesBounded
    <2>4. AttemptsInTime'
      BY <1>1, <1>2, <1>3, <2>1 DEF UnlockInv, AttemptsInTime, InOrder
    <2> QED
      BY <1>2, <2>2, <2>3, <2>4 DEF UnlockInv
  <1>5. CASE failures' = <<>> /\ wrong' = <<>>
    <2>1. Len(<<>>) = 0 /\ <<>> \in Seq(Nat)
      OBVIOUS
    <2>2. Len(failures') = 0 /\ Len(wrong') = 0
      BY <1>5, <2>1
    <2>3. Older' = {} /\ 1..Len(wrong)' = {}
      BY <2>2 DEF Older
    <2>4. UnlockTypes'
      BY <1>2, <1>3, <1>5, <2>1 DEF UnlockInv, UnlockTypes
    <2>5. FailuresAreLast' /\ OlderAreOut'
      BY <2>2, <2>3, Constants DEF FailuresAreLast, OlderAreOut
    <2>6. GuessesBounded'
      BY <2>2, Constants DEF GuessesBounded
    <2>7. AttemptsInTime'
      BY <1>1, <1>2, <1>3, <2>2, <2>3 DEF UnlockInv, AttemptsInTime, InOrder
    <2> QED
      BY <1>2, <2>4, <2>5, <2>6, <2>7 DEF UnlockInv
  <1> QED
    BY <1>4, <1>5

LEMMA GoesTo ==
    ASSUME NEW a \in AttemptRecord, NEW p \in Inside, NEW b, b = [a EXCEPT !.pc = p]
    PROVE  /\ b \in AttemptRecord /\ b.pc = p /\ b.token = a.token /\ b.now = a.now
           /\ b.actives = a.actives /\ b.credential = a.credential /\ b.guess = a.guess
  BY DEF AttemptRecord

\* The limiter is pruned, and the attempt is let in.
LEMMA Pruning ==
    ASSUME UnlockInv, NEW c \in Callers, PruneAndCheckBlock(c), UNCHANGED Around
    PROVE  UnlockInv'
  <1>1. call[c] \in AttemptRecord /\ Holds(c, Inside \union {"waiting"})
    BY Holder, Constants DEF PruneAndCheckBlock, Holds
  <1>2. clock \in Nat /\ pin \in Nat /\ Window \in Nat /\ MaxFailures \in Nat
    BY Constants DEF UnlockInv, UnlockTypes
  <1>3. PICK a : a = [call[c] EXCEPT !.pc = "credential", !.now = clock, !.actives = {pin}]
    OBVIOUS
  <1>4. /\ a \in AttemptRecord /\ a.pc = "credential" /\ a.token = call[c].token
        /\ a.now = clock /\ a.actives = {pin}
    <2>1. "credential" \in Inside
      BY DEF Inside
    <2> QED
      BY <1>1, <1>2, <1>3, <2>1 DEF AttemptRecord
  <1>5. call' = [call EXCEPT ![c] = a]
    BY <1>3 DEF PruneAndCheckBlock
  <1>6. UNCHANGED <<line, calls, wrong, grants>> /\ blocked' = NotBlocked
        /\ failures' = After(failures, clock - Window)
        /\ (blocked # NotBlocked => clock >= blocked)
    BY DEF PruneAndCheckBlock
  <1>7. UNCHANGED <<clock, role, pin, pins, mix>>
    BY DEF Around, operatorVars
  <1>8. /\ call'[c] = a
        /\ \A d \in Callers : d # c => call'[d] = call[d] /\ call[d].pc \notin Inside
        /\ call' \in [Callers -> {Idle} \union AttemptRecord]
        /\ LockIsHeld' /\ PinsAreSeen' /\ TokensAreNew'
    BY <1>1, <1>4, <1>5, <1>6, Replacing DEF Inside
  <1>9. failures \in Seq(Nat) /\ wrong \in Seq(Nat) /\ blocked \in Nat \union {NotBlocked}
    BY DEF UnlockInv, UnlockTypes
  <1>10. PICK n \in Nat : n = Len(wrong)
    BY <1>9
  <1>11. PICK k \in Nat : k = Len(failures)
    BY <1>9
  <1>12. /\ k < MaxFailures /\ k <= n
         /\ \A i \in 1..k : failures[i] = wrong[n - k + i]
    BY <1>10, <1>11 DEF UnlockInv, FailuresAreLast
  <1>13. /\ \A i \in 1..n : wrong[i] \in Nat /\ wrong[i] <= clock
         /\ \A i, j \in 1..n : i <= j => wrong[i] <= wrong[j]
    BY <1>9, <1>10 DEF UnlockInv, AttemptsInTime, InOrder
  <1>14. InOrder(failures)
    <2>1. ASSUME NEW i \in 1..k, NEW j \in 1..k, i <= j PROVE failures[i] <= failures[j]
      <3>1. n - k + i \in 1..n /\ n - k + j \in 1..n /\ n - k + i <= n - k + j
        BY <1>10, <1>11, <1>12, <2>1
      <3> QED
        BY <1>12, <1>13, <3>1
    <2> QED
      BY <1>11, <2>1 DEF InOrder
  <1>15. PICK p \in 0..k :
            /\ failures' \in Seq(Nat)
            /\ Len(failures') = k - p
            /\ \A i \in 1..k - p : failures'[i] = failures[p + i]
            /\ \A i \in 1..p : failures[i] <= clock - Window
    <2>1. clock - Window \in Int
      BY <1>2
    <2> QED
      BY <1>6, <1>9, <1>11, <1>14, <2>1, AfterIsSuffix
  <1>16. UnlockTypes'
    BY <1>6, <1>7, <1>8, <1>15 DEF UnlockInv, UnlockTypes
  <1>17. FailuresAreLast'
    <2>1. ASSUME NEW i \in 1..k - p
          PROVE  failures'[i] = wrong[n - (k - p) + i]
      <3>1. p + i \in 1..k /\ n - k + (p + i) = n - (k - p) + i
        BY <1>10, <1>11, <1>15
      <3> QED
        BY <1>12, <1>15, <3>1
    <2>2. k - p < MaxFailures /\ k - p <= n
      BY <1>2, <1>10, <1>11, <1>12, <1>15
    <2> QED
      BY <1>6, <1>10, <1>15, <2>1, <2>2 DEF FailuresAreLast
  <1>18. \A i \in Older' : wrong[i] + Window <= clock
    <2>1. Older' = 1..n - (k - p)
      BY <1>6, <1>10, <1>15 DEF Older
    <2>2. ASSUME NEW i \in 1..n - (k - p) PROVE wrong[i] + Window <= clock
      <3>1. CASE i \in 1..n - k
        <4>1. \/ wrong[i] + Window <= clock
              \/ blocked # NotBlocked /\ wrong[i] + Window <= blocked
          BY <1>10, <1>11, <3>1 DEF UnlockInv, OlderAreOut, Older
        <4>2. wrong[i] \in Nat
          BY <1>10, <1>11, <1>13, <3>1
        <4> QED
          BY <1>2, <1>6, <1>9, <4>1, <4>2
      <3>2. CASE i \notin 1..n - k
        <4>1. i - (n - k) \in 1..p /\ i - (n - k) \in 1..k /\ n - k + (i - (n - k)) = i
          BY <1>10, <1>11, <1>12, <1>15, <3>2
        <4>2. failures[i - (n - k)] = wrong[i] /\ failures[i - (n - k)] <= clock - Window
          BY <1>12, <1>15, <4>1
        <4>3. wrong[i] \in Nat
          BY <1>10, <1>11, <1>12, <1>13, <1>15
        <4> QED
          BY <1>2, <4>2, <4>3
      <3> QED
        BY <3>1, <3>2
    <2> QED
      BY <2>1, <2>2
  <1>19. OlderAreOut'
    BY <1>6, <1>7, <1>18 DEF OlderAreOut
  <1>20. AttemptsInTime'
    <2>1. \A d \in Callers : call'[d].pc \in Inside => d = c
      BY <1>8
    <2>2. clock <= clock
      BY <1>2
    <2> QED
      BY <1>4, <1>6, <1>7, <1>8, <1>10, <1>13, <1>18, <2>1, <2>2 DEF AttemptsInTime, InOrder
  <1>21. GuessesBounded'
    BY <1>6 DEF UnlockInv, GuessesBounded
  <1> QED
    BY <1>8, <1>16, <1>17, <1>19, <1>20, <1>21 DEF UnlockInv

LEMMA ReadingCredential ==
    ASSUME UnlockInv, NEW c \in Callers, ReadCredential(c), UNCHANGED Around
    PROVE  UnlockInv'
  <1>1. Holds(c, Inside) /\ call[c] \in AttemptRecord /\ call[c].pc \in Inside
    BY Holder DEF ReadCredential, Holds, Inside
  <1>2. CASE Fail(c)
    BY <1>1, <1>2, Failing DEF ReadCredential
  <1>3. ASSUME NEW version \in 1..pins, ActiveCredential(version),
               call' = [call EXCEPT ![c].pc = "role", ![c].credential = version],
               UNCHANGED <<line, calls, Limiter>>
        PROVE  UnlockInv'
    <2>1. version = pin /\ version \in Nat
      BY <1>3 DEF ActiveCredential
    <2>2. PICK a : a = [call[c] EXCEPT !.pc = "role", !.credential = version]
      OBVIOUS
    <2>3. /\ a \in AttemptRecord /\ a.pc = "role" /\ a.token = call[c].token
          /\ a.now = call[c].now /\ a.actives = call[c].actives /\ a.credential = version
      <3>1. "role" \in Inside
        BY DEF Inside
      <3> QED
        BY <1>1, <2>1, <2>2, <3>1 DEF AttemptRecord
    <2>4. call' = [call EXCEPT ![c] = a]
      BY <1>3, <2>2
    <2>5. pin \in a.actives
      BY <1>1, <2>3 DEF UnlockInv, PinsAreSeen
    <2>6. UNCHANGED <<line, calls, grants, Around>> /\ UNCHANGED Limiter
      BY <1>3 DEF ReadCredential
    <2> QED
      BY <1>1, <2>1, <2>3, <2>4, <2>5, <2>6, GoingOn DEF Inside
  <1> QED
    BY <1>2, <1>3 DEF ReadCredential

LEMMA ReadingRole ==
    ASSUME UnlockInv, NEW c \in Callers, ReadOwnerRole(c), UNCHANGED Around
    PROVE  UnlockInv'
  <1>1. Holds(c, Inside) /\ call[c] \in AttemptRecord /\ call[c].pc = "role"
    BY Holder DEF ReadOwnerRole, Holds, Inside
  <1>2. CASE Fail(c)
    BY <1>1, <1>2, Failing DEF ReadOwnerRole
  <1>3. CASE Goto(c, "verify") /\ UNCHANGED Limiter
    <2>1. PICK a : a = [call[c] EXCEPT !.pc = "verify"]
      OBVIOUS
    <2>2. /\ a \in AttemptRecord /\ a.pc = "verify" /\ a.token = call[c].token
          /\ a.now = call[c].now /\ a.actives = call[c].actives
          /\ a.credential = call[c].credential
      <3>1. "verify" \in Inside
        BY DEF Inside
      <3> QED
        BY <1>1, <2>1, <3>1, GoesTo
    <2>3. call' = [call EXCEPT ![c] = a]
      BY <1>3, <2>1 DEF Goto
    <2>4. pin \in a.actives /\ a.credential \in a.actives
      BY <1>1, <2>2 DEF UnlockInv, PinsAreSeen, Inside
    <2>5. UNCHANGED <<line, calls, grants, Around>> /\ UNCHANGED Limiter
      BY <1>3 DEF ReadOwnerRole, Goto
    <2> QED
      BY <1>1, <2>2, <2>3, <2>4, <2>5, GoingOn DEF Inside
  <1> QED
    BY <1>2, <1>3 DEF ReadOwnerRole

LEMMA Verifying ==
    ASSUME UnlockInv, NEW c \in Callers, Verify(c), UNCHANGED Around
    PROVE  UnlockInv'
  <1>1. Holds(c, Inside) /\ call[c] \in AttemptRecord /\ call[c].pc = "verify"
    BY Holder DEF Verify, Holds, Inside
  <1>2. CASE Fail(c)
    BY <1>1, <1>2, Failing DEF Verify
  <1>3. CASE /\ call[c].guess = call[c].credential
             /\ Goto(c, "person") /\ failures' = <<>> /\ wrong' = <<>> /\ UNCHANGED blocked
    <2>1. PICK a : a = [call[c] EXCEPT !.pc = "person"]
      OBVIOUS
    <2>2. /\ a \in AttemptRecord /\ a.pc = "person" /\ a.token = call[c].token
          /\ a.now = call[c].now /\ a.actives = call[c].actives /\ a.guess = call[c].guess
      <3>1. "person" \in Inside
        BY DEF Inside
      <3> QED
        BY <1>1, <2>1, <3>1, GoesTo
    <2>3. call' = [call EXCEPT ![c] = a]
      BY <1>3, <2>1 DEF Goto
    <2>4. pin \in a.actives /\ a.guess \in a.actives
      BY <1>1, <1>3, <2>2 DEF UnlockInv, PinsAreSeen, Inside
    <2>5. UNCHANGED <<line, calls, grants, Around>>
      BY <1>3 DEF Verify, Goto
    <2> QED
      BY <1>1, <1>3, <2>2, <2>3, <2>4, <2>5, GoingOn DEF Inside
  <1> QED
    BY <1>2, <1>3 DEF Verify

LEMMA AttemptUnlock ==
    ASSUME UnlockInv, NEW c \in Callers, Attempt(c), UNCHANGED Around
    PROVE  UnlockInv'
  <1>1. CASE RateLimited(c)
    <2>1. Holds(c, Inside \union {"waiting"})
      BY <1>1 DEF RateLimited, Holds
    <2> QED
      BY <1>1, <2>1, Quiet DEF RateLimited
  <1>2. CASE StoreFails(c)
    <2>1. Holds(c, Inside \union {"waiting"})
      BY <1>2 DEF StoreFails, Holds, Inside
    <2> QED
      BY <1>2, <2>1, Quiet DEF StoreFails
  <1> QED
    BY <1>1, <1>2, Pruning, ReadingCredential, ReadingRole, Verifying, Issuing DEF Attempt

\* A caller waits in line with the next number.
LEMMA Calling ==
    ASSUME UnlockInv, NEW c \in Callers, NEW guess \in Nat, NEW scope \in Scopes,
           Call(c, guess, scope), calls < Bounds.calls, UNCHANGED Around
    PROVE  UnlockInv'
  <1>1. /\ call \in [Callers -> {Idle} \union AttemptRecord] /\ call[c] = Idle
        /\ line \in Seq(Callers) /\ calls \in Nat /\ clock \in Nat
    BY DEF UnlockInv, UnlockTypes, Call
  <1>2. PICK a : a = [pc |-> "waiting", token |-> calls + 1, guess |-> guess, scope |-> scope,
                      now |-> clock, credential |-> NoPin, actives |-> {}]
    OBVIOUS
  <1>3. a \in AttemptRecord /\ a.pc = "waiting" /\ a.token = calls + 1 /\ a # Idle
    <2>1. a \in AttemptRecord /\ a.pc = "waiting" /\ a.token = calls + 1
      BY <1>1, <1>2 DEF AttemptRecord, NoPin
    <2> QED
      BY <2>1, Constants
  <1>4. /\ call'[c] = a /\ \A d \in Callers : d # c => call'[d] = call[d]
        /\ call' \in [Callers -> {Idle} \union AttemptRecord]
    BY <1>1, <1>2, <1>3 DEF Call
  <1>5. line' = Append(line, c) /\ calls' = calls + 1
        /\ UNCHANGED <<clock, role, pin, pins, mix, failures, blocked, wrong, grants>>
    BY DEF Call, Around, operatorVars
  <1>6. Older' = Older /\ Bounds' = Bounds
    BY <1>5 DEF Older, Bounds
  <1>7. \A d \in Callers : call'[d].pc \in Inside => d # c /\ call[d].pc \in Inside
    BY <1>3, <1>4 DEF Inside
  <1>8. UnlockTypes'
    BY <1>1, <1>4, <1>5, AppendProperties DEF UnlockInv, UnlockTypes
  <1>9. LockIsHeld'
    <2>1. line # <<>> => line' # <<>> /\ Head(line') = Head(line)
      BY <1>1, <1>5, AppendProperties, HeadTailAppend
    <2> QED
      BY <1>7, <2>1 DEF UnlockInv, LockIsHeld
  <1>10. FailuresAreLast' /\ OlderAreOut' /\ GuessesBounded'
    BY <1>5, <1>6 DEF UnlockInv, FailuresAreLast, OlderAreOut, GuessesBounded
  <1>11. AttemptsInTime'
    BY <1>4, <1>5, <1>6, <1>7 DEF UnlockInv, AttemptsInTime, InOrder
  <1>12. PinsAreSeen'
    BY <1>4, <1>5, <1>7 DEF UnlockInv, PinsAreSeen, Inside
  <1>13. TokensAreNew'
    <2>1. \A d \in Callers : d # c /\ call[d] # Idle => call[d].token \in 1..calls
      BY DEF UnlockInv, TokensAreNew
    <2>2. \A d \in Callers : call'[d] # Idle => call'[d].token \in 1..calls + 1
      BY <1>1, <1>3, <1>4, <2>1
    <2>3. \A d, e \in Callers : d # e /\ call'[d] # Idle /\ call'[e] # Idle =>
                                  call'[d].token # call'[e].token
      <3>1. ASSUME NEW d \in Callers, d # c, call'[d] # Idle
            PROVE  call'[d].token # calls + 1
        BY <1>1, <1>4, <2>1, <3>1
      <3>2. ASSUME NEW d \in Callers, NEW e \in Callers, d # e, d # c, e # c,
                   call'[d] # Idle, call'[e] # Idle
            PROVE  call'[d].token # call'[e].token
        BY <1>4, <3>2 DEF UnlockInv, TokensAreNew
      <3> QED
        BY <1>3, <1>4, <3>1, <3>2
    <2>4. ASSUME NEW t \in Tokens, Coming(t)' PROVE Coming(t)
      <3>1. t \in Nat /\ Bounds.calls \in Nat
        BY <2>4, Constants, BoundsAre DEF UnlockInv, UnlockTypes
      <3>2. CASE calls' < t /\ t <= Bounds.calls
        BY <1>1, <1>5, <3>1, <3>2 DEF Coming
      <3>3. CASE \E d \in Callers : call'[d] # Idle /\ call'[d].token = t
        <4>1. PICK d \in Callers : call'[d] # Idle /\ call'[d].token = t
          BY <3>3
        <4>2. CASE d = c
          BY <1>1, <1>3, <1>4, <3>1, <4>1, <4>2 DEF Coming
        <4>3. CASE d # c
          BY <1>4, <4>1, <4>3 DEF Coming
        <4> QED
          BY <4>2, <4>3
      <3> QED
        BY <1>6, <2>4, <3>2, <3>3 DEF Coming
    <2> QED
      BY <1>5, <2>2, <2>3, <2>4 DEF UnlockInv, TokensAreNew
  <1> QED
    BY <1>8, <1>9, <1>10, <1>11, <1>12, <1>13 DEF UnlockInv

LEMMA StepUnlock ==
    ASSUME UnlockInv, NEW c \in Callers,
           UnlockStep(c, IF calls < Bounds.calls THEN Bounds.unlocks ELSE {}),
           UNCHANGED mix
    PROVE  UnlockInv'
  <1>1. UNCHANGED Around
    BY DEF UnlockStep, Around
  <1>2. CASE Attempt(c)
    BY <1>1, <1>2, AttemptUnlock
  <1>3. ASSUME NEW guess \in 0..pins,
               NEW scope \in (IF calls < Bounds.calls THEN Bounds.unlocks ELSE {}),
               Call(c, guess, scope)
        PROVE  UnlockInv'
    <2>1. calls < Bounds.calls /\ scope \in Scopes /\ guess \in Nat
      BY <1>3, BoundsAre DEF UnlockInv, UnlockTypes
    <2> QED
      BY <1>1, <1>3, <2>1, Calling
  <1> QED
    BY <1>2, <1>3 DEF UnlockStep

\* A request takes at most a token out of the registry.
TakesOut ==
    /\ \A t \in Tokens : grants'[t] = grants[t] \/ grants'[t] = NoGrant
    /\ grants' = [t \in Tokens |-> grants'[t]]

LEMMA RegistryUnlock ==
    ASSUME UnlockInv, TakesOut, UNCHANGED <<clock, operatorVars, unlockVars, mix>>
    PROVE  UnlockInv'
  <1> USE DEF operatorVars, unlockVars
  <1>1. grants' \in [Tokens -> {NoGrant} \union GrantRecord]
    BY DEF UnlockInv, UnlockTypes, TakesOut
  <1>2. Older' = Older /\ Bounds' = Bounds
    BY DEF Older, Bounds
  <1>3. UnlockTypes'
    BY <1>1 DEF UnlockInv, UnlockTypes
  <1>4. LockIsHeld' /\ PinsAreSeen' /\ FailuresAreLast' /\ GuessesBounded' /\ OlderAreOut'
    BY <1>2 DEF UnlockInv, LockIsHeld, PinsAreSeen, FailuresAreLast, GuessesBounded, OlderAreOut
  <1>5. AttemptsInTime'
    BY <1>2 DEF UnlockInv, AttemptsInTime, InOrder
  <1>6. TokensAreNew'
    BY <1>2 DEF UnlockInv, TokensAreNew, TakesOut, Coming
  <1> QED
    BY <1>3, <1>4, <1>5, <1>6 DEF UnlockInv

LEMMA RestartUnlock ==
    ASSUME UnlockInv, Restart
    PROVE  UnlockInv'
  <1>1. /\ line' = <<>> /\ call' = [c \in Callers |-> Idle]
        /\ failures' = <<>> /\ blocked' = NotBlocked /\ wrong' = <<>>
        /\ grants' = [t \in Tokens |-> NoGrant]
        /\ UNCHANGED <<clock, role, pin, pins, calls, mix>>
    BY DEF Restart, operatorVars
  <1>2. Len(<<>>) = 0 /\ <<>> \in Seq(Nat) /\ <<>> \in Seq(Callers)
    OBVIOUS
  <1>3. Len(failures') = 0 /\ Len(wrong') = 0 /\ Older' = {}
    BY <1>1, <1>2 DEF Older
  <1>4. \A c \in Callers : call'[c] = Idle /\ call'[c].pc \notin Inside
    BY <1>1, Constants DEF Inside
  <1>5. UnlockTypes'
    BY <1>1, <1>2 DEF UnlockInv, UnlockTypes
  <1>6. LockIsHeld' /\ PinsAreSeen'
    BY <1>4 DEF LockIsHeld, PinsAreSeen, Inside
  <1>7. FailuresAreLast' /\ OlderAreOut' /\ AttemptsInTime'
    BY <1>3, <1>4, Constants DEF FailuresAreLast, OlderAreOut, AttemptsInTime, InOrder
  <1>8. GuessesBounded'
    BY <1>3, Constants DEF GuessesBounded
  <1>9. TokensAreNew'
    BY <1>1, <1>4 DEF TokensAreNew
  <1> QED
    BY <1>5, <1>6, <1>7, <1>8, <1>9 DEF UnlockInv

-----------------------------------------------------------------------------
(* A request leaves the unlocking side alone, but for the token that it    *)
(* spends or finds expired.                                                *)

Beside == UNCHANGED <<clock, operatorVars, unlockVars, mix>>

LEMMA LocalBeside ==
    ASSUME NEW r, NEW next, Local(r, next)
    PROVE  Beside /\ UNCHANGED grants
  BY DEF Local, Step, Beside

LEMMA JudgingBeside ==
    ASSUME NEW r \in Requests,
           \/ Begin(r) \/ MatchFace(r) \/ FaceRole(r) \/ FaceConsent(r)
           \/ MatchVoice(r) \/ VoiceRole(r) \/ VoiceConsent(r) \/ TokenRole(r)
    PROVE  Beside /\ UNCHANGED grants
  <1>1. CASE Begin(r)
    BY <1>1, LocalBeside DEF Begin
  <1>2. CASE MatchFace(r)
    BY <1>2, LocalBeside DEF MatchFace
  <1>3. CASE FaceRole(r)
    BY <1>3, LocalBeside DEF FaceRole
  <1>4. CASE FaceConsent(r)
    BY <1>4, LocalBeside DEF FaceConsent
  <1>5. CASE MatchVoice(r)
    BY <1>5, LocalBeside DEF MatchVoice
  <1>6. CASE VoiceRole(r)
    BY <1>6, LocalBeside DEF VoiceRole
  <1>7. CASE VoiceConsent(r)
    BY <1>7, LocalBeside DEF VoiceConsent
  <1>8. CASE TokenRole(r)
    BY <1>8, LocalBeside DEF TokenRole
  <1> QED
    BY <1>1, <1>2, <1>3, <1>4, <1>5, <1>6, <1>7, <1>8

LEMMA ActingBeside ==
    ASSUME NEW r \in Requests, Ask(r) \/ Read(r) \/ AdminStep(r)
    PROVE  Beside /\ UNCHANGED grants
  <1>1. CASE Ask(r)
    BY <1>1, LocalBeside DEF Ask
  <1>2. CASE Read(r)
    BY <1>2, LocalBeside DEF Read
  <1>3. CASE EnrolmentRejected(r)
    BY <1>3, LocalBeside DEF EnrolmentRejected
  <1>4. CASE \/ EnrolFace(r) \/ GrantFaceConsent(r) \/ RevokeFaceConsent(r)
             \/ GrantVoiceConsent(r) \/ EnrolVoiceprint(r) \/ RevokeVoiceConsent(r)
    BY <1>4 DEF EnrolFace, GrantFaceConsent, RevokeFaceConsent, GrantVoiceConsent,
                EnrolVoiceprint, RevokeVoiceConsent, Change, Beside
  <1> QED
    BY <1>1, <1>2, <1>3, <1>4 DEF AdminStep

LEMMA SpokenBeside ==
    ASSUME NEW r \in Requests, SpokenStep(r)
    PROVE  Beside /\ UNCHANGED grants
  <1>1. CASE Hear(r)
    BY <1>1, LocalBeside DEF Hear, vars, Beside
  <1>2. CASE JudgeName(r)
    BY <1>2, LocalBeside DEF JudgeName
  <1>3. CASE JudgeChild(r)
    BY <1>3, LocalBeside DEF JudgeChild
  <1>4. CASE EndTurn(r)
    BY <1>4 DEF EndTurn, vars, Beside
  <1> QED
    BY <1>1, <1>2, <1>3, <1>4 DEF SpokenStep

LEMMA TokensBeside ==
    ASSUME UnlockInv, NEW r \in Requests, ResolveToken(r)
    PROVE  Beside /\ TakesOut
  <1>1. Beside
    BY DEF ResolveToken, Step, Beside
  <1>2. UNCHANGED grants \/ Forgotten(req[r].token)
    BY DEF ResolveToken, PeekLeaves, ConsumeLeaves
  <1>3. grants \in [Tokens -> {NoGrant} \union GrantRecord]
    BY DEF UnlockInv, UnlockTypes
  <1>4. TakesOut
    BY <1>2, <1>3 DEF TakesOut, Forgotten
  <1> QED
    BY <1>1, <1>4

(* What a step may do to the unlocking side: it is one of the clock, of    *)
(* the operator, of an attempt, of a request or a restart.                 *)
LEMMA SidesOfAStep ==
    ASSUME UnlockInv, SpokenNext
    PROVE  \/ Tick /\ UNCHANGED mix
           \/ \E step : OperatorStep(step) /\ UNCHANGED mix
           \/ \E c \in Callers :
                /\ UnlockStep(c, IF calls < Bounds.calls THEN Bounds.unlocks ELSE {})
                /\ UNCHANGED mix
           \/ Beside /\ TakesOut
           \/ Restart
  <1>1. Bounds.callers \subseteq Callers
    BY BoundsAre DEF UnlockInv, UnlockTypes
  <1>2. UNCHANGED grants => TakesOut
    BY DEF TakesOut, UnlockInv, UnlockTypes
  <1>3. ASSUME NEW r \in Requests, RequestStep(r) \/ SpokenStep(r)
        PROVE  Beside /\ TakesOut
    BY <1>2, <1>3, JudgingBeside, ActingBeside, SpokenBeside, TokensBeside DEF RequestStep
  <1> QED
    BY <1>1, <1>3 DEF SpokenNext, Serve

LEMMA UnlockKept ==
    ASSUME UnlockInv, [SpokenNext]_spokenVars
    PROVE  UnlockInv'
  <1>1. CASE SpokenNext
    <2>1. CASE \E step : OperatorStep(step) /\ UNCHANGED mix
      BY <2>1, OperatorUnlock
    <2>2. CASE Beside /\ TakesOut
      BY <2>2, RegistryUnlock DEF Beside
    <2> QED
      BY <1>1, <2>1, <2>2, SidesOfAStep, TickUnlock, StepUnlock, RestartUnlock
  <1>2. CASE UNCHANGED spokenVars
    <2>1. Beside /\ UNCHANGED grants
      BY <1>2 DEF spokenVars, vars, Beside
    <2>2. TakesOut
      BY <2>1 DEF TakesOut, UnlockInv, UnlockTypes
    <2> QED
      BY <2>1, <2>2, RegistryUnlock DEF Beside
  <1> QED
    BY <1>1, <1>2

(* Unlocking, for every number of callers, tokens and PINs, with requests  *)
(* and messages in between: its invariant holds at all times.              *)
THEOREM UnlockInvariant == SpokenSpec => []UnlockInv
  <1>1. SpokenInit => UnlockInv
    BY UnlockInitial DEF SpokenInit
  <1>2. UnlockInv /\ [SpokenNext]_spokenVars => UnlockInv'
    BY UnlockKept
  <1> QED
    BY <1>1, <1>2, PTL DEF SpokenSpec

(* The PIN cannot be guessed faster than the limiter says (GuessesBounded, *)
(* OwnerUnlockService.unlock), because all that the limiter has forgotten  *)
(* lies a window before whatever the lock will let in.                     *)
THEOREM GuessesStayBounded == SpokenSpec => []GuessesBounded
  <1>1. UnlockInv => GuessesBounded
    BY DEF UnlockInv
  <1> QED
    BY <1>1, UnlockInvariant, PTL

-----------------------------------------------------------------------------
(* The tokens: who issues one.                                             *)

\* Only the last step of an attempt puts a token into the registry.
LEMMA OnlyIssuing ==
    ASSUME NEW c \in Callers, Attempt(c)
    PROVE  IssueForPerson(c) \/ UNCHANGED grants
  BY DEF Attempt, RateLimited, PruneAndCheckBlock, ReadCredential, ReadOwnerRole, Verify,
         StoreFails

LEMMA IssuedTokens ==
    ASSUME UnlockInv, SpokenNext, NEW t \in Tokens, grants[t] = NoGrant, grants'[t] # NoGrant
    PROVE  \E c \in Callers : IssueForPerson(c) /\ call[c] # Idle /\ call[c].token = t
  <1>1. ASSUME NEW step, OperatorStep(step) PROVE FALSE
    BY <1>1 DEF OperatorStep
  <1>2. CASE Tick
    BY <1>2 DEF Tick
  <1>3. CASE TakesOut
    BY <1>3 DEF TakesOut
  <1>4. CASE Restart
    BY <1>4 DEF Restart
  <1>5. ASSUME NEW c \in Callers,
               UnlockStep(c, IF calls < Bounds.calls THEN Bounds.unlocks ELSE {})
        PROVE  IssueForPerson(c) /\ call[c] # Idle /\ call[c].token = t
    <2>1. IssueForPerson(c)
      BY <1>5, OnlyIssuing DEF UnlockStep, Call
    <2>2. call[c] # Idle
      BY <2>1, Constants DEF IssueForPerson, Holds
    <2>3. grants' = [grants EXCEPT ![call[c].token] = Grant(call[c].scope, clock + TTL)]
      BY <2>1 DEF IssueForPerson
    <2>4. grants \in [Tokens -> {NoGrant} \union GrantRecord]
      BY DEF UnlockInv, UnlockTypes
    <2> QED
      BY <2>1, <2>2, <2>3, <2>4
  <1> QED
    BY <1>1, <1>2, <1>3, <1>4, <1>5, SidesOfAStep

(* A token is issued only for a PIN that was the active one at some moment *)
(* of the attempt (IssuedForAnActivePin, OwnerUnlockService.unlock): the   *)
(* version that the attempt read is among those active since it got the    *)
(* lock, whatever the operator does while the digest is computed.          *)
THEOREM TokensNeedAnActivePin == SpokenSpec => IssuedForAnActivePin
  <1> DEFINE Issued == \A t \in Tokens : ~Live(t) /\ grants'[t] # NoGrant =>
                          \E c \in Callers : /\ call[c] # Idle
                                             /\ call[c].token = t
                                             /\ call[c].guess \in call[c].actives
  <1>1. UnlockInv /\ [SpokenNext]_spokenVars => [Issued]_vars
    <2>1. ASSUME UnlockInv, SpokenNext, NEW t \in Tokens, ~Live(t), grants'[t] # NoGrant
          PROVE  \E c \in Callers : /\ call[c] # Idle
                                    /\ call[c].token = t
                                    /\ call[c].guess \in call[c].actives
      <3>1. grants[t] = NoGrant
        BY <2>1 DEF Live
      <3>2. PICK c \in Callers : IssueForPerson(c) /\ call[c] # Idle /\ call[c].token = t
        BY <2>1, <3>1, IssuedTokens
      <3>3. call[c].pc = "person"
        BY <3>2 DEF IssueForPerson, Holds
      <3> QED
        BY <2>1, <3>2, <3>3 DEF UnlockInv, PinsAreSeen
    <2> QED
      BY <2>1 DEF spokenVars
  <1>2. []UnlockInv /\ [][SpokenNext]_spokenVars => [][Issued]_vars
    BY <1>1, PTL
  <1>3. SpokenSpec => [][SpokenNext]_spokenVars
    BY PTL DEF SpokenSpec
  <1> QED
    BY <1>2, <1>3, UnlockInvariant, PTL DEF IssuedForAnActivePin

-----------------------------------------------------------------------------
(* The requests: what replacing a field of one leaves of it.               *)

LEMMA AtAnotherPoint ==
    ASSUME NEW q, IsRecord(q), NEW pc, NEW b, b = [q EXCEPT !.pc = pc]
    PROVE  /\ IsRecord(b) /\ b.pc = pc
           /\ b.then = q.then /\ b.kind = q.kind /\ b.token = q.token /\ b.actor = q.actor
           /\ b.references = q.references /\ b.role = q.role /\ b.step = q.step
           /\ b.rows = q.rows /\ b.read = q.read /\ b.seen = q.seen
  BY DEF IsRecord

LEMMA WithSeen ==
    ASSUME NEW q, IsRecord(q), NEW seen, NEW b, b = [q EXCEPT !.seen = seen]
    PROVE  /\ IsRecord(b) /\ b.seen = seen
           /\ b.pc = q.pc /\ b.then = q.then /\ b.kind = q.kind /\ b.token = q.token
           /\ b.actor = q.actor /\ b.references = q.references /\ b.role = q.role
           /\ b.step = q.step /\ b.rows = q.rows /\ b.read = q.read
  BY DEF IsRecord

-----------------------------------------------------------------------------
(* The plans: every question is one of the policy's, and the last one of a *)
(* plan is followed by a read or by nothing.                               *)

PlanOfQuestions(plan) ==
    /\ Len(plan) \in Nat \ {0}
    /\ \A i \in 1..Len(plan) : plan[i].action # "general_conversation"

EndsReading(plan) == PlanOfQuestions(plan) /\ plan[Len(plan)].reads

LEMMA HouseholdReads ==
    ASSUME NEW sensitivity
    PROVE  /\ EndsReading(HouseholdRead(sensitivity))
           /\ HouseholdRead(sensitivity) \in
                Seq({Question("execute_household_tool", "household", sensitivity, FALSE),
                     Question("read_household_data", "household", sensitivity, TRUE)})
  BY DEF HouseholdRead, EndsReading, PlanOfQuestions, Question

LEMMA OwnReads ==
    ASSUME NEW sensitivity
    PROVE  EndsReading(OwnRead(sensitivity))
  BY DEF OwnRead, EndsReading, PlanOfQuestions, Question

LEMMA Concatenated ==
    ASSUME NEW S, NEW one \in Seq(S), NEW other \in Seq(S),
           EndsReading(one), EndsReading(other)
    PROVE  EndsReading(one \o other)
  <1>1. PICK m \in Nat \ {0} : m = Len(one)
    BY DEF EndsReading, PlanOfQuestions
  <1>2. PICK n \in Nat \ {0} : n = Len(other)
    BY DEF EndsReading, PlanOfQuestions
  <1>3. /\ Len(one \o other) = m + n
        /\ \A i \in 1..m + n : (one \o other)[i] = IF i <= m THEN one[i] ELSE other[i - m]
    BY <1>1, <1>2, ConcatProperties
  <1>4. ASSUME NEW i \in 1..m + n PROVE (one \o other)[i].action # "general_conversation"
    <2>1. CASE i <= m
      BY <1>1, <1>3, <2>1 DEF EndsReading, PlanOfQuestions
    <2>2. CASE ~(i <= m)
      <3>1. i - m \in 1..n
        BY <2>2
      <3> QED
        BY <1>2, <1>3, <2>2, <3>1 DEF EndsReading, PlanOfQuestions
    <2> QED
      BY <2>1, <2>2
  <1>5. (one \o other)[m + n] = other[n]
    <2>1. m + n \in 1..m + n /\ ~(m + n <= m) /\ (m + n) - m = n
      OBVIOUS
    <2> QED
      BY <1>3, <2>1
  <1> QED
    BY <1>2, <1>3, <1>4, <1>5 DEF EndsReading, PlanOfQuestions

LEMMA TailOfTwo ==
    ASSUME NEW a, NEW b
    PROVE  Tail(<<a, b>>) = <<b>>
  <1>1. <<a, b>> \in Seq({a, b}) /\ Len(<<a, b>>) = 2 /\ <<a, b>>[2] = b
    OBVIOUS
  <1>2. /\ Tail(<<a, b>>) \in Seq({a, b}) /\ Len(Tail(<<a, b>>)) = 1
        /\ Tail(<<a, b>>)[1] = b
    BY <1>1, HeadTailProperties
  <1> QED
    BY <1>2

LEMMA PlanFacts ==
    ASSUME NEW kind \in Kinds
    PROVE  /\ PlanOfQuestions(Plans[kind])
           /\ \/ Plans[kind][Len(Plans[kind])].reads
              \/ Plans[kind][Len(Plans[kind])] = HouseholdQuestion
              \/ kind \in Admin
  <1>1. EndsReading(OwnChildren) /\ EndsReading(ChildrenCount) /\ EndsReading(BirthDate)
        /\ EndsReading(Relatives)
    BY HouseholdReads DEF OwnChildren, ChildrenCount, BirthDate, Relatives
  <1>2. EndsReading(ProfileCard) /\ EndsReading(Recall) /\ EndsReading(OwnBirthday)
        /\ EndsReading(Medical) /\ EndsReading(SecurityData)
    BY OwnReads DEF ProfileCard, Recall, OwnBirthday, Medical, SecurityData
  <1>3. EndsReading(Birthdays)
    BY <1>1, HouseholdReads, Concatenated DEF Birthdays, OwnChildren, BirthDate
  <1>4. EndsReading(Partner)
    <2> DEFINE asked == Question("execute_household_tool", "household", "normal", FALSE)
               read  == Question("read_household_data", "household", "normal", TRUE)
    <2>1. Relatives = <<asked, read>> /\ Tail(Relatives) = <<read>>
      BY TailOfTwo DEF Relatives, HouseholdRead
    <2>2. EndsReading(<<read>>)
      BY DEF EndsReading, PlanOfQuestions, Question
    <2>3. Relatives \in Seq({asked, read}) /\ Tail(Relatives) \in Seq({asked, read})
      BY <2>1
    <2> QED
      BY <1>1, <2>1, <2>2, <2>3, Concatenated DEF Partner
  <1>5. PlanOfQuestions(Biometric)
    BY DEF Biometric, PlanOfQuestions, Question
  <1>6. PlanOfQuestions(<<HouseholdQuestion>>)
    BY DEF HouseholdQuestion, PlanOfQuestions, Question
  <1>7. Len(<<HouseholdQuestion>>) = 1 /\ <<HouseholdQuestion>>[1] = HouseholdQuestion
    OBVIOUS
  <1>8. CASE kind = "household"
    BY <1>6, <1>7, <1>8 DEF Plans
  <1>9. CASE kind \in Admin
    BY <1>5, <1>9 DEF Plans, Admin
  <1>10. CASE kind \notin Admin \union {"household"}
    <2>1. EndsReading(Plans[kind])
      BY <1>1, <1>2, <1>3, <1>4, <1>10 DEF Plans, Admin, Kinds
    <2> QED
      BY <2>1 DEF EndsReading
  <1> QED
    BY <1>8, <1>9, <1>10

-----------------------------------------------------------------------------
(* Who is there: an actor rests on nothing that its evidence does not      *)
(* hold.                                                                   *)

ActorFrom(evidence, p, held, now) == ResolveActivePerson(evidence, {p}, [x \in {p} |-> held], now)

LEMMA ResolvedFrom ==
    ASSUME NEW evidence, NEW p, NEW held, NEW now, NEW actor,
           actor = ActorFrom(evidence, p, held, now)
    PROVE  /\ actor.evidence = evidence
           /\ actor.status # "ambiguous"
           /\ actor.role \in {held, "unknown"}
           /\ actor.assurance \in Assurance
           /\ actor.status = "identified" => Sources(evidence) \intersect Trusted # {}
           /\ actor.assurance = "strong" =>
                "local_unlock" \in Sources(evidence) \/ "voice" \in Sources(evidence)
  <1> DEFINE fresh == Candidates(evidence, {p}, now)
             identified == Sources(fresh) \intersect Trusted # {}
  <1>1. \A a \in fresh : a \in evidence /\ a.candidate = p
    BY DEF Candidates
  <1>2. Sources(fresh) \subseteq Sources(evidence)
    BY <1>1 DEF Sources
  <1>3. CASE fresh = {}
    BY <1>3 DEF ResolveActivePerson, ActorFrom, NobodyAs, Assurance
  <1>4. CASE fresh # {}
    <2>1. ~(\E a, b \in fresh : a.candidate # b.candidate)
      BY <1>1
    <2>2. (CHOOSE item \in fresh : TRUE).candidate = p
      BY <1>1, <1>4
    <2>3. actor = [person    |-> p,
                   status    |-> IF identified THEN "identified" ELSE "probable",
                   role      |-> held,
                   assurance |-> IF identified THEN AssuranceOf(Sources(fresh)) ELSE "none",
                   evidence  |-> evidence]
      BY <1>4, <2>1, <2>2 DEF ResolveActivePerson, ActorFrom
    <2>4. AssuranceOf(Sources(fresh)) \in Assurance
      BY DEF AssuranceOf, Assurance
    <2>5. AssuranceOf(Sources(fresh)) = "strong" =>
            "local_unlock" \in Sources(fresh) \/ "voice" \in Sources(fresh)
      BY DEF AssuranceOf
    <2>6. identified => Sources(evidence) \intersect Trusted # {}
      BY <1>2
    <2> DEFINE assurance == AssuranceOf(Sources(fresh))
    <2> HIDE DEF fresh, identified, assurance
    <2>7. /\ actor.status = (IF identified THEN "identified" ELSE "probable")
          /\ actor.assurance = (IF identified THEN assurance ELSE "none")
          /\ actor.role = held /\ actor.evidence = evidence
      BY <2>3 DEF assurance
    <2>8. /\ assurance \in Assurance
          /\ assurance = "strong" =>
               "local_unlock" \in Sources(evidence) \/ "voice" \in Sources(evidence)
      BY <1>2, <2>4, <2>5 DEF assurance
    <2> QED
      BY <2>6, <2>7, <2>8 DEF Assurance
  <1> QED
    BY <1>3, <1>4

LEMMA GroundedOnEvidence ==
    ASSUME NEW evidence, NEW seen \in Seen, NEW p, NEW now, NEW held \in {"owner", "unknown"},
           held = "owner" => seen.owner,
           Sources(evidence) \subseteq {"face", "voice", "local_unlock"},
           "face" \in Sources(evidence) => seen.face,
           "voice" \in Sources(evidence) => seen.voice /\ seen.prints,
           NEW actor, actor = ActorFrom(evidence, p, held, now)
    PROVE  IsGrounded(actor, seen) /\ actor.evidence = evidence
  <1>1. /\ actor.evidence = evidence
        /\ actor.status # "ambiguous"
        /\ actor.role \in {held, "unknown"}
        /\ actor.assurance \in Assurance
        /\ actor.status = "identified" => Sources(evidence) \intersect Trusted # {}
        /\ actor.assurance = "strong" =>
             "local_unlock" \in Sources(evidence) \/ "voice" \in Sources(evidence)
    BY ResolvedFrom DEF Seen
  <1>2. Sources(evidence) \intersect Trusted # {} =>
          "local_unlock" \in Sources(evidence) \/ "face" \in Sources(evidence)
    BY DEF Trusted
  <1> QED
    BY <1>1, <1>2 DEF IsGrounded, HoldsToken

\* Nobody rests on nothing.
LEMMA GroundedNobody ==
    ASSUME NEW status \in {"unknown", "ambiguous"}, NEW evidence, NEW seen \in Seen,
           Sources(evidence) \subseteq {"local_unlock"},
           status = "ambiguous" => evidence = {}
    PROVE  IsGrounded(NobodyAs(status, evidence), seen)
  <1>1. NobodyAs(status, evidence).evidence = evidence
        /\ NobodyAs(status, evidence).status = status
        /\ NobodyAs(status, evidence).role = "unknown"
        /\ NobodyAs(status, evidence).assurance = "none"
    BY DEF NobodyAs
  <1>2. evidence = {} => "local_unlock" \notin Sources(evidence)
    BY DEF Sources
  <1> QED
    BY <1>1, <1>2 DEF IsGrounded, HoldsToken, Assurance

LEMMA UnknownIsGrounded ==
    ASSUME NEW seen \in Seen
    PROVE  /\ IsGrounded(UnknownActor, seen) /\ ~HoldsToken(UnknownActor)
           /\ IsGrounded(AmbiguousActor, seen) /\ ~HoldsToken(AmbiguousActor)
  <1>1. Sources({}) = {}
    BY DEF Sources
  <1>2. NobodyAs("unknown", {}).evidence = {} /\ NobodyAs("ambiguous", {}).evidence = {}
    BY DEF NobodyAs
  <1> QED
    BY <1>1, <1>2, GroundedNobody DEF UnknownActor, AmbiguousActor, HoldsToken

LEMMA OneSource ==
    ASSUME NEW p
    PROVE  /\ Sources({FaceEvidence(p)}) = {"face"}
           /\ Sources({VoiceEvidence(p)}) = {"voice"}
  BY DEF Sources, FaceEvidence, VoiceEvidence

(* A voice adds nothing but its own evidence to a face.                    *)
LEMMA FusedIsGrounded ==
    ASSUME NEW face, NEW seen \in Seen, IsGrounded(face, seen), seen.voice, seen.prints, NEW p, NEW now,
           NEW voice, voice = NobodyAs("unknown", {VoiceEvidence(p)}),
           NEW actor, actor = FuseFaceAndVoice(face, voice, now)
    PROVE  /\ IsGrounded(actor, seen)
           /\ HoldsToken(actor) => HoldsToken(face)
  <1> DEFINE same  == {item \in voice.evidence : item.candidate = face.person}
             both  == face.evidence \union same
             fused == ActorFrom(both, face.person, face.role, now)
  <1>1. voice.evidence = {VoiceEvidence(p)}
    BY DEF NobodyAs
  <1>2. Sources(both) \subseteq Sources(face.evidence) \union {"voice"}
    <2>1. \A item \in same : item.source = "voice"
      BY <1>1 DEF VoiceEvidence
    <2> HIDE DEF same
    <2> QED
      BY <2>1 DEF Sources
  <1>3. actor = fused \/ actor = face
    BY DEF FuseFaceAndVoice, ActorFrom
  <1> HIDE DEF both
  <1>4. CASE actor = fused
    <2>1. face.role \in {"owner", "unknown"} /\ (face.role = "owner" => seen.owner)
      BY DEF IsGrounded
    <2>2. Sources(both) \subseteq {"face", "voice", "local_unlock"}
      BY <1>2 DEF IsGrounded
    <2>3. "face" \in Sources(both) => seen.face
      BY <1>2 DEF IsGrounded
    <2>4. IsGrounded(actor, seen) /\ actor.evidence = both
      BY <1>4, <2>1, <2>2, <2>3, GroundedOnEvidence
    <2> QED
      BY <1>2, <2>4 DEF HoldsToken
  <1>5. CASE actor = face
    BY <1>5
  <1> QED
    BY <1>3, <1>4, <1>5

-----------------------------------------------------------------------------
(* The requests: while it is judged who is there, nothing is audited yet   *)
(* and the actor rests on what has been seen.                              *)

LEMMA NewIsNone ==
    ASSUME NEW q, q.pc # "new"
    PROVE  q # New
  BY DEF New

LEMMA OneChanges ==
    ASSUME RequestInv, NEW r \in Requests, NEW next, Step(r, next), Sound(next)
    PROVE  RequestInv'
  <1>1. UNCHANGED <<role, faceConsent, voiceConsent, prints>>
    BY DEF Step, operatorVars, biometrics
  <1>2. req' = [req EXCEPT ![r] = next] /\ req = [q \in Requests |-> req[q]]
    BY DEF Step, RequestInv
  <1>3. req' = [q \in Requests |-> req'[q]]
    BY <1>2
  <1>4. \A q \in Requests : req'[q] # New => Sound(req'[q])
    BY <1>2 DEF RequestInv
  <1>5. \A q \in Requests : (req[q] # New => Sound(req[q]))'
    BY <1>1, <1>4 DEF Sound, IsRequest, IsRecord, IsAudited, AllowedUpTo, HasSeen, Entitled,
                      NotesWhatHolds
  <1>6. faceConsent' \in BOOLEAN /\ voiceConsent' \in BOOLEAN
    BY <1>1 DEF RequestInv
  <1> QED
    BY <1>3, <1>5, <1>6 DEF RequestInv

LEMMA Judged ==
    ASSUME NEW q, Sound(q), q.pc \in Unasked \ {"ask"},
           NEW b, IsRecord(b), b.pc \in Unasked \union {"done"},
           b.then \in Thens, b.kind \in Kinds,
           b.step = q.step, b.rows = q.rows, b.read = q.read, b.seen = q.seen,
           IsGrounded(b.actor, q.seen),
           b.role \in {"owner", "unknown"}, b.role = "owner" => q.seen.owner,
           b.pc \in {"voice_role", "voice_consent"} /\ b.references >= LeastPrints =>
             q.seen.prints
    PROVE  Sound(b)
  <1>1. q.step = 1 /\ q.rows = {} /\ q.read = {}
    BY DEF Sound, IsAudited
  <1>2. q.pc # "done" /\ b.pc # "read"
    BY DEF Unasked, Judging, Thens
  <1>3. IsRequest(b)
    BY DEF Sound, IsRequest
  <1>4. IsAudited(b)
    <2>1. Len(Plans[b.kind]) \in Nat \ {0}
      BY PlanFacts DEF PlanOfQuestions
    <2>2. AllowedUpTo(b, b.step - 1)
      BY <1>1 DEF AllowedUpTo
    <2> QED
      BY <1>1, <1>2, <2>1, <2>2 DEF IsAudited
  <1>5. HasSeen(b)
    BY <1>1, <1>2 DEF HasSeen
  <1>6. NotesWhatHolds(b)
    BY <1>2 DEF Sound, NotesWhatHolds
  <1> QED
    BY <1>3, <1>4, <1>5, <1>6 DEF Sound

\* What a request that is being judged is known to hold.
LEMMA UnderJudgement ==
    ASSUME RequestInv, NEW r \in Requests, req[r].pc \in Unasked \union Changing \union {"read"}
    PROVE  /\ Sound(req[r]) /\ IsRecord(req[r]) /\ req[r].seen \in Seen
           /\ req[r].then \in Thens /\ req[r].kind \in Kinds
           /\ IsGrounded(req[r].actor, req[r].seen)
           /\ req[r].role \in {"owner", "unknown"} /\ (req[r].role = "owner" => req[r].seen.owner)
           /\ role = "owner" => req[r].seen.owner
           /\ faceConsent => req[r].seen.face
           /\ voiceConsent => req[r].seen.voice
           /\ prints >= LeastPrints => req[r].seen.prints
  <1>1. req[r].pc # "new" /\ req[r].pc # "done"
    BY DEF Unasked, Judging, Thens, Changing
  <1>2. Sound(req[r])
    BY <1>1, NewIsNone DEF RequestInv
  <1>3. NotesWhatHolds(req[r])
    BY <1>2 DEF Sound
  <1> QED
    BY <1>1, <1>2, <1>3 DEF Sound, IsRequest, HasSeen, NotesWhatHolds

(* A request that is judged goes on to another point, its actor unchanged. *)
LEMMA GoesOn ==
    ASSUME RequestInv, NEW r \in Requests, req[r].pc \in Unasked \ {"ask"},
           NEW pc \in Unasked \union {"done"},
           pc \in {"voice_role", "voice_consent"} => FALSE,
           Step(r, To(r, pc))
    PROVE  RequestInv'
  <1>1. Sound(req[r]) /\ IsRecord(req[r])
    BY UnderJudgement
  <1>2. PICK b : b = To(r, pc)
    OBVIOUS
  <1>3. Sound(b)
    BY <1>1, <1>2, AtAnotherPoint, Judged, UnderJudgement DEF To
  <1> QED
    BY <1>2, <1>3, OneChanges

LEMMA MatchFaceRequest ==
    ASSUME RequestInv, NEW r \in Requests, MatchFace(r)
    PROVE  RequestInv'
  <1>1. req[r].pc = "face" /\ "face" \in Unasked \ {"ask"}
    BY DEF MatchFace, Unasked, Judging, Thens
  <1>2. Sound(req[r]) /\ IsRecord(req[r]) /\ req[r].then \in Thens /\ req[r].seen \in Seen
    BY <1>1, UnderJudgement
  <1>3. CASE Step(r, [req[r] EXCEPT !.pc = req[r].then, !.actor = AmbiguousActor, !.veto = TRUE])
    <2>1. PICK b : b = [req[r] EXCEPT !.pc = req[r].then, !.actor = AmbiguousActor, !.veto = TRUE]
      OBVIOUS
    <2>2. /\ IsRecord(b) /\ b.pc = req[r].then /\ b.actor = AmbiguousActor
          /\ b.then = req[r].then /\ b.kind = req[r].kind /\ b.role = req[r].role
          /\ b.step = req[r].step /\ b.rows = req[r].rows /\ b.read = req[r].read
          /\ b.seen = req[r].seen
      BY <1>2, <2>1 DEF IsRecord
    <2>3. b.pc \in Unasked /\ b.pc \notin {"voice_role", "voice_consent"}
      BY <1>2, <2>2 DEF Unasked, Thens
    <2>4. IsGrounded(b.actor, req[r].seen)
      BY <1>2, <2>2, UnknownIsGrounded
    <2>5. Sound(b)
      BY <1>1, <1>2, <2>2, <2>3, <2>4, Judged, UnderJudgement
    <2> QED
      BY <1>3, <2>1, <2>5, OneChanges
  <1>4. CASE Step(r, To(r, "face_role")) \/ Step(r, To(r, "token"))
    <2>1. {"face_role", "token"} \subseteq Unasked \ {"voice_role", "voice_consent"}
      BY DEF Unasked, Judging
    <2> QED
      BY <1>1, <1>4, <2>1, GoesOn
  <1> QED
    BY <1>3, <1>4 DEF MatchFace, Local

(* The same of a step that changes more than the point it is at.          *)
LEMMA JudgedOn ==
    ASSUME RequestInv, NEW r \in Requests, req[r].pc \in Unasked \ {"ask"},
           NEW b, Step(r, b), IsRecord(b), b.pc \in Unasked \union {"done"},
           b.then = req[r].then, b.kind = req[r].kind,
           b.step = req[r].step, b.rows = req[r].rows, b.read = req[r].read,
           b.seen = req[r].seen,
           IsGrounded(b.actor, req[r].seen),
           b.role \in {"owner", "unknown"}, b.role = "owner" => req[r].seen.owner,
           b.pc \in {"voice_role", "voice_consent"} /\ b.references >= LeastPrints =>
             req[r].seen.prints
    PROVE  RequestInv'
  <1>1. Sound(b)
    BY UnderJudgement, Judged
  <1> QED
    BY <1>1, OneChanges

LEMMA FaceRoleRequest ==
    ASSUME UnlockInv, RequestInv, NEW r \in Requests, FaceRole(r)
    PROVE  RequestInv'
  <1>1. req[r].pc = "face_role" /\ "face_role" \in Unasked \ {"ask"}
    BY DEF FaceRole, Unasked, Judging, Thens
  <1>2. /\ IsRecord(req[r]) /\ req[r].then \in Thens /\ req[r].seen \in Seen
        /\ IsGrounded(req[r].actor, req[r].seen)
        /\ req[r].role \in {"owner", "unknown"} /\ (req[r].role = "owner" => req[r].seen.owner)
        /\ role = "owner" => req[r].seen.owner
    BY <1>1, UnderJudgement
  <1>3. CASE Step(r, [req[r] EXCEPT !.pc = req[r].then, !.actor = AmbiguousActor])
    <2>1. PICK b : b = [req[r] EXCEPT !.pc = req[r].then, !.actor = AmbiguousActor]
      OBVIOUS
    <2>2. /\ IsRecord(b) /\ b.pc = req[r].then /\ b.actor = AmbiguousActor
          /\ b.then = req[r].then /\ b.kind = req[r].kind /\ b.role = req[r].role
          /\ b.step = req[r].step /\ b.rows = req[r].rows /\ b.read = req[r].read
          /\ b.seen = req[r].seen
      BY <1>2, <2>1 DEF IsRecord
    <2>3. b.pc \in Unasked /\ b.pc \notin {"voice_role", "voice_consent"}
      BY <1>2, <2>2 DEF Unasked, Thens
    <2>4. IsGrounded(b.actor, req[r].seen)
      BY <1>2, <2>2, UnknownIsGrounded
    <2>5. Step(r, b)
      BY <1>3, <2>1
    <2> QED
      BY <1>1, <1>2, <2>2, <2>3, <2>4, <2>5, JudgedOn
  <1>4. CASE role = "owner" /\ Step(r, [req[r] EXCEPT !.pc = "face_consent", !.role = role])
    <2>1. PICK b : b = [req[r] EXCEPT !.pc = "face_consent", !.role = role]
      OBVIOUS
    <2>2. /\ IsRecord(b) /\ b.pc = "face_consent" /\ b.actor = req[r].actor
          /\ b.then = req[r].then /\ b.kind = req[r].kind /\ b.role = role
          /\ b.step = req[r].step /\ b.rows = req[r].rows /\ b.read = req[r].read
          /\ b.seen = req[r].seen
      BY <1>2, <2>1 DEF IsRecord
    <2>3. b.pc \in Unasked /\ b.pc \notin {"voice_role", "voice_consent"}
      BY <2>2 DEF Unasked, Judging
    <2>4. b.role \in {"owner", "unknown"} /\ (b.role = "owner" => req[r].seen.owner)
      BY <1>2, <1>4, <2>2
    <2>5. Step(r, b)
      BY <1>4, <2>1
    <2>6. IsGrounded(b.actor, req[r].seen)
      BY <1>2, <2>2
    <2> QED
      BY <1>1, <2>2, <2>3, <2>4, <2>5, <2>6, JudgedOn
  <1>5. CASE Step(r, To(r, "token"))
    <2>1. "token" \in Unasked \ {"voice_role", "voice_consent"}
      BY DEF Unasked, Judging
    <2> QED
      BY <1>1, <1>5, <2>1, GoesOn
  <1> QED
    BY <1>3, <1>4, <1>5 DEF FaceRole, Local

LEMMA FaceConsentRequest ==
    ASSUME RequestInv, NEW r \in Requests, FaceConsent(r)
    PROVE  RequestInv'
  <1> DEFINE next == [req[r] EXCEPT
                        !.pc = IF req[r].clip = "none" THEN req[r].then ELSE "voice",
                        !.actor = ActorFrom({FaceEvidence(Owner)}, Owner, req[r].role, clock)]
  <1>1. req[r].pc = "face_consent" /\ "face_consent" \in Unasked \ {"ask"}
    BY DEF FaceConsent, Unasked, Judging, Thens
  <1>2. /\ IsRecord(req[r]) /\ req[r].then \in Thens /\ req[r].seen \in Seen
        /\ req[r].role \in {"owner", "unknown"} /\ (req[r].role = "owner" => req[r].seen.owner)
        /\ faceConsent => req[r].seen.face
    BY <1>1, UnderJudgement
  <1>3. CASE FaceVerdict(1, TRUE, faceConsent, req[r].role) = "identified" /\ Step(r, next)
    <2>1. PICK b : b = next
      OBVIOUS
    <2>2. PICK actor : actor = ActorFrom({FaceEvidence(Owner)}, Owner, req[r].role, clock)
      OBVIOUS
    <2>3. /\ IsRecord(b) /\ b.pc = (IF req[r].clip = "none" THEN req[r].then ELSE "voice")
          /\ b.actor = actor
          /\ b.then = req[r].then /\ b.kind = req[r].kind /\ b.role = req[r].role
          /\ b.step = req[r].step /\ b.rows = req[r].rows /\ b.read = req[r].read
          /\ b.seen = req[r].seen
      BY <1>2, <2>1, <2>2 DEF IsRecord
    <2>4. b.pc \in Unasked /\ b.pc \notin {"voice_role", "voice_consent"}
      BY <1>2, <2>3 DEF Unasked, Thens, Judging
    <2>5. faceConsent = TRUE /\ req[r].seen.face
      BY <1>2, <1>3 DEF FaceVerdict, RequestInv
    <2>6. IsGrounded(actor, req[r].seen)
      <3>1. Sources({FaceEvidence(Owner)}) = {"face"}
        BY OneSource
      <3> QED
        BY <1>2, <2>2, <2>5, <3>1, GroundedOnEvidence
    <2>7. Step(r, b)
      BY <1>3, <2>1
    <2> QED
      BY <1>1, <1>2, <2>3, <2>4, <2>6, <2>7, JudgedOn
  <1>4. CASE Step(r, To(r, "token"))
    <2>1. "token" \in Unasked \ {"voice_role", "voice_consent"}
      BY DEF Unasked, Judging
    <2> QED
      BY <1>1, <1>4, <2>1, GoesOn
  <1> QED
    BY <1>3, <1>4 DEF FaceConsent, Local, ActorFrom

LEMMA MatchVoiceRequest ==
    ASSUME RequestInv, NEW r \in Requests, MatchVoice(r)
    PROVE  RequestInv'
  <1>1. req[r].pc = "voice" /\ "voice" \in Unasked \ {"ask"}
    BY DEF MatchVoice, Unasked, Judging, Thens
  <1>2. /\ IsRecord(req[r]) /\ req[r].then \in Thens /\ req[r].seen \in Seen
        /\ IsGrounded(req[r].actor, req[r].seen)
        /\ req[r].role \in {"owner", "unknown"} /\ (req[r].role = "owner" => req[r].seen.owner)
        /\ prints >= LeastPrints => req[r].seen.prints
    BY <1>1, UnderJudgement
  <1>3. CASE Step(r, [req[r] EXCEPT !.pc = "voice_role", !.references = prints])
    <2>1. PICK b : b = [req[r] EXCEPT !.pc = "voice_role", !.references = prints]
      OBVIOUS
    <2>2. /\ IsRecord(b) /\ b.pc = "voice_role" /\ b.references = prints
          /\ b.actor = req[r].actor
          /\ b.then = req[r].then /\ b.kind = req[r].kind /\ b.role = req[r].role
          /\ b.step = req[r].step /\ b.rows = req[r].rows /\ b.read = req[r].read
          /\ b.seen = req[r].seen
      BY <1>2, <2>1 DEF IsRecord
    <2>3. b.pc \in Unasked
      BY <2>2 DEF Unasked, Judging
    <2>4. Step(r, b)
      BY <1>3, <2>1
    <2> QED
      BY <1>1, <1>2, <2>2, <2>3, <2>4, JudgedOn
  <1>4. CASE Step(r, To(r, req[r].then))
    <2>1. req[r].then \in Unasked \ {"voice_role", "voice_consent"}
      BY <1>2 DEF Unasked, Thens
    <2> QED
      BY <1>1, <1>4, <2>1, GoesOn
  <1> QED
    BY <1>3, <1>4 DEF MatchVoice, Local

LEMMA VoiceRoleRequest ==
    ASSUME UnlockInv, RequestInv, NEW r \in Requests, VoiceRole(r)
    PROVE  RequestInv'
  <1>1. req[r].pc = "voice_role" /\ "voice_role" \in Unasked \ {"ask"}
    BY DEF VoiceRole, Unasked, Judging, Thens
  <1>2. /\ IsRecord(req[r]) /\ Sound(req[r])
        /\ IsGrounded(req[r].actor, req[r].seen)
        /\ role = "owner" => req[r].seen.owner
    BY <1>1, UnderJudgement
  <1>3. PICK b : b = [req[r] EXCEPT !.pc = "voice_consent", !.role = role]
    OBVIOUS
  <1>4. /\ IsRecord(b) /\ b.pc = "voice_consent" /\ b.references = req[r].references
        /\ b.actor = req[r].actor
        /\ b.then = req[r].then /\ b.kind = req[r].kind /\ b.role = role
        /\ b.step = req[r].step /\ b.rows = req[r].rows /\ b.read = req[r].read
        /\ b.seen = req[r].seen
    BY <1>2, <1>3 DEF IsRecord
  <1>5. b.pc \in Unasked /\ b.role \in {"owner", "unknown"}
    BY <1>4 DEF Unasked, Judging, UnlockInv, UnlockTypes
  <1>6. b.references >= LeastPrints => req[r].seen.prints
    BY <1>1, <1>2, <1>4 DEF Sound, HasSeen
  <1>7. Step(r, b)
    BY <1>3 DEF VoiceRole, Local
  <1> QED
    BY <1>1, <1>2, <1>4, <1>5, <1>6, <1>7, JudgedOn

LEMMA VoiceConsentRequest ==
    ASSUME RequestInv, NEW r \in Requests, VoiceConsent(r)
    PROVE  RequestInv'
  <1> DEFINE close   == req[r].clip = "owner" /\ req[r].references > 0
             verdict == SpeakerVerdict(TRUE, req[r].references, LeastPrints, close,
                                       voiceConsent, req[r].role)
             voice   == NobodyAs("unknown", {VoiceEvidence(Owner)})
             fused   == FuseFaceAndVoice(req[r].actor, voice, clock)
             judged  == IF verdict = "verified" THEN fused ELSE req[r].actor
  <1>1. req[r].pc = "voice_consent" /\ "voice_consent" \in Unasked \ {"ask"}
    BY DEF VoiceConsent, Unasked, Judging, Thens
  <1>2. /\ IsRecord(req[r]) /\ Sound(req[r]) /\ req[r].then \in Thens /\ req[r].seen \in Seen
        /\ IsGrounded(req[r].actor, req[r].seen)
        /\ req[r].role \in {"owner", "unknown"} /\ (req[r].role = "owner" => req[r].seen.owner)
        /\ voiceConsent => req[r].seen.voice
    BY <1>1, UnderJudgement
  <1>3. Step(r, [req[r] EXCEPT !.pc = req[r].then, !.actor = judged])
    BY DEF VoiceConsent, Local
  <1>4. IsGrounded(judged, req[r].seen)
    <2>1. CASE verdict = "verified"
      <3>1. voiceConsent = TRUE /\ req[r].references >= LeastPrints
        BY <2>1 DEF SpeakerVerdict, RequestInv
      <3>2. req[r].seen.voice /\ req[r].seen.prints
        BY <1>1, <1>2, <3>1 DEF Sound, HasSeen
      <3>3. PICK v : v = voice
        OBVIOUS
      <3>4. PICK a : a = FuseFaceAndVoice(req[r].actor, v, clock)
        OBVIOUS
      <3> HIDE DEF verdict
      <3>5. IsGrounded(a, req[r].seen)
        BY <1>2, <3>2, <3>3, <3>4, FusedIsGrounded
      <3> QED
        BY <2>1, <3>3, <3>4, <3>5
    <2>2. CASE verdict # "verified"
      BY <1>2, <2>2
    <2> QED
      BY <2>1, <2>2
  <1> HIDE DEF judged
  <1>5. PICK b : b = [req[r] EXCEPT !.pc = req[r].then, !.actor = judged]
    OBVIOUS
  <1>6. /\ IsRecord(b) /\ b.pc = req[r].then /\ b.actor = judged
        /\ b.then = req[r].then /\ b.kind = req[r].kind /\ b.role = req[r].role
        /\ b.step = req[r].step /\ b.rows = req[r].rows /\ b.read = req[r].read
        /\ b.seen = req[r].seen
    BY <1>2, <1>5 DEF IsRecord
  <1>7. b.pc \in Unasked /\ b.pc \notin {"voice_role", "voice_consent"}
    BY <1>2, <1>6 DEF Unasked, Thens
  <1>8. Step(r, b) /\ IsGrounded(b.actor, req[r].seen)
    BY <1>3, <1>4, <1>5, <1>6
  <1> QED
    BY <1>1, <1>2, <1>6, <1>7, <1>8, JudgedOn

(* What the registry answers about a token comes from an unlock.          *)
LEMMA FromTheRegistry ==
    ASSUME UnlockInv, NEW token, NEW scope
    PROVE  /\ Sources(PeekEvidence(token, scope)) \subseteq {"local_unlock"}
           /\ Sources(ConsumedEvidence(token, scope)) \subseteq {"local_unlock"}
  <1>1. \A item \in PeekEvidence(token, scope) : item \in GrantRecord
    BY DEF PeekEvidence, Fresh, Live, UnlockInv, UnlockTypes
  <1>2. \A item \in PeekEvidence(token, scope) : item.source = "local_unlock"
    BY <1>1 DEF GrantRecord
  <1>3. ASSUME NEW item \in GrantRecord
        PROVE  [item EXCEPT !.spent = TRUE].source = "local_unlock"
    BY DEF GrantRecord
  <1> QED
    BY <1>1, <1>2, <1>3 DEF ConsumedEvidence, Sources

LEMMA ResolveTokenRequest ==
    ASSUME UnlockInv, RequestInv, NEW r \in Requests, ResolveToken(r)
    PROVE  RequestInv'
  <1> DEFINE scope == ScopeOf(req[r].kind)
             found == IF req[r].kind \in Spends THEN ConsumedEvidence(req[r].token, scope)
                      ELSE PeekEvidence(req[r].token, scope)
             pc    == IF found = {} THEN req[r].then ELSE "token_role"
             nobody == NobodyAs("unknown", found)
  <1>1. req[r].pc = "token" /\ "token" \in Unasked \ {"ask"}
    BY DEF ResolveToken, Unasked, Judging, Thens
  <1>2. /\ IsRecord(req[r]) /\ req[r].then \in Thens /\ req[r].seen \in Seen
        /\ req[r].role \in {"owner", "unknown"} /\ (req[r].role = "owner" => req[r].seen.owner)
    BY <1>1, UnderJudgement
  <1>3. Step(r, [req[r] EXCEPT !.pc = pc, !.actor = nobody])
    BY DEF ResolveToken
  <1>4. Sources(found) \subseteq {"local_unlock"}
    BY FromTheRegistry
  <1>5. pc \in Unasked /\ pc \notin {"voice_role", "voice_consent"}
    BY <1>2 DEF Unasked, Judging, Thens
  <1> HIDE DEF found, pc
  <1>6. IsGrounded(nobody, req[r].seen)
    BY <1>2, <1>4, GroundedNobody
  <1> HIDE DEF nobody
  <1>7. PICK b : b = [req[r] EXCEPT !.pc = pc, !.actor = nobody]
    OBVIOUS
  <1>8. /\ IsRecord(b) /\ b.pc = pc /\ b.actor = nobody
        /\ b.then = req[r].then /\ b.kind = req[r].kind /\ b.role = req[r].role
        /\ b.step = req[r].step /\ b.rows = req[r].rows /\ b.read = req[r].read
        /\ b.seen = req[r].seen
    BY <1>2, <1>7 DEF IsRecord
  <1>9. Step(r, b)
    BY <1>3, <1>7
  <1> QED
    BY <1>1, <1>2, <1>5, <1>6, <1>8, <1>9, JudgedOn

LEMMA TokenRoleRequest ==
    ASSUME UnlockInv, RequestInv, NEW r \in Requests, TokenRole(r)
    PROVE  RequestInv'
  <1> DEFINE judged == ActorFrom(req[r].actor.evidence, Owner, role, clock)
  <1>1. req[r].pc = "token_role" /\ "token_role" \in Unasked \ {"ask"}
    BY DEF TokenRole, Unasked, Judging, Thens
  <1>2. /\ IsRecord(req[r]) /\ req[r].then \in Thens /\ req[r].seen \in Seen
        /\ IsGrounded(req[r].actor, req[r].seen)
        /\ req[r].role \in {"owner", "unknown"} /\ (req[r].role = "owner" => req[r].seen.owner)
        /\ role = "owner" => req[r].seen.owner
    BY <1>1, UnderJudgement
  <1>3. CASE Step(r, [req[r] EXCEPT !.pc = req[r].then, !.actor = judged])
    <2>1. PICK evidence : evidence = req[r].actor.evidence
      OBVIOUS
    <2>2. PICK actor : actor = ActorFrom(evidence, Owner, role, clock)
      OBVIOUS
    <2>3. PICK b : b = [req[r] EXCEPT !.pc = req[r].then, !.actor = judged]
      OBVIOUS
    <2>4. actor = judged
      BY <2>1, <2>2
    <2>5. /\ Sources(evidence) \subseteq {"face", "voice", "local_unlock"}
          /\ "face" \in Sources(evidence) => req[r].seen.face
          /\ "voice" \in Sources(evidence) => req[r].seen.voice /\ req[r].seen.prints
      BY <1>2, <2>1 DEF IsGrounded
    <2>6. role \in {"owner", "unknown"}
      BY DEF UnlockInv, UnlockTypes
    <2>7. IsGrounded(actor, req[r].seen)
      BY <1>2, <2>2, <2>5, <2>6, GroundedOnEvidence
    <2> HIDE DEF judged
    <2>8. /\ IsRecord(b) /\ b.pc = req[r].then /\ b.actor = actor
          /\ b.then = req[r].then /\ b.kind = req[r].kind /\ b.role = req[r].role
          /\ b.step = req[r].step /\ b.rows = req[r].rows /\ b.read = req[r].read
          /\ b.seen = req[r].seen
      BY <1>2, <2>3, <2>4 DEF IsRecord
    <2>9. b.pc \in Unasked /\ b.pc \notin {"voice_role", "voice_consent"}
      BY <1>2, <2>8 DEF Unasked, Thens
    <2>10. Step(r, b)
      BY <1>3, <2>3
    <2> QED
      BY <1>1, <1>2, <2>7, <2>8, <2>9, <2>10, JudgedOn
  <1>4. CASE Step(r, To(r, "done"))
    <2>1. "done" \in Unasked \union {"done"} /\ ~("done" \in {"voice_role", "voice_consent"})
      OBVIOUS
    <2> QED
      BY <1>1, <1>4, <2>1, GoesOn
  <1> QED
    BY <1>3, <1>4 DEF TokenRole, Local, ActorFrom

-----------------------------------------------------------------------------
(* The requests: how one begins, from a tool's own route or from a message. *)

LEMMA KindsAre ==
    Kinds = {"children", "count", "household", "relatives", "partner", "birthdays", "profile",
             "recall", "own_birthday", "medical", "security"} \union Admin
  BY DEF Kinds, Plans, Admin

LEMMA StartedRequest ==
    ASSUME UnlockInv, RequestInv, NEW r \in Requests, NEW kind \in Kinds, NEW frame, NEW clip,
           NEW token, NEW then \in Thens, Step(r, Started(kind, frame, clip, token, then))
    PROVE  RequestInv'
  <1>1. PICK b : b = Started(kind, frame, clip, token, then)
    OBVIOUS
  <1>2. PICK seen : seen = [owner |-> role = "owner", face |-> faceConsent,
                            voice |-> voiceConsent, prints |-> prints >= LeastPrints]
    OBVIOUS
  <1>3. faceConsent \in BOOLEAN /\ voiceConsent \in BOOLEAN
    BY DEF RequestInv
  <1>4. seen \in Seen
    BY <1>2, <1>3 DEF Seen
  <1>5. /\ seen.owner <=> role = "owner"
        /\ faceConsent => seen.face
        /\ voiceConsent => seen.voice
        /\ prints >= LeastPrints => seen.prints
    BY <1>2, <1>3
  <1>6. /\ IsRecord(b) /\ b.pc \in {"face", "token"} /\ b.then = then /\ b.kind = kind
        /\ b.actor = UnknownActor /\ b.role = "unknown" /\ b.step = 1 /\ b.rows = {}
        /\ b.read = {} /\ b.seen = seen
    BY <1>1, <1>2 DEF Started, IsRecord
  <1>7. IsRequest(b)
    BY <1>4, <1>6 DEF IsRequest, Unasked, Judging
  <1>8. IsAudited(b)
    <2>1. Len(Plans[kind]) \in Nat \ {0}
      BY PlanFacts DEF PlanOfQuestions
    <2>2. AllowedUpTo(b, b.step - 1)
      BY <1>6 DEF AllowedUpTo
    <2> QED
      BY <1>6, <2>1, <2>2 DEF IsAudited
  <1>9. HasSeen(b)
    BY <1>4, <1>6, UnknownIsGrounded DEF HasSeen
  <1>10. NotesWhatHolds(b)
    BY <1>5, <1>6 DEF NotesWhatHolds
  <1>11. Sound(b)
    BY <1>7, <1>8, <1>9, <1>10 DEF Sound
  <1> QED
    BY <1>1, <1>11, OneChanges

LEMMA BeginRequest ==
    ASSUME UnlockInv, RequestInv, NEW r \in Requests, Begin(r)
    PROVE  RequestInv'
  <1>1. Bounds.kinds[r] \subseteq Kinds
    BY BoundsAre DEF UnlockInv, UnlockTypes
  <1>2. PICK kind \in Kinds :
           \E frame, clip, token : Step(r, Started(kind, frame, clip, token, "ask"))
    BY <1>1 DEF Begin, Local
  <1>3. "ask" \in Thens
    BY DEF Thens
  <1> QED
    BY <1>2, <1>3, StartedRequest

\* What the controller does about a rule is one of the plans.
LEMMA OutcomeFacts ==
    ASSUME NEW message, NEW rule, NEW on, NEW outcome \in Outcomes(message, rule, on),
           outcome.reply = "pending"
    PROVE  outcome.kind \in Kinds \ Admin /\ outcome.then \in Thens
  <1>1. \A reply \in {"closed", "generation"} : Ended(reply).reply # "pending"
    BY DEF Ended
  <1>2. \A kind, then : Goes(kind, then).kind = kind /\ Goes(kind, then).then = then
    BY DEF Goes
  <1>3. /\ {"children", "count", "household", "relatives", "partner", "birthdays", "profile",
            "recall", "own_birthday", "medical", "security"} \subseteq Kinds \ Admin
        /\ {"ask", "judge_name", "judge_child"} \subseteq Thens
    BY KindsAre DEF Admin, Thens
  <1>4. \E kind \in Kinds \ Admin, then \in Thens :
          SensitiveOutcome(ClassifySensitiveQuestion(message)) = Goes(kind, then)
    BY <1>3 DEF SensitiveOutcome
  <1>5. \/ \E reply \in {"closed", "generation"} : outcome = Ended(reply)
        \/ \E kind \in Kinds \ Admin, then \in Thens : outcome = Goes(kind, then)
    BY <1>3, <1>4 DEF Outcomes
  <1> QED
    BY <1>1, <1>2, <1>5

LEMMA SameRequests ==
    ASSUME RequestInv, UNCHANGED <<req, faceConsent, voiceConsent, prints>>,
           role' = "owner" => role = "owner"
    PROVE  RequestInv'
  BY DEF RequestInv, Sound, IsRequest, IsRecord, IsAudited, AllowedUpTo, HasSeen, Entitled,
         NotesWhatHolds

LEMMA HearRequest ==
    ASSUME UnlockInv, RequestInv, NEW r \in Requests, Hear(r)
    PROVE  RequestInv'
  <1>1. CASE UNCHANGED vars
    BY <1>1, SameRequests DEF vars, biometrics, operatorVars
  <1>2. ASSUME NEW message, NEW rule, NEW on, NEW outcome \in Outcomes(message, rule, on),
               outcome.reply = "pending", NEW frame, NEW clip, NEW token,
               Local(r, Started(outcome.kind, frame, clip, token, outcome.then))
        PROVE  RequestInv'
    <2>1. outcome.kind \in Kinds /\ outcome.then \in Thens
      BY <1>2, OutcomeFacts
    <2> QED
      BY <1>2, <2>1, StartedRequest DEF Local
  <1> QED
    BY <1>1, <1>2 DEF Hear

LEMMA JudgeNameRequest ==
    ASSUME RequestInv, NEW r \in Requests, JudgeName(r)
    PROVE  RequestInv'
  <1>1. req[r].pc = "judge_name" /\ "judge_name" \in Unasked \ {"ask"} /\ "ask" \in Unasked
    BY DEF JudgeName, Unasked, Thens
  <1>2. Step(r, To(r, "ask")) \/ Step(r, To(r, "done"))
    BY DEF JudgeName, Local
  <1> QED
    BY <1>1, <1>2, GoesOn

LEMMA JudgeChildRequest ==
    ASSUME RequestInv, NEW r \in Requests, JudgeChild(r)
    PROVE  RequestInv'
  <1>1. req[r].pc = "judge_child" /\ "judge_child" \in Unasked \ {"ask"} /\ "ask" \in Unasked
    BY DEF JudgeChild, Unasked, Thens
  <1>2. /\ IsRecord(req[r]) /\ Sound(req[r]) /\ req[r].seen \in Seen
        /\ IsGrounded(req[r].actor, req[r].seen)
        /\ req[r].role \in {"owner", "unknown"} /\ (req[r].role = "owner" => req[r].seen.owner)
    BY <1>1, UnderJudgement
  <1>3. CASE Step(r, To(r, "ask")) \/ Step(r, To(r, "done"))
    BY <1>1, <1>3, GoesOn
  <1>4. ASSUME NEW message, NEW rule, NEW on, NEW outcome \in Outcomes(message, rule, on),
               outcome.reply = "pending", Step(r, Redirected(r, outcome))
        PROVE  RequestInv'
    <2>1. outcome.kind \in Kinds /\ outcome.then \in Thens
      BY <1>4, OutcomeFacts
    <2>2. PICK b : b = Redirected(r, outcome)
      OBVIOUS
    <2> DEFINE anew == /\ outcome.kind \in Spends
                       /\ ~IsFaceActor(req[r].actor) /\ req[r].actor.status # "ambiguous"
               pc    == IF anew THEN "token" ELSE outcome.then
               actor == IF anew THEN UnknownActor ELSE req[r].actor
    <2>3. b = [req[r] EXCEPT !.kind = outcome.kind, !.then = outcome.then, !.pc = pc,
                             !.actor = actor]
      BY <1>2, <2>2 DEF Redirected
    <2>4. pc \in Unasked /\ pc \notin {"voice_role", "voice_consent"}
      BY <2>1 DEF Unasked, Judging, Thens
    <2>5. IsGrounded(actor, req[r].seen)
      BY <1>2, UnknownIsGrounded
    <2> HIDE DEF pc, actor
    <2>6. /\ IsRecord(b) /\ b.pc = pc /\ b.actor = actor
          /\ b.then = outcome.then /\ b.kind = outcome.kind /\ b.role = req[r].role
          /\ b.step = req[r].step /\ b.rows = req[r].rows /\ b.read = req[r].read
          /\ b.seen = req[r].seen
      BY <1>2, <2>3 DEF IsRecord
    <2>7. IsGrounded(b.actor, req[r].seen)
      BY <2>5, <2>6
    <2>8. Sound(b)
      BY <1>1, <1>2, <2>1, <2>4, <2>6, <2>7, Judged
    <2> QED
      BY <1>4, <2>2, <2>8, OneChanges
  <1> QED
    BY <1>3, <1>4 DEF JudgeChild, Local

-----------------------------------------------------------------------------
(* The requests: what is asked of the policy, and what is read.            *)

\* More rows audit whatever fewer did.
LEMMA MoreRows ==
    ASSUME NEW q, NEW b, b.kind = q.kind, q.rows \subseteq b.rows, NEW last, AllowedUpTo(q, last)
    PROVE  AllowedUpTo(b, last)
  BY DEF AllowedUpTo

(* An actor that the policy answers is the owner, by what has been seen.   *)
LEMMA AllowedIsEntitled ==
    ASSUME NEW actor, NEW seen \in Seen, IsGrounded(actor, seen),
           Identified(actor), actor.role # "unknown"
    PROVE  seen.owner /\ (HoldsToken(actor) \/ seen.face)
  BY DEF IsGrounded, Identified, Seen

\* The answer about one's own security data needs a voice besides the face.
LEMMA SecurityIsEntitled ==
    ASSUME NEW actor, NEW seen \in Seen, IsGrounded(actor, seen),
           MayReadOwnMemory(actor), AtLeast(actor.assurance, "strong")
    PROVE  seen.voice /\ seen.prints
  <1>1. actor.assurance = "strong"
    BY DEF AtLeast, Rank, IsGrounded, Assurance
  <1>2. ~HoldsToken(actor)
    BY DEF MayReadOwnMemory, IsFaceActor
  <1> QED
    BY <1>1, <1>2 DEF IsGrounded

(* A question that is allowed is the one that its plan has at this step,   *)
(* by somebody entitled to what it reads.                                  *)
LEMMA AllowedQuestion ==
    ASSUME RequestInv, NEW r \in Requests, req[r].pc = "ask", ~NotAsked(r),
           NEW altaClosed,
           EvaluateAuthorization(PolicyRequest(r, QuestionOf(r), altaClosed)) = "allowed"
    PROVE  QuestionOf(r) = Plans[req[r].kind][req[r].step] /\ Entitled(req[r])
  <1> DEFINE question == QuestionOf(r)
             request  == PolicyRequest(r, question, altaClosed)
  <1>1. /\ Sound(req[r]) /\ req[r].seen \in Seen /\ req[r].kind \in Kinds
        /\ IsGrounded(req[r].actor, req[r].seen)
    BY UnderJudgement DEF Unasked, Thens
  <1>2. req[r].step \in 1..Len(Plans[req[r].kind]) /\ Len(Plans[req[r].kind]) \in Nat
    BY <1>1, PlanFacts DEF Sound, IsAudited, PlanOfQuestions, Unasked, Thens
  <1>3. question.action # "general_conversation"
    BY <1>1, <1>2, PlanFacts DEF QuestionOf, PlanOfQuestions, HouseholdQuestion, Question
  <1>4. request.action = question.action /\ request.actor = req[r].actor
    BY DEF PolicyRequest
  <1> HIDE DEF request
  <1>5. Identified(req[r].actor) /\ req[r].actor.role # "unknown"
    <2>1. EvaluateAuthorization(request) = "allowed"
      BY DEF request
    <2> QED
      BY <1>3, <1>4, <2>1, AllowedMeansResolved DEF ResolvedActor
  <1>6. question = Plans[req[r].kind][req[r].step]
    BY <1>5 DEF QuestionOf, Identified
  <1>7. req[r].seen.owner /\ (HoldsToken(req[r].actor) \/ req[r].seen.face)
    BY <1>1, <1>5, AllowedIsEntitled
  <1>8. req[r].kind = "security" => req[r].seen.voice /\ req[r].seen.prints
    <2>1. req[r].kind = "security" =>
            MayReadOwnMemory(req[r].actor) /\ AtLeast(req[r].actor.assurance, "strong")
      BY DEF NotAsked, OwnKinds, Sensitives
    <2> QED
      BY <1>1, <2>1, SecurityIsEntitled
  <1> QED
    BY <1>6, <1>7, <1>8 DEF Entitled

LEMMA AskRequest ==
    ASSUME RequestInv, NEW r \in Requests, Ask(r)
    PROVE  RequestInv'
  <1>1. req[r].pc = "ask" /\ "ask" \in Unasked
    BY DEF Ask, Unasked, Thens
  <1>2. /\ IsRecord(req[r]) /\ Sound(req[r]) /\ req[r].seen \in Seen
        /\ req[r].kind \in Kinds /\ req[r].then \in Thens
        /\ IsGrounded(req[r].actor, req[r].seen)
        /\ req[r].role \in {"owner", "unknown"} /\ (req[r].role = "owner" => req[r].seen.owner)
    BY <1>1, UnderJudgement
  <1>3. /\ req[r].step \in Nat \ {0} /\ req[r].step <= Len(Plans[req[r].kind])
        /\ Len(Plans[req[r].kind]) \in Nat
        /\ AllowedUpTo(req[r], req[r].step - 1)
        /\ \A s \in req[r].read : s \in Nat /\ AllowedUpTo(req[r], s)
    BY <1>1, <1>2, PlanFacts DEF Sound, IsAudited, PlanOfQuestions
  <1>4. req[r].read # {} => Entitled(req[r])
    BY <1>2 DEF Sound, HasSeen
  <1>5. CASE Step(r, To(r, "done"))
    <2>1. PICK b : b = To(r, "done")
      OBVIOUS
    <2>2. /\ IsRecord(b) /\ b.pc = "done" /\ b.then = req[r].then /\ b.kind = req[r].kind
          /\ b.actor = req[r].actor /\ b.role = req[r].role /\ b.step = req[r].step
          /\ b.rows = req[r].rows /\ b.read = req[r].read /\ b.seen = req[r].seen
      BY <1>2, <2>1 DEF IsRecord, To
    <2>3. IsRequest(b)
      BY <1>2, <2>2 DEF IsRequest
    <2>4. IsAudited(b)
      BY <1>3, <2>2 DEF IsAudited, AllowedUpTo, Unasked, Judging, Thens
    <2>5. HasSeen(b) /\ NotesWhatHolds(b)
      BY <1>2, <1>4, <2>2 DEF HasSeen, NotesWhatHolds, Entitled
    <2> QED
      BY <1>5, <2>1, <2>3, <2>4, <2>5, OneChanges DEF Sound
  <1>6. ASSUME NEW altaClosed, ~NotAsked(r),
               NEW decision,
               decision = EvaluateAuthorization(PolicyRequest(r, QuestionOf(r), altaClosed)),
               NEW next,
               next = (IF decision = "allowed" THEN AfterAllowed(r, QuestionOf(r)) ELSE "done"),
               Step(r, [req[r] EXCEPT
                          !.pc = next,
                          !.step = IF next = "ask" THEN @ + 1 ELSE @,
                          !.rows = @ \union {Row(QuestionOf(r), decision)}])
        PROVE  RequestInv'
    <2>1. PICK q : q = req[r]
      OBVIOUS
    <2>2. PICK question : question = QuestionOf(r)
      OBVIOUS
    <2>3. PICK step : step = (IF next = "ask" THEN q.step + 1 ELSE q.step)
      OBVIOUS
    <2>4. PICK rows : rows = q.rows \union {Row(question, decision)}
      OBVIOUS
    <2>5. PICK b : b = [q EXCEPT !.pc = next, !.step = step, !.rows = rows]
      OBVIOUS
    <2>6. Step(r, b)
      BY <1>6, <2>1, <2>2, <2>3, <2>4, <2>5
    <2>7. /\ IsRecord(b) /\ b.pc = next /\ b.then = q.then /\ b.kind = q.kind
          /\ b.actor = q.actor /\ b.role = q.role /\ b.step = step
          /\ b.rows = rows /\ b.read = q.read /\ b.seen = q.seen
      BY <1>2, <2>1, <2>5 DEF IsRecord
    <2>8. next \in {"read", "admin", "done", "ask"}
      BY <1>6 DEF AfterAllowed
    <2>9. IsRequest(b)
      <3>1. next \in Unasked \union Changing \union {"read", "done"}
        BY <2>8 DEF Unasked, Thens, Changing
      <3> QED
        BY <1>2, <2>1, <2>7, <3>1 DEF IsRequest
    <2>10. next # "done" =>
             /\ decision = "allowed"
             /\ question = Plans[q.kind][q.step]
             /\ Entitled(q)
             /\ next = AfterAllowed(r, question)
      BY <1>1, <1>6, <2>1, <2>2, AllowedQuestion
    <2>11. AllowedUpTo(b, q.step - 1) /\ \A s \in b.read : s \in Nat /\ AllowedUpTo(b, s)
      BY <1>3, <2>1, <2>4, <2>7, MoreRows
    <2>12. next # "done" => AllowedUpTo(b, q.step)
      <3>1. ASSUME next # "done", NEW i \in 1..q.step
            PROVE  Row(Plans[b.kind][i], "allowed") \in b.rows
        <4>1. CASE i = q.step
          BY <2>4, <2>7, <2>10, <3>1, <4>1
        <4>2. CASE i # q.step
          <5>1. i \in 1..q.step - 1
            BY <1>3, <2>1, <3>1, <4>2
          <5> QED
            BY <2>11, <5>1 DEF AllowedUpTo
        <4> QED
          BY <4>1, <4>2
      <3> QED
        BY <3>1 DEF AllowedUpTo
    <2>13. next = "ask" => q.step + 1 <= Len(Plans[q.kind])
      <3>1. SUFFICES ASSUME next = "ask" PROVE q.step # Len(Plans[q.kind])
        BY <1>3, <2>1
      <3>2. ~question.reads /\ q.kind \notin Admin /\ question # HouseholdQuestion
        BY <2>1, <2>10, <3>1 DEF AfterAllowed
      <3> QED
        BY <1>2, <2>1, <2>10, <3>1, <3>2, PlanFacts
    <2>14. IsAudited(b)
      <3>1. q.step \in Nat \ {0} /\ step \in Nat \ {0} /\ (next # "ask" => step = q.step)
            /\ (next = "ask" => step = q.step + 1 /\ step - 1 = q.step)
        BY <1>3, <2>1, <2>3
      <3>2. AllowedUpTo(b, b.step - 1)
        BY <2>7, <2>11, <2>12, <3>1
      <3>3. b.pc = "read" => AllowedUpTo(b, b.step)
        BY <2>7, <2>12, <3>1
      <3>4. b.pc \notin Unasked \ {"ask"}
        BY <2>7, <2>8 DEF Unasked, Judging, Thens
      <3>5. b.pc \in Unasked \union {"read"} => b.step <= Len(Plans[b.kind])
        BY <1>3, <2>1, <2>7, <2>8, <2>13, <3>1, <3>4
      <3> QED
        BY <2>7, <2>11, <3>1, <3>2, <3>3, <3>4, <3>5 DEF IsAudited
    <2>15. HasSeen(b)
      <3>1. b.pc = "read" \/ b.read # {} => Entitled(b)
        <4>1. b.pc = "read" \/ b.read # {} => Entitled(q)
          BY <1>4, <2>1, <2>7, <2>10
        <4> QED
          BY <2>7, <4>1 DEF Entitled
      <3> QED
        BY <1>2, <2>1, <2>7, <2>8, <3>1 DEF HasSeen
    <2>16. NotesWhatHolds(b)
      BY <1>1, <1>2, <2>1, <2>7 DEF Sound, NotesWhatHolds
    <2> QED
      BY <2>6, <2>9, <2>14, <2>15, <2>16, OneChanges DEF Sound
  <1>7. CASE NotAsked(r)
    BY <1>5, <1>7 DEF Ask, Local
  <1>8. CASE ~NotAsked(r)
    BY <1>5, <1>6, <1>8 DEF Ask, Local
  <1> QED
    BY <1>7, <1>8

LEMMA ReadRequest ==
    ASSUME RequestInv, NEW r \in Requests, Read(r)
    PROVE  RequestInv'
  <1>1. req[r].pc = "read"
    BY DEF Read
  <1>2. /\ IsRecord(req[r]) /\ Sound(req[r]) /\ req[r].seen \in Seen
        /\ req[r].kind \in Kinds /\ req[r].then \in Thens
        /\ IsGrounded(req[r].actor, req[r].seen)
        /\ req[r].role \in {"owner", "unknown"} /\ (req[r].role = "owner" => req[r].seen.owner)
    BY <1>1, UnderJudgement
  <1>3. /\ req[r].step \in Nat \ {0} /\ req[r].step <= Len(Plans[req[r].kind])
        /\ Len(Plans[req[r].kind]) \in Nat
        /\ AllowedUpTo(req[r], req[r].step)
        /\ \A s \in req[r].read : s \in Nat /\ AllowedUpTo(req[r], s)
    BY <1>1, <1>2, PlanFacts DEF Sound, IsAudited, PlanOfQuestions
  <1>4. Entitled(req[r])
    BY <1>1, <1>2 DEF Sound, HasSeen
  <1>5. ASSUME NEW b, Step(r, b), IsRecord(b),
               \/ b.pc = "done" /\ b.step = req[r].step
               \/ /\ b.pc = "ask" /\ b.step = req[r].step + 1
                  /\ b.step <= Len(Plans[req[r].kind]),
               b.read \subseteq req[r].read \union {req[r].step},
               b.then = req[r].then, b.kind = req[r].kind, b.actor = req[r].actor,
               b.role = req[r].role, b.rows = req[r].rows, b.seen = req[r].seen
        PROVE  RequestInv'
    <2>1. b.pc \in {"done", "ask"} /\ b.step \in Nat \ {0} /\ b.step - 1 \in Nat
          /\ b.step - 1 <= req[r].step
      BY <1>3, <1>5
    <2>2. IsRequest(b)
      BY <1>2, <1>5, <2>1 DEF IsRequest, Unasked, Thens
    <2>3. \A last \in Int : last <= req[r].step => AllowedUpTo(b, last)
      BY <1>3, <1>5 DEF AllowedUpTo
    <2>4. \A s \in b.read : s \in Nat /\ AllowedUpTo(b, s)
      <3>1. ASSUME NEW s \in req[r].read PROVE s \in Nat /\ AllowedUpTo(b, s)
        BY <1>3, <1>5 DEF AllowedUpTo
      <3>2. req[r].step \in Nat /\ AllowedUpTo(b, req[r].step)
        BY <1>3, <2>3
      <3> QED
        BY <1>5, <3>1, <3>2
    <2>5. IsAudited(b)
      <3>1. b.pc \notin Unasked \ {"ask"} /\ b.pc # "read"
        BY <1>5, <2>1 DEF Unasked, Judging, Thens
      <3>2. AllowedUpTo(b, b.step - 1)
        BY <1>5, <2>1, <2>3
      <3>3. b.pc \in Unasked \union {"read"} => b.step <= Len(Plans[b.kind])
        BY <1>5, <2>1, <3>1
      <3> QED
        BY <1>5, <2>1, <2>4, <3>1, <3>2, <3>3 DEF IsAudited
    <2>6. HasSeen(b)
      BY <1>2, <1>4, <1>5, <2>1 DEF HasSeen, Entitled
    <2>7. NotesWhatHolds(b)
      BY <1>1, <1>2, <1>5 DEF Sound, NotesWhatHolds
    <2> QED
      BY <1>5, <2>2, <2>5, <2>6, <2>7, OneChanges DEF Sound
  <1>6. CASE Step(r, To(r, "done"))
    <2>1. PICK b : b = To(r, "done")
      OBVIOUS
    <2>2. /\ IsRecord(b) /\ b.pc = "done" /\ b.then = req[r].then /\ b.kind = req[r].kind
          /\ b.actor = req[r].actor /\ b.role = req[r].role /\ b.step = req[r].step
          /\ b.rows = req[r].rows /\ b.read = req[r].read /\ b.seen = req[r].seen
      BY <1>2, <2>1 DEF IsRecord, To
    <2>3. Step(r, b)
      BY <1>6, <2>1
    <2> QED
      BY <1>5, <2>2, <2>3
  <1>7. ASSUME NEW last \in BOOLEAN, last <=> req[r].step = Len(Plans[req[r].kind]),
               Step(r, [req[r] EXCEPT
                          !.pc = IF last THEN "done" ELSE "ask",
                          !.step = IF last THEN @ ELSE @ + 1,
                          !.read = @ \union {req[r].step}])
        PROVE  RequestInv'
    <2>1. PICK pc : pc = IF last THEN "done" ELSE "ask"
      OBVIOUS
    <2>2. PICK step : step = IF last THEN req[r].step ELSE req[r].step + 1
      OBVIOUS
    <2>3. PICK read : read = req[r].read \union {req[r].step}
      OBVIOUS
    <2>4. PICK b : b = [req[r] EXCEPT !.pc = pc, !.step = step, !.read = read]
      OBVIOUS
    <2>5. Step(r, b)
      BY <1>7, <2>1, <2>2, <2>3, <2>4
    <2>6. /\ IsRecord(b) /\ b.pc = pc /\ b.then = req[r].then /\ b.kind = req[r].kind
          /\ b.actor = req[r].actor /\ b.role = req[r].role /\ b.step = step
          /\ b.rows = req[r].rows /\ b.read = read /\ b.seen = req[r].seen
      BY <1>2, <2>4 DEF IsRecord
    <2>7. \/ pc = "done" /\ step = req[r].step
          \/ pc = "ask" /\ step = req[r].step + 1 /\ step <= Len(Plans[req[r].kind])
      BY <1>3, <1>7, <2>1, <2>2
    <2> QED
      BY <1>5, <2>3, <2>5, <2>6, <2>7
  <1> QED
    BY <1>6, <1>7 DEF Read, Local

-----------------------------------------------------------------------------
(* The requests: what one does to the enrolment is seen by all under way.  *)

Served(q) == IsRequest(q) /\ IsAudited(q) /\ HasSeen(q)

LEMMA MovesOn ==
    ASSUME NEW q, Served(q), NEW pc \in Changing \union {"done"}, NEW b, b = [q EXCEPT !.pc = pc]
    PROVE  Served(b) /\ b.pc = pc /\ b.seen = q.seen
  <1>1. /\ IsRecord(b) /\ b.pc = pc
        /\ b.then = q.then /\ b.kind = q.kind /\ b.actor = q.actor
        /\ b.role = q.role /\ b.step = q.step
        /\ b.rows = q.rows /\ b.read = q.read /\ b.seen = q.seen
    BY DEF Served, IsRequest, IsRecord
  <1>2. pc \notin Unasked \union {"read"}
    BY DEF Changing, Unasked, Judging, Thens
  <1>3. IsRequest(b)
    BY <1>1 DEF Served, IsRequest
  <1>4. IsAudited(b)
    BY <1>1, <1>2 DEF Served, IsAudited, AllowedUpTo
  <1>5. HasSeen(b)
    BY <1>1, <1>2 DEF Served, HasSeen, Entitled, Unasked, Judging
  <1> QED
    BY <1>1, <1>3, <1>4, <1>5 DEF Served

LEMMA SeesMore ==
    ASSUME NEW q, Served(q), NEW seen \in Seen,
           seen.owner = q.seen.owner, q.seen.face => seen.face,
           q.seen.voice => seen.voice, q.seen.prints => seen.prints,
           NEW b, b = [q EXCEPT !.seen = seen]
    PROVE  Served(b) /\ b.pc = q.pc /\ b.seen = seen
  <1>1. /\ IsRecord(b) /\ b.seen = seen
        /\ b.pc = q.pc /\ b.then = q.then /\ b.kind = q.kind
        /\ b.actor = q.actor /\ b.references = q.references /\ b.role = q.role
        /\ b.step = q.step /\ b.rows = q.rows /\ b.read = q.read
    BY WithSeen DEF Served, IsRequest
  <1>2. q.seen \in Seen
    BY DEF Served, IsRequest
  <1>3. IsRequest(b)
    BY <1>1 DEF Served, IsRequest
  <1>4. IsAudited(b)
    BY <1>1 DEF Served, IsAudited, AllowedUpTo
  <1>5. IsGrounded(b.actor, b.seen)
    BY <1>1, <1>2 DEF Served, HasSeen, IsGrounded, Seen
  <1>6. Entitled(q) => Entitled(b)
    BY <1>1, <1>2 DEF Entitled, Seen
  <1>7. HasSeen(b)
    BY <1>1, <1>2, <1>5, <1>6 DEF Served, HasSeen, Seen
  <1> QED
    BY <1>1, <1>3, <1>4, <1>7 DEF Served

\* What holds after the step is noted.
LEMMA NotedSeen ==
    ASSUME NEW seen \in Seen, faceConsent' \in BOOLEAN, voiceConsent' \in BOOLEAN
    PROVE  /\ Noting(seen) \in Seen
           /\ Noting(seen).owner = seen.owner
           /\ seen.face => Noting(seen).face
           /\ seen.voice => Noting(seen).voice
           /\ seen.prints => Noting(seen).prints
           /\ faceConsent' => Noting(seen).face
           /\ voiceConsent' => Noting(seen).voice
           /\ prints' >= LeastPrints => Noting(seen).prints
  BY DEF Noting, Seen

LEMMA ChangeRequest ==
    ASSUME RequestInv, NEW r \in Requests, NEW pc \in Changing \union {"done"},
           req[r].pc \in Changing, Change(r, pc),
           faceConsent' \in BOOLEAN, voiceConsent' \in BOOLEAN
    PROVE  RequestInv'
  <1>1. role' = role /\ Noted(r, pc)
    BY DEF Change, operatorVars
  <1>2. req' = [q \in Requests |-> req'[q]]
    BY <1>1 DEF Noted
  <1>3. req[r] # New
    BY NewIsNone DEF Changing
  <1>4. ASSUME NEW q \in Requests, req[q] # New
        PROVE  \E b : /\ Served(b) /\ b.pc # "new" /\ b.seen = req[q].seen
                      /\ b.pc # "done" => req[q].pc # "done"
                      /\ req'[q] = IF b.pc = "done" THEN b
                                   ELSE [b EXCEPT !.seen = Noting(b.seen)]
    <2>1. Served(req[q])
      BY <1>4 DEF RequestInv, Sound, Served
    <2>2. PICK b : b = IF q = r THEN To(q, pc) ELSE req[q]
      OBVIOUS
    <2>3. CASE q = r
      <3>1. b = [req[q] EXCEPT !.pc = pc]
        BY <2>2, <2>3 DEF To
      <3>2. Served(b) /\ b.pc = pc /\ b.seen = req[q].seen
        BY <2>1, <3>1, MovesOn
      <3>3. pc # "new" /\ req[q].pc # "done"
        BY <2>3 DEF Changing
      <3> QED
        BY <1>1, <2>2, <3>2, <3>3 DEF Noted
    <2>4. CASE q # r
      <3>1. b.pc # "new"
        BY <2>1, <2>2, <2>4 DEF Served, IsRequest, Unasked, Judging, Thens, Changing
      <3> QED
        BY <1>1, <2>1, <2>2, <2>4, <3>1 DEF Noted
    <2> QED
      BY <2>3, <2>4
  <1>5. ASSUME NEW q \in Requests, req[q] = New PROVE req'[q] = New
    <2>1. q # r /\ req[q].pc = "new"
      BY <1>3, <1>5 DEF New
    <2> QED
      BY <1>1, <1>5, <2>1 DEF Noted
  <1>6. ASSUME NEW q \in Requests, req[q] # New
        PROVE  /\ Served(req'[q])
               /\ req'[q].pc # "done" =>
                    /\ role = "owner" => req'[q].seen.owner
                    /\ faceConsent' => req'[q].seen.face
                    /\ voiceConsent' => req'[q].seen.voice
                    /\ prints' >= LeastPrints => req'[q].seen.prints
    <2>1. PICK b : /\ Served(b) /\ b.pc # "new" /\ b.seen = req[q].seen
                   /\ b.pc # "done" => req[q].pc # "done"
                   /\ req'[q] = IF b.pc = "done" THEN b
                                ELSE [b EXCEPT !.seen = Noting(b.seen)]
      BY <1>4, <1>6
    <2>2. CASE b.pc = "done"
      BY <2>1, <2>2
    <2>3. CASE b.pc # "done"
      <3>1. PICK seen : seen = Noting(b.seen)
        OBVIOUS
      <3>2. b.seen \in Seen
        BY <2>1 DEF Served, IsRequest
      <3>3. /\ seen \in Seen
            /\ seen.owner = b.seen.owner
            /\ b.seen.face => seen.face
            /\ b.seen.voice => seen.voice
            /\ b.seen.prints => seen.prints
            /\ faceConsent' => seen.face
            /\ voiceConsent' => seen.voice
            /\ prints' >= LeastPrints => seen.prints
        BY <3>1, <3>2, NotedSeen
      <3>4. req'[q] = [b EXCEPT !.seen = seen]
        BY <2>1, <2>3, <3>1
      <3>5. Served(req'[q]) /\ req'[q].seen = seen
        <4>1. PICK now : now = [b EXCEPT !.seen = seen]
          OBVIOUS
        <4>2. Served(now) /\ now.seen = seen
          BY <2>1, <3>3, <4>1, SeesMore
        <4> QED
          BY <3>4, <4>1, <4>2
      <3>6. role = "owner" => b.seen.owner
        BY <1>6, <2>1, <2>3 DEF RequestInv, Sound, NotesWhatHolds
      <3> QED
        BY <3>3, <3>5, <3>6
    <2> QED
      BY <2>2, <2>3
  <1>7. \A q \in Requests : (req[q] # New => Sound(req[q]))'
    BY <1>1, <1>5, <1>6 DEF Sound, Served, IsRequest, IsRecord, IsAudited, AllowedUpTo, HasSeen,
                            Entitled, NotesWhatHolds
  <1> QED
    BY <1>2, <1>7 DEF RequestInv

LEMMA AdminRequest ==
    ASSUME RequestInv, NEW r \in Requests, AdminStep(r)
    PROVE  RequestInv'
  <1> USE DEF RequestInv
  <1>1. {"admin", "grant_face", "enrol_print"} \subseteq Changing
    BY DEF Changing
  <1>2. CASE EnrolFace(r)
    BY <1>1, <1>2, ChangeRequest DEF EnrolFace
  <1>3. CASE GrantFaceConsent(r)
    BY <1>1, <1>3, ChangeRequest DEF GrantFaceConsent
  <1>4. CASE RevokeFaceConsent(r)
    BY <1>1, <1>4, ChangeRequest DEF RevokeFaceConsent
  <1>5. CASE GrantVoiceConsent(r)
    BY <1>1, <1>5, ChangeRequest DEF GrantVoiceConsent
  <1>6. CASE EnrolVoiceprint(r)
    BY <1>1, <1>6, ChangeRequest DEF EnrolVoiceprint
  <1>7. CASE RevokeVoiceConsent(r)
    BY <1>1, <1>7, ChangeRequest DEF RevokeVoiceConsent
  <1>8. CASE EnrolmentRejected(r)
    <2>1. Step(r, To(r, "done")) /\ req[r].pc \in Changing
      BY <1>1, <1>8 DEF EnrolmentRejected, Local
    <2>2. Sound(req[r])
      BY <2>1, NewIsNone DEF Changing
    <2>3. PICK b : b = [req[r] EXCEPT !.pc = "done"]
      OBVIOUS
    <2>4. Served(b) /\ b.pc = "done"
      BY <2>2, <2>3, MovesOn DEF Sound, Served
    <2>5. Sound(b)
      BY <2>4 DEF Sound, Served, NotesWhatHolds
    <2> QED
      BY <2>1, <2>3, <2>5, OneChanges DEF To
  <1> QED
    BY <1>2, <1>3, <1>4, <1>5, <1>6, <1>7, <1>8 DEF AdminStep

LEMMA RestartRequest ==
    ASSUME RequestInv, Restart
    PROVE  RequestInv'
  <1>1. /\ req' = [r \in Requests |-> IF Active(r) THEN To(r, "done") ELSE req[r]]
        /\ UNCHANGED <<role, faceConsent, voiceConsent, prints>>
    BY DEF Restart, biometrics, operatorVars
  <1>2. req' = [r \in Requests |-> req'[r]]
    BY <1>1
  <1>3. ASSUME NEW r \in Requests, req'[r] # New
        PROVE  Served(req'[r]) /\ (req'[r].pc # "done" => Sound(req'[r]))
    <2>1. CASE Active(r)
      <3>1. Served(req[r])
        BY <2>1, NewIsNone DEF Active, RequestInv, Sound, Served
      <3>2. PICK b : b = [req[r] EXCEPT !.pc = "done"]
        OBVIOUS
      <3>3. Served(b) /\ b.pc = "done"
        BY <3>1, <3>2, MovesOn
      <3> QED
        BY <1>1, <2>1, <3>2, <3>3 DEF To
    <2>2. CASE ~Active(r)
      <3>1. req'[r] = req[r] /\ Sound(req[r])
        BY <1>1, <1>3, <2>2 DEF RequestInv
      <3> QED
        BY <3>1 DEF Sound, Served
    <2> QED
      BY <2>1, <2>2
  <1>4. \A r \in Requests : (req[r] # New => Sound(req[r]))'
    BY <1>1, <1>3 DEF Sound, Served, IsRequest, IsRecord, IsAudited, AllowedUpTo, HasSeen,
                      Entitled, NotesWhatHolds
  <1>5. faceConsent' \in BOOLEAN /\ voiceConsent' \in BOOLEAN
    BY <1>1 DEF RequestInv
  <1> QED
    BY <1>2, <1>4, <1>5 DEF RequestInv

LEMMA StepRequest ==
    ASSUME UnlockInv, RequestInv, NEW r \in Requests, RequestStep(r) \/ SpokenStep(r)
    PROVE  RequestInv'
  <1>1. CASE EndTurn(r)
    BY <1>1, SameRequests DEF EndTurn, vars, biometrics, operatorVars
  <1> QED
    BY <1>1, BeginRequest, MatchFaceRequest, FaceRoleRequest, FaceConsentRequest,
       MatchVoiceRequest, VoiceRoleRequest, VoiceConsentRequest, ResolveTokenRequest,
       TokenRoleRequest, AskRequest, ReadRequest, AdminRequest, HearRequest, JudgeNameRequest,
       JudgeChildRequest DEF RequestStep, SpokenStep

LEMMA RequestsKept ==
    ASSUME UnlockInv, RequestInv, [SpokenNext]_spokenVars
    PROVE  RequestInv'
  <1>1. CASE UNCHANGED spokenVars
    BY <1>1, SameRequests DEF spokenVars, vars, biometrics, operatorVars
  <1>2. CASE Tick /\ UNCHANGED <<biometrics, req, mix>>
    BY <1>2, SameRequests DEF Tick, biometrics, operatorVars
  <1>3. ASSUME NEW step, OperatorStep(step), UNCHANGED <<biometrics, req, mix>>
        PROVE  RequestInv'
    BY <1>3, OperatorTypes, SameRequests DEF biometrics
  <1>4. ASSUME NEW c, NEW scopes, UnlockStep(c, scopes), UNCHANGED <<biometrics, req, mix>>
        PROVE  RequestInv'
    BY <1>4, SameRequests DEF UnlockStep, biometrics, operatorVars
  <1>5. CASE \E r \in Requests : RequestStep(r) \/ SpokenStep(r)
    BY <1>5, StepRequest
  <1>6. CASE Restart
    BY <1>6, RestartRequest
  <1> QED
    BY <1>1, <1>2, <1>3, <1>4, <1>5, <1>6 DEF SpokenNext, Serve

LEMMA RequestsInitial ==
    ASSUME Init
    PROVE  RequestInv
  <1>1. Bounds.enrolled \in BOOLEAN
    BY BoundsAre DEF Init
  <1>2. /\ req = [r \in Requests |-> New]
        /\ faceConsent = Bounds.enrolled /\ voiceConsent = Bounds.enrolled
    BY DEF Init
  <1> QED
    BY <1>1, <1>2 DEF RequestInv

(* Every request, for every number of them: what it has audited, seen and  *)
(* noted, with the unlocking it rests on.                                  *)
THEOREM RequestInvariant == SpokenSpec => [](UnlockInv /\ RequestInv)
  <1>1. SpokenInit => UnlockInv /\ RequestInv
    BY UnlockInitial, RequestsInitial DEF SpokenInit
  <1>2. UnlockInv /\ RequestInv /\ [SpokenNext]_spokenVars => UnlockInv' /\ RequestInv'
    BY UnlockKept, RequestsKept
  <1> QED
    BY <1>1, <1>2, PTL DEF SpokenSpec

(* Whatever has been read is covered by the audit, question by question    *)
(* (ReadsAreAudited; _authorize_tool, PolicyGatedV4Reader._authorize): a   *)
(* request has the rows of every step it has left behind, of whichever     *)
(* plan, and reads only with that of the step it is at.                    *)
THEOREM EveryReadIsAudited == SpokenSpec => []ReadsAreAudited
  <1>1. RequestInv => ReadsAreAudited
    BY DEF RequestInv, Sound, IsAudited, AllowedUpTo, ReadsAreAudited
  <1> QED
    BY <1>1, RequestInvariant, PTL

(* What is read rests on facts that held while the request ran             *)
(* (RevokedSpeakerReadsNothing; FaceRequestResolver,                       *)
(* SpeakerRequestResolver, sensitive_access): an actor never rests on      *)
(* evidence that its request has not seen, and the policy answers nobody   *)
(* whose actor rests on none.                                              *)
THEOREM NothingIsReadForTheRevoked == SpokenSpec => []RevokedSpeakerReadsNothing
  <1>1. RequestInv => RevokedSpeakerReadsNothing
    BY DEF RequestInv, Sound, HasSeen, Entitled, RevokedSpeakerReadsNothing
  <1> QED
    BY <1>1, RequestInvariant, PTL

-----------------------------------------------------------------------------
(* A grant that was spent: no attempt will issue its token again.          *)

LEMMA AttemptsKeepTokens ==
    ASSUME UnlockInv, NEW c \in Callers, Attempt(c)
    PROVE  /\ calls' = calls
           /\ \A d \in Callers : call'[d] # Idle =>
                                   call[d] # Idle /\ call'[d].token = call[d].token
  <1>1. call \in [Callers -> {Idle} \union AttemptRecord]
    BY DEF UnlockInv, UnlockTypes
  <1>2. CASE Answered(c)
    BY <1>1, <1>2 DEF Answered
  <1>3. ASSUME NEW a \in AttemptRecord, NEW pc
        PROVE  [a EXCEPT !.pc = pc].token = a.token
    BY DEF AttemptRecord
  <1>4. ASSUME NEW pc, Holds(c, Inside \union {"waiting"}), Goto(c, pc)
        PROVE  calls' = calls /\ \A d \in Callers : call'[d] # Idle =>
                                   call[d] # Idle /\ call'[d].token = call[d].token
    <2>1. call[c] \in AttemptRecord
      BY <1>1, <1>4, Constants DEF Holds, Inside
    <2> QED
      BY <1>1, <1>3, <1>4, <2>1, Constants DEF Goto
  <1>5. CASE PruneAndCheckBlock(c)
    <2>1. call[c] \in AttemptRecord
      BY <1>1, <1>5, Constants DEF PruneAndCheckBlock, Holds
    <2>2. PICK a : a = [call[c] EXCEPT !.pc = "credential", !.now = clock, !.actives = {pin}]
      OBVIOUS
    <2>3. a.token = call[c].token
      BY <2>1, <2>2 DEF AttemptRecord
    <2>4. call' = [call EXCEPT ![c] = a] /\ calls' = calls
      BY <1>5, <2>2 DEF PruneAndCheckBlock
    <2> QED
      BY <1>1, <2>1, <2>3, <2>4, Constants
  <1>6. CASE ReadCredential(c)
    <2>1. call[c] \in AttemptRecord
      BY <1>1, <1>6, Constants DEF ReadCredential, Holds
    <2>2. ASSUME NEW version, call' = [call EXCEPT ![c].pc = "role", ![c].credential = version],
                 calls' = calls
          PROVE  \A d \in Callers : call'[d] # Idle =>
                                      call[d] # Idle /\ call'[d].token = call[d].token
      <3>1. PICK a : a = [call[c] EXCEPT !.pc = "role", !.credential = version]
        OBVIOUS
      <3>2. a.token = call[c].token
        BY <2>1, <3>1 DEF AttemptRecord
      <3>3. call' = [call EXCEPT ![c] = a]
        BY <2>2, <3>1
      <3> QED
        BY <1>1, <2>1, <3>2, <3>3, Constants
    <2> QED
      BY <1>2, <1>6, <2>2 DEF ReadCredential, Fail
  <1>7. CASE ReadOwnerRole(c)
    BY <1>2, <1>4, <1>7 DEF ReadOwnerRole, Fail, Holds, Inside
  <1>8. CASE Verify(c)
    BY <1>2, <1>4, <1>8 DEF Verify, Fail, Holds, Inside
  <1> QED
    BY <1>2, <1>5, <1>6, <1>7, <1>8 DEF Attempt, RateLimited, IssueForPerson, StoreFails

\* No step makes a token be issued that was not going to be.
LEMMA NothingNewComes ==
    ASSUME UnlockInv, SpokenNext, NEW t \in Tokens, Coming(t)'
    PROVE  Coming(t)
  <1>1. t \in Nat /\ calls \in Nat /\ Bounds.calls \in Nat
    BY Constants, BoundsAre DEF UnlockInv, UnlockTypes
  <1>2. ASSUME UNCHANGED <<calls, mix>>,
               \A c \in Callers : call'[c] # Idle =>
                                    call[c] # Idle /\ call'[c].token = call[c].token
        PROVE  Coming(t)
    BY <1>2 DEF Coming, Bounds
  <1>3. CASE Tick /\ UNCHANGED mix
    BY <1>2, <1>3 DEF Tick, unlockVars
  <1>4. ASSUME NEW step, OperatorStep(step), UNCHANGED mix
        PROVE  Coming(t)
    <2>1. calls' = calls
      BY <1>4, OperatorTypes
    <2>2. CASE UNCHANGED call
      BY <1>2, <1>4, <2>1, <2>2
    <2>3. CASE \E version \in Nat : BecomesActive(version)
      BY <1>2, <1>4, <2>1, <2>3, BecomingActive DEF AttemptStays
    <2> QED
      BY <1>4, <2>2, <2>3, OperatorTypes
  <1>5. ASSUME NEW c \in Callers, NEW scopes, UnlockStep(c, scopes), UNCHANGED mix,
               scopes # {} => calls < Bounds.calls
        PROVE  Coming(t)
    <2>1. CASE Attempt(c)
      BY <1>2, <1>5, <2>1, AttemptsKeepTokens
    <2>2. ASSUME NEW guess, NEW scope \in scopes, Call(c, guess, scope)
          PROVE  Coming(t)
      <3>1. PICK a : a = [pc |-> "waiting", token |-> calls + 1, guess |-> guess,
                          scope |-> scope, now |-> clock, credential |-> NoPin, actives |-> {}]
        OBVIOUS
      <3>2. call' = [call EXCEPT ![c] = a] /\ calls' = calls + 1 /\ a.token = calls + 1
        BY <2>2, <3>1 DEF Call
      <3>3. call \in [Callers -> {Idle} \union AttemptRecord]
        BY DEF UnlockInv, UnlockTypes
      <3>4. calls < Bounds.calls /\ Bounds' = Bounds
        BY <1>5, <2>2 DEF Bounds
      <3> QED
        BY <1>1, <3>2, <3>3, <3>4 DEF Coming
    <2> QED
      BY <1>5, <2>1, <2>2 DEF UnlockStep
  <1>6. CASE Beside
    BY <1>2, <1>6 DEF Beside, unlockVars
  <1>7. CASE Restart
    BY <1>2, <1>7, Constants DEF Restart
  <1>8. ASSUME NEW c \in Callers,
               UnlockStep(c, IF calls < Bounds.calls THEN Bounds.unlocks ELSE {}), UNCHANGED mix
        PROVE  Coming(t)
    <2>1. PICK scopes : scopes = IF calls < Bounds.calls THEN Bounds.unlocks ELSE {}
      OBVIOUS
    <2>2. scopes # {} => calls < Bounds.calls
      BY <2>1
    <2> QED
      BY <1>5, <1>8, <2>1, <2>2
  <1> QED
    BY <1>3, <1>4, <1>6, <1>7, <1>8, SidesOfAStep

(* What is gone and does not come again stays so.                          *)
LEMMA GoneForGood ==
    ASSUME UnlockInv, [SpokenNext]_spokenVars, NEW t \in Tokens,
           grants[t] = NoGrant, ~Coming(t)
    PROVE  grants'[t] = NoGrant /\ ~Coming(t)'
  <1>1. CASE SpokenNext
    BY <1>1, NothingNewComes, IssuedTokens DEF Coming
  <1>2. CASE UNCHANGED spokenVars
    BY <1>2 DEF spokenVars, vars, unlockVars, Coming, Bounds
  <1> QED
    BY <1>1, <1>2

Spent(q) == q # New /\ q.kind \in Spends /\ HoldsToken(q.actor)

\* What a step leaves of who has spent a grant.
SpentStays(r) == Spent(req'[r]) => Spent(req[r]) /\ req'[r].token = req[r].token

LEMMA NobodySpends ==
    ASSUME UnlockInv, SpentIsGone, [SpokenNext]_spokenVars,
           \A r \in Requests : SpentStays(r)
    PROVE  SpentIsGone'
  <1>1. \A r \in Requests : HasSpent(r)' => HasSpent(r) /\ req'[r].token = req[r].token
    BY DEF SpentStays, Spent, HasSpent
  <1>2. ASSUME NEW r \in Requests, HasSpent(r)'
        PROVE  /\ req'[r].token \in Tokens
               /\ grants'[req'[r].token] = NoGrant
               /\ ~Coming(req[r].token)'
    <2>1. HasSpent(r) /\ req'[r].token = req[r].token
      BY <1>1, <1>2
    <2>2. PICK t : t = req[r].token
      OBVIOUS
    <2>3. t \in Tokens /\ grants[t] = NoGrant /\ ~Coming(t)
      BY <2>1, <2>2 DEF SpentIsGone
    <2>4. grants'[t] = NoGrant /\ ~Coming(t)'
      BY <2>3, GoneForGood
    <2>5. ~Coming(req[r].token)'
      BY <2>1, <2>2, <2>4 DEF Coming
    <2> QED
      BY <2>1, <2>2, <2>3, <2>4, <2>5
  <1>3. \A r, s \in Requests : r # s /\ HasSpent(r)' /\ HasSpent(s)' =>
                                 req'[r].token # req'[s].token
    BY <1>1 DEF SpentIsGone
  <1> QED
    BY <1>2, <1>3 DEF SpentIsGone

\* A step of one request that leaves its kind, its token and its evidence.
LEMMA SameSpender ==
    ASSUME RequestInv, NEW r \in Requests, NEW next, Step(r, next),
           Spent(next) => Spent(req[r]) /\ next.token = req[r].token
    PROVE  \A q \in Requests : SpentStays(q)
  <1>1. req' = [req EXCEPT ![r] = next] /\ req = [q \in Requests |-> req[q]]
    BY DEF Step, RequestInv
  <1> QED
    BY <1>1 DEF SpentStays

LEMMA MovingSpendsNothing ==
    ASSUME RequestInv, NEW r \in Requests, NEW pc, Step(r, To(r, pc)),
           req[r].pc \in Unasked \union Changing \union {"read"}
    PROVE  \A q \in Requests : SpentStays(q)
  <1>1. IsRecord(req[r]) /\ req[r] # New
    BY UnderJudgement, NewIsNone DEF Unasked, Judging, Thens, Changing
  <1>2. PICK b : b = [req[r] EXCEPT !.pc = pc]
    OBVIOUS
  <1>3. b.kind = req[r].kind /\ b.actor = req[r].actor /\ b.token = req[r].token
    BY <1>1, <1>2 DEF IsRecord
  <1> QED
    BY <1>1, <1>2, <1>3, SameSpender DEF Spent, To

LEMMA StartingSpendsNothing ==
    ASSUME RequestInv, NEW r \in Requests, NEW kind, NEW frame, NEW clip, NEW token, NEW then,
           Step(r, Started(kind, frame, clip, token, then))
    PROVE  \A q \in Requests : SpentStays(q)
  <1>1. PICK b : b = Started(kind, frame, clip, token, then)
    OBVIOUS
  <1>2. b.actor = UnknownActor
    BY <1>1 DEF Started
  <1>3. ~HoldsToken(UnknownActor)
    BY DEF HoldsToken, UnknownActor, NobodyAs, Sources
  <1> QED
    BY <1>1, <1>2, <1>3, SameSpender DEF Spent

LEMMA FusionHoldsNoMore ==
    ASSUME NEW face, NEW p, NEW now,
           NEW voice, voice = NobodyAs("unknown", {VoiceEvidence(p)}),
           NEW actor, actor = FuseFaceAndVoice(face, voice, now), HoldsToken(actor)
    PROVE  HoldsToken(face)
  <1> DEFINE same  == {item \in voice.evidence : item.candidate = face.person}
             both  == face.evidence \union same
             fused == ActorFrom(both, face.person, face.role, now)
  <1>1. voice.evidence = {VoiceEvidence(p)}
    BY DEF NobodyAs
  <1>2. "local_unlock" \in Sources(both) => "local_unlock" \in Sources(face.evidence)
    <2>1. \A item \in same : item.source = "voice"
      BY <1>1 DEF VoiceEvidence
    <2> HIDE DEF same
    <2> QED
      BY <2>1 DEF Sources
  <1>3. actor = fused \/ actor = face
    BY DEF FuseFaceAndVoice, ActorFrom
  <1> HIDE DEF both
  <1>4. fused.evidence = both
    BY ResolvedFrom
  <1> HIDE DEF fused
  <1> QED
    BY <1>2, <1>3, <1>4 DEF HoldsToken

LEMMA FaceSpendsNothing ==
    ASSUME RequestInv, NEW r \in Requests, MatchFace(r) \/ FaceRole(r) \/ FaceConsent(r)
    PROVE  \A q \in Requests : SpentStays(q)
  <1>1. req[r].pc \in Unasked
    BY DEF MatchFace, FaceRole, FaceConsent, Unasked, Judging
  <1>2. IsRecord(req[r]) /\ req[r] # New
    BY <1>1, UnderJudgement, NewIsNone DEF Unasked, Judging, Thens
  <1>3. ~HoldsToken(AmbiguousActor)
    BY DEF HoldsToken, AmbiguousActor, NobodyAs, Sources
  <1>4. CASE Step(r, [req[r] EXCEPT !.pc = req[r].then, !.actor = AmbiguousActor, !.veto = TRUE])
    <2>1. PICK b : b = [req[r] EXCEPT !.pc = req[r].then, !.actor = AmbiguousActor, !.veto = TRUE]
      OBVIOUS
    <2>2. b.actor = AmbiguousActor
      BY <1>2, <2>1 DEF IsRecord
    <2> QED
      BY <1>3, <1>4, <2>1, <2>2, SameSpender DEF Spent
  <1>5. CASE Step(r, [req[r] EXCEPT !.pc = req[r].then, !.actor = AmbiguousActor])
    <2>1. PICK b : b = [req[r] EXCEPT !.pc = req[r].then, !.actor = AmbiguousActor]
      OBVIOUS
    <2>2. b.actor = AmbiguousActor
      BY <1>2, <2>1 DEF IsRecord
    <2> QED
      BY <1>3, <1>5, <2>1, <2>2, SameSpender DEF Spent
  <1>6. CASE Step(r, [req[r] EXCEPT !.pc = "face_consent", !.role = role])
    <2>1. PICK b : b = [req[r] EXCEPT !.pc = "face_consent", !.role = role]
      OBVIOUS
    <2>2. b.kind = req[r].kind /\ b.actor = req[r].actor /\ b.token = req[r].token
      BY <1>2, <2>1 DEF IsRecord
    <2> QED
      BY <1>2, <1>6, <2>1, <2>2, SameSpender DEF Spent
  <1>7. ASSUME NEW pc,
               Step(r, [req[r] EXCEPT
                          !.pc = pc,
                          !.actor = ActorFrom({FaceEvidence(Owner)}, Owner, req[r].role, clock)])
        PROVE  \A q \in Requests : SpentStays(q)
    <2>1. PICK actor : actor = ActorFrom({FaceEvidence(Owner)}, Owner, req[r].role, clock)
      OBVIOUS
    <2>2. PICK b : b = [req[r] EXCEPT !.pc = pc, !.actor = actor]
      OBVIOUS
    <2>3. b.actor = actor
      BY <1>2, <2>2 DEF IsRecord
    <2>4. actor.evidence = {FaceEvidence(Owner)}
      BY <2>1, ResolvedFrom
    <2>5. ~HoldsToken(actor)
      <3>1. Sources({FaceEvidence(Owner)}) = {"face"}
        BY OneSource
      <3> QED
        BY <2>4, <3>1 DEF HoldsToken
    <2> QED
      BY <1>7, <2>1, <2>2, <2>3, <2>5, SameSpender DEF Spent
  <1>8. ASSUME NEW pc, Step(r, To(r, pc)) PROVE \A q \in Requests : SpentStays(q)
    BY <1>1, <1>8, MovingSpendsNothing
  <1>9. CASE MatchFace(r)
    BY <1>4, <1>8, <1>9 DEF MatchFace, Local
  <1>10. CASE FaceRole(r)
    BY <1>5, <1>6, <1>8, <1>10 DEF FaceRole, Local
  <1>11. CASE FaceConsent(r)
    BY <1>7, <1>8, <1>11 DEF FaceConsent, Local, ActorFrom
  <1> QED
    BY <1>9, <1>10, <1>11

LEMMA VoiceSpendsNothing ==
    ASSUME RequestInv, NEW r \in Requests, MatchVoice(r) \/ VoiceRole(r) \/ VoiceConsent(r)
    PROVE  \A q \in Requests : SpentStays(q)
  <1>1. req[r].pc \in Unasked
    BY DEF MatchVoice, VoiceRole, VoiceConsent, Unasked, Judging
  <1>2. IsRecord(req[r]) /\ req[r] # New
    BY <1>1, UnderJudgement, NewIsNone DEF Unasked, Judging, Thens
  <1>3. CASE Step(r, [req[r] EXCEPT !.pc = "voice_role", !.references = prints])
    <2>1. PICK b : b = [req[r] EXCEPT !.pc = "voice_role", !.references = prints]
      OBVIOUS
    <2>2. b.kind = req[r].kind /\ b.actor = req[r].actor /\ b.token = req[r].token
      BY <1>2, <2>1 DEF IsRecord
    <2> QED
      BY <1>2, <1>3, <2>1, <2>2, SameSpender DEF Spent
  <1>4. CASE Step(r, To(r, req[r].then))
    BY <1>1, <1>4, MovingSpendsNothing
  <1>5. CASE VoiceRole(r)
    <2>1. PICK b : b = [req[r] EXCEPT !.pc = "voice_consent", !.role = role]
      OBVIOUS
    <2>2. b.kind = req[r].kind /\ b.actor = req[r].actor /\ b.token = req[r].token
      BY <1>2, <2>1 DEF IsRecord
    <2> QED
      BY <1>2, <1>5, <2>1, <2>2, SameSpender DEF Spent, VoiceRole, Local
  <1>6. CASE VoiceConsent(r)
    <2>1. PICK voice : voice = NobodyAs("unknown", {VoiceEvidence(Owner)})
      OBVIOUS
    <2>2. PICK fused : fused = FuseFaceAndVoice(req[r].actor, voice, clock)
      OBVIOUS
    <2>3. PICK actor : /\ actor \in {fused, req[r].actor}
                       /\ Step(r, [req[r] EXCEPT !.pc = req[r].then, !.actor = actor])
      BY <1>6, <2>1, <2>2 DEF VoiceConsent, Local
    <2>4. PICK b : b = [req[r] EXCEPT !.pc = req[r].then, !.actor = actor]
      OBVIOUS
    <2>5. b.kind = req[r].kind /\ b.actor = actor /\ b.token = req[r].token
      BY <1>2, <2>4 DEF IsRecord
    <2>6. HoldsToken(fused) => HoldsToken(req[r].actor)
      BY <2>1, <2>2, FusionHoldsNoMore
    <2>7. HoldsToken(b.actor) => HoldsToken(req[r].actor)
      BY <2>3, <2>5, <2>6
    <2> QED
      BY <1>2, <2>3, <2>4, <2>5, <2>7, SameSpender DEF Spent
  <1> QED
    BY <1>3, <1>4, <1>5, <1>6 DEF MatchVoice, Local

LEMMA AskingSpendsNothing ==
    ASSUME RequestInv, NEW r \in Requests,
           TokenRole(r) \/ Ask(r) \/ Read(r) \/ JudgeName(r) \/ EnrolmentRejected(r)
    PROVE  \A q \in Requests : SpentStays(q)
  <1>1. req[r].pc \in Unasked \union Changing \union {"read"}
    BY DEF TokenRole, Ask, Read, JudgeName, EnrolmentRejected, Unasked, Judging, Thens, Changing
  <1>2. IsRecord(req[r]) /\ req[r] # New
    BY <1>1, UnderJudgement, NewIsNone DEF Unasked, Judging, Thens, Changing
  <1>3. ASSUME NEW pc, Step(r, To(r, pc)) PROVE \A q \in Requests : SpentStays(q)
    BY <1>1, <1>3, MovingSpendsNothing
  <1>4. ASSUME NEW b, Step(r, b), b.kind = req[r].kind, b.token = req[r].token,
               HoldsToken(b.actor) => HoldsToken(req[r].actor)
        PROVE  \A q \in Requests : SpentStays(q)
    BY <1>2, <1>4, SameSpender DEF Spent
  <1>5. CASE TokenRole(r)
    <2>1. PICK evidence : evidence = req[r].actor.evidence
      OBVIOUS
    <2>2. PICK actor : actor = ActorFrom(evidence, Owner, role, clock)
      OBVIOUS
    <2>3. PICK b : b = [req[r] EXCEPT !.pc = req[r].then, !.actor = actor]
      OBVIOUS
    <2>4. Step(r, b) \/ Step(r, To(r, "done"))
      BY <1>5, <2>1, <2>2, <2>3 DEF TokenRole, Local, ActorFrom
    <2>5. b.kind = req[r].kind /\ b.actor = actor /\ b.token = req[r].token
      BY <1>2, <2>3 DEF IsRecord
    <2>6. HoldsToken(actor) => HoldsToken(req[r].actor)
      BY <2>1, <2>2, ResolvedFrom DEF HoldsToken
    <2> QED
      BY <1>3, <1>4, <2>4, <2>5, <2>6
  <1>6. ASSUME NEW pc, NEW step, NEW rows,
               Step(r, [req[r] EXCEPT !.pc = pc, !.step = step, !.rows = rows])
        PROVE  \A q \in Requests : SpentStays(q)
    <2>1. PICK b : b = [req[r] EXCEPT !.pc = pc, !.step = step, !.rows = rows]
      OBVIOUS
    <2>2. b.kind = req[r].kind /\ b.actor = req[r].actor /\ b.token = req[r].token
      BY <1>2, <2>1 DEF IsRecord
    <2> QED
      BY <1>4, <1>6, <2>1, <2>2
  <1>7. ASSUME NEW pc, NEW step, NEW read,
               Step(r, [req[r] EXCEPT !.pc = pc, !.step = step, !.read = read])
        PROVE  \A q \in Requests : SpentStays(q)
    <2>1. PICK b : b = [req[r] EXCEPT !.pc = pc, !.step = step, !.read = read]
      OBVIOUS
    <2>2. b.kind = req[r].kind /\ b.actor = req[r].actor /\ b.token = req[r].token
      BY <1>2, <2>1 DEF IsRecord
    <2> QED
      BY <1>4, <1>7, <2>1, <2>2
  <1>8. CASE Ask(r)
    BY <1>3, <1>6, <1>8 DEF Ask, Local
  <1>9. CASE Read(r)
    BY <1>3, <1>7, <1>9 DEF Read, Local
  <1>10. CASE JudgeName(r) \/ EnrolmentRejected(r)
    BY <1>3, <1>10 DEF JudgeName, EnrolmentRejected, Local
  <1> QED
    BY <1>5, <1>8, <1>9, <1>10

(* What is redirected to a kind that spends has no grant: it keeps the     *)
(* actor of a face, or of nobody, and looks at any other anew.             *)
LEMMA RedirectingSpendsNothing ==
    ASSUME RequestInv, NEW r \in Requests, JudgeChild(r)
    PROVE  \A q \in Requests : SpentStays(q)
  <1>1. req[r].pc \in Unasked
    BY DEF JudgeChild, Unasked, Thens
  <1>2. IsRecord(req[r]) /\ req[r] # New /\ IsGrounded(req[r].actor, req[r].seen)
    BY <1>1, UnderJudgement, NewIsNone DEF Unasked, Judging, Thens
  <1>3. ASSUME NEW pc, Step(r, To(r, pc)) PROVE \A q \in Requests : SpentStays(q)
    BY <1>1, <1>3, MovingSpendsNothing
  <1>4. ASSUME NEW outcome, Step(r, Redirected(r, outcome))
        PROVE  \A q \in Requests : SpentStays(q)
    <2> DEFINE anew == /\ outcome.kind \in Spends
                       /\ ~IsFaceActor(req[r].actor) /\ req[r].actor.status # "ambiguous"
               pc    == IF anew THEN "token" ELSE outcome.then
               actor == IF anew THEN UnknownActor ELSE req[r].actor
    <2>1. PICK b : b = Redirected(r, outcome)
      OBVIOUS
    <2>2. b = [req[r] EXCEPT !.kind = outcome.kind, !.then = outcome.then, !.pc = pc,
                             !.actor = actor]
      BY <1>2, <2>1 DEF Redirected
    <2>3. outcome.kind \in Spends => ~HoldsToken(actor)
      <3>1. ~HoldsToken(UnknownActor)
        BY DEF HoldsToken, UnknownActor, NobodyAs, Sources
      <3> QED
        BY <1>2, <3>1 DEF IsFaceActor, IsGrounded
    <2> HIDE DEF pc, actor
    <2>4. b.kind = outcome.kind /\ b.actor = actor
      BY <1>2, <2>2 DEF IsRecord
    <2>5. ~Spent(b)
      BY <2>3, <2>4 DEF Spent
    <2> QED
      BY <1>4, <2>1, <2>5, SameSpender
  <1> QED
    BY <1>3, <1>4 DEF JudgeChild, Local

LEMMA ChangingSpendsNothing ==
    ASSUME RequestInv, NEW r \in Requests, NEW pc, req[r].pc \in Changing, Change(r, pc)
    PROVE  \A q \in Requests : SpentStays(q)
  <1>1. ASSUME NEW q \in Requests, Spent(req'[q]) PROVE Spent(req[q]) /\ req'[q].token = req[q].token
    <2>1. PICK b : b = IF q = r THEN To(q, pc) ELSE req[q]
      OBVIOUS
    <2>2. req'[q] = IF b.pc \in {"new", "done"} THEN b ELSE [b EXCEPT !.seen = Noting(@)]
      BY <2>1 DEF Change, Noted
    <2>3. CASE req[q] = New
      <3>1. q # r /\ b = New /\ b.pc = "new"
        BY <2>1, <2>3 DEF New, Changing
      <3> QED
        BY <1>1, <2>2, <3>1 DEF Spent
    <2>4. CASE req[q] # New
      <3>1. IsRecord(req[q])
        BY <2>4 DEF RequestInv, Sound, IsRequest
      <3>2. PICK a : a = [req[q] EXCEPT !.pc = pc]
        OBVIOUS
      <3>3. /\ IsRecord(a) /\ a.kind = req[q].kind /\ a.actor = req[q].actor
            /\ a.token = req[q].token
        BY <3>1, <3>2 DEF IsRecord
      <3>4. /\ IsRecord(b) /\ b.kind = req[q].kind /\ b.actor = req[q].actor
            /\ b.token = req[q].token
        BY <2>1, <3>1, <3>2, <3>3 DEF To
      <3>5. PICK seen : seen = Noting(b.seen)
        OBVIOUS
      <3>6. PICK d : d = [b EXCEPT !.seen = seen]
        OBVIOUS
      <3>7. d.kind = b.kind /\ d.actor = b.actor /\ d.token = b.token
        BY <3>4, <3>6 DEF IsRecord
      <3>8. req'[q] \in {b, d}
        BY <2>2, <3>5, <3>6
      <3> QED
        BY <1>1, <2>4, <3>4, <3>7, <3>8 DEF Spent
    <2> QED
      BY <2>3, <2>4
  <1> QED
    BY <1>1 DEF SpentStays

LEMMA AdminSpendsNothing ==
    ASSUME RequestInv, NEW r \in Requests, AdminStep(r)
    PROVE  \A q \in Requests : SpentStays(q)
  <1>1. CASE EnrolmentRejected(r)
    BY <1>1, AskingSpendsNothing
  <1>2. CASE \E pc : req[r].pc \in Changing /\ Change(r, pc)
    BY <1>2, ChangingSpendsNothing
  <1>3. {"admin", "grant_face", "enrol_print"} \subseteq Changing
    BY DEF Changing
  <1>4. CASE EnrolFace(r) \/ GrantFaceConsent(r) \/ RevokeFaceConsent(r)
    BY <1>2, <1>3, <1>4 DEF EnrolFace, GrantFaceConsent, RevokeFaceConsent
  <1>5. CASE GrantVoiceConsent(r) \/ EnrolVoiceprint(r) \/ RevokeVoiceConsent(r)
    BY <1>2, <1>3, <1>5 DEF GrantVoiceConsent, EnrolVoiceprint, RevokeVoiceConsent
  <1> QED
    BY <1>1, <1>4, <1>5 DEF AdminStep

(* Spending a token: it is in the registry, so that no other request has   *)
(* spent it and no attempt will issue it, and it is taken out.             *)
LEMMA SpendingIsGone ==
    ASSUME UnlockInv, RequestInv, SpentIsGone, NEW r \in Requests, ResolveToken(r), SpokenNext
    PROVE  SpentIsGone'
  <1> DEFINE scope == ScopeOf(req[r].kind)
             found == IF req[r].kind \in Spends THEN ConsumedEvidence(req[r].token, scope)
                      ELSE PeekEvidence(req[r].token, scope)
             pc    == IF found = {} THEN req[r].then ELSE "token_role"
             nobody == NobodyAs("unknown", found)
  <1>1. req[r].pc \in Unasked
    BY DEF ResolveToken, Unasked, Judging
  <1>2. IsRecord(req[r]) /\ req[r] # New
    BY <1>1, UnderJudgement, NewIsNone DEF Unasked, Judging, Thens
  <1>3. /\ Step(r, [req[r] EXCEPT !.pc = pc, !.actor = nobody])
        /\ req[r].kind \in Spends => ConsumeLeaves(req[r].token, scope)
    BY DEF ResolveToken
  <1>4. nobody.evidence = found
    BY DEF NobodyAs
  <1>5. req[r].kind \in Spends /\ found # {} =>
          Fresh(req[r].token) /\ ScopeAllows(req[r].token, scope)
    BY DEF ConsumedEvidence, PeekEvidence
  <1>6. found = {} => ~HoldsToken(nobody)
    BY <1>4 DEF HoldsToken, Sources
  <1> HIDE DEF found, pc, nobody
  <1>7. PICK b : b = [req[r] EXCEPT !.pc = pc, !.actor = nobody]
    OBVIOUS
  <1>8. b.kind = req[r].kind /\ b.actor = nobody /\ b.token = req[r].token
    BY <1>2, <1>7 DEF IsRecord
  <1>9. Step(r, b)
    BY <1>3, <1>7
  <1>10. CASE Spent(b)
    <2>1. Fresh(req[r].token) /\ ScopeAllows(req[r].token, scope) /\ req[r].kind \in Spends
      BY <1>5, <1>6, <1>8, <1>10 DEF Spent
    <2>2. PICK t : t = req[r].token
      OBVIOUS
    <2>3. t \in Tokens /\ grants[t] # NoGrant
      BY <2>1, <2>2 DEF Fresh, Live
    <2>4. grants' = [grants EXCEPT ![t] = NoGrant]
      BY <1>3, <2>1, <2>2 DEF ConsumeLeaves, Fresh, Forgotten
    <2>5. grants \in [Tokens -> {NoGrant} \union GrantRecord]
      BY DEF UnlockInv, UnlockTypes
    <2>6. ~Coming(t)
      BY <2>3 DEF UnlockInv, TokensAreNew
    <2>7. ~Coming(t)'
      BY <2>3, <2>6, NothingNewComes
    <2>8. req' = [req EXCEPT ![r] = b] /\ req = [q \in Requests |-> req[q]]
      BY <1>9 DEF Step, RequestInv
    <2>9. \A q \in Requests : q # r => req'[q] = req[q]
      BY <2>8
    <2>10. req'[r].token = t
      BY <1>8, <2>2, <2>8
    <2>11. ASSUME NEW q \in Requests, q # r, HasSpent(q)'
           PROVE  /\ req'[q].token \in Tokens
                  /\ req'[q].token # t
                  /\ grants'[req'[q].token] = NoGrant
                  /\ ~Coming(req[q].token)'
      <3>1. HasSpent(q)
        BY <2>9, <2>11 DEF HasSpent
      <3>2. PICK u : u = req[q].token
        OBVIOUS
      <3>3. u \in Tokens /\ grants[u] = NoGrant /\ ~Coming(u)
        BY <3>1, <3>2 DEF SpentIsGone
      <3>4. grants'[u] = NoGrant /\ ~Coming(u)'
        BY <3>3, GoneForGood
      <3>5. req'[q].token = u /\ u # t
        BY <2>3, <2>9, <2>11, <3>2, <3>3
      <3>6. ~Coming(req[q].token)'
        BY <3>4, <3>5 DEF Coming
      <3> QED
        BY <3>3, <3>4, <3>5, <3>6
    <2>12. ~Coming(req[r].token)'
      BY <2>7, <2>10 DEF Coming
    <2>13. grants'[req'[r].token] = NoGrant /\ req'[r].token \in Tokens
      BY <2>3, <2>4, <2>5, <2>10
    <2>14. \A q \in Requests : (HasSpent(q) => /\ req[q].token \in Tokens
                                               /\ grants[req[q].token] = NoGrant
                                               /\ ~Coming(req[q].token))'
      BY <2>11, <2>12, <2>13
    <2>15. \A p, q \in Requests : (p # q /\ HasSpent(p) /\ HasSpent(q) =>
                                     req[p].token # req[q].token)'
      <3>1. \A p, q \in Requests : p # q /\ HasSpent(p)' /\ HasSpent(q)' /\ p # r /\ q # r =>
                                     req'[p].token # req'[q].token
        BY <2>9 DEF SpentIsGone, HasSpent
      <3> QED
        BY <2>10, <2>11, <3>1
    <2> QED
      BY <2>14, <2>15 DEF SpentIsGone
  <1>11. CASE ~Spent(b)
    BY <1>9, <1>11, SameSpender, NobodySpends
  <1> QED
    BY <1>10, <1>11

LEMMA StepSpends ==
    ASSUME UnlockInv, RequestInv, SpentIsGone, SpokenNext,
           NEW r \in Requests, RequestStep(r) \/ SpokenStep(r)
    PROVE  SpentIsGone'
  <1>1. CASE ResolveToken(r)
    BY <1>1, SpendingIsGone
  <1>2. CASE Begin(r)
    BY <1>2, StartingSpendsNothing, NobodySpends DEF Begin, Local
  <1>3. CASE UNCHANGED req
    BY <1>3, NobodySpends DEF SpentStays
  <1>4. CASE Hear(r)
    BY <1>3, <1>4, StartingSpendsNothing, NobodySpends DEF Hear, Local, vars
  <1>5. CASE EndTurn(r)
    BY <1>3, <1>5 DEF EndTurn, vars
  <1>6. CASE MatchFace(r) \/ FaceRole(r) \/ FaceConsent(r)
    BY <1>6, FaceSpendsNothing, NobodySpends
  <1>7. CASE MatchVoice(r) \/ VoiceRole(r) \/ VoiceConsent(r)
    BY <1>7, VoiceSpendsNothing, NobodySpends
  <1>8. CASE TokenRole(r) \/ Ask(r) \/ Read(r) \/ JudgeName(r)
    BY <1>8, AskingSpendsNothing, NobodySpends
  <1>9. CASE JudgeChild(r)
    BY <1>9, RedirectingSpendsNothing, NobodySpends
  <1>10. CASE AdminStep(r)
    BY <1>10, AdminSpendsNothing, NobodySpends
  <1> QED
    BY <1>1, <1>2, <1>4, <1>5, <1>6, <1>7, <1>8, <1>9, <1>10 DEF RequestStep, SpokenStep

LEMMA RestartingSpendsNothing ==
    ASSUME RequestInv, Restart
    PROVE  \A q \in Requests : SpentStays(q)
  <1>1. req' = [r \in Requests |-> IF Active(r) THEN To(r, "done") ELSE req[r]]
    BY DEF Restart
  <1>2. ASSUME NEW q \in Requests, Active(q)
        PROVE  /\ req[q] # New
               /\ req'[q].kind = req[q].kind /\ req'[q].actor = req[q].actor
               /\ req'[q].token = req[q].token
    <2>1. req[q] # New
      BY <1>2, NewIsNone DEF Active
    <2>2. IsRecord(req[q])
      BY <2>1 DEF RequestInv, Sound, IsRequest
    <2>3. PICK a : a = [req[q] EXCEPT !.pc = "done"]
      OBVIOUS
    <2>4. a.kind = req[q].kind /\ a.actor = req[q].actor /\ a.token = req[q].token
      BY <2>2, <2>3 DEF IsRecord
    <2>5. req'[q] = a
      BY <1>1, <1>2, <2>3 DEF To
    <2> QED
      BY <2>1, <2>4, <2>5
  <1>3. \A q \in Requests : ~Active(q) => req'[q] = req[q]
    BY <1>1
  <1> QED
    BY <1>2, <1>3 DEF SpentStays, Spent

LEMMA SpentKept ==
    ASSUME UnlockInv, RequestInv, SpentIsGone, [SpokenNext]_spokenVars
    PROVE  SpentIsGone'
  <1>1. CASE UNCHANGED req
    BY <1>1, NobodySpends DEF SpentStays
  <1>2. CASE SpokenNext /\ \E r \in Requests : RequestStep(r) \/ SpokenStep(r)
    BY <1>2, StepSpends
  <1>3. CASE Restart
    BY <1>3, RestartingSpendsNothing, NobodySpends
  <1> QED
    BY <1>1, <1>2, <1>3 DEF SpokenNext, Serve, spokenVars, vars

(* A grant serves one request (OneRequestPerGrant; consume_evidence): what *)
(* a request has spent is out of the registry and is never issued again,   *)
(* so that nobody else finds it, however requests, attempts and restarts   *)
(* interleave.                                                             *)
THEOREM GrantsServeOneRequest == SpokenSpec => []OneRequestPerGrant
  <1>1. SpokenInit => Inv
    <2>1. Init => SpentIsGone
      BY DEF Init, SpentIsGone, HasSpent
    <2> QED
      BY <2>1, UnlockInitial, RequestsInitial DEF SpokenInit, Inv
  <1>2. Inv /\ [SpokenNext]_spokenVars => Inv'
    BY UnlockKept, RequestsKept, SpentKept DEF Inv
  <1>3. Inv => OneRequestPerGrant
    BY DEF Inv, SpentIsGone, HasSpent, OneRequestPerGrant
  <1> QED
    BY <1>1, <1>2, <1>3, PTL DEF SpokenSpec

-----------------------------------------------------------------------------
(* What a message with a stored name, and nothing else that a rule takes,  *)
(* needs.  First the words: the library gathers them by a recursion over   *)
(* sets of places, and as the induction theorems are not available, both   *)
(* that there is such a function and what it gives come from a least       *)
(* counterexample.                                                         *)

Gathers(g, message, S) ==
    g = [s \in SUBSET S |->
            IF s = {} THEN <<>>
            ELSE LET x == Max(s) IN g[s \ {x}] \o message[x].words]

LEMMA GreatestIs ==
    ASSUME NEW n \in Nat, NEW s \in SUBSET (1..n), n \in s
    PROVE  Max(s) = n
  <1>1. \A y \in s : n >= y
    OBVIOUS
  <1>2. \A x \in s : (\A y \in s : x >= y) => x = n
    <2> SUFFICES ASSUME NEW x \in s, \A y \in s : x >= y PROVE x = n
      OBVIOUS
    <2>1. x >= n /\ n >= x /\ x \in Nat
      BY <1>1
    <2> QED
      BY <2>1
  <1> QED
    BY <1>1, <1>2 DEF Max

LEMMA OneMoreGathered ==
    ASSUME NEW message, NEW n \in Nat \ {0}, NEW g, Gathers(g, message, 1..n - 1)
    PROVE  \E h : Gathers(h, message, 1..n)
  <1> DEFINE h == [s \in SUBSET (1..n) |->
                     IF n \in s THEN g[s \ {n}] \o message[n].words ELSE g[s]]
  <1>1. ASSUME NEW s \in SUBSET (1..n)
        PROVE  h[s] = IF s = {} THEN <<>>
                      ELSE LET x == Max(s) IN h[s \ {x}] \o message[x].words
    <2>1. s \ {n} \in SUBSET (1..n - 1) /\ s \ {n} \in SUBSET (1..n) /\ n \notin s \ {n}
      OBVIOUS
    <2>2. CASE n \in s
      <3>1. Max(s) = n /\ s # {}
        BY <2>2, GreatestIs
      <3>2. h[s \ {n}] = g[s \ {n}]
        BY <2>1
      <3>3. h[s] = g[s \ {n}] \o message[n].words
        BY <2>2
      <3> HIDE DEF h
      <3> QED
        BY <3>1, <3>2, <3>3
    <2>3. CASE n \notin s
      <3>1. s \in SUBSET (1..n - 1)
        BY <2>1, <2>3
      <3>2. g[s] = IF s = {} THEN <<>>
                   ELSE LET x == Max(s) IN g[s \ {x}] \o message[x].words
        BY <3>1 DEF Gathers
      <3>3. h[s] = g[s]
        BY <2>3
      <3>4. PICK x : x = Max(s)
        OBVIOUS
      <3>5. s \ {x} \in SUBSET (1..n) /\ n \notin s \ {x}
        BY <2>3
      <3>6. h[s \ {x}] = g[s \ {x}]
        BY <3>5
      <3> HIDE DEF h
      <3> QED
        BY <3>2, <3>3, <3>4, <3>6
    <2> QED
      BY <2>2, <2>3
  <1>2. h = [s \in SUBSET (1..n) |-> h[s]]
    OBVIOUS
  <1> HIDE DEF h
  <1>3. Gathers(h, message, 1..n)
    BY <1>1, <1>2 DEF Gathers
  <1> QED
    BY <1>3

LEMMA SomethingGathers ==
    ASSUME NEW message, NEW n \in Nat
    PROVE  \E g : Gathers(g, message, 1..n)
  <1> DEFINE bad == {m \in Nat : ~ \E g : Gathers(g, message, 1..m)}
  <1>1. ASSUME bad # {} PROVE FALSE
    <2>1. PICK m \in bad : \A k \in bad : m <= k
      BY <1>1, LeastOf
    <2>2. CASE m = 0
      <3>1. PICK g : g = [s \in SUBSET (1..0) |-> <<>>]
        OBVIOUS
      <3>2. \A s \in SUBSET (1..0) : s = {}
        OBVIOUS
      <3>3. Gathers(g, message, 1..0)
        BY <3>1, <3>2 DEF Gathers
      <3> QED
        BY <2>1, <2>2, <3>3
    <2>3. CASE m # 0
      <3>1. m - 1 \in Nat /\ m - 1 \notin bad
        BY <2>1, <2>3
      <3>2. PICK g : Gathers(g, message, 1..m - 1)
        BY <3>1
      <3>3. \E h : Gathers(h, message, 1..m)
        BY <2>1, <2>3, <3>2, OneMoreGathered
      <3> QED
        BY <2>1, <3>3
    <2> QED
      BY <2>2, <2>3
  <1> QED
    BY <1>1

LEMMA GatheredWords ==
    ASSUME NEW message, NEW n \in Nat, NEW g, Gathers(g, message, 1..n),
           \A i \in 1..n : message[i].words \in Seq(STRING)
    PROVE  g[1..n] \in Seq(STRING)
  <1> DEFINE bad == {m \in 0..n : g[1..m] \notin Seq(STRING)}
  <1>1. ASSUME bad # {} PROVE FALSE
    <2>1. bad \subseteq Nat
      OBVIOUS
    <2>2. PICK m \in bad : \A k \in bad : m <= k
      BY <1>1, <2>1, LeastOf
    <2>3. m \in 0..n /\ g[1..m] \notin Seq(STRING)
      BY <2>2
    <2>4. m - 1 \in bad => m <= m - 1
      BY <2>2
    <2>5. m # 0 => g[1..m - 1] \in Seq(STRING)
      BY <2>3, <2>4
    <2> HIDE DEF bad
    <2>6. 1..m \in SUBSET (1..n)
      BY <2>3
    <2>7. CASE m = 0
      <3>1. 1..m = {}
        BY <2>7
      <3>2. g[1..m] = <<>>
        BY <2>6, <3>1 DEF Gathers
      <3>3. <<>> \in Seq(STRING)
        OBVIOUS
      <3> QED
        BY <2>3, <3>2, <3>3
    <2>8. CASE m # 0
      <3>9. m \in Nat /\ m >= 1 /\ m <= n
        BY <2>3, <2>8
      <3>1. m \in 1..m /\ 1..m # {} /\ m \in 1..n
        <4>1. m \in 1..m
          BY <3>9
        <4>2. m \in 1..n
          BY <3>9
        <4> QED
          BY <4>1, <4>2
      <3>2. (1..m) \ {m} = 1..m - 1
        BY <3>9
      <3>3. Max(1..m) = m
        BY <3>9, <3>1, GreatestIs
      <3>4. g[1..m] = g[1..m - 1] \o message[m].words
        BY <2>6, <3>1, <3>2, <3>3 DEF Gathers
      <3>5. message[m].words \in Seq(STRING)
        BY <3>1
      <3> QED
        BY <2>3, <2>5, <2>8, <3>4, <3>5
    <2> QED
      BY <2>7, <2>8
  <1> QED
    BY <1>1

LEMMA SentenceOf ==
    ASSUME NEW message \in Messages, NEW i \in DOMAIN message
    PROVE  message[i].words \in Seq(STRING)
  <1>1. /\ message \in Seq([words : Seq(STRING), mark : {"asks", "exclaims", "none"}])
        /\ DOMAIN message = 1..Len(message)
    BY MessagesAssumption
  <1>2. message[i] \in [words : Seq(STRING), mark : {"asks", "exclaims", "none"}]
    BY <1>1, ElementOfSeq
  <1> QED
    BY <1>2

LEMMA WordsOf ==
    ASSUME NEW message \in Messages
    PROVE  Words(message) \in Seq(STRING)
  <1>1. /\ message \in Seq([words : Seq(STRING), mark : {"asks", "exclaims", "none"}])
        /\ DOMAIN message = 1..Len(message) /\ Len(message) \in Nat
    BY MessagesAssumption
  <1>2. PICK n \in Nat : n = Len(message) /\ DOMAIN message = 1..n
    BY <1>1
  <1>3. ASSUME NEW i \in 1..n PROVE message[i].words \in Seq(STRING)
    BY <1>2, SentenceOf
  <1> DEFINE iter == CHOOSE g : Gathers(g, message, 1..n)
  <1>4. Words(message) = iter[1..n]
    BY <1>2 DEF Words, FoldLeft, MapThenFoldSet, Gathers
  <1>5. Gathers(iter, message, 1..n)
    BY SomethingGathers
  <1> HIDE DEF iter
  <1> QED
    BY <1>3, <1>4, <1>5, GatheredWords

-----------------------------------------------------------------------------
(* A piece of a sequence is made of the same words.                        *)

LEMMA GreatestOf ==
    ASSUME NEW n \in Nat, NEW s \in SUBSET (0..n), s # {}
    PROVE  Max(s) \in s
  <1> DEFINE bounds == {m \in Nat : \A x \in s : x <= m}
  <1>1. n \in bounds
    OBVIOUS
  <1>2. PICK m \in bounds : \A k \in bounds : m <= k
    BY <1>1, LeastOf
  <1>3. m \in Nat /\ \A x \in s : x <= m
    BY <1>2
  <1>4. m - 1 \in bounds => m <= m - 1
    BY <1>2
  <1>5. m \in s
    <2> SUFFICES ASSUME m \notin s PROVE FALSE
      OBVIOUS
    <2>1. \A x \in s : x \in Nat /\ x <= m - 1
      BY <1>3
    <2>2. PICK x \in s : TRUE
      OBVIOUS
    <2>3. m - 1 \in Nat
      BY <1>3, <2>1, <2>2
    <2>4. m - 1 \in bounds
      BY <2>1, <2>3
    <2> QED
      BY <1>3, <1>4, <2>4
  <1> HIDE DEF bounds
  <1>6. \A y \in s : m >= y
    BY <1>3
  <1>7. \E x \in s : \A y \in s : x >= y
    BY <1>5, <1>6
  <1> QED
    BY <1>7 DEF Max

LEMMA LeastIsIn ==
    ASSUME NEW s \in SUBSET Nat, s # {}
    PROVE  Min(s) \in s
  <1>1. PICK m \in s : \A k \in s : m <= k
    BY LeastOf
  <1>2. \E x \in s : \A y \in s : x <= y
    BY <1>1
  <1> QED
    BY <1>2 DEF Min

LEMMA Piece ==
    ASSUME NEW S, NEW words \in Seq(S), NEW first \in Nat \ {0}, NEW last \in 0..Len(words)
    PROVE  SubSeq(words, first, last) \in Seq(S)
  <1>1. Len(words) \in Nat /\ \A i \in 1..Len(words) : words[i] \in S
    OBVIOUS
  <1>2. CASE first <= last
    BY <1>1, <1>2, SubSeqProperties
  <1>3. CASE ~(first <= last)
    BY <1>1, <1>3, SubSeqProperties
  <1> QED
    BY <1>2, <1>3

LEMMA WithoutLeading ==
    ASSUME NEW S, NEW words \in Seq(S), NEW class
    PROVE  DropLeading(words, class) \in Seq(S)
  <1> DEFINE kept == {i \in DOMAIN words : words[i] \notin class}
  <1>1. CASE kept = {}
    BY <1>1 DEF DropLeading
  <1>2. CASE kept # {}
    <2>1. DOMAIN words = 1..Len(words) /\ Len(words) \in Nat
      OBVIOUS
    <2>2. kept \in SUBSET Nat /\ kept \subseteq 1..Len(words)
      BY <2>1
    <2>3. Min(kept) \in kept
      BY <1>2, <2>2, LeastIsIn
    <2>4. Min(kept) \in Nat \ {0}
      BY <2>1, <2>2, <2>3
    <2>5. DropLeading(words, class) = SubSeq(words, Min(kept), Len(words))
      BY <1>2 DEF DropLeading
    <2> HIDE DEF kept
    <2> QED
      BY <2>1, <2>4, <2>5, Piece
  <1> QED
    BY <1>1, <1>2

LEMMA WithoutTrailing ==
    ASSUME NEW S, NEW words \in Seq(S), NEW class
    PROVE  DropTrailing(words, class) \in Seq(S)
  <1> DEFINE kept == {0} \union {i \in DOMAIN words : words[i] \notin class}
  <1>1. DOMAIN words = 1..Len(words) /\ Len(words) \in Nat
    OBVIOUS
  <1>2. kept \in SUBSET (0..Len(words)) /\ kept # {}
    BY <1>1
  <1>3. DropTrailing(words, class) = SubSeq(words, 1, Max(kept))
    BY DEF DropTrailing
  <1> HIDE DEF kept
  <1>4. Max(kept) \in 0..Len(words)
    BY <1>1, <1>2, GreatestOf
  <1> QED
    BY <1>3, <1>4, Piece

-----------------------------------------------------------------------------
(* A question about a name: no word of it is a relative's, so that the     *)
(* closed sensitive grammar can only find a birthday of that name.         *)

Unrelated == STRING \ RelativeOrPet

LEMMA SpanEndsAre ==
    ASSUME NEW topic, NEW body \in Seq(Unrelated), NEW phraseEnd \in Nat
    PROVE  SpanEnds(topic, body, phraseEnd) \subseteq Nat
  BY DEF SpanEnds

LEMMA TailIsUnrelated ==
    ASSUME NEW topic, NEW phrase, NEW body \in Seq(Unrelated), Len(phrase) \in Nat,
           SpanEnds(topic, body, Len(phrase)) # {}
    PROVE  TailOf(topic, phrase, body) \in Seq(Unrelated)
  <1>1. PICK ends : ends = SpanEnds(topic, body, Len(phrase))
    OBVIOUS
  <1>2. ends \in SUBSET Nat /\ ends # {}
    BY <1>1, SpanEndsAre
  <1>3. Min(ends) \in Nat
    BY <1>2, LeastIsIn
  <1>4. SubSeq(body, Min(ends) + 1, Len(body)) \in Seq(Unrelated)
    <2>1. Len(body) \in 0..Len(body) /\ Min(ends) + 1 \in Nat \ {0}
      BY <1>3
    <2> QED
      BY <2>1, Piece
  <1> QED
    BY <1>1, <1>4, WithoutTrailing DEF TailOf

LEMMA PhrasesAreShort ==
    ASSUME NEW topic \in Topics, NEW phrase \in SensitivePhrases[topic]
    PROVE  Len(phrase) \in Nat
  BY DEF Topics, SensitivePhrases

LEMMA SpokenOfAName ==
    ASSUME NEW message \in Messages, AsksOnlyOfAName(message)
    PROVE  Words(message) \in Seq(Unrelated)
  <1>1. Words(message) \in Seq(STRING)
    BY WordsOf
  <1>2. \A i \in DOMAIN Words(message) : Words(message)[i] \notin RelativeOrPet
    BY DEF AsksOnlyOfAName, Has
  <1>3. PICK words : words = Words(message)
    OBVIOUS
  <1>4. \A i \in 1..Len(words) : words[i] \in Unrelated
    BY <1>1, <1>2, <1>3 DEF Unrelated
  <1>5. words \in Seq(Unrelated)
    <2>1. words = [i \in 1..Len(words) |-> words[i]] /\ Len(words) \in Nat
      BY <1>1, <1>3
    <2> QED
      BY <1>4, <2>1, SeqDef
  <1> QED
    BY <1>3, <1>5

LEMMA NoRelativeIsAsked ==
    ASSUME NEW message \in Messages, AsksOnlyOfAName(message)
    PROVE  ClassifySensitiveQuestion(message).keywords \intersect RelativeOrPet = {}
  <1> DEFINE body  == SensitiveBody(message)
             found == {q \in UNION {{topic} \X SensitivePhrases[topic] : topic \in Topics} :
                           Asked(q[1], q[2], message)}
  <1>1. body \in Seq(Unrelated)
    BY SpokenOfAName, WithoutLeading DEF SensitiveBody
  <1>2. CASE found = {}
    <2>1. ClassifySensitiveQuestion(message) = NoQuery
      BY <1>2 DEF ClassifySensitiveQuestion
    <2> QED
      BY <2>1 DEF NoQuery
  <1>3. CASE found # {}
    <2>1. PICK query : query = CHOOSE q \in found : TRUE
      OBVIOUS
    <2>2. query \in found
      BY <1>3, <2>1
    <2>3. /\ query[1] \in Topics /\ query[2] \in SensitivePhrases[query[1]]
          /\ Asked(query[1], query[2], message)
      BY <2>2
    <2>4. ClassifySensitiveQuestion(message).keywords = ToSet(TailOf(query[1], query[2], body))
      BY <1>3, <2>1 DEF ClassifySensitiveQuestion
    <2>5. SpanEnds(query[1], body, Len(query[2])) # {}
      BY <2>3 DEF Asked
    <2> HIDE DEF body, found
    <2>6. TailOf(query[1], query[2], body) \in Seq(Unrelated)
      BY <1>1, <2>3, <2>5, PhrasesAreShort, TailIsUnrelated
    <2>7. ToSet(TailOf(query[1], query[2], body)) \subseteq Unrelated
      BY <2>6 DEF ToSet
    <2> QED
      BY <2>4, <2>7 DEF Unrelated
  <1> QED
    BY <1>2, <1>3

-----------------------------------------------------------------------------
(* What such a message needs: conversation, or the question whether the    *)
(* speaker may know.                                                       *)

LEMMA RuleOfAName ==
    ASSUME NEW holding, holding \subseteq {"sensitive_question"}, NEW on
    PROVE  /\ ResolveInformationNeed(holding, on) \in {"generic_conversation", "sensitive_question"}
           /\ "sensitive" \notin on =>
                ResolveInformationNeed(holding, on) = "generic_conversation"
  <1> DEFINE rules == RulesFor(on)
             holds == {i \in DOMAIN rules : rules[i] \in holding}
             others == {"stated_secret", "asked_secret", "own_children_list", "own_children_count",
                        "own_child_name", "relatives", "recall", "protected_household",
                        "biometric_enrollment", "active_identity", "profile_summary",
                        "ambiguous_date", "current_date_stt", "current_date", "explicit_age",
                        "relationship", "scene_description", "memory_answer"}
             all == others \union {"sensitive_question"}
             secrets   == If("secrets" \in on, <<"stated_secret">>)
             sensitive == If("sensitive" \in on, <<"sensitive_question">>)
             asked     == If("secrets" \in on, <<"asked_secret">>)
             children  == <<"own_children_list", "own_children_count">>
             recall    == If("recall" \in on, <<"own_child_name", "relatives", "recall">>)
             last      == <<"protected_household", "biometric_enrollment", "active_identity",
                            "profile_summary", "ambiguous_date", "current_date_stt",
                            "current_date", "explicit_age", "relationship",
                            "scene_description", "memory_answer">>
  <1>1. rules = secrets \o sensitive \o asked \o children \o recall \o last
    BY DEF RulesFor
  <1>16. \A S, b, s : s \in Seq(S) => If(b, s) \in Seq(S)
    BY DEF If
  <1>2. secrets \in Seq(others) /\ asked \in Seq(others)
    <2>1. <<"stated_secret">> \in Seq(others) /\ <<"asked_secret">> \in Seq(others)
      OBVIOUS
    <2> QED
      BY <1>16, <2>1
  <1>3. recall \in Seq(others)
    <2>1. <<"own_child_name", "relatives", "recall">> \in Seq(others)
      OBVIOUS
    <2> QED
      BY <1>16, <2>1
  <1>4. children \in Seq(others)
    OBVIOUS
  <1>5. last \in Seq(others)
    OBVIOUS
  <1>6. sensitive \in Seq(all)
    <2>1. <<"sensitive_question">> \in Seq(all)
      OBVIOUS
    <2> QED
      BY <1>16, <2>1
  <1>7. "sensitive" \notin on => sensitive \in Seq(others)
    BY DEF If
  <1>8. \A s : s \in Seq(others) => s \in Seq(all)
    OBVIOUS
  <1>15. "sensitive_question" \notin others
    OBVIOUS
  <1> HIDE DEF rules, others, all, secrets, sensitive, asked, children, recall, last
  <1>9. rules \in Seq(all)
    BY <1>1, <1>2, <1>3, <1>4, <1>5, <1>6, <1>8
  <1>10. "sensitive" \notin on => rules \in Seq(others)
    BY <1>1, <1>2, <1>3, <1>4, <1>5, <1>7
  <1>11. holds \in SUBSET Nat
    BY <1>9
  <1>12. ResolveInformationNeed(holding, on) =
           IF holds = {} THEN "generic_conversation" ELSE rules[Min(holds)]
    BY DEF ResolveInformationNeed, rules
  <1>13. holds # {} => rules[Min(holds)] = "sensitive_question"
    <2>1. holds # {} => Min(holds) \in holds
      BY <1>11, LeastIsIn
    <2> QED
      BY <2>1
  <1>14. "sensitive" \notin on => holds = {}
    <2>1. rules \in Seq(others) => \A i \in DOMAIN rules : rules[i] \in others
      OBVIOUS
    <2> QED
      BY <1>10, <1>15, <2>1
  <1> QED
    BY <1>12, <1>13, <1>14

LEMMA OutcomeOfAName ==
    ASSUME NEW message \in Messages, AsksOnlyOfAName(message), NEW on, NEW outcome,
           outcome \in Outcomes(message, ResolveInformationNeed(HoldingRules(message), on), on)
    PROVE  /\ \/ outcome = Ended("generation")
              \/ outcome = Goes("household", "judge_name")
              \/ outcome = Goes("birthdays", "judge_child")
           /\ "sensitive" \notin on => outcome # Goes("birthdays", "judge_child")
  <1> DEFINE rule == ResolveInformationNeed(HoldingRules(message), on)
  <1>1. /\ rule \in {"generic_conversation", "sensitive_question"}
        /\ "sensitive" \notin on => rule = "generic_conversation"
    BY RuleOfAName DEF AsksOnlyOfAName
  <1>2. outcome \in Outcomes(message, rule, on)
    OBVIOUS
  <1> HIDE DEF rule
  <1>3. Goes("household", "judge_name") # Goes("birthdays", "judge_child")
        /\ Ended("generation") # Goes("birthdays", "judge_child")
    BY DEF Goes, Ended
  <1>4. CASE rule = "generic_conversation"
    <2>1. outcome \in {Ended("generation"), Goes("household", "judge_name")}
      BY <1>2, <1>4 DEF Outcomes, Closed, Refusals, AnsweredFromTheClock, WhoIsThere
    <2> QED
      BY <1>3, <2>1
  <1>5. CASE rule = "sensitive_question"
    <2>1. PICK query : query = ClassifySensitiveQuestion(message)
      OBVIOUS
    <2>2. outcome = SensitiveOutcome(query)
      BY <1>2, <1>5, <2>1 DEF Outcomes, Closed, Refusals, AnsweredFromTheClock, WhoIsThere
    <2>3. query.topic \in {"none", "child_birthday"} /\ query.keywords \intersect ChildWords = {}
      BY <2>1, NoRelativeIsAsked DEF AsksOnlyOfAName, RelativeOrPet, HouseholdWords
    <2>4. outcome = Goes("birthdays", "judge_child")
      BY <2>2, <2>3 DEF SensitiveOutcome, Security
    <2> QED
      BY <1>1, <1>5, <2>4
  <1> QED
    BY <1>1, <1>4, <1>5

-----------------------------------------------------------------------------
(* How a request goes on by itself: it is judged who is there, the policy  *)
(* is asked and the rows are read; every other request is left where it is.*)

Waiting(q, b) == b.pc = q.pc /\ b.then = q.then /\ b.kind = q.kind /\ b.actor = q.actor

Onward(q, b) ==
    \/ q.pc = "new" /\ b.pc \in Judging /\ b.then = "ask"
    \/ q.pc \in Changing /\ b.pc \notin Judging \union Thens
    \/ Waiting(q, b)
    \/ /\ b.kind = q.kind /\ b.then = q.then
       /\ \/ q.pc \in Judging /\ b.pc \in (Judging \ {"token_role"}) \union {q.then}
          \/ q.pc \in Judging /\ b.pc = "token_role" /\ LeftUnread(b.actor)
          \/ q.pc = "token_role" /\ b.pc = "done" /\ b.actor = q.actor
          \/ /\ q.pc \in {"ask", "read"} /\ b.actor = q.actor
             /\ b.pc \in {"ask", "read", "done"} \/ (b.pc = "admin" /\ q.kind \in Admin)

\* A step of one request leaves the others where they are.
LEMMA OneGoesOn ==
    ASSUME RequestInv, NEW r \in Requests, NEW next, Step(r, next), Onward(req[r], next)
    PROVE  \A q \in Requests : Onward(req[q], req'[q])
  <1>1. req' = [req EXCEPT ![r] = next] /\ req = [q \in Requests |-> req[q]]
    BY DEF Step, RequestInv
  <1>2. req'[r] = next /\ \A q \in Requests : q # r => req'[q] = req[q]
    BY <1>1
  <1>3. \A q \in Requests : q # r => Onward(req[q], req'[q])
    BY <1>2 DEF Onward, Waiting
  <1> QED
    BY <1>2, <1>3

LEMMA FaceGoesOn ==
    ASSUME RequestInv, NEW r \in Requests, MatchFace(r) \/ FaceRole(r) \/ FaceConsent(r)
    PROVE  \A q \in Requests : Onward(req[q], req'[q])
  <1>1. req[r].pc \in Judging /\ req[r].pc \in Unasked
    BY DEF MatchFace, FaceRole, FaceConsent, Unasked, Judging
  <1>2. IsRecord(req[r])
    BY <1>1, UnderJudgement
  <1>3. ASSUME NEW b, Step(r, b), b.kind = req[r].kind, b.then = req[r].then,
               b.pc \in {"face_role", "face_consent", "voice", "token", req[r].then}
        PROVE  \A q \in Requests : Onward(req[q], req'[q])
    BY <1>1, <1>3, OneGoesOn DEF Onward, Judging
  <1>4. ASSUME NEW pc \in {"face_role", "token"}, Step(r, To(r, pc))
        PROVE  \A q \in Requests : Onward(req[q], req'[q])
    <2>1. PICK b : b = To(r, pc)
      OBVIOUS
    <2>2. b.kind = req[r].kind /\ b.then = req[r].then /\ b.pc = pc
      BY <1>2, <2>1, AtAnotherPoint DEF To
    <2> QED
      BY <1>3, <1>4, <2>1, <2>2
  <1>5. ASSUME NEW pc \in {"voice", req[r].then}, NEW actor,
               Step(r, [req[r] EXCEPT !.pc = pc, !.actor = actor])
        PROVE  \A q \in Requests : Onward(req[q], req'[q])
    <2>1. PICK b : b = [req[r] EXCEPT !.pc = pc, !.actor = actor]
      OBVIOUS
    <2>2. b.kind = req[r].kind /\ b.then = req[r].then /\ b.pc = pc
      BY <1>2, <2>1 DEF IsRecord
    <2> QED
      BY <1>3, <1>5, <2>1, <2>2
  <1>6. CASE Step(r, [req[r] EXCEPT !.pc = req[r].then, !.actor = AmbiguousActor, !.veto = TRUE])
    <2>1. PICK b : b = [req[r] EXCEPT !.pc = req[r].then, !.actor = AmbiguousActor, !.veto = TRUE]
      OBVIOUS
    <2>2. b.kind = req[r].kind /\ b.then = req[r].then /\ b.pc = req[r].then
      BY <1>2, <2>1 DEF IsRecord
    <2> QED
      BY <1>3, <1>6, <2>1, <2>2
  <1>7. CASE Step(r, [req[r] EXCEPT !.pc = "face_consent", !.role = role])
    <2>1. PICK b : b = [req[r] EXCEPT !.pc = "face_consent", !.role = role]
      OBVIOUS
    <2>2. b.kind = req[r].kind /\ b.then = req[r].then /\ b.pc = "face_consent"
      BY <1>2, <2>1 DEF IsRecord
    <2> QED
      BY <1>3, <1>7, <2>1, <2>2
  <1>8. CASE MatchFace(r)
    BY <1>4, <1>6, <1>8 DEF MatchFace, Local
  <1>9. CASE FaceRole(r)
    BY <1>4, <1>5, <1>7, <1>9 DEF FaceRole, Local
  <1>10. CASE FaceConsent(r)
    BY <1>4, <1>5, <1>10 DEF FaceConsent, Local
  <1> QED
    BY <1>8, <1>9, <1>10

LEMMA VoiceGoesOn ==
    ASSUME RequestInv, NEW r \in Requests, MatchVoice(r) \/ VoiceRole(r) \/ VoiceConsent(r)
    PROVE  \A q \in Requests : Onward(req[q], req'[q])
  <1>1. req[r].pc \in Judging /\ req[r].pc \in Unasked
    BY DEF MatchVoice, VoiceRole, VoiceConsent, Unasked, Judging
  <1>2. IsRecord(req[r])
    BY <1>1, UnderJudgement
  <1>3. ASSUME NEW b, Step(r, b), b.kind = req[r].kind, b.then = req[r].then,
               b.pc \in {"voice_role", "voice_consent", req[r].then}
        PROVE  \A q \in Requests : Onward(req[q], req'[q])
    BY <1>1, <1>3, OneGoesOn DEF Onward, Judging
  <1>4. CASE MatchVoice(r)
    <2>1. PICK b : b = [req[r] EXCEPT !.pc = "voice_role", !.references = prints]
      OBVIOUS
    <2>2. PICK a : a = To(r, req[r].then)
      OBVIOUS
    <2>3. b.kind = req[r].kind /\ b.then = req[r].then /\ b.pc = "voice_role"
      BY <1>2, <2>1 DEF IsRecord
    <2>4. a.kind = req[r].kind /\ a.then = req[r].then /\ a.pc = req[r].then
      BY <1>2, <2>2, AtAnotherPoint DEF To
    <2>5. Step(r, a) \/ Step(r, b)
      BY <1>4, <2>1, <2>2 DEF MatchVoice, Local
    <2> QED
      BY <1>3, <2>3, <2>4, <2>5
  <1>5. CASE VoiceRole(r)
    <2>1. PICK b : b = [req[r] EXCEPT !.pc = "voice_consent", !.role = role]
      OBVIOUS
    <2>2. b.kind = req[r].kind /\ b.then = req[r].then /\ b.pc = "voice_consent"
      BY <1>2, <2>1 DEF IsRecord
    <2>3. Step(r, b)
      BY <1>5, <2>1 DEF VoiceRole, Local
    <2> QED
      BY <1>3, <2>2, <2>3
  <1>6. CASE VoiceConsent(r)
    <2>1. PICK actor : Step(r, [req[r] EXCEPT !.pc = req[r].then, !.actor = actor])
      BY <1>6 DEF VoiceConsent, Local
    <2>2. PICK b : b = [req[r] EXCEPT !.pc = req[r].then, !.actor = actor]
      OBVIOUS
    <2>3. b.kind = req[r].kind /\ b.then = req[r].then /\ b.pc = req[r].then
      BY <1>2, <2>2 DEF IsRecord
    <2> QED
      BY <1>3, <2>1, <2>2, <2>3
  <1> QED
    BY <1>4, <1>5, <1>6

(* A token that is good names nobody until the person is read.             *)
LEMMA TokenGoesOn ==
    ASSUME UnlockInv, RequestInv, NEW r \in Requests, ResolveToken(r) \/ TokenRole(r)
    PROVE  \A q \in Requests : Onward(req[q], req'[q])
  <1>1. req[r].pc \in Judging /\ req[r].pc \in Unasked
    BY DEF ResolveToken, TokenRole, Unasked, Judging
  <1>2. IsRecord(req[r])
    BY <1>1, UnderJudgement
  <1>3. CASE ResolveToken(r)
    <2> DEFINE scope == ScopeOf(req[r].kind)
               found == IF req[r].kind \in Spends THEN ConsumedEvidence(req[r].token, scope)
                        ELSE PeekEvidence(req[r].token, scope)
    <2>1. Step(r, [req[r] EXCEPT !.pc = IF found = {} THEN req[r].then ELSE "token_role",
                                 !.actor = NobodyAs("unknown", found)])
      BY <1>3 DEF ResolveToken
    <2>8. Sources(found) \subseteq {"local_unlock"}
      BY FromTheRegistry
    <2> HIDE DEF found
    <2>2. PICK actor : actor = NobodyAs("unknown", found)
      OBVIOUS
    <2>3. PICK pc : pc = IF found = {} THEN req[r].then ELSE "token_role"
      OBVIOUS
    <2>4. PICK b : b = [req[r] EXCEPT !.pc = pc, !.actor = actor]
      OBVIOUS
    <2>5. b.kind = req[r].kind /\ b.then = req[r].then /\ b.pc = pc /\ b.actor = actor
      BY <1>2, <2>4 DEF IsRecord
    <2>6. found # {} => LeftUnread(actor)
      BY <2>2, <2>8 DEF LeftUnread, NobodyAs, HoldsToken, Sources
    <2>7. Onward(req[r], b)
      BY <1>1, <2>3, <2>5, <2>6 DEF Onward
    <2> QED
      BY <2>1, <2>2, <2>3, <2>4, <2>7, OneGoesOn
  <1>4. CASE TokenRole(r)
    <2>1. PICK actor : \/ Step(r, [req[r] EXCEPT !.pc = req[r].then, !.actor = actor])
                       \/ Step(r, To(r, "done"))
      BY <1>4 DEF TokenRole, Local
    <2>2. PICK b : b = [req[r] EXCEPT !.pc = req[r].then, !.actor = actor]
      OBVIOUS
    <2>3. PICK a : a = To(r, "done")
      OBVIOUS
    <2>4. b.kind = req[r].kind /\ b.then = req[r].then /\ b.pc = req[r].then
      BY <1>2, <2>2 DEF IsRecord
    <2>5. a.kind = req[r].kind /\ a.then = req[r].then /\ a.pc = "done" /\ a.actor = req[r].actor
      BY <1>2, <2>3, AtAnotherPoint DEF To
    <2>6. Onward(req[r], b)
      BY <1>1, <2>4 DEF Onward
    <2>7. Onward(req[r], a)
      BY <1>4, <2>5 DEF Onward, TokenRole
    <2> QED
      BY <2>1, <2>2, <2>3, <2>6, <2>7, OneGoesOn
  <1> QED
    BY <1>3, <1>4

LEMMA AskingGoesOn ==
    ASSUME RequestInv, NEW r \in Requests, Ask(r) \/ Read(r)
    PROVE  \A q \in Requests : Onward(req[q], req'[q])
  <1>1. req[r].pc \in {"ask", "read"} /\ req[r].pc \in Unasked \union {"read"}
    BY DEF Ask, Read, Unasked, Thens
  <1>2. IsRecord(req[r])
    BY <1>1, UnderJudgement
  <1>3. ASSUME NEW b, Step(r, b), b.kind = req[r].kind, b.then = req[r].then,
               b.actor = req[r].actor,
               b.pc \in {"ask", "read", "done"} \/ (b.pc = "admin" /\ req[r].kind \in Admin)
        PROVE  \A q \in Requests : Onward(req[q], req'[q])
    <2>1. Onward(req[r], b)
      BY <1>1, <1>3 DEF Onward
    <2> QED
      BY <1>3, <2>1, OneGoesOn
  <1>4. CASE Step(r, To(r, "done"))
    <2>1. PICK b : b = To(r, "done")
      OBVIOUS
    <2>2. /\ b.kind = req[r].kind /\ b.then = req[r].then /\ b.actor = req[r].actor
          /\ b.pc = "done"
      BY <1>2, <2>1, AtAnotherPoint DEF To
    <2> QED
      BY <1>3, <1>4, <2>1, <2>2
  <1>5. ASSUME NEW pc, NEW step, NEW rows,
               pc \in {"ask", "read", "done"} \/ (pc = "admin" /\ req[r].kind \in Admin),
               Step(r, [req[r] EXCEPT !.pc = pc, !.step = step, !.rows = rows])
        PROVE  \A q \in Requests : Onward(req[q], req'[q])
    <2>1. PICK b : b = [req[r] EXCEPT !.pc = pc, !.step = step, !.rows = rows]
      OBVIOUS
    <2>2. /\ b.kind = req[r].kind /\ b.then = req[r].then /\ b.actor = req[r].actor
          /\ b.pc = pc
      BY <1>2, <2>1 DEF IsRecord
    <2> QED
      BY <1>3, <1>5, <2>1, <2>2
  <1>6. CASE Ask(r)
    <2>1. \A question : AfterAllowed(r, question) \in {"ask", "read", "done"}
                        \/ (AfterAllowed(r, question) = "admin" /\ req[r].kind \in Admin)
      BY DEF AfterAllowed
    <2> QED
      BY <1>4, <1>5, <1>6, <2>1 DEF Ask, Local
  <1>7. ASSUME NEW pc \in {"ask", "done"}, NEW step, NEW read,
               Step(r, [req[r] EXCEPT !.pc = pc, !.step = step, !.read = read])
        PROVE  \A q \in Requests : Onward(req[q], req'[q])
    <2>1. PICK b : b = [req[r] EXCEPT !.pc = pc, !.step = step, !.read = read]
      OBVIOUS
    <2>2. /\ b.kind = req[r].kind /\ b.then = req[r].then /\ b.actor = req[r].actor
          /\ b.pc = pc
      BY <1>2, <2>1 DEF IsRecord
    <2> QED
      BY <1>3, <1>7, <2>1, <2>2
  <1>8. CASE Read(r)
    BY <1>4, <1>7, <1>8 DEF Read, Local
  <1> QED
    BY <1>6, <1>8

\* A step of the administration moves its own request alone.
LEMMA ChangeMoves ==
    ASSUME RequestInv, NEW r \in Requests, NEW pc,
           req[r].pc \in Changing, Change(r, pc)
    PROVE  /\ \A q \in Requests : q # r => Waiting(req[q], req'[q])
           /\ req'[r].pc = pc
  <1>1. ASSUME NEW q \in Requests, q # r, req[q].pc \notin {"new", "done"}
        PROVE  Waiting(req[q], req'[q])
    <2>1. IsRecord(req[q])
      BY <1>1, NewIsNone DEF RequestInv, Sound, IsRequest
    <2>2. PICK seen : seen = Noting(req[q].seen)
      OBVIOUS
    <2>3. PICK b : b = [req[q] EXCEPT !.seen = seen]
      OBVIOUS
    <2>4. b.pc = req[q].pc /\ b.then = req[q].then /\ b.kind = req[q].kind /\ b.actor = req[q].actor
      BY <2>1, <2>3, WithSeen
    <2>5. req'[q] = b
      BY <1>1, <2>2, <2>3 DEF Change, Noted
    <2> QED
      BY <2>4, <2>5 DEF Waiting
  <1>2. ASSUME NEW q \in Requests, q # r, req[q].pc \in {"new", "done"}
        PROVE  Waiting(req[q], req'[q])
    BY <1>2 DEF Change, Noted, Waiting
  <1>3. req'[r].pc = pc
    <2>1. IsRecord(req[r])
      BY NewIsNone DEF RequestInv, Sound, IsRequest, Changing
    <2>2. PICK b : b = To(r, pc)
      OBVIOUS
    <2>3. IsRecord(b) /\ b.pc = pc
      BY <2>1, <2>2, AtAnotherPoint DEF To
    <2>4. PICK seen : seen = Noting(b.seen)
      OBVIOUS
    <2>5. PICK c : c = [b EXCEPT !.seen = seen]
      OBVIOUS
    <2>6. c.pc = pc
      BY <2>3, <2>5, WithSeen
    <2>7. req'[r] \in {b, c}
      BY <2>2, <2>4, <2>5 DEF Change, Noted
    <2> QED
      BY <2>3, <2>6, <2>7
  <1> QED
    BY <1>1, <1>2, <1>3

LEMMA ChangingGoesOn ==
    ASSUME RequestInv, NEW r \in Requests, NEW pc \in Changing \union {"done"},
           req[r].pc \in Changing, Change(r, pc)
    PROVE  \A q \in Requests : Onward(req[q], req'[q])
  <1>1. pc \notin Judging \union Thens
    BY DEF Changing, Judging, Thens
  <1> QED
    BY <1>1, ChangeMoves DEF Onward

LEMMA AdminGoesOn ==
    ASSUME RequestInv, NEW r \in Requests, AdminStep(r)
    PROVE  \A q \in Requests : Onward(req[q], req'[q])
  <1>1. {"admin", "grant_face", "enrol_print"} \subseteq Changing
    BY DEF Changing
  <1>2. CASE EnrolmentRejected(r)
    <2>2. IsRecord(req[r]) /\ req[r].pc \in Changing
      BY <1>1, <1>2, NewIsNone DEF EnrolmentRejected, RequestInv, Sound, IsRequest
    <2>1. Onward(req[r], To(r, "done"))
      <3>1. PICK b : b = To(r, "done")
        OBVIOUS
      <3>2. b.pc = "done"
        BY <2>2, <3>1, AtAnotherPoint DEF To
      <3> QED
        BY <2>2, <3>1, <3>2 DEF Onward, Judging, Thens
    <2> QED
      BY <1>2, <2>1, OneGoesOn DEF EnrolmentRejected, Local
  <1>3. CASE EnrolFace(r) \/ GrantFaceConsent(r) \/ RevokeFaceConsent(r)
    BY <1>1, <1>3, ChangingGoesOn DEF EnrolFace, GrantFaceConsent, RevokeFaceConsent
  <1>4. CASE GrantVoiceConsent(r) \/ EnrolVoiceprint(r) \/ RevokeVoiceConsent(r)
    BY <1>1, <1>4, ChangingGoesOn DEF GrantVoiceConsent, EnrolVoiceprint, RevokeVoiceConsent
  <1> QED
    BY <1>2, <1>3, <1>4 DEF AdminStep

LEMMA RequestGoesOn ==
    ASSUME UnlockInv, RequestInv, NEW r \in Requests, RequestStep(r)
    PROVE  \A q \in Requests : Onward(req[q], req'[q])
  <1>1. CASE Begin(r)
    <2>1. PICK kind, frame, clip, token : Step(r, Started(kind, frame, clip, token, "ask"))
      BY <1>1 DEF Begin, Local
    <2>2. PICK next : next = Started(kind, frame, clip, token, "ask")
      OBVIOUS
    <2>3. next.pc \in {"face", "token"} /\ next.then = "ask"
      BY <2>2 DEF Started
    <2>4. Onward(req[r], next)
      BY <1>1, <2>3 DEF Begin, Onward, Judging
    <2> QED
      BY <2>1, <2>2, <2>4, OneGoesOn
  <1> QED
    BY <1>1, FaceGoesOn, VoiceGoesOn, TokenGoesOn, AskingGoesOn, AdminGoesOn DEF RequestStep

-----------------------------------------------------------------------------
(* A message with a stored name: it is judged whether the speaker may know *)
(* before anything is asked, and who may not gets conversation.            *)

Cleared(actor) == MayReadTheHousehold(actor) \/ LeftUnread(actor)

\* Its message may still be resolved, or answered as conversation.
Questioned(q) ==
    \/ q.pc \in {"judge_name", "judge_child"}
    \/ q.pc \in Judging /\ q.then \in {"judge_name", "judge_child"}

OnItsWay(q, said) ==
    /\ q.kind \notin Admin
    /\ q.pc \in Judging \union Thens \union {"read", "done"}
    /\ q.pc \in Judging => q.then \in {"judge_name", "judge_child"}
    /\ q.pc = "token_role" => LeftUnread(q.actor)
    /\ q.pc \in {"ask", "read", "done"} => Cleared(q.actor)
    /\ q.pc = "judge_child" \/ (q.pc \in Judging /\ q.then = "judge_child") =>
         said \in Messages /\ AsksOnlyOfAName(said)

NameKept(q, heard) ==
    /\ Questioned(q) => heard.reply = "pending"
    /\ heard.name =>
         /\ heard.reply = "pending" => OnItsWay(q, heard.said)
         /\ heard.reply = "closed" => q.pc = "done" /\ Cleared(q.actor)

IsTurn(heard) ==
    heard = [said |-> heard.said, on |-> heard.on, weak |-> heard.weak,
             family |-> heard.family, name |-> heard.name, reply |-> heard.reply]

TurnsAre == turn = [r \in Requests |-> turn[r]] /\ \A r \in Requests : IsTurn(turn[r])

NameInv == TurnsAre /\ \A r \in Requests : NameKept(req[r], turn[r])

LEMMA OnwardOnItsWay ==
    ASSUME NEW q, NEW b, NEW said, OnItsWay(q, said), Onward(q, b)
    PROVE  OnItsWay(b, said)
  <1>1. q.pc \notin Changing \union {"new"}
    BY DEF OnItsWay, Changing, Judging, Thens
  <1>2. CASE Waiting(q, b)
    BY <1>2 DEF OnItsWay, Waiting
  <1>3. CASE q.pc \in Judging /\ b.kind = q.kind /\ b.then = q.then
             /\ b.pc \in (Judging \ {"token_role"}) \union {q.then}
    BY <1>3 DEF OnItsWay, Judging, Thens
  <1>4. CASE q.pc \in Judging /\ b.kind = q.kind /\ b.then = q.then
             /\ b.pc = "token_role" /\ LeftUnread(b.actor)
    BY <1>4 DEF OnItsWay, Judging, Thens
  <1>5. CASE q.pc = "token_role" /\ b.kind = q.kind /\ b.pc = "done" /\ b.actor = q.actor
    BY <1>5 DEF OnItsWay, Judging, Thens, Cleared
  <1>6. CASE q.pc \in {"ask", "read"} /\ b.kind = q.kind /\ b.actor = q.actor
             /\ b.pc \in {"ask", "read", "done"}
    BY <1>6 DEF OnItsWay, Judging, Thens
  <1>7. q.kind \notin Admin
    BY DEF OnItsWay
  <1> QED
    BY <1>1, <1>2, <1>3, <1>4, <1>5, <1>6, <1>7 DEF Onward

LEMMA OnwardQuestioned ==
    ASSUME NEW q, NEW b, Onward(q, b), Questioned(b)
    PROVE  Questioned(q)
  BY DEF Onward, Waiting, Questioned, Judging, Thens

LEMMA OnwardNameKept ==
    ASSUME NEW q, NEW b, NEW heard, NameKept(q, heard), Onward(q, b)
    PROVE  NameKept(b, heard)
  <1>1. CASE q.pc = "done"
    <2>1. Waiting(q, b)
      BY <1>1 DEF Onward, Changing, Judging
    <2> QED
      BY <2>1, OnwardOnItsWay, OnwardQuestioned DEF NameKept, Waiting
  <1>2. CASE q.pc # "done"
    BY <1>2, OnwardOnItsWay, OnwardQuestioned DEF NameKept
  <1> QED
    BY <1>1, <1>2

LEMMA RequestKeepsNames ==
    ASSUME UnlockInv, RequestInv, NameInv, NEW r \in Requests, RequestStep(r), UNCHANGED turn
    PROVE  NameInv'
  <1>1. \A q \in Requests : NameKept(req'[q], turn[q])
    BY RequestGoesOn, OnwardNameKept DEF NameInv
  <1> QED
    BY <1>1 DEF NameInv, TurnsAre, NameKept, IsTurn

\* A step of the controller about one message.
LEMMA OneIsTold ==
    ASSUME NameInv, NEW r \in Requests, NEW heard, turn' = [turn EXCEPT ![r] = heard],
           \A q \in Requests \ {r} : req'[q] = req[q],
           IsTurn(heard), NameKept(req'[r], heard)
    PROVE  NameInv'
  <1>1. turn'[r] = heard /\ \A q \in Requests \ {r} : turn'[q] = turn[q]
    BY DEF NameInv, TurnsAre
  <1>2. turn' = [q \in Requests |-> turn'[q]]
    BY DEF NameInv, TurnsAre
  <1>3. \A q \in Requests : IsTurn(turn'[q]) /\ NameKept(req'[q], turn'[q])
    BY <1>1 DEF NameInv, TurnsAre
  <1> QED
    BY <1>2, <1>3 DEF NameInv, TurnsAre, IsTurn, NameKept

\* What a turn remembers of the message it goes on with.
LEMMA ResolvedTurn ==
    ASSUME NEW heard, IsTurn(heard), NEW message, NEW on, NEW rule, NEW outcome, NEW next,
           next = Resolved(heard, message, on, rule, outcome)
    PROVE  /\ IsTurn(next)
           /\ next.name = heard.name /\ next.family = heard.family
           /\ next.reply = outcome.reply
           /\ outcome.then = "judge_child" => next.said = message
           /\ next.weak = (rule = "recall" /\ ClassifyRecallCue(message) = "weak")
  <1>1. PICK said : said = IF outcome.then = "judge_child" THEN message ELSE Nothing
    OBVIOUS
  <1>2. PICK left : left = IF outcome.then = "judge_child" THEN on ELSE {}
    OBVIOUS
  <1>3. PICK weak : weak = (rule = "recall" /\ ClassifyRecallCue(message) = "weak")
    OBVIOUS
  <1>4. PICK reply : reply = outcome.reply
    OBVIOUS
  <1>5. next = [heard EXCEPT !.said = said, !.on = left, !.weak = weak, !.reply = reply]
    BY <1>1, <1>2, <1>3, <1>4 DEF Resolved
  <1>6. /\ IsTurn(next) /\ next.name = heard.name /\ next.family = heard.family
        /\ next.reply = reply /\ next.said = said /\ next.weak = weak
    BY <1>5 DEF IsTurn
  <1> QED
    BY <1>1, <1>3, <1>4, <1>6

LEMMA HeardTurn ==
    ASSUME NEW message
    PROVE  /\ IsTurn(Heard(message)) /\ IsTurn(Silent)
           /\ ~Silent.name /\ ~Silent.family /\ Silent.reply = "none"
           /\ Heard(message).name = AsksOnlyOfAName(message)
           /\ Heard(message).family =
                (~IsAnswer(message) /\ \E i \in DOMAIN message : AsksAboutTheFamily(message[i]))
           /\ Heard(message).reply = "none"
  <1>1. IsTurn(Silent) /\ Silent.name = FALSE /\ Silent.family = FALSE /\ Silent.reply = "none"
    BY DEF Silent, IsTurn
  <1>2. PICK name : name = AsksOnlyOfAName(message)
    OBVIOUS
  <1>3. PICK family : family = (/\ ~IsAnswer(message)
                                /\ \E i \in DOMAIN message : AsksAboutTheFamily(message[i]))
    OBVIOUS
  <1>4. PICK heard : heard = [Silent EXCEPT !.family = family, !.name = name]
    OBVIOUS
  <1>5. IsTurn(heard) /\ heard.name = name /\ heard.family = family /\ heard.reply = "none"
    BY <1>4 DEF Silent, IsTurn
  <1>6. Heard(message) = heard
    BY <1>2, <1>3, <1>4 DEF Heard
  <1> QED
    BY <1>1, <1>2, <1>3, <1>5, <1>6

LEMMA OutcomeFields ==
    /\ \A reply : Ended(reply).reply = reply /\ Ended(reply).then = "none"
    /\ \A kind, then : /\ Goes(kind, then).reply = "pending" /\ Goes(kind, then).kind = kind
                       /\ Goes(kind, then).then = then
  BY DEF Ended, Goes

LEMMA OthersStay ==
    ASSUME RequestInv, NEW r \in Requests, NEW next, Step(r, next)
    PROVE  req'[r] = next /\ \A q \in Requests \ {r} : req'[q] = req[q]
  BY DEF Step, RequestInv

LEMMA HearKeepsNames ==
    ASSUME RequestInv, NameInv, NEW r \in Requests, Hear(r)
    PROVE  NameInv'
  <1>1. PICK message \in Messages, settings \in Bounds.switches[r] :
          \E outcome \in Outcomes(message, ResolveInformationNeed(HoldingRules(message), Wired(settings)),
                                  Wired(settings)) :
            /\ turn' = [turn EXCEPT ![r] =
                          Resolved(Heard(message), message, Wired(settings),
                                   ResolveInformationNeed(HoldingRules(message), Wired(settings)),
                                   outcome)]
            /\ IF outcome.reply = "pending"
               THEN \E frame \in Bounds.frames, clip \in Bounds.clips, token \in Bounds.tokens[r] :
                      Local(r, Started(outcome.kind, frame, clip, token, outcome.then))
               ELSE UNCHANGED vars
    BY DEF Hear
  <1>2. PICK on : on = Wired(settings)
    OBVIOUS
  <1>3. PICK rule : rule = ResolveInformationNeed(HoldingRules(message), on)
    OBVIOUS
  <1>4. PICK outcome \in Outcomes(message, rule, on) :
            /\ turn' = [turn EXCEPT ![r] = Resolved(Heard(message), message, on, rule, outcome)]
            /\ IF outcome.reply = "pending"
               THEN \E frame, clip, token :
                      Step(r, Started(outcome.kind, frame, clip, token, outcome.then))
               ELSE UNCHANGED vars
    BY <1>1, <1>2, <1>3 DEF Local
  <1>5. PICK heard : heard = Resolved(Heard(message), message, on, rule, outcome)
    OBVIOUS
  <1>6. /\ IsTurn(heard) /\ heard.name = AsksOnlyOfAName(message)
        /\ heard.reply = outcome.reply
        /\ outcome.then = "judge_child" => heard.said = message
    BY <1>5, HeardTurn, ResolvedTurn
  <1>7. AsksOnlyOfAName(message) =>
          \/ outcome = Ended("generation")
          \/ outcome = Goes("household", "judge_name")
          \/ outcome = Goes("birthdays", "judge_child")
    BY <1>3, <1>4, OutcomeOfAName
  <1>8. \A q \in Requests \ {r} : req'[q] = req[q]
    BY <1>4, OthersStay DEF vars
  <1>11. outcome.reply # "pending" => ~Questioned(req'[r])
    <2>1. ~Questioned(New)
      BY DEF Questioned, New, Judging
    <2> QED
      BY <1>4, <2>1 DEF vars, Hear
  <1>9. ASSUME heard.name PROVE NameKept(req'[r], heard)
    <2>1. CASE outcome = Ended("generation")
      BY <1>6, <1>11, <2>1, OutcomeFields DEF NameKept
    <2>2. CASE \E kind \in {"household", "birthdays"}, then \in {"judge_name", "judge_child"} :
                 outcome = Goes(kind, then)
      <3>1. PICK kind \in {"household", "birthdays"}, then \in {"judge_name", "judge_child"} :
              outcome = Goes(kind, then)
        BY <2>2
      <3>2. outcome.reply = "pending" /\ outcome.kind = kind /\ outcome.then = then
        BY <3>1, OutcomeFields
      <3>3. PICK frame, clip, token : Step(r, Started(kind, frame, clip, token, then))
        BY <1>4, <3>2
      <3>4. PICK b : b = Started(kind, frame, clip, token, then)
        OBVIOUS
      <3>5. b.pc \in {"face", "token"} /\ b.kind = kind /\ b.then = then
        BY <3>4 DEF Started
      <3>6. req'[r] = b
        BY <3>3, <3>4, OthersStay
      <3>7. OnItsWay(b, heard.said)
        BY <1>6, <1>9, <3>2, <3>5 DEF OnItsWay, Judging, Admin, Thens
      <3> QED
        BY <1>6, <3>2, <3>6, <3>7 DEF NameKept
    <2> QED
      BY <1>6, <1>7, <1>9, <2>1, <2>2
  <1>10. NameKept(req'[r], heard)
    BY <1>6, <1>9, <1>11 DEF NameKept
  <1> QED
    BY <1>4, <1>5, <1>6, <1>8, <1>10, OneIsTold

\* What ends is not questioned any more.
LEMMA NobodyAsksDone ==
    ASSUME NEW r \in Requests, IsRecord(req[r])
    PROVE  To(r, "done").pc = "done" /\ ~Questioned(To(r, "done"))
  <1>1. PICK b : b = To(r, "done")
    OBVIOUS
  <1>2. b.pc = "done"
    BY <1>1, AtAnotherPoint DEF To
  <1> QED
    BY <1>1, <1>2 DEF Questioned, Judging

\* A message whose reply changes, and what else does not.
LEMMA Replied ==
    ASSUME TurnsAre, NEW r \in Requests, NEW reply, SetReply(r, reply)
    PROVE  \E heard : /\ turn' = [turn EXCEPT ![r] = heard]
                      /\ IsTurn(heard) /\ heard.name = turn[r].name
                      /\ heard.family = turn[r].family /\ heard.reply = reply
                      /\ heard.weak = turn[r].weak /\ heard.said = turn[r].said
  <1>1. PICK heard : heard = [turn[r] EXCEPT !.reply = reply]
    OBVIOUS
  <1>2. /\ IsTurn(heard) /\ heard.name = turn[r].name /\ heard.reply = reply
        /\ heard.family = turn[r].family /\ heard.weak = turn[r].weak
        /\ heard.said = turn[r].said
    BY <1>1 DEF TurnsAre, IsTurn
  <1>3. turn' = [turn EXCEPT ![r] = heard]
    BY <1>1 DEF SetReply
  <1> QED
    BY <1>2, <1>3

LEMMA JudgeNameKeepsNames ==
    ASSUME RequestInv, NameInv, NEW r \in Requests, JudgeName(r)
    PROVE  NameInv'
  <1>1. req[r].pc = "judge_name" /\ req[r].pc \in Unasked
    BY DEF JudgeName, Unasked, Thens
  <1>2. IsRecord(req[r])
    BY <1>1, UnderJudgement
  <1>3. CASE MayReadTheHousehold(req[r].actor) /\ Step(r, To(r, "ask")) /\ UNCHANGED turn
    <2>1. PICK b : b = To(r, "ask")
      OBVIOUS
    <2>2. b.kind = req[r].kind /\ b.actor = req[r].actor /\ b.pc = "ask"
      BY <1>2, <2>1, AtAnotherPoint DEF To
    <2>3. req'[r] = b /\ \A q \in Requests \ {r} : req'[q] = req[q]
      BY <1>3, <2>1, OthersStay
    <2>4. NameKept(req[r], turn[r]) => NameKept(b, turn[r])
      BY <1>1, <1>3, <2>2 DEF NameKept, OnItsWay, Judging, Thens, Cleared, Questioned
    <2>5. \A q \in Requests : NameKept(req'[q], turn[q])
      BY <2>3, <2>4 DEF NameInv
    <2> QED
      BY <1>3, <2>5 DEF NameInv, TurnsAre, NameKept, IsTurn
  <1>4. CASE Step(r, To(r, "done")) /\ SetReply(r, "generation")
    <2>1. PICK heard : /\ turn' = [turn EXCEPT ![r] = heard]
                       /\ IsTurn(heard) /\ heard.reply = "generation"
      BY <1>4, Replied DEF NameInv
    <2>2. req'[r] = To(r, "done") /\ \A q \in Requests \ {r} : req'[q] = req[q]
      BY <1>4, OthersStay
    <2>3. NameKept(req'[r], heard)
      BY <1>2, <2>1, <2>2, NobodyAsksDone DEF NameKept
    <2> QED
      BY <2>1, <2>2, <2>3, OneIsTold
  <1> QED
    BY <1>3, <1>4 DEF JudgeName, Local

(* A birthday of somebody who is no relative: the owner's, or resolved     *)
(* again as if the sensitive reader were not wired.                        *)
LEMMA JudgeChildKeepsNames ==
    ASSUME RequestInv, NameInv, NEW r \in Requests, JudgeChild(r)
    PROVE  NameInv'
  <1>1. req[r].pc = "judge_child" /\ req[r].pc \in Unasked
    BY DEF JudgeChild, Unasked, Thens
  <1>2. IsRecord(req[r])
    BY <1>1, UnderJudgement
  <1>3. /\ turn[r].reply = "pending"
        /\ turn[r].name => turn[r].said \in Messages /\ AsksOnlyOfAName(turn[r].said)
    BY <1>1 DEF NameInv, NameKept, OnItsWay, Questioned
  <1>4. IsTurn(turn[r])
    BY DEF NameInv, TurnsAre
  <1>5. CASE OwnerAlone(r) /\ Step(r, To(r, "ask")) /\ UNCHANGED turn
    <2>1. PICK b : b = To(r, "ask")
      OBVIOUS
    <2>2. b.kind = req[r].kind /\ b.actor = req[r].actor /\ b.pc = "ask"
      BY <1>2, <2>1, AtAnotherPoint DEF To
    <2>3. req'[r] = b /\ \A q \in Requests \ {r} : req'[q] = req[q]
      BY <1>5, <2>1, OthersStay
    <2>4. MayReadTheHousehold(req[r].actor)
      BY <1>5 DEF OwnerAlone, MayReadOwnMemory, IsFaceActor, Identified, MayReadTheHousehold
    <2>5. NameKept(req[r], turn[r]) => NameKept(b, turn[r])
      BY <1>1, <2>2, <2>4 DEF NameKept, OnItsWay, Judging, Thens, Cleared, Questioned
    <2>6. \A q \in Requests : NameKept(req'[q], turn[q])
      BY <2>3, <2>5 DEF NameInv
    <2> QED
      BY <1>5, <2>6 DEF NameInv, TurnsAre, NameKept, IsTurn
  <1>6. CASE /\ ClassifySensitiveQuestion(turn[r].said).keywords \intersect RelationWords # {}
             /\ Step(r, To(r, "done")) /\ SetReply(r, "closed")
    <2>1. PICK heard : /\ turn' = [turn EXCEPT ![r] = heard]
                       /\ IsTurn(heard) /\ heard.reply = "closed" /\ heard.name = turn[r].name
      BY <1>6, Replied DEF NameInv
    <2>2. req'[r] = To(r, "done") /\ \A q \in Requests \ {r} : req'[q] = req[q]
      BY <1>6, OthersStay
    <2>3. ~turn[r].name
      <3>1. RelationWords \subseteq RelativeOrPet
        BY DEF RelationWords, RelativeOrPet, HouseholdWords, HouseholdWordsNeedingPossessive,
               PetWords
      <3> QED
        BY <1>3, <1>6, <3>1, NoRelativeIsAsked
    <2>4. NameKept(req'[r], heard)
      BY <1>2, <2>1, <2>2, <2>3, NobodyAsksDone DEF NameKept
    <2> QED
      BY <2>1, <2>2, <2>4, OneIsTold
  <1>7. PICK said : said = turn[r].said
    OBVIOUS
  <1>8. PICK on : on = turn[r].on \ {"sensitive"}
    OBVIOUS
  <1>9. PICK rule : rule = ResolveInformationNeed(HoldingRules(said), on)
    OBVIOUS
  <1>10. ASSUME NEW outcome \in Outcomes(said, rule, on),
                turn' = [turn EXCEPT ![r] = Resolved(turn[r], said, on, rule, outcome)],
                Step(r, IF outcome.reply = "pending" THEN Redirected(r, outcome) ELSE To(r, "done"))
         PROVE  NameInv'
    <2>1. PICK heard : heard = Resolved(turn[r], said, on, rule, outcome)
      OBVIOUS
    <2>2. IsTurn(heard) /\ heard.name = turn[r].name /\ heard.reply = outcome.reply
      BY <1>4, <2>1, ResolvedTurn
    <2>3. \A q \in Requests \ {r} : req'[q] = req[q]
      BY <1>10, OthersStay
    <2>4. turn[r].name =>
            outcome = Ended("generation") \/ outcome = Goes("household", "judge_name")
      BY <1>3, <1>7, <1>8, <1>9, <1>10, OutcomeOfAName
    <2>5. CASE outcome.reply # "pending"
      <3>1. req'[r] = To(r, "done")
        BY <1>10, <2>5, OthersStay
      <3>2. heard.name => heard.reply = "generation"
        BY <2>2, <2>4, <2>5, OutcomeFields
      <3>3. NameKept(req'[r], heard)
        BY <1>2, <2>2, <3>1, <3>2, NobodyAsksDone DEF NameKept
      <3> QED
        BY <1>10, <2>1, <2>2, <2>3, <3>3, OneIsTold
    <2>6. CASE outcome.reply = "pending"
      <3>1. req'[r] = Redirected(r, outcome)
        BY <1>10, <2>6, OthersStay
      <3>2. ASSUME turn[r].name PROVE OnItsWay(req'[r], heard.said)
        <4>1. outcome.kind = "household" /\ outcome.then = "judge_name"
          BY <2>4, <2>6, <3>2, OutcomeFields
        <4>2. outcome.kind \notin Spends /\ outcome.kind \notin Admin
          BY <4>1 DEF Spends, OwnChildrenKinds, Admin
        <4>3. PICK b : b = [req[r] EXCEPT !.kind = outcome.kind, !.then = outcome.then,
                                          !.pc = outcome.then, !.actor = req[r].actor]
          OBVIOUS
        <4>4. b.kind = "household" /\ b.pc = "judge_name" /\ b.then = "judge_name"
          BY <1>2, <4>1, <4>3 DEF IsRecord
        <4>5. req'[r] = b
          BY <1>2, <3>1, <4>2, <4>3 DEF Redirected
        <4> QED
          BY <4>1, <4>2, <4>4, <4>5 DEF OnItsWay, Judging, Thens
      <3>3. NameKept(req'[r], heard)
        BY <2>2, <2>6, <3>2 DEF NameKept
      <3> QED
        BY <1>10, <2>1, <2>2, <2>3, <3>3, OneIsTold
    <2> QED
      BY <2>5, <2>6
  <1> QED
    BY <1>5, <1>6, <1>7, <1>8, <1>9, <1>10 DEF JudgeChild, Local

LEMMA EndTurnKeepsNames ==
    ASSUME NameInv, NEW r \in Requests, EndTurn(r)
    PROVE  NameInv'
  <1>1. PICK reply : SetReply(r, reply)
    BY DEF EndTurn
  <1>2. PICK heard : /\ turn' = [turn EXCEPT ![r] = heard]
                     /\ IsTurn(heard) /\ heard.name = turn[r].name /\ heard.reply = reply
                     /\ heard.said = turn[r].said
    BY <1>1, Replied DEF NameInv
  <1>3. req' = req /\ req[r].pc = "done" /\ turn[r].reply = "pending"
    BY DEF EndTurn, vars
  <1>4. turn[r].name => Cleared(req[r].actor)
    BY <1>3 DEF NameInv, NameKept, OnItsWay
  <1>5. NameKept(req'[r], heard)
    <2>1. ~Questioned(req[r])
      BY <1>3 DEF Questioned, Judging
    <2>2. OnItsWay(req[r], turn[r].said) => OnItsWay(req[r], heard.said)
      BY <1>2
    <2> QED
      BY <1>2, <1>3, <1>4, <2>1, <2>2 DEF NameKept, NameInv
  <1> QED
    BY <1>2, <1>3, <1>5, OneIsTold

LEMMA RestartKeepsNames ==
    ASSUME RequestInv, NameInv, Restart, Lost
    PROVE  NameInv'
  <1>1. \A r \in Requests : req'[r] = IF Active(r) THEN To(r, "done") ELSE req[r]
    BY DEF Restart
  <1>2. turn' = [r \in Requests |-> IF turn[r].reply = "pending" THEN Silent ELSE turn[r]]
    BY DEF Lost
  <1>3. ASSUME NEW r \in Requests PROVE ~Questioned(req'[r])
    <2>1. CASE Active(r)
      <3>1. IsRecord(req[r])
        BY <2>1, NewIsNone DEF Active, RequestInv, Sound, IsRequest
      <3> QED
        BY <1>1, <2>1, <3>1, NobodyAsksDone
    <2>2. CASE ~Active(r)
      BY <1>1, <2>2 DEF Active, Questioned, Judging
    <2> QED
      BY <2>1, <2>2
  <1>4. ASSUME NEW r \in Requests PROVE IsTurn(turn'[r]) /\ NameKept(req'[r], turn'[r])
    <2>1. CASE turn[r].reply = "pending"
      BY <1>2, <1>3, <2>1, HeardTurn DEF NameKept
    <2>2. CASE turn[r].reply # "pending"
      <3>1. turn'[r] = turn[r] /\ IsTurn(turn[r])
        BY <1>2, <2>2 DEF NameInv, TurnsAre
      <3>2. turn[r].name /\ turn[r].reply = "closed" => req[r].pc = "done" /\ Cleared(req[r].actor)
        BY DEF NameInv, NameKept
      <3>3. req[r].pc = "done" => req'[r] = req[r]
        BY <1>1 DEF Active
      <3> QED
        BY <1>3, <2>2, <3>1, <3>2, <3>3 DEF NameKept
    <2> QED
      BY <2>1, <2>2
  <1>5. turn' = [r \in Requests |-> turn'[r]]
    BY <1>2
  <1> QED
    BY <1>4, <1>5 DEF NameInv, TurnsAre, IsTurn, NameKept

LEMMA NamesKept ==
    ASSUME UnlockInv, RequestInv, NameInv, [SpokenNext]_spokenVars
    PROVE  NameInv'
  <1>1. CASE UNCHANGED <<req, turn>>
    BY <1>1 DEF NameInv, TurnsAre, NameKept, IsTurn
  <1>2. ASSUME NEW r \in Requests, RequestStep(r), UNCHANGED turn PROVE NameInv'
    BY <1>2, RequestKeepsNames
  <1>3. ASSUME NEW r \in Requests, SpokenStep(r) PROVE NameInv'
    BY <1>3, HearKeepsNames, JudgeNameKeepsNames, JudgeChildKeepsNames, EndTurnKeepsNames
       DEF SpokenStep
  <1> QED
    BY <1>1, <1>2, <1>3, RestartKeepsNames DEF SpokenNext, Serve, spokenVars, vars

LEMMA NamesInitial ==
    ASSUME SpokenInit
    PROVE  NameInv
  <1>1. turn = [r \in Requests |-> Silent] /\ req = [r \in Requests |-> New]
    BY DEF SpokenInit, Init
  <1>2. ~Questioned(New)
    BY DEF Questioned, New, Judging
  <1> QED
    BY <1>1, <1>2, HeardTurn DEF NameInv, TurnsAre, NameKept

(* Nobody learns from a refusal which names the household stores           *)
(* (NamesAreNoOracle; _asks_about_known_name, _child_scope): whoever may   *)
(* not read the household never gets past the point where that is judged,  *)
(* whichever readers are wired and whatever fails, revokes or restarts in  *)
(* between, and a birthday of a stored name is resolved again.             *)
THEOREM NamesStayUnknown == SpokenSpec => []NamesAreNoOracle
  <1> DEFINE Guarded == UnlockInv /\ RequestInv /\ NameInv
  <1>1. SpokenInit => Guarded
    BY UnlockInitial, RequestsInitial, NamesInitial DEF SpokenInit
  <1>2. Guarded /\ [SpokenNext]_spokenVars => Guarded'
    BY UnlockKept, RequestsKept, NamesKept
  <1>3. Guarded => NamesAreNoOracle
    BY DEF NameInv, NameKept, Cleared, NamesAreNoOracle
  <1> HIDE DEF Guarded
  <1> QED
    BY <1>1, <1>2, <1>3, PTL DEF SpokenSpec

-----------------------------------------------------------------------------
(* A question about the family is one of the grammar's, and no rule before *)
(* the household's gives it away.                                          *)

Plain == STRING \ (AdviceWords \union RobotPhrases \union WhyOpenings \union {"para"})

LEMMA SliceIn ==
    ASSUME NEW S, NEW words \in Seq(S), NEW last \in Nat
    PROVE  /\ Slice(words, 1, last) \in Seq(S)
           /\ words # <<>> => Len(Slice(words, 1, 1)) = 1 /\ Slice(words, 1, 1)[1] = words[1]
           /\ words = <<>> => Slice(words, 1, 1) = <<>>
  <1>1. PICK n \in Nat : n = Len(words)
    OBVIOUS
  <1>2. ASSUME NEW m \in Nat
        PROVE  Min({m, n}) \in {m, n} /\ Min({m, n}) <= m /\ Min({m, n}) <= n
    <2>1. {m, n} \in SUBSET Nat /\ {m, n} # {}
      OBVIOUS
    <2>2. PICK k \in {m, n} : \A x \in {m, n} : k <= x
      BY <2>1, LeastOf
    <2>3. \E x \in {m, n} : \A y \in {m, n} : x <= y
      BY <2>2
    <2> QED
      BY <2>3 DEF Min
  <1>3. Slice(words, 1, last) \in Seq(S)
    <2>1. PICK k : k = Min({last, n})
      OBVIOUS
    <2>2. k \in {last, n} /\ k <= n
      BY <1>2, <2>1
    <2>3. k \in 0..Len(words)
      BY <1>1, <2>2
    <2>4. SubSeq(words, 1, k) \in Seq(S)
      BY <2>3, Piece
    <2> QED
      BY <1>1, <2>1, <2>4 DEF Slice
  <1>4. CASE words # <<>>
    <2>1. n >= 1
      BY <1>1, <1>4
    <2>2. Min({1, n}) = 1
      BY <1>2, <2>1
    <2>3. \A i \in 1..1 : words[i] \in S
      BY <1>1, <2>1
    <2>4. SubSeq(words, 1, 1) \in Seq(S) /\ Len(SubSeq(words, 1, 1)) = 1
          /\ SubSeq(words, 1, 1)[1] = words[1]
      BY <2>3, SubSeqProperties
    <2>5. Slice(words, 1, 1) = SubSeq(words, 1, 1)
      BY <1>1, <2>2 DEF Slice
    <2> QED
      BY <1>3, <1>4, <2>4, <2>5
  <1>5. CASE words = <<>>
    <2>1. n = 0
      BY <1>1, <1>5
    <2>2. Min({1, n}) = 0
      BY <1>2, <2>1
    <2>3. Slice(words, 1, 1) = <<>>
      BY <1>1, <2>2, SubSeqEmpty DEF Slice
    <2> QED
      BY <1>3, <1>5, <2>3
  <1> QED
    BY <1>4, <1>5

LEMMA RestIsPlain ==
    ASSUME NEW words \in Seq(Plain)
    PROVE  AfterTheRequestOpening(words) \in Seq(Plain)
  <1>1. PICK body \in Seq(Plain) : body = Body(words)
    BY WithoutLeading DEF Body
  <1>2. CASE OpensWith(words, RequestPhrases)
    <2>1. body # <<>>
      <3>1. body = <<>> => Slice(body, 1, 1) = <<>>
        BY <1>1, SliceIn
      <3> QED
        BY <1>1, <1>2, <3>1 DEF OpensWith, Has
    <2>2. Tail(body) \in Seq(Plain)
      BY <1>1, <2>1
    <2> QED
      BY <1>1, <1>2, <2>2 DEF AfterTheRequestOpening
  <1>3. CASE ~OpensWith(words, RequestPhrases)
    BY <1>1, <1>3 DEF AfterTheRequestOpening
  <1> QED
    BY <1>2, <1>3

LEMMA NoAdvice ==
    ASSUME NEW words \in Seq(Plain)
    PROVE  ~AsksAdviceOrSpeaksToTheRobot(words)
  <1>1. PICK rest \in Seq(Plain) : rest = AfterTheRequestOpening(words)
    BY RestIsPlain
  <1>2. \A i \in DOMAIN rest : rest[i] \in Plain
    OBVIOUS
  <1>3. PICK opening \in Seq(Plain) : opening = Slice(DropLeading(words, LeadingFillers), 1, 1)
    BY WithoutLeading, SliceIn
  <1>4. \A i \in DOMAIN opening : opening[i] \in Plain
    OBVIOUS
  <1>5. ~AsksWhy(words)
    BY <1>3, <1>4 DEF AsksWhy, Has, Plain
  <1> QED
    BY <1>1, <1>2, <1>5 DEF AsksAdviceOrSpeaksToTheRobot, Has, Plain

(* "dime" first, but for fillers and calls, opens a request.               *)
LEMMA OpensWithDime ==
    ASSUME NEW words \in Seq(STRING), NEW i \in DOMAIN words, words[i] = "dime",
           \A j \in DOMAIN words : words[j] \notin LeadingFillers \union AsideOpenings => i <= j
    PROVE  OpensWith(words, RequestPhrases)
  <1> DEFINE kept == {j \in DOMAIN words : words[j] \notin LeadingFillers \union AsideOpenings}
  <1>1. DOMAIN words = 1..Len(words) /\ Len(words) \in Nat
    OBVIOUS
  <1>2. i \in kept
    BY DEF LeadingFillers, AsideOpenings
  <1>3. \A j \in kept : i <= j
    OBVIOUS
  <1>4. kept \in SUBSET Nat
    BY <1>1
  <1>5. Body(words) = SubSeq(words, Min(kept), Len(words))
    BY <1>2 DEF Body, DropLeading
  <1> HIDE DEF kept
  <1>6. Min(kept) = i
    <2>1. Min(kept) \in kept /\ \A y \in kept : Min(kept) <= y
      <3>1. \E x \in kept : \A y \in kept : x <= y
        BY <1>2, <1>3
      <3> QED
        BY <3>1 DEF Min
    <2>2. Min(kept) \in Nat /\ i \in Nat /\ i <= Min(kept) /\ Min(kept) <= i
      BY <1>2, <1>3, <1>4, <2>1
    <2> QED
      BY <2>2
  <1>7. PICK n \in Nat : n = Len(words)
    OBVIOUS
  <1>8. i \in 1..n /\ \A j \in i..n : words[j] \in STRING
    BY <1>1, <1>7
  <1>9. PICK body : body = SubSeq(words, i, n)
    OBVIOUS
  <1>10. body \in Seq(STRING) /\ Len(body) = n - i + 1 /\ body[1] = words[i]
    <2>1. /\ body \in Seq(STRING)
          /\ Len(body) = IF i <= n THEN n - i + 1 ELSE 0
          /\ \A j \in 1..n - i + 1 : body[j] = words[i + j - 1]
      BY <1>8, <1>9, SubSeqProperties
    <2>2. 1 \in 1..n - i + 1 /\ i + 1 - 1 = i /\ i <= n
      BY <1>8
    <2> QED
      BY <2>1, <2>2
  <1>11. body # <<>>
    BY <1>8, <1>10
  <1>12. /\ Slice(body, 1, 1) \in Seq(STRING) /\ Len(Slice(body, 1, 1)) = 1
         /\ Slice(body, 1, 1)[1] = "dime"
    BY <1>10, <1>11, SliceIn
  <1>13. 1 \in DOMAIN Slice(body, 1, 1)
    BY <1>12
  <1> QED
    BY <1>5, <1>6, <1>7, <1>9, <1>12, <1>13 DEF OpensWith, Has, RequestPhrases

LEMMA FamilyIsRequested ==
    ASSUME NEW sentence, sentence.words \in Seq(STRING), AsksAboutTheFamily(sentence)
    PROVE  SentenceRequests(sentence)
  <1>1. PICK words \in Seq(STRING) : words = sentence.words
    OBVIOUS
  <1>2. words \in Seq(Plain)
    <2>1. \A i \in 1..Len(words) : words[i] \in Plain
      BY <1>1 DEF AsksAboutTheFamily, Plain
    <2>2. words = [i \in 1..Len(words) |-> words[i]] /\ Len(words) \in Nat
      OBVIOUS
    <2> QED
      BY <2>1, <2>2, SeqDef
  <1>3. NamesTheHousehold(words)
    <2>1. PICK i \in 2..Len(words) : words[i - 1] = "mi" /\ words[i] \in RelativeOrPet
      BY <1>1 DEF AsksAboutTheFamily
    <2>2. PICK k : k = i - 1
      OBVIOUS
    <2>3. k \in DOMAIN words /\ i \in DOMAIN words /\ i \in k + 1..k + ReferenceReach
      BY <2>2 DEF ReferenceReach
    <2> QED
      BY <2>1, <2>2, <2>3 DEF NamesTheHousehold, OwnPossessives
  <1>4. sentence.mark \in {"asks", "none"}
    BY DEF AsksAboutTheFamily
  <1>5. HouseholdRequestForm(words, sentence.mark = "asks")
    <2>1. CASE sentence.mark = "asks"
      BY <2>1 DEF HouseholdRequestForm
    <2>2. CASE sentence.mark # "asks"
      <3>1. PICK i \in DOMAIN words :
              /\ words[i] = "dime"
              /\ \A j \in DOMAIN words :
                   words[j] \notin LeadingFillers \union AsideOpenings => i <= j
        BY <1>1, <2>2 DEF AsksAboutTheFamily
      <3> QED
        BY <3>1, OpensWithDime DEF HouseholdRequestForm
    <2> QED
      BY <2>1, <2>2
  <1> QED
    BY <1>1, <1>2, <1>3, <1>4, <1>5, NoAdvice DEF SentenceRequests

-----------------------------------------------------------------------------
(* The rules: what the household's rule takes is taken by it, or by one    *)
(* before it.                                                              *)

Earlier == {"stated_secret", "sensitive_question", "asked_secret", "own_children_list",
            "own_children_count", "own_child_name", "relatives", "recall"}

LEMMA RulesAre ==
    ASSUME NEW on
    PROVE  \E m \in Nat :
             /\ DOMAIN RulesFor(on) \subseteq Nat /\ m + 1 \in DOMAIN RulesFor(on)
             /\ RulesFor(on)[m + 1] = "protected_household"
             /\ \A i \in DOMAIN RulesFor(on) : i <= m => RulesFor(on)[i] \in Earlier
  <1> DEFINE secrets   == If("secrets" \in on, <<"stated_secret">>)
             sensitive == If("sensitive" \in on, <<"sensitive_question">>)
             asked     == If("secrets" \in on, <<"asked_secret">>)
             children  == <<"own_children_list", "own_children_count">>
             recall    == If("recall" \in on, <<"own_child_name", "relatives", "recall">>)
             last      == <<"protected_household", "biometric_enrollment", "active_identity",
                            "profile_summary", "ambiguous_date", "current_date_stt",
                            "current_date", "explicit_age", "relationship",
                            "scene_description", "memory_answer">>
             later     == {"protected_household", "biometric_enrollment", "active_identity",
                           "profile_summary", "ambiguous_date", "current_date_stt",
                           "current_date", "explicit_age", "relationship",
                           "scene_description", "memory_answer"}
             all       == Earlier \union later
             first     == secrets \o sensitive \o asked \o children \o recall
  <1>1. RulesFor(on) = first \o last
    BY DEF RulesFor
  <1>2. \A S, b, s : s \in Seq(S) => If(b, s) \in Seq(S)
    BY DEF If
  <1>3. <<"stated_secret">> \in Seq(Earlier) /\ <<"sensitive_question">> \in Seq(Earlier)
        /\ <<"asked_secret">> \in Seq(Earlier)
    BY DEF Earlier
  <1>4. <<"own_child_name", "relatives", "recall">> \in Seq(Earlier)
    BY DEF Earlier
  <1>5. children \in Seq(Earlier)
    BY DEF Earlier
  <1>6. secrets \in Seq(Earlier) /\ sensitive \in Seq(Earlier) /\ asked \in Seq(Earlier)
        /\ recall \in Seq(Earlier)
    BY <1>2, <1>3, <1>4
  <1>7. last \in Seq(later)
    OBVIOUS
  <1>8. Len(last) >= 1 /\ last[1] = "protected_household"
    OBVIOUS
  <1> HIDE DEF secrets, sensitive, asked, children, recall, last, later
  <1>9. first \in Seq(Earlier)
    BY <1>5, <1>6
  <1> HIDE DEF first
  <1>10. first \in Seq(all) /\ last \in Seq(all)
    BY <1>7, <1>9
  <1>11. PICK m \in Nat : m = Len(first)
    BY <1>9
  <1>12. PICK n \in Nat : n = Len(last) /\ n >= 1
    BY <1>7, <1>8
  <1> HIDE DEF all
  <1>13. PICK rules : rules = RulesFor(on)
    OBVIOUS
  <1>14. /\ rules \in Seq(all) /\ Len(rules) = m + n
         /\ \A i \in 1..m + n : rules[i] = IF i <= m THEN first[i] ELSE last[i - m]
    BY <1>1, <1>10, <1>11, <1>12, <1>13, ConcatProperties
  <1>15. m + 1 \in 1..m + n /\ ~(m + 1 <= m) /\ (m + 1) - m = 1
    BY <1>12
  <1>16. rules[m + 1] = "protected_household"
    BY <1>8, <1>14, <1>15
  <1>17. DOMAIN rules = 1..m + n
    BY <1>14
  <1>18. ASSUME NEW i \in 1..m + n, i <= m PROVE rules[i] \in Earlier
    BY <1>9, <1>11, <1>14, <1>18
  <1> QED
    BY <1>13, <1>15, <1>16, <1>17, <1>18

LEMMA ProtectedAtLast ==
    ASSUME NEW holding, "protected_household" \in holding, NEW on
    PROVE  /\ ResolveInformationNeed(holding, on) \in Earlier \union {"protected_household"}
           /\ ResolveInformationNeed(holding, on) \in holding
  <1>1. PICK rules : rules = RulesFor(on)
    OBVIOUS
  <1>2. PICK m \in Nat :
           /\ DOMAIN rules \subseteq Nat /\ m + 1 \in DOMAIN rules
           /\ rules[m + 1] = "protected_household"
           /\ \A i \in DOMAIN rules : i <= m => rules[i] \in Earlier
    BY <1>1, RulesAre
  <1> DEFINE holds == {i \in DOMAIN rules : rules[i] \in holding}
  <1>3. m + 1 \in holds /\ holds \in SUBSET Nat
    BY <1>2
  <1>4. PICK least : least = Min(holds)
    OBVIOUS
  <1>5. least \in holds /\ \A i \in holds : least <= i
    <2>1. PICK k \in holds : \A i \in holds : k <= i
      BY <1>3, LeastOf
    <2>2. \E x \in holds : \A y \in holds : x <= y
      BY <2>1
    <2> QED
      BY <1>4, <2>2 DEF Min
  <1>6. ResolveInformationNeed(holding, on) = rules[least]
    BY <1>1, <1>3, <1>4 DEF ResolveInformationNeed
  <1>7. least \in Nat /\ least <= m + 1 /\ least \in DOMAIN rules /\ rules[least] \in holding
    BY <1>3, <1>5
  <1>8. rules[least] \in Earlier \union {"protected_household"}
    <2>1. least <= m \/ least = m + 1
      BY <1>7
    <2> QED
      BY <1>2, <1>7, <2>1
  <1> QED
    BY <1>6, <1>7, <1>8

OfTheFamily(message) ==
    /\ message \in Messages
    /\ ~IsAnswer(message)
    /\ \E i \in DOMAIN message : AsksAboutTheFamily(message[i])

LEMMA FamilyIsProtected ==
    ASSUME NEW message, OfTheFamily(message)
    PROVE  /\ RequestsHouseholdData(message)
           /\ "protected_household" \in HoldingRules(message)
  <1>1. PICK i \in DOMAIN message : AsksAboutTheFamily(message[i])
    BY DEF OfTheFamily
  <1>2. message[i].words \in Seq(STRING)
    BY SentenceOf DEF OfTheFamily
  <1>3. RequestsHouseholdData(message)
    BY <1>1, <1>2, FamilyIsRequested DEF RequestsHouseholdData
  <1>4. RuleHolds("protected_household", message)
    BY <1>3 DEF RuleHolds, ProtectedHolds, OfTheFamily
  <1>5. "protected_household" \in Rules
    <2>1. PICK rules : rules = RulesFor({"recall", "sensitive", "secrets"})
      OBVIOUS
    <2>2. \E j \in DOMAIN rules : rules[j] = "protected_household"
      BY <2>1, RulesAre
    <2> QED
      BY <2>1, <2>2 DEF Rules, ToSet
  <1> QED
    BY <1>3, <1>4, <1>5 DEF HoldingRules

LEMMA OutcomeOfTheFamily ==
    ASSUME NEW message, OfTheFamily(message), NEW on,
           NEW rule, rule = ResolveInformationNeed(HoldingRules(message), on),
           NEW outcome \in Outcomes(message, rule, on)
    PROVE  /\ outcome.reply \in {"pending", "closed"}
           /\ outcome.then # "judge_name"
           /\ ~(rule = "recall" /\ ClassifyRecallCue(message) = "weak")
  <1>1. rule \in Earlier \union {"protected_household"} /\ rule \in HoldingRules(message)
    BY FamilyIsProtected, ProtectedAtLast
  <1>2. rule = "recall" => ClassifyRecallCue(message) # "weak"
    <2>1. rule = "recall" => RuleHolds("recall", message)
      BY <1>1 DEF HoldingRules
    <2>2. RuleHolds("recall", message) => RecallHolds(message)
      BY DEF RuleHolds
    <2> QED
      BY <2>1, <2>2, FamilyIsProtected DEF RecallHolds
  <1>3. \E kind : SensitiveOutcome(ClassifySensitiveQuestion(message)) \in
                   {Goes(kind, "ask"), Goes(kind, "judge_child")}
    BY DEF SensitiveOutcome
  <1>4. \/ outcome = Ended("closed")
        \/ \E kind : outcome \in {Goes(kind, "ask"), Goes(kind, "judge_child")}
    <2>1. CASE rule = "sensitive_question"
      BY <1>3, <2>1 DEF Outcomes, Closed, Refusals, AnsweredFromTheClock, WhoIsThere
    <2>2. CASE rule # "sensitive_question"
      BY <1>1, <2>2 DEF Outcomes, Closed, Refusals, AnsweredFromTheClock, WhoIsThere, Earlier
    <2> QED
      BY <2>1, <2>2
  <1> QED
    BY <1>2, <1>4, OutcomeFields

-----------------------------------------------------------------------------
(* A question about the family is never resolved as that of a name, and    *)
(* whatever is resolved again is answered by a closed branch too.          *)

Towards(q, then) == q.pc = then \/ (q.pc \in Judging /\ q.then = then)

FamilyKept(q, heard) ==
    heard.family =>
        /\ heard.reply # "generation"
        /\ heard.reply = "pending" =>
             /\ ~heard.weak /\ ~Towards(q, "judge_name")
             /\ Towards(q, "judge_child") => OfTheFamily(heard.said)

FamilyInv == \A r \in Requests : FamilyKept(req[r], turn[r])

LEMMA OnwardFamilyKept ==
    ASSUME NEW q, NEW b, NEW heard, FamilyKept(q, heard), Onward(q, b)
    PROVE  FamilyKept(b, heard)
  <1>1. \A then \in {"judge_name", "judge_child"} : Towards(b, then) => Towards(q, then)
    BY DEF Onward, Waiting, Towards, Judging, Thens
  <1> QED
    BY <1>1 DEF FamilyKept

LEMMA RequestKeepsFamily ==
    ASSUME UnlockInv, RequestInv, FamilyInv, NEW r \in Requests, RequestStep(r), UNCHANGED turn
    PROVE  FamilyInv'
  <1>1. \A q \in Requests : FamilyKept(req'[q], turn[q])
    BY RequestGoesOn, OnwardFamilyKept DEF FamilyInv
  <1> QED
    BY <1>1 DEF FamilyInv, FamilyKept, Towards

LEMMA FamilyIsTold ==
    ASSUME TurnsAre, FamilyInv, NEW r \in Requests, NEW heard, turn' = [turn EXCEPT ![r] = heard],
           \A q \in Requests \ {r} : req'[q] = req[q],
           FamilyKept(req'[r], heard)
    PROVE  FamilyInv'
  <1>1. turn'[r] = heard /\ \A q \in Requests \ {r} : turn'[q] = turn[q]
    BY DEF TurnsAre
  <1>2. \A q \in Requests : FamilyKept(req'[q], turn'[q])
    BY <1>1 DEF FamilyInv
  <1> QED
    BY <1>2 DEF FamilyInv, FamilyKept, Towards

LEMMA HearKeepsFamily ==
    ASSUME RequestInv, TurnsAre, FamilyInv, NEW r \in Requests, Hear(r)
    PROVE  FamilyInv'
  <1>1. PICK message \in Messages, settings \in Bounds.switches[r] :
          \E outcome \in Outcomes(message, ResolveInformationNeed(HoldingRules(message), Wired(settings)),
                                  Wired(settings)) :
            /\ turn' = [turn EXCEPT ![r] =
                          Resolved(Heard(message), message, Wired(settings),
                                   ResolveInformationNeed(HoldingRules(message), Wired(settings)),
                                   outcome)]
            /\ IF outcome.reply = "pending"
               THEN \E frame \in Bounds.frames, clip \in Bounds.clips, token \in Bounds.tokens[r] :
                      Local(r, Started(outcome.kind, frame, clip, token, outcome.then))
               ELSE UNCHANGED vars
    BY DEF Hear
  <1>2. PICK on : on = Wired(settings)
    OBVIOUS
  <1>3. PICK rule : rule = ResolveInformationNeed(HoldingRules(message), on)
    OBVIOUS
  <1>4. PICK outcome \in Outcomes(message, rule, on) :
            /\ turn' = [turn EXCEPT ![r] = Resolved(Heard(message), message, on, rule, outcome)]
            /\ IF outcome.reply = "pending"
               THEN \E frame, clip, token :
                      Step(r, Started(outcome.kind, frame, clip, token, outcome.then))
               ELSE UNCHANGED vars
    BY <1>1, <1>2, <1>3 DEF Local
  <1>5. PICK heard : heard = Resolved(Heard(message), message, on, rule, outcome)
    OBVIOUS
  <1>6. /\ heard.family => OfTheFamily(message)
        /\ heard.reply = outcome.reply
        /\ outcome.then = "judge_child" => heard.said = message
        /\ heard.weak = (rule = "recall" /\ ClassifyRecallCue(message) = "weak")
    <2>1. PICK first : first = Heard(message)
      OBVIOUS
    <2>2. /\ IsTurn(first)
          /\ first.family = (/\ ~IsAnswer(message)
                             /\ \E i \in DOMAIN message : AsksAboutTheFamily(message[i]))
      BY <2>1, HeardTurn
    <2>3. first.family => OfTheFamily(message)
      BY <2>2, <1>1 DEF OfTheFamily
    <2>4. heard = Resolved(first, message, on, rule, outcome)
      BY <1>5, <2>1
    <2>5. PICK last : last = Resolved(first, message, on, rule, outcome)
      OBVIOUS
    <2>6. /\ last.family = first.family /\ last.reply = outcome.reply
          /\ outcome.then = "judge_child" => last.said = message
          /\ last.weak = (rule = "recall" /\ ClassifyRecallCue(message) = "weak")
      <3>1. IsTurn(first)
        BY <2>2
      <3> QED
        BY <3>1, <2>5, ResolvedTurn
    <2>7. last = heard
      BY <2>4, <2>5
    <2> QED
      BY <2>3, <2>6, <2>7
  <1>7. \A q \in Requests \ {r} : req'[q] = req[q]
    BY <1>4, OthersStay DEF vars
  <1>8. ASSUME heard.family PROVE FamilyKept(req'[r], heard)
    <2>1. /\ outcome.reply \in {"pending", "closed"}
          /\ outcome.then # "judge_name" /\ ~heard.weak
      BY <1>3, <1>4, <1>6, <1>8, OutcomeOfTheFamily
    <2>2. CASE outcome.reply = "pending"
      <3>1. PICK frame, clip, token :
              Step(r, Started(outcome.kind, frame, clip, token, outcome.then))
        BY <1>4, <2>2
      <3>2. PICK b : b = Started(outcome.kind, frame, clip, token, outcome.then)
        OBVIOUS
      <3>3. b.pc \in {"face", "token"} /\ b.then = outcome.then
        BY <3>2 DEF Started
      <3>4. req'[r] = b
        BY <3>1, <3>2, OthersStay
      <3> QED
        BY <1>6, <1>8, <2>1, <2>2, <3>3, <3>4 DEF FamilyKept, Towards
    <2>3. CASE outcome.reply # "pending"
      BY <1>6, <2>1, <2>3 DEF FamilyKept
    <2> QED
      BY <2>2, <2>3
  <1>9. FamilyKept(req'[r], heard)
    BY <1>8 DEF FamilyKept
  <1> QED
    BY <1>4, <1>5, <1>7, <1>9, FamilyIsTold

LEMMA JudgeNameKeepsFamily ==
    ASSUME RequestInv, NameInv, FamilyInv, NEW r \in Requests, JudgeName(r)
    PROVE  FamilyInv'
  <1>1. req[r].pc = "judge_name"
    BY DEF JudgeName
  <1>2. turn[r].reply = "pending"
    BY <1>1 DEF NameInv, NameKept, Questioned
  <1>3. ~turn[r].family
    BY <1>1, <1>2 DEF FamilyInv, FamilyKept, Towards
  <1>4. \A q \in Requests \ {r} : req'[q] = req[q]
    BY OthersStay DEF JudgeName, Local
  <1>5. PICK heard : /\ turn' = [turn EXCEPT ![r] = heard]
                     /\ heard.family = turn[r].family
    <2>1. CASE UNCHANGED turn
      BY <2>1 DEF NameInv, TurnsAre
    <2>2. CASE SetReply(r, "generation")
      BY <2>2, Replied DEF NameInv
    <2> QED
      BY <2>1, <2>2 DEF JudgeName
  <1>6. FamilyKept(req'[r], heard)
    BY <1>3, <1>5 DEF FamilyKept
  <1> QED
    BY <1>4, <1>5, <1>6, FamilyIsTold DEF NameInv

LEMMA JudgeChildKeepsFamily ==
    ASSUME RequestInv, NameInv, FamilyInv, NEW r \in Requests, JudgeChild(r)
    PROVE  FamilyInv'
  <1>1. req[r].pc = "judge_child" /\ req[r].pc \in Unasked
    BY DEF JudgeChild, Unasked, Thens
  <1>2. IsRecord(req[r])
    BY <1>1, UnderJudgement
  <1>3. turn[r].reply = "pending"
    BY <1>1 DEF NameInv, NameKept, Questioned
  <1>4. turn[r].family => OfTheFamily(turn[r].said) /\ ~turn[r].weak
    BY <1>1, <1>3 DEF FamilyInv, FamilyKept, Towards
  <1>5. IsTurn(turn[r]) /\ TurnsAre
    BY DEF NameInv, TurnsAre
  <1>6. CASE Step(r, To(r, "ask")) /\ UNCHANGED turn
    <2>1. PICK b : b = To(r, "ask")
      OBVIOUS
    <2>2. b.pc = "ask"
      BY <1>2, <2>1, AtAnotherPoint DEF To
    <2>3. req'[r] = b /\ \A q \in Requests \ {r} : req'[q] = req[q]
      BY <1>6, <2>1, OthersStay
    <2>4. FamilyKept(b, turn[r])
      BY <2>2 DEF FamilyInv, FamilyKept, Towards, Judging
    <2>5. turn' = [turn EXCEPT ![r] = turn[r]]
      BY <1>5, <1>6 DEF TurnsAre
    <2> QED
      BY <1>5, <2>3, <2>4, <2>5, FamilyIsTold
  <1>7. CASE Step(r, To(r, "done")) /\ SetReply(r, "closed")
    <2>1. PICK heard : turn' = [turn EXCEPT ![r] = heard] /\ heard.reply = "closed"
      BY <1>5, <1>7, Replied
    <2>2. \A q \in Requests \ {r} : req'[q] = req[q]
      BY <1>7, OthersStay
    <2>3. FamilyKept(req'[r], heard)
      BY <2>1 DEF FamilyKept
    <2> QED
      BY <1>5, <2>1, <2>2, <2>3, FamilyIsTold
  <1>8. PICK said : said = turn[r].said
    OBVIOUS
  <1>9. PICK on : on = turn[r].on \ {"sensitive"}
    OBVIOUS
  <1>10. PICK rule : rule = ResolveInformationNeed(HoldingRules(said), on)
    OBVIOUS
  <1>11. ASSUME NEW outcome \in Outcomes(said, rule, on),
                turn' = [turn EXCEPT ![r] = Resolved(turn[r], said, on, rule, outcome)],
                Step(r, IF outcome.reply = "pending" THEN Redirected(r, outcome) ELSE To(r, "done"))
         PROVE  FamilyInv'
    <2>1. PICK heard : heard = Resolved(turn[r], said, on, rule, outcome)
      OBVIOUS
    <2>2. /\ heard.family = turn[r].family /\ heard.reply = outcome.reply
          /\ outcome.then = "judge_child" => heard.said = said
          /\ heard.weak = (rule = "recall" /\ ClassifyRecallCue(said) = "weak")
      BY <1>5, <2>1, ResolvedTurn
    <2>3. \A q \in Requests \ {r} : req'[q] = req[q]
      BY <1>11, OthersStay
    <2>4. ASSUME heard.family PROVE FamilyKept(req'[r], heard)
      <3>1. /\ outcome.reply \in {"pending", "closed"}
            /\ outcome.then # "judge_name" /\ ~heard.weak
        BY <1>4, <1>8, <1>10, <1>11, <2>2, <2>4, OutcomeOfTheFamily
      <3>2. CASE outcome.reply = "pending"
        <4>1. PICK b : b = Redirected(r, outcome)
          OBVIOUS
        <4>2. b.then = outcome.then /\ b.pc \in {"token", outcome.then}
          BY <1>2, <4>1 DEF Redirected, IsRecord
        <4>3. req'[r] = b
          BY <1>11, <3>2, <4>1, OthersStay
        <4>4. ~Towards(b, "judge_name")
          BY <3>1, <4>2 DEF Towards
        <4>5. Towards(b, "judge_child") => outcome.then = "judge_child"
          BY <4>2 DEF Towards
        <4> QED
          BY <1>4, <1>8, <2>2, <2>4, <3>1, <3>2, <4>3, <4>4, <4>5 DEF FamilyKept
      <3>3. CASE outcome.reply # "pending"
        BY <2>2, <3>1, <3>3 DEF FamilyKept
      <3> QED
        BY <3>2, <3>3
    <2>5. FamilyKept(req'[r], heard)
      BY <2>4 DEF FamilyKept
    <2> QED
      BY <1>5, <1>11, <2>1, <2>3, <2>5, FamilyIsTold
  <1> QED
    BY <1>6, <1>7, <1>8, <1>9, <1>10, <1>11 DEF JudgeChild, Local

\* Only a weak cue that finds nothing is left to the language model.
LEMMA EndTurnKeepsFamily ==
    ASSUME TurnsAre, FamilyInv, NEW r \in Requests, EndTurn(r)
    PROVE  FamilyInv'
  <1>1. PICK found \in BOOLEAN : SetReply(r, ReplyOf(req[r].kind, turn[r].weak, found))
    BY DEF EndTurn
  <1>2. req' = req /\ turn[r].reply = "pending"
    BY DEF EndTurn, vars
  <1>3. PICK reply : reply = ReplyOf(req[r].kind, turn[r].weak, found)
    OBVIOUS
  <1>4. PICK heard : /\ turn' = [turn EXCEPT ![r] = heard]
                     /\ heard.family = turn[r].family /\ heard.reply = reply
    BY <1>1, <1>3, Replied
  <1>5. turn[r].family => reply = "closed"
    <2>1. turn[r].family => ~turn[r].weak
      BY <1>2 DEF FamilyInv, FamilyKept
    <2> QED
      BY <1>3, <2>1 DEF ReplyOf, RecallReply, OwnReply, RelativesReply, HouseholdReply
  <1>6. FamilyKept(req'[r], heard)
    BY <1>4, <1>5 DEF FamilyKept
  <1> QED
    BY <1>2, <1>4, <1>6, FamilyIsTold

LEMMA RestartKeepsFamily ==
    ASSUME FamilyInv, Lost
    PROVE  FamilyInv'
  <1>1. turn' = [r \in Requests |-> IF turn[r].reply = "pending" THEN Silent ELSE turn[r]]
    BY DEF Lost
  <1>2. ASSUME NEW r \in Requests PROVE FamilyKept(req'[r], turn'[r])
    <2>1. CASE turn[r].reply = "pending"
      BY <1>1, <2>1, HeardTurn DEF FamilyKept
    <2>2. CASE turn[r].reply # "pending"
      BY <1>1, <2>2 DEF FamilyInv, FamilyKept
    <2> QED
      BY <2>1, <2>2
  <1> QED
    BY <1>2 DEF FamilyInv, FamilyKept, Towards

LEMMA FamilyIsKept ==
    ASSUME UnlockInv, RequestInv, NameInv, FamilyInv, [SpokenNext]_spokenVars
    PROVE  FamilyInv'
  <1>1. CASE UNCHANGED <<req, turn>>
    BY <1>1 DEF FamilyInv, FamilyKept, Towards
  <1>2. ASSUME NEW r \in Requests, RequestStep(r), UNCHANGED turn PROVE FamilyInv'
    BY <1>2, RequestKeepsFamily
  <1>3. ASSUME NEW r \in Requests, SpokenStep(r) PROVE FamilyInv'
    BY <1>3, HearKeepsFamily, JudgeNameKeepsFamily, JudgeChildKeepsFamily, EndTurnKeepsFamily
       DEF SpokenStep, NameInv
  <1> QED
    BY <1>1, <1>2, <1>3, RestartKeepsFamily DEF SpokenNext, Serve, spokenVars, vars

(* The language model never gets a question about the speaker's household  *)
(* (HouseholdStaysProtected; CognitiveController.decide,                   *)
(* resolve_information_need): such a question is one of the grammar's, the *)
(* household's rule or one before it takes it, a weak cue gives way, and   *)
(* resolving it again finds the same; for every message, wiring, speaker   *)
(* and failure.                                                            *)
THEOREM FamilyIsNeverInvented == SpokenSpec => []HouseholdStaysProtected
  <1> DEFINE Guarded == UnlockInv /\ RequestInv /\ NameInv /\ FamilyInv
  <1>1. SpokenInit => Guarded
    <2>1. SpokenInit => FamilyInv
      BY HeardTurn DEF SpokenInit, FamilyInv, FamilyKept
    <2> QED
      BY <2>1, UnlockInitial, RequestsInitial, NamesInitial DEF SpokenInit
  <1>2. Guarded /\ [SpokenNext]_spokenVars => Guarded'
    BY UnlockKept, RequestsKept, NamesKept, FamilyIsKept
  <1>3. Guarded => HouseholdStaysProtected
    BY DEF FamilyInv, FamilyKept, HouseholdStaysProtected
  <1> HIDE DEF Guarded
  <1> QED
    BY <1>1, <1>2, <1>3, PTL DEF SpokenSpec
-----------------------------------------------------------------------------
(* What the enrolment of a voiceprint takes for granted.                    *)

(* The owner's voice is not revoked while a request stands between the      *)
(* consent it has just written and the voiceprint that rests on it          *)
(* (enroll_owner_voice), an await of its own.                               *)
NobodyIsBetween == \A r, q \in Requests : RevokeVoiceConsent(r) => req[q].pc # "enrol_print"
NoRevocationMidEnrolment == [][NobodyIsBetween]_spokenVars

PrintsRestOnConsent ==
    /\ NoPrintWithoutConsent
    /\ \A q \in Requests : req[q].pc = "enrol_print" => voiceConsent

LEMMA NobodyEnrols ==
    ASSUME RequestInv, PrintsRestOnConsent, UNCHANGED <<voiceConsent, prints>>,
           \A q \in Requests : req'[q].pc = "enrol_print" => req[q].pc = "enrol_print"
    PROVE  PrintsRestOnConsent'
BY DEF PrintsRestOnConsent, NoPrintWithoutConsent

\* Who is judged, asks or reads does not come to enrol by that.
LEMMA OnwardEnrolsNobody ==
    ASSUME RequestInv, NEW q \in Requests, Onward(req[q], req'[q]), req[q].pc \notin Changing
    PROVE  req'[q].pc = "enrol_print" => req[q].pc = "enrol_print"
  <1>1. req[q].pc \in Judging => req[q].then \in Thens
    BY UnderJudgement DEF Unasked
  <1> QED
    BY <1>1 DEF Onward, Waiting, Judging, Thens

LEMMA AdminEnrols ==
    ASSUME RequestInv, PrintsRestOnConsent, NEW r \in Requests, AdminStep(r),
           RevokeVoiceConsent(r) => \A q \in Requests : req[q].pc # "enrol_print"
    PROVE  PrintsRestOnConsent'
  <1> USE DEF PrintsRestOnConsent, NoPrintWithoutConsent
  <1>1. {"admin", "grant_face", "enrol_print"} \subseteq Changing
    BY DEF Changing
  <1>2. ASSUME NEW pc, req[r].pc \in Changing, Change(r, pc)
        PROVE  /\ \A q \in Requests : q # r => req'[q].pc = req[q].pc
               /\ req'[r].pc = pc
    BY <1>2, ChangeMoves DEF Waiting
  <1>3. CASE EnrolmentRejected(r)
    <2>1. IsRecord(req[r])
      BY <1>1, <1>3, UnderJudgement DEF EnrolmentRejected
    <2>2. PICK b : b = To(r, "done")
      OBVIOUS
    <2>3. b.pc = "done"
      BY <2>1, <2>2, AtAnotherPoint DEF To
    <2>4. \A q \in Requests : req'[q] = IF q = r THEN b ELSE req[q]
      BY <1>3, <2>2 DEF EnrolmentRejected, Local, Step, RequestInv
    <2> QED
      BY <1>3, <2>3, <2>4 DEF EnrolmentRejected, Local, Step, biometrics
  <1>4. CASE EnrolFace(r)
    BY <1>1, <1>2, <1>4 DEF EnrolFace
  <1>5. CASE GrantFaceConsent(r)
    BY <1>1, <1>2, <1>5 DEF GrantFaceConsent
  <1>6. CASE RevokeFaceConsent(r)
    BY <1>1, <1>2, <1>6 DEF RevokeFaceConsent
  <1>7. CASE GrantVoiceConsent(r)
    BY <1>7 DEF GrantVoiceConsent
  <1>8. CASE EnrolVoiceprint(r)
    BY <1>1, <1>2, <1>8 DEF EnrolVoiceprint
  <1>9. CASE RevokeVoiceConsent(r)
    BY <1>1, <1>2, <1>9 DEF RevokeVoiceConsent
  <1> QED
    BY <1>3, <1>4, <1>5, <1>6, <1>7, <1>8, <1>9 DEF AdminStep

LEMMA RequestEnrols ==
    ASSUME UnlockInv, RequestInv, PrintsRestOnConsent, NEW r \in Requests, RequestStep(r),
           RevokeVoiceConsent(r) => \A q \in Requests : req[q].pc # "enrol_print"
    PROVE  PrintsRestOnConsent'
  <1>1. CASE AdminStep(r)
    BY <1>1, AdminEnrols
  <1>2. CASE ~AdminStep(r)
    <2>1. req[r].pc \notin Changing
      BY <1>2 DEF RequestStep, Begin, MatchFace, FaceRole, FaceConsent, MatchVoice, VoiceRole,
                  VoiceConsent, ResolveToken, TokenRole, Ask, Read, Changing
    <2>2. PICK next : Step(r, next)
      BY <1>2 DEF RequestStep, Begin, MatchFace, FaceRole, FaceConsent, MatchVoice, VoiceRole,
                  VoiceConsent, ResolveToken, TokenRole, Ask, Read, Local
    <2>3. \A q \in Requests : q # r => req'[q] = req[q]
      BY <2>2 DEF Step, RequestInv
    <2>4. req'[r].pc = "enrol_print" => req[r].pc = "enrol_print"
      BY <2>1, RequestGoesOn, OnwardEnrolsNobody
    <2>5. UNCHANGED <<voiceConsent, prints>>
      BY <2>2 DEF Step, biometrics
    <2> QED
      BY <2>3, <2>4, <2>5, NobodyEnrols
  <1> QED
    BY <1>1, <1>2

LEMMA SpokenEnrols ==
    ASSUME RequestInv, PrintsRestOnConsent, NEW r \in Requests, SpokenStep(r)
    PROVE  PrintsRestOnConsent'
  <1>1. ASSUME NEW next, Step(r, next), next.pc # "enrol_print" PROVE PrintsRestOnConsent'
    <2>1. \A q \in Requests : req'[q] = IF q = r THEN next ELSE req[q]
      BY <1>1 DEF Step, RequestInv
    <2> QED
      BY <1>1, <2>1, NobodyEnrols DEF Step, biometrics
  <1>2. CASE UNCHANGED vars
    BY <1>2, NobodyEnrols DEF vars, biometrics
  <1>3. CASE Hear(r) /\ ~UNCHANGED vars
    <2>1. PICK kind, frame, clip, token, then : Step(r, Started(kind, frame, clip, token, then))
      BY <1>3 DEF Hear, Local
    <2>2. PICK next : next = Started(kind, frame, clip, token, then)
      OBVIOUS
    <2>3. next.pc \in {"face", "token"}
      BY <2>2 DEF Started
    <2> QED
      BY <1>1, <2>1, <2>2, <2>3
  <1>4. CASE JudgeName(r) \/ JudgeChild(r)
    <2>1. req[r].pc \in {"judge_name", "judge_child"}
      BY <1>4 DEF JudgeName, JudgeChild
    <2>2. IsRecord(req[r])
      BY <2>1, UnderJudgement DEF Unasked, Thens
    <2>3. ASSUME NEW pc \in {"ask", "done"}, Step(r, To(r, pc)) PROVE PrintsRestOnConsent'
      <3>1. PICK b : b = To(r, pc)
        OBVIOUS
      <3>2. b.pc = pc
        BY <2>2, <3>1, AtAnotherPoint DEF To
      <3> QED
        BY <1>1, <2>3, <3>1, <3>2
    <2>4. CASE JudgeName(r)
      BY <2>3, <2>4 DEF JudgeName, Local
    <2>5. CASE JudgeChild(r)
      <3>1. PICK said, rule, on, outcome :
              \/ Step(r, To(r, "ask")) \/ Step(r, To(r, "done"))
              \/ /\ Step(r, Redirected(r, outcome)) /\ outcome.reply = "pending"
                 /\ outcome \in Outcomes(said, rule, on)
        BY <2>5 DEF JudgeChild, Local
      <3>2. CASE /\ Step(r, Redirected(r, outcome)) /\ outcome.reply = "pending"
                 /\ outcome \in Outcomes(said, rule, on)
        <4>1. PICK b : b = Redirected(r, outcome)
          OBVIOUS
        <4>2. outcome.then # "enrol_print"
          BY <3>2, OutcomeFacts DEF Thens
        <4>3. b.pc \in {"token", outcome.then}
          BY <2>2, <4>1 DEF Redirected, IsRecord
        <4> QED
          BY <1>1, <3>2, <4>1, <4>2, <4>3
      <3> QED
        BY <2>3, <3>1, <3>2
    <2> QED
      BY <1>4, <2>4, <2>5
  <1> QED
    BY <1>2, <1>3, <1>4 DEF SpokenStep, EndTurn

LEMMA RestartEnrols ==
    ASSUME RequestInv, PrintsRestOnConsent, Restart
    PROVE  PrintsRestOnConsent'
  <1>1. ASSUME NEW q \in Requests, req'[q].pc = "enrol_print" PROVE req[q].pc = "enrol_print"
    <2>1. req'[q] = IF Active(q) THEN To(q, "done") ELSE req[q]
      BY DEF Restart
    <2>2. CASE Active(q)
      <3>1. IsRecord(req[q])
        BY <2>2, NewIsNone DEF Active, RequestInv, Sound, IsRequest
      <3>2. PICK b : b = To(q, "done")
        OBVIOUS
      <3>3. b.pc = "done"
        BY <3>1, <3>2, AtAnotherPoint DEF To
      <3> QED
        BY <1>1, <2>1, <2>2, <3>2, <3>3
    <2> QED
      BY <1>1, <2>1, <2>2
  <1> QED
    BY <1>1, NobodyEnrols DEF Restart, biometrics

(* The await of the enrolment is the only hole: as long as nobody revokes   *)
(* the voice while an enrolment stands between the consent and the          *)
(* voiceprint, no voiceprint is ever kept without an active grant, whatever *)
(* else runs, fails or restarts (enroll_owner_voice, revoke_owner_voice;    *)
(* without the hypothesis TLC violates NoPrintWithoutConsent).              *)
THEOREM PrintsNeedConsentWithoutTheRace ==
    SpokenSpec /\ NoRevocationMidEnrolment => []NoPrintWithoutConsent
  <1> DEFINE Guarded == UnlockInv /\ RequestInv /\ PrintsRestOnConsent
  <1>1. SpokenInit => Guarded
    <2>1. SpokenInit => PrintsRestOnConsent
      BY NewIsNone DEF SpokenInit, Init, PrintsRestOnConsent, NoPrintWithoutConsent, New
    <2> QED
      BY <2>1, UnlockInitial, RequestsInitial DEF SpokenInit
  <1>2. Guarded /\ [SpokenNext]_spokenVars /\ [NobodyIsBetween]_spokenVars => Guarded'
    <2> SUFFICES ASSUME Guarded, [SpokenNext]_spokenVars, [NobodyIsBetween]_spokenVars
                 PROVE  PrintsRestOnConsent'
      BY UnlockKept, RequestsKept
    <2>1. CASE UNCHANGED <<biometrics, req>>
      BY <2>1, NobodyEnrols DEF biometrics
    <2>2. ASSUME NEW r \in Requests, RequestStep(r) PROVE PrintsRestOnConsent'
      <3>1. CASE UNCHANGED spokenVars
        BY <2>1, <3>1 DEF spokenVars, vars
      <3>2. CASE NobodyIsBetween
        BY <2>2, <3>2, RequestEnrols DEF NobodyIsBetween
      <3> QED
        BY <3>1, <3>2
    <2>3. ASSUME NEW r \in Requests, SpokenStep(r) PROVE PrintsRestOnConsent'
      BY <2>3, SpokenEnrols
    <2>4. CASE UNCHANGED spokenVars
      BY <2>1, <2>4 DEF spokenVars, vars
    <2> QED
      BY <2>1, <2>2, <2>3, <2>4, RestartEnrols DEF SpokenNext, Serve
  <1>3. Guarded => NoPrintWithoutConsent
    BY DEF PrintsRestOnConsent
  <1> HIDE DEF Guarded
  <1> QED
    BY <1>1, <1>2, <1>3, PTL DEF SpokenSpec, NoRevocationMidEnrolment
-----------------------------------------------------------------------------
(* The line for the lock.  That every attempt is answered is liveness and   *)
(* stays with the model checker; what it rests on is proved: whoever makes  *)
(* an attempt has one place in the line, and it never moves back.           *)

(* The callers in the line are those that make an attempt, each of them     *)
(* once: an answer, an exception or a restart leaves nobody behind who      *)
(* would hold the lock for ever.                                            *)
AttemptsInLine ==
    /\ \A i, j \in DOMAIN line : line[i] = line[j] => i = j
    /\ \A c \in Callers : call[c] # Idle <=> \E i \in DOMAIN line : line[i] = c

(* An attempt that is not answered yet has at most the callers before it    *)
(* that it had.                                                             *)
KeepsItsPlace(c) ==
    \A i \in DOMAIN line :
        line[i] = c /\ call'[c] # Idle => \E j \in DOMAIN line' : j <= i /\ line'[j] = c

NobodyOvertakes == [][\A c \in Callers : KeepsItsPlace(c)]_spokenVars

(* What a step may do to the line. *)
Remains  == line' = line /\ \A d \in Callers : call'[d] = Idle <=> call[d] = Idle
Joins(c) ==
    /\ call[c] = Idle /\ call'[c] # Idle /\ line' = Append(line, c)
    /\ \A d \in Callers : d # c => call'[d] = call[d]
Leaves(c) ==
    /\ line # <<>> /\ Head(line) = c /\ call'[c] = Idle /\ line' = Tail(line)
    /\ \A d \in Callers : d # c => call'[d] = call[d]
Empties  == line' = <<>> /\ \A d \in Callers : call'[d] = Idle

LEMMA AttemptInLine ==
    ASSUME UnlockInv, NEW c \in Callers, Attempt(c)
    PROVE  Remains \/ Leaves(c)
  <1>1. call \in [Callers -> {Idle} \union AttemptRecord]
    BY DEF UnlockInv, UnlockTypes
  <1>2. Holds(c, Inside \union {"waiting"})
    BY DEF Attempt, RateLimited, PruneAndCheckBlock, ReadCredential, ReadOwnerRole, Verify,
           IssueForPerson, StoreFails, Holds, Inside
  <1>3. line # <<>> /\ Head(line) = c /\ call[c] # Idle /\ call[c] \in AttemptRecord
    BY <1>2, Holder DEF Holds
  <1>4. ASSUME Answered(c) PROVE Leaves(c)
    BY <1>1, <1>3, <1>4 DEF Answered, Leaves
  <1>5. ASSUME NEW q, call' = [call EXCEPT ![c] = q], q.pc \in Inside, line' = line
        PROVE  Remains
    <2>1. q # Idle
      BY <1>5, Constants DEF Inside
    <2> QED
      BY <1>1, <1>3, <1>5, <2>1 DEF Remains
  <1>6. ASSUME NEW pc \in Inside, Goto(c, pc) PROVE Remains
    <2>1. PICK q : q = [call[c] EXCEPT !.pc = pc]
      OBVIOUS
    <2>2. q.pc = pc /\ call' = [call EXCEPT ![c] = q] /\ line' = line
      BY <1>1, <1>3, <1>6, <2>1 DEF Goto, AttemptRecord
    <2> QED
      BY <1>5, <2>2
  <1>7. CASE PruneAndCheckBlock(c)
    <2>1. PICK q : q = [call[c] EXCEPT !.pc = "credential", !.now = clock, !.actives = {pin}]
      OBVIOUS
    <2>2. q.pc = "credential" /\ call' = [call EXCEPT ![c] = q] /\ line' = line
      BY <1>1, <1>3, <1>7, <2>1 DEF PruneAndCheckBlock, AttemptRecord
    <2> QED
      BY <1>5, <2>2 DEF Inside
  <1>8. CASE ReadCredential(c)
    <2>1. CASE Fail(c)
      BY <1>4, <2>1 DEF Fail
    <2>2. CASE ~ Fail(c)
      <3>1. PICK version : call' = [call EXCEPT ![c].pc = "role", ![c].credential = version]
                           /\ line' = line
        BY <1>8, <2>2 DEF ReadCredential
      <3>2. PICK q : q = [call[c] EXCEPT !.pc = "role", !.credential = version]
        OBVIOUS
      <3>3. q.pc = "role" /\ call' = [call EXCEPT ![c] = q]
        BY <1>1, <1>3, <3>1, <3>2 DEF AttemptRecord
      <3> QED
        BY <1>5, <3>1, <3>3 DEF Inside
    <2> QED
      BY <2>1, <2>2
  <1> QED
    BY <1>4, <1>6, <1>7, <1>8 DEF Attempt, RateLimited, ReadOwnerRole, Verify, IssueForPerson,
                                  StoreFails, Fail, Inside

LEMMA CallInLine ==
    ASSUME UnlockInv, NEW c \in Callers, NEW guess, NEW scope, Call(c, guess, scope)
    PROVE  Joins(c)
  <1>1. call \in [Callers -> {Idle} \union AttemptRecord]
    BY DEF UnlockInv, UnlockTypes
  <1>2. PICK a : a = [pc |-> "waiting", token |-> calls + 1, guess |-> guess, scope |-> scope,
                      now |-> clock, credential |-> NoPin, actives |-> {}]
    OBVIOUS
  <1>3. a # Idle
    BY <1>2, Constants
  <1>4. call[c] = Idle /\ call' = [call EXCEPT ![c] = a] /\ line' = Append(line, c)
    BY <1>2 DEF Call
  <1> QED
    BY <1>1, <1>3, <1>4 DEF Joins

LEMMA StepsInLine ==
    ASSUME UnlockInv, [SpokenNext]_spokenVars
    PROVE  Remains \/ (\E c \in Callers : Joins(c) \/ Leaves(c)) \/ Empties
  <1>1. ASSUME UNCHANGED <<line, call>> PROVE Remains
    BY <1>1 DEF Remains
  <1>2. ASSUME NEW step, OperatorStep(step), UNCHANGED mix PROVE Remains
    <2>1. line' = line
      BY <1>2, OperatorTypes
    <2>2. CASE UNCHANGED call
      BY <1>1, <2>1, <2>2
    <2>3. CASE \E version \in Nat : BecomesActive(version)
      <3>1. \A c \in Callers : AttemptStays(c)
        BY <2>3, BecomingActive
      <3> QED
        BY <2>1, <3>1 DEF Remains, AttemptStays
    <2> QED
      BY <1>2, <2>2, <2>3, OperatorTypes
  <1>3. CASE Tick \/ (Beside /\ TakesOut) \/ UNCHANGED spokenVars
    BY <1>1, <1>3 DEF Tick, Beside, unlockVars, spokenVars, vars
  <1>4. CASE Restart
    BY <1>4 DEF Restart, Empties
  <1>5. ASSUME NEW c \in Callers, UnlockStep(c, IF calls < Bounds.calls THEN Bounds.unlocks ELSE {})
        PROVE  Remains \/ Joins(c) \/ Leaves(c)
    BY <1>5, AttemptInLine, CallInLine DEF UnlockStep
  <1> QED
    BY <1>2, <1>3, <1>4, <1>5, SidesOfAStep

LEMMA LineKept ==
    ASSUME UnlockInv, AttemptsInLine, [SpokenNext]_spokenVars
    PROVE  AttemptsInLine' /\ \A c \in Callers : KeepsItsPlace(c)
  <1>1. PICK w \in Seq(Callers) : w = line
    BY DEF UnlockInv, UnlockTypes
  <1>2. PICK n \in Nat : n = Len(w) /\ DOMAIN w = 1..n
    BY <1>1
  <1>3. /\ \A i, j \in 1..n : w[i] = w[j] => i = j
        /\ \A c \in Callers : call[c] # Idle <=> \E i \in 1..n : w[i] = c
    BY <1>1, <1>2 DEF AttemptsInLine
  <1>4. CASE Remains
    BY <1>1, <1>2, <1>4 DEF Remains, AttemptsInLine, KeepsItsPlace
  <1>5. CASE Empties
    <2>1. DOMAIN line' = {}
      BY <1>5 DEF Empties
    <2> QED
      BY <1>5, <2>1 DEF Empties, AttemptsInLine, KeepsItsPlace
  <1>6. ASSUME NEW c \in Callers, Joins(c)
        PROVE  AttemptsInLine' /\ \A d \in Callers : KeepsItsPlace(d)
    <2>1. PICK v : v = line'
      OBVIOUS
    <2>2. /\ v \in Seq(Callers) /\ Len(v) = n + 1 /\ v[n + 1] = c
          /\ \A i \in 1..n : v[i] = w[i]
      BY <1>1, <1>2, <1>6, <2>1, AppendProperties DEF Joins
    <2>3. DOMAIN v = 1..n + 1
      BY <2>2
    <2>4. \A i \in 1..n : w[i] # c
      BY <1>3, <1>6 DEF Joins
    <2>5. ASSUME NEW i \in 1..n + 1, NEW j \in 1..n + 1, v[i] = v[j] PROVE i = j
      <3>1. CASE i = n + 1 \/ j = n + 1
        BY <2>2, <2>4, <2>5, <3>1
      <3>2. CASE i # n + 1 /\ j # n + 1
        <4>1. i \in 1..n /\ j \in 1..n
          BY <3>2
        <4> QED
          BY <1>3, <2>2, <2>5, <4>1
      <3> QED
        BY <3>1, <3>2
    <2>6. ASSUME NEW d \in Callers
          PROVE  call'[d] # Idle <=> \E i \in 1..n + 1 : v[i] = d
      <3>1. CASE d = c
        BY <1>6, <2>2, <3>1 DEF Joins
      <3>2. CASE d # c
        <4>1. (\E i \in 1..n + 1 : v[i] = d) <=> \E i \in 1..n : w[i] = d
          BY <2>2, <3>2
        <4> QED
          BY <1>3, <1>6, <3>2, <4>1 DEF Joins
      <3> QED
        BY <3>1, <3>2
    <2>7. \A i \in 1..n : i \in 1..n + 1 /\ i <= i
      OBVIOUS
    <2>8. \A d \in Callers : KeepsItsPlace(d)
      BY <1>1, <1>2, <2>1, <2>2, <2>3, <2>7 DEF KeepsItsPlace
    <2> QED
      BY <2>1, <2>3, <2>5, <2>6, <2>8 DEF AttemptsInLine
  <1>7. ASSUME NEW c \in Callers, Leaves(c)
        PROVE  AttemptsInLine' /\ \A d \in Callers : KeepsItsPlace(d)
    <2>1. PICK v : v = line'
      OBVIOUS
    <2>2. /\ w # <<>> /\ v = Tail(w) /\ Head(w) = c
      BY <1>1, <1>7, <2>1 DEF Leaves
    <2>3. /\ v \in Seq(Callers) /\ Len(v) = n - 1 /\ \A i \in 1..n - 1 : v[i] = w[i + 1]
      BY <1>2, <2>2, HeadTailProperties
    <2>4. n \in Nat \ {0} /\ w[1] = c /\ 1 \in 1..n
      BY <1>2, <2>2
    <2>5. DOMAIN v = 1..n - 1 /\ \A i \in 1..n - 1 : i + 1 \in 1..n
      BY <2>3, <2>4
    <2>6. \A i, j \in 1..n - 1 : v[i] = v[j] => i = j
      <3>1. \A i, j \in 1..n - 1 : i + 1 = j + 1 => i = j
        BY <2>4
      <3> QED
        BY <1>3, <2>3, <2>5, <3>1
    <2>7. \A i \in 1..n - 1 : v[i] # c
      <3>1. \A i \in 1..n - 1 : i + 1 # 1
        BY <2>4
      <3> QED
        BY <1>3, <2>3, <2>4, <2>5, <3>1
    <2>8. ASSUME NEW d \in Callers, d # c, NEW i \in 1..n, w[i] = d
          PROVE  \E j \in 1..n - 1 : j <= i /\ v[j] = d
      <3>1. i # 1
        BY <2>4, <2>8
      <3>2. i - 1 \in 1..n - 1 /\ i - 1 <= i /\ (i - 1) + 1 = i
        BY <2>4, <3>1
      <3>3. v[i - 1] = w[(i - 1) + 1]
        BY <2>3, <3>2
      <3> QED
        BY <2>8, <3>2, <3>3
    <2>9. ASSUME NEW d \in Callers
          PROVE  call'[d] # Idle <=> \E i \in 1..n - 1 : v[i] = d
      <3>1. CASE d = c
        BY <1>7, <2>7, <3>1 DEF Leaves
      <3>2. CASE d # c
        <4>1. (\E i \in 1..n - 1 : v[i] = d) <=> \E i \in 1..n : w[i] = d
          BY <2>3, <2>5, <2>8, <3>2
        <4> QED
          BY <1>3, <1>7, <3>2, <4>1 DEF Leaves
      <3> QED
        BY <3>1, <3>2
    <2>10. ASSUME NEW d \in Callers PROVE KeepsItsPlace(d)
      <3>1. CASE d = c
        BY <1>7, <3>1 DEF KeepsItsPlace, Leaves
      <3>2. CASE d # c
        <4>1. \A i \in 1..n : w[i] = d => \E j \in 1..n - 1 : j <= i /\ v[j] = d
          BY <2>8, <3>2
        <4> QED
          BY <1>1, <1>2, <2>1, <2>5, <4>1 DEF KeepsItsPlace
      <3> QED
        BY <3>1, <3>2
    <2> QED
      BY <2>1, <2>5, <2>6, <2>9, <2>10 DEF AttemptsInLine
  <1> QED
    BY <1>4, <1>5, <1>6, <1>7, StepsInLine

(* Every attempt has its place in the line for the lock, and nobody is in   *)
(* the line, or holds the lock, without an attempt (unlock).                *)
THEOREM EveryAttemptHasItsPlace == SpokenSpec => []AttemptsInLine
  <1>1. SpokenInit => AttemptsInLine
    BY DEF SpokenInit, Init, UnlockInit, AttemptsInLine
  <1>2. UnlockInv /\ AttemptsInLine /\ [SpokenNext]_spokenVars => AttemptsInLine'
    BY LineKept
  <1> QED
    BY <1>1, <1>2, UnlockInvariant, PTL DEF SpokenSpec

(* The lock is handed on in the order of the calls: whatever fails, no      *)
(* attempt is overtaken by another (async with _attempt_lock).              *)
THEOREM AttemptsAreServedInOrder == SpokenSpec => NobodyOvertakes
  <1>1. UnlockInv /\ AttemptsInLine /\ [SpokenNext]_spokenVars
          => [\A c \in Callers : KeepsItsPlace(c)]_spokenVars
    BY LineKept
  <1>2. [](UnlockInv /\ AttemptsInLine) /\ [][SpokenNext]_spokenVars
          => [][\A c \in Callers : KeepsItsPlace(c)]_spokenVars
    BY <1>1, PTL
  <1> QED
    BY <1>2, UnlockInvariant, EveryAttemptHasItsPlace, PTL DEF SpokenSpec, NobodyOvertakes
=============================================================================
