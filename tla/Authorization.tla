--------------------------- MODULE Authorization ---------------------------
(***************************************************************************)
(* The household policy: one request in, one decision out, with no state   *)
(* and no I/O (server/cognition/authorization.py).                         *)
(*                                                                         *)
(* A request is a record                                                   *)
(*   [actor, action, target, subject, shape, visibility, sensitivity,      *)
(*    consent, at];                                                        *)
(* a decision is "allowed", "denied" or "requires_confirmation".  The id   *)
(* and the wording of the rule that decided are left out, so several       *)
(* checks that all deny are conjuncts rather than a sequence.              *)
(***************************************************************************)
EXTENDS Identity

CONSTANT NoSubject   \* the subject, or shape, of a request nobody classified

Visibility  == {"public", "household", "adults", "personal", "private", "temporary"}
Sensitivity == {"normal", "private", "biometric", "medical", "location",
                "child_data", "security"}
Consent     == {"not_required", "granted", "missing", "revoked"}
Decision    == {"allowed", "denied", "requires_confirmation"}

SensitiveCategories == {"biometric", "medical", "location", "child_data", "security"}

HighAssuranceCategories   == {"security"}
PersonalStrongCategories  == {"biometric", "medical", "location"}
OwnReadBasicCategories    == {"medical", "location"}

-----------------------------------------------------------------------------
Sensitive(request) == request.sensitivity \intersect SensitiveCategories # {}

ResolvedActor(request) ==
    Identified(request.actor) /\ request.actor.role # "unknown"

LacksRequiredAssurance(request) ==
    /\ request.sensitivity \intersect HighAssuranceCategories # {}
    /\ request.actor.assurance # "strong"

Allow(condition) == IF condition THEN "allowed" ELSE "denied"

-----------------------------------------------------------------------------
(* The older actions: reads, administration, biometrics, the body. *)

EvaluateSensitiveRead(request) ==
    IF request.consent # "granted" THEN "denied"
    ELSE IF request.actor.role = "owner" THEN "allowed"
    ELSE "requires_confirmation"

OwnNormalPersonalData(request) ==
    /\ request.target = request.actor.person
    /\ request.visibility = {"personal"}
    /\ request.sensitivity = {"normal"}

EvaluatePublicRead(request) ==
    IF request.actor.role = "child" THEN "requires_confirmation"
    ELSE Allow(request.actor.role \in {"owner", "adult"})

EvaluateNormalHouseholdRead(request) ==
    Allow(\/ request.actor.role = "owner" /\ request.visibility \subseteq {"household", "adults"}
          \/ request.actor.role = "adult" /\ request.visibility = {"household"})

EvaluateRead(request) ==
    IF Sensitive(request) THEN EvaluateSensitiveRead(request)
    ELSE IF OwnNormalPersonalData(request) THEN "allowed"
    ELSE IF request.visibility = {"public"} THEN EvaluatePublicRead(request)
    ELSE EvaluateNormalHouseholdRead(request)

EvaluateOwnerAdministration(request) == Allow(request.actor.role = "owner")

EvaluateSensitiveOwnerAction(request) ==
    Allow(request.actor.role = "owner" /\ request.consent = "granted")

EvaluatePhysicalActionProposal(request) == Allow(request.actor.role \in {"owner", "adult"})

ReadActions           == {"read_household_data", "execute_household_tool"}
AdministrationActions == {"manage_household_role", "export_household_data",
                          "delete_household_data"}
SensitiveOwnerActions == {"enroll_biometric", "consider_cloud_escalation"}

EvaluateLegacyRequest(request) ==
    IF request.action \in ReadActions THEN EvaluateRead(request)
    ELSE IF request.action \in AdministrationActions THEN EvaluateOwnerAdministration(request)
    ELSE IF request.action \in SensitiveOwnerActions THEN EvaluateSensitiveOwnerAction(request)
    ELSE IF request.action = "propose_physical_action"
         THEN EvaluatePhysicalActionProposal(request)
    ELSE "denied"

-----------------------------------------------------------------------------
(* The personal memory of the owner. *)

NoScope == "none"

PersonalMemory(least, consents, unlock, scope, visibilities) ==
    [least |-> least, consents |-> consents, unlock |-> unlock, scope |-> scope,
     visibilities |-> visibilities]

PersonalMemoryCapabilities ==
    [read_personal_conversation_memory |->
        PersonalMemory("basic", TRUE, FALSE, "personal_memory_read", {"personal"}),
     propose_personal_memory |->
        PersonalMemory("basic", TRUE, FALSE, NoScope, {"personal"}),
     confirm_personal_memory |->
        PersonalMemory("strong", TRUE, FALSE, NoScope, {"personal"}),
     correct_personal_memory |->
        PersonalMemory("basic", TRUE, FALSE, NoScope, {"personal"}),
     forget_personal_memory |->
        PersonalMemory("strong", FALSE, TRUE, "personal_memory_forget",
                       {"personal", "private", "temporary"})]

PersonalMemoryActions == DOMAIN PersonalMemoryCapabilities

OwnData(request, capability) ==
    /\ request.target # NoPerson
    /\ request.target = request.actor.person
    /\ request.visibility # {}
    /\ request.visibility \subseteq capability.visibilities

(* Reading one's own medical or location data needs the face alone. *)
StrongCategories(action) ==
    IF action = "read_personal_conversation_memory"
    THEN PersonalStrongCategories \ OwnReadBasicCategories
    ELSE PersonalStrongCategories

RequiredAssurance(request, capability) ==
    IF request.sensitivity \intersect StrongCategories(request.action) # {}
    THEN "strong" ELSE capability.least

Grants(actor) == {item \in actor.evidence : item.source = "local_unlock"}

(* A PIN grant counts when it was issued for this operation, spent by this *)
(* request, names the acting person and is still fresh.                    *)
ValidGrant(item, request, capability) ==
    /\ capability.scope # NoScope
    /\ item.scope = capability.scope
    /\ item.spent
    /\ item.candidate = request.actor.person
    /\ item.expires # Never /\ item.expires > request.at

GrantsCount(request, capability) ==
    /\ capability.unlock => Grants(request.actor) # {}
    /\ \A item \in Grants(request.actor) : ValidGrant(item, request, capability)

HasConsent(request, capability) ==
    capability.consents /\ Sensitive(request) => request.consent = "granted"

EvaluatePersonalMemory(request, capability) ==
    Allow(/\ request.actor.role = "owner"
          /\ OwnData(request, capability)
          /\ AtLeast(request.actor.assurance, RequiredAssurance(request, capability))
          /\ GrantsCount(request, capability)
          /\ HasConsent(request, capability))

-----------------------------------------------------------------------------
(* What the owner may say about the rest of the house. *)

HouseholdMemoryActions == {"propose_household_memory", "confirm_household_memory"}

HouseholdSubjects ==
    [literal |-> {"child", "pet"}, relation |-> {"child", "partner", "pet"}]

(* The owner speaks for a child, so a child's own data needs no consent. *)
HouseholdConsentCategories == SensitiveCategories \ {"child_data", "security"}

AllowedHouseholdSubject(request) ==
    /\ request.visibility = {"household"}
    /\ "security" \notin request.sensitivity
    /\ request.shape \in DOMAIN HouseholdSubjects
    /\ request.subject \in HouseholdSubjects[request.shape]

LacksHouseholdConsent(request) ==
    /\ request.sensitivity \intersect HouseholdConsentCategories # {}
    /\ request.consent # "granted"

EvaluateHouseholdMemory(request) ==
    Allow(/\ request.actor.role = "owner"
          /\ AllowedHouseholdSubject(request)
          /\ AtLeast(request.actor.assurance, "strong")
          /\ Grants(request.actor) = {}
          /\ ~LacksHouseholdConsent(request))

-----------------------------------------------------------------------------
EvaluateResolvedRequest(request) ==
    IF request.action \in PersonalMemoryActions
    THEN EvaluatePersonalMemory(request, PersonalMemoryCapabilities[request.action])
    ELSE IF request.action \in HouseholdMemoryActions THEN EvaluateHouseholdMemory(request)
    ELSE EvaluateLegacyRequest(request)

(* Conversation carries no protected category; everything else needs a *)
(* resolved household role, and security data strong assurance.        *)
EvaluateAuthorization(request) ==
    IF request.action = "general_conversation"
    THEN Allow(request.visibility = {"public"} /\ request.sensitivity = {"normal"})
    ELSE IF ~ResolvedActor(request) \/ LacksRequiredAssurance(request) THEN "denied"
    ELSE EvaluateResolvedRequest(request)
=============================================================================
