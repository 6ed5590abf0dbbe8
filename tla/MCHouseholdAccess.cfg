SPECIFICATION FairSpokenSpec
CONSTANTS
    c1 = c1
    c2 = c2
    r1 = r1
    r2 = r2
    Callers = {c1, c2}
    Requests = {r1, r2}
    Owner = owner
    NoPerson = nobody
    NoSubject = nosubject
    Never = never
    Scopes = {"personal_protected_read", "biometric_admin"}
    Window = 2
    MaxFailures = 2
    TTL = 1
    MaxTime = 3
    MaxCalls = 4
    MaxPins = 2
    LeastPrints = 2
    MaxProfiles = 3
    Messages <- WhatIsSaid
    StoredNames <- Zeta
    Mixes <- AllMixes
INVARIANT GuessesBounded
INVARIANT ReadsAreAudited
INVARIANT RevokedSpeakerReadsNothing
INVARIANT OneRequestPerGrant
INVARIANT HouseholdStaysProtected
INVARIANT NamesAreNoOracle
PROPERTY IssuedForAnActivePin
PROPERTY EveryAttemptAnswered
CHECK_DEADLOCK FALSE
