SPECIFICATION SpokenSpec
CONSTANTS
    c1 = c1
    c2 = c2
    r1 = r1
    r2 = r2
    Callers = {c1, c2}
    Requests = {r1, r2}
    Owner = owner
    NoPerson = nobody
    NoSubject = nosubject
    Never = never
    Scopes = {"personal_protected_read", "biometric_admin"}
    Window = 2
    MaxFailures = 2
    TTL = 1
    MaxTime = 1
    MaxCalls = 2
    MaxPins = 2
    LeastPrints = 2
    MaxProfiles = 3
    Messages <- WhatIsSaid
    StoredNames <- Zeta
    Mixes <- AdminMix
INVARIANT NoPrintWithoutConsent
CHECK_DEADLOCK FALSE
