---------------------------- MODULE OwnerUnlock ----------------------------
(***************************************************************************)
(* Unlocking with the owner's PIN, and the one-use grants it issues        *)
(* (server/cognition/owner_authentication.py, identity_sessions.py).       *)
(*                                                                         *)
(* POST /auth/owner/unlock runs one whole attempt under a lock; every      *)
(* await inside it is a step of its own, so the operator may change the    *)
(* PIN or the role, and requests may spend grants, between any two.  The   *)
(* scrypt digest is abstracted to the version of the PIN that was typed.   *)
(***************************************************************************)
EXTENDS Integers, Sequences, FiniteSets, Authorization

CONSTANTS
    Callers,        \* the clients that may be unlocking at one time
    Owner,          \* the person who has the PIN
    Scopes,         \* the operations a grant may be bound to
    Window,         \* _FAILURE_WINDOW and _BLOCK_DURATION
    MaxFailures,    \* _MAX_FAILURES
    TTL,            \* owner_unlock_ttl_seconds
    MaxTime,        \* bound: the last clock reading
    MaxCalls,       \* bound: unlock attempts, each with a token of its own
    MaxPins         \* bound: PIN versions

ASSUME UnlockAssumption ==
    /\ {Window, MaxFailures, TTL, MaxPins} \subseteq Nat \ {0}
    /\ {MaxTime, MaxCalls} \subseteq Nat

NoPin      == 0
NotBlocked == -1
Idle       == [pc |-> "idle"]
NoGrant    == [source |-> "none"]
Tokens     == 1..MaxCalls
Times      == 0..MaxTime

VARIABLES
    clock,      \* the time
    role,       \* the active household role of Owner
    pin,        \* the version of the active PIN, or NoPin
    pins,       \* how many versions there have been
    saving,     \* a new PIN passed its role check and is about to be stored
    line,       \* the callers waiting for _attempt_lock; the first one holds it
    call,       \* what each caller is doing
    calls,      \* how many attempts have been made
    failures,   \* _failures: the times of the recent failed attempts
    blocked,    \* _blocked_until, or NotBlocked
    grants,     \* the registry: the evidence behind each live token
    wrong       \* history: the failed attempts since the last right one

unlockVars   == <<line, call, calls, failures, blocked, wrong>>
operatorVars == <<role, pin, pins, saving>>

Grant(scope, expires) ==
    [source |-> "local_unlock", candidate |-> Owner, expires |-> expires,
     scope |-> scope, spent |-> FALSE]

UnlockInit ==
    /\ clock = 0
    /\ role = "owner"
    /\ pin = 1 /\ pins = 1 /\ saving = FALSE
    /\ line = <<>>
    /\ call = [c \in Callers |-> Idle]
    /\ calls = 0
    /\ failures = <<>> /\ blocked = NotBlocked /\ wrong = <<>>

Tick ==
    /\ clock < MaxTime
    /\ clock' = clock + 1
    /\ UNCHANGED <<operatorVars, unlockVars, grants>>

-----------------------------------------------------------------------------
(* One attempt.  "now" is the clock reading it took when it got the lock, *)
(* "actives" the PINs that have been active since then.                   *)

Call(c, guess, scope) ==
    /\ call[c] = Idle
    /\ calls < MaxCalls
    /\ call' = [call EXCEPT ![c] =
                  [pc |-> "waiting", token |-> calls + 1, guess |-> guess, scope |-> scope,
                   now |-> clock, credential |-> NoPin, actives |-> {}]]
    /\ line' = Append(line, c)
    /\ calls' = calls + 1
    /\ UNCHANGED <<failures, blocked, wrong, grants>>

Holds(c, pcs) == line # <<>> /\ Head(line) = c /\ call[c].pc \in pcs

Goto(c, pc) ==
    /\ call' = [call EXCEPT ![c].pc = pc]
    /\ UNCHANGED <<line, calls>>

Answered(c) ==
    /\ call' = [call EXCEPT ![c] = Idle]
    /\ line' = Tail(line)
    /\ UNCHANGED calls

RecordFailure(now) ==
    /\ IF Len(failures) + 1 >= MaxFailures
       THEN blocked' = now + Window /\ failures' = <<>>
       ELSE failures' = Append(failures, now) /\ UNCHANGED blocked
    /\ wrong' = Append(wrong, now)

Fail(c) == Answered(c) /\ RecordFailure(call[c].now)

Limiter == <<failures, blocked, wrong>>

(* 429, while the block lasts. *)
RateLimited(c) ==
    /\ Holds(c, {"waiting"})
    /\ blocked # NotBlocked /\ clock < blocked
    /\ Answered(c)
    /\ UNCHANGED <<Limiter, grants>>

(* The attempts after the cutoff, in their order. *)
After(attempts, cutoff) ==
    LET kept[i \in 0..Len(attempts)] ==
            IF i = 0 THEN <<>>
            ELSE IF attempts[i] > cutoff THEN Append(kept[i - 1], attempts[i])
            ELSE kept[i - 1]
    IN  kept[Len(attempts)]

\* Mutation of PruneAndCheckBlock: the limiter is looked at before the lock.
PruneOutsideTheLock(c) ==
    /\ call[c].pc = "waiting"
    /\ blocked # NotBlocked => clock >= blocked
    /\ blocked' = NotBlocked
    /\ failures' = After(failures, clock - Window)
    /\ call' = [call EXCEPT ![c].pc = "credential", ![c].now = clock, ![c].actives = {pin}]
    /\ UNCHANGED <<line, calls, wrong, grants>>

(* An expired block is cleared, and the failures outside the window go. *)
PruneAndCheckBlock(c) ==
    /\ Holds(c, {"waiting"})
    /\ blocked # NotBlocked => clock >= blocked
    /\ blocked' = NotBlocked
    /\ failures' = After(failures, clock - Window)
    /\ call' = [call EXCEPT ![c].pc = "credential", ![c].now = clock, ![c].actives = {pin}]
    /\ UNCHANGED <<line, calls, wrong, grants>>

\* Mutation of ActiveCredential: revoked_at is not looked at.
AnyCredential(version) == version \in 1..pins

ActiveCredential(version) == version = pin

ReadCredential(c) ==
    /\ Holds(c, {"credential"})
    /\ \/ pin = NoPin /\ Fail(c)
       \/ \E version \in 1..pins :
            /\ ActiveCredential(version)
            /\ call' = [call EXCEPT ![c].pc = "role", ![c].credential = version]
            /\ UNCHANGED <<line, calls, Limiter>>
    /\ UNCHANGED grants

ReadOwnerRole(c) ==
    /\ Holds(c, {"role"})
    /\ IF role = "owner" THEN Goto(c, "verify") /\ UNCHANGED Limiter ELSE Fail(c)
    /\ UNCHANGED grants

(* verify_pin runs in a thread; the lock is held meanwhile. *)
Verify(c) ==
    /\ Holds(c, {"verify"})
    /\ IF call[c].guess = call[c].credential
       THEN Goto(c, "person") /\ failures' = <<>> /\ wrong' = <<>> /\ UNCHANGED blocked
       ELSE Fail(c)
    /\ UNCHANGED grants

IssueForPerson(c) ==
    /\ Holds(c, {"person"})
    /\ grants' = [grants EXCEPT ![call[c].token] = Grant(call[c].scope, clock + TTL)]
    /\ Answered(c)
    /\ UNCHANGED Limiter

\* Mutation of StoreFails: the exception skips the release of the lock.
StoreFailsLocked(c) ==
    /\ Holds(c, {"credential", "role", "person"})
    /\ call' = [call EXCEPT ![c] = Idle]
    /\ UNCHANGED <<line, calls, Limiter, grants>>

(* A read that raises answers 500 and counts as nothing. *)
StoreFails(c) ==
    /\ Holds(c, {"credential", "role", "person"})
    /\ Answered(c)
    /\ UNCHANGED <<Limiter, grants>>

Attempt(c) ==
    \/ RateLimited(c) \/ PruneAndCheckBlock(c) \/ ReadCredential(c)
    \/ ReadOwnerRole(c) \/ Verify(c) \/ IssueForPerson(c) \/ StoreFails(c)

UnlockStep(c, scopes) ==
    /\ \/ \E guess \in 0..pins, scope \in scopes : Call(c, guess, scope)
       \/ Attempt(c)
    /\ UNCHANGED <<clock, operatorVars>>

-----------------------------------------------------------------------------
(* The local operator, in a process of its own: a PIN is created or        *)
(* rotated by just setup-personal, whose role check precedes its           *)
(* transaction; a PIN, or a role with its PIN, can be revoked.             *)

BecomesActive(version) ==
    /\ pin' = version
    /\ call' = [c \in Callers |->
                  IF call[c].pc \in {"idle", "waiting"} THEN call[c]
                  ELSE [call[c] EXCEPT !.actives = @ \union {version}]]

CheckOwnerRole ==
    /\ role = "owner" /\ pins < MaxPins /\ ~saving
    /\ saving' = TRUE
    /\ UNCHANGED <<role, pin, pins, call>>

SavePin ==
    /\ saving
    /\ saving' = FALSE
    /\ pins' = pins + 1
    /\ BecomesActive(pins + 1)
    /\ UNCHANGED role

RevokePin ==
    /\ pin # NoPin
    /\ BecomesActive(NoPin)
    /\ UNCHANGED <<role, pins, saving>>

RevokeActiveRole ==
    /\ role = "owner"
    /\ role' = "unknown"
    /\ BecomesActive(NoPin)
    /\ UNCHANGED <<pins, saving>>

OperatorStep(step) ==
    /\ \/ step = "save_pin" /\ (CheckOwnerRole \/ SavePin)
       \/ step = "revoke_pin" /\ RevokePin
       \/ step = "revoke_role" /\ RevokeActiveRole
    /\ UNCHANGED <<clock, line, calls, Limiter, grants>>

-----------------------------------------------------------------------------
(* The registry.  Reading a token that has expired forgets it; a token of *)
(* another operation is refused and kept.                                 *)

Live(token)  == token \in Tokens /\ grants[token] # NoGrant
Fresh(token) == Live(token) /\ grants[token].expires > clock

ScopeAllows(token, scope) == grants[token].scope = scope

(* evidence_for: a look that spends nothing. *)
PeekEvidence(token, scope) ==
    IF Fresh(token) /\ ScopeAllows(token, scope) THEN {grants[token]} ELSE {}

(* consume_evidence: the copy that is returned is marked as spent. *)
ConsumedEvidence(token, scope) ==
    {[item EXCEPT !.spent = TRUE] : item \in PeekEvidence(token, scope)}

Forgotten(token) == grants' = [grants EXCEPT ![token] = NoGrant]

PeekLeaves(token) ==
    IF Live(token) /\ ~Fresh(token) THEN Forgotten(token) ELSE UNCHANGED grants

\* Mutation of ConsumeLeaves: spending reads the token and forgets nothing.
ConsumeKeeps(token, scope) == PeekLeaves(token)

(* A refused token is looked at once more, to log the mismatch. *)
ConsumeLeaves(token, scope) ==
    IF Live(token) /\ (ScopeAllows(token, scope) \/ ~Fresh(token))
    THEN Forgotten(token) ELSE UNCHANGED grants
=============================================================================
