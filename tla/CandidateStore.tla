--------------------------- MODULE CandidateStore ---------------------------
(***************************************************************************)
(* server/src/server/memory/candidates.py with its one writer              *)
(* memory_writer.py, the retention job (retention.py) and the start-up     *)
(* order of main.py: claims the owner made about their own taste, kept     *)
(* until the owner confirms or rejects them or they lapse.                 *)
(*                                                                         *)
(* Every entry of the store is one write transaction, which WriteTrans-    *)
(* action shows to be atomic, followed by checkpoint_after_scrub, which    *)
(* folds the write-ahead log so that erased bytes leave the disk.  The     *)
(* entry reads its clock before it waits for the write lock, so a          *)
(* transaction may run with an older "now" than the one before it.         *)
(***************************************************************************)
EXTENDS Integers, FiniteSets, FiniteSetsExt

CONSTANTS
  Person,        \* people a candidate may be about
  Claim,         \* (predicate, comparison key) pairs
  Edited,        \* the claims that tools outside the server write or revoke
  Opposite,      \* Opposite[k]: the claims of the same key and opposite predicate
  CandId,        \* row ids of memory_candidates
  Task,          \* coroutines that enter the store
  Retention,     \* the coroutine of the retention job
  Nobody,        \* subject of a row that does not exist
  Erased,        \* value of a row that holds none
  Ttl,           \* memory_candidate_ttl_seconds
  AnswerWindow,  \* memory_candidate_answer_seconds
  MaxOffers,     \* memory_candidate_max_offers
  MaxLive,       \* memory_candidate_max_live
  MaxTime,       \* bound on the clock
  CommitCancel   \* whether a cancellation may hit an entry at its COMMIT

ASSUME ConstantsAssumption ==
  /\ Opposite \in [Claim -> SUBSET Claim]
  /\ Edited \subseteq Claim
  /\ Retention \in Task
  /\ Nobody \notin Person
  /\ Erased \notin Claim
  /\ Ttl \in Nat \ {0}
  /\ AnswerWindow \in Nat \ {0}
  /\ MaxOffers \in Nat \ {0}
  /\ MaxLive \in Nat \ {0}
  /\ MaxTime \in Nat
  /\ CommitCancel \in BOOLEAN

VARIABLES
  table,    \* memory_candidates
  facts,    \* facts[p]: active literal facts of p about taste
  logged,   \* bytes of an erased value are still in the write-ahead log
  clock,    \* wall time
  phase,    \* "down", "reset" (start-up has reconciled the store) or "up"
  enabled,  \* memory_candidates_enabled of the running process
  pending,  \* _checkpoint_pending
  pc        \* pc[t]: "idle", or where t is after its transaction

vars == <<table, facts, logged, clock, phase, enabled, pending, pc>>

LiveStatus == {"proposed", "offered"}
FinalStatus == {"confirmed", "rejected", "expired"}

Row == [status : LiveStatus \cup FinalStatus \cup {"absent"},
        subject : Person \cup {Nobody},
        claim : Claim \cup {Erased},
        offeredAt : Nat,
        expiresAt : Nat,
        offers : Nat]

\* A time no row has: the column is NULL.
Null == 0
NoRow == [status |-> "absent", subject |-> Nobody, claim |-> Erased,
          offeredAt |-> Null, expiresAt |-> Null, offers |-> 0]

Live(row) == row.status \in LiveStatus

TypeOK ==
  /\ table \in [CandId -> Row]
  /\ facts \in [Person -> SUBSET Claim]
  /\ logged \in BOOLEAN
  /\ clock \in Nat
  /\ phase \in {"down", "reset", "up"}
  /\ enabled \in BOOLEAN
  /\ pending \in BOOLEAN
  /\ pc \in [Task -> {"idle", "scrubbed", "clean", "truncating"}]

Init ==
  /\ table = [c \in CandId |-> NoRow]
  /\ facts = [p \in Person |-> {}]
  /\ logged = FALSE
  /\ clock = 1
  /\ phase = "down"
  /\ enabled = FALSE
  /\ pending = FALSE
  /\ pc = [t \in Task |-> "idle"]

-----------------------------------------------------------------------------
(* Statements on the table, as functions from table to table. *)

\* The UPDATE every resolution makes: the value goes with the status.  The
\* deadlines and the offer count, which nothing reads any more, are dropped.
Resolved(row, to) ==
  [status |-> to, subject |-> row.subject, claim |-> Erased,
   offeredAt |-> Null, expiresAt |-> Null, offers |-> 0]

\* An unanswered offer goes back to "proposed".
Reopened(row) == [row EXCEPT !.status = "proposed", !.offeredAt = Null]

\* Mutation of Lapsed: only a candidate out of offers lapses.
LapsedByOffers(row, now) == row.status = "proposed" /\ row.offers >= MaxOffers

\* expire_lapsed_in_transaction
Lapsed(row, now) ==
  \/ Live(row) /\ row.expiresAt <= now
  \/ row.status = "proposed" /\ row.offers >= MaxOffers

ExpireLapsed(rows, now) ==
  [c \in CandId |-> IF Lapsed(rows[c], now)
                    THEN Resolved(rows[c], "expired") ELSE rows[c]]

\* The answer window of an open offer has closed.
Unanswered(row, now) ==
  row.status = "offered" /\ row.offeredAt <= now - AnswerWindow

\* run_housekeeping
Housekept(rows, now) ==
  ExpireLapsed([c \in CandId |-> IF Unanswered(rows[c], now)
                                 THEN Reopened(rows[c]) ELSE rows[c]], now)

\* Mutation of HasOpenOffer: an offer is open at its own instant only.
HasOpenOfferNow(rows, p, now) ==
  \E d \in CandId : /\ rows[d].subject = p
                    /\ rows[d].status = "offered"
                    /\ rows[d].offeredAt > now

\* _OFFERABLE's NOT EXISTS: another offer of p is inside its window.
HasOpenOffer(rows, p, now) ==
  \E d \in CandId : /\ rows[d].subject = p
                    /\ rows[d].status = "offered"
                    /\ rows[d].offeredAt > now - AnswerWindow

LiveOf(rows, p) == {c \in CandId : Live(rows[c]) /\ rows[c].subject = p}

\* Mutation of Blocked: the cap is not looked at.
BlockedByDuplicate(rows, p, k) == \E c \in LiveOf(rows, p) : rows[c].claim = k

\* _blocking_status: DUPLICATE or CAPACITY.
Blocked(rows, p, k) ==
  \/ \E c \in LiveOf(rows, p) : rows[c].claim = k
  \/ Cardinality(LiveOf(rows, p)) >= MaxLive

Proposed(p, k, now) ==
  [status |-> "proposed", subject |-> p, claim |-> k,
   offeredAt |-> Null, expiresAt |-> now + Ttl, offers |-> 0]

\* Mutation of Voided: an open offer is not voided.
VoidedProposed(rows) ==
  [c \in CandId |-> IF rows[c].status = "proposed"
                    THEN Resolved(rows[c], "expired") ELSE rows[c]]

\* VOID_LIVE_SQL
Voided(rows) ==
  [c \in CandId |-> IF Live(rows[c]) THEN Resolved(rows[c], "expired") ELSE rows[c]]

-----------------------------------------------------------------------------
(* Entries of the store.  Each is called by an idle coroutine t of a       *)
(* serving process, with a "now" read at some earlier moment.              *)

Now == 1..clock

\* Replacing the table with rows erases a value.
Scrubs(rows) == \E c \in CandId : Live(table[c]) /\ ~Live(rows[c])

\* t's transaction commits the table rows.  A cancellation at COMMIT does
\* not stop it, but t never gets to the checkpoint.
Commits(t, rows) ==
  /\ table' = rows
  /\ logged' = (logged \/ Scrubs(rows))
  /\ \/ pc' = [pc EXCEPT ![t] = IF Scrubs(rows) THEN "scrubbed" ELSE "clean"]
     \/ CommitCancel /\ UNCHANGED pc
  /\ UNCHANGED <<clock, phase, enabled, pending>>

\* The process serves requests and t is free to enter the store.
Enters(t) == phase = "up" /\ pc[t] = "idle" /\ t # Retention

\* insert_candidate; a refused insert still keeps its housekeeping.
Insert(t, p, k, now) ==
  /\ Enters(t) /\ enabled
  /\ now + Ttl <= MaxTime
  /\ LET kept == Housekept(table, now)
     IN  IF Blocked(kept, p, k)
         THEN Commits(t, kept)
         ELSE \E c \in CandId : /\ kept[c] = NoRow
                                /\ Commits(t, [kept EXCEPT ![c] = Proposed(p, k, now)])
  /\ UNCHANGED facts

\* mark_offered: the compare-and-set, or the housekeeping alone when it loses.
MarkOffered(t, c, p, now) ==
  /\ Enters(t) /\ enabled
  /\ LET kept == Housekept(table, now)
         wins == /\ kept[c].subject = p
                 /\ kept[c].status = "proposed"
                 /\ kept[c].offers < MaxOffers
                 /\ ~HasOpenOffer(kept, p, now)
     IN  Commits(t, IF wins
                    THEN [kept EXCEPT ![c].status = "offered",
                                      ![c].offeredAt = now,
                                      ![c].offers = @ + 1]
                    ELSE kept)
  /\ UNCHANGED facts

\* c may be resolved by p: "status = 'offered'" for that subject.
Answerable(rows, c, p) == rows[c].status = "offered" /\ rows[c].subject = p

\* resolve_candidate, which the dialogue calls to reject.
Reject(t, c, p, now) ==
  /\ Enters(t) /\ enabled
  /\ LET kept == Housekept(table, now)
     IN  Commits(t, IF Answerable(kept, c, p)
                    THEN [kept EXCEPT ![c] = Resolved(@, "rejected")] ELSE kept)
  /\ UNCHANGED facts

\* Mutation of Promote: an opposite fact is not looked for.
PromoteUnopposed(t, c, p, now) ==
  /\ Enters(t) /\ enabled
  /\ LET kept == Housekept(table, now)
     IN  IF Answerable(kept, c, p) /\ kept[c].expiresAt > now
         THEN /\ Commits(t, [kept EXCEPT ![c] = Resolved(@, "confirmed")])
              /\ facts' = [facts EXCEPT ![p] = @ \cup {kept[c].claim}]
         ELSE Commits(t, kept) /\ UNCHANGED facts

\* promote, inside its transaction: NOT_OFFERED, CONTRADICTION (the candidate
\* is closed and nothing written), ALREADY_PRESENT or PROMOTED.
Promote(t, c, p, now) ==
  /\ Enters(t) /\ enabled
  /\ LET kept == Housekept(table, now)
         k == kept[c].claim
     IN  \/ /\ ~Answerable(kept, c, p) \/ kept[c].expiresAt <= now
            /\ Commits(t, kept)
            /\ UNCHANGED facts
         \/ /\ Answerable(kept, c, p) /\ kept[c].expiresAt > now
            /\ facts[p] \cap Opposite[k] # {}
            /\ Commits(t, [kept EXCEPT ![c] = Resolved(@, "rejected")])
            /\ UNCHANGED facts
         \/ /\ Answerable(kept, c, p) /\ kept[c].expiresAt > now
            /\ facts[p] \cap Opposite[k] = {}
            /\ Commits(t, [kept EXCEPT ![c] = Resolved(@, "confirmed")])
            /\ facts' = [facts EXCEPT ![p] = @ \cup {k}]

\* The hourly _reclaim_candidates; it reads its clock inside the transaction.
RetentionRun ==
  /\ phase = "up" /\ pc[Retention] = "idle"
  /\ Commits(Retention, Housekept(table, clock))
  /\ UNCHANGED facts

-----------------------------------------------------------------------------
(* checkpoint_after_scrub *)

\* Mutation of StartCheckpoint: the debt is left to the end of the checkpoint.
StartUnrecorded(t) ==
  /\ pc[t] = "scrubbed" \/ (pc[t] = "clean" /\ pending)
  /\ pc' = [pc EXCEPT ![t] = "truncating"]
  /\ UNCHANGED <<table, facts, logged, clock, phase, enabled, pending>>

\* The debt is recorded before the checkpoint is attempted.
StartCheckpoint(t) ==
  /\ pc[t] = "scrubbed" \/ (pc[t] = "clean" /\ pending)
  /\ pc' = [pc EXCEPT ![t] = "truncating"]
  /\ pending' = TRUE
  /\ UNCHANGED <<table, facts, logged, clock, phase, enabled>>

\* Nothing was scrubbed and nothing is owed.
SkipCheckpoint(t) ==
  /\ pc[t] = "clean" /\ ~pending
  /\ pc' = [pc EXCEPT ![t] = "idle"]
  /\ UNCHANGED <<table, facts, logged, clock, phase, enabled, pending>>

\* checkpoint_wal returned: it truncated the log, or the log was busy.
EndCheckpoint(t, truncated) ==
  /\ pc[t] = "truncating"
  /\ pc' = [pc EXCEPT ![t] = "idle"]
  /\ pending' = ~truncated
  /\ logged' = (logged /\ ~truncated)
  /\ UNCHANGED <<table, facts, clock, phase, enabled>>

\* checkpoint_wal raised: a cancellation, or a closed connection.
CheckpointRaised(t) ==
  /\ pc[t] = "truncating"
  /\ pc' = [pc EXCEPT ![t] = "idle"]
  /\ UNCHANGED <<table, facts, logged, clock, phase, enabled, pending>>

Checkpoint(t) ==
  \/ StartCheckpoint(t) \/ SkipCheckpoint(t) \/ CheckpointRaised(t)
  \/ \E truncated \in BOOLEAN : EndCheckpoint(t, truncated)

-----------------------------------------------------------------------------
(* The process. *)

Tick ==
  /\ clock < MaxTime
  /\ clock' = clock + 1
  /\ UNCHANGED <<table, facts, logged, phase, enabled, pending, pc>>

\* The process dies or is stopped; the log stays on disk, the debt does not.
Stop ==
  /\ phase # "down"
  /\ phase' = "down"
  /\ pending' = FALSE
  /\ pc' = [t \in Task |-> "idle"]
  /\ UNCHANGED <<table, facts, logged, clock, enabled>>

\* reset_for_startup, the transaction: with the switch off every live value is
\* voided; with it on, no offer of the previous process stays open.
Reconcile(on) ==
  /\ phase = "down"
  /\ phase' = "reset"
  /\ enabled' = on
  /\ LET reopened == [c \in CandId |-> IF table[c].status = "offered"
                                       THEN Reopened(table[c]) ELSE table[c]]
         rows == IF on THEN ExpireLapsed(reopened, clock) ELSE Voided(table)
     IN  /\ table' = rows
         /\ logged' = (logged \/ Scrubs(rows))
  /\ pending' = TRUE
  /\ UNCHANGED <<facts, clock, pc>>

\* reset_for_startup, the unconditional checkpoint; then requests are served.
Serve(truncated) ==
  /\ phase = "reset"
  /\ phase' = "up"
  /\ pending' = ~truncated
  /\ logged' = (logged /\ ~truncated)
  /\ UNCHANGED <<table, facts, clock, enabled, pc>>

\* The seed load and the local admin tool write and revoke facts of their own,
\* each in one transaction of another process.  They look for a running server
\* only once, before the terminal's questions, so the server may have started
\* since, and an offer may be open.
EditFact(p, k) ==
  /\ facts' = [facts EXCEPT ![p] = IF k \in @ THEN @ \ {k} ELSE @ \cup {k}]
  /\ UNCHANGED <<table, logged, clock, phase, enabled, pending, pc>>

-----------------------------------------------------------------------------
Entry(t, now) ==
  \/ \E p \in Person, k \in Claim : Insert(t, p, k, now)
  \/ \E c \in CandId, p \in Person :
       MarkOffered(t, c, p, now) \/ Reject(t, c, p, now) \/ Promote(t, c, p, now)

Next ==
  \/ \E t \in Task : Checkpoint(t) \/ \E now \in Now : Entry(t, now)
  \/ RetentionRun
  \/ Tick
  \/ Stop
  \/ \E on \in BOOLEAN : Reconcile(on)
  \/ \E truncated \in BOOLEAN : Serve(truncated)
  \/ \E p \in Person, k \in Edited : EditFact(p, k)

\* Time passes, the retention job wakes up every hour, a started checkpoint
\* returns, and a stopped server is started again.
Fairness ==
  /\ WF_vars(Tick)
  /\ WF_vars(RetentionRun)
  /\ WF_vars(Checkpoint(Retention))
  /\ WF_vars(\E on \in BOOLEAN : Reconcile(on))
  /\ WF_vars(\E truncated \in BOOLEAN : Serve(truncated))

Spec == Init /\ [][Next]_vars
FairSpec == Spec /\ Fairness

-----------------------------------------------------------------------------
(* A person never has two offers open, so an answer that names no value    *)
(* ("yes, I authorise") can only mean one candidate - whatever clock        *)
(* readings the transactions ran with, and whatever retention did between.  *)
OneOpenOffer ==
  \A c, d \in CandId :
    /\ table[c].status = "offered"
    /\ table[d].status = "offered"
    /\ table[c].subject = table[d].subject
    => c = d

(* A value is in the table exactly while its candidate is live, and the     *)
(* live candidates of a person are different claims, at most MaxLive, each   *)
(* offered at most MaxOffers times.                                         *)
LiveRows ==
  /\ \A c \in CandId : Live(table[c]) <=> table[c].claim # Erased
  /\ \A p \in Person :
       /\ Cardinality(LiveOf(table, p)) <= MaxLive
       /\ \A c, d \in LiveOf(table, p) : table[c].claim = table[d].claim => c = d
  /\ \A c \in CandId : table[c].offers <= MaxOffers

(* Erased bytes never stay in the write-ahead log unnoticed: while the      *)
(* server runs, either the debt is recorded or a coroutine that scrubbed is  *)
(* about to record it.                                                      *)
ScrubIsOwed ==
  phase # "down" /\ logged =>
    pending \/ \E t \in Task : pc[t] = "scrubbed"

(* Before the first request, no offer of a previous process is open, and    *)
(* with the switch off the running process holds no value at all.           *)
StartsClean ==
  /\ phase = "reset" => \A c \in CandId : table[c].status # "offered"
  /\ phase # "down" /\ ~enabled => \A c \in CandId : ~Live(table[c])

(* A resolution is final: no retry, late answer, housekeeping or restart    *)
(* changes a resolved candidate or reuses its row.                          *)
ResolutionIsFinal ==
  [][\A c \in CandId :
       table[c].status \in FinalStatus => table'[c] = table[c]]_vars

(* A candidate becomes confirmed only in the step that leaves its claim an  *)
(* active fact of its subject, from an offer open in that state, with no     *)
(* opposite fact.                                                           *)
ConfirmedIsFact ==
  [][\A c \in CandId :
       table[c].status # "confirmed" /\ table'[c].status = "confirmed" =>
         LET p == table[c].subject
         IN  /\ table[c].status = "offered"
             /\ table[c].claim \in facts'[p]
             /\ facts[p] \cap Opposite[table[c].claim] = {}]_vars

(* Nothing the owner said and never confirmed is kept for ever: every live  *)
(* candidate is resolved, and its value erased, in the end.                  *)
EveryCandidateLapses ==
  \A c \in CandId : Live(table[c]) ~> ~Live(table[c])
=============================================================================
