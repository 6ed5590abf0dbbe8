-------------------------- MODULE ConversationRecord --------------------------
(***************************************************************************)
(* The conversation record, the diary and the recall units:                *)
(* server/src/server/memory/conversation_record.py, conversation_capture,  *)
(* conversation_jobs, conversation_episodes, conversation_consent,         *)
(* recall_store, recall_index, with the retention job's purge and the      *)
(* tables and triggers of migrations 013 and 014.                          *)
(*                                                                         *)
(* A voice turn is captured by a background coroutine after its reply was  *)
(* spoken; the conversation job closes idle segments, has the model write  *)
(* a diary entry of each closed one and fills missing vectors; the         *)
(* retention job purges.  Each of them awaits between its transactions, so *)
(* their steps interleave.  A write transaction is one step, which         *)
(* WriteTransaction shows to be atomic.                                    *)
(*                                                                         *)
(* Text is abstracted to what the rules tell apart: whether the owner's    *)
(* voice verified, whether the words tell something, how protective their  *)
(* sensitivity is and how many bytes they take.                            *)
(***************************************************************************)
EXTENDS Integers, FiniteSets, FiniteSetsExt

CONSTANTS
  Turn,           \* coroutines that capture an exchange
  Exchange,       \* what may be said: [verified, tells, level, size]
  NoEpisode,      \* the level of an episode that was not written
  NoVector,       \* the level indexed for a unit without a vector
  MaxLevel,       \* the most protective rank of recall_sensitivity._RANK
  MaxRecords,     \* bound on record ids
  MaxUnits,       \* bound on unit ids
  MaxTime,        \* bound on the clock
  MaxDelay,       \* bound on how long after its turn a capture writes
  Idle,           \* working_memory_idle_seconds
  MaxTurns,       \* conversation_segment_max_turns
  MaxBytes,       \* conversation_segment_max_bytes
  KeepEligible,   \* conversation_record_eligible_days
  KeepIneligible, \* conversation_record_ineligible_days
  MaxTotal,       \* conversation_record_max_total_mb
  MaxAttempts,    \* MAX_EPISODE_ATTEMPTS
  RecallSwitch    \* the values RECALL_ENABLED may have at a start

Level == 0..MaxLevel
Normal == 0

ASSUME ConstantsAssumption ==
  /\ MaxLevel \in Nat
  /\ \A e \in Exchange : /\ e.verified \in BOOLEAN /\ e.tells \in BOOLEAN
                         /\ e.level \in Level /\ e.size \in Nat
  /\ NoEpisode \notin Level /\ NoVector \notin Level
  /\ \A n \in {MaxRecords, MaxUnits, MaxTime, MaxDelay, Idle, MaxTurns, MaxBytes,
               KeepEligible, KeepIneligible, MaxTotal, MaxAttempts} : n \in Nat
  /\ MaxTurns > 0
  /\ MaxAttempts > 0
  /\ RecallSwitch \subseteq BOOLEAN

VARIABLES
  records,     \* conversation_records with their episodes
  lastRecord,  \* the last id AUTOINCREMENT gave to a record
  units,       \* recall_units with their vectors
  lastUnit,    \* the last id given to a unit
  consent,     \* the owner has an active conversation_storage grant
  clock,       \* wall time
  up,          \* the server runs
  recallOn,    \* RECALL_ENABLED of the running server
  capture,     \* capture[t]: where the background task of turn t is
  job          \* where the conversation job is

stored == <<records, lastRecord, units, lastUnit>>
process == <<up, recallOn>>
vars == <<stored, consent, clock, process, capture, job>>

RecordId == 1..MaxRecords
UnitId == 1..MaxUnits

NoRecord == [state |-> "absent",     \* "open" or "closed" once it exists
             times |-> {},           \* when its exchanges were said
             turns |-> 0,            \* turn_count
             bytes |-> 0,            \* byte_count
             lastAt |-> 0,           \* last_turn_at
             eligible |-> FALSE,     \* one exchange is the owner's
             tells |-> FALSE,        \* one of the owner's exchanges tells something
             expiresAt |-> 0,
             diary |-> "pending",    \* or "done", "skipped", "failed"
             attempts |-> 0,
             episode |-> NoEpisode]

\* A unit whose record is 0 does not exist.
NoUnit == [record |-> 0, kind |-> "turn", level |-> Normal, vector |-> NoVector]

Exists(u) == units[u].record # 0

\* insert_turn_unit and insert_episode_unit: a new unit has no vector yet.
TellsSomething(e) == e.tells
NewUnit(r, kind, level) == [record |-> r, kind |-> kind, level |-> level, vector |-> NoVector]
TurnUnit(r, e) == NewUnit(r, "turn", e.level)
EpisodeUnit(r, level) == NewUnit(r, "episode", level)

Silence == [verified |-> FALSE, tells |-> FALSE, level |-> Normal, size |-> 0]
NoCapture == [step |-> "idle", at |-> 0, said |-> Silence, unit |-> 0]

JobStep == {"sleeping", "looking", "choosing", "skipping", "summarizing", "failing",
            "giving_up", "nothing", "writing", "listing", "filling"}
Sleeping == [step |-> "sleeping", record |-> 0, tells |-> FALSE, level |-> Normal, todo |-> {}]

Init ==
  /\ records = [r \in RecordId |-> NoRecord]
  /\ lastRecord = 0
  /\ units = [u \in UnitId |-> NoUnit]
  /\ lastUnit = 0
  /\ consent \in BOOLEAN
  /\ clock = 1
  /\ up = FALSE
  /\ recallOn = FALSE
  /\ capture = [t \in Turn |-> NoCapture]
  /\ job = Sleeping

-----------------------------------------------------------------------------
(* Statements on the tables. *)

OpenRecords == {r \in RecordId : records[r].state = "open"}
ClosedRecords == {r \in RecordId : records[r].state = "closed"}

\* _close
Closed(record, now) ==
  [record EXCEPT !.state = "closed",
                 !.expiresAt = now + IF record.eligible THEN KeepEligible ELSE KeepIneligible]

\* The UPDATE of append_turn: an exchange said late keeps last_turn_at.
Appended(record, at, e) ==
  [record EXCEPT !.times = @ \cup {at},
                 !.turns = @ + 1,
                 !.bytes = @ + e.size,
                 !.lastAt = IF at > @ THEN at ELSE @,
                 !.eligible = @ \/ e.verified,
                 !.tells = @ \/ (e.verified /\ e.tells)]

\* Mutant: the session's silence, but one unit longer.
EndedLate(record, at) == at - record.lastAt > Idle

\* A silence of Idle before an exchange said at "at" ends the conversation.
Ended(record, at) == at - record.lastAt >= Idle

Full(record, e) == record.turns >= MaxTurns \/ record.bytes + e.size > MaxBytes

\* Mutant: without ON DELETE CASCADE.
DeleteRowsOnly(gone) ==
  /\ records' = [r \in RecordId |-> IF r \in gone THEN NoRecord ELSE records[r]]
  /\ UNCHANGED <<units, lastRecord, lastUnit>>

\* Deleting records takes their episodes and units with them, and each unit's
\* rows of the two indexes (ON DELETE CASCADE, recall_units_ad).
Delete(gone) ==
  /\ records' = [r \in RecordId |-> IF r \in gone THEN NoRecord ELSE records[r]]
  /\ units' = [u \in UnitId |-> IF units[u].record \in gone THEN NoUnit ELSE units[u]]
  /\ UNCHANGED <<lastRecord, lastUnit>>

\* most_protective
MostProtective(a, b) == IF a >= b THEN a ELSE b

\* Mutant: without recall_units_au_sensitivity.
RelevelTable(unit, level) == [unit EXCEPT !.level = level]

\* A new level of a unit reaches its indexed vector (recall_units_au_sensitivity).
Relevel(unit, level) ==
  [unit EXCEPT !.level = level, !.vector = IF @ = NoVector THEN @ ELSE level]

\* store_vector: the unit's level is read in the same transaction; a unit that
\* is gone stores nothing.
VectorStored(u) ==
  IF Exists(u) THEN [units EXCEPT ![u].vector = units[u].level] ELSE units

-----------------------------------------------------------------------------
(* capture_turn *)

\* A turn comes in and takes its time (MaxDelay covers the reply as well as the
\* capture scheduled after it); the owner consents, which nobody changes while
\* the server runs; then the voice of the clip is verified.  Every silence fits
\* the clock.
Hear(t, e) ==
  /\ up /\ consent /\ capture[t] = NoCapture
  /\ clock + Idle <= MaxTime
  /\ capture' = [capture EXCEPT ![t] = [step |-> "verifying", at |-> clock, said |-> e, unit |-> 0]]
  /\ UNCHANGED <<stored, consent, clock, process, job>>

\* On any failure nothing more is kept.
Drop(t) ==
  /\ capture[t] # NoCapture
  /\ capture' = [capture EXCEPT ![t] = NoCapture]
  /\ UNCHANGED <<stored, consent, clock, process, job>>

\* The recall unit of an exchange, written with it: only the owner's own words,
\* and only when they tell something.  Then its vector is computed.
Index(t, r) ==
  LET e == capture[t].said
  IN  IF recallOn /\ e.verified /\ TellsSomething(e)
      THEN /\ lastUnit + MaxRecords < MaxUnits   \* leaves an id for every episode
           /\ lastUnit' = lastUnit + 1
           /\ units' = [units EXCEPT ![lastUnit + 1] = TurnUnit(r, e)]
           /\ capture' = [capture EXCEPT ![t].step = "embedding", ![t].unit = lastUnit + 1]
      ELSE capture' = [capture EXCEPT ![t] = NoCapture] /\ UNCHANGED <<units, lastUnit>>

\* Mutant: the last segment, without closed_at IS NULL.
AppendToLast(t, r) ==
  /\ capture[t].step = "verifying" /\ r = lastRecord
  /\ LET e == capture[t].said
         at == capture[t].at
     IN  /\ records[r].state # "absent" /\ ~Ended(records[r], at) /\ ~Full(records[r], e)
         /\ records' = [records EXCEPT ![r] = Appended(@, at, e)]
  /\ Index(t, r)
  /\ UNCHANGED <<lastRecord, consent, clock, process, job>>

\* append_turn into the open segment.
AppendTurn(t, r) ==
  /\ capture[t].step = "verifying"
  /\ LET e == capture[t].said
         at == capture[t].at
     IN  /\ records[r].state = "open" /\ ~Ended(records[r], at) /\ ~Full(records[r], e)
         /\ records' = [records EXCEPT ![r] = Appended(@, at, e)]
  /\ Index(t, r)
  /\ UNCHANGED <<lastRecord, consent, clock, process, job>>

\* append_turn with no open segment it may join: that one is closed, stamped
\* with a time read before the lock, and a new one opened.
OpenSegment(t, now) ==
  /\ capture[t].step = "verifying"
  /\ lastRecord < MaxRecords
  /\ lastRecord' = lastRecord + 1
  /\ LET e == capture[t].said
         at == capture[t].at
         fresh == [NoRecord EXCEPT !.state = "open", !.lastAt = at]
     IN  /\ \A r \in OpenRecords : Ended(records[r], at) \/ Full(records[r], e)
         /\ records' = [r \in RecordId |->
              IF r = lastRecord + 1 THEN Appended(fresh, at, e)
              ELSE IF r \in OpenRecords THEN Closed(records[r], now)
              ELSE records[r]]
  /\ Index(t, lastRecord + 1)
  /\ UNCHANGED <<consent, clock, process, job>>

\* embed_unit of the turn's unit.
EmbedTurn(t) ==
  /\ capture[t].step = "embedding"
  /\ units' = VectorStored(capture[t].unit)
  /\ capture' = [capture EXCEPT ![t] = NoCapture]
  /\ UNCHANGED <<records, lastRecord, lastUnit, consent, clock, process, job>>

Capturing(t) ==
  \/ \E e \in Exchange : Hear(t, e)
  \/ Drop(t) \/ EmbedTurn(t)
  \/ \E r \in RecordId : AppendTurn(t, r)
  \/ \E now \in capture[t].at..clock : OpenSegment(t, now)

-----------------------------------------------------------------------------
(* conversation_jobs.run_once; its time is read before the write lock. *)

Recent == {clock - 1, clock} \cap Nat

JobStays == UNCHANGED <<consent, clock, process, capture>>

\* close_idle_records
CloseIdle(now) ==
  /\ up /\ job = Sleeping
  /\ records' = [r \in RecordId |->
       IF r \in OpenRecords /\ records[r].lastAt <= now - Idle
       THEN Closed(records[r], now) ELSE records[r]]
  /\ job' = [Sleeping EXCEPT !.step = "looking"]
  /\ UNCHANGED <<lastRecord, units, lastUnit>> /\ JobStays

\* Nothing is done while somebody is in a conversation.
Look ==
  /\ job.step = "looking"
  /\ job' = IF OpenRecords # {} THEN Sleeping ELSE [job EXCEPT !.step = "choosing"]
  /\ UNCHANGED stored /\ JobStays

Pending == {r \in ClosedRecords : records[r].diary = "pending"}

\* ORDER BY closed_at, id; both grow with the id, since only one segment is open.
Oldest(rs) == CHOOSE r \in rs : \A s \in rs : r <= s

\* The diary is done with; the vectors are next.
Fill == IF recallOn THEN [Sleeping EXCEPT !.step = "listing"] ELSE Sleeping

\* next_pending_record, read with its exchanges.
Choose ==
  /\ job.step = "choosing"
  /\ job' = IF Pending = {} THEN Fill
            ELSE LET r == Oldest(Pending)
                 IN  [Sleeping EXCEPT !.step = IF records[r].eligible THEN "summarizing"
                                               ELSE "skipping",
                                      !.record = r, !.tells = records[r].tells]
  /\ UNCHANGED stored /\ JobStays

\* set_episode_status, an UPDATE that a deleted record does not match.
Diary(r, status) ==
  [records EXCEPT ![r] = IF @.state = "absent" THEN @ ELSE [@ EXCEPT !.diary = status]]

\* A record without an exchange of the owner is skipped; then the next one.
Skip ==
  /\ job.step = "skipping"
  /\ records' = Diary(job.record, "skipped")
  /\ job' = [Sleeping EXCEPT !.step = "choosing"]
  /\ UNCHANGED <<lastRecord, units, lastUnit>> /\ JobStays

\* The extraction slot was taken or the hour's budget spent: the next tick.
Busy ==
  /\ job.step = "summarizing"
  /\ job' = Fill
  /\ UNCHANGED stored /\ JobStays

\* The model failed, found nothing, or wrote a summary with its sensitivity.
Summarized(step, level) ==
  /\ job.step = "summarizing"
  /\ step \in {"failing", "nothing", "writing"}
  /\ job' = [job EXCEPT !.step = step, !.level = level]
  /\ UNCHANGED stored /\ JobStays

\* Mutant: the attempts are not kept in the table.
CountNothing ==
  /\ job.step = "failing"
  /\ LET r == job.record
         gone == records[r].state = "absent"
     IN  job' = IF ~gone /\ records[r].attempts + 1 >= MaxAttempts
                THEN [job EXCEPT !.step = "giving_up"] ELSE Fill
  /\ UNCHANGED stored /\ JobStays

\* count_failed_attempt; the last one allowed gives the record up.  The count
\* stays at the limit here, which it passes when a failure stops GiveUp.
CountFailure ==
  /\ job.step = "failing"
  /\ LET r == job.record
         gone == records[r].state = "absent"
     IN  /\ records' = [records EXCEPT ![r].attempts = IF gone \/ @ = MaxAttempts THEN @ ELSE @ + 1]
         /\ job' = IF ~gone /\ records[r].attempts + 1 >= MaxAttempts
                   THEN [job EXCEPT !.step = "giving_up"] ELSE Fill
  /\ UNCHANGED <<lastRecord, units, lastUnit>> /\ JobStays

GiveUp ==
  /\ job.step \in {"giving_up", "nothing"}
  /\ records' = Diary(job.record, IF job.step = "nothing" THEN "skipped" ELSE "failed")
  /\ job' = Fill
  /\ UNCHANGED <<lastRecord, units, lastUnit>> /\ JobStays

\* Mutant: only the units the vector index knows are raised.
RaisedIndexed(r, level) ==
  [u \in UnitId |->
     IF units[u].record = r /\ units[u].kind = "turn" /\ units[u].vector # NoVector
     THEN Relevel(units[u], MostProtective(units[u].level, level))
     ELSE units[u]]

\* The units of r once its episode has a level: no turn unit is below it, and
\* an episode unit joins them.
Raised(r, level) ==
  [u \in UnitId |->
     IF units[u].record = r /\ units[u].kind = "turn"
     THEN Relevel(units[u], MostProtective(units[u].level, level))
     ELSE units[u]]

\* write_episode, the transaction: GONE when the record was deleted meanwhile.
WriteEpisode ==
  /\ job.step = "writing"
  /\ LET r == job.record
         level == job.level
     IN  \/ /\ records[r].state = "absent"
            /\ UNCHANGED stored
         \/ /\ records[r].state # "absent"
            /\ records' = [records EXCEPT ![r].episode = level, ![r].diary = "done"]
            /\ IF recallOn /\ job.tells
               THEN /\ lastUnit < MaxUnits
                    /\ lastUnit' = lastUnit + 1
                    /\ units' = [Raised(r, level) EXCEPT ![lastUnit + 1] = EpisodeUnit(r, level)]
               ELSE UNCHANGED <<units, lastUnit>>
            /\ UNCHANGED lastRecord
  /\ job' = Fill
  /\ JobStays

\* units_without_vector; its limit of five is above the units there are.
List ==
  /\ job.step = "listing"
  /\ job' = [Sleeping EXCEPT !.step = "filling",
                             !.todo = {u \in UnitId : Exists(u) /\ units[u].vector = NoVector}]
  /\ UNCHANGED stored /\ JobStays

\* backfill_vectors: the oldest first, until one fails or is gone.
FillOne ==
  /\ job.step = "filling" /\ job.todo # {}
  /\ LET u == Oldest(job.todo)
     IN  /\ units' = VectorStored(u)
         /\ job' = IF Exists(u) THEN [job EXCEPT !.todo = @ \ {u}] ELSE Sleeping
  /\ UNCHANGED <<records, lastRecord, lastUnit>> /\ JobStays

\* Nothing left to do, or any failure: run_once swallows it and the loop sleeps.
EndTick ==
  /\ job # Sleeping
  /\ job' = Sleeping
  /\ UNCHANGED stored /\ JobStays

-----------------------------------------------------------------------------
(* The retention job's purge. *)

Expired(r, now) == records[r].state = "closed" /\ records[r].expiresAt < now

\* Mutant: ORDER BY closed_at, id
OlderGoesBefore(r, s) == r < s

\* ORDER BY eligible, closed_at, id
GoesBefore(r, s) ==
  \/ ~records[r].eligible /\ records[s].eligible
  \/ records[r].eligible = records[s].eligible /\ r < s

Bytes(rs) == MapThenSumSet(LAMBDA r : records[r].bytes, rs)

\* The closed records of "kept" that go, one at a time, while the rest is over
\* the cap: r goes when what remains after those before it is still too much.
OverCap(kept) ==
  LET closed == {r \in kept : records[r].state = "closed"}
      Left(r) == kept \ {s \in closed : GoesBefore(s, r)}
  IN  {r \in closed : Bytes(Left(r)) > MaxTotal}

\* purge_records
Purge(now) ==
  /\ up
  /\ LET gone == {r \in RecordId : Expired(r, now)}
         victims == gone \cup OverCap((OpenRecords \cup ClosedRecords) \ gone)
     IN  victims # {} /\ Delete(victims)
  /\ UNCHANGED <<consent, clock, process, capture, job>>

-----------------------------------------------------------------------------
(* The clock, the process, and the owner's command line. *)

\* A capture writes within the bound; a tick of the job is short against time.
Tick ==
  /\ clock < MaxTime
  /\ \A t \in Turn : capture[t] # NoCapture => clock - capture[t].at < MaxDelay
  /\ clock' = clock + 1
  /\ UNCHANGED <<stored, consent, process, capture, job>>

Start(on) ==
  /\ ~up
  /\ up' = TRUE /\ recallOn' = on
  /\ UNCHANGED <<stored, consent, clock, capture, job>>

\* A stop or a crash, between two transactions: what the tasks held is gone.
Stop ==
  /\ up
  /\ up' = FALSE
  /\ capture' = [t \in Turn |-> NoCapture]
  /\ job' = Sleeping
  /\ UNCHANGED <<stored, consent, clock, recallOn>>

\* iroko-admin works on a stopped server.
DeleteRecord(r) ==
  /\ ~up /\ records[r].state # "absent"
  /\ Delete({r})
  /\ UNCHANGED <<consent, clock, process, capture, job>>

Grant ==
  /\ ~up
  /\ consent' = TRUE
  /\ UNCHANGED <<stored, clock, process, capture, job>>

\* A revoked consent takes every record with it.
Revoke ==
  /\ ~up
  /\ consent' = FALSE
  /\ Delete(RecordId)
  /\ UNCHANGED <<clock, process, capture, job>>

Next ==
  \/ \E t \in Turn : Capturing(t)
  \/ \E now \in Recent : CloseIdle(now) \/ Purge(now)
  \/ Look \/ Choose \/ Skip \/ Busy
  \/ \E step \in JobStep, level \in Level : Summarized(step, level)
  \/ CountFailure \/ GiveUp \/ WriteEpisode \/ List \/ FillOne \/ EndTick
  \/ Tick
  \/ \E on \in RecallSwitch : Start(on)
  \/ Stop
  \/ \E r \in RecordId : DeleteRecord(r)
  \/ Grant \/ Revoke

Spec == Init /\ [][Next]_vars

\* Time passes, a capture ends, the server is started again, and a tick of the
\* job that may get through gets through now and then: the extraction slot is
\* sometimes free, and no transaction fails every time.
Fairness ==
  /\ WF_vars(Tick)
  /\ \A t \in Turn : WF_vars(Drop(t))
  /\ WF_vars(\E on \in RecallSwitch : Start(on))
  /\ SF_vars(CloseIdle(clock)) /\ SF_vars(Look) /\ SF_vars(Choose) /\ SF_vars(Skip)
  /\ SF_vars(\E step \in JobStep, level \in Level : Summarized(step, level))
  /\ SF_vars(CountFailure) /\ SF_vars(GiveUp) /\ SF_vars(WriteEpisode)
  /\ SF_vars(List \/ FillOne \/ EndTick)

FairSpec == Spec /\ Fairness

-----------------------------------------------------------------------------
(* Properties. *)

\* A segment holds one conversation: no two successive exchanges of it are a
\* silence of Idle apart, in whatever order the captures of several turns, each
\* with the time its turn was taken, reach append_turn.  It needs MaxDelay < Idle:
\* append_turn compares the time of the turn with last_turn_at, so a capture later
\* than that would join a segment that began long after its turn.
SegmentIsOneConversation ==
  \A r \in RecordId : \A x \in records[r].times :
    \/ \A y \in records[r].times : y <= x
    \/ \E y \in records[r].times : x < y /\ y - x < Idle

\* What was closed is never added to nor kept for another time, although a
\* capture may be under way when the job, or another capture, closes the segment.
ClosedIsFinal ==
  [][\A r \in RecordId :
       records[r].state = "closed" /\ records'[r].state # "absent" =>
         /\ records'[r].state = "closed"
         /\ records'[r].times = records[r].times
         /\ records'[r].turns = records[r].turns
         /\ records'[r].eligible = records[r].eligible
         /\ records'[r].expiresAt = records[r].expiresAt]_vars

\* A unit is never left without the record it was taken from, and that record
\* holds something the verified owner told: also when the record was purged, or
\* deleted with the server stopped, while its diary entry was being written.
UnitsHaveTheirRecord ==
  \A u \in UnitId : Exists(u) =>
    /\ records[units[u].record].state # "absent"
    /\ records[units[u].record].tells
    /\ units[u].kind = "episode" => records[units[u].record].diary = "done"

\* Once the diary entry of a conversation is written, none of its units is less
\* protected than the entry (ADR 0028 decision 3), with recall on throughout.
DiaryProtectsTurns ==
  \A u \in UnitId : Exists(u) =>
    LET episode == records[units[u].record].episode
    IN  episode # NoEpisode => units[u].level >= episode

\* The level the vector search filters by is the unit's own, whichever of the
\* vector and the diary entry comes first.
VectorsFollowUnits ==
  \A u \in UnitId : units[u].vector \in {NoVector, units[u].level}

\* While the server runs nothing deletes the open segment, and the cap takes an
\* eligible record that is not expired only when no closed one that is not
\* eligible is left.
PurgeSparesTheOwner ==
  [][up => \A r \in RecordId :
       records[r].state # "absent" /\ records'[r].state = "absent" =>
         /\ records[r].state = "closed"
         /\ \/ records[r].expiresAt < clock
            \/ ~records[r].eligible
            \/ \A s \in ClosedRecords : records'[s].state # "absent" => records[s].eligible]_vars

\* Every closed record is settled in the diary: written, skipped or given up,
\* unless it is deleted first, whatever fails or stops the server now and then.
EveryRecordIsSettled ==
  \A r \in RecordId :
    (records[r].state = "closed" /\ records[r].diary = "pending")
      ~> (records[r].state = "absent" \/ records[r].diary # "pending")

=============================================================================
