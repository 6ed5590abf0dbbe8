----------------------- MODULE ConversationRecord_proofs -----------------------
(***************************************************************************)
(* Of the conversation record, for any number of turns, any exchanges and  *)
(* every bound: segments hold one conversation, what is closed stays as it *)
(* is, units keep the record they were taken from, and the diary entry of  *)
(* a conversation protects its units.  Of the search on top of it: what is *)
(* recalled without a grant is normal unless the diary of the last         *)
(* conversation is written while a question runs.                          *)
(*                                                                         *)
(* The conversation job carries a record from one transaction to the next, *)
(* while captures, the purge and the owner's deletions go on.  What makes  *)
(* that harmless is in the invariant: the record it carries is either gone *)
(* for good, its id never given again, or closed, still pending and as it  *)
(* was read (JobHolds).                                                    *)
(***************************************************************************)
EXTENDS RecallSearch, FiniteSetTheorems, TLAPS

-----------------------------------------------------------------------------
(* Induction.  The induction theorems of the library take the formula as a *)
(* parameter; that a set of numbers has a least one is the same, and is    *)
(* stated of a set.                                                        *)

LEMMA NumbersWellFounded ==
  \E R : IsWellFoundedOn(R, Nat) /\ \A x, y \in Nat : y < x => <<y, x>> \in R
<1>1. \A x, y \in Nat : y < x => <<y, x>> \in OpToRel(<, Nat)
  BY DEF OpToRel
<1> QED
  BY NatLessThanWellFounded, <1>1

LEMMA LeastNumber ==
  ASSUME NEW S, S \subseteq Nat, S # {}
  PROVE  \E x \in S : \A y \in S : x <= y
<1>1. PICK R : IsWellFoundedOn(R, Nat) /\ \A x, y \in Nat : y < x => <<y, x>> \in R
  BY NumbersWellFounded
<1>2. PICK x \in S : \A y \in S : ~(<<y, x>> \in R)
  BY <1>1, WFMin
<1>3. ASSUME NEW y \in S PROVE x <= y
  <2>1. x \in Nat /\ y \in Nat
    OBVIOUS
  <2>2. ~(<<y, x>> \in R)
    BY <1>2
  <2>3. \A a, b \in Nat : b < a => <<b, a>> \in R
    BY <1>1
  <2>4. ~(y < x)
    BY <2>1, <2>2, <2>3
  <2> QED
    BY <2>1, <2>4
<1> QED
  BY <1>3

-----------------------------------------------------------------------------
(* Types. *)

Diaries == {"pending", "done", "skipped", "failed"}

Record == [state : {"absent", "open", "closed"}, times : SUBSET Nat, turns : Nat,
           bytes : Nat, lastAt : Nat, eligible : BOOLEAN, tells : BOOLEAN,
           expiresAt : Nat, diary : Diaries, attempts : Nat,
           episode : Level \cup {NoEpisode}]

Unit == [record : RecordId \cup {0}, kind : {"turn", "episode"}, level : Level,
         vector : Level \cup {NoVector}]

Capture == [step : {"idle", "verifying", "embedding"}, at : Nat,
            said : Exchange \cup {Silence}, unit : UnitId \cup {0}]

Job == [step : JobStep, record : RecordId \cup {0}, tells : BOOLEAN, level : Level,
        todo : SUBSET UnitId]

\* The steps of the job that carry a record.
OnRecord == {"skipping", "summarizing", "failing", "giving_up", "nothing", "writing"}

TypeOK ==
  /\ records \in [RecordId -> Record]
  /\ lastRecord \in 0..MaxRecords
  /\ units \in [UnitId -> Unit]
  /\ lastUnit \in 0..MaxUnits
  /\ consent \in BOOLEAN /\ up \in BOOLEAN /\ recallOn \in BOOLEAN
  /\ clock \in Nat
  /\ capture \in [Turn -> Capture]
  /\ \A t \in Turn : capture[t].step = "embedding" => capture[t].unit # 0
  /\ job \in Job
  /\ job.step \in OnRecord => job.record # 0

Numbers == {MaxLevel, MaxRecords, MaxUnits, MaxTime, MaxDelay, Idle, MaxTurns, MaxBytes,
            KeepEligible, KeepIneligible, MaxTotal, MaxAttempts}

\* The constants are as the module assumes.
LEMMA Constants ==
  /\ MaxRecords \in Nat /\ MaxUnits \in Nat /\ MaxTime \in Nat /\ MaxDelay \in Nat
  /\ Idle \in Nat /\ KeepEligible \in Nat /\ KeepIneligible \in Nat /\ MaxAttempts \in Nat
  /\ MaxLevel \in Nat /\ NoEpisode \notin Level /\ NoVector \notin Level
  /\ Normal \in Level /\ Level \subseteq Int
  /\ \A e \in Exchange \cup {Silence} : /\ e.verified \in BOOLEAN /\ e.tells \in BOOLEAN
                                        /\ e.level \in Level /\ e.size \in Nat
<1>1. \A n \in Numbers : n \in Nat
  BY ConstantsAssumption DEF Numbers
<1>2. /\ MaxRecords \in Nat /\ MaxUnits \in Nat /\ MaxTime \in Nat /\ MaxDelay \in Nat
      /\ Idle \in Nat /\ KeepEligible \in Nat /\ KeepIneligible \in Nat /\ MaxAttempts \in Nat
      /\ MaxLevel \in Nat
  BY <1>1, Zenon DEF Numbers
<1>3. Normal \in Level /\ Level \subseteq Int
  BY <1>2 DEF Level, Normal
<1>4. /\ Silence.verified \in BOOLEAN /\ Silence.tells \in BOOLEAN
      /\ Silence.level \in Level /\ Silence.size \in Nat
  BY <1>3 DEF Silence
<1> QED
  BY <1>2, <1>3, <1>4, ConstantsAssumption

\* What appending and closing change of a record, field by field.
LEMMA AppendedFields ==
  ASSUME NEW record \in Record, NEW at \in Nat, NEW e \in Exchange \cup {Silence}
  PROVE  LET new == Appended(record, at, e)
         IN  /\ new \in Record
             /\ new.state = record.state /\ new.episode = record.episode
             /\ new.diary = record.diary
             /\ new.times = record.times \cup {at}
             /\ new.lastAt = IF at > record.lastAt THEN at ELSE record.lastAt
             /\ record.tells \/ (e.verified /\ e.tells) => new.tells
<1> DEFINE new == Appended(record, at, e)
<1>1. /\ e.verified \in BOOLEAN /\ e.tells \in BOOLEAN /\ e.size \in Nat
      /\ record.bytes \in Nat /\ record.turns \in Nat /\ record.lastAt \in Nat
      /\ record.times \in SUBSET Nat /\ record.eligible \in BOOLEAN /\ record.tells \in BOOLEAN
  BY Constants DEF Record
<1> DEFINE times == record.times \cup {at}
           turns == record.turns + 1
           bytes == record.bytes + e.size
           lastAt == IF at > record.lastAt THEN at ELSE record.lastAt
           eligible == record.eligible \/ e.verified
           tells == record.tells \/ (e.verified /\ e.tells)
<1>2. /\ times \in SUBSET Nat /\ turns \in Nat /\ bytes \in Nat /\ lastAt \in Nat
      /\ eligible \in BOOLEAN /\ tells \in BOOLEAN
  BY <1>1
<1>3. new = [record EXCEPT !.times = times, !.turns = turns, !.bytes = bytes,
                           !.lastAt = lastAt, !.eligible = eligible, !.tells = tells]
  BY DEF Appended, Record
<1> HIDE DEF times, turns, bytes, lastAt, eligible, tells, new
<1>4. /\ new \in Record /\ new.state = record.state /\ new.episode = record.episode
      /\ new.diary = record.diary /\ new.times = times /\ new.lastAt = lastAt
      /\ new.tells = tells
  BY <1>2, <1>3 DEF Record
<1> QED
  BY <1>1, <1>4 DEF times, lastAt, tells, new

LEMMA ClosedFields ==
  ASSUME NEW record \in Record, NEW now \in Nat
  PROVE  LET new == Closed(record, now)
         IN  /\ new \in Record
             /\ new.state = "closed" /\ new.episode = record.episode
             /\ new.diary = record.diary /\ new.times = record.times
             /\ new.lastAt = record.lastAt /\ new.tells = record.tells
<1> DEFINE new == Closed(record, now)
           until == now + IF record.eligible THEN KeepEligible ELSE KeepIneligible
<1>1. until \in Nat
  BY Constants
<1>2. new = [record EXCEPT !.state = "closed", !.expiresAt = until]
  BY DEF Closed
<1> HIDE DEF until, new
<1>3. /\ new \in Record /\ new.state = "closed" /\ new.episode = record.episode
      /\ new.diary = record.diary /\ new.times = record.times
      /\ new.lastAt = record.lastAt /\ new.tells = record.tells
  BY <1>1, <1>2 DEF Record
<1> QED
  BY <1>3 DEF new

\* A record stays one when it is appended to, closed or written about.
LEMMA RecordTypes ==
  ASSUME NEW record \in Record
  PROVE  /\ \A at \in Nat, e \in Exchange \cup {Silence} : Appended(record, at, e) \in Record
         /\ \A now \in Nat : Closed(record, now) \in Record
         /\ \A status \in Diaries : [record EXCEPT !.diary = status] \in Record
         /\ \A level \in Level : [record EXCEPT !.episode = level, !.diary = "done"] \in Record
         /\ record.attempts + 1 \in Nat /\ [record EXCEPT !.attempts = @ + 1] \in Record
<1>1. ASSUME NEW at \in Nat, NEW e \in Exchange \cup {Silence}
      PROVE  Appended(record, at, e) \in Record
  BY AppendedFields
<1>2. ASSUME NEW now \in Nat PROVE Closed(record, now) \in Record
  BY ClosedFields
<1>3. ASSUME NEW status \in Diaries PROVE [record EXCEPT !.diary = status] \in Record
  BY DEF Record
<1>4. ASSUME NEW level \in Level PROVE [record EXCEPT !.episode = level, !.diary = "done"] \in Record
  BY DEF Record, Diaries
<1>5. record.attempts + 1 \in Nat /\ [record EXCEPT !.attempts = @ + 1] \in Record
  BY DEF Record
<1> QED
  BY <1>1, <1>2, <1>3, <1>4, <1>5

LEMMA Empties ==
  /\ NoRecord \in Record /\ NoUnit \in Unit
  /\ NoCapture \in Capture /\ Sleeping \in Job
  /\ NoCapture.step # "embedding" /\ Sleeping.step \notin OnRecord
<1>1. NoRecord \in Record
  BY Constants DEF NoRecord, Record, Diaries
<1>2. NoUnit \in Unit
  BY Constants DEF NoUnit, Unit
<1>3. NoCapture \in Capture /\ NoCapture.step # "embedding"
  BY DEF NoCapture, Capture
<1>4. Sleeping \in Job /\ Sleeping.step \notin OnRecord
  BY Constants DEF Sleeping, Job, JobStep, OnRecord
<1> QED
  BY <1>1, <1>2, <1>3, <1>4

\* What the statements on units leave are units.
LEMMA UnitTypes ==
  ASSUME NEW unit \in Unit
  PROVE  /\ \A level \in Level : Relevel(unit, level) \in Unit
         /\ \A level \in Level : MostProtective(unit.level, level) \in Level
         /\ [unit EXCEPT !.vector = unit.level] \in Unit
         /\ \A r \in RecordId, kind \in {"turn", "episode"}, level \in Level :
              NewUnit(r, kind, level) \in Unit
<1>1. ASSUME NEW level \in Level PROVE Relevel(unit, level) \in Unit
  BY DEF Relevel, Unit
<1>2. ASSUME NEW level \in Level PROVE MostProtective(unit.level, level) \in Level
  BY DEF Unit, MostProtective
<1>3. [unit EXCEPT !.vector = unit.level] \in Unit
  BY DEF Unit
<1>4. ASSUME NEW r \in RecordId, NEW kind \in {"turn", "episode"}, NEW level \in Level
      PROVE  NewUnit(r, kind, level) \in Unit
  BY DEF NewUnit, Unit
<1> QED
  BY <1>1, <1>2, <1>3, <1>4

-----------------------------------------------------------------------------
(* The statements, seen from the tables. *)

\* What a captured exchange leaves in the units: one of its own, or nothing.
LEMMA Indexing ==
  ASSUME TypeOK, NEW t \in Turn, NEW r \in RecordId, Index(t, r)
  PROVE  /\ units' \in [UnitId -> Unit] /\ lastUnit' \in 0..MaxUnits
         /\ capture' \in [Turn -> Capture]
         /\ \A s \in Turn : capture'[s].step = "embedding" => capture'[s].unit # 0
         /\ \A s \in Turn : capture'[s] # NoCapture => capture'[s].at = capture[s].at
                                                       /\ (capture[s] # NoCapture \/ s = t)
         /\ \/ units' = units
            \/ LET e == capture[t].said
               IN  /\ e.verified /\ e.tells
                   /\ \E u \in UnitId : units' = [units EXCEPT ![u] = NewUnit(r, "turn", e.level)]
<1> DEFINE e == capture[t].said
           new == TurnUnit(r, e)
<1>1. /\ e \in Exchange \cup {Silence} /\ e.level \in Level /\ capture \in [Turn -> Capture]
      /\ units \in [UnitId -> Unit] /\ lastUnit \in 0..MaxUnits
      /\ NoCapture \in Capture /\ NoCapture.step # "embedding"
      /\ MaxRecords \in Nat /\ MaxUnits \in Nat
  BY Constants, Empties DEF TypeOK, Capture
<1>2. CASE recallOn /\ e.verified /\ TellsSomething(e)
  <2>1. /\ lastUnit + MaxRecords < MaxUnits
        /\ lastUnit' = lastUnit + 1
        /\ units' = [units EXCEPT ![lastUnit + 1] = new]
        /\ capture' = [capture EXCEPT ![t].step = "embedding", ![t].unit = lastUnit + 1]
    BY <1>2 DEF Index
  <2>2. lastUnit + 1 \in UnitId /\ lastUnit + 1 # 0 /\ lastUnit' \in 0..MaxUnits
    BY <1>1, <2>1 DEF UnitId
  <2>3. new = NewUnit(r, "turn", e.level) /\ new \in Unit
    BY <1>1, UnitTypes, Empties DEF TurnUnit
  <2>4. units' \in [UnitId -> Unit]
    BY <1>1, <2>1, <2>2, <2>3
  <2>5. e.verified /\ e.tells
    BY <1>2 DEF TellsSomething
  <2>6. /\ capture' \in [Turn -> Capture]
        /\ \A s \in Turn : capture'[s].step = "embedding" => capture'[s].unit # 0
    BY <1>1, <2>1, <2>2 DEF Capture, TypeOK
  <2>7. \A s \in Turn : capture'[s] # NoCapture => capture'[s].at = capture[s].at
                                                   /\ (capture[s] # NoCapture \/ s = t)
    BY <1>1, <2>1, <2>2 DEF Capture
  <2> QED
    BY <2>1, <2>2, <2>3, <2>4, <2>5, <2>6, <2>7
<1>3. CASE ~(recallOn /\ e.verified /\ TellsSomething(e))
  <2>1. /\ capture' = [capture EXCEPT ![t] = NoCapture]
        /\ units' = units /\ lastUnit' = lastUnit
    BY <1>3 DEF Index
  <2> QED
    BY <1>1, <2>1 DEF TypeOK
<1> QED
  BY <1>2, <1>3

\* A vector that is stored has the level of its unit.
LEMMA Storing ==
  ASSUME TypeOK, NEW u \in UnitId
  PROVE  /\ VectorStored(u) \in [UnitId -> Unit]
         /\ \A w \in UnitId : /\ VectorStored(u)[w].record = units[w].record
                              /\ VectorStored(u)[w].kind = units[w].kind
                              /\ VectorStored(u)[w].level = units[w].level
                              /\ VectorStored(u)[w].vector \in {units[w].vector, units[w].level}
<1>1. units \in [UnitId -> Unit] /\ units[u] \in Unit
  BY DEF TypeOK
<1>2. [units[u] EXCEPT !.vector = units[u].level] \in Unit
  BY <1>1, UnitTypes
<1> QED
  BY <1>1, <1>2 DEF VectorStored, Unit

LEMMA Raising ==
  ASSUME TypeOK, NEW r \in RecordId, NEW level \in Level
  PROVE  /\ Raised(r, level) \in [UnitId -> Unit]
         /\ \A w \in UnitId : /\ Raised(r, level)[w].record = units[w].record
                              /\ Raised(r, level)[w].kind = units[w].kind
                              /\ Raised(r, level)[w].level >= units[w].level
                              /\ units[w].record = r /\ units[w].kind = "turn" =>
                                   Raised(r, level)[w].level >= level
                              /\ units[w].vector \in {NoVector, units[w].level} =>
                                   Raised(r, level)[w].vector \in {NoVector, Raised(r, level)[w].level}
<1>1. ASSUME NEW w \in UnitId
      PROVE  /\ Raised(r, level)[w] \in Unit
             /\ Raised(r, level)[w].record = units[w].record
             /\ Raised(r, level)[w].kind = units[w].kind
             /\ Raised(r, level)[w].level >= units[w].level
             /\ units[w].record = r /\ units[w].kind = "turn" =>
                  Raised(r, level)[w].level >= level
             /\ units[w].vector \in {NoVector, units[w].level} =>
                  Raised(r, level)[w].vector \in {NoVector, Raised(r, level)[w].level}
  <2> DEFINE higher == MostProtective(units[w].level, level)
  <2>1. units[w] \in Unit /\ units[w].level \in Level /\ level \in Int /\ units[w].level \in Int
    BY Constants DEF TypeOK, Unit
  <2>2. higher \in Level /\ higher >= level /\ higher >= units[w].level /\ higher \in Int
    BY <2>1, Constants DEF MostProtective
  <2> HIDE DEF higher
  <2>3. CASE units[w].record = r /\ units[w].kind = "turn"
    <3>1. Raised(r, level)[w] = Relevel(units[w], higher)
      BY <2>3 DEF Raised, higher
    <3>2. Relevel(units[w], higher) \in Unit
      BY <2>1, <2>2, UnitTypes
    <3>3. /\ Relevel(units[w], higher).record = units[w].record
          /\ Relevel(units[w], higher).kind = units[w].kind
          /\ Relevel(units[w], higher).level = higher
          /\ Relevel(units[w], higher).vector = IF units[w].vector = NoVector THEN NoVector ELSE higher
      BY <2>1 DEF Relevel, Unit
    <3> QED
      BY <2>2, <3>1, <3>2, <3>3
  <2>4. CASE ~(units[w].record = r /\ units[w].kind = "turn")
    BY <2>1, <2>4 DEF Raised
  <2> QED
    BY <2>3, <2>4
<1>2. Raised(r, level) \in [UnitId -> Unit]
  BY <1>1 DEF Raised
<1> QED
  BY <1>1, <1>2

\* Deleting leaves the rest alone.
LEMMA Deleting ==
  ASSUME TypeOK, NEW gone, Delete(gone)
  PROVE  /\ records' \in [RecordId -> Record] /\ units' \in [UnitId -> Unit]
         /\ lastRecord' = lastRecord /\ lastUnit' = lastUnit
         /\ \A r \in RecordId : records'[r] = IF r \in gone THEN NoRecord ELSE records[r]
         /\ \A u \in UnitId : units'[u] = IF units[u].record \in gone THEN NoUnit ELSE units[u]
  BY Empties DEF TypeOK, Delete

-----------------------------------------------------------------------------
(* Type correctness. *)

LEMMA TypeInit == Init => TypeOK
<1> SUFFICES ASSUME Init PROVE TypeOK
  OBVIOUS
<1>1. /\ NoRecord \in Record /\ NoUnit \in Unit
      /\ NoCapture \in Capture /\ Sleeping \in Job
      /\ NoCapture.step # "embedding" /\ Sleeping.step \notin OnRecord
  BY Empties
<1>2. 0 \in 0..MaxRecords /\ 0 \in 0..MaxUnits
  BY Constants
<1> QED
  BY <1>1, <1>2 DEF Init, TypeOK

LEMMA CapturingTypes ==
  ASSUME TypeOK, NEW t \in Turn, Capturing(t)
  PROVE  TypeOK'
<1>1. CASE \E e \in Exchange : Hear(t, e)
  <2>1. PICK e \in Exchange : Hear(t, e)
    BY <1>1
  <2>2. [step |-> "verifying", at |-> clock, said |-> e, unit |-> 0] \in Capture
    BY DEF Capture, TypeOK
  <2>3. capture' = [capture EXCEPT ![t] = [step |-> "verifying", at |-> clock, said |-> e, unit |-> 0]]
    BY <2>1 DEF Hear
  <2>4. capture' \in [Turn -> Capture]
    BY <2>2, <2>3 DEF TypeOK
  <2>5. \A s \in Turn : capture'[s].step = "embedding" => capture'[s].unit # 0
    BY <2>3 DEF TypeOK
  <2> QED
    BY <2>1, <2>4, <2>5 DEF Hear, stored, process, TypeOK
<1>2. CASE Drop(t)
  BY <1>2, Empties DEF Drop, stored, process, TypeOK
<1>3. CASE EmbedTurn(t)
  <2>1. capture[t].unit \in UnitId
    BY <1>3 DEF EmbedTurn, TypeOK, Capture
  <2>2. units' \in [UnitId -> Unit]
    BY <1>3, <2>1, Storing DEF EmbedTurn
  <2> QED
    BY <1>3, <2>2, Empties DEF EmbedTurn, process, TypeOK
<1>4. CASE \E r \in RecordId : AppendTurn(t, r)
  <2>1. PICK r \in RecordId : AppendTurn(t, r)
    BY <1>4
  <2>2. capture[t].at \in Nat /\ capture[t].said \in Exchange \cup {Silence} /\ records[r] \in Record
    BY DEF TypeOK, Capture
  <2>3. Appended(records[r], capture[t].at, capture[t].said) \in Record
    BY <2>2, RecordTypes
  <2>4. records' \in [RecordId -> Record]
    BY <2>1, <2>3 DEF AppendTurn, TypeOK
  <2> QED
    BY <2>1, <2>4, Indexing DEF AppendTurn, process, TypeOK
<1>5. CASE \E now \in capture[t].at..clock : OpenSegment(t, now)
  <2>1. PICK now \in capture[t].at..clock : OpenSegment(t, now)
    BY <1>5
  <2>2. capture[t].at \in Nat /\ capture[t].said \in Exchange \cup {Silence} /\ now \in Nat
    BY DEF TypeOK, Capture
  <2> DEFINE fresh == [NoRecord EXCEPT !.state = "open", !.lastAt = capture[t].at]
  <2>3. fresh \in Record
    BY <2>2, Empties DEF Record
  <2>4. Appended(fresh, capture[t].at, capture[t].said) \in Record
    BY <2>2, <2>3, RecordTypes
  <2>5. \A r \in RecordId : Closed(records[r], now) \in Record
    BY <2>2, RecordTypes DEF TypeOK
  <2>6. records' = [r \in RecordId |->
          IF r = lastRecord + 1 THEN Appended(fresh, capture[t].at, capture[t].said)
          ELSE IF r \in OpenRecords THEN Closed(records[r], now)
          ELSE records[r]]
    BY <2>1 DEF OpenSegment
  <2>7. records' \in [RecordId -> Record]
    BY <2>4, <2>5, <2>6 DEF TypeOK
  <2>8. lastRecord + 1 \in RecordId /\ lastRecord' \in 0..MaxRecords
    BY <2>1, Constants DEF OpenSegment, TypeOK, RecordId
  <2> QED
    BY <2>1, <2>7, <2>8, Indexing DEF OpenSegment, process, TypeOK
<1> QED
  BY <1>1, <1>2, <1>3, <1>4, <1>5 DEF Capturing

\* A record the job reads from the pending ones.
LEMMA OldestPending ==
  ASSUME TypeOK, Pending # {}
  PROVE  \E r \in RecordId : /\ r = Oldest(Pending)
                             /\ records[r].state = "closed" /\ records[r].diary = "pending"
<1>1. Pending \subseteq Nat
  BY DEF Pending, ClosedRecords, RecordId
<1>2. PICK m \in Pending : \A s \in Pending : m <= s
  BY <1>1, LeastNumber
<1>3. PICK r \in Pending : r = Oldest(Pending)
  BY <1>2 DEF Oldest
<1>4. r \in RecordId /\ records[r].state = "closed" /\ records[r].diary = "pending"
  BY DEF Pending, ClosedRecords
<1> QED
  BY <1>3, <1>4

\* The job goes to sleep, lists, or works on the record it chose.
LEMMA JobValues ==
  /\ Fill \in Job /\ Fill.step \notin OnRecord
  /\ \A step \in JobStep : [Sleeping EXCEPT !.step = step] \in Job
  /\ \A step \in JobStep \ OnRecord : [Sleeping EXCEPT !.step = step].step \notin OnRecord
<1>1. \A step \in JobStep : /\ [Sleeping EXCEPT !.step = step] \in Job
                            /\ [Sleeping EXCEPT !.step = step].step = step
  BY Empties DEF Job, Sleeping
<1>2. "listing" \in JobStep \ OnRecord
  BY DEF JobStep, OnRecord
<1> QED
  BY <1>1, <1>2, Empties DEF Fill

LEMMA JobTypes ==
  ASSUME TypeOK,
         \/ \E now \in Recent : CloseIdle(now)
         \/ Look \/ Choose \/ Skip \/ Busy
         \/ \E step \in JobStep, level \in Level : Summarized(step, level)
         \/ CountFailure \/ GiveUp \/ WriteEpisode \/ List \/ FillOne \/ EndTick
  PROVE  TypeOK'
<1> USE DEF JobStays, process
<1>0. /\ job \in Job /\ records \in [RecordId -> Record] /\ units \in [UnitId -> Unit]
      /\ lastRecord \in 0..MaxRecords /\ lastUnit \in 0..MaxUnits
      /\ Sleeping \in Job /\ Sleeping.step \notin OnRecord
      /\ Fill \in Job /\ Fill.step \notin OnRecord
      /\ \A step \in JobStep : [Sleeping EXCEPT !.step = step] \in Job
      /\ \A step \in JobStep \ OnRecord : [Sleeping EXCEPT !.step = step].step \notin OnRecord
  BY Empties, JobValues DEF TypeOK
<1>1. job.step \in OnRecord => job.record \in RecordId /\ records[job.record] \in Record
  BY <1>0 DEF TypeOK, Job
<1>2. \A status \in Diaries : job.step \in OnRecord => Diary(job.record, status) \in [RecordId -> Record]
  BY <1>0, <1>1, RecordTypes DEF Diary
<1>3. ASSUME NEW now \in Recent, CloseIdle(now) PROVE TypeOK'
  <2>1. now \in Nat
    BY DEF Recent
  <2>2. \A r \in RecordId : records[r] \in Record /\ Closed(records[r], now) \in Record
    BY <2>1, <1>0, RecordTypes
  <2>3. records' \in [RecordId -> Record]
    BY <1>3, <2>2 DEF CloseIdle
  <2>4. job' \in Job /\ job'.step \notin OnRecord
    BY <1>0, <1>3 DEF CloseIdle, JobStep, OnRecord
  <2> QED
    BY <1>3, <2>3, <2>4 DEF CloseIdle, TypeOK
<1>4. CASE Look
  <2>1. job' \in Job /\ job'.step \notin OnRecord
    BY <1>0, <1>4, SMTT(30) DEF Look, JobStep, OnRecord, Job
  <2> QED
    BY <1>4, <2>1 DEF Look, stored, TypeOK
<1>5. CASE Choose
  <2>1. job' \in Job /\ (job'.step \in OnRecord => job'.record # 0)
    <3>1. CASE Pending = {}
      BY <1>0, <1>5, <3>1 DEF Choose
    <3>2. CASE Pending # {}
      <4>1. PICK r \in RecordId : r = Oldest(Pending)
        BY <3>2, OldestPending
      <4> DEFINE step == IF records[r].eligible THEN "summarizing" ELSE "skipping"
      <4>2. records[r] \in Record /\ r # 0 /\ records[r].tells \in BOOLEAN
        BY <1>0, Constants, SMTT(30) DEF RecordId, Record
      <4>3. job' = [Sleeping EXCEPT !.step = step, !.record = r, !.tells = records[r].tells]
        BY <1>5, <3>2, <4>1 DEF Choose
      <4>4. step \in JobStep
        BY DEF JobStep
      <4> HIDE DEF step
      <4>5. job' \in Job /\ job'.record = r
        BY <1>0, <4>2, <4>3, <4>4 DEF Job
      <4> QED
        BY <4>2, <4>5
    <3> QED
      BY <3>1, <3>2
  <2> QED
    BY <1>5, <2>1 DEF Choose, stored, TypeOK
<1>6. CASE Skip
  <2>1. records' \in [RecordId -> Record]
    BY <1>2, <1>6 DEF Skip, OnRecord, Diaries
  <2>2. job' \in Job /\ job'.step \notin OnRecord
    BY <1>0, <1>6 DEF Skip, JobStep, OnRecord
  <2> QED
    BY <1>6, <2>1, <2>2 DEF Skip, TypeOK
<1>7. CASE Busy
  BY <1>0, <1>7 DEF Busy, stored, TypeOK
<1>8. ASSUME NEW step \in JobStep, NEW level \in Level, Summarized(step, level) PROVE TypeOK'
  <2>1. job' \in Job /\ job'.record = job.record
    BY <1>0, <1>8 DEF Summarized, Job
  <2>2. job'.record # 0
    BY <1>8, <2>1 DEF Summarized, TypeOK, OnRecord
  <2> QED
    BY <1>8, <2>1, <2>2 DEF Summarized, stored, TypeOK
<1>9. CASE CountFailure
  <2> DEFINE r == job.record
  <2>1. r \in RecordId /\ records[r] \in Record /\ r # 0 /\ records[r].attempts \in Nat
    BY <1>1, <1>9, Constants DEF CountFailure, OnRecord, RecordId, Record
  <2> DEFINE n == IF records[r].state = "absent" \/ records[r].attempts = MaxAttempts
                  THEN records[r].attempts ELSE records[r].attempts + 1
  <2>2. n \in Nat /\ records' = [records EXCEPT ![r].attempts = n]
    BY <1>9, <2>1 DEF CountFailure
  <2> HIDE DEF n
  <2>3. records' \in [RecordId -> Record]
    BY <1>0, <2>1, <2>2 DEF Record
  <2>4. job' \in Job /\ (job'.step \in OnRecord => job'.record # 0)
    BY <1>0, <1>9, <2>1 DEF CountFailure, Job, JobStep
  <2> QED
    BY <1>9, <2>3, <2>4 DEF CountFailure, TypeOK
<1>10. CASE GiveUp
  <2>1. records' \in [RecordId -> Record]
    BY <1>2, <1>10 DEF GiveUp, OnRecord, Diaries
  <2> QED
    BY <1>0, <1>10, <2>1 DEF GiveUp, TypeOK
<1>11. CASE WriteEpisode
  <2> DEFINE r == job.record
  <2>1. r \in RecordId /\ records[r] \in Record /\ job.level \in Level
    BY <1>0, <1>1, <1>11 DEF WriteEpisode, OnRecord, Job
  <2>2. /\ records' \in [RecordId -> Record] /\ units' \in [UnitId -> Unit]
        /\ lastUnit' \in 0..MaxUnits /\ lastRecord' = lastRecord
    <3>1. CASE records[r].state = "absent"
      BY <1>0, <1>11, <3>1 DEF WriteEpisode, stored
    <3>2. CASE records[r].state # "absent"
      <4>1. [records[r] EXCEPT !.episode = job.level, !.diary = "done"] \in Record
        BY <2>1, RecordTypes
      <4>2. records' = [records EXCEPT ![r] = [records[r] EXCEPT !.episode = job.level, !.diary = "done"]]
        BY <1>0, <1>11, <2>1, <3>2 DEF WriteEpisode
      <4>3. records' \in [RecordId -> Record]
        BY <1>0, <2>1, <4>1, <4>2
      <4>4. CASE recallOn /\ job.tells
        <5>1. /\ lastUnit < MaxUnits /\ lastUnit' = lastUnit + 1
              /\ units' = [Raised(r, job.level) EXCEPT ![lastUnit + 1] = EpisodeUnit(r, job.level)]
          BY <1>11, <3>2, <4>4 DEF WriteEpisode
        <5>2. lastUnit + 1 \in UnitId /\ lastUnit' \in 0..MaxUnits
          BY <1>0, <5>1, Constants DEF UnitId
        <5>3. EpisodeUnit(r, job.level) \in Unit
          BY <2>1, UnitTypes, Empties DEF EpisodeUnit
        <5>4. Raised(r, job.level) \in [UnitId -> Unit]
          BY <2>1, Raising
        <5>5. units' \in [UnitId -> Unit]
          BY <5>1, <5>2, <5>3, <5>4
        <5> QED
          BY <1>11, <3>2, <4>3, <5>2, <5>5 DEF WriteEpisode
      <4>5. CASE ~(recallOn /\ job.tells)
        BY <1>0, <1>11, <3>2, <4>3, <4>5 DEF WriteEpisode
      <4> QED
        BY <4>4, <4>5
    <3> QED
      BY <3>1, <3>2
  <2> QED
    BY <1>0, <1>11, <2>2 DEF WriteEpisode, TypeOK
<1>12. CASE List
  <2> DEFINE todo == {u \in UnitId : Exists(u) /\ units[u].vector = NoVector}
  <2>1. job' = [Sleeping EXCEPT !.step = "filling", !.todo = todo]
    BY <1>12 DEF List
  <2>2. "filling" \in JobStep /\ "filling" \notin OnRecord /\ todo \in SUBSET UnitId
    BY DEF JobStep, OnRecord
  <2> HIDE DEF todo
  <2>3. job' \in Job /\ job'.step \notin OnRecord
    BY <1>0, <2>1, <2>2 DEF Job
  <2> QED
    BY <1>12, <2>3 DEF List, stored, TypeOK
<1>13. CASE FillOne
  <2> DEFINE u == Oldest(job.todo)
  <2>1. job.todo \in SUBSET UnitId /\ job.todo # {} /\ job.step = "filling"
    BY <1>0, <1>13 DEF FillOne, Job
  <2>2. u \in job.todo
    <3>1. job.todo \subseteq Nat
      BY <2>1 DEF UnitId
    <3>2. PICK m \in job.todo : \A s \in job.todo : m <= s
      BY <2>1, <3>1, LeastNumber
    <3> QED
      BY <3>2 DEF Oldest
  <2>3. units' \in [UnitId -> Unit]
    BY <1>13, <2>1, <2>2, Storing DEF FillOne
  <2>4. job' \in Job /\ job'.step \notin OnRecord
    BY <1>0, <1>13, <2>1 DEF FillOne, Job, OnRecord
  <2> QED
    BY <1>13, <2>3, <2>4 DEF FillOne, TypeOK
<1>14. CASE EndTick
  BY <1>0, <1>14 DEF EndTick, stored, TypeOK
<1> QED
  BY <1>3, <1>4, <1>5, <1>6, <1>7, <1>8, <1>9, <1>10, <1>11, <1>12, <1>13, <1>14

\* The purge, the clock, the process and the command line.
LEMMA OtherTypes ==
  ASSUME TypeOK,
         \/ \E now \in Recent : Purge(now)
         \/ Tick \/ (\E on \in RecallSwitch : Start(on)) \/ Stop
         \/ (\E r \in RecordId : DeleteRecord(r)) \/ Grant \/ Revoke
  PROVE  TypeOK'
<1> USE DEF process, stored
<1>1. ASSUME NEW now \in Recent, Purge(now) PROVE TypeOK'
  <2>1. PICK gone : Delete(gone)
    BY <1>1, Zenon DEF Purge
  <2> QED
    BY <1>1, <2>1, Deleting DEF Purge, TypeOK
<1>2. CASE Tick
  BY <1>2 DEF Tick, TypeOK
<1>3. ASSUME NEW on \in RecallSwitch, Start(on) PROVE TypeOK'
  BY <1>3, ConstantsAssumption DEF Start, TypeOK
<1>4. CASE Stop
  BY <1>4, Empties DEF Stop, TypeOK
<1>5. ASSUME NEW r \in RecordId, DeleteRecord(r) PROVE TypeOK'
  BY <1>5, Deleting DEF DeleteRecord, TypeOK
<1>6. CASE Grant
  BY <1>6 DEF Grant, TypeOK
<1>7. CASE Revoke
  BY <1>7, Deleting DEF Revoke, TypeOK
<1> QED
  BY <1>1, <1>2, <1>3, <1>4, <1>5, <1>6, <1>7

LEMMA TypeStep ==
  ASSUME TypeOK, [Next]_vars
  PROVE  TypeOK'
<1>1. CASE Next
  BY <1>1, CapturingTypes, JobTypes, OtherTypes DEF Next
<1>2. CASE UNCHANGED vars
  BY <1>2 DEF vars, stored, process, TypeOK
<1> QED
  BY <1>1, <1>2

-----------------------------------------------------------------------------
(* The life of a record: what a step may do to it.                         *)

Appending(r) ==
  \E t \in Turn :
    /\ capture[t].step = "verifying"
    /\ records[r].state = "open" /\ ~Ended(records[r], capture[t].at)
    /\ records'[r] = Appended(records[r], capture[t].at, capture[t].said)

Fresh(at) == [NoRecord EXCEPT !.state = "open", !.lastAt = at]

Opening(r) ==
  /\ r = lastRecord + 1 /\ lastRecord' = r
  /\ \E t \in Turn :
       /\ capture[t].step = "verifying"
       /\ records'[r] = Appended(Fresh(capture[t].at), capture[t].at, capture[t].said)

Closing(r) ==
  records[r].state = "open" /\ \E now \in Nat : records'[r] = Closed(records[r], now)

Reporting(r) ==
  /\ job.step \in OnRecord /\ job.record = r /\ records[r].state # "absent"
  /\ job'.step \in OnRecord => job'.record = r /\ job'.tells = job.tells
  /\ \/ /\ job'.step \notin OnRecord
        /\ \E status \in {"skipped", "failed"} : records'[r] = [records[r] EXCEPT !.diary = status]
     \/ \E n \in Nat : records'[r] = [records[r] EXCEPT !.attempts = n]
     \/ /\ job'.step \notin OnRecord
        /\ job.step = "writing"
        /\ \E level \in Level : records'[r] = [records[r] EXCEPT !.episode = level, !.diary = "done"]

RecordStep(r) ==
  \/ records'[r] = records[r] /\ (r = lastRecord + 1 => lastRecord' = lastRecord)
  \/ Appending(r) \/ Opening(r) \/ Closing(r) \/ Reporting(r)

LEMMA DiaryChanges ==
  ASSUME TypeOK, job.step \in OnRecord, NEW status \in {"skipped", "failed"},
         records' = Diary(job.record, status), job'.step \notin OnRecord,
         lastRecord' = lastRecord
  PROVE  \A r \in RecordId : RecordStep(r)
<1>1. ASSUME NEW r \in RecordId, r = job.record, records[r].state # "absent"
      PROVE  records'[r] = [records[r] EXCEPT !.diary = status]
  BY <1>1 DEF Diary, TypeOK
<1>2. ASSUME NEW r \in RecordId, r # job.record \/ records[r].state = "absent"
      PROVE  records'[r] = records[r]
  BY <1>2 DEF Diary, TypeOK
<1> QED
  BY <1>1, <1>2 DEF RecordStep, Reporting

LEMMA RecordSteps ==
  ASSUME TypeOK, Next
  PROVE  /\ lastRecord' >= lastRecord
         /\ (\E gone : Delete(gone)) \/ (\A r \in RecordId : RecordStep(r))
         /\ up => (\E now \in Recent : Purge(now)) \/ (\A r \in RecordId : RecordStep(r))
<1> USE DEF JobStays, process, stored
<1>0. /\ records \in [RecordId -> Record] /\ lastRecord \in 0..MaxRecords /\ MaxRecords \in Nat
      /\ \A t \in Turn : capture[t].at \in Nat
  BY Constants DEF TypeOK, Capture
<1>1. ASSUME UNCHANGED records, UNCHANGED lastRecord
      PROVE  (\A r \in RecordId : RecordStep(r)) /\ lastRecord' >= lastRecord
  BY <1>0, <1>1 DEF RecordStep
<1>2. ASSUME NEW gone, Delete(gone) PROVE lastRecord' >= lastRecord
  BY <1>0, <1>2, Deleting
<1>3. ASSUME NEW t \in Turn, NEW r \in RecordId, AppendTurn(t, r)
      PROVE  (\A s \in RecordId : RecordStep(s)) /\ lastRecord' >= lastRecord
  <2>1. /\ capture[t].step = "verifying" /\ lastRecord' = lastRecord
        /\ records[r].state = "open" /\ ~Ended(records[r], capture[t].at)
        /\ records' = [records EXCEPT ![r] = Appended(records[r], capture[t].at, capture[t].said)]
    BY <1>3 DEF AppendTurn
  <2>2. Appending(r)
    BY <1>0, <2>1 DEF Appending
  <2>3. \A s \in RecordId : s # r => records'[s] = records[s]
    BY <1>0, <2>1
  <2> QED
    BY <1>0, <2>1, <2>2, <2>3 DEF RecordStep
<1>4. ASSUME NEW t \in Turn, NEW now \in capture[t].at..clock, OpenSegment(t, now)
      PROVE  (\A r \in RecordId : RecordStep(r)) /\ lastRecord' >= lastRecord
  <2>1. /\ capture[t].step = "verifying" /\ lastRecord' = lastRecord + 1 /\ now \in Nat
        /\ records' = [r \in RecordId |->
             IF r = lastRecord + 1
             THEN Appended(Fresh(capture[t].at), capture[t].at, capture[t].said)
             ELSE IF r \in OpenRecords THEN Closed(records[r], now)
             ELSE records[r]]
    BY <1>0, <1>4 DEF OpenSegment, Fresh, TypeOK
  <2>2. ASSUME NEW r \in RecordId, r = lastRecord + 1 PROVE RecordStep(r)
    BY <2>1, <2>2 DEF RecordStep, Opening
  <2>3. ASSUME NEW r \in RecordId, r # lastRecord + 1 PROVE RecordStep(r)
    BY <2>1, <2>3 DEF RecordStep, Closing, OpenRecords
  <2> QED
    BY <1>0, <2>1, <2>2, <2>3
<1>5. ASSUME NEW now \in Recent, CloseIdle(now)
      PROVE  (\A r \in RecordId : RecordStep(r)) /\ lastRecord' >= lastRecord
  <2>1. now \in Nat /\ lastRecord' = lastRecord
    BY <1>5 DEF Recent, CloseIdle
  <2>2. \A r \in RecordId : \/ records'[r] = records[r]
                            \/ records[r].state = "open" /\ records'[r] = Closed(records[r], now)
    BY <1>5 DEF CloseIdle, OpenRecords
  <2> QED
    BY <1>0, <2>1, <2>2 DEF RecordStep, Closing
<1>6. CASE Skip
  <2>1. job'.step \notin OnRecord
    BY <1>6, JobValues DEF Skip, JobStep, OnRecord
  <2> QED
    BY <1>0, <1>6, <2>1, DiaryChanges DEF Skip, OnRecord
<1>7. CASE GiveUp
  <2>1. job'.step \notin OnRecord
    BY <1>7, JobValues DEF GiveUp
  <2> QED
    BY <1>0, <1>7, <2>1, DiaryChanges DEF GiveUp, OnRecord
<1>8. CASE CountFailure
  <2> DEFINE r == job.record
  <2>1. r \in RecordId /\ records[r] \in Record /\ records[r].attempts \in Nat
    BY <1>0, <1>8, Constants DEF CountFailure, OnRecord, RecordId, Record, TypeOK, Job
  <2>2. \E n \in Nat : records' = [records EXCEPT ![r].attempts = n]
                       /\ (records[r].state = "absent" => n = records[r].attempts)
    <3> DEFINE n == IF records[r].state = "absent" \/ records[r].attempts = MaxAttempts
                    THEN records[r].attempts ELSE records[r].attempts + 1
    <3>1. n \in Nat /\ records' = [records EXCEPT ![r].attempts = n]
      BY <1>8, <2>1 DEF CountFailure
    <3> QED
      BY <3>1
  <2>3. PICK n \in Nat : records' = [records EXCEPT ![r].attempts = n]
                         /\ (records[r].state = "absent" => n = records[r].attempts)
    BY <2>2
  <2>4. job.step \in OnRecord /\ lastRecord' = lastRecord
        /\ (job'.step \in OnRecord => job'.record = r /\ job'.tells = job.tells)
    BY <1>8, JobValues DEF CountFailure, OnRecord, TypeOK, Job
  <2>5. records'[r] = [records[r] EXCEPT !.attempts = n]
    BY <1>0, <2>1, <2>3
  <2>6. records[r].state = "absent" => records'[r] = records[r]
    BY <2>1, <2>3, <2>5 DEF Record
  <2>7. \A s \in RecordId : s # r => records'[s] = records[s]
    BY <1>0, <2>1, <2>3
  <2>8. RecordStep(r)
    BY <1>0, <2>4, <2>5, <2>6 DEF RecordStep, Reporting
  <2> QED
    BY <1>0, <2>4, <2>7, <2>8 DEF RecordStep
<1>9. CASE WriteEpisode
  <2> DEFINE r == job.record
  <2>1. r \in RecordId /\ job.level \in Level /\ job.step \in OnRecord /\ job.step = "writing"
    BY <1>9, Constants DEF WriteEpisode, OnRecord, RecordId, TypeOK, Job
  <2>2. lastRecord' = lastRecord /\ job'.step \notin OnRecord
    BY <1>9, JobValues DEF WriteEpisode
  <2>3. \/ records' = records
        \/ /\ records[r].state # "absent"
           /\ records' = [records EXCEPT ![r].episode = job.level, ![r].diary = "done"]
    BY <1>9 DEF WriteEpisode
  <2>4. CASE records' = records
    BY <1>1, <2>2, <2>4
  <2>5. CASE /\ records[r].state # "absent"
             /\ records' = [records EXCEPT ![r].episode = job.level, ![r].diary = "done"]
    <3>1. records'[r] = [records[r] EXCEPT !.episode = job.level, !.diary = "done"]
      BY <1>0, <2>1, <2>5
    <3>2. \A s \in RecordId : s # r => records'[s] = records[s]
      BY <1>0, <2>1, <2>5
    <3>3. Reporting(r)
      BY <2>1, <2>2, <2>5, <3>1 DEF Reporting
    <3> QED
      BY <1>0, <2>2, <3>2, <3>3 DEF RecordStep
  <2> QED
    BY <2>3, <2>4, <2>5
<1>10. ASSUME NEW t \in Turn, Capturing(t)
       PROVE  (\A r \in RecordId : RecordStep(r)) /\ lastRecord' >= lastRecord
  BY <1>1, <1>3, <1>4, <1>10 DEF Capturing, Hear, Drop, EmbedTurn
<1>11. ASSUME NEW now \in Recent, Purge(now) PROVE \E gone : Delete(gone)
  BY <1>11, Zenon DEF Purge
<1>12. CASE \/ Look \/ Choose \/ Busy \/ List \/ FillOne \/ EndTick \/ Tick \/ Stop \/ Grant
            \/ \E step \in JobStep, level \in Level : Summarized(step, level)
            \/ \E on \in RecallSwitch : Start(on)
  BY <1>1, <1>12 DEF Look, Choose, Busy, List, FillOne, EndTick, Tick, Stop, Grant, Summarized, Start
<1>13. ASSUME (\E r \in RecordId : DeleteRecord(r)) \/ Revoke
       PROVE  ~up /\ \E gone : Delete(gone)
  BY <1>13, Zenon DEF DeleteRecord, Revoke
<1> QED
  BY <1>2, <1>5, <1>6, <1>7, <1>8, <1>9, <1>10, <1>11, <1>12, <1>13 DEF Next

-----------------------------------------------------------------------------
(* The invariant. *)

\* Ids are given in order; a record that is gone leaves nothing behind.
IdsAreGivenOnce ==
  \A r \in RecordId : /\ records[r].state = "absent" => records[r] = NoRecord
                      /\ r > lastRecord => records[r].state = "absent"

\* A capture is never further behind the clock than MaxDelay.
CapturesAreRecent ==
  \A t \in Turn : capture[t] # NoCapture =>
    capture[t].at <= clock /\ clock - capture[t].at <= MaxDelay

\* Every exchange but the last is followed by another within Idle.
OneConversation(record) ==
  record.state # "absent" =>
    /\ record.lastAt \in record.times /\ record.lastAt <= clock
    /\ \A x \in record.times :
         /\ x <= record.lastAt
         /\ x = record.lastAt \/ \E y \in record.times : x < y /\ y - x < Idle

\* The code does not bound the delay of a capture: beyond Idle nothing is claimed.
Conversations == MaxDelay < Idle => \A r \in RecordId : OneConversation(records[r])

\* Only a closed record has an episode, and then its diary is done.
EpisodesAreDone ==
  \A r \in RecordId : records[r].episode # NoEpisode =>
    records[r].state = "closed" /\ records[r].diary = "done"

\* The record the job carries is gone, or as it was when the job chose it.
JobHolds ==
  job.step \in OnRecord =>
    LET r == job.record
    IN  /\ r <= lastRecord
        /\ \/ records[r].state = "absent"
           \/ /\ records[r].state = "closed" /\ records[r].diary = "pending"
              /\ records[r].tells = job.tells

IInv ==
  /\ TypeOK /\ IdsAreGivenOnce /\ CapturesAreRecent /\ Conversations
  /\ EpisodesAreDone /\ JobHolds /\ UnitsHaveTheirRecord

\* With recall on at every start, it is on whenever the server runs.
RecallThroughout == (up => recallOn) /\ (job # Sleeping => up)

LEMMA InvInit == Init => IInv
<1> SUFFICES ASSUME Init PROVE IInv
  OBVIOUS
<1>1. TypeOK
  BY TypeInit
<1>2. \A r \in RecordId : records[r] = NoRecord
  BY DEF Init
<1>3. NoRecord.state = "absent" /\ NoRecord.episode = NoEpisode
  BY DEF NoRecord
<1>4. IdsAreGivenOnce /\ Conversations /\ EpisodesAreDone
  BY <1>2, <1>3 DEF IdsAreGivenOnce, Conversations, OneConversation, EpisodesAreDone
<1>5. CapturesAreRecent /\ JobHolds
  BY Empties DEF Init, CapturesAreRecent, JobHolds
<1>6. UnitsHaveTheirRecord
  BY DEF Init, UnitsHaveTheirRecord, Exists, NoUnit
<1> QED
  BY <1>1, <1>4, <1>5, <1>6 DEF IInv

\* What a step leaves of a record that exists.
LEMMA RecordLives ==
  ASSUME TypeOK, IdsAreGivenOnce, JobHolds, NEW r \in RecordId, RecordStep(r),
         records[r].state # "absent"
  PROVE  /\ records'[r].state # "absent"
         /\ records[r].tells => records'[r].tells
         /\ records[r].diary = "done" => records'[r].diary = "done"
         /\ records'[r].episode # records[r].episode =>
              job.step = "writing" /\ job.record = r /\ job'.step \notin OnRecord
              /\ records'[r].diary = "done" /\ records'[r].state = "closed"
         /\ records[r].state = "closed" =>
              /\ records'[r].state = "closed"
              /\ records'[r].times = records[r].times
              /\ records'[r].turns = records[r].turns
              /\ records'[r].eligible = records[r].eligible
              /\ records'[r].expiresAt = records[r].expiresAt
              /\ records'[r].tells = records[r].tells
         /\ records'[r].episode # NoEpisode =>
              \/ records[r].episode = records'[r].episode
              \/ records'[r].diary = "done" /\ records'[r].state = "closed"
<1>0. records[r] \in Record /\ r <= lastRecord /\ lastRecord \in Nat /\ r \in Nat
  BY Constants DEF TypeOK, IdsAreGivenOnce, RecordId
<1>1. CASE records'[r] = records[r]
  BY <1>1
<1>2. CASE Appending(r)
  <2>1. PICK t \in Turn : /\ records[r].state = "open"
                          /\ records'[r] = Appended(records[r], capture[t].at, capture[t].said)
    BY <1>2 DEF Appending
  <2>2. capture[t].at \in Nat /\ capture[t].said \in Exchange \cup {Silence}
    BY DEF TypeOK, Capture
  <2> QED
    BY <1>0, <2>1, <2>2, AppendedFields
<1>3. CASE Opening(r)
  BY <1>0, <1>3 DEF Opening
<1>4. CASE Closing(r)
  <2>1. PICK now \in Nat : records'[r] = Closed(records[r], now)
    BY <1>4 DEF Closing
  <2>2. records[r].state = "open"
    BY <1>4 DEF Closing
  <2> QED
    BY <1>0, <2>1, <2>2, ClosedFields
<1>5. CASE Reporting(r)
  <2>1. /\ job.step \in OnRecord /\ job.record = r
        /\ records[r].state = "closed" /\ records[r].diary = "pending"
    BY <1>5 DEF Reporting, JobHolds
  <2>2. CASE \E status \in {"skipped", "failed"} : records'[r] = [records[r] EXCEPT !.diary = status]
    BY <1>0, <2>1, <2>2 DEF Record
  <2>3. CASE \E n \in Nat : records'[r] = [records[r] EXCEPT !.attempts = n]
    BY <1>0, <2>1, <2>3 DEF Record
  <2>4. CASE /\ job.step = "writing" /\ job'.step \notin OnRecord
             /\ \E level \in Level : records'[r] = [records[r] EXCEPT !.episode = level, !.diary = "done"]
    BY <1>0, <2>1, <2>4 DEF Record
  <2> QED
    BY <1>5, <2>2, <2>3, <2>4 DEF Reporting
<1> QED
  BY <1>1, <1>2, <1>3, <1>4, <1>5 DEF RecordStep

\* A record opened by a step is a new one.
LEMMA RecordBegins ==
  ASSUME TypeOK, NEW r \in RecordId, RecordStep(r),
         records[r].state = "absent", records'[r] # records[r]
  PROVE  /\ r = lastRecord + 1 /\ lastRecord' = r
         /\ \E t \in Turn :
              /\ capture[t].step = "verifying"
              /\ records'[r] = Appended(Fresh(capture[t].at), capture[t].at, capture[t].said)
              /\ records'[r].state = "open" /\ records'[r].episode = NoEpisode
              /\ records'[r].times = {capture[t].at} /\ records'[r].lastAt = capture[t].at
<1>1. Opening(r)
  BY DEF RecordStep, Appending, Closing, Reporting
<1>2. PICK t \in Turn :
        /\ capture[t].step = "verifying"
        /\ records'[r] = Appended(Fresh(capture[t].at), capture[t].at, capture[t].said)
  BY <1>1 DEF Opening
<1> DEFINE at == capture[t].at
<1>3. at \in Nat /\ capture[t].said \in Exchange \cup {Silence}
  BY DEF TypeOK, Capture
<1>4. /\ Fresh(at) \in Record /\ Fresh(at).state = "open" /\ Fresh(at).lastAt = at
      /\ Fresh(at).times = {} /\ Fresh(at).episode = NoEpisode
  BY <1>3, Empties DEF Fresh, Record, NoRecord
<1>5. /\ records'[r].state = "open" /\ records'[r].episode = NoEpisode
      /\ records'[r].times = {at} /\ records'[r].lastAt = at
  BY <1>2, <1>3, <1>4, AppendedFields
<1> QED
  BY <1>1, <1>2, <1>5 DEF Opening

LEMMA IdsStep ==
  ASSUME IInv, Next
  PROVE  IdsAreGivenOnce'
<1> USE DEF IInv
<1>0. lastRecord \in Nat /\ lastRecord' \in Int /\ RecordId \subseteq Nat /\ lastRecord' >= lastRecord
      /\ NoRecord.state = "absent"
  BY TypeStep, RecordSteps, Constants DEF TypeOK, RecordId, NoRecord
<1> SUFFICES ASSUME NEW r \in RecordId
             PROVE  /\ records'[r].state = "absent" => records'[r] = NoRecord
                    /\ r > lastRecord' => records'[r].state = "absent"
  BY DEF IdsAreGivenOnce
<1>1. CASE \E gone : Delete(gone)
  <2>1. records'[r] \in {NoRecord, records[r]} /\ lastRecord' = lastRecord
    BY <1>1, Deleting
  <2> QED
    BY <1>0, <2>1 DEF IdsAreGivenOnce
<1>2. CASE RecordStep(r)
  <2>1. CASE records[r].state # "absent"
    BY <1>0, <1>2, <2>1, RecordLives DEF IdsAreGivenOnce
  <2>2. CASE records[r].state = "absent" /\ records'[r] = records[r]
    BY <1>0, <2>2 DEF IdsAreGivenOnce
  <2>3. CASE records[r].state = "absent" /\ records'[r] # records[r]
    BY <1>0, <1>2, <2>3, RecordBegins
  <2> QED
    BY <2>1, <2>2, <2>3
<1> QED
  BY <1>1, <1>2, RecordSteps

LEMMA CaptureStep ==
  ASSUME TypeOK, CapturesAreRecent, Next
  PROVE  CapturesAreRecent' /\ clock' >= clock
<1> USE DEF CapturesAreRecent, stored, process, JobStays
<1>0. /\ clock \in Nat /\ MaxDelay \in Nat /\ capture \in [Turn -> Capture]
      /\ \A t \in Turn : capture[t].at \in Nat
  BY Constants DEF TypeOK, Capture
<1>1. ASSUME UNCHANGED <<clock, capture>>
      PROVE  CapturesAreRecent' /\ clock' >= clock
  BY <1>0, <1>1
<1>2. ASSUME NEW t \in Turn, Capturing(t)
      PROVE  CapturesAreRecent' /\ clock' >= clock
  <2>1. CASE \E e \in Exchange : Hear(t, e)
    <3>1. PICK e \in Exchange : capture' = [capture EXCEPT ![t] =
                [step |-> "verifying", at |-> clock, said |-> e, unit |-> 0]]
      BY <2>1 DEF Hear
    <3>2. clock' = clock
      BY <2>1 DEF Hear
    <3>3. \A s \in Turn : capture'[s] = capture[s] \/ capture'[s].at = clock
      BY <1>0, <3>1
    <3> QED
      BY <1>0, <3>2, <3>3
  <2>2. CASE Drop(t) \/ EmbedTurn(t)
    <3>1. clock' = clock /\ \A s \in Turn : capture'[s] \in {capture[s], NoCapture}
      BY <1>0, <2>2 DEF Drop, EmbedTurn
    <3> QED
      BY <1>0, <3>1
  <2>3. CASE \/ \E r \in RecordId : AppendTurn(t, r)
             \/ \E now \in capture[t].at..clock : OpenSegment(t, now)
    <3>1. clock' = clock /\ capture[t] # NoCapture /\ \E r \in RecordId : Index(t, r)
      <4>1. capture[t].step = "verifying" /\ NoCapture.step # "verifying" /\ clock' = clock
        BY <2>3 DEF AppendTurn, OpenSegment, NoCapture
      <4>2. \/ \E r \in RecordId : Index(t, r)
            \/ lastRecord < MaxRecords /\ Index(t, lastRecord + 1)
        BY <2>3 DEF AppendTurn, OpenSegment
      <4>3. lastRecord < MaxRecords => lastRecord + 1 \in RecordId
        BY Constants DEF TypeOK, RecordId
      <4> QED
        BY <4>1, <4>2, <4>3
    <3>2. \A s \in Turn : capture'[s] # NoCapture => capture'[s].at = capture[s].at
                                                     /\ (capture[s] # NoCapture \/ s = t)
      BY <3>1, Indexing
    <3> QED
      BY <1>0, <3>1, <3>2
  <2> QED
    BY <1>2, <2>1, <2>2, <2>3 DEF Capturing
<1>3. CASE Tick
  <2>1. /\ clock' = clock + 1 /\ capture' = capture
        /\ \A t \in Turn : capture[t] # NoCapture => clock - capture[t].at < MaxDelay
    BY <1>3 DEF Tick
  <2> QED
    BY <1>0, <2>1
<1>4. CASE Stop
  BY <1>0, <1>4 DEF Stop
<1>5. CASE \/ \E now \in Recent : CloseIdle(now) \/ Purge(now)
           \/ \E on \in RecallSwitch : Start(on)
           \/ (\E r \in RecordId : DeleteRecord(r)) \/ Grant \/ Revoke
  BY <1>1, <1>5 DEF CloseIdle, Purge, Start, DeleteRecord, Grant, Revoke
<1>6. CASE \/ Look \/ Choose \/ Skip \/ Busy
           \/ \E step \in JobStep, level \in Level : Summarized(step, level)
           \/ CountFailure \/ GiveUp \/ WriteEpisode \/ List \/ FillOne \/ EndTick
  BY <1>1, <1>6 DEF Look, Choose, Skip, Busy, Summarized, CountFailure, GiveUp, WriteEpisode,
                    List, FillOne, EndTick
<1> QED
  BY <1>2, <1>3, <1>4, <1>5, <1>6 DEF Next

\* An exchange joins a segment within Idle of one that is in it: one said
\* later because the segment has not ended, one said earlier because its
\* capture is not further behind than MaxDelay.
LEMMA ConversationsStep ==
  ASSUME IInv, Next
  PROVE  Conversations'
<1> USE DEF IInv
<1>0. /\ clock \in Nat /\ clock' \in Nat /\ clock' >= clock
      /\ MaxDelay \in Nat /\ Idle \in Nat
  BY CaptureStep, TypeStep, Constants DEF TypeOK
<1> SUFFICES ASSUME MaxDelay < Idle, NEW r \in RecordId PROVE OneConversation(records[r])'
  BY DEF Conversations
<1>1. records[r] \in Record /\ OneConversation(records[r])
  BY DEF TypeOK, Conversations
<1>2. ASSUME records'[r] \in {records[r], NoRecord} PROVE OneConversation(records[r])'
  <2>1. records'[r].state # "absent" => records'[r] = records[r]
    BY <1>2 DEF NoRecord
  <2> QED
    BY <1>0, <1>1, <2>1 DEF OneConversation, Record
<1>3. CASE \E gone : Delete(gone)
  BY <1>2, <1>3, Deleting
<1>4. CASE Appending(r)
  <2>1. PICK t \in Turn :
          /\ capture[t].step = "verifying"
          /\ records[r].state = "open" /\ ~Ended(records[r], capture[t].at)
          /\ records'[r] = Appended(records[r], capture[t].at, capture[t].said)
    BY <1>4 DEF Appending
  <2>2. PICK at \in Nat : at = capture[t].at
    BY DEF TypeOK, Capture
  <2>3. at <= clock /\ clock - at <= MaxDelay
    BY <2>1, <2>2 DEF CapturesAreRecent, NoCapture
  <2>4. capture[t].said \in Exchange \cup {Silence}
    BY DEF TypeOK, Capture
  <2> DEFINE new == Appended(records[r], at, capture[t].said)
  <2>5. /\ new.times = records[r].times \cup {at}
        /\ new.lastAt = IF at > records[r].lastAt THEN at ELSE records[r].lastAt
    BY <1>1, <2>2, <2>4, AppendedFields
  <2>6. PICK last \in Nat : last = records[r].lastAt
    BY <1>1 DEF Record
  <2>7. PICK times \in SUBSET Nat : times = records[r].times
    BY <1>1 DEF Record
  <2>8. /\ last \in times /\ last <= clock
        /\ \A x \in times : x <= last /\ (x = last \/ \E y \in times : x < y /\ y - x < Idle)
    BY <1>1, <2>1, <2>6, <2>7 DEF OneConversation
  <2>9. ~(at - last >= Idle)
    BY <2>1, <2>2, <2>6 DEF Ended
  <2> HIDE DEF new
  <2>10. CASE at > last
    <3>1. new.times = times \cup {at} /\ new.lastAt = at
      BY <2>5, <2>6, <2>7, <2>10
    <3>2. last < at /\ at - last < Idle
      BY <1>0, <2>9, <2>10
    <3>3. ASSUME NEW x \in times \cup {at}
          PROVE  x <= at /\ (x = at \/ \E y \in times \cup {at} : x < y /\ y - x < Idle)
      <4>1. CASE x = at
        BY <4>1
      <4>2. CASE x \in times /\ x = last
        BY <3>2, <4>2
      <4>3. CASE x \in times /\ x # last
        BY <2>8, <2>10, <4>3
      <4> QED
        BY <4>1, <4>2, <4>3
    <3>4. at <= clock'
      BY <1>0, <2>3
    <3> QED
      BY <2>1, <2>2, <3>1, <3>3, <3>4 DEF OneConversation, new
  <2>11. CASE ~(at > last)
    <3>1. new.times = times \cup {at} /\ new.lastAt = last
      BY <2>5, <2>6, <2>7, <2>11
    <3>2. at = last \/ (at < last /\ last - at < Idle)
      BY <1>0, <2>3, <2>8, <2>11
    <3>3. ASSUME NEW x \in times \cup {at}
          PROVE  x <= last /\ (x = last \/ \E y \in times \cup {at} : x < y /\ y - x < Idle)
      <4>1. CASE x = at
        BY <2>8, <3>2, <4>1
      <4>2. CASE x \in times
        BY <2>8, <4>2
      <4> QED
        BY <4>1, <4>2
    <3>4. last <= clock' /\ last \in times \cup {at}
      BY <1>0, <2>8
    <3> QED
      BY <2>1, <2>2, <3>1, <3>3, <3>4 DEF OneConversation, new
  <2> QED
    BY <2>10, <2>11
<1>5. CASE Closing(r)
  <2>1. PICK now \in Nat : records[r].state = "open" /\ records'[r] = Closed(records[r], now)
    BY <1>5 DEF Closing
  <2>2. records'[r].times = records[r].times /\ records'[r].lastAt = records[r].lastAt
    BY <1>1, <2>1, ClosedFields
  <2> QED
    BY <1>0, <1>1, <2>1, <2>2 DEF OneConversation, Record
<1>6. CASE Reporting(r)
  <2>1. records'[r].times = records[r].times /\ records'[r].lastAt = records[r].lastAt
        /\ records[r].state # "absent"
    BY <1>1, <1>6 DEF Reporting, Record
  <2> QED
    BY <1>0, <1>1, <2>1 DEF OneConversation, Record
<1>7. CASE records[r].state = "absent" /\ records'[r] # records[r] /\ RecordStep(r)
  <2>1. PICK t \in Turn :
          /\ capture[t].step = "verifying"
          /\ records'[r].times = {capture[t].at} /\ records'[r].lastAt = capture[t].at
    BY <1>7, RecordBegins
  <2>2. capture[t].at \in Nat /\ capture[t].at <= clock
    BY <2>1 DEF CapturesAreRecent, NoCapture, TypeOK, Capture
  <2> QED
    BY <1>0, <2>1, <2>2 DEF OneConversation
<1>8. CASE Opening(r)
  <2>1. records[r].state = "absent"
    BY <1>8, Constants DEF Opening, IdsAreGivenOnce, TypeOK, RecordId
  <2> QED
    BY <1>2, <1>7, <1>8, <2>1 DEF RecordStep
<1>9. CASE RecordStep(r)
  BY <1>2, <1>4, <1>5, <1>6, <1>8, <1>9 DEF RecordStep
<1> QED
  BY <1>3, <1>9, RecordSteps

LEMMA EpisodesStep ==
  ASSUME IInv, Next
  PROVE  EpisodesAreDone'
<1> USE DEF IInv
<1> SUFFICES ASSUME NEW r \in RecordId, records'[r].episode # NoEpisode
             PROVE  records'[r].state = "closed" /\ records'[r].diary = "done"
  BY DEF EpisodesAreDone
<1>0. NoRecord.episode = NoEpisode
  BY DEF NoRecord
<1>1. CASE \E gone : Delete(gone)
  <2>1. records'[r] \in {NoRecord, records[r]}
    BY <1>1, Deleting
  <2> QED
    BY <1>0, <2>1 DEF EpisodesAreDone
<1>2. CASE RecordStep(r)
  <2>1. CASE records[r].state # "absent"
    BY <1>2, <2>1, RecordLives DEF EpisodesAreDone
  <2>2. CASE records[r].state = "absent"
    <3>1. CASE records'[r] = records[r]
      BY <3>1 DEF EpisodesAreDone
    <3>2. CASE records'[r] # records[r]
      BY <1>2, <2>2, <3>2, RecordBegins
    <3> QED
      BY <3>1, <3>2
  <2> QED
    BY <2>1, <2>2
<1> QED
  BY <1>1, <1>2, RecordSteps

\* The job goes on with the record it had, or has just read one.
LEMMA JobSteps ==
  ASSUME TypeOK, Next, job'.step \in OnRecord
  PROVE  \/ /\ job.step \in OnRecord /\ job'.record = job.record /\ job'.tells = job.tells
         \/ /\ UNCHANGED <<records, lastRecord>>
            /\ job'.record \in RecordId
            /\ records[job'.record].state = "closed" /\ records[job'.record].diary = "pending"
            /\ job'.tells = records[job'.record].tells
<1> USE DEF JobStays, stored
<1>0. /\ Fill.step \notin OnRecord /\ Sleeping.step \notin OnRecord /\ job \in Job
      /\ \A step \in JobStep \ OnRecord : [Sleeping EXCEPT !.step = step].step \notin OnRecord
  BY JobValues, Empties DEF TypeOK
<1>1. CASE job' = job
  BY <1>1
<1>2. CASE Choose
  <2>1. Pending # {}
    BY <1>0, <1>2 DEF Choose
  <2>2. PICK r \in RecordId : /\ r = Oldest(Pending)
                              /\ records[r].state = "closed" /\ records[r].diary = "pending"
    BY <2>1, OldestPending
  <2>3. job'.record = r /\ job'.tells = records[r].tells
    BY <1>2, <2>1, <2>2 DEF Choose, Sleeping
  <2>4. UNCHANGED <<records, lastRecord>>
    BY <1>2 DEF Choose
  <2> QED
    BY <2>2, <2>3, <2>4
<1>3. ASSUME NEW step \in JobStep, NEW level \in Level, Summarized(step, level)
      PROVE  job.step \in OnRecord /\ job'.record = job.record /\ job'.tells = job.tells
  BY <1>0, <1>3 DEF Summarized, OnRecord, Job
<1>4. CASE CountFailure
  BY <1>0, <1>4 DEF CountFailure, OnRecord, Job
<1>5. CASE \/ Look \/ Skip \/ Busy \/ GiveUp \/ WriteEpisode \/ List \/ FillOne \/ EndTick \/ Stop
           \/ \E now \in Recent : CloseIdle(now)
  <2>1. job' = job \/ job'.step \notin OnRecord
    <3>1. CASE Look
      BY <1>0, <3>1 DEF Look, JobStep, OnRecord, Job
    <3>2. CASE Skip \/ (\E now \in Recent : CloseIdle(now))
      <4>1. \E step \in JobStep \ OnRecord : job' = [Sleeping EXCEPT !.step = step]
        BY <3>2 DEF Skip, CloseIdle, JobStep, OnRecord
      <4> QED
        BY <1>0, <4>1
    <3>3. CASE List
      BY <3>3 DEF List, Sleeping, OnRecord
    <3>4. CASE FillOne
      BY <1>0, <3>4 DEF FillOne, Job, OnRecord
    <3>5. CASE Busy \/ GiveUp \/ WriteEpisode \/ EndTick \/ Stop
      BY <1>0, <3>5 DEF Busy, GiveUp, WriteEpisode, EndTick, Stop
    <3> QED
      BY <1>5, <3>1, <3>2, <3>3, <3>4, <3>5
  <2> QED
    BY <1>1, <2>1
<1>6. CASE \/ \E t \in Turn : Capturing(t)
           \/ \E now \in Recent : Purge(now)
           \/ Tick \/ (\E on \in RecallSwitch : Start(on))
           \/ (\E r \in RecordId : DeleteRecord(r)) \/ Grant \/ Revoke
  <2>1. job' = job
    BY <1>6 DEF Capturing, Hear, Drop, EmbedTurn, AppendTurn, OpenSegment, Purge, Tick, Start,
                DeleteRecord, Grant, Revoke
  <2> QED
    BY <1>1, <2>1
<1> QED
  BY <1>2, <1>3, <1>4, <1>5, <1>6 DEF Next

LEMMA JobHoldsStep ==
  ASSUME IInv, Next
  PROVE  JobHolds'
<1> USE DEF IInv
<1>0. /\ lastRecord \in Nat /\ lastRecord' \in Int /\ RecordId \subseteq Nat /\ lastRecord' >= lastRecord
      /\ NoRecord.state = "absent"
  BY TypeStep, RecordSteps, Constants DEF TypeOK, RecordId, NoRecord
<1> SUFFICES ASSUME job'.step \in OnRecord
             PROVE  /\ job'.record <= lastRecord'
                    /\ \/ records'[job'.record].state = "absent"
                       \/ /\ records'[job'.record].state = "closed"
                          /\ records'[job'.record].diary = "pending"
                          /\ records'[job'.record].tells = job'.tells
  BY DEF JobHolds
<1>1. CASE /\ UNCHANGED <<records, lastRecord>>
           /\ job'.record \in RecordId
           /\ records[job'.record].state = "closed" /\ records[job'.record].diary = "pending"
           /\ job'.tells = records[job'.record].tells
  <2>1. PICK r \in RecordId : r = job'.record
    BY <1>1
  <2>2. r <= lastRecord
    BY <1>0, <1>1, <2>1 DEF IdsAreGivenOnce
  <2> QED
    BY <1>1, <2>1, <2>2
<1>2. CASE job.step \in OnRecord /\ job'.record = job.record /\ job'.tells = job.tells
  <2>1. PICK r \in RecordId : r = job.record
    BY <1>2 DEF TypeOK, Job
  <2>2. /\ r <= lastRecord /\ r <= lastRecord' /\ r # lastRecord + 1
        /\ \/ records[r].state = "absent"
           \/ /\ records[r].state = "closed" /\ records[r].diary = "pending"
              /\ records[r].tells = job.tells
    BY <1>0, <1>2, <2>1 DEF JobHolds
  <2>3. CASE \E gone : Delete(gone)
    <3>1. records'[r] \in {NoRecord, records[r]}
      BY <2>3, Deleting
    <3> QED
      BY <1>0, <1>2, <2>1, <2>2, <3>1
  <2>4. CASE RecordStep(r)
    <3>1. CASE records'[r] = records[r]
      BY <1>2, <2>1, <2>2, <3>1
    <3>2. CASE records'[r] # records[r]
      <4>1. Reporting(r)
        BY <2>2, <2>4, <3>2 DEF RecordStep, Appending, Opening, Closing
      <4>2. PICK n \in Nat : records'[r] = [records[r] EXCEPT !.attempts = n]
        BY <4>1 DEF Reporting
      <4>3. records[r] \in Record
        BY DEF TypeOK
      <4>4. /\ records'[r].state = records[r].state /\ records'[r].diary = records[r].diary
            /\ records'[r].tells = records[r].tells
        BY <4>2, <4>3 DEF Record
      <4> QED
        BY <1>2, <2>1, <2>2, <4>4
    <3> QED
      BY <3>1, <3>2
  <2> QED
    BY <2>3, <2>4, RecordSteps
<1> QED
  BY <1>1, <1>2, JobSteps

-----------------------------------------------------------------------------
(* The life of a unit.                                                     *)

\* It stays with its record, and follows the level of a new episode of it.
Kept(u) ==
  /\ units'[u].record = units[u].record /\ units'[u].kind = units[u].kind
  /\ units'[u].level >= units[u].level
  /\ Exists(u) =>
       LET r == units[u].record
       IN  /\ records'[r].state # "absent" /\ records'[r].tells
           /\ records[r].diary = "done" => records'[r].diary = "done"
           /\ recallOn /\ records'[r].episode # records[r].episode =>
                units'[u].level >= records'[r].episode

\* It is taken from an exchange of an open segment.
Taken(u) ==
  \E r \in RecordId :
    /\ units'[u].record = r /\ units'[u].kind = "turn"
    /\ records'[r].state = "open" /\ records'[r].tells

\* It is the diary entry of its record.
Written(u) ==
  \E r \in RecordId :
    /\ units'[u].record = r /\ units'[u].kind = "episode"
    /\ records'[r].state # "absent" /\ records'[r].tells /\ records'[r].diary = "done"
    /\ units'[u].level = records'[r].episode

UnitStep(u) == units'[u] = NoUnit \/ Kept(u) \/ Taken(u) \/ Written(u)

LEMMA UnitsStay ==
  ASSUME TypeOK, IdsAreGivenOnce, JobHolds, UnitsHaveTheirRecord, NEW u \in UnitId,
         \A r \in RecordId : RecordStep(r), job.step # "writing" \/ job' = job,
         units'[u].record = units[u].record, units'[u].kind = units[u].kind,
         units'[u].level = units[u].level
  PROVE  Kept(u)
<1>0. units[u].level \in Int
  BY Constants DEF TypeOK, Unit
<1>1. units'[u].level >= units[u].level
  BY <1>0
<1>2. ASSUME Exists(u)
      PROVE  LET r == units[u].record
             IN  /\ records'[r].state # "absent" /\ records'[r].tells
                 /\ records[r].diary = "done" => records'[r].diary = "done"
                 /\ records'[r].episode = records[r].episode
  <2>1. PICK r \in RecordId : r = units[u].record
    BY <1>2 DEF Exists, TypeOK, Unit
  <2>2. records[r].state # "absent" /\ records[r].tells
    BY <1>2, <2>1 DEF UnitsHaveTheirRecord
  <2>3. /\ records'[r].state # "absent" /\ records'[r].tells
        /\ records[r].diary = "done" => records'[r].diary = "done"
        /\ records'[r].episode # records[r].episode =>
             job.step = "writing" /\ job'.step \notin OnRecord
    BY <2>2, RecordLives
  <2>4. records'[r].episode = records[r].episode
    BY <2>3 DEF OnRecord
  <2> QED
    BY <2>1, <2>3, <2>4
<1> QED
  BY <1>1, <1>2 DEF Kept

LEMMA UnitsKept ==
  ASSUME TypeOK, UnitsHaveTheirRecord, UNCHANGED <<records, units>>, NEW u \in UnitId
  PROVE  Kept(u)
<1>1. units[u].level \in Int
  BY Constants DEF TypeOK, Unit
<1> QED
  BY <1>1 DEF Kept, UnitsHaveTheirRecord

LEMMA EpisodeUnits ==
  ASSUME IInv, WriteEpisode, NEW u \in UnitId
  PROVE  UnitStep(u)
<1> USE DEF IInv
<1>1. PICK r \in RecordId : r = job.record
  BY Constants DEF WriteEpisode, TypeOK, OnRecord, Job, RecordId
<1>2. PICK level \in Level : level = job.level
  BY DEF TypeOK, Job
<1>3. CASE UNCHANGED stored
  BY <1>3, UnitsKept DEF stored, UnitStep
<1>4. CASE ~UNCHANGED stored
  <2>1. /\ job.step = "writing" /\ records[r].state # "absent"
        /\ records' = [records EXCEPT ![r].episode = level, ![r].diary = "done"]
        /\ \/ /\ recallOn /\ job.tells /\ lastUnit < MaxUnits
              /\ units' = [Raised(r, level) EXCEPT ![lastUnit + 1] = EpisodeUnit(r, level)]
           \/ ~(recallOn /\ job.tells) /\ units' = units
    BY <1>1, <1>2, <1>4 DEF WriteEpisode
  <2>2. records[r].state = "closed" /\ records[r].diary = "pending" /\ records[r].tells = job.tells
    BY <1>1, <2>1 DEF JobHolds, OnRecord
  <2>3. /\ records'[r].state = "closed" /\ records'[r].diary = "done"
        /\ records'[r].tells = job.tells /\ records'[r].episode = level
        /\ \A s \in RecordId : s # r => records'[s] = records[s]
    BY <2>1, <2>2 DEF TypeOK, Record
  <2>4. units[u] \in Unit /\ units[u].level \in Int /\ level \in Int
    BY Constants DEF TypeOK, Unit
  <2>5. Exists(u) => units[u].record \in RecordId /\ (units[u].record = r => units[u].kind = "turn")
    BY <2>2, <2>4 DEF Exists, UnitsHaveTheirRecord, Unit
  <2>6. ASSUME units'[u].record = units[u].record, units'[u].kind = units[u].kind,
               units'[u].level >= units[u].level,
               recallOn /\ Exists(u) /\ units[u].record = r => units'[u].level >= level
        PROVE  Kept(u)
    <3>1. CASE ~Exists(u)
      BY <2>6, <3>1 DEF Kept
    <3>2. CASE Exists(u) /\ units[u].record = r
      <4>1. records[r].tells
        BY <3>2 DEF UnitsHaveTheirRecord
      <4> QED
        BY <2>2, <2>3, <2>6, <3>2, <4>1 DEF Kept
    <3>3. CASE Exists(u) /\ units[u].record # r
      BY <2>3, <2>5, <2>6, <3>3 DEF Kept, UnitsHaveTheirRecord
    <3> QED
      BY <3>1, <3>2, <3>3
  <2>7. CASE ~(recallOn /\ job.tells) /\ units' = units
    <3>1. recallOn => ~(Exists(u) /\ units[u].record = r)
      BY <2>2, <2>7 DEF UnitsHaveTheirRecord
    <3> QED
      BY <2>4, <2>6, <2>7, <3>1 DEF UnitStep
  <2>8. CASE /\ recallOn /\ job.tells /\ lastUnit < MaxUnits
             /\ units' = [Raised(r, level) EXCEPT ![lastUnit + 1] = EpisodeUnit(r, level)]
    <3>1. Raised(r, level) \in [UnitId -> Unit]
      BY Raising
    <3>2. CASE u = lastUnit + 1
      <4>1. units'[u] = EpisodeUnit(r, level)
        BY <2>8, <3>1, <3>2
      <4>2. /\ units'[u].record = r /\ units'[u].kind = "episode"
            /\ units'[u].level = records'[r].episode
        BY <2>3, <4>1 DEF EpisodeUnit, NewUnit
      <4>3. /\ records'[r].state # "absent" /\ records'[r].tells /\ records'[r].diary = "done"
        BY <2>3, <2>8
      <4>4. Written(u)
        BY <4>2, <4>3 DEF Written
      <4> QED
        BY <4>4 DEF UnitStep
    <3>3. CASE u # lastUnit + 1
      <4>1. units'[u] = Raised(r, level)[u]
        BY <2>8, <3>1, <3>3
      <4>2. /\ units'[u].record = units[u].record /\ units'[u].kind = units[u].kind
            /\ units'[u].level >= units[u].level
            /\ units[u].record = r /\ units[u].kind = "turn" => units'[u].level >= level
        BY <4>1, Raising
      <4>3. Kept(u)
        BY <2>5, <2>6, <4>2
      <4> QED
        BY <4>3 DEF UnitStep
    <3> QED
      BY <3>2, <3>3
  <2> QED
    BY <2>1, <2>7, <2>8
<1> QED
  BY <1>3, <1>4

LEMMA DeletedUnits ==
  ASSUME TypeOK, UnitsHaveTheirRecord, NEW gone, Delete(gone), NEW u \in UnitId
  PROVE  UnitStep(u)
<1>0. units[u].level \in Int
  BY Constants DEF TypeOK, Unit
<1>1. units'[u] = IF units[u].record \in gone THEN NoUnit ELSE units[u]
  BY Deleting
<1>2. CASE units[u].record \notin gone /\ Exists(u)
  <2>1. PICK r \in RecordId : r = units[u].record
    BY <1>2 DEF Exists, TypeOK, Unit
  <2>2. records'[r] = records[r]
    BY <1>2, <2>1, Deleting
  <2> QED
    BY <1>0, <1>1, <1>2, <2>1, <2>2 DEF UnitStep, Kept, UnitsHaveTheirRecord
<1>3. CASE units[u].record \notin gone /\ ~Exists(u)
  BY <1>0, <1>1, <1>3 DEF UnitStep, Kept
<1> QED
  BY <1>1, <1>2, <1>3 DEF UnitStep

LEMMA CapturedUnits ==
  ASSUME IInv, NEW t \in Turn, Capturing(t), \A r \in RecordId : RecordStep(r), NEW u \in UnitId
  PROVE  UnitStep(u)
<1> USE DEF IInv
<1>1. job' = job
  BY DEF Capturing, Hear, Drop, EmbedTurn, AppendTurn, OpenSegment
<1>2. CASE units' = units
  BY <1>1, <1>2, UnitsStay DEF UnitStep
<1>3. CASE EmbedTurn(t)
  <2>1. capture[t].unit \in UnitId
    BY <1>3 DEF EmbedTurn, TypeOK, Capture
  <2> QED
    BY <1>1, <1>3, <2>1, Storing, UnitsStay DEF EmbedTurn, UnitStep
<1>4. ASSUME NEW r \in RecordId, Index(t, r), units' # units,
             records'[r].state = "open",
             capture[t].said.verified /\ capture[t].said.tells => records'[r].tells
      PROVE  UnitStep(u)
  <2>1. PICK w \in UnitId : units' = [units EXCEPT ![w] = NewUnit(r, "turn", capture[t].said.level)]
    BY <1>4, Indexing
  <2>2. records'[r].tells
    BY <1>4, Indexing
  <2>3. CASE u = w
    BY <1>4, <2>1, <2>2, <2>3 DEF TypeOK, NewUnit, Taken, UnitStep
  <2>4. CASE u # w
    <3>1. units'[u] = units[u]
      BY <2>1, <2>4 DEF TypeOK
    <3> QED
      BY <1>1, <3>1, UnitsStay DEF UnitStep
  <2> QED
    BY <2>3, <2>4
<1>5. capture[t].at \in Nat /\ capture[t].said \in Exchange \cup {Silence}
  BY DEF TypeOK, Capture
<1>6. ASSUME NEW r \in RecordId, AppendTurn(t, r), units' # units PROVE UnitStep(u)
  <2>1. /\ records[r].state = "open" /\ records[r] \in Record /\ Index(t, r)
        /\ records'[r] = Appended(records[r], capture[t].at, capture[t].said)
    BY <1>6 DEF AppendTurn, TypeOK
  <2>2. /\ records'[r].state = "open"
        /\ capture[t].said.verified /\ capture[t].said.tells => records'[r].tells
    BY <1>5, <2>1, AppendedFields
  <2> QED
    BY <1>4, <1>6, <2>1, <2>2
<1>7. ASSUME NEW now \in capture[t].at..clock, OpenSegment(t, now), units' # units PROVE UnitStep(u)
  <2>1. PICK r \in RecordId : r = lastRecord + 1
    BY <1>7, Constants DEF OpenSegment, TypeOK, RecordId
  <2>2. Index(t, r) /\ records'[r] = Appended(Fresh(capture[t].at), capture[t].at, capture[t].said)
    BY <1>7, <2>1 DEF OpenSegment, Fresh
  <2>3. Fresh(capture[t].at) \in Record /\ Fresh(capture[t].at).state = "open"
    BY <1>5, Empties DEF Fresh, Record
  <2>4. /\ records'[r].state = "open"
        /\ capture[t].said.verified /\ capture[t].said.tells => records'[r].tells
    BY <1>5, <2>2, <2>3, AppendedFields
  <2> QED
    BY <1>4, <1>7, <2>2, <2>4
<1> QED
  BY <1>2, <1>3, <1>6, <1>7 DEF Capturing, Hear, Drop, stored

LEMMA UnitSteps ==
  ASSUME IInv, Next
  PROVE  \A u \in UnitId : UnitStep(u)
<1> USE DEF IInv, stored, process, JobStays
<1> TAKE u \in UnitId
<1>1. CASE \E gone : Delete(gone)
  BY <1>1, DeletedUnits
<1>2. CASE UNCHANGED <<records, units>>
  BY <1>2, UnitsKept DEF UnitStep
<1>3. CASE \A r \in RecordId : RecordStep(r)
  <2>1. CASE \E t \in Turn : Capturing(t)
    BY <1>3, <2>1, CapturedUnits
  <2>2. CASE WriteEpisode
    BY <2>2, EpisodeUnits
  <2>3. CASE FillOne
    <3>1. job.todo \in SUBSET UnitId /\ job.todo # {} /\ job.step = "filling"
      BY <2>3 DEF FillOne, TypeOK, Job
    <3>2. job.todo \subseteq Nat
      BY <3>1 DEF UnitId
    <3>3. PICK m \in job.todo : \A s \in job.todo : m <= s
      BY <3>1, <3>2, LeastNumber
    <3>4. Oldest(job.todo) \in UnitId
      BY <3>1, <3>3 DEF Oldest
    <3>5. units' = VectorStored(Oldest(job.todo))
      BY <2>3 DEF FillOne
    <3> QED
      BY <1>3, <3>1, <3>4, <3>5, Storing, UnitsStay DEF UnitStep
  <2>4. CASE Skip \/ CountFailure \/ GiveUp \/ \E now \in Recent : CloseIdle(now)
    <3>1. units' = units /\ job.step # "writing"
      BY <2>4 DEF Skip, CountFailure, GiveUp, CloseIdle, Sleeping
    <3> QED
      BY <1>3, <3>1, UnitsStay DEF UnitStep
  <2>5. CASE \/ Look \/ Choose \/ Busy \/ List \/ EndTick \/ Tick \/ Stop \/ Grant
             \/ \E step \in JobStep, level \in Level : Summarized(step, level)
             \/ \E on \in RecallSwitch : Start(on)
    BY <1>2, <2>5 DEF Look, Choose, Busy, List, EndTick, Tick, Stop, Grant, Summarized, Start
  <2>6. CASE \/ \E now \in Recent : Purge(now)
             \/ (\E r \in RecordId : DeleteRecord(r)) \/ Revoke
    <3>1. \E gone : Delete(gone)
      BY <2>6, Zenon DEF Purge, DeleteRecord, Revoke
    <3> QED
      BY <1>1, <3>1
  <2> QED
    BY <2>1, <2>2, <2>3, <2>4, <2>5, <2>6 DEF Next
<1> QED
  BY <1>1, <1>3, RecordSteps

LEMMA UnitsStep ==
  ASSUME IInv, Next
  PROVE  UnitsHaveTheirRecord'
<1> USE DEF IInv
<1> SUFFICES ASSUME NEW u \in UnitId, Exists(u)'
             PROVE  /\ records'[units'[u].record].state # "absent"
                    /\ records'[units'[u].record].tells
                    /\ units'[u].kind = "episode" => records'[units'[u].record].diary = "done"
  BY DEF UnitsHaveTheirRecord
<1>1. CASE units'[u] = NoUnit
  BY <1>1 DEF NoUnit, Exists
<1>2. CASE Kept(u)
  BY <1>2 DEF Kept, Exists, UnitsHaveTheirRecord
<1>3. CASE Taken(u)
  BY <1>3 DEF Taken
<1>4. CASE Written(u)
  BY <1>4 DEF Written
<1> QED
  BY <1>1, <1>2, <1>3, <1>4, UnitSteps DEF UnitStep

LEMMA InvStep ==
  ASSUME IInv, [Next]_vars
  PROVE  IInv'
<1>1. CASE Next
  <2>1. TypeOK'
    BY TypeStep DEF IInv
  <2>2. IdsAreGivenOnce'
    BY <1>1, IdsStep
  <2>3. CapturesAreRecent'
    BY <1>1, CaptureStep DEF IInv
  <2>4. Conversations'
    BY <1>1, ConversationsStep
  <2>5. EpisodesAreDone'
    BY <1>1, EpisodesStep
  <2>6. JobHolds'
    BY <1>1, JobHoldsStep
  <2>7. UnitsHaveTheirRecord'
    BY <1>1, UnitsStep
  <2> QED
    BY <2>1, <2>2, <2>3, <2>4, <2>5, <2>6, <2>7 DEF IInv
<1>2. CASE UNCHANGED vars
  <2> USE <1>2 DEF IInv, vars, stored, process
  <2>1. TypeOK'
    BY TypeStep
  <2>2. IdsAreGivenOnce'
    BY DEF IdsAreGivenOnce
  <2>3. CapturesAreRecent'
    BY DEF CapturesAreRecent
  <2>4. Conversations'
    BY DEF Conversations, OneConversation
  <2>5. EpisodesAreDone'
    BY DEF EpisodesAreDone
  <2>6. JobHolds'
    BY DEF JobHolds
  <2>7. UnitsHaveTheirRecord'
    BY DEF UnitsHaveTheirRecord, Exists
  <2> QED
    BY <2>1, <2>2, <2>3, <2>4, <2>5, <2>6, <2>7
<1> QED
  BY <1>1, <1>2

-----------------------------------------------------------------------------
(* The theorems. *)

(* The invariant holds of every behaviour.                                 *)
THEOREM RecordInvariant == Spec => []IInv
<1>1. IInv /\ [Next]_vars => IInv'
  BY InvStep
<1> QED
  BY InvInit, <1>1, PTL DEF Spec

(* If no capture reaches the table Idle or more after its turn, a segment  *)
(* never holds two exchanges with a silence of Idle between them and none  *)
(* in it, whichever order the captures of several turns come in.  The code *)
(* does not bound that delay; without the bound the theorem is false.      *)
THEOREM SegmentsAreConversations ==
  ASSUME MaxDelay < Idle
  PROVE  Spec => []SegmentIsOneConversation
<1>1. IInv => SegmentIsOneConversation
  <2> SUFFICES ASSUME IInv, NEW r \in RecordId, NEW x \in records[r].times
               PROVE  \/ \A y \in records[r].times : y <= x
                      \/ \E y \in records[r].times : x < y /\ y - x < Idle
    BY DEF SegmentIsOneConversation
  <2>1. records[r].state # "absent"
    BY DEF IInv, IdsAreGivenOnce, NoRecord
  <2>2. OneConversation(records[r])
    BY DEF IInv, Conversations
  <2> QED
    BY <2>1, <2>2 DEF OneConversation
<1> QED
  BY RecordInvariant, <1>1, PTL

(* A unit always has its record, something the owner told is in it, and an *)
(* entry of the diary is that of a record whose diary is done, also when   *)
(* the record is deleted while the job carries it.                         *)
THEOREM UnitsKeepTheirRecord == Spec => []UnitsHaveTheirRecord
<1>1. IInv => UnitsHaveTheirRecord
  BY DEF IInv
<1> QED
  BY RecordInvariant, <1>1, PTL

(* What was closed is not added to nor given another expiry by any step.   *)
THEOREM ClosedStays == Spec => ClosedIsFinal
<1> DEFINE Stays ==
      \A r \in RecordId :
        records[r].state = "closed" /\ records'[r].state # "absent" =>
          /\ records'[r].state = "closed"
          /\ records'[r].times = records[r].times
          /\ records'[r].turns = records[r].turns
          /\ records'[r].eligible = records[r].eligible
          /\ records'[r].expiresAt = records[r].expiresAt
<1>1. ASSUME IInv, [Next]_vars PROVE [Stays]_vars
  <2> SUFFICES ASSUME Next, NEW r \in RecordId,
                      records[r].state = "closed", records'[r].state # "absent"
               PROVE  /\ records'[r].state = "closed"
                      /\ records'[r].times = records[r].times
                      /\ records'[r].turns = records[r].turns
                      /\ records'[r].eligible = records[r].eligible
                      /\ records'[r].expiresAt = records[r].expiresAt
    BY <1>1
  <2>1. CASE \E gone : Delete(gone)
    <3>1. records'[r] \in {NoRecord, records[r]}
      BY <1>1, <2>1, Deleting DEF IInv
    <3> QED
      BY <3>1 DEF NoRecord
  <2>2. CASE RecordStep(r)
    BY <1>1, <2>2, RecordLives DEF IInv
  <2> QED
    BY <1>1, <2>1, <2>2, RecordSteps DEF IInv
<1>2. IInv /\ [Next]_vars => [Stays]_vars
  BY <1>1
<1>3. []IInv /\ [][Next]_vars => [][Stays]_vars
  BY <1>2, PTL
<1>4. Spec => [][Next]_vars
  BY DEF Spec
<1> QED
  BY RecordInvariant, <1>3, <1>4, PTL DEF ClosedIsFinal

LEMMA RecallStep ==
  ASSUME RecallSwitch \subseteq {TRUE}, RecallThroughout, [Next]_vars
  PROVE  RecallThroughout'
<1> USE DEF RecallThroughout, process, JobStays
<1>1. CASE UNCHANGED <<up, recallOn, job>>
  BY <1>1
<1>2. CASE /\ UNCHANGED <<up, recallOn>>
           /\ \/ job.step # "sleeping"
              \/ up
  <2>1. up \/ job # Sleeping
    BY <1>2 DEF Sleeping
  <2> QED
    BY <1>2, <2>1
<1>3. CASE \E on \in RecallSwitch : Start(on)
  <2>1. PICK on \in RecallSwitch : Start(on)
    BY <1>3
  <2>2. on = TRUE
    OBVIOUS
  <2>3. recallOn' = TRUE /\ up' /\ job' = job
    BY <2>1, <2>2 DEF Start
  <2> QED
    BY <2>3
<1>4. CASE Stop
  BY <1>4 DEF Stop
<1>5. CASE EndTick
  BY <1>5 DEF EndTick
<1>6. CASE \/ \E now \in Recent : CloseIdle(now)
           \/ Look \/ Choose \/ Skip \/ Busy
           \/ \E step \in JobStep, level \in Level : Summarized(step, level)
           \/ CountFailure \/ GiveUp \/ WriteEpisode \/ List \/ FillOne
  <2>1. UNCHANGED <<up, recallOn>>
    BY <1>6 DEF CloseIdle, Look, Choose, Skip, Busy, Summarized, CountFailure, GiveUp,
                WriteEpisode, List, FillOne
  <2>2. job.step # "sleeping" \/ up
    BY <1>6 DEF CloseIdle, Look, Choose, Skip, Busy, Summarized, CountFailure, GiveUp,
                WriteEpisode, List, FillOne
  <2> QED
    BY <1>2, <2>1, <2>2
<1>7. CASE \/ \E t \in Turn : Capturing(t)
           \/ \E now \in Recent : Purge(now)
           \/ Tick \/ (\E r \in RecordId : DeleteRecord(r)) \/ Grant \/ Revoke
  BY <1>1, <1>7 DEF Capturing, Hear, Drop, EmbedTurn, AppendTurn, OpenSegment, Purge, Tick,
                    DeleteRecord, Grant, Revoke
<1>8. CASE UNCHANGED vars
  BY <1>1, <1>8 DEF vars
<1> QED
  BY <1>3, <1>4, <1>5, <1>6, <1>7, <1>8 DEF Next

LEMMA DiaryStep ==
  ASSUME IInv, RecallThroughout, DiaryProtectsTurns, Next
  PROVE  DiaryProtectsTurns'
<1> USE DEF IInv
<1>0. IInv'
  BY InvStep
<1> SUFFICES ASSUME NEW u \in UnitId, Exists(u)',
                    NEW r \in RecordId, r = units'[u].record, records'[r].episode # NoEpisode
             PROVE  units'[u].level >= records'[r].episode
  <2>1. \A u \in UnitId : Exists(u)' => units'[u].record \in RecordId
    BY <1>0 DEF TypeOK, Unit, Exists
  <2> QED
    BY <2>1 DEF DiaryProtectsTurns
<1>1. /\ units'[u].level \in Int /\ units[u].level \in Int /\ records'[r].episode \in Int
  BY <1>0, Constants DEF TypeOK, Unit, Record
<1>2. CASE Kept(u)
  <2>1. r = units[u].record /\ Exists(u) /\ units'[u].level >= units[u].level
    BY <1>2 DEF Kept, Exists
  <2>2. CASE records'[r].episode = records[r].episode
    <3>1. units[u].level >= records'[r].episode
      BY <2>1, <2>2 DEF DiaryProtectsTurns
    <3> QED
      BY <1>1, <2>1, <3>1
  <2>3. CASE records'[r].episode # records[r].episode
    <3>1. ~ \E gone : Delete(gone)
      <4>1. ASSUME NEW gone, Delete(gone) PROVE records'[r] \in {NoRecord, records[r]}
        BY <4>1, Deleting
      <4> QED
        BY <2>3, <4>1 DEF NoRecord
    <3>2. RecordStep(r)
      BY <3>1, RecordSteps
    <3>3. records[r].state # "absent"
      BY <2>1 DEF UnitsHaveTheirRecord
    <3>4. job.step = "writing"
      BY <2>3, <3>2, <3>3, RecordLives
    <3>5. recallOn
      BY <3>4 DEF RecallThroughout, Sleeping
    <3> QED
      BY <1>2, <2>1, <2>3, <3>5 DEF Kept
  <2> QED
    BY <2>2, <2>3
<1>3. CASE Taken(u)
  <2>1. records'[r].state = "open"
    BY <1>3 DEF Taken
  <2> QED
    BY <1>0, <2>1 DEF EpisodesAreDone
<1>4. CASE Written(u)
  BY <1>1, <1>4 DEF Written
<1>5. CASE units'[u] = NoUnit
  BY <1>5 DEF NoUnit, Exists
<1> QED
  BY <1>2, <1>3, <1>4, <1>5, UnitSteps DEF UnitStep

(* Once the diary entry of a record is written, no unit of the record is   *)
(* less protected than the entry, when recall is on at every start: units  *)
(* written before the entry are raised with it, in one transaction, and    *)
(* none is taken afterwards (ADR 0028 decision 3).                         *)
THEOREM DiaryAlwaysProtects ==
  ASSUME RecallSwitch \subseteq {TRUE}
  PROVE  Spec => []DiaryProtectsTurns
<1>1. Init => RecallThroughout /\ DiaryProtectsTurns
  <2> SUFFICES ASSUME Init PROVE RecallThroughout /\ DiaryProtectsTurns
    OBVIOUS
  <2>1. RecallThroughout
    BY DEF Init, RecallThroughout
  <2>2. \A u \in UnitId : ~Exists(u)
    BY DEF Init, Exists, NoUnit
  <2> QED
    BY <2>1, <2>2 DEF DiaryProtectsTurns
<1>2. ASSUME IInv, RecallThroughout, DiaryProtectsTurns, [Next]_vars
      PROVE  RecallThroughout' /\ DiaryProtectsTurns'
  <2>1. RecallThroughout'
    BY <1>2, RecallStep
  <2>2. CASE Next
    BY <1>2, <2>1, <2>2, DiaryStep
  <2>3. CASE UNCHANGED vars
    BY <1>2, <2>1, <2>3 DEF vars, stored, DiaryProtectsTurns, Exists
  <2> QED
    BY <1>2, <2>2, <2>3
<1>3. IInv /\ RecallThroughout /\ DiaryProtectsTurns /\ [Next]_vars
        => (RecallThroughout /\ DiaryProtectsTurns)'
  BY <1>2
<1> QED
  BY RecordInvariant, <1>1, <1>3, PTL DEF Spec

LEMMA VectorsStep ==
  ASSUME TypeOK, VectorsFollowUnits, Next
  PROVE  VectorsFollowUnits'
<1> USE DEF stored, process, JobStays
<1> DEFINE Follows(unit) == unit.vector \in {NoVector, unit.level}
<1>0. \A u \in UnitId : Follows(units[u])
  BY DEF VectorsFollowUnits
<1> SUFFICES ASSUME NEW u \in UnitId PROVE Follows(units'[u])
  BY DEF VectorsFollowUnits
<1>1. CASE units' = units
  BY <1>0, <1>1
<1>2. ASSUME NEW gone, Delete(gone) PROVE Follows(units'[u])
  <2>1. units'[u] \in {NoUnit, units[u]}
    BY <1>2, Deleting
  <2> QED
    BY <1>0, <2>1 DEF NoUnit
<1>3. ASSUME NEW t \in Turn, NEW r \in RecordId, Index(t, r) PROVE Follows(units'[u])
  <2>1. CASE units' = units
    BY <1>1, <2>1
  <2>2. CASE \E w \in UnitId : units' = [units EXCEPT ![w] = NewUnit(r, "turn", capture[t].said.level)]
    <3>1. units'[u] = units[u] \/ units'[u] = NewUnit(r, "turn", capture[t].said.level)
      BY <2>2 DEF TypeOK
    <3> QED
      BY <1>0, <3>1 DEF NewUnit
  <2> QED
    BY <1>3, <2>1, <2>2, Indexing
<1>4. ASSUME NEW w \in UnitId, units' = VectorStored(w) PROVE Follows(units'[u])
  <2>1. /\ units'[u].level = units[u].level
        /\ units'[u].vector \in {units[u].vector, units[u].level}
    BY <1>4, Storing
  <2> QED
    BY <1>0, <2>1
<1>5. CASE \E t \in Turn : Capturing(t)
  <2>1. PICK t \in Turn : Capturing(t)
    BY <1>5
  <2>2. CASE EmbedTurn(t)
    <3>1. capture[t].unit \in UnitId /\ units' = VectorStored(capture[t].unit)
      BY <2>2 DEF EmbedTurn, TypeOK, Capture
    <3> QED
      BY <1>4, <3>1
  <2>3. CASE \E r \in RecordId : AppendTurn(t, r)
    BY <1>3, <2>3 DEF AppendTurn
  <2>4. CASE \E now \in capture[t].at..clock : OpenSegment(t, now)
    <3>1. lastRecord + 1 \in RecordId /\ Index(t, lastRecord + 1)
      BY <2>4, Constants DEF OpenSegment, TypeOK, RecordId
    <3> QED
      BY <1>3, <3>1
  <2> QED
    BY <1>1, <2>1, <2>2, <2>3, <2>4 DEF Capturing, Hear, Drop
<1>6. CASE WriteEpisode
  <2>1. PICK r \in RecordId : r = job.record
    BY <1>6, Constants DEF WriteEpisode, TypeOK, OnRecord, Job, RecordId
  <2>2. PICK level \in Level : level = job.level
    BY DEF TypeOK, Job
  <2>3. \/ units' = units
        \/ /\ lastUnit < MaxUnits
           /\ units' = [Raised(r, level) EXCEPT ![lastUnit + 1] = EpisodeUnit(r, level)]
    BY <1>6, <2>1, <2>2 DEF WriteEpisode
  <2>4. Raised(r, level) \in [UnitId -> Unit] /\ Follows(Raised(r, level)[u])
    BY <1>0, Raising
  <2>5. Follows(EpisodeUnit(r, level))
    BY DEF EpisodeUnit, NewUnit
  <2>6. units' = units \/ units'[u] \in {Raised(r, level)[u], EpisodeUnit(r, level)}
    BY <2>3, <2>4
  <2> QED
    BY <1>1, <2>4, <2>5, <2>6
<1>7. CASE FillOne
  <2>1. job.todo \in SUBSET UnitId /\ job.todo # {}
    BY <1>7 DEF FillOne, TypeOK, Job
  <2>2. job.todo \subseteq Nat
    BY <2>1 DEF UnitId
  <2>3. PICK m \in job.todo : \A s \in job.todo : m <= s
    BY <2>1, <2>2, LeastNumber
  <2>4. Oldest(job.todo) \in UnitId
    BY <2>1, <2>3 DEF Oldest
  <2> QED
    BY <1>4, <1>7, <2>4 DEF FillOne
<1>8. CASE \/ \E now \in Recent : Purge(now)
           \/ (\E r \in RecordId : DeleteRecord(r)) \/ Revoke
  <2>1. \E gone : Delete(gone)
    BY <1>8, Zenon DEF Purge, DeleteRecord, Revoke
  <2> QED
    BY <1>2, <2>1
<1>9. CASE \/ \E now \in Recent : CloseIdle(now)
           \/ Look \/ Choose \/ Skip \/ Busy
           \/ \E step \in JobStep, level \in Level : Summarized(step, level)
           \/ CountFailure \/ GiveUp \/ List \/ EndTick \/ Tick \/ Stop \/ Grant
           \/ \E on \in RecallSwitch : Start(on)
  <2>1. units' = units
    BY <1>9 DEF CloseIdle, Look, Choose, Skip, Busy, Summarized, CountFailure, GiveUp, List,
                EndTick, Tick, Stop, Grant, Start
  <2> QED
    BY <1>1, <2>1
<1> QED
  BY <1>5, <1>6, <1>7, <1>8, <1>9 DEF Next

(* The level a vector is searched by is that of its unit, whichever of the *)
(* vector and the diary entry is written first.                            *)
THEOREM VectorsAlwaysFollow == Spec => []VectorsFollowUnits
<1>1. Init => VectorsFollowUnits
  BY DEF Init, VectorsFollowUnits, NoUnit
<1>2. IInv /\ VectorsFollowUnits /\ [Next]_vars => VectorsFollowUnits'
  <2>1. ASSUME IInv, VectorsFollowUnits, Next PROVE VectorsFollowUnits'
    BY <2>1, VectorsStep DEF IInv
  <2>2. ASSUME VectorsFollowUnits, UNCHANGED vars PROVE VectorsFollowUnits'
    BY <2>2 DEF vars, stored, VectorsFollowUnits
  <2> QED
    BY <2>1, <2>2
<1> QED
  BY RecordInvariant, <1>1, <1>2, PTL DEF Spec

-----------------------------------------------------------------------------
(* The bytes of a set of records.  The sum of the library is defined by    *)
(* recursion on the set; it is the number of pairs <<r, n>> with n below   *)
(* the bytes of r, and what follows about sums follows from that.          *)

Total(f, s) == MapThenSumSet(LAMBDA x : f[x].bytes, s)

Tokens(f, s) == {p \in s \X Nat : p[2] < f[p[1]].bytes}

Column(f, x) == {x} \X (0..(f[x].bytes - 1))

LEMMA ColumnTokens ==
  ASSUME NEW f, NEW s, NEW x \in s, f[x].bytes \in Nat
  PROVE  /\ Tokens(f, s) = Tokens(f, s \ {x}) \cup Column(f, x)
         /\ Tokens(f, s \ {x}) \cap Column(f, x) = {}
         /\ IsFiniteSet(Column(f, x)) /\ Cardinality(Column(f, x)) = f[x].bytes
<1> DEFINE n == f[x].bytes
<1>1. \A i : i \in 0..(n - 1) <=> i \in Nat /\ i < n
  OBVIOUS
<1>2. \A p : p \in Column(f, x) <=> p \in {x} \X Nat /\ p[2] < n
  BY <1>1 DEF Column
<1>3. \A p \in Tokens(f, s) : p \in Tokens(f, s \ {x}) \cup Column(f, x)
  BY <1>2 DEF Tokens
<1>4. \A p \in Tokens(f, s \ {x}) \cup Column(f, x) : p \in Tokens(f, s)
  BY <1>2 DEF Tokens
<1>5. Tokens(f, s \ {x}) \cap Column(f, x) = {}
  BY <1>2 DEF Tokens
<1>6. IsFiniteSet({x}) /\ Cardinality({x}) = 1
  BY FS_Singleton
<1>7. IsFiniteSet(0..(n - 1)) /\ Cardinality(0..(n - 1)) = n
  <2>1. n \in Nat /\ 0 \in Int /\ n - 1 \in Int
    OBVIOUS
  <2> HIDE DEF n
  <2>2. /\ IsFiniteSet(0..(n - 1))
        /\ Cardinality(0..(n - 1)) = IF 0 > n - 1 THEN 0 ELSE n - 1 - 0 + 1
    BY <2>1, FS_Interval, Zenon
  <2> QED
    BY <2>1, <2>2
<1>8. IsFiniteSet(Column(f, x)) /\ Cardinality(Column(f, x)) = 1 * n
  BY <1>6, <1>7, FS_Product, ZenonT(60) DEF Column
<1>9. Cardinality(Column(f, x)) = f[x].bytes
  BY <1>8
<1>10. Tokens(f, s) = Tokens(f, s \ {x}) \cup Column(f, x)
  BY <1>3, <1>4
<1> QED
  BY <1>5, <1>8, <1>9, <1>10

LEMMA TokensFinite ==
  ASSUME NEW T, IsFiniteSet(T), NEW f, \A x \in T : f[x].bytes \in Nat
  PROVE  \A s \in SUBSET T : IsFiniteSet(Tokens(f, s))
<1> DEFINE bad == {n \in Nat : \E s \in SUBSET T :
                                 n = Cardinality(s) /\ ~IsFiniteSet(Tokens(f, s))}
<1>1. ASSUME bad # {} PROVE FALSE
  <2>1. bad \subseteq Nat
    OBVIOUS
  <2>2. PICK n \in bad : \A m \in bad : n <= m
    BY <1>1, <2>1, LeastNumber
  <2>3. PICK s \in SUBSET T : n = Cardinality(s) /\ ~IsFiniteSet(Tokens(f, s))
    BY <2>2
  <2>4. IsFiniteSet(s)
    BY FS_Subset
  <2>5. CASE s = {}
    <3>1. Tokens(f, s) = {}
      BY <2>5 DEF Tokens
    <3> QED
      BY <2>3, <3>1, FS_EmptySet
  <2>6. CASE s # {}
    <3>1. PICK x \in s : TRUE
      BY <2>6
    <3>2. Cardinality(s \ {x}) = n - 1 /\ n - 1 \in Nat
      <4>1. IsFiniteSet(s \ {x}) /\ Cardinality(s \ {x}) = Cardinality(s) - 1
        BY <2>4, <3>1, FS_RemoveElement
      <4>2. Cardinality(s \ {x}) \in Nat
        BY <4>1, FS_CardinalityType
      <4> QED
        BY <2>3, <4>1, <4>2
    <3>3. n - 1 \notin bad
      BY <2>2, <3>2
    <3>4. s \ {x} \in SUBSET T
      OBVIOUS
    <3>5. IsFiniteSet(Tokens(f, s \ {x}))
      BY <3>2, <3>3, <3>4
    <3>6. x \in T /\ f[x].bytes \in Nat
      BY <3>1
    <3>7. /\ Tokens(f, s) = Tokens(f, s \ {x}) \cup Column(f, x)
          /\ IsFiniteSet(Column(f, x))
      BY <3>1, <3>6, ColumnTokens
    <3>8. IsFiniteSet(Tokens(f, s \ {x}) \cup Column(f, x))
      BY <3>5, <3>7, FS_Union, Zenon
    <3> QED
      BY <2>3, <3>7, <3>8
  <2> QED
    BY <2>5, <2>6
<1>2. ASSUME NEW s \in SUBSET T PROVE IsFiniteSet(Tokens(f, s))
  <2>1. IsFiniteSet(s) /\ Cardinality(s) \in Nat
    BY FS_Subset, FS_CardinalityType
  <2> QED
    BY <1>1, <2>1
<1> QED
  BY <1>2

LEMMA TokensCount ==
  ASSUME NEW T, IsFiniteSet(T), NEW f, \A x \in T : f[x].bytes \in Nat,
         NEW s \in SUBSET T
  PROVE  /\ s = {} => Cardinality(Tokens(f, s)) = 0
         /\ \A x \in s : Cardinality(Tokens(f, s)) =
                           f[x].bytes + Cardinality(Tokens(f, s \ {x}))
         /\ Cardinality(Tokens(f, s)) \in Nat
<1>1. ASSUME s = {} PROVE Cardinality(Tokens(f, s)) = 0
  <2>1. Tokens(f, s) = {}
    BY <1>1 DEF Tokens
  <2> QED
    BY <2>1, FS_EmptySet
<1>2. ASSUME NEW x \in s
      PROVE  Cardinality(Tokens(f, s)) = f[x].bytes + Cardinality(Tokens(f, s \ {x}))
  <2> DEFINE rest == Tokens(f, s \ {x})
             col == Column(f, x)
  <2>1. f[x].bytes \in Nat
    OBVIOUS
  <2>2. /\ Tokens(f, s) = rest \cup col /\ rest \cap col = {}
        /\ IsFiniteSet(col) /\ Cardinality(col) = f[x].bytes
    BY <2>1, ColumnTokens
  <2>3. s \ {x} \in SUBSET T
    OBVIOUS
  <2>4. IsFiniteSet(rest)
    BY <2>3, TokensFinite
  <2> HIDE DEF rest, col
  <2>5. Cardinality(rest) \in Nat
    BY <2>4, FS_CardinalityType
  <2>6. Cardinality(rest \cap col) = 0
    BY <2>2, FS_EmptySet
  <2>7. Cardinality(rest \cup col) = Cardinality(rest) + Cardinality(col) - Cardinality(rest \cap col)
    BY <2>2, <2>4, FS_Union
  <2> QED
    BY <2>1, <2>2, <2>5, <2>6, <2>7 DEF rest
<1>3. Cardinality(Tokens(f, s)) \in Nat
  BY TokensFinite, FS_CardinalityType
<1> QED
  BY <1>1, <1>2, <1>3

\* What the recursion of the library says of a function on the subsets.
Sums(g, f, T) ==
  g = [s \in SUBSET T |-> IF s = {} THEN 0
                          ELSE LET x == CHOOSE x \in s : TRUE
                               IN  f[x].bytes + g[s \ {x}]]

LEMMA SumIsCount ==
  ASSUME NEW T, IsFiniteSet(T), NEW f, \A x \in T : f[x].bytes \in Nat
  PROVE  Total(f, T) = Cardinality(Tokens(f, T))
<1> DEFINE count == [s \in SUBSET T |-> Cardinality(Tokens(f, s))]
           iter == CHOOSE g : Sums(g, f, T)
<1>1. Sums(count, f, T)
  <2>1. ASSUME NEW s \in SUBSET T
        PROVE  count[s] = IF s = {} THEN 0
                          ELSE LET x == CHOOSE x \in s : TRUE
                               IN  f[x].bytes + count[s \ {x}]
    <3>1. CASE s = {}
      BY <3>1, TokensCount
    <3>2. CASE s # {}
      <4>1. PICK x \in s : x = CHOOSE y \in s : TRUE
        BY <3>2
      <4>2. s \ {x} \in SUBSET T
        OBVIOUS
      <4>3. count[s] = f[x].bytes + count[s \ {x}]
        BY <4>2, TokensCount
      <4> QED
        BY <3>2, <4>1, <4>3
    <3> QED
      BY <3>1, <3>2
  <2> HIDE DEF count
  <2>2. count = [s \in SUBSET T |-> count[s]]
    BY DEF count
  <2> QED
    BY <2>1, <2>2 DEF Sums
<1>2. Sums(iter, f, T)
  BY <1>1
<1>3. Total(f, T) = iter[T]
  BY DEF Total, MapThenSumSet, MapThenFoldSet, Sums
<1> HIDE DEF iter
<1> DEFINE bad == {n \in Nat : \E s \in SUBSET T :
                                 n = Cardinality(s) /\ iter[s] # count[s]}
<1>4. ASSUME bad # {} PROVE FALSE
  <2>1. bad \subseteq Nat
    OBVIOUS
  <2>2. PICK n \in bad : \A m \in bad : n <= m
    BY <1>4, <2>1, LeastNumber
  <2>3. PICK s \in SUBSET T : n = Cardinality(s) /\ iter[s] # count[s]
    BY <2>2
  <2>4. IsFiniteSet(s)
    BY FS_Subset
  <2> HIDE DEF count
  <2>5. CASE s = {}
    BY <1>1, <1>2, <2>3, <2>5 DEF Sums
  <2>6. CASE s # {}
    <3>1. PICK x \in s : x = CHOOSE y \in s : TRUE
      BY <2>6
    <3>2. Cardinality(s \ {x}) = n - 1 /\ n - 1 \in Nat
      <4>1. IsFiniteSet(s \ {x}) /\ Cardinality(s \ {x}) = Cardinality(s) - 1
        BY <2>4, <3>1, FS_RemoveElement
      <4>2. Cardinality(s \ {x}) \in Nat
        BY <4>1, FS_CardinalityType
      <4> QED
        BY <2>3, <4>1, <4>2
    <3>3. n - 1 \notin bad
      BY <2>2, <3>2
    <3>4. s \ {x} \in SUBSET T
      OBVIOUS
    <3>5. iter[s \ {x}] = count[s \ {x}]
      BY <3>2, <3>3, <3>4
    <3>6. iter[s] = f[x].bytes + iter[s \ {x}]
      BY <1>2, <2>6, <3>1 DEF Sums
    <3>7. count[s] = f[x].bytes + count[s \ {x}]
      BY <1>1, <2>6, <3>1 DEF Sums
    <3> QED
      BY <2>3, <3>5, <3>6, <3>7
  <2> QED
    BY <2>5, <2>6
<1>5. Cardinality(T) \in Nat /\ T \in SUBSET T
  BY FS_CardinalityType
<1>6. iter[T] = count[T]
  BY <1>4, <1>5
<1> QED
  BY <1>3, <1>5, <1>6

\* A subset has no more bytes.
LEMMA FewerBytes ==
  ASSUME NEW T, IsFiniteSet(T), NEW f, \A x \in T : f[x].bytes \in Nat,
         NEW S \in SUBSET T
  PROVE  Total(f, S) <= Total(f, T) /\ Total(f, S) \in Nat /\ Total(f, T) \in Nat
<1>1. IsFiniteSet(S)
  BY FS_Subset
<1>2. Total(f, T) = Cardinality(Tokens(f, T))
  BY SumIsCount
<1>3. Total(f, S) = Cardinality(Tokens(f, S))
  BY <1>1, SumIsCount
<1>4. Tokens(f, S) \in SUBSET Tokens(f, T)
  BY DEF Tokens
<1>5. IsFiniteSet(Tokens(f, T))
  BY TokensFinite
<1> QED
  BY <1>2, <1>3, <1>4, <1>5, FS_Subset, FS_CardinalityType

-----------------------------------------------------------------------------
(* The purge. *)

LEMMA BytesGrow ==
  ASSUME TypeOK, NEW more \in SUBSET RecordId, NEW fewer \in SUBSET more
  PROVE  Bytes(fewer) <= Bytes(more) /\ Bytes(fewer) \in Nat /\ Bytes(more) \in Nat
<1>1. IsFiniteSet(more)
  <2>1. IsFiniteSet(RecordId)
    BY Constants, FS_Interval DEF RecordId
  <2> QED
    BY <2>1, FS_Subset
<1>2. PICK f : f = records
  OBVIOUS
<1>3. \A x \in more : f[x].bytes \in Nat
  BY <1>2 DEF TypeOK, Record
<1>4. Total(f, fewer) <= Total(f, more) /\ Total(f, fewer) \in Nat /\ Total(f, more) \in Nat
  BY <1>1, <1>3, FewerBytes
<1> QED
  BY <1>2, <1>4 DEF Bytes, Total

Left(kept, r) == kept \ {s \in kept : records[s].state = "closed" /\ GoesBefore(s, r)}

LEMMA OverCapIs ==
  ASSUME NEW kept
  PROVE  OverCap(kept) = {r \in kept : records[r].state = "closed" /\ Bytes(Left(kept, r)) > MaxTotal}
<1> DEFINE closed == {r \in kept : records[r].state = "closed"}
<1>1. \A r : kept \ {s \in closed : GoesBefore(s, r)} = Left(kept, r)
  BY DEF Left
<1>2. OverCap(kept) = {r \in closed : Bytes(kept \ {s \in closed : GoesBefore(s, r)}) > MaxTotal}
  BY DEF OverCap
<1>3. \A r : r \in OverCap(kept) <=>
               r \in kept /\ records[r].state = "closed" /\ Bytes(Left(kept, r)) > MaxTotal
  BY <1>1, <1>2
<1> QED
  BY <1>3

\* An eligible record goes over the cap only when every record that is not
\* eligible goes: less is left when its turn comes.
LEMMA EligibleGoLast ==
  ASSUME TypeOK, NEW kept \in SUBSET RecordId, NEW r \in OverCap(kept), records[r].eligible,
         NEW s \in kept, records[s].state = "closed", ~records[s].eligible
  PROVE  s \in OverCap(kept)
<1>1. /\ records \in [RecordId -> Record] /\ IsFiniteSet(RecordId) /\ RecordId \subseteq Nat
      /\ MaxTotal \in Nat
  <2>1. MaxTotal \in Nat
    BY ConstantsAssumption
  <2> QED
    BY <2>1, Constants, FS_Interval DEF TypeOK, RecordId
<1>2. r \in kept /\ Bytes(Left(kept, r)) > MaxTotal
  BY OverCapIs
<1>3. r \in RecordId /\ s \in RecordId /\ r \in Nat /\ s \in Nat
  BY <1>1, <1>2
<1>4. ASSUME NEW x \in kept, records[x].state = "closed", GoesBefore(x, s)
      PROVE  GoesBefore(x, r)
  <2>1. x \in RecordId /\ records[x].eligible \in BOOLEAN
    BY <1>1 DEF Record
  <2> QED
    BY <1>4, <2>1 DEF GoesBefore
<1>5. Left(kept, r) \in SUBSET Left(kept, s)
  BY <1>4 DEF Left
<1>6. Left(kept, s) \in SUBSET RecordId
  BY DEF Left
<1>8. /\ Bytes(Left(kept, r)) <= Bytes(Left(kept, s))
      /\ Bytes(Left(kept, r)) \in Nat /\ Bytes(Left(kept, s)) \in Nat
  BY <1>5, <1>6, BytesGrow
<1>9. Bytes(Left(kept, s)) > MaxTotal
  BY <1>1, <1>2, <1>8
<1> QED
  BY <1>9, OverCapIs

(* While the server runs only the purge deletes, it deletes closed records *)
(* alone, and the cap takes a record of the owner's that is not expired    *)
(* only when it leaves no closed record that is not eligible.              *)
THEOREM PurgeAlwaysSpares == Spec => PurgeSparesTheOwner
<1> DEFINE Spares ==
      up => \A r \in RecordId :
        records[r].state # "absent" /\ records'[r].state = "absent" =>
          /\ records[r].state = "closed"
          /\ \/ records[r].expiresAt < clock
             \/ ~records[r].eligible
             \/ \A s \in ClosedRecords : records'[s].state # "absent" => records[s].eligible
<1>1. ASSUME IInv, [Next]_vars PROVE [Spares]_vars
  <2> SUFFICES ASSUME Next, up, NEW r \in RecordId,
                      records[r].state # "absent", records'[r].state = "absent"
               PROVE  /\ records[r].state = "closed"
                      /\ \/ records[r].expiresAt < clock
                         \/ ~records[r].eligible
                         \/ \A s \in ClosedRecords :
                              records'[s].state # "absent" => records[s].eligible
    BY <1>1
  <2> USE <1>1 DEF IInv
  <2>1. PICK now \in Recent : Purge(now)
    <3>1. ~ RecordStep(r)
      BY RecordLives
    <3> QED
      BY <3>1, RecordSteps
  <2> DEFINE gone == {s \in RecordId : Expired(s, now)}
             kept == (OpenRecords \cup ClosedRecords) \ gone
             victims == gone \cup OverCap(kept)
  <2>2. Delete(victims)
    BY <2>1 DEF Purge
  <2>3. /\ \A s \in RecordId : records'[s] = IF s \in victims THEN NoRecord ELSE records[s]
        /\ NoRecord.state = "absent"
    BY <2>2, Deleting DEF NoRecord
  <2>4. r \in victims
    BY <2>3
  <2>5. kept \in SUBSET RecordId
    BY DEF OpenRecords, ClosedRecords
  <2>6. CASE r \in gone
    <3>1. records[r].state = "closed" /\ records[r].expiresAt < now
      BY <2>6 DEF Expired
    <3>2. now \in Nat /\ now <= clock /\ clock \in Nat /\ records[r].expiresAt \in Nat
      BY DEF Recent, TypeOK, Record
    <3> QED
      BY <3>1, <3>2
  <2>7. CASE r \in OverCap(kept)
    <3>1. records[r].state = "closed"
      BY <2>7, OverCapIs
    <3>2. ASSUME records[r].eligible, NEW s \in ClosedRecords, records'[s].state # "absent",
                 ~records[s].eligible
          PROVE  FALSE
      <4>1. s \in RecordId /\ records[s].state = "closed"
        BY DEF ClosedRecords
      <4>2. s \notin victims
        BY <2>3, <3>2, <4>1
      <4>3. s \in kept
        BY <4>1, <4>2
      <4>4. s \in OverCap(kept)
        <5> HIDE DEF kept
        <5> QED
          BY <2>5, <2>7, <3>2, <4>1, <4>3, EligibleGoLast
      <4> QED
        BY <4>2, <4>4
    <3> QED
      BY <3>1, <3>2
  <2> QED
    BY <2>4, <2>6, <2>7
<1>2. IInv /\ [Next]_vars => [Spares]_vars
  BY <1>1
<1>3. []IInv /\ [][Next]_vars => [][Spares]_vars
  BY <1>2, PTL
<1>4. Spec => [][Next]_vars
  BY DEF Spec
<1> QED
  BY RecordInvariant, <1>3, <1>4, PTL DEF PurgeSparesTheOwner
-----------------------------------------------------------------------------
(* A recall question beside the record.                                    *)

\* The id of a unit is given once, as that of a record is.
UnitIdsAreGivenOnce == \A u \in UnitId : Exists(u) => u <= lastUnit

\* What a step may do to a unit whose id was given before it: raise it, when the
\* diary entry of its record is written, and nothing else with its level.
LevelStep(u) ==
  Exists(u)' =>
    /\ Exists(u)
    /\ \/ units'[u].level = units[u].level
       \/ WriteEpisode /\ units'[u].level = MostProtective(units[u].level, job.level)

LevelsKept ==
  /\ lastUnit' >= lastUnit
  /\ \A u \in UnitId : u <= lastUnit => LevelStep(u)
  /\ \A u \in UnitId : u > lastUnit /\ Exists(u)' => u <= lastUnit'

LEMMA LevelsStay ==
  ASSUME TypeOK, UnitIdsAreGivenOnce, lastUnit' = lastUnit,
         \A u \in UnitId : units'[u].record # 0 =>
           units'[u].record = units[u].record /\ units'[u].level = units[u].level
  PROVE  LevelsKept
<1>1. lastUnit \in Int
  BY Constants DEF TypeOK
<1> QED
  BY <1>1 DEF LevelsKept, LevelStep, Exists, UnitIdsAreGivenOnce

\* A unit is added after all the others.
LEMMA LevelsWithOne ==
  ASSUME TypeOK, UnitIdsAreGivenOnce, lastUnit < MaxUnits, lastUnit' = lastUnit + 1,
         \A u \in UnitId : u # lastUnit + 1 => LevelStep(u)
  PROVE  LevelsKept
<1>1. lastUnit \in Nat /\ \A u \in UnitId : u \in Nat
  BY Constants DEF TypeOK, UnitId
<1>2. \A u \in UnitId : u > lastUnit /\ Exists(u)' => u <= lastUnit'
  BY <1>1 DEF LevelStep, UnitIdsAreGivenOnce
<1> QED
  BY <1>1, <1>2 DEF LevelsKept

LEMMA IndexLevels ==
  ASSUME TypeOK, UnitIdsAreGivenOnce, NEW t \in Turn, NEW r \in RecordId, Index(t, r)
  PROVE  LevelsKept
<1>1. CASE units' = units /\ lastUnit' = lastUnit
  BY <1>1, LevelsStay
<1>2. CASE ~(units' = units /\ lastUnit' = lastUnit)
  <2>1. PICK unit : unit = TurnUnit(r, capture[t].said)
    OBVIOUS
  <2>2. /\ lastUnit + MaxRecords < MaxUnits /\ lastUnit' = lastUnit + 1
        /\ units' = [units EXCEPT ![lastUnit + 1] = unit]
    BY <1>2, <2>1 DEF Index
  <2>3. \A u \in UnitId : u # lastUnit + 1 => units'[u] = units[u]
    BY <2>2 DEF TypeOK
  <2>4. lastUnit < MaxUnits
    BY <2>2, Constants DEF TypeOK
  <2> QED
    BY <2>2, <2>3, <2>4, LevelsWithOne DEF LevelStep, Exists
<1> QED
  BY <1>1, <1>2

LEMMA EpisodeLevels ==
  ASSUME IInv, UnitIdsAreGivenOnce, WriteEpisode
  PROVE  LevelsKept
<1> USE DEF IInv
<1>1. PICK r \in RecordId : r = job.record
  BY Constants DEF WriteEpisode, TypeOK, OnRecord, Job, RecordId
<1>2. PICK level \in Level : level = job.level
  BY DEF TypeOK, Job
<1>3. CASE units' = units /\ lastUnit' = lastUnit
  BY <1>3, LevelsStay
<1>4. CASE ~(units' = units /\ lastUnit' = lastUnit)
  <2>1. /\ lastUnit < MaxUnits /\ lastUnit' = lastUnit + 1
        /\ units' = [Raised(r, level) EXCEPT ![lastUnit + 1] = EpisodeUnit(r, level)]
    BY <1>1, <1>2, <1>4 DEF WriteEpisode, stored
  <2>2. Raised(r, level) \in [UnitId -> Unit]
    BY Raising
  <2>3. ASSUME NEW u \in UnitId, u # lastUnit + 1 PROVE LevelStep(u)
    <3>1. units'[u] = Raised(r, level)[u]
      BY <2>1, <2>2, <2>3
    <3>2. units'[u].record = units[u].record
      BY <3>1, Raising
    <3>3. units[u] \in Unit
      BY DEF TypeOK
    <3>4. CASE units[u].record = r /\ units[u].kind = "turn"
      <4>1. PICK higher : higher = MostProtective(units[u].level, level)
        OBVIOUS
      <4>2. units'[u] = Relevel(units[u], higher)
        BY <3>1, <3>4, <4>1 DEF Raised
      <4>3. units'[u].level = higher
        BY <3>3, <4>2 DEF Relevel, Unit
      <4> QED
        BY <1>2, <3>2, <4>1, <4>3 DEF LevelStep, Exists
    <3>5. CASE ~(units[u].record = r /\ units[u].kind = "turn")
      <4>1. units'[u] = units[u]
        BY <3>1, <3>5 DEF Raised
      <4> QED
        BY <4>1 DEF LevelStep, Exists
    <3> QED
      BY <3>4, <3>5
  <2> QED
    BY <2>1, <2>3, LevelsWithOne
<1> QED
  BY <1>3, <1>4

LEMMA LevelsStep ==
  ASSUME IInv, UnitIdsAreGivenOnce, [Next]_vars
  PROVE  LevelsKept
<1> USE DEF IInv, stored, process, JobStays
<1>1. CASE UNCHANGED <<units, lastUnit>>
  BY <1>1, LevelsStay
<1>2. ASSUME NEW gone, Delete(gone) PROVE LevelsKept
  <2>1. lastUnit' = lastUnit /\ \A u \in UnitId : units'[u] \in {NoUnit, units[u]}
    BY <1>2, Deleting
  <2>2. NoUnit.record = 0
    BY DEF NoUnit
  <2> QED
    BY <2>1, <2>2, LevelsStay
<1>3. ASSUME NEW u \in UnitId, units' = VectorStored(u), lastUnit' = lastUnit PROVE LevelsKept
  BY <1>3, Storing, LevelsStay
<1>4. ASSUME NEW t \in Turn, Capturing(t) PROVE LevelsKept
  <2>1. CASE EmbedTurn(t)
    <3>1. capture[t].unit \in UnitId
      BY <2>1 DEF EmbedTurn, TypeOK, Capture
    <3> QED
      BY <1>3, <2>1, <3>1 DEF EmbedTurn
  <2>2. ASSUME NEW r \in RecordId, AppendTurn(t, r) PROVE LevelsKept
    BY <2>2, IndexLevels DEF AppendTurn
  <2>3. ASSUME NEW now, OpenSegment(t, now) PROVE LevelsKept
    <3>1. PICK r \in RecordId : r = lastRecord + 1
      BY <2>3, Constants DEF OpenSegment, TypeOK, RecordId
    <3> QED
      BY <2>3, <3>1, IndexLevels DEF OpenSegment
  <2>4. CASE Drop(t) \/ \E e \in Exchange : Hear(t, e)
    BY <1>1, <2>4 DEF Drop, Hear
  <2> QED
    BY <1>4, <2>1, <2>2, <2>3, <2>4 DEF Capturing
<1>5. CASE FillOne
  <2>1. job.todo \in SUBSET UnitId /\ job.todo # {}
    BY <1>5 DEF FillOne, TypeOK, Job
  <2>2. job.todo \subseteq Nat
    BY <2>1 DEF UnitId
  <2>3. PICK m \in job.todo : \A s \in job.todo : m <= s
    BY <2>1, <2>2, LeastNumber
  <2>4. Oldest(job.todo) \in UnitId
    BY <2>1, <2>3 DEF Oldest
  <2> QED
    BY <1>3, <1>5, <2>4 DEF FillOne
<1>6. CASE \/ Skip \/ CountFailure \/ GiveUp \/ Look \/ Choose \/ Busy \/ List \/ EndTick
           \/ Tick \/ Stop \/ Grant
           \/ \E now \in Recent : CloseIdle(now)
           \/ \E step \in JobStep, level \in Level : Summarized(step, level)
           \/ \E on \in RecallSwitch : Start(on)
  BY <1>1, <1>6 DEF Skip, CountFailure, GiveUp, Look, Choose, Busy, List, EndTick, Tick, Stop,
                    Grant, CloseIdle, Summarized, Start
<1>7. CASE \/ \E now \in Recent : Purge(now)
           \/ (\E r \in RecordId : DeleteRecord(r)) \/ Revoke
  <2>1. \E gone : Delete(gone)
    BY <1>7, Zenon DEF Purge, DeleteRecord, Revoke
  <2> QED
    BY <1>2, <2>1
<1>8. CASE UNCHANGED vars
  BY <1>1, <1>8 DEF vars
<1> QED
  BY <1>4, <1>5, <1>6, <1>7, <1>8, EpisodeLevels DEF Next

\* No diary entry above the normal level is written while a question is open.
DiaryWaits == recall # NotAsked /\ WriteEpisode => job.level = Normal
DiaryWaitsForTheQuestion == [][DiaryWaits]_RecallVars

RecallInv ==
  /\ recall \in [step : {"idle", "embedding", "reading"}, since : Nat, hits : SUBSET UnitId]
  /\ recall.step = "idle" => recall = NotAsked
  /\ \A u \in recall.hits : u <= lastUnit /\ (Exists(u) => units[u].level = Normal)

LEMMA MeanwhileKeepsRecall ==
  ASSUME IInv, UnitIdsAreGivenOnce, RecallInv, [Next]_vars, DiaryWaits, recall' \in {recall, NotAsked}
  PROVE  RecallInv'
<1>1. CASE recall' = NotAsked
  BY <1>1 DEF RecallInv, NotAsked
<1>2. CASE recall' = recall /\ recall # NotAsked
  <2>1. LevelsKept
    BY LevelsStep
  <2>2. lastUnit \in Int /\ lastUnit' \in Int
    BY InvStep, Constants DEF IInv, TypeOK
  <2>3. ASSUME NEW u \in recall.hits
        PROVE  u <= lastUnit' /\ (Exists(u)' => units'[u].level = Normal)
    <3>1. u \in UnitId /\ u \in Int /\ u <= lastUnit
      BY DEF RecallInv, UnitId
    <3>2. LevelStep(u) /\ lastUnit' >= lastUnit
      BY <2>1, <3>1 DEF LevelsKept
    <3>3. ASSUME Exists(u)' PROVE units'[u].level = Normal
      <4>1. Exists(u) /\ units[u].level = Normal
        BY <3>2, <3>3 DEF LevelStep, RecallInv
      <4>2. WriteEpisode => job.level = Normal
        BY <1>2 DEF DiaryWaits
      <4>3. MostProtective(Normal, Normal) = Normal
        BY DEF MostProtective
      <4> QED
        BY <3>2, <3>3, <4>1, <4>2, <4>3 DEF LevelStep
    <3> QED
      BY <2>2, <3>1, <3>2, <3>3
  <2> QED
    BY <1>2, <2>3 DEF RecallInv
<1> QED
  BY <1>1, <1>2

LEMMA QuestionKeepsRecall ==
  ASSUME IInv, UnitIdsAreGivenOnce, RecallInv, SearchWords \/ SearchVectors \/ ReadUnits
  PROVE  RecallInv'
<1>1. UNCHANGED <<units, lastUnit>>
  BY DEF SearchWords, SearchVectors, ReadUnits, vars, stored
<1>2. \A since : \A u \in UnitId : Readable(u, since) => u <= lastUnit /\ units[u].level = Normal
  BY DEF Readable, UnitIdsAreGivenOnce
<1>3. CASE SearchWords
  <2>1. PICK found \in SUBSET {u \in UnitId : Readable(u, clock)} :
          recall' = [step |-> "embedding", since |-> clock, hits |-> found]
    BY <1>3 DEF SearchWords
  <2>2. clock \in Nat /\ found \in SUBSET UnitId
    BY DEF IInv, TypeOK
  <2> QED
    BY <1>1, <1>2, <2>1, <2>2 DEF RecallInv, Exists
<1>4. CASE SearchVectors
  <2>1. PICK near \in SUBSET Near(recall.since) :
          recall' = [recall EXCEPT !.step = "reading", !.hits = @ \cup near]
    BY <1>4 DEF SearchVectors
  <2>2. /\ recall'.step = "reading" /\ recall'.hits = recall.hits \cup near
        /\ recall' \in [step : {"idle", "embedding", "reading"}, since : Nat, hits : SUBSET UnitId]
    BY <2>1 DEF RecallInv, Near
  <2>3. \A u \in near : u <= lastUnit /\ units[u].level = Normal
    BY <1>2 DEF Near
  <2> QED
    BY <1>1, <2>2, <2>3 DEF RecallInv, Exists
<1>5. CASE ReadUnits
  BY <1>5 DEF ReadUnits, RecallInv, NotAsked
<1> QED
  BY <1>3, <1>4, <1>5

(* The diary is the only hole of a recall question: as long as no entry    *)
(* above the normal level is written between the search by words and the   *)
(* read, every unit read back is of the normal level, whatever captures,   *)
(* purges, deletions and restarts come in between (search_recall,          *)
(* write_episode; without the hypothesis TLC violates RecalledIsNormal).   *)
THEOREM RecallIsNormalUnlessTheDiaryRaises ==
  RecallSpec /\ DiaryWaitsForTheQuestion => RecalledIsNormal
<1> DEFINE Guarded == IInv /\ UnitIdsAreGivenOnce /\ RecallInv
           Normally == recall.step = "reading" /\ recall' = NotAsked /\ up' =>
                         \A u \in recall.hits : Exists(u) => units[u].level = Normal
<1>1. RecallInit => Guarded
  <2>1. Init => UnitIdsAreGivenOnce
    BY DEF Init, UnitIdsAreGivenOnce, Exists, NoUnit
  <2>2. RecallInit => RecallInv
    BY DEF RecallInit, RecallInv, NotAsked
  <2> QED
    BY <2>1, <2>2, InvInit DEF RecallInit
<1>2. Guarded /\ [RecallNext]_RecallVars /\ [DiaryWaits]_RecallVars => Guarded'
  <2> SUFFICES ASSUME Guarded, [RecallNext]_RecallVars, [DiaryWaits]_RecallVars PROVE Guarded'
    OBVIOUS
  <2>1. [Next]_vars
    BY DEF RecallNext, RecallVars, SearchWords, SearchVectors, ReadUnits, Meanwhile
  <2>2. IInv'
    BY <2>1, InvStep
  <2>3. UnitIdsAreGivenOnce'
    <3>1. LevelsKept
      BY <2>1, LevelsStep
    <3>2. lastUnit \in Int /\ lastUnit' \in Int /\ \A u \in UnitId : u \in Int
      BY <2>2, Constants DEF IInv, TypeOK, UnitId
    <3> QED
      BY <3>1, <3>2 DEF LevelsKept, UnitIdsAreGivenOnce
  <2>4. RecallInv'
    <3>1. CASE UNCHANGED RecallVars
      BY <3>1 DEF RecallVars, vars, stored, RecallInv, Exists
    <3>2. CASE DiaryWaits /\ Meanwhile
      BY <2>1, <3>2, MeanwhileKeepsRecall DEF Meanwhile
    <3>3. CASE SearchWords \/ SearchVectors \/ ReadUnits
      BY <3>3, QuestionKeepsRecall
    <3> QED
      BY <3>1, <3>2, <3>3 DEF RecallNext
  <2> QED
    BY <2>2, <2>3, <2>4
<1>3. Guarded => Normally
  BY DEF RecallInv
<1>4. []Guarded => [][Normally]_RecallVars
  BY <1>3, PTL
<1>5. RecallSpec /\ DiaryWaitsForTheQuestion => []Guarded
  <2> HIDE DEF Guarded
  <2> QED
    BY <1>1, <1>2, PTL DEF RecallSpec, DiaryWaitsForTheQuestion
<1> QED
  BY <1>4, <1>5, PTL DEF RecalledIsNormal
-----------------------------------------------------------------------------
(* The diary of a record.  That every closed record is settled is liveness  *)
(* and stays with the model checker; that it is settled once, and as what   *)
(* happened, is safety, and is proved.                                      *)

(* A conversation is given up only after MaxAttempts failures; its diary is *)
(* done exactly when there is an entry; nothing is asked of the model about *)
(* a conversation in which the owner's voice was never verified, and only a *)
(* closed one is settled at all.                                            *)
DiaryIsHonest ==
  \A r \in RecordId :
    /\ records[r].diary = "failed" => records[r].attempts >= MaxAttempts
    /\ records[r].diary = "done" <=> records[r].episode # NoEpisode
    /\ records[r].diary \in {"done", "failed"} => records[r].eligible
    /\ records[r].diary # "pending" => records[r].state = "closed"

(* What is settled stays so, with the entry it was settled with, and no     *)
(* attempt is forgotten, while the record exists.                           *)
DiaryGoesForward ==
  [][\A r \in RecordId :
       records[r].state # "absent" /\ records'[r].state # "absent" =>
         /\ records[r].diary # "pending" =>
              /\ records'[r].diary = records[r].diary
              /\ records'[r].episode = records[r].episode
         /\ records'[r].attempts >= records[r].attempts]_vars

(* What the job carries about its record, as long as that is there. *)
JobIsFair ==
  job.step \in OnRecord /\ records[job.record].state # "absent" =>
    /\ job.step # "skipping" => records[job.record].eligible
    /\ job.step = "giving_up" => records[job.record].attempts >= MaxAttempts

DiaryInv == DiaryIsHonest /\ JobIsFair

SameDiary(r) ==
  /\ records'[r].diary = records[r].diary
  /\ records'[r].attempts = records[r].attempts
  /\ records'[r].episode = records[r].episode

(* The four ways in which the job changes the diary of the record it holds. *)
Skips(r) ==
  /\ job.step \in {"skipping", "nothing"} /\ job'.step \notin OnRecord
  /\ records'[r] = [records[r] EXCEPT !.diary = "skipped"]
GivesUp(r) ==
  /\ job.step = "giving_up" /\ job'.step \notin OnRecord
  /\ records'[r] = [records[r] EXCEPT !.diary = "failed"]
Fails(r) ==
  /\ job.step = "failing"
  /\ job'.step \in OnRecord => job'.record = r
  /\ \E n \in Nat : /\ records'[r] = [records[r] EXCEPT !.attempts = n]
                    /\ n >= records[r].attempts
                    /\ job'.step \in OnRecord => n >= MaxAttempts
Writes(r) ==
  /\ job.step = "writing" /\ job'.step \notin OnRecord
  /\ records'[r] = [records[r] EXCEPT !.episode = job.level, !.diary = "done"]

JobWrites(r) ==
  job.record = r /\ job.step \in OnRecord /\ (Skips(r) \/ GivesUp(r) \/ Fails(r) \/ Writes(r))

Rests(r) ==
  /\ records'[r].state # "absent" /\ SameDiary(r)
  /\ records[r].eligible => records'[r].eligible
  /\ records[r].state = "closed" => records'[r].state = "closed"

LEMMA AppendedDiary ==
  ASSUME NEW record \in Record, NEW at \in Nat, NEW e \in Exchange \cup {Silence}
  PROVE  LET new == Appended(record, at, e)
         IN  /\ new.state = record.state /\ new.diary = record.diary
             /\ new.attempts = record.attempts /\ new.episode = record.episode
             /\ record.eligible => new.eligible
<1> DEFINE new == Appended(record, at, e)
<1>1. e.verified \in BOOLEAN /\ record.eligible \in BOOLEAN
  BY Constants DEF Record
<1> DEFINE times == record.times \cup {at}
           turns == record.turns + 1
           bytes == record.bytes + e.size
           lastAt == IF at > record.lastAt THEN at ELSE record.lastAt
           eligible == record.eligible \/ e.verified
           tells == record.tells \/ (e.verified /\ e.tells)
<1>2. new = [record EXCEPT !.times = times, !.turns = turns, !.bytes = bytes,
                           !.lastAt = lastAt, !.eligible = eligible, !.tells = tells]
  BY DEF Appended, Record
<1>3. record.eligible => eligible = TRUE
  BY <1>1
<1> HIDE DEF times, turns, bytes, lastAt, eligible, tells, new
<1>4. /\ new.state = record.state /\ new.diary = record.diary
      /\ new.attempts = record.attempts /\ new.episode = record.episode
      /\ new.eligible = eligible
  BY <1>2 DEF Record
<1> QED
  BY <1>3, <1>4 DEF new

LEMMA ClosedDiary ==
  ASSUME NEW record \in Record, NEW now \in Nat
  PROVE  LET new == Closed(record, now)
         IN  /\ new.state = "closed" /\ new.diary = record.diary
             /\ new.attempts = record.attempts /\ new.episode = record.episode
             /\ new.eligible = record.eligible
<1> DEFINE new == Closed(record, now)
           until == now + IF record.eligible THEN KeepEligible ELSE KeepIneligible
<1>1. new = [record EXCEPT !.state = "closed", !.expiresAt = until]
  BY DEF Closed
<1> HIDE DEF until, new
<1>2. /\ new.state = "closed" /\ new.diary = record.diary
      /\ new.attempts = record.attempts /\ new.episode = record.episode
      /\ new.eligible = record.eligible
  BY <1>1 DEF Record
<1> QED
  BY <1>2 DEF new

LEMMA ClosingRests ==
  ASSUME TypeOK, NEW r \in RecordId, NEW now \in Nat,
         records[r].state # "absent", records'[r] \in {records[r], Closed(records[r], now)}
  PROVE  Rests(r)
<1>1. records[r] \in Record
  BY DEF TypeOK
<1>2. CASE records'[r] = records[r]
  BY <1>2 DEF Rests, SameDiary
<1>3. CASE records'[r] = Closed(records[r], now)
  BY <1>1, <1>3, ClosedDiary DEF Rests, SameDiary
<1> QED
  BY <1>2, <1>3

\* The status written is that of the record the job carries.
LEMMA DiaryOnly ==
  ASSUME TypeOK, NEW r \in RecordId, records[r].state # "absent", NEW status,
         records' = Diary(job.record, status)
  PROVE  \/ r # job.record /\ records'[r] = records[r]
         \/ r = job.record /\ records'[r] = [records[r] EXCEPT !.diary = status]
BY DEF Diary, TypeOK

LEMMA CountedFailure ==
  ASSUME IInv, CountFailure, NEW r \in RecordId, records[r].state # "absent"
  PROVE  records'[r] = records[r] \/ JobWrites(r)
<1> USE DEF IInv
<1>0. records \in [RecordId -> Record] /\ records[r] \in Record /\ MaxAttempts \in Nat /\ MaxAttempts > 0
  BY Constants, ConstantsAssumption DEF TypeOK
<1>1. CASE r # job.record
  <2>1. records' = [records EXCEPT ![job.record].attempts =
                      IF records[job.record].state = "absent" \/ @ = MaxAttempts THEN @ ELSE @ + 1]
    BY DEF CountFailure
  <2> QED
    BY <1>0, <1>1, <2>1
<1>2. CASE r = job.record
  <2> DEFINE n == IF records[r].attempts = MaxAttempts THEN records[r].attempts
                  ELSE records[r].attempts + 1
  <2>1. records'[r] = [records[r] EXCEPT !.attempts = n]
    BY <1>0, <1>2 DEF CountFailure
  <2>2. records[r].attempts \in Nat
    BY <1>0 DEF Record
  <2>3. n \in Nat /\ n >= records[r].attempts
    BY <1>0, <2>2
  <2>4. job' = IF records[r].attempts + 1 >= MaxAttempts
               THEN [job EXCEPT !.step = "giving_up"] ELSE Fill
    BY <1>2 DEF CountFailure
  <2>5. job'.step \in OnRecord => job'.record = r /\ records[r].attempts + 1 >= MaxAttempts
    BY <1>2, <2>4, JobValues DEF TypeOK, Job
  <2>6. job'.step \in OnRecord => n >= MaxAttempts
    BY <1>0, <2>2, <2>5
  <2> HIDE DEF n
  <2>7. Fails(r)
    BY <2>1, <2>3, <2>5, <2>6 DEF Fails, CountFailure
  <2> QED
    BY <1>2, <2>7 DEF JobWrites, CountFailure, OnRecord
<1> QED
  BY <1>1, <1>2

\* What a step does to the diary of a record that exists.
LEMMA DiaryMoves ==
  ASSUME IInv, Next, NEW r \in RecordId, records[r].state # "absent"
  PROVE  records'[r] = NoRecord \/ Rests(r) \/ JobWrites(r)
<1> USE DEF IInv, JobStays, stored, process
<1>0. /\ records \in [RecordId -> Record] /\ records[r] \in Record /\ clock \in Nat
      /\ \A t \in Turn : capture[t].at \in Nat /\ capture[t].said \in Exchange \cup {Silence}
  BY DEF TypeOK, Capture
<1>1. CASE records'[r] = records[r]
  BY <1>1 DEF Rests, SameDiary
<1>2. ASSUME NEW gone, Delete(gone) PROVE records'[r] \in {NoRecord, records[r]}
  BY <1>2, Deleting
<1>3. ASSUME NEW t \in Turn, NEW s \in RecordId, AppendTurn(t, s)
      PROVE  Rests(r)
  <2>1. records' = [records EXCEPT ![s] = Appended(records[s], capture[t].at, capture[t].said)]
    BY <1>3 DEF AppendTurn
  <2>2. CASE r = s
    <3>1. records'[r] = Appended(records[r], capture[t].at, capture[t].said)
      BY <1>0, <2>1, <2>2
    <3> QED
      BY <1>0, <3>1, AppendedDiary DEF Rests, SameDiary
  <2>3. CASE r # s
    <3>1. records'[r] = records[r]
      BY <1>0, <2>1, <2>3
    <3> QED
      BY <3>1 DEF Rests, SameDiary
  <2> QED
    BY <2>2, <2>3
<1>4. ASSUME NEW t \in Turn, NEW now \in capture[t].at..clock, OpenSegment(t, now)
      PROVE  Rests(r)
  <2>1. r # lastRecord + 1 /\ now \in Nat
    BY <1>0, Constants DEF IdsAreGivenOnce, TypeOK, RecordId
  <2>2. records'[r] \in {records[r], Closed(records[r], now)}
    BY <1>4, <2>1 DEF OpenSegment
  <2> QED
    BY <2>1, <2>2, ClosingRests
<1>5. ASSUME NEW now \in Recent, CloseIdle(now)
      PROVE  Rests(r)
  <2>1. now \in Nat
    BY <1>5 DEF Recent
  <2>2. records'[r] \in {records[r], Closed(records[r], now)}
    BY <1>5 DEF CloseIdle
  <2> QED
    BY <2>1, <2>2, ClosingRests
<1>6. CASE Skip
  <2>1. job.step = "skipping" /\ records' = Diary(job.record, "skipped") /\ job'.step \notin OnRecord
    BY <1>6, JobValues DEF Skip, JobStep, OnRecord
  <2> QED
    BY <1>1, <2>1, DiaryOnly DEF JobWrites, Skips, OnRecord
<1>7. CASE GiveUp
  <2>1. job'.step \notin OnRecord
    BY <1>7, JobValues DEF GiveUp
  <2>2. CASE job.step = "nothing"
    <3>1. records' = Diary(job.record, "skipped")
      BY <1>7, <2>2 DEF GiveUp
    <3> QED
      BY <1>1, <2>1, <2>2, <3>1, DiaryOnly DEF JobWrites, Skips, OnRecord
  <2>3. CASE job.step = "giving_up"
    <3>1. records' = Diary(job.record, "failed")
      BY <1>7, <2>3 DEF GiveUp
    <3> QED
      BY <1>1, <2>1, <2>3, <3>1, DiaryOnly DEF JobWrites, GivesUp, OnRecord
  <2> QED
    BY <1>7, <2>2, <2>3 DEF GiveUp
<1>8. CASE CountFailure
  BY <1>1, <1>8, CountedFailure
<1>9. CASE WriteEpisode
  <2>1. job.step = "writing" /\ job'.step \notin OnRecord
    BY <1>9, JobValues DEF WriteEpisode
  <2>2. \/ records' = records
        \/ records' = [records EXCEPT ![job.record].episode = job.level, ![job.record].diary = "done"]
    BY <1>9 DEF WriteEpisode
  <2>3. CASE r = job.record /\ records' # records
    <3>1. records'[r] = [records[r] EXCEPT !.episode = job.level, !.diary = "done"]
      BY <1>0, <2>2, <2>3
    <3> QED
      BY <2>1, <2>3, <3>1 DEF JobWrites, Writes, OnRecord
  <2>4. CASE r # job.record \/ records' = records
    BY <1>0, <1>1, <2>2, <2>4
  <2> QED
    BY <2>3, <2>4
<1>10. ASSUME NEW t \in Turn, Capturing(t)
       PROVE  records'[r] = NoRecord \/ Rests(r) \/ JobWrites(r)
  BY <1>1, <1>3, <1>4, <1>10 DEF Capturing, Hear, Drop, EmbedTurn
<1>11. ASSUME \/ \E now \in Recent : Purge(now)
              \/ (\E s \in RecordId : DeleteRecord(s)) \/ Revoke
       PROVE  \E gone : Delete(gone)
  BY <1>11, Zenon DEF Purge, DeleteRecord, Revoke
<1>12. CASE \/ Look \/ Choose \/ Busy \/ List \/ FillOne \/ EndTick \/ Tick \/ Stop \/ Grant
            \/ \E step \in JobStep, level \in Level : Summarized(step, level)
            \/ \E on \in RecallSwitch : Start(on)
  BY <1>1, <1>12 DEF Look, Choose, Busy, List, FillOne, EndTick, Tick, Stop, Grant, Summarized, Start
<1> QED
  BY <1>1, <1>2, <1>5, <1>6, <1>7, <1>8, <1>9, <1>10, <1>11, <1>12 DEF Next


\* A record that begins has nothing in its diary.
LEMMA DiaryBegins ==
  ASSUME IInv, Next, NEW r \in RecordId, records[r].state = "absent"
  PROVE  /\ records'[r].diary = "pending" /\ records'[r].episode = NoEpisode
         /\ records'[r].state # "closed"
<1> USE DEF IInv
<1>0. /\ records[r] = NoRecord /\ NoRecord.diary = "pending" /\ NoRecord.episode = NoEpisode
      /\ NoRecord.state = "absent"
  BY DEF IdsAreGivenOnce, NoRecord
<1>1. CASE \E gone : Delete(gone)
  <2>1. records'[r] \in {NoRecord, records[r]}
    BY <1>1, Deleting
  <2> QED
    BY <1>0, <2>1
<1>2. CASE RecordStep(r)
  <2>1. CASE records'[r] = records[r]
    BY <1>0, <2>1
  <2>2. CASE records'[r] # records[r]
    <3>1. PICK t \in Turn :
            records'[r] = Appended(Fresh(capture[t].at), capture[t].at, capture[t].said)
      BY <1>2, <2>2, RecordBegins
    <3>2. capture[t].at \in Nat /\ capture[t].said \in Exchange \cup {Silence}
      BY DEF TypeOK, Capture
    <3>3. /\ Fresh(capture[t].at) \in Record /\ Fresh(capture[t].at).diary = "pending"
          /\ Fresh(capture[t].at).episode = NoEpisode /\ Fresh(capture[t].at).state = "open"
      BY <3>2, Empties DEF Fresh, Record, NoRecord
    <3> QED
      BY <3>1, <3>2, <3>3, AppendedDiary
  <2> QED
    BY <2>1, <2>2
<1> QED
  BY <1>1, <1>2, RecordSteps

LEMMA HonestStep ==
  ASSUME IInv, DiaryInv, Next
  PROVE  DiaryIsHonest'
<1> USE DEF IInv, DiaryInv
<1> SUFFICES ASSUME NEW r \in RecordId
             PROVE  /\ records'[r].diary = "failed" => records'[r].attempts >= MaxAttempts
                    /\ records'[r].diary = "done" <=> records'[r].episode # NoEpisode
                    /\ records'[r].diary \in {"done", "failed"} => records'[r].eligible
                    /\ records'[r].diary # "pending" => records'[r].state = "closed"
  BY DEF DiaryIsHonest
<1>0. records[r] \in Record /\ records'[r] \in Record /\ MaxAttempts \in Nat
  BY TypeStep, Constants DEF TypeOK
<1>1. CASE records[r].state = "absent"
  BY <1>1, DiaryBegins
<1>2. CASE records'[r] = NoRecord
  BY <1>2 DEF NoRecord
<1>3. CASE records[r].state # "absent" /\ Rests(r)
  BY <1>3 DEF Rests, SameDiary, DiaryIsHonest
<1>4. CASE records[r].state # "absent" /\ JobWrites(r)
  <2>1. /\ job.record = r /\ job.step \in OnRecord
        /\ records[r].state = "closed" /\ records[r].diary = "pending"
    BY <1>4 DEF JobWrites, JobHolds
  <2>2. /\ job.step # "skipping" => records[r].eligible
        /\ job.step = "giving_up" => records[r].attempts >= MaxAttempts
        /\ records[r].episode = NoEpisode
    BY <1>4, <2>1 DEF JobIsFair, DiaryIsHonest
  <2>3. CASE Skips(r)
    <3>1. /\ records'[r].diary = "skipped" /\ records'[r].episode = NoEpisode
          /\ records'[r].state = "closed"
      BY <1>0, <2>1, <2>2, <2>3 DEF Skips, Record
    <3> QED
      BY <3>1
  <2>4. CASE GivesUp(r)
    <3>1. /\ records'[r].diary = "failed" /\ records'[r].episode = NoEpisode
          /\ records'[r].state = "closed" /\ records'[r].eligible
          /\ records'[r].attempts >= MaxAttempts
      BY <1>0, <2>1, <2>2, <2>4 DEF GivesUp, Record
    <3> QED
      BY <3>1
  <2>5. CASE Fails(r)
    <3>1. records'[r].diary = "pending" /\ records'[r].episode = NoEpisode
      BY <1>0, <2>1, <2>2, <2>5 DEF Fails, Record
    <3> QED
      BY <3>1
  <2>6. CASE Writes(r)
    <3>1. job.level # NoEpisode
      BY Constants, ConstantsAssumption DEF TypeOK, Job
    <3>2. /\ records'[r].diary = "done" /\ records'[r].episode = job.level
          /\ records'[r].state = "closed" /\ records'[r].eligible
      BY <1>0, <2>1, <2>2, <2>6 DEF Writes, Record
    <3> QED
      BY <3>1, <3>2
  <2> QED
    BY <1>4, <2>3, <2>4, <2>5, <2>6 DEF JobWrites
<1> QED
  BY <1>1, <1>2, <1>3, <1>4, DiaryMoves

\* The job holds what it held, has just chosen, or has counted a failure.
LEMMA JobGoesOn ==
  ASSUME IInv, Next, job'.step \in OnRecord
  PROVE  \/ /\ job.step \in OnRecord /\ job'.record = job.record
            /\ job.step = "skipping" <=> job'.step = "skipping"
            /\ job'.step = "giving_up" => job.step = "giving_up" \/ Fails(job.record)
         \/ /\ UNCHANGED records /\ job'.record \in RecordId
            /\ job'.step # "giving_up"
            /\ job'.step # "skipping" => records[job'.record].eligible
<1> USE DEF IInv, JobStays, stored
<1>0. /\ Fill.step \notin OnRecord /\ Sleeping.step \notin OnRecord /\ job \in Job
      /\ \A step \in JobStep \ OnRecord : [Sleeping EXCEPT !.step = step].step \notin OnRecord
  BY JobValues, Empties DEF TypeOK
<1>1. CASE job' = job
  BY <1>1
<1>2. CASE Choose
  <2>1. Pending # {}
    BY <1>0, <1>2 DEF Choose
  <2>2. PICK r \in RecordId : r = Oldest(Pending)
    BY <2>1, OldestPending
  <2>3. /\ job'.record = r
        /\ job'.step = IF records[r].eligible THEN "summarizing" ELSE "skipping"
    BY <1>2, <2>1, <2>2 DEF Choose, Sleeping
  <2>4. UNCHANGED records
    BY <1>2 DEF Choose
  <2> QED
    BY <2>3, <2>4
<1>3. ASSUME NEW step \in JobStep, NEW level \in Level, Summarized(step, level)
      PROVE  /\ job.step \in OnRecord /\ job'.record = job.record
             /\ job.step # "skipping" /\ job'.step # "skipping" /\ job'.step # "giving_up"
  <2>1. /\ job.step = "summarizing" /\ step \in {"failing", "nothing", "writing"}
        /\ job' = [job EXCEPT !.step = step, !.level = level]
    BY <1>3 DEF Summarized
  <2>2. job'.step = step /\ job'.record = job.record
    BY <1>0, <2>1 DEF Job
  <2> QED
    BY <2>1, <2>2 DEF OnRecord
<1>4. CASE CountFailure
  <2>1. /\ job.step = "failing" /\ records[job.record].state # "absent"
        /\ job' = [job EXCEPT !.step = "giving_up"]
    BY <1>0, <1>4 DEF CountFailure
  <2>2. job'.step = "giving_up" /\ job'.record = job.record
    BY <1>0, <2>1 DEF Job
  <2>3. PICK r \in RecordId : r = job.record
    BY <2>1 DEF TypeOK, Job, OnRecord
  <2>4. records[r].attempts \in Nat /\ MaxAttempts \in Nat /\ records \in [RecordId -> Record]
    BY Constants DEF TypeOK, Record
  <2> DEFINE n == IF records[r].attempts = MaxAttempts THEN records[r].attempts
                  ELSE records[r].attempts + 1
  <2>5. records'[r] = [records[r] EXCEPT !.attempts = n]
    BY <1>4, <2>1, <2>3, <2>4 DEF CountFailure
  <2>6. records[r].attempts + 1 >= MaxAttempts
    BY <1>0, <1>4, <2>3 DEF CountFailure
  <2>7. n \in Nat /\ n >= records[r].attempts /\ n >= MaxAttempts
    BY <2>4, <2>6
  <2> HIDE DEF n
  <2>8. Fails(job.record)
    BY <2>1, <2>2, <2>3, <2>5, <2>7 DEF Fails
  <2> QED
    BY <2>1, <2>2, <2>8 DEF OnRecord
<1>5. CASE \/ Look \/ Skip \/ Busy \/ GiveUp \/ WriteEpisode \/ List \/ FillOne \/ EndTick \/ Stop
           \/ \E now \in Recent : CloseIdle(now)
  <2>1. job' = job \/ job'.step \notin OnRecord
    <3>1. CASE Look
      BY <1>0, <3>1 DEF Look, JobStep, OnRecord, Job
    <3>2. CASE Skip \/ (\E now \in Recent : CloseIdle(now))
      <4>1. \E step \in JobStep \ OnRecord : job' = [Sleeping EXCEPT !.step = step]
        BY <3>2 DEF Skip, CloseIdle, JobStep, OnRecord
      <4> QED
        BY <1>0, <4>1
    <3>3. CASE List
      BY <3>3 DEF List, Sleeping, OnRecord
    <3>4. CASE FillOne
      BY <1>0, <3>4 DEF FillOne, Job, OnRecord
    <3>5. CASE Busy \/ GiveUp \/ WriteEpisode \/ EndTick \/ Stop
      BY <1>0, <3>5 DEF Busy, GiveUp, WriteEpisode, EndTick, Stop
    <3> QED
      BY <1>5, <3>1, <3>2, <3>3, <3>4, <3>5
  <2> QED
    BY <1>1, <2>1
<1>6. CASE \/ \E t \in Turn : Capturing(t)
           \/ \E now \in Recent : Purge(now)
           \/ Tick \/ (\E on \in RecallSwitch : Start(on))
           \/ (\E r \in RecordId : DeleteRecord(r)) \/ Grant \/ Revoke
  <2>1. job' = job
    BY <1>6 DEF Capturing, Hear, Drop, EmbedTurn, AppendTurn, OpenSegment, Purge, Tick, Start,
                DeleteRecord, Grant, Revoke
  <2> QED
    BY <1>1, <2>1
<1> QED
  BY <1>2, <1>3, <1>4, <1>5, <1>6 DEF Next

\* Once the record is gone its id is not given again, so it stays gone.
LEMMA GoneForGood ==
  ASSUME IInv, Next, job.step \in OnRecord, NEW r \in RecordId, r = job.record,
         records[r].state = "absent"
  PROVE  records'[r].state = "absent"
<1> USE DEF IInv
<1>0. r <= lastRecord /\ r # lastRecord + 1
  BY Constants DEF JobHolds, TypeOK, RecordId
<1>1. ASSUME NEW gone, Delete(gone) PROVE records'[r] \in {NoRecord, records[r]}
  BY <1>1, Deleting
<1>2. CASE RecordStep(r)
  <2>1. records'[r] = records[r]
    BY <1>0, <1>2, RecordBegins
  <2> QED
    BY <2>1
<1>3. NoRecord.state = "absent"
  BY DEF NoRecord
<1> QED
  BY <1>1, <1>2, <1>3, RecordSteps

LEMMA JobFairStep ==
  ASSUME IInv, DiaryInv, Next
  PROVE  JobIsFair'
<1> USE DEF IInv, DiaryInv
<1> SUFFICES ASSUME job'.step \in OnRecord, records'[job'.record].state # "absent"
             PROVE  /\ job'.step # "skipping" => records'[job'.record].eligible
                    /\ job'.step = "giving_up" => records'[job'.record].attempts >= MaxAttempts
  BY DEF JobIsFair
<1>1. CASE /\ UNCHANGED records /\ job'.record \in RecordId
           /\ job'.step # "giving_up"
           /\ job'.step # "skipping" => records[job'.record].eligible
  BY <1>1
<1>2. CASE /\ job.step \in OnRecord /\ job'.record = job.record
           /\ job.step = "skipping" <=> job'.step = "skipping"
           /\ job'.step = "giving_up" => job.step = "giving_up" \/ Fails(job.record)
  <2>1. PICK r \in RecordId : r = job.record
    BY <1>2 DEF TypeOK, Job
  <2>2. records[r] \in Record /\ MaxAttempts \in Nat
    BY Constants DEF TypeOK
  <2>3. records[r].state # "absent"
    BY <1>2, <2>1, GoneForGood
  <2>4. /\ job.step # "skipping" => records[r].eligible
        /\ job.step = "giving_up" => records[r].attempts >= MaxAttempts
    BY <1>2, <2>1, <2>3 DEF JobIsFair
  <2>5. Rests(r) \/ JobWrites(r)
    BY <1>2, <2>1, <2>3, DiaryMoves DEF NoRecord
  <2>6. CASE Rests(r)
    <3>1. job'.step = "giving_up" => job.step = "giving_up" \/ records'[r].attempts >= MaxAttempts
      <4>1. ASSUME job'.step = "giving_up", Fails(r)
            PROVE  records'[r].attempts >= MaxAttempts
        <5>1. PICK n \in Nat : records'[r] = [records[r] EXCEPT !.attempts = n] /\ n >= MaxAttempts
          BY <4>1 DEF Fails
        <5> QED
          BY <2>2, <5>1 DEF Record
      <4> QED
        BY <1>2, <2>1, <4>1
    <3> QED
      BY <1>2, <2>1, <2>4, <2>6, <3>1 DEF Rests, SameDiary
  <2>7. CASE JobWrites(r)
    <3>1. Fails(r)
      BY <2>7 DEF JobWrites, Skips, GivesUp, Writes
    <3>2. PICK n \in Nat : records'[r] = [records[r] EXCEPT !.attempts = n] /\ n >= MaxAttempts
      BY <3>1 DEF Fails
    <3>3. records'[r].attempts >= MaxAttempts /\ records'[r].eligible = records[r].eligible
      BY <2>2, <3>2 DEF Record
    <3> QED
      BY <1>2, <2>1, <2>4, <3>1, <3>3
  <2> QED
    BY <2>5, <2>6, <2>7
<1> QED
  BY <1>1, <1>2, JobGoesOn

(* Whatever fails, stops or is deleted between the transactions of the job, *)
(* a conversation is given up only after its attempts, an entry is there    *)
(* exactly when the diary says so, and nothing is written about one in      *)
(* which the owner was not verified (conversation_jobs.py run_once,         *)
(* count_failed_attempt, write_episode).                                    *)
THEOREM DiariesAreHonest == Spec => []DiaryIsHonest
<1>1. Init => DiaryInv
  <2> SUFFICES ASSUME Init PROVE DiaryInv
    OBVIOUS
  <2>1. \A r \in RecordId : records[r] = NoRecord
    BY DEF Init
  <2>2. /\ NoRecord.diary = "pending" /\ NoRecord.episode = NoEpisode
    BY DEF NoRecord
  <2>3. job.step \notin OnRecord
    BY Empties DEF Init
  <2> QED
    BY <2>1, <2>2, <2>3 DEF DiaryInv, DiaryIsHonest, JobIsFair
<1>2. IInv /\ DiaryInv /\ [Next]_vars => DiaryInv'
  <2>1. CASE Next
    BY <2>1, HonestStep, JobFairStep DEF DiaryInv
  <2>2. CASE UNCHANGED vars
    BY <2>2 DEF vars, stored, DiaryInv, DiaryIsHonest, JobIsFair
  <2> QED
    BY <2>1, <2>2
<1>3. DiaryInv => DiaryIsHonest
  BY DEF DiaryInv
<1> QED
  BY <1>1, <1>2, <1>3, RecordInvariant, PTL DEF Spec

(* A settled diary stays as it was settled, and no failed attempt is        *)
(* forgotten, while the record exists: also by a restart between counting   *)
(* the last attempt and giving the record up (set_episode_status,           *)
(* count_failed_attempt, write_episode).                                    *)
THEOREM DiariesAreSettledOnce == Spec => DiaryGoesForward
<1> DEFINE Forward ==
      \A r \in RecordId :
        records[r].state # "absent" /\ records'[r].state # "absent" =>
          /\ records[r].diary # "pending" =>
               /\ records'[r].diary = records[r].diary
               /\ records'[r].episode = records[r].episode
          /\ records'[r].attempts >= records[r].attempts
<1>1. ASSUME IInv, [Next]_vars PROVE [Forward]_vars
  <2> SUFFICES ASSUME Next, NEW r \in RecordId,
                      records[r].state # "absent", records'[r].state # "absent"
               PROVE  /\ records[r].diary # "pending" =>
                           /\ records'[r].diary = records[r].diary
                           /\ records'[r].episode = records[r].episode
                      /\ records'[r].attempts >= records[r].attempts
    BY <1>1
  <2>1. records[r] \in Record /\ records[r].attempts \in Nat
    BY <1>1 DEF IInv, TypeOK, Record
  <2>2. CASE Rests(r)
    BY <2>1, <2>2 DEF Rests, SameDiary
  <2>3. CASE JobWrites(r)
    <3>1. records[r].diary = "pending"
      BY <1>1, <2>3 DEF IInv, JobWrites, JobHolds
    <3>2. CASE Skips(r) \/ GivesUp(r) \/ Writes(r)
      <4>1. records'[r].attempts = records[r].attempts
        BY <2>1, <3>2 DEF Skips, GivesUp, Writes, Record
      <4> QED
        BY <2>1, <3>1, <4>1
    <3>3. CASE Fails(r)
      <4>1. PICK n \in Nat : records'[r] = [records[r] EXCEPT !.attempts = n] /\ n >= records[r].attempts
        BY <3>3 DEF Fails
      <4>2. records'[r].attempts = n
        BY <2>1, <4>1 DEF Record
      <4> QED
        BY <3>1, <4>1, <4>2
    <3> QED
      BY <2>3, <3>2, <3>3 DEF JobWrites
  <2> QED
    BY <1>1, <2>2, <2>3, DiaryMoves DEF NoRecord
<1>2. IInv /\ [Next]_vars => [Forward]_vars
  BY <1>1
<1>3. []IInv /\ [][Next]_vars => [][Forward]_vars
  BY <1>2, PTL
<1>4. Spec => [][Next]_vars
  BY DEF Spec
<1> QED
  BY RecordInvariant, <1>3, <1>4, PTL DEF DiaryGoesForward
=============================================================================
