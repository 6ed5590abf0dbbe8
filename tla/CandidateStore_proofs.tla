------------------------ MODULE CandidateStore_proofs ------------------------
(* Theorems about CandidateStore, for any people, claims, rows, deadlines,  *)
(* caps and clock readings.                                                 *)
EXTENDS CandidateStore, FiniteSetTheorems, TLAPS

-----------------------------------------------------------------------------
(* What the statements do to one row. *)

\* A row whose value is there exactly while the candidate is live.
RowOK(row) ==
  /\ row \in Row
  /\ Live(row) <=> row.claim # Erased
  /\ row.offers <= MaxOffers

\* What housekeeping, reconciliation and voiding may do to a row: nothing to a
\* dead one; a live one keeps its claim or is expired with it.
Aged(old, new) ==
  /\ new.subject = old.subject
  /\ ~Live(old) => new = old
  /\ Live(new) => new.claim = old.claim
  /\ new.status \in LiveStatus \cup {"expired", old.status}

LEMMA NoRowOK == RowOK(NoRow) /\ ~Live(NoRow)
BY ConstantsAssumption DEF RowOK, NoRow, Null, Row, Live, LiveStatus

LEMMA ResolvedRow ==
  ASSUME NEW row, RowOK(row), NEW to \in FinalStatus
  PROVE  /\ RowOK(Resolved(row, to))
         /\ Resolved(row, to).status = to
         /\ Resolved(row, to).subject = row.subject
         /\ ~Live(Resolved(row, to))
<1> DEFINE new == Resolved(row, to)
<1>1. new = [status |-> to, subject |-> row.subject, claim |-> Erased,
             offeredAt |-> 0, expiresAt |-> 0, offers |-> 0]
  BY DEF Resolved, Null
<1>2. ~Live(new)
  BY <1>1 DEF Live, LiveStatus, FinalStatus
<1>3. row.subject \in Person \cup {Nobody}
  BY DEF RowOK, Row
<1>4. new \in Row
  BY <1>1, <1>3 DEF Row
<1> QED
  BY <1>1, <1>2, <1>4, ConstantsAssumption DEF RowOK

LEMMA ReopenedRow ==
  ASSUME NEW row, RowOK(row), row.status = "offered"
  PROVE  /\ RowOK(Reopened(row))
         /\ Reopened(row).status = "proposed"
         /\ Reopened(row).subject = row.subject
         /\ Reopened(row).claim = row.claim
<1> DEFINE new == Reopened(row)
<1>1. /\ new.status = "proposed" /\ new.subject = row.subject /\ new.claim = row.claim
      /\ new.offers = row.offers
  BY DEF Reopened, RowOK, Row
<1>2. new \in Row
  BY DEF Reopened, Null, RowOK, Row, LiveStatus
<1> QED
  BY <1>1, <1>2 DEF RowOK, Live, LiveStatus

LEMMA HousekeptRow ==
  ASSUME NEW rows \in [CandId -> Row], NEW now \in Nat, NEW c \in CandId, RowOK(rows[c])
  PROVE  /\ RowOK(Housekept(rows, now)[c])
         /\ Aged(rows[c], Housekept(rows, now)[c])
         /\ Housekept(rows, now)[c].status = "offered" =>
              /\ Housekept(rows, now)[c] = rows[c]
              /\ rows[c].offeredAt > now - AnswerWindow
<1> DEFINE row == rows[c]
           mid == IF Unanswered(row, now) THEN Reopened(row) ELSE row
           new == Housekept(rows, now)[c]
<1>1. new = IF Lapsed(mid, now) THEN Resolved(mid, "expired") ELSE mid
  BY DEF Housekept, ExpireLapsed
<1>2. /\ RowOK(mid) /\ mid.subject = row.subject /\ mid.claim = row.claim
      /\ ~Live(row) => mid = row
      /\ mid.status = "offered" => mid = row /\ ~Unanswered(row, now)
      /\ mid.status \in {"proposed", row.status}
  BY ReopenedRow DEF Unanswered, Live, LiveStatus
<1>3. row.offeredAt \in Nat /\ AnswerWindow \in Nat
  BY ConstantsAssumption DEF RowOK, Row
<1>4. CASE Lapsed(mid, now)
  <2>1. new = Resolved(mid, "expired") /\ Live(mid)
    BY <1>1, <1>4 DEF Lapsed, Live, LiveStatus
  <2>2. RowOK(new) /\ new.status = "expired" /\ new.subject = mid.subject /\ ~Live(new)
    BY <1>2, <2>1, ResolvedRow DEF FinalStatus
  <2> QED
    BY <1>2, <2>1, <2>2 DEF Aged
<1>5. CASE ~Lapsed(mid, now)
  <2>1. new = mid
    BY <1>1, <1>5
  <2>2. Aged(row, new)
    BY <1>2, <2>1 DEF Aged, LiveStatus
  <2>3. new.status = "offered" => row.offeredAt > now - AnswerWindow
    BY <1>2, <1>3, <2>1 DEF Unanswered
  <2> QED
    BY <1>2, <2>1, <2>2, <2>3
<1> QED
  BY <1>4, <1>5

LEMMA VoidedRow ==
  ASSUME NEW rows \in [CandId -> Row], NEW c \in CandId, RowOK(rows[c])
  PROVE  /\ RowOK(Voided(rows)[c])
         /\ Aged(rows[c], Voided(rows)[c])
         /\ ~Live(Voided(rows)[c])
<1>1. Voided(rows)[c] = IF Live(rows[c]) THEN Resolved(rows[c], "expired") ELSE rows[c]
  BY DEF Voided
<1> QED
  BY <1>1, ResolvedRow DEF Aged, FinalStatus

\* reset_for_startup with the switch on.
Reset(rows, now) ==
  ExpireLapsed([c \in CandId |-> IF rows[c].status = "offered"
                                 THEN Reopened(rows[c]) ELSE rows[c]], now)

LEMMA ResetRow ==
  ASSUME NEW rows \in [CandId -> Row], NEW now \in Nat, NEW c \in CandId, RowOK(rows[c])
  PROVE  /\ RowOK(Reset(rows, now)[c])
         /\ Aged(rows[c], Reset(rows, now)[c])
         /\ Reset(rows, now)[c].status # "offered"
<1> DEFINE row == rows[c]
           mid == IF row.status = "offered" THEN Reopened(row) ELSE row
           new == Reset(rows, now)[c]
<1>1. new = IF Lapsed(mid, now) THEN Resolved(mid, "expired") ELSE mid
  BY DEF Reset, ExpireLapsed
<1>2. /\ RowOK(mid) /\ mid.subject = row.subject /\ mid.claim = row.claim
      /\ ~Live(row) => mid = row
      /\ mid.status \in {"proposed", row.status} /\ mid.status # "offered"
  BY ReopenedRow DEF Live, LiveStatus
<1>3. CASE Lapsed(mid, now)
  <2>1. new = Resolved(mid, "expired") /\ Live(mid)
    BY <1>1, <1>3 DEF Lapsed, Live, LiveStatus
  <2>2. RowOK(new) /\ new.status = "expired" /\ new.subject = mid.subject /\ ~Live(new)
    BY <1>2, <2>1, ResolvedRow DEF FinalStatus
  <2> QED
    BY <1>2, <2>1, <2>2 DEF Aged
<1>4. CASE ~Lapsed(mid, now)
  <2>1. new = mid
    BY <1>1, <1>4
  <2> QED
    BY <1>2, <2>1 DEF Aged, LiveStatus
<1> QED
  BY <1>3, <1>4

-----------------------------------------------------------------------------
(* What a step does to the table.                                           *)

TableOK(rows) == rows \in [CandId -> Row] /\ \A c \in CandId : RowOK(rows[c])

TInv == TypeOK /\ TableOK(table)

Kept(now) == Housekept(table, now)

\* No claim appears, no offer is made.
Ages(rows) ==
  /\ TableOK(rows)
  /\ \A c \in CandId : /\ Aged(table[c], rows[c])
                       /\ rows[c].status = "offered" => rows[c] = table[c]

Inserts(c, p, k, now) ==
  /\ Kept(now)[c] = NoRow /\ ~Blocked(Kept(now), p, k)
  /\ table' = [Kept(now) EXCEPT ![c] = Proposed(p, k, now)]

Offers(c, p, now) ==
  /\ Kept(now)[c].subject = p /\ Kept(now)[c].status = "proposed"
  /\ Kept(now)[c].offers < MaxOffers
  /\ ~HasOpenOffer(Kept(now), p, now)
  /\ table' = [Kept(now) EXCEPT ![c].status = "offered",
                                ![c].offeredAt = now, ![c].offers = @ + 1]

Resolves(c, p, to, now) ==
  /\ Answerable(Kept(now), c, p)
  /\ table' = [Kept(now) EXCEPT ![c] = Resolved(@, to)]

LEMMA KeptAges ==
  ASSUME TInv, NEW now \in Nat
  PROVE  Ages(Kept(now)) /\ Kept(now) \in [CandId -> Row]
<1>1. Kept(now) = [c \in CandId |-> Kept(now)[c]]
  BY DEF Kept, Housekept, ExpireLapsed
<1>2. ASSUME NEW c \in CandId
      PROVE  /\ RowOK(Kept(now)[c]) /\ Aged(table[c], Kept(now)[c])
             /\ Kept(now)[c].status = "offered" => Kept(now)[c] = table[c]
  BY HousekeptRow DEF TInv, TableOK, Kept
<1>3. Kept(now) \in [CandId -> Row]
  BY <1>1, <1>2 DEF RowOK
<1> QED
  BY <1>2, <1>3 DEF Ages, TableOK

LEMMA ReconcileAges ==
  ASSUME TInv, NEW on \in BOOLEAN, Reconcile(on)
  PROVE  Ages(table') /\ \A c \in CandId : table'[c].status # "offered"
<1>1. table' = IF on THEN Reset(table, clock) ELSE Voided(table)
  BY DEF Reconcile, Reset
<1>2. table' = [c \in CandId |-> table'[c]]
  BY <1>1 DEF Reset, ExpireLapsed, Voided
<1>3. clock \in Nat
  BY DEF TInv, TypeOK
<1>4. ASSUME NEW c \in CandId
      PROVE  /\ RowOK(table'[c]) /\ Aged(table[c], table'[c])
             /\ table'[c].status # "offered"
  BY <1>1, <1>3, ResetRow, VoidedRow DEF TInv, TableOK, Live, LiveStatus
<1>5. table' \in [CandId -> Row]
  BY <1>2, <1>4 DEF RowOK
<1> QED
  BY <1>4, <1>5 DEF Ages, TableOK

\* Every step that changes the table is one of these.
LEMMA TableSteps ==
  ASSUME TInv, Next
  PROVE  \/ UNCHANGED table
         \/ Ages(table') /\ \E on \in BOOLEAN : Reconcile(on)
         \/ phase = "up" /\ Ages(table')
         \/ enabled /\ phase = "up" /\ \E now \in Nat, c \in CandId, p \in Person :
              \/ \E k \in Claim : Inserts(c, p, k, now)
              \/ Offers(c, p, now)
              \/ \E to \in {"confirmed", "rejected"} : Resolves(c, p, to, now)
<1> DEFINE Goal == \/ UNCHANGED table
                   \/ Ages(table') /\ \E on \in BOOLEAN : Reconcile(on)
                   \/ phase = "up" /\ Ages(table')
                   \/ enabled /\ phase = "up" /\ \E now \in Nat, c \in CandId, p \in Person :
                        \/ \E k \in Claim : Inserts(c, p, k, now)
                        \/ Offers(c, p, now)
                        \/ \E to \in {"confirmed", "rejected"} : Resolves(c, p, to, now)
<1>1. clock \in Nat /\ Now \subseteq Nat
  BY DEF TInv, TypeOK, Now
<1>2. ASSUME NEW now \in Nat, phase = "up", table' = Kept(now) PROVE Goal
  BY <1>2, KeptAges
<1>3. ASSUME NEW t \in Task, NEW now \in Now, NEW p \in Person, NEW k \in Claim, Insert(t, p, k, now)
      PROVE  Goal
  BY <1>1, <1>2, <1>3 DEF Insert, Enters, Commits, Inserts, Kept
<1>4. ASSUME NEW t \in Task, NEW now \in Now, NEW c \in CandId, NEW p \in Person,
             MarkOffered(t, c, p, now)
      PROVE  Goal
  BY <1>1, <1>2, <1>4 DEF MarkOffered, Enters, Commits, Offers, Kept
<1>5. ASSUME NEW t \in Task, NEW now \in Now, NEW c \in CandId, NEW p \in Person,
             Reject(t, c, p, now)
      PROVE  Goal
  BY <1>1, <1>2, <1>5 DEF Reject, Enters, Commits, Resolves, Kept
<1>6. ASSUME NEW t \in Task, NEW now \in Now, NEW c \in CandId, NEW p \in Person,
             Promote(t, c, p, now)
      PROVE  Goal
  BY <1>1, <1>2, <1>6 DEF Promote, Enters, Commits, Resolves, Kept
<1>7. ASSUME RetentionRun PROVE Goal
  BY <1>1, <1>2, <1>7 DEF RetentionRun, Commits, Kept
<1>8. ASSUME NEW on \in BOOLEAN, Reconcile(on) PROVE Goal
  BY <1>8, ReconcileAges
<1>9. ASSUME NEW t \in Task, Checkpoint(t) PROVE Goal
  BY <1>9 DEF Checkpoint, StartCheckpoint, SkipCheckpoint, EndCheckpoint, CheckpointRaised
<1>10. ASSUME Tick \/ Stop \/ (\E truncated \in BOOLEAN : Serve(truncated))
             \/ (\E p \in Person, k \in Edited : EditFact(p, k))
       PROVE Goal
  BY <1>10 DEF Tick, Stop, Serve, EditFact
<1> QED
  BY <1>3, <1>4, <1>5, <1>6, <1>7, <1>8, <1>9, <1>10 DEF Next, Entry

-----------------------------------------------------------------------------
(* Types. *)

LEMMA ProposedRow ==
  ASSUME NEW p \in Person, NEW k \in Claim, NEW now \in Nat
  PROVE  /\ RowOK(Proposed(p, k, now)) /\ Proposed(p, k, now).status = "proposed"
         /\ Proposed(p, k, now).subject = p /\ Proposed(p, k, now).claim = k
BY ConstantsAssumption DEF Proposed, RowOK, Row, Live, LiveStatus, Null

\* The row mark_offered leaves.
OfferedRow(row, now) ==
  [row EXCEPT !.status = "offered", !.offeredAt = now, !.offers = @ + 1]

LEMMA OfferedRowOK ==
  ASSUME NEW row, RowOK(row), NEW now \in Nat, row.status = "proposed", row.offers < MaxOffers
  PROVE  /\ RowOK(OfferedRow(row, now)) /\ OfferedRow(row, now).status = "offered"
         /\ OfferedRow(row, now).subject = row.subject /\ OfferedRow(row, now).claim = row.claim
<1> DEFINE one == [row EXCEPT !.status = "offered"]
           two == [one EXCEPT !.offeredAt = now]
<1>0. row \in Row /\ row.offers + 1 \in Nat
  BY DEF RowOK, Row
<1>1. OfferedRow(row, now) \in Row
  <2>1. one \in Row /\ one.offers = row.offers
    BY <1>0 DEF Row, LiveStatus
  <2>2. two \in Row /\ two.offers = row.offers
    BY <2>1 DEF Row
  <2>3. [two EXCEPT !.offers = row.offers + 1] \in Row
    BY <1>0, <2>2 DEF Row
  <2>4. OfferedRow(row, now) = [two EXCEPT !.offers = row.offers + 1]
    BY <2>2 DEF OfferedRow
  <2> QED
    BY <2>3, <2>4
<1>2. /\ OfferedRow(row, now).status = "offered"
      /\ OfferedRow(row, now).subject = row.subject /\ OfferedRow(row, now).claim = row.claim
      /\ OfferedRow(row, now).offers = row.offers + 1
  BY DEF OfferedRow, RowOK, Row
<1>3. row.offers \in Nat /\ MaxOffers \in Nat
  BY ConstantsAssumption DEF RowOK, Row
<1> QED
  BY <1>1, <1>2, <1>3 DEF RowOK, Live, LiveStatus

\* The three changes of one row, each on top of the housekeeping.
LEMMA OneRow ==
  ASSUME TInv, NEW now \in Nat, NEW c \in CandId, NEW p \in Person
  PROVE  /\ \A k \in Claim : Inserts(c, p, k, now) =>
              table' = [Kept(now) EXCEPT ![c] = Proposed(p, k, now)] /\ TableOK(table')
         /\ Offers(c, p, now) =>
              table' = [Kept(now) EXCEPT ![c] = OfferedRow(Kept(now)[c], now)] /\ TableOK(table')
         /\ \A to \in {"confirmed", "rejected"} : Resolves(c, p, to, now) =>
              table' = [Kept(now) EXCEPT ![c] = Resolved(Kept(now)[c], to)] /\ TableOK(table')
<1>1. Kept(now) \in [CandId -> Row] /\ \A d \in CandId : RowOK(Kept(now)[d])
  BY KeptAges DEF Ages, TableOK
<1>2. ASSUME NEW row, RowOK(row), table' = [Kept(now) EXCEPT ![c] = row] PROVE TableOK(table')
  BY <1>1, <1>2 DEF TableOK, RowOK
<1>3. ASSUME NEW k \in Claim, Inserts(c, p, k, now)
      PROVE  table' = [Kept(now) EXCEPT ![c] = Proposed(p, k, now)] /\ TableOK(table')
  BY <1>2, <1>3, ProposedRow DEF Inserts
<1>4. ASSUME Offers(c, p, now)
      PROVE  table' = [Kept(now) EXCEPT ![c] = OfferedRow(Kept(now)[c], now)] /\ TableOK(table')
  <2>1. table' = [Kept(now) EXCEPT ![c] = OfferedRow(Kept(now)[c], now)]
    BY <1>1, <1>4 DEF Offers, OfferedRow
  <2>2. RowOK(OfferedRow(Kept(now)[c], now))
    BY <1>1, <1>4, OfferedRowOK DEF Offers
  <2> QED
    BY <1>2, <2>1, <2>2
<1>5. ASSUME NEW to \in {"confirmed", "rejected"}, Resolves(c, p, to, now)
      PROVE  table' = [Kept(now) EXCEPT ![c] = Resolved(Kept(now)[c], to)] /\ TableOK(table')
  <2>1. table' = [Kept(now) EXCEPT ![c] = Resolved(Kept(now)[c], to)]
    BY <1>1, <1>5 DEF Resolves
  <2>2. RowOK(Resolved(Kept(now)[c], to))
    BY <1>1, ResolvedRow DEF FinalStatus
  <2> QED
    BY <1>2, <2>1, <2>2
<1> QED
  BY <1>3, <1>4, <1>5

LEMMA TableOKStep ==
  ASSUME TInv, Next
  PROVE  TableOK(table')
<1>1. CASE UNCHANGED table
  BY <1>1 DEF TInv
<1>2. CASE Ages(table')
  BY <1>2 DEF Ages
<1>3. ASSUME NEW now \in Nat, NEW c \in CandId, NEW p \in Person,
             \/ \E k \in Claim : Inserts(c, p, k, now)
             \/ Offers(c, p, now)
             \/ \E to \in {"confirmed", "rejected"} : Resolves(c, p, to, now)
      PROVE  TableOK(table')
  BY <1>3, OneRow
<1> QED
  BY <1>1, <1>2, <1>3, TableSteps

LEMMA TInvStep ==
  ASSUME TInv, Next
  PROVE  TInv'
<1> USE DEF TypeOK
<1>1. TableOK(table')
  BY TableOKStep
<1>2. /\ facts \in [Person -> SUBSET Claim] /\ logged \in BOOLEAN /\ clock \in Nat
      /\ phase \in {"down", "reset", "up"} /\ enabled \in BOOLEAN /\ pending \in BOOLEAN
      /\ pc \in [Task -> {"idle", "scrubbed", "clean", "truncating"}]
  BY DEF TInv
<1> DEFINE Rest == /\ facts' \in [Person -> SUBSET Claim] /\ logged' \in BOOLEAN /\ clock' \in Nat
                   /\ phase' \in {"down", "reset", "up"} /\ enabled' \in BOOLEAN
                   /\ pending' \in BOOLEAN
                   /\ pc' \in [Task -> {"idle", "scrubbed", "clean", "truncating"}]
<1>3. ASSUME NEW t \in Task, NEW rows, Commits(t, rows), facts' \in [Person -> SUBSET Claim]
      PROVE  Rest
  BY <1>2, <1>3 DEF Commits, Scrubs
<1>4. ASSUME NEW t \in Task, NEW now \in Now, Entry(t, now) PROVE Rest
  <2>1. now \in Nat
    BY <1>2 DEF Now
  <2>2. ASSUME NEW c \in CandId, NEW p \in Person, Promote(t, c, p, now) PROVE Rest
    <3>1. facts' \in [Person -> SUBSET Claim]
      <4>1. CASE UNCHANGED facts
        BY <1>2, <4>1
      <4>2. CASE /\ Answerable(Kept(now), c, p)
                 /\ facts' = [facts EXCEPT ![p] = @ \cup {Kept(now)[c].claim}]
        <5>1. RowOK(Kept(now)[c])
          BY <2>1, KeptAges DEF Ages, TableOK
        <5>2. Kept(now)[c].claim \in Claim
          BY <4>2, <5>1 DEF Answerable, RowOK, Row, Live, LiveStatus
        <5> QED
          BY <1>2, <4>2, <5>2
      <4> QED
        BY <2>2, <4>1, <4>2 DEF Promote, Kept
    <3>2. \E rows : Commits(t, rows)
      BY <2>2 DEF Promote
    <3> QED
      BY <1>3, <3>1, <3>2
  <2>3. ASSUME UNCHANGED facts, \E rows : Commits(t, rows) PROVE Rest
    BY <1>2, <1>3, <2>3
  <2>4. ASSUME NEW p \in Person, NEW k \in Claim, Insert(t, p, k, now) PROVE Rest
    BY <2>3, <2>4 DEF Insert
  <2>5. ASSUME NEW c \in CandId, NEW p \in Person,
               MarkOffered(t, c, p, now) \/ Reject(t, c, p, now)
        PROVE  Rest
    BY <2>3, <2>5 DEF MarkOffered, Reject
  <2> QED
    BY <1>4, <2>2, <2>4, <2>5 DEF Entry
<1>5. ASSUME RetentionRun PROVE Rest
  BY <1>2, <1>3, <1>5, ConstantsAssumption DEF RetentionRun
<1>6. ASSUME NEW t \in Task, Checkpoint(t) PROVE Rest
  BY <1>2, <1>6 DEF Checkpoint, StartCheckpoint, SkipCheckpoint, EndCheckpoint, CheckpointRaised
<1>7. ASSUME NEW on \in BOOLEAN, Reconcile(on) PROVE Rest
  BY <1>2, <1>7 DEF Reconcile, Scrubs
<1>8. ASSUME NEW truncated \in BOOLEAN, Serve(truncated) PROVE Rest
  BY <1>2, <1>8 DEF Serve
<1>9. ASSUME Tick \/ Stop PROVE Rest
  <2>1. CASE Tick
    <3>1. clock + 1 \in Nat
      BY <1>2
    <3> QED
      BY <1>2, <2>1, <3>1 DEF Tick
  <2>2. CASE Stop
    BY <1>2, <2>2 DEF Stop
  <2> QED
    BY <1>9, <2>1, <2>2
<1>10. ASSUME NEW p \in Person, NEW k \in Edited, EditFact(p, k) PROVE Rest
  <2>1. k \in Claim
    BY ConstantsAssumption
  <2> DEFINE edited == IF k \in facts[p] THEN facts[p] \ {k} ELSE facts[p] \cup {k}
  <2>2. edited \in SUBSET Claim
    BY <1>2, <2>1
  <2>3. facts' = [facts EXCEPT ![p] = edited]
    BY <1>10 DEF EditFact
  <2>4. facts' \in [Person -> SUBSET Claim]
    BY <1>2, <2>2, <2>3
  <2>5. UNCHANGED <<logged, clock, phase, enabled, pending, pc>>
    BY <1>10 DEF EditFact
  <2> QED
    BY <1>2, <2>4, <2>5
<1>11. Rest
  BY <1>4, <1>5, <1>6, <1>7, <1>8, <1>9, <1>10 DEF Next
<1> QED
  BY <1>1, <1>11 DEF TInv, TableOK

LEMMA TInvariant == Spec => []TInv
<1>1. Init => TInv
  <2> SUFFICES ASSUME Init PROVE TInv
    OBVIOUS
  <2>1. \A c \in CandId : table[c] = NoRow
    BY DEF Init
  <2>2. NoRow \in Row
    BY NoRowOK DEF RowOK
  <2>3. TableOK(table)
    BY <2>1, <2>2, NoRowOK DEF Init, TableOK
  <2> QED
    BY <2>3 DEF Init, TInv, TypeOK, TableOK
<1>2. TInv /\ [Next]_vars => TInv'
  <2>1. ASSUME TInv, UNCHANGED vars PROVE TInv'
    BY <2>1 DEF vars, TInv, TypeOK, TableOK
  <2> QED
    BY <2>1, TInvStep
<1> QED
  BY <1>1, <1>2, PTL DEF Spec

(* Every variable keeps its type: in particular a fact written from a        *)
(* candidate is a claim, never an erased value.                              *)
THEOREM TypeCorrect == Spec => []TypeOK
BY TInvariant, PTL DEF TInv

-----------------------------------------------------------------------------
(* One open offer. *)

LEMMA OneOpenOfferStep ==
  ASSUME TInv, OneOpenOffer, Next
  PROVE  OneOpenOffer'
<1> DEFINE One(rows) == \A c, d \in CandId :
             rows[c].status = "offered" /\ rows[d].status = "offered"
               /\ rows[c].subject = rows[d].subject => c = d
<1>1. ASSUME NEW rows, Ages(rows) PROVE One(rows)
  BY <1>1 DEF Ages, OneOpenOffer
<1>2. ASSUME NEW now \in Nat, NEW c \in CandId, NEW row, row.status # "offered",
             table' = [Kept(now) EXCEPT ![c] = row]
      PROVE  OneOpenOffer'
  <2>1. One(Kept(now)) /\ Kept(now) \in [CandId -> Row]
    BY <1>1, KeptAges
  <2> QED
    BY <1>2, <2>1 DEF OneOpenOffer
<1>3. ASSUME NEW now \in Nat, NEW c \in CandId, NEW p \in Person, Offers(c, p, now)
      PROVE  OneOpenOffer'
  \* An offer that survived the housekeeping is inside its window, and the
  \* compare-and-set would have seen it.
  <2>1. \A d \in CandId : ~(Kept(now)[d].subject = p /\ Kept(now)[d].status = "offered")
    <3> SUFFICES ASSUME NEW d \in CandId, Kept(now)[d].subject = p, Kept(now)[d].status = "offered"
                 PROVE  FALSE
      OBVIOUS
    <3>1. Kept(now)[d] = table[d] /\ table[d].offeredAt > now - AnswerWindow
      BY HousekeptRow DEF TInv, TableOK, Kept
    <3> QED
      BY <1>3, <3>1 DEF Offers, HasOpenOffer
  <2>2. One(Kept(now)) /\ Kept(now) \in [CandId -> Row]
    BY <1>1, KeptAges
  <2>3. table' = [Kept(now) EXCEPT ![c] = OfferedRow(Kept(now)[c], now)]
    BY <1>3, OneRow
  <2>4. OfferedRow(Kept(now)[c], now).subject = p
    <3>1. RowOK(Kept(now)[c])
      BY KeptAges DEF Ages, TableOK
    <3> QED
      BY <1>3, <3>1, OfferedRowOK DEF Offers
  <2> QED
    BY <2>1, <2>2, <2>3, <2>4 DEF OneOpenOffer
<1>4. ASSUME NEW now \in Nat, NEW c \in CandId, NEW p \in Person, NEW k \in Claim,
             Inserts(c, p, k, now)
      PROVE  OneOpenOffer'
  BY <1>2, <1>4, ProposedRow DEF Inserts
<1>5. ASSUME NEW now \in Nat, NEW c \in CandId, NEW p \in Person,
             NEW to \in {"confirmed", "rejected"}, Resolves(c, p, to, now)
      PROVE  OneOpenOffer'
  <2>1. Resolved(Kept(now)[c], to).status # "offered"
    BY DEF Resolved
  <2> QED
    BY <1>2, <1>5, <2>1, OneRow
<1>6. CASE UNCHANGED table
  BY <1>6 DEF OneOpenOffer
<1>7. CASE Ages(table')
  BY <1>1, <1>7 DEF OneOpenOffer
<1> QED
  BY <1>3, <1>4, <1>5, <1>6, <1>7, TableSteps

(* A person never has two offers open, for any deadlines, windows and caps,  *)
(* and whatever older clock reading each transaction runs with: an answer    *)
(* that names no value can only mean one candidate (candidates.py:426-428).  *)
THEOREM OneOffer == Spec => []OneOpenOffer
<1>1. Init => OneOpenOffer
  BY DEF Init, OneOpenOffer, NoRow
<1>2. TInv /\ OneOpenOffer /\ [Next]_vars => OneOpenOffer'
  <2>1. ASSUME OneOpenOffer, UNCHANGED vars PROVE OneOpenOffer'
    BY <2>1 DEF vars, OneOpenOffer
  <2> QED
    BY <2>1, OneOpenOfferStep
<1> QED
  BY <1>1, <1>2, TInvariant, PTL DEF Spec

-----------------------------------------------------------------------------
(* The live rows of a person. *)

\* The third part is what FiniteSetTheorems needs to speak of the first.
LiveInv(rows) ==
  \A p \in Person :
    /\ Cardinality(LiveOf(rows, p)) <= MaxLive
    /\ \A c, d \in LiveOf(rows, p) : rows[c].claim = rows[d].claim => c = d
    /\ IsFiniteSet(LiveOf(rows, p))

LEMMA AgesLive ==
  ASSUME TInv, LiveInv(table), NEW rows, Ages(rows)
  PROVE  LiveInv(rows)
<1> SUFFICES ASSUME NEW p \in Person
             PROVE  /\ Cardinality(LiveOf(rows, p)) <= MaxLive
                    /\ \A c, d \in LiveOf(rows, p) : rows[c].claim = rows[d].claim => c = d
                    /\ IsFiniteSet(LiveOf(rows, p))
  BY DEF LiveInv
<1>1. \A c \in CandId : Live(rows[c]) => Live(table[c]) /\ rows[c].claim = table[c].claim
  BY DEF Ages, Aged
<1>2. \A c \in CandId : rows[c].subject = table[c].subject
  BY DEF Ages, Aged
<1>3. LiveOf(rows, p) \subseteq LiveOf(table, p)
  BY <1>1, <1>2 DEF LiveOf
<1>4. IsFiniteSet(LiveOf(table, p)) /\ Cardinality(LiveOf(table, p)) <= MaxLive
  BY DEF LiveInv
<1>5. /\ IsFiniteSet(LiveOf(rows, p))
      /\ Cardinality(LiveOf(rows, p)) <= Cardinality(LiveOf(table, p))
  BY <1>3, <1>4, FS_Subset
<1>6. Cardinality(LiveOf(rows, p)) \in Nat /\ Cardinality(LiveOf(table, p)) \in Nat
  BY <1>4, <1>5, FS_CardinalityType
<1>7. \A c, d \in LiveOf(rows, p) : rows[c].claim = rows[d].claim => c = d
  BY <1>1, <1>3 DEF LiveInv, LiveOf
<1> QED
  BY <1>4, <1>5, <1>6, <1>7, ConstantsAssumption

\* A row that stays live with its claim and subject, or dies.
LEMMA OneRowLive ==
  ASSUME NEW rows \in [CandId -> Row], LiveInv(rows), NEW c \in CandId, NEW row \in Row,
         row.subject = rows[c].subject,
         Live(row) => Live(rows[c]) /\ row.claim = rows[c].claim
  PROVE  LiveInv([rows EXCEPT ![c] = row])
<1> DEFINE new == [rows EXCEPT ![c] = row]
<1> SUFFICES ASSUME NEW p \in Person
             PROVE  /\ Cardinality(LiveOf(new, p)) <= MaxLive
                    /\ \A d, e \in LiveOf(new, p) : new[d].claim = new[e].claim => d = e
                    /\ IsFiniteSet(LiveOf(new, p))
  BY DEF LiveInv
<1>1. LiveOf(new, p) \subseteq LiveOf(rows, p)
  BY DEF LiveOf
<1>2. \A d \in LiveOf(new, p) : new[d].claim = rows[d].claim
  BY DEF LiveOf
<1>3. IsFiniteSet(LiveOf(rows, p)) /\ Cardinality(LiveOf(rows, p)) <= MaxLive
  BY DEF LiveInv
<1>4. /\ IsFiniteSet(LiveOf(new, p))
      /\ Cardinality(LiveOf(new, p)) <= Cardinality(LiveOf(rows, p))
  BY <1>1, <1>3, FS_Subset
<1>5. Cardinality(LiveOf(rows, p)) \in Nat /\ Cardinality(LiveOf(new, p)) \in Nat
  BY <1>3, <1>4, FS_CardinalityType
<1>6. \A d, e \in LiveOf(new, p) : new[d].claim = new[e].claim => d = e
  BY <1>1, <1>2 DEF LiveInv
<1> HIDE DEF new
<1>7. Cardinality(LiveOf(new, p)) <= MaxLive
  BY <1>3, <1>4, <1>5, ConstantsAssumption
<1> QED
  BY <1>4, <1>6, <1>7

LEMMA InsertLive ==
  ASSUME TInv, LiveInv(table), NEW now \in Nat, NEW c \in CandId, NEW q \in Person,
         NEW k \in Claim, Inserts(c, q, k, now)
  PROVE  LiveInv(table')
<1> DEFINE rows == Kept(now)
<1>1. LiveInv(rows) /\ rows \in [CandId -> Row]
  BY KeptAges, AgesLive
<1>2. table' = [rows EXCEPT ![c] = Proposed(q, k, now)] /\ ~Live(rows[c])
  BY NoRowOK DEF Inserts
<1>3. /\ \A d \in LiveOf(rows, q) : rows[d].claim # k
      /\ ~(Cardinality(LiveOf(rows, q)) >= MaxLive)
  BY DEF Inserts, Blocked
<1>4. /\ Live(table'[c]) /\ table'[c].claim = k /\ table'[c].subject = q
      /\ \A d \in CandId \ {c} : table'[d] = rows[d]
  BY <1>1, <1>2, ProposedRow DEF Live, LiveStatus
<1> SUFFICES ASSUME NEW p \in Person
             PROVE  /\ Cardinality(LiveOf(table', p)) <= MaxLive
                    /\ \A d, e \in LiveOf(table', p) : table'[d].claim = table'[e].claim => d = e
                    /\ IsFiniteSet(LiveOf(table', p))
  BY DEF LiveInv
<1>5. IsFiniteSet(LiveOf(rows, p)) /\ Cardinality(LiveOf(rows, p)) <= MaxLive
  BY <1>1 DEF LiveInv
<1>6. CASE p # q
  <2>1. LiveOf(table', p) = LiveOf(rows, p)
    BY <1>2, <1>4, <1>6 DEF LiveOf
  <2>2. \A d \in LiveOf(rows, p) : table'[d] = rows[d]
    BY <1>2, <1>4 DEF LiveOf
  <2> QED
    BY <1>1, <1>5, <2>1, <2>2 DEF LiveInv
<1>7. CASE p = q
  <2>1. LiveOf(table', p) = LiveOf(rows, p) \cup {c} /\ c \notin LiveOf(rows, p)
    BY <1>2, <1>4, <1>7 DEF LiveOf
  <2>2. /\ IsFiniteSet(LiveOf(table', p))
        /\ Cardinality(LiveOf(table', p)) = Cardinality(LiveOf(rows, p)) + 1
    BY <1>5, <2>1, FS_AddElement
  <2>3. Cardinality(LiveOf(rows, p)) \in Nat
    BY <1>5, FS_CardinalityType
  <2>4. Cardinality(LiveOf(table', p)) <= MaxLive
    BY <1>3, <1>7, <2>2, <2>3, ConstantsAssumption
  <2>5. \A d \in LiveOf(rows, p) : d \in CandId \ {c} /\ table'[d] = rows[d]
    BY <1>4, <2>1 DEF LiveOf
  <2>6. \A d, e \in LiveOf(rows, p) : rows[d].claim = rows[e].claim => d = e
    BY <1>1 DEF LiveInv
  <2>7. \A d, e \in LiveOf(table', p) : table'[d].claim = table'[e].claim => d = e
    BY <1>3, <1>4, <1>7, <2>1, <2>5, <2>6
  <2> QED
    BY <2>2, <2>4, <2>7
<1> QED
  BY <1>6, <1>7

LEMMA LiveInvStep ==
  ASSUME TInv, LiveInv(table), Next
  PROVE  LiveInv(table')
<1>1. CASE UNCHANGED table
  BY <1>1
<1>2. CASE Ages(table')
  BY <1>2, AgesLive
<1>3. ASSUME NEW now \in Nat PROVE /\ LiveInv(Kept(now)) /\ Kept(now) \in [CandId -> Row]
                                   /\ \A c \in CandId : RowOK(Kept(now)[c])
  BY KeptAges, AgesLive DEF Ages, TableOK
<1>4. ASSUME NEW now \in Nat, NEW c \in CandId, NEW p \in Person, NEW k \in Claim,
             Inserts(c, p, k, now)
      PROVE  LiveInv(table')
  BY <1>4, InsertLive
<1>5. ASSUME NEW now \in Nat, NEW c \in CandId, NEW p \in Person, Offers(c, p, now)
      PROVE  LiveInv(table')
  <2>1. Live(Kept(now)[c]) /\ RowOK(Kept(now)[c])
    BY <1>3, <1>5 DEF Offers, Live, LiveStatus
  <2>2. /\ OfferedRow(Kept(now)[c], now) \in Row
        /\ OfferedRow(Kept(now)[c], now).subject = Kept(now)[c].subject
        /\ OfferedRow(Kept(now)[c], now).claim = Kept(now)[c].claim
    BY <1>5, <2>1, OfferedRowOK DEF Offers, RowOK
  <2> QED
    BY <1>3, <1>5, <2>1, <2>2, OneRow, OneRowLive
<1>6. ASSUME NEW now \in Nat, NEW c \in CandId, NEW p \in Person,
             NEW to \in {"confirmed", "rejected"}, Resolves(c, p, to, now)
      PROVE  LiveInv(table')
  <2>1. /\ Resolved(Kept(now)[c], to) \in Row /\ ~Live(Resolved(Kept(now)[c], to))
        /\ Resolved(Kept(now)[c], to).subject = Kept(now)[c].subject
    BY <1>3, ResolvedRow DEF RowOK, FinalStatus
  <2> QED
    BY <1>3, <1>6, <2>1, OneRow, OneRowLive
<1> QED
  BY <1>1, <1>2, <1>4, <1>5, <1>6, TableSteps

(* A value is stored exactly while its candidate is live; the live claims of *)
(* a person are distinct and at most MaxLive, each offered at most MaxOffers *)
(* times - for any caps, and whatever order the transactions run in.         *)
THEOREM LiveRowsHold == Spec => []LiveRows
<1>1. Init => LiveInv(table)
  <2> SUFFICES ASSUME Init, NEW p \in Person
               PROVE  LiveOf(table, p) = {}
    BY FS_EmptySet, ConstantsAssumption DEF LiveInv
  <2> QED
    BY NoRowOK DEF Init, LiveOf
<1>2. TInv /\ LiveInv(table) /\ [Next]_vars => LiveInv(table)'
  <2>1. ASSUME LiveInv(table), UNCHANGED vars PROVE LiveInv(table')
    BY <2>1 DEF vars
  <2> QED
    BY <2>1, LiveInvStep
<1>3. TInv /\ LiveInv(table) => LiveRows
  BY DEF TInv, TableOK, RowOK, LiveInv, LiveRows
<1> QED
  BY <1>1, <1>2, <1>3, TInvariant, PTL DEF Spec

-----------------------------------------------------------------------------
(* Resolutions. *)

LEMMA FinalStep ==
  ASSUME TInv, [Next]_vars, NEW c \in CandId, table[c].status \in FinalStatus
  PROVE  table'[c] = table[c]
<1>1. ~Live(table[c])
  BY DEF Live, LiveStatus, FinalStatus
<1>2. ASSUME NEW rows, Ages(rows) PROVE rows[c] = table[c]
  BY <1>1, <1>2 DEF Ages, Aged
<1>3. ASSUME NEW now \in Nat, NEW d \in CandId, NEW row,
             Kept(now)[d].status \notin FinalStatus, table' = [Kept(now) EXCEPT ![d] = row]
      PROVE  table'[c] = table[c]
  <2>1. Kept(now)[c] = table[c] /\ Kept(now) \in [CandId -> Row]
    BY <1>2, KeptAges
  <2> QED
    BY <1>3, <2>1
<1>4. ASSUME NEW now \in Nat, NEW d \in CandId, NEW p \in Person, NEW k \in Claim,
             Inserts(d, p, k, now)
      PROVE  table'[c] = table[c]
  <2>1. /\ Kept(now)[d].status \notin FinalStatus
        /\ table' = [Kept(now) EXCEPT ![d] = Proposed(p, k, now)]
    BY <1>4 DEF Inserts, NoRow, FinalStatus
  <2> QED
    BY <1>3, <2>1
<1>5. ASSUME NEW now \in Nat, NEW d \in CandId, NEW p \in Person, Offers(d, p, now)
      PROVE  table'[c] = table[c]
  <2>1. /\ Kept(now)[d].status \notin FinalStatus
        /\ table' = [Kept(now) EXCEPT ![d] = OfferedRow(Kept(now)[d], now)]
    BY <1>5, OneRow DEF Offers, FinalStatus
  <2> QED
    BY <1>3, <2>1
<1>6. ASSUME NEW now \in Nat, NEW d \in CandId, NEW p \in Person,
             NEW to \in {"confirmed", "rejected"}, Resolves(d, p, to, now)
      PROVE  table'[c] = table[c]
  <2>1. /\ Kept(now)[d].status \notin FinalStatus
        /\ table' = [Kept(now) EXCEPT ![d] = Resolved(Kept(now)[d], to)]
    BY <1>6, OneRow DEF Resolves, Answerable, FinalStatus
  <2> QED
    BY <1>3, <2>1
<1> QED
  BY <1>2, <1>4, <1>5, <1>6, TableSteps DEF vars

(* A resolved candidate never changes again: no retry, late answer,          *)
(* housekeeping, restart or reuse of its row (candidates.py:595-638).        *)
THEOREM FinalResolution == Spec => ResolutionIsFinal
<1>1. TInv /\ [Next]_vars =>
        \A c \in CandId : table[c].status \in FinalStatus => table'[c] = table[c]
  BY FinalStep
<1> QED
  BY <1>1, TInvariant, PTL DEF Spec, ResolutionIsFinal

-----------------------------------------------------------------------------
(* The write-ahead log. *)

LEMMA ScrubStep ==
  ASSUME ~CommitCancel, TInv, ScrubIsOwed, Next
  PROVE  ScrubIsOwed'
<1> USE ConstantsAssumption DEF ScrubIsOwed
<1>1. pc \in [Task -> {"idle", "scrubbed", "clean", "truncating"}]
  BY DEF TInv, TypeOK
\* An idle coroutine that scrubs is the one about to record the debt.
<1>2. ASSUME NEW t \in Task, NEW rows, phase = "up", pc[t] = "idle", Commits(t, rows)
      PROVE  ScrubIsOwed'
  <2>1. pc' = [pc EXCEPT ![t] = IF Scrubs(rows) THEN "scrubbed" ELSE "clean"]
    BY <1>2 DEF Commits
  <2>2. CASE Scrubs(rows)
    <3>1. pc'[t] = "scrubbed"
      BY <1>1, <2>1, <2>2
    <3> QED
      BY <3>1
  <2>3. CASE ~Scrubs(rows)
    <3>1. logged' = logged /\ pending' = pending
      BY <1>2, <2>3 DEF Commits, TInv, TypeOK
    <3>2. \A u \in Task : pc[u] = "scrubbed" => pc'[u] = "scrubbed"
      BY <1>1, <1>2, <2>1
    <3> QED
      BY <1>2, <3>1, <3>2
  <2> QED
    BY <2>2, <2>3
<1>3. ASSUME NEW t \in Task, NEW now \in Now, Entry(t, now) PROVE ScrubIsOwed'
  <2>1. phase = "up" /\ pc[t] = "idle" /\ \E rows : Commits(t, rows)
    BY <1>3 DEF Entry, Insert, MarkOffered, Reject, Promote, Enters
  <2> QED
    BY <1>2, <2>1
<1>4. ASSUME RetentionRun PROVE ScrubIsOwed'
  BY <1>2, <1>4 DEF RetentionRun
\* The debt is recorded first, and dropped only with the log itself.
<1>5. ASSUME NEW t \in Task, Checkpoint(t) PROVE ScrubIsOwed'
  <2>1. CASE StartCheckpoint(t)
    BY <2>1 DEF StartCheckpoint
  <2>2. CASE SkipCheckpoint(t) \/ CheckpointRaised(t)
    <3>1. /\ pc[t] # "scrubbed" /\ pc' = [pc EXCEPT ![t] = "idle"]
          /\ UNCHANGED <<logged, phase, pending>>
      BY <2>2 DEF SkipCheckpoint, CheckpointRaised
    <3>2. \A u \in Task : pc[u] = "scrubbed" => pc'[u] = "scrubbed"
      BY <1>1, <3>1
    <3> QED
      BY <3>1, <3>2
  <2>3. ASSUME NEW truncated \in BOOLEAN, EndCheckpoint(t, truncated) PROVE ScrubIsOwed'
    BY <2>3 DEF EndCheckpoint
  <2> QED
    BY <1>5, <2>1, <2>2, <2>3 DEF Checkpoint
<1>6. ASSUME Stop PROVE ScrubIsOwed'
  BY <1>6 DEF Stop
<1>7. ASSUME NEW on \in BOOLEAN, Reconcile(on) PROVE ScrubIsOwed'
  BY <1>7 DEF Reconcile
<1>8. ASSUME NEW truncated \in BOOLEAN, Serve(truncated) PROVE ScrubIsOwed'
  BY <1>8 DEF Serve
<1>9. ASSUME Tick \/ \E p \in Person, k \in Edited : EditFact(p, k) PROVE ScrubIsOwed'
  BY <1>9 DEF Tick, EditFact
<1> QED
  BY <1>3, <1>4, <1>5, <1>6, <1>7, <1>8, <1>9 DEF Next

(* While no cancellation hits a COMMIT, no erased value stays in the         *)
(* write-ahead log unnoticed (candidates.py:224-244), for any number of      *)
(* coroutines, crashes, restarts and failing checkpoints.  The run           *)
(* cs_commit_cancelled shows that the condition cannot be dropped.           *)
THEOREM NoForgottenScrub ==
  ASSUME ~CommitCancel
  PROVE  Spec => []ScrubIsOwed
<1>1. Init => ScrubIsOwed
  BY DEF Init, ScrubIsOwed
<1>2. TInv /\ ScrubIsOwed /\ [Next]_vars => ScrubIsOwed'
  <2>1. ASSUME ScrubIsOwed, UNCHANGED vars PROVE ScrubIsOwed'
    BY <2>1 DEF vars, ScrubIsOwed
  <2> QED
    BY <2>1, ScrubStep
<1> QED
  BY <1>1, <1>2, TInvariant, PTL DEF Spec

-----------------------------------------------------------------------------
(* Confirmation. *)

\* Everything but a promotion leaves no new "confirmed" behind.
LEMMA NothingConfirmed ==
  ASSUME TInv, NEW now \in Nat, NEW c \in CandId
  PROVE  /\ \A rows : Ages(rows) /\ table[c].status # "confirmed" => rows[c].status # "confirmed"
         /\ \A d \in CandId : \A row :
              /\ row.status # "confirmed" \/ c # d
              /\ table[c].status # "confirmed"
              => [Kept(now) EXCEPT ![d] = row][c].status # "confirmed"
<1>1. \A rows : Ages(rows) /\ table[c].status # "confirmed" => rows[c].status # "confirmed"
  BY DEF Ages, Aged, LiveStatus
<1>2. Ages(Kept(now)) /\ Kept(now) \in [CandId -> Row]
  BY KeptAges
<1> QED
  BY <1>1, <1>2

\* A step that confirms c, from the offer of c.
Confirms(c) == table[c].status # "confirmed" /\ table'[c].status = "confirmed"

LEMMA ConfirmedStep ==
  ASSUME TInv, Next, NEW c \in CandId, Confirms(c)
  PROVE  /\ table[c].status = "offered"
         /\ table[c].claim \in facts'[table[c].subject]
         /\ facts[table[c].subject] \cap Opposite[table[c].claim] = {}
<1> USE DEF Confirms
<1>1. Now \subseteq Nat
  BY DEF Now, TInv, TypeOK
<1>2. ASSUME NEW rows, Ages(rows), table' = rows PROVE FALSE
  BY <1>2, NothingConfirmed
<1>3. ASSUME NEW now \in Nat, table' = Kept(now) PROVE FALSE
  BY <1>2, <1>3, KeptAges
<1>4. ASSUME NEW now \in Nat, NEW d \in CandId, NEW row, row.status # "confirmed" \/ c # d,
             table' = [Kept(now) EXCEPT ![d] = row]
      PROVE  FALSE
  BY <1>4, NothingConfirmed
<1>5. ASSUME NEW now \in Nat, NEW d \in CandId, NEW p \in Person,
             \/ \E k \in Claim : Inserts(d, p, k, now)
             \/ Offers(d, p, now)
             \/ Resolves(d, p, "rejected", now)
      PROVE  FALSE
  <2>1. RowOK(Kept(now)[d])
    BY KeptAges DEF Ages, TableOK
  <2>2. CASE \E k \in Claim : Inserts(d, p, k, now)
    <3>1. PICK k \in Claim : table' = [Kept(now) EXCEPT ![d] = Proposed(p, k, now)]
      BY <2>2 DEF Inserts
    <3> QED
      BY <1>4, <3>1, ProposedRow
  <2>3. CASE Offers(d, p, now)
    <3>1. table' = [Kept(now) EXCEPT ![d] = OfferedRow(Kept(now)[d], now)]
      BY <2>3, OneRow
    <3>2. Kept(now)[d].status = "proposed" /\ Kept(now)[d].offers < MaxOffers
      BY <2>3 DEF Offers
    <3>3. OfferedRow(Kept(now)[d], now).status = "offered"
      BY <2>1, <3>2, OfferedRowOK
    <3> QED
      BY <1>4, <3>1, <3>3
  <2>4. CASE Resolves(d, p, "rejected", now)
    <3>1. /\ table' = [Kept(now) EXCEPT ![d] = Resolved(Kept(now)[d], "rejected")]
          /\ Resolved(Kept(now)[d], "rejected").status = "rejected"
      BY <2>1, <2>4, OneRow, ResolvedRow DEF FinalStatus
    <3> QED
      BY <1>4, <3>1
  <2> QED
    BY <1>5, <2>2, <2>3, <2>4
<1>6. UNCHANGED table => FALSE
  OBVIOUS
<1>7. ASSUME NEW t \in Task, NEW now \in Now, NEW p \in Person, NEW d \in CandId,
             Promote(t, d, p, now)
      PROVE  /\ table[c].status = "offered"
             /\ table[c].claim \in facts'[table[c].subject]
             /\ facts[table[c].subject] \cap Opposite[table[c].claim] = {}
  <2>1. now \in Nat
    BY <1>1
  <2>2. /\ table' = [Kept(now) EXCEPT ![d] = Resolved(@, "confirmed")]
        /\ Answerable(Kept(now), d, p)
        /\ facts[p] \cap Opposite[Kept(now)[d].claim] = {}
        /\ facts' = [facts EXCEPT ![p] = @ \cup {Kept(now)[d].claim}]
    <3>1. table' # Kept(now)
      BY <1>3, <2>1
    <3>2. ~(Answerable(Kept(now), d, p)
            /\ table' = [Kept(now) EXCEPT ![d] = Resolved(@, "rejected")])
      BY <1>5, <2>1 DEF Resolves
    <3> QED
      BY <1>7, <3>1, <3>2 DEF Promote, Commits, Kept
  <2>3. c = d
    BY <1>4, <2>1, <2>2
  <2>4. Kept(now)[c] = table[c]
    BY <2>1, <2>2, <2>3, KeptAges DEF Answerable, Ages
  <2>5. facts \in [Person -> SUBSET Claim]
    BY DEF TInv, TypeOK
  <2> QED
    BY <2>2, <2>3, <2>4, <2>5 DEF Answerable
<1>8. ASSUME NEW t \in Task, NEW now \in Now, NEW p \in Person, NEW k \in Claim,
             Insert(t, p, k, now)
      PROVE  FALSE
  BY <1>1, <1>3, <1>5, <1>8, ZenonT(60) DEF Insert, Commits, Inserts, Kept
<1>9. ASSUME NEW t \in Task, NEW now \in Now, NEW p \in Person, NEW d \in CandId,
             MarkOffered(t, d, p, now) \/ Reject(t, d, p, now)
      PROVE  FALSE
  BY <1>1, <1>3, <1>5, <1>9 DEF MarkOffered, Reject, Commits, Offers, Resolves, Kept
<1>10. ASSUME RetentionRun PROVE FALSE
  BY <1>3, <1>10 DEF RetentionRun, Commits, Kept, TInv, TypeOK
<1>11. ASSUME NEW on \in BOOLEAN, Reconcile(on) PROVE FALSE
  BY <1>2, <1>6, <1>11, ReconcileAges
<1>12. ASSUME (\E t \in Task : Checkpoint(t)) \/ Tick \/ Stop
              \/ (\E truncated \in BOOLEAN : Serve(truncated))
              \/ (\E p \in Person, k \in Edited : EditFact(p, k))
       PROVE FALSE
  BY <1>6, <1>12 DEF Checkpoint, StartCheckpoint, SkipCheckpoint, EndCheckpoint,
                     CheckpointRaised, Tick, Stop, Serve, EditFact
<1> QED
  BY <1>7, <1>8, <1>9, <1>10, <1>11, <1>12 DEF Next, Entry

(* A candidate becomes confirmed only in the step that makes its claim an    *)
(* active fact of its own subject, from an offer that was open until then,   *)
(* and never against an opposite fact (memory_writer.py:180-245).            *)
THEOREM ConfirmedFact == Spec => ConfirmedIsFact
<1> DEFINE Goal == \A c \in CandId : Confirms(c) =>
         /\ table[c].status = "offered"
         /\ table[c].claim \in facts'[table[c].subject]
         /\ facts[table[c].subject] \cap Opposite[table[c].claim] = {}
<1>1. TInv /\ [Next]_vars => Goal
  <2> SUFFICES ASSUME TInv, Next PROVE Goal
    BY DEF vars, Confirms
  <2> QED
    BY ConfirmedStep
<1> QED
  BY <1>1, TInvariant, PTL DEF Spec, ConfirmedIsFact, Confirms
-----------------------------------------------------------------------------
LEMMA StartsStep ==
  ASSUME TInv, StartsClean, [Next]_vars
  PROVE  StartsClean'
<1>1. CASE UNCHANGED <<phase, enabled, table>>
  BY <1>1 DEF StartsClean, Live
<1>2. ASSUME NEW on \in BOOLEAN, Reconcile(on) PROVE StartsClean'
  <2>1. \A c \in CandId : table'[c].status # "offered"
    BY <1>2, ReconcileAges
  <2>2. CASE on
    BY <1>2, <2>1, <2>2 DEF StartsClean, Reconcile
  <2>3. CASE ~on
    <3>1. table' = Voided(table)
      BY <1>2, <2>3 DEF Reconcile
    <3>2. \A c \in CandId : ~Live(table'[c])
      BY <3>1, VoidedRow DEF TInv, TableOK
    <3> QED
      BY <2>1, <3>2 DEF StartsClean, Live
  <2> QED
    BY <2>2, <2>3
<1>3. ASSUME NEW truncated \in BOOLEAN, Serve(truncated) PROVE StartsClean'
  BY <1>3 DEF Serve, StartsClean, Live
<1>4. CASE Stop
  BY <1>4 DEF Stop, StartsClean
<1>5. CASE RetentionRun
  <2>1. clock \in Nat
    BY DEF TInv, TypeOK
  <2>2. Ages(Kept(clock)) /\ table' = Kept(clock)
    BY <1>5, <2>1, KeptAges DEF RetentionRun, Commits, Kept
  <2>3. phase' = "up" /\ phase = "up" /\ enabled' = enabled
    BY <1>5 DEF RetentionRun, Commits
  <2>4. CASE enabled
    BY <2>3, <2>4 DEF StartsClean
  <2>5. CASE ~enabled
    <3>1. \A c \in CandId : table'[c] = table[c]
      BY <2>2, <2>3, <2>5 DEF StartsClean, Ages, Aged
    <3> QED
      BY <2>3, <2>5, <3>1 DEF StartsClean, Live
  <2> QED
    BY <2>4, <2>5
<1>6. ASSUME NEW t \in Task, NEW now \in Now, Entry(t, now) PROVE StartsClean'
  <2>1. phase = "up" /\ enabled /\ phase' = phase /\ enabled' = enabled
    BY <1>6, ZenonT(60) DEF Entry, Insert, MarkOffered, Reject, Promote, Enters, Commits
  <2> QED
    BY <2>1 DEF StartsClean
<1>7. ASSUME NEW t \in Task, Checkpoint(t) PROVE UNCHANGED <<phase, enabled, table>>
  BY <1>7 DEF Checkpoint, StartCheckpoint, SkipCheckpoint, EndCheckpoint, CheckpointRaised
<1>8. Tick \/ (\E p \in Person, k \in Edited : EditFact(p, k)) \/ UNCHANGED vars
      => UNCHANGED <<phase, enabled, table>>
  BY DEF Tick, EditFact, vars
<1> QED
  BY <1>1, <1>2, <1>3, <1>4, <1>5, <1>6, <1>7, <1>8 DEF Next

(* Before the first request no offer of an earlier process is open, and a   *)
(* process started with the switch off holds no value at all                *)
(* (candidates.py:693-721, main.py:132).                                    *)
THEOREM StartsWithoutOffers == Spec => []StartsClean
<1>1. Init => StartsClean
  BY DEF Init, StartsClean
<1>2. TInv /\ StartsClean /\ [Next]_vars => StartsClean'
  BY StartsStep
<1> QED
  BY <1>1, <1>2, TInvariant, PTL DEF Spec
-----------------------------------------------------------------------------
(* Lapsing.  That every live candidate is resolved is liveness and stays    *)
(* with the model checker; that nothing puts it off is safety.              *)

(* A value is stored with a deadline at most Ttl ahead; no offer, reopening, *)
(* late transaction or restart moves the deadline or changes the value; and  *)
(* what the retention job and the start-up leave is not past its own.        *)
ValuesLapse ==
  [][\A c \in CandId :
       Live(table'[c]) =>
         /\ ~Live(table[c]) => table'[c].expiresAt <= clock + Ttl
         /\ Live(table[c]) => /\ table'[c].expiresAt = table[c].expiresAt
                              /\ table'[c].subject = table[c].subject
                              /\ table'[c].claim = table[c].claim
         /\ RetentionRun \/ (\E on \in BOOLEAN : Reconcile(on)) => table'[c].expiresAt > clock]_vars

\* A row that stays live keeps its value and its deadline; none comes to life.
Outlives(old, new) ==
  Live(new) => /\ Live(old) /\ new.expiresAt = old.expiresAt
               /\ new.subject = old.subject /\ new.claim = old.claim

LEMMA ExpiredRow ==
  ASSUME NEW row, RowOK(row), NEW mid \in {row, Reopened(row)}, NEW now \in Nat,
         mid = row \/ row.status = "offered"
  PROVE  LET new == IF Lapsed(mid, now) THEN Resolved(mid, "expired") ELSE mid
         IN  Outlives(row, new) /\ (Live(new) => new.expiresAt > now)
<1> DEFINE new == IF Lapsed(mid, now) THEN Resolved(mid, "expired") ELSE mid
<1>1. /\ RowOK(mid) /\ mid.expiresAt = row.expiresAt
      /\ mid.subject = row.subject /\ mid.claim = row.claim
      /\ Live(mid) => Live(row)
  <2>1. CASE mid = row
    BY <2>1
  <2>2. CASE mid = Reopened(row) /\ row.status = "offered"
    <3>1. mid.expiresAt = row.expiresAt
      BY <2>2 DEF Reopened, RowOK, Row
    <3> QED
      BY <2>2, <3>1, ReopenedRow DEF Live, LiveStatus
  <2> QED
    BY <2>1, <2>2
<1>2. CASE Lapsed(mid, now)
  <2>1. ~Live(new)
    BY <1>1, <1>2, ResolvedRow DEF FinalStatus
  <2> QED
    BY <2>1 DEF Outlives
<1>3. CASE ~Lapsed(mid, now)
  <2>1. new = mid /\ mid.expiresAt \in Nat
    BY <1>1, <1>3 DEF RowOK, Row
  <2>2. Live(mid) => mid.expiresAt > now
    BY <1>3, <2>1 DEF Lapsed
  <2> QED
    BY <1>1, <2>1, <2>2 DEF Outlives
<1> QED
  BY <1>2, <1>3

LEMMA KeptOutlives ==
  ASSUME TInv, NEW now \in Nat, NEW c \in CandId
  PROVE  /\ Outlives(table[c], Kept(now)[c])
         /\ Live(Kept(now)[c]) => Kept(now)[c].expiresAt > now
<1> DEFINE mid == IF Unanswered(table[c], now) THEN Reopened(table[c]) ELSE table[c]
<1>1. Kept(now)[c] = IF Lapsed(mid, now) THEN Resolved(mid, "expired") ELSE mid
  BY DEF Kept, Housekept, ExpireLapsed
<1>2. RowOK(table[c]) /\ mid \in {table[c], Reopened(table[c])}
      /\ (mid = table[c] \/ table[c].status = "offered")
  BY DEF TInv, TableOK, Unanswered
<1> HIDE DEF mid
<1> QED
  BY <1>1, <1>2, ExpiredRow

LEMMA ReconcileOutlives ==
  ASSUME TInv, NEW on \in BOOLEAN, Reconcile(on), NEW c \in CandId
  PROVE  /\ Outlives(table[c], table'[c])
         /\ Live(table'[c]) => table'[c].expiresAt > clock
<1>0. RowOK(table[c]) /\ table \in [CandId -> Row] /\ clock \in Nat
  BY DEF TInv, TypeOK, TableOK
<1>1. CASE on
  <2> DEFINE mid == IF table[c].status = "offered" THEN Reopened(table[c]) ELSE table[c]
  <2>1. table'[c] = IF Lapsed(mid, clock) THEN Resolved(mid, "expired") ELSE mid
    BY <1>1 DEF Reconcile, ExpireLapsed
  <2>2. mid \in {table[c], Reopened(table[c])} /\ (mid = table[c] \/ table[c].status = "offered")
    OBVIOUS
  <2> HIDE DEF mid
  <2> QED
    BY <1>0, <2>1, <2>2, ExpiredRow
<1>2. CASE ~on
  <2>1. table' = Voided(table)
    BY <1>2 DEF Reconcile
  <2>2. ~Live(table'[c])
    BY <1>0, <2>1, VoidedRow
  <2> QED
    BY <2>2 DEF Outlives
<1> QED
  BY <1>1, <1>2

\* One row is written, on top of the housekeeping.
LEMMA OneRowOutlives ==
  ASSUME TInv, NEW now \in Nat, NEW c \in CandId, NEW d \in CandId, NEW row,
         table' = [Kept(now) EXCEPT ![d] = row],
         c = d => Outlives(Kept(now)[c], row)
  PROVE  Outlives(table[c], table'[c])
<1>1. Kept(now) \in [CandId -> Row] /\ Outlives(table[c], Kept(now)[c])
  BY KeptAges, KeptOutlives
<1>2. table'[c] = IF c = d THEN row ELSE Kept(now)[c]
  BY <1>1
<1> QED
  BY <1>1, <1>2 DEF Outlives

LEMMA EntryOutlives ==
  ASSUME TInv, NEW t \in Task, NEW now \in Now, Entry(t, now), NEW c \in CandId
  PROVE  \/ Outlives(table[c], table'[c])
         \/ ~Live(table[c]) /\ table'[c].expiresAt = now + Ttl
<1>0. now \in Nat /\ Kept(now) \in [CandId -> Row] /\ \A d \in CandId : RowOK(Kept(now)[d])
  BY KeptAges DEF TInv, TypeOK, Now, Ages, TableOK
<1>1. ASSUME table' = Kept(now) PROVE Outlives(table[c], table'[c])
  BY <1>0, <1>1, KeptOutlives
<1>2. ASSUME NEW p \in Person, NEW k \in Claim, Insert(t, p, k, now)
      PROVE  \/ Outlives(table[c], table'[c])
             \/ ~Live(table[c]) /\ table'[c].expiresAt = now + Ttl
  <2>1. CASE table' = Kept(now)
    BY <1>1, <2>1
  <2>2. ASSUME NEW d \in CandId, Kept(now)[d] = NoRow,
               table' = [Kept(now) EXCEPT ![d] = Proposed(p, k, now)]
        PROVE  \/ Outlives(table[c], table'[c])
               \/ ~Live(table[c]) /\ table'[c].expiresAt = now + Ttl
    <3>1. CASE c # d
      BY <1>0, <2>2, <3>1, OneRowOutlives
    <3>2. CASE c = d
      <4>1. table'[c].expiresAt = now + Ttl
        BY <1>0, <2>2, <3>2 DEF Proposed
      <4>2. ~Live(table[c])
        <5>1. Kept(now)[c].subject = Nobody /\ Aged(table[c], Kept(now)[c])
          BY <2>2, <3>2, KeptAges, <1>0 DEF NoRow, Ages
        <5>2. Kept(now)[c].status = "absent"
          BY <2>2, <3>2 DEF NoRow
        <5> QED
          BY <5>1, <5>2 DEF Aged, Live, LiveStatus
      <4> QED
        BY <4>1, <4>2
    <3> QED
      BY <3>1, <3>2
  <2> QED
    BY <1>2, <2>1, <2>2 DEF Insert, Commits, Kept
<1>3. ASSUME NEW d \in CandId, NEW p \in Person, MarkOffered(t, d, p, now)
      PROVE  Outlives(table[c], table'[c])
  <2>1. CASE table' = Kept(now)
    BY <1>1, <2>1
  <2>2. CASE Offers(d, p, now)
    <3>1. table' = [Kept(now) EXCEPT ![d] = OfferedRow(Kept(now)[d], now)]
      BY <1>0, <2>2, OneRow
    <3>2. c = d => Outlives(Kept(now)[c], OfferedRow(Kept(now)[d], now))
      <4> SUFFICES ASSUME c = d PROVE Outlives(Kept(now)[c], OfferedRow(Kept(now)[c], now))
        OBVIOUS
      <4> DEFINE row == Kept(now)[c]
      <4>1. row \in Row /\ row.status = "proposed"
        BY <1>0, <2>2 DEF Offers
      <4>2. /\ OfferedRow(row, now).expiresAt = row.expiresAt
            /\ OfferedRow(row, now).subject = row.subject
            /\ OfferedRow(row, now).claim = row.claim
        BY <4>1 DEF OfferedRow, Row
      <4> QED
        BY <4>1, <4>2 DEF Outlives, Live, LiveStatus
    <3> QED
      BY <1>0, <3>1, <3>2, OneRowOutlives
  <2> QED
    BY <1>3, <2>1, <2>2 DEF MarkOffered, Commits, Offers, Kept
<1>4. ASSUME NEW d \in CandId, NEW to \in FinalStatus,
             table' = [Kept(now) EXCEPT ![d] = Resolved(Kept(now)[d], to)]
      PROVE  Outlives(table[c], table'[c])
  <2>1. ~Live(Resolved(Kept(now)[d], to))
    BY <1>0, ResolvedRow
  <2> QED
    BY <1>0, <1>4, <2>1, OneRowOutlives DEF Outlives
<1>5. ASSUME NEW d \in CandId, NEW p \in Person, Reject(t, d, p, now)
      PROVE  Outlives(table[c], table'[c])
  <2>1. \/ table' = Kept(now)
        \/ table' = [Kept(now) EXCEPT ![d] = Resolved(Kept(now)[d], "rejected")]
    BY <1>5 DEF Reject, Commits, Kept
  <2> QED
    BY <1>1, <1>4, <2>1 DEF FinalStatus
<1>6. ASSUME NEW d \in CandId, NEW p \in Person, Promote(t, d, p, now)
      PROVE  Outlives(table[c], table'[c])
  <2>1. \/ table' = Kept(now)
        \/ \E to \in {"rejected", "confirmed"} :
             table' = [Kept(now) EXCEPT ![d] = Resolved(Kept(now)[d], to)]
    BY <1>6 DEF Promote, Commits, Kept
  <2> QED
    BY <1>1, <1>4, <2>1 DEF FinalStatus
<1> QED
  BY <1>2, <1>3, <1>5, <1>6 DEF Entry

Lapses(c) ==
  Live(table'[c]) =>
    /\ ~Live(table[c]) => table'[c].expiresAt <= clock + Ttl
    /\ Live(table[c]) => /\ table'[c].expiresAt = table[c].expiresAt
                         /\ table'[c].subject = table[c].subject
                         /\ table'[c].claim = table[c].claim
    /\ RetentionRun \/ (\E on \in BOOLEAN : Reconcile(on)) => table'[c].expiresAt > clock

LEMMA LapsesStep ==
  ASSUME TInv, Next, NEW c \in CandId
  PROVE  Lapses(c)
<1>0. clock \in Nat /\ Ttl \in Nat
  BY ConstantsAssumption DEF TInv, TypeOK
<1>1. \/ Outlives(table[c], table'[c])
      \/ ~Live(table[c]) /\ \E now \in Now : table'[c].expiresAt = now + Ttl
  <2>1. ASSUME UNCHANGED table PROVE Outlives(table[c], table'[c])
    BY <2>1 DEF Outlives
  <2>2. ASSUME RetentionRun PROVE Outlives(table[c], table'[c])
    BY <1>0, <2>2, KeptOutlives DEF RetentionRun, Commits, Kept
  <2>3. ASSUME NEW on \in BOOLEAN, Reconcile(on) PROVE Outlives(table[c], table'[c])
    BY <2>3, ReconcileOutlives
  <2>4. ASSUME NEW t \in Task, Checkpoint(t) PROVE UNCHANGED table
    BY <2>4 DEF Checkpoint, StartCheckpoint, SkipCheckpoint, EndCheckpoint, CheckpointRaised
  <2>5. ASSUME Tick \/ Stop \/ (\E truncated \in BOOLEAN : Serve(truncated))
               \/ (\E p \in Person, k \in Edited : EditFact(p, k))
        PROVE  UNCHANGED table
    BY <2>5 DEF Tick, Stop, Serve, EditFact
  <2>6. ASSUME NEW t \in Task, NEW now \in Now, Entry(t, now)
        PROVE  \/ Outlives(table[c], table'[c])
               \/ ~Live(table[c]) /\ table'[c].expiresAt = now + Ttl
    BY <2>6, EntryOutlives
  <2> QED
    BY <2>1, <2>2, <2>3, <2>4, <2>5, <2>6 DEF Next
<1>2. ASSUME RetentionRun, Live(table'[c]) PROVE table'[c].expiresAt > clock
  BY <1>0, <1>2, KeptOutlives DEF RetentionRun, Commits, Kept
<1>3. ASSUME NEW on \in BOOLEAN, Reconcile(on), Live(table'[c]) PROVE table'[c].expiresAt > clock
  BY <1>3, ReconcileOutlives
<1>4. \A now \in Now : now + Ttl <= clock + Ttl
  BY <1>0 DEF Now
<1> QED
  BY <1>1, <1>2, <1>3, <1>4 DEF Outlives, Lapses

(* Every value the owner said and did not confirm has a deadline that no     *)
(* later step puts off, and is gone after the first retention run or start   *)
(* that comes after it (candidates.py run_housekeeping, reset_for_startup;   *)
(* retention.py).                                                            *)
THEOREM NothingIsPutOff == Spec => ValuesLapse
<1>1. TInv /\ [Next]_vars => [\A c \in CandId : Lapses(c)]_vars
  BY LapsesStep
<1>2. []TInv /\ [][Next]_vars => [][\A c \in CandId : Lapses(c)]_vars
  BY <1>1, PTL
<1>3. ValuesLapse <=> [][\A c \in CandId : Lapses(c)]_vars
  BY DEF ValuesLapse, Lapses
<1> QED
  BY <1>2, <1>3, TInvariant, PTL DEF Spec
=============================================================================
