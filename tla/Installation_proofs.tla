---------------------- MODULE Installation_proofs ----------------------
(***************************************************************************)
(* Of an installation, for every household, every set of seed files and    *)
(* every order of the tools: a repeated load is harmless, an imported row  *)
(* appears only with the record that names its file, and the rows of the   *)
(* store stay consistent and about entities that exist.                    *)
(*                                                                         *)
(* The argument is about the transaction of a load.  While it runs nobody  *)
(* else writes, so what is true of its rows when they are committed can be *)
(* followed write by write: what a write did is still done after each of   *)
(* the following writes (the lemmas ...Stays below).  First what one call  *)
(* of the canonical writer promises, for any store, any names, any row and *)
(* both conflict policies.                                                 *)
(***************************************************************************)
EXTENDS Installation, TLAPS

-----------------------------------------------------------------------------
(* Relations. *)

\* The active relations after an assertion are the old ones and the new row.
LEMMA AssertedRelations ==
  ASSUME NEW s \in Stores, NEW row \in RelationRows
  PROVE  /\ Active(AssertRelation(s, row).relations) \subseteq Active(s.relations) \cup {row}
         /\ AssertRelation(s, row).contacts = s.contacts
<1>1. CASE Between(s, row.from, row.pred, row.to) # {}
  BY <1>1 DEF AssertRelation
<1>2. CASE Between(s, row.from, row.pred, row.to) = {}
  <2> DEFINE old == IF row.pred \in TemporalPredicates
                    THEN {r \in Active(s.relations) : r.from = row.from /\ r.pred = row.pred}
                    ELSE {}
             new == (s.relations \ old) \cup {Superseded(r) : r \in old} \cup {row}
  <2>1. AssertRelation(s, row) = [s EXCEPT !.relations = new]
    BY <1>2 DEF AssertRelation, InsertRelation
  <2>2. AssertRelation(s, row).relations = new /\ AssertRelation(s, row).contacts = s.contacts
    BY <2>1 DEF Stores
  <2>3. \A r \in old : Superseded(r).life # "active"
    BY DEF Superseded, Stores, RelationRows, Active
  <2>4. Active(new) \subseteq Active(s.relations) \cup {row}
    BY <2>3 DEF Active
  <2> QED
    BY <2>2, <2>4
<1> QED
  BY <1>1, <1>2

\* A relation that holds after an assertion held before, or is the new row's.
LEMMA AssertedPair ==
  ASSUME NEW s \in Stores, NEW row \in RelationRows, NEW a, NEW pred, NEW b,
         Related(AssertRelation(s, row), a, pred, b)
  PROVE  \/ Related(s, a, pred, b)
         \/ /\ row.pred = pred
            /\ \/ row.from = a /\ row.to = b
               \/ pred \in Symmetric /\ row.from = b /\ row.to = a
BY AssertedRelations DEF Related, Between

LEMMA AssertedBetween ==
  ASSUME NEW s \in Stores, NEW row \in RelationRows, NEW a, NEW pred, NEW b,
         Between(AssertRelation(s, row), a, pred, b) # {}
  PROVE  Between(s, a, pred, b) # {} \/ (row.pred = pred /\ row.from = a /\ row.to = b)
BY AssertedRelations DEF Between

\* The two ends of the row that a relation is stored as.
LEMMA StoredEnds ==
  ASSUME NEW from, NEW pred, NEW to, NEW class, NEW chan
  PROVE  LET row == RelationRow(from, pred, to, class, chan)
         IN  /\ row.pred = pred
             /\ \/ row.from = from /\ row.to = to
                \/ pred \in Symmetric /\ to = Owner /\ row.from = to /\ row.to = from
BY DEF RelationRow, Stored

LEMMA RelationRowType ==
  ASSUME NEW from \in Names, NEW pred \in Relations, NEW to \in Names, NEW chan \in Channels
  PROVE  RelationRow(from, pred, to, RelationClass(from, pred), chan) \in RelationRows
<1>1. Sensitivity(pred) \in Sensitivities
  BY DEF Sensitivity, Sensitivities
<1>2. /\ RelationClass(from, pred).vis \in Visibilities
      /\ RelationClass(from, pred).sens \in Sensitivities
  BY <1>1 DEF RelationClass, SubjectClass, Visibilities, Sensitivities
<1>3. Stored(from, pred, to).from \in Names /\ Stored(from, pred, to).to \in Names
  BY DEF Stored
<1> QED
  BY <1>2, <1>3 DEF RelationRow, RelationRows, Life

\* What the new row of an accepted relation makes of a person, and what that
\* person was not before.
LEMMA AcceptedMembership ==
  ASSUME NEW s, NEW from, NEW pred \in MembershipPredicates, NEW to,
         ~RelationRefused(s, from, pred, to)
  PROVE  LET other == IF pred \in Symmetric /\ from = Owner THEN to ELSE from
         IN  /\ from # to
             /\ IF pred \in Symmetric THEN from = Owner \/ to = Owner ELSE to = Owner
             /\ \/ Related(s, from, pred, to)
                \/ /\ ~IsRelative(s, other)
                   /\ pred \in Symmetric => ~HasMembershipRow(s, other)
                   /\ pred \notin Symmetric => ~IsPartner(s, other)
BY DEF RelationRefused, MembershipRefused, HoldsRelativeRole, ActiveRepeat


\* An accepted relative is a relative of the owner who was no member and no partner.
LEMMA AcceptedRelative ==
  ASSUME NEW s, NEW from, NEW pred \in RelativePredicates, NEW to,
         ~RelationRefused(s, from, pred, to)
  PROVE  from = Owner /\ ~HasMembershipRow(s, to) /\ ~IsPartner(s, to)
BY DEF RelationRefused, RelativeRefused, SubjectRefused, OwnerOnly, PoolRelations,
       RelativePredicates

\* What an accepted relation changes in who one person is to the owner.
LEMMA RolesAfter ==
  ASSUME NEW s \in Stores, NEW from \in Names, NEW pred \in Relations, NEW to \in Names,
         NEW chan \in Channels, NEW who, from # to,
         ~RelationRefused(s, from, pred, to)
  PROVE  LET t == AssertRelation(s, RelationRow(from, pred, to, RelationClass(from, pred), chan))
         IN  /\ HasMembershipRow(t, who) =>
                  HasMembershipRow(s, who) \/ (pred \in {"child_of", "pet_of"} /\ from = who /\ to = Owner)
             /\ IsPartner(t, who) =>
                  IsPartner(s, who) \/ (pred = "partner_of" /\ {from, to} = {who, Owner})
             /\ IsRelative(t, who) =>
                  IsRelative(s, who) \/ (pred \in RelativePredicates /\ from = Owner /\ to = who)
<1> DEFINE row == RelationRow(from, pred, to, RelationClass(from, pred), chan)
           t == AssertRelation(s, row)
<1>1. row \in RelationRows
  BY RelationRowType
<1>2. /\ row.pred = pred
      /\ \/ row.from = from /\ row.to = to
         \/ pred \in Symmetric /\ to = Owner /\ row.from = to /\ row.to = from
  BY StoredEnds
<1>3. HasMembershipRow(t, who) =>
        HasMembershipRow(s, who) \/ (pred \in {"child_of", "pet_of"} /\ from = who /\ to = Owner)
  <2> SUFFICES ASSUME NEW p \in {"child_of", "pet_of"}, Between(t, who, p, Owner) # {}
               PROVE  \/ HasMembershipRow(s, who)
                      \/ pred \in {"child_of", "pet_of"} /\ from = who /\ to = Owner
    BY DEF HasMembershipRow
  <2>1. Between(s, who, p, Owner) # {} \/ (row.pred = p /\ row.from = who /\ row.to = Owner)
    BY <1>1, AssertedBetween
  <2> QED
    BY <2>1, <1>2 DEF HasMembershipRow, Symmetric
<1>4. IsPartner(t, who) =>
        IsPartner(s, who) \/ (pred = "partner_of" /\ {from, to} = {who, Owner})
  <2> SUFFICES ASSUME Related(t, who, "partner_of", Owner)
               PROVE  IsPartner(s, who) \/ (pred = "partner_of" /\ {from, to} = {who, Owner})
    BY DEF IsPartner
  <2>1. \/ Related(s, who, "partner_of", Owner)
        \/ /\ row.pred = "partner_of"
           /\ \/ row.from = who /\ row.to = Owner
              \/ "partner_of" \in Symmetric /\ row.from = Owner /\ row.to = who
    BY <1>1, AssertedPair
  <2> QED
    BY <2>1, <1>2 DEF IsPartner
<1>5. IsRelative(t, who) =>
        IsRelative(s, who) \/ (pred \in RelativePredicates /\ from = Owner /\ to = who)
  <2> SUFFICES ASSUME NEW p \in RelativePredicates, Related(t, Owner, p, who)
               PROVE  IsRelative(s, who) \/ (pred \in RelativePredicates /\ from = Owner /\ to = who)
    BY DEF IsRelative
  <2>1. \/ Related(s, Owner, p, who)
        \/ /\ row.pred = p
           /\ \/ row.from = Owner /\ row.to = who
              \/ p \in Symmetric /\ row.from = who /\ row.to = Owner
    BY <1>1, AssertedPair
  <2>2. pred = p => from = Owner /\ to # Owner
    BY AcceptedRelative
  <2> QED
    BY <2>1, <2>2, <1>2 DEF IsRelative
<1> QED
  BY <1>3, <1>4, <1>5

\* The writer gives nobody a second role: whoever was at most one of member,
\* partner and relative of the owner is at most one after any relation it is
\* asked to write (_membership_refusal, _classify_relative).
THEOREM RelationsKeepOneRole ==
  ASSUME NEW s \in Stores, NEW from \in Names, NEW pred \in Relations, NEW to \in Names,
         NEW chan \in Channels, NEW policy, NEW who, OneRole(s, who)
  PROVE  OneRole(WriteRelation(s, from, pred, to, chan, policy).store, who)
<1> DEFINE row == RelationRow(from, pred, to, RelationClass(from, pred), chan)
           t == AssertRelation(s, row)
<1>1. CASE WriteRelation(s, from, pred, to, chan, policy) = Refused(s)
  BY <1>1 DEF Refused
<1>2. CASE WriteRelation(s, from, pred, to, chan, policy) # Refused(s)
  <2>1. /\ ~RelationRefused(s, from, pred, to)
        /\ from # to
        /\ WriteRelation(s, from, pred, to, chan, policy) = Accepted(t)
    BY <1>2 DEF WriteRelation, EndsRefused
  <2> SUFFICES OneRole(t, who)
    BY <2>1 DEF Accepted
  <2>2. /\ HasMembershipRow(t, who) =>
             HasMembershipRow(s, who) \/ (pred \in {"child_of", "pet_of"} /\ from = who /\ to = Owner)
        /\ IsPartner(t, who) =>
             IsPartner(s, who) \/ (pred = "partner_of" /\ {from, to} = {who, Owner})
        /\ IsRelative(t, who) =>
             IsRelative(s, who) \/ (pred \in RelativePredicates /\ from = Owner /\ to = who)
    BY <2>1, RolesAfter
  <2>3. CASE pred \in {"child_of", "pet_of"} /\ from = who /\ to = Owner
    <3>1. pred \in MembershipPredicates /\ pred \notin Symmetric /\ pred \notin RelativePredicates
          /\ pred # "partner_of"
      BY <2>3 DEF MembershipPredicates, Symmetric, RelativePredicates
    <3>2. \/ Related(s, from, pred, to)
          \/ ~IsRelative(s, from) /\ ~IsPartner(s, from)
      BY <2>1, <3>1, AcceptedMembership
    <3>3. Related(s, from, pred, to) => HasMembershipRow(s, who)
      BY <2>3, <3>1 DEF Related, HasMembershipRow
    <3> QED
      BY <2>2, <2>3, <3>1, <3>2, <3>3 DEF OneRole
  <2>4. CASE pred = "partner_of" /\ {from, to} = {who, Owner}
    <3>1. pred \in MembershipPredicates /\ pred \in Symmetric /\ pred \notin RelativePredicates
          /\ pred \notin {"child_of", "pet_of"}
      BY <2>4 DEF MembershipPredicates, Symmetric, RelativePredicates
    <3>2. (IF from = Owner THEN to ELSE from) = who
      BY <2>1, <2>4
    <3>3. Related(s, from, pred, to) \/ (~IsRelative(s, who) /\ ~HasMembershipRow(s, who))
      BY <2>1, <3>1, <3>2, AcceptedMembership
    <3>4. Related(s, from, pred, to) => IsPartner(s, who)
      BY <2>1, <2>4, <3>1 DEF Related, IsPartner
    <3> QED
      BY <2>2, <3>1, <3>3, <3>4 DEF OneRole
  <2>5. CASE pred \in RelativePredicates /\ from = Owner /\ to = who
    <3>1. ~HasMembershipRow(s, who) /\ ~IsPartner(s, who)
      BY <2>1, <2>5, AcceptedRelative
    <3>2. pred # "partner_of" /\ pred \notin {"child_of", "pet_of"}
      BY <2>5 DEF RelativePredicates
    <3> QED
      BY <2>2, <3>1, <3>2 DEF OneRole
  <2>6. CASE /\ ~(pred \in {"child_of", "pet_of"} /\ from = who /\ to = Owner)
             /\ ~(pred = "partner_of" /\ {from, to} = {who, Owner})
             /\ ~(pred \in RelativePredicates /\ from = Owner /\ to = who)
    BY <2>2, <2>6 DEF OneRole
  <2> QED
    BY <2>3, <2>4, <2>5, <2>6
<1> QED
  BY <1>1, <1>2

-----------------------------------------------------------------------------
(* Literals. *)

LEMMA LiteralRowType ==
  ASSUME NEW l \in OfferedLiterals, NEW chan \in Channels
  PROVE  LiteralRow(l, chan) \in LiteralRows
<1>1. Sensitivity(l.pred) \in Sensitivities
  BY DEF Sensitivity, Sensitivities
<1>2. /\ SubjectClass(l.who, l.pred).vis \in Visibilities
      /\ SubjectClass(l.who, l.pred).sens \in Sensitivities
  BY <1>1 DEF SubjectClass, Visibilities, Sensitivities
<1> QED
  BY <1>2 DEF LiteralRow, LiteralRows, Life, OfferedLiterals

\* The rows after one insertion: the old ones, the superseded ones, the new one.
LEMMA InsertedLiterals ==
  ASSUME NEW s \in Stores, NEW row \in LiteralRows, row.life = "active"
  PROVE  LET t == InsertLiteral(s, row)
             old == IF row.pred \in SingleCurrent THEN ActiveLiterals(s, row.who, row.pred) ELSE {}
         IN  /\ t \in Stores
             /\ Active(t.literals) = (Active(s.literals) \ old) \cup {row}
             /\ s.literals \ old \subseteq t.literals
             /\ t.entities = s.entities /\ t.relations = s.relations /\ t.contacts = s.contacts
<1> DEFINE t == InsertLiteral(s, row)
           old == IF row.pred \in SingleCurrent THEN ActiveLiterals(s, row.who, row.pred) ELSE {}
           new == (s.literals \ old) \cup {Superseded(r) : r \in old} \cup {row}
<1>1. t = [s EXCEPT !.literals = new]
  BY DEF InsertLiteral
<1>2. /\ t.literals = new /\ t.entities = s.entities /\ t.relations = s.relations
      /\ t.contacts = s.contacts
  BY <1>1 DEF Stores
<1>3. \A r \in old : Superseded(r) \in LiteralRows /\ Superseded(r).life = "superseded"
  BY DEF Superseded, Stores, LiteralRows, ActiveLiterals, Active, Life
<1>4. new \subseteq LiteralRows
  BY <1>3 DEF Stores
<1>5. t \in Stores
  BY <1>1, <1>4 DEF Stores
<1>6. Active(new) = (Active(s.literals) \ old) \cup {row}
  BY <1>3 DEF Active
<1> QED
  BY <1>2, <1>5, <1>6

LEMMA OneCurrentAfterInsert ==
  ASSUME NEW s \in Stores, NEW row \in LiteralRows, row.life = "active", OneCurrentValue(s)
  PROVE  OneCurrentValue(InsertLiteral(s, row))
<1> DEFINE t == InsertLiteral(s, row)
           old == IF row.pred \in SingleCurrent THEN ActiveLiterals(s, row.who, row.pred) ELSE {}
<1>1. Active(t.literals) = (Active(s.literals) \ old) \cup {row}
  BY InsertedLiterals
<1> SUFFICES ASSUME NEW a \in Active(t.literals), NEW b \in Active(t.literals),
                    a.pred \in SingleCurrent, a.who = b.who, a.pred = b.pred
             PROVE  a = b
  BY DEF OneCurrentValue
<1>2. CASE a \in Active(s.literals) \ old /\ b \in Active(s.literals) \ old
  BY <1>2 DEF OneCurrentValue
<1>3. CASE a = row \/ b = row
  BY <1>1, <1>3 DEF ActiveLiterals
<1> QED
  BY <1>1, <1>2, <1>3

\* A literal is written in one of two ways: nothing changes, or one row is added.
LEMMA WrittenLiteral ==
  ASSUME NEW s \in Stores, NEW l, NEW chan, NEW policy
  PROVE  \/ WriteLiteral(s, l, chan, policy) = Refused(s)
         \/ WriteLiteral(s, l, chan, policy) = Accepted(s)
         \/ /\ WriteLiteral(s, l, chan, policy) = Accepted(InsertLiteral(s, LiteralRow(l, chan)))
            /\ ~(policy = "refuse" /\ l.pred \in SingleCurrent /\ ActiveLiterals(s, l.who, l.pred) # {})
BY DEF WriteLiteral

\* A predicate of one current value keeps one, whatever is written on whatever
\* channel and under either policy.
THEOREM LiteralsKeepOneCurrentValue ==
  ASSUME NEW s \in Stores, NEW l \in OfferedLiterals,
         NEW chan \in Channels, NEW policy, OneCurrentValue(s)
  PROVE  OneCurrentValue(WriteLiteral(s, l, chan, policy).store)
<1> DEFINE row == LiteralRow(l, chan)
<1>1. row \in LiteralRows /\ row.life = "active"
  BY LiteralRowType DEF LiteralRow
<1>2. OneCurrentValue(InsertLiteral(s, row))
  BY <1>1, OneCurrentAfterInsert
<1> QED
  BY <1>2, WrittenLiteral DEF Refused, Accepted

-----------------------------------------------------------------------------
(* Contacts. *)

LEMMA ContactRowType ==
  ASSUME NEW c \in OfferedContacts, NEW chan \in Channels
  PROVE  ContactRow(c, chan) \in ContactRows /\ ContactRow(c, chan).life = "active"
BY DEF ContactRow, ContactRows, Life, OfferedContacts

\* The contacts after a changed or new one.
Listed(s, c, chan) ==
  [s EXCEPT !.contacts = (@ \ CurrentContact(s, c))
                           \cup {[r EXCEPT !.life = "revoked"] : r \in CurrentContact(s, c)}
                           \cup {ContactRow(c, chan)}]

LEMMA ListedContacts ==
  ASSUME NEW s \in Stores, NEW c \in OfferedContacts, NEW chan \in Channels
  PROVE  LET t == Listed(s, c, chan)
         IN  /\ t \in Stores
             /\ Active(t.contacts) =
                  (Active(s.contacts) \ CurrentContact(s, c)) \cup {ContactRow(c, chan)}
             /\ s.contacts \ CurrentContact(s, c) \subseteq t.contacts
             /\ t.entities = s.entities /\ t.relations = s.relations /\ t.literals = s.literals
<1> DEFINE t == Listed(s, c, chan)
           current == CurrentContact(s, c)
           gone == {[r EXCEPT !.life = "revoked"] : r \in current}
           new == (s.contacts \ current) \cup gone \cup {ContactRow(c, chan)}
<1>1. t = [s EXCEPT !.contacts = new]
  BY DEF Listed
<1>2. /\ t.contacts = new /\ t.entities = s.entities /\ t.relations = s.relations
      /\ t.literals = s.literals
  BY <1>1 DEF Stores
<1>3. \A r \in gone : r \in ContactRows /\ r.life = "revoked"
  BY DEF Stores, ContactRows, CurrentContact, Active, Life
<1>4. ContactRow(c, chan) \in ContactRows /\ ContactRow(c, chan).life = "active"
  BY ContactRowType
<1>5. t \in Stores
  BY <1>1, <1>3, <1>4 DEF Stores
<1>6. Active(new) = (Active(s.contacts) \ current) \cup {ContactRow(c, chan)}
  BY <1>3, <1>4 DEF Active, CurrentContact
<1> QED
  BY <1>2, <1>5, <1>6

LEMMA WrittenContact ==
  ASSUME NEW s, NEW c, NEW chan, NEW policy
  PROVE  \/ WriteContact(s, c, chan, policy) = Refused(s)
         \/ WriteContact(s, c, chan, policy) = Accepted(s)
         \/ /\ WriteContact(s, c, chan, policy) = Accepted(Listed(s, c, chan))
            /\ ~OrderTaken(s, c)
            /\ ~(policy = "refuse" /\ CurrentContact(s, c) # {})
BY DEF WriteContact, Listed

\* Two active contacts never share a place in the order of calls, whoever
\* writes them and under either policy (_require_a_free_order).
THEOREM ContactsKeepOrdersFree ==
  ASSUME NEW s \in Stores, NEW c \in OfferedContacts, NEW chan \in Channels, NEW policy, OrdersAreFree(s)
  PROVE  OrdersAreFree(WriteContact(s, c, chan, policy).store)
<1> DEFINE t == Listed(s, c, chan)
<1>1. ASSUME ~OrderTaken(s, c)
      PROVE  OrdersAreFree(t)
  <2>1. Active(t.contacts) = (Active(s.contacts) \ CurrentContact(s, c)) \cup {ContactRow(c, chan)}
    BY ListedContacts
  <2>2. ContactRow(c, chan).order = c.order
    BY DEF ContactRow
  <2> SUFFICES ASSUME NEW a \in Active(t.contacts), NEW b \in Active(t.contacts),
                      a.order # NoOrder, a.order = b.order
               PROVE  a = b
    BY DEF OrdersAreFree
  <2>3. CASE a \in Active(s.contacts) /\ b \in Active(s.contacts)
    BY <2>3 DEF OrdersAreFree
  <2>4. CASE a = ContactRow(c, chan) \/ b = ContactRow(c, chan)
    BY <1>1, <2>1, <2>2, <2>4 DEF OrderTaken
  <2> QED
    BY <2>1, <2>3, <2>4
<1> QED
  BY <1>1, WrittenContact DEF Refused, Accepted

-----------------------------------------------------------------------------
(* What a write leaves of the rows that were there. *)

\* Every row of the first store is in the second, as it was.
Keeps(s, t) ==
  /\ s.entities \subseteq t.entities
  /\ s.literals \subseteq t.literals
  /\ s.relations \subseteq t.relations
  /\ s.contacts \subseteq t.contacts

LEMMA RelationStore ==
  ASSUME NEW s \in Stores, NEW row \in RelationRows
  PROVE  LET t == AssertRelation(s, row)
         IN  /\ t \in Stores
             /\ t.entities = s.entities /\ t.literals = s.literals /\ t.contacts = s.contacts
<1> DEFINE old == IF row.pred \in TemporalPredicates
                  THEN {r \in Active(s.relations) : r.from = row.from /\ r.pred = row.pred}
                  ELSE {}
           new == (s.relations \ old) \cup {Superseded(r) : r \in old} \cup {row}
<1>1. \A r \in old : Superseded(r) \in RelationRows
  BY DEF Superseded, Stores, RelationRows, Active, Life
<1>2. new \subseteq RelationRows
  BY <1>1 DEF Stores
<1>3. InsertRelation(s, row) = [s EXCEPT !.relations = new]
  BY DEF InsertRelation
<1> QED
  BY <1>2, <1>3 DEF AssertRelation, Stores

\* What InsertRelation takes out of the rows is what it supersedes.
LEMMA InsertedRelationKeeps ==
  ASSUME NEW s \in Stores, NEW row \in RelationRows,
         row.pred \in TemporalPredicates =>
           {r \in Active(s.relations) : r.from = row.from /\ r.pred = row.pred} = {}
  PROVE  s.relations \subseteq InsertRelation(s, row).relations
BY DEF InsertRelation, Stores

LEMMA RefusedRivals ==
  ASSUME NEW s \in Stores, NEW from \in Names, NEW pred \in TemporalPredicates, NEW to \in Names,
         Rivals(s, from, pred, to) = {}, Between(s, from, pred, to) = {}
  PROVE  {r \in Active(s.relations) : r.from = from /\ r.pred = pred} = {}
<1> SUFFICES ASSUME NEW r \in Active(s.relations), r.from = from, r.pred = pred
             PROVE  FALSE
  OBVIOUS
<1>1. r.to \in Names /\ r \in Between(s, from, pred, r.to)
  BY DEF Between, Active, Stores, RelationRows
<1>2. pred # "partner_of"
  BY DEF TemporalPredicates
<1>3. r.to # to => r.to \in Rivals(s, from, pred, to)
  BY <1>1, <1>2 DEF Rivals
<1> QED
  BY <1>1, <1>3

\* A load overwrites nothing: under the policy of the seed importer no row that
\* was in the store is superseded, revoked or changed by any write
\* (ConflictPolicy.REFUSE).
THEOREM ImportsOverwriteNothing ==
  ASSUME NEW s \in Stores, NEW chan \in Channels
  PROVE  /\ \A l \in OfferedLiterals : Keeps(s, WriteLiteral(s, l, chan, "refuse").store)
         /\ \A from \in Names, pred \in Relations, to \in Names :
              Keeps(s, WriteRelation(s, from, pred, to, chan, "refuse").store)
         /\ \A c \in OfferedContacts : Keeps(s, WriteContact(s, c, chan, "refuse").store)
<1>1. Keeps(s, s)
  BY DEF Keeps
<1>2. ASSUME NEW l \in OfferedLiterals
      PROVE  Keeps(s, WriteLiteral(s, l, chan, "refuse").store)
  <2> DEFINE row == LiteralRow(l, chan)
  <2>1. row \in LiteralRows /\ row.life = "active" /\ row.pred = l.pred /\ row.who = l.who
    BY <1>2, LiteralRowType DEF LiteralRow
  <2>2. ASSUME ~(l.pred \in SingleCurrent /\ ActiveLiterals(s, l.who, l.pred) # {})
        PROVE  Keeps(s, InsertLiteral(s, row))
    BY <2>1, <2>2, InsertedLiterals DEF Keeps
  <2> QED
    BY <1>1, <2>2, WrittenLiteral DEF Refused, Accepted
<1>3. ASSUME NEW from \in Names, NEW pred \in Relations, NEW to \in Names
      PROVE  Keeps(s, WriteRelation(s, from, pred, to, chan, "refuse").store)
  <2> DEFINE row == RelationRow(from, pred, to, RelationClass(from, pred), chan)
  <2>1. row \in RelationRows
    BY RelationRowType
  <2>2. CASE WriteRelation(s, from, pred, to, chan, "refuse") = Refused(s)
    BY <1>1, <2>2 DEF Refused
  <2>3. CASE WriteRelation(s, from, pred, to, chan, "refuse") # Refused(s)
    <3>1. /\ Rivals(s, from, pred, to) = {}
          /\ WriteRelation(s, from, pred, to, chan, "refuse") = Accepted(AssertRelation(s, row))
      BY <2>3 DEF WriteRelation
    <3>2. s.relations \subseteq AssertRelation(s, row).relations
      <4>1. CASE Between(s, row.from, row.pred, row.to) # {}
        BY <4>1 DEF AssertRelation
      <4>2. CASE Between(s, row.from, row.pred, row.to) = {}
        <5>1. pred \in TemporalPredicates => row.from = from /\ row.to = to /\ row.pred = pred
          BY DEF RelationRow, Stored, TemporalPredicates, Symmetric
        <5>2. row.pred = pred
          BY StoredEnds
        <5>3. pred \in TemporalPredicates =>
                {r \in Active(s.relations) : r.from = row.from /\ r.pred = row.pred} = {}
          BY <3>1, <4>2, <5>1, RefusedRivals
        <5> QED
          BY <2>1, <4>2, <5>2, <5>3, InsertedRelationKeeps DEF AssertRelation
      <4> QED
        BY <4>1, <4>2
    <3> QED
      BY <2>1, <3>1, <3>2, RelationStore DEF Keeps, Accepted
  <2> QED
    BY <2>2, <2>3
<1>4. ASSUME NEW c \in OfferedContacts
      PROVE  Keeps(s, WriteContact(s, c, chan, "refuse").store)
  <2>1. ASSUME CurrentContact(s, c) = {} PROVE Keeps(s, Listed(s, c, chan))
    BY <1>4, <2>1, ListedContacts DEF Keeps
  <2> QED
    BY <1>1, <2>1, WrittenContact DEF Refused, Accepted
<1> QED
  BY <1>2, <1>3, <1>4

-----------------------------------------------------------------------------
(* Writing the same thing twice. *)

LEMMA RepeatedLiteral ==
  ASSUME NEW s \in Stores, NEW l \in OfferedLiterals, NEW chan \in Channels, NEW policy,
         WriteLiteral(s, l, chan, policy).ok
  PROVE  LET t == WriteLiteral(s, l, chan, policy).store
         IN  WriteLiteral(t, l, chan, policy) = Accepted(t)
<1> DEFINE row == LiteralRow(l, chan)
           i == InsertLiteral(s, row)
<1>1. CASE WriteLiteral(s, l, chan, policy) = Accepted(s)
  BY <1>1 DEF Accepted
<1>2. CASE WriteLiteral(s, l, chan, policy) = Accepted(i) /\ Accepted(i) # Accepted(s)
  <2>1. /\ l.pred \notin Unstorable /\ ~SubjectRefused(s, l.who, l.pred) /\ l.valid
    BY <1>2 DEF WriteLiteral, Refused, Accepted
  <2>2. row \in LiteralRows /\ row.life = "active" /\ row.pred = l.pred /\ row.who = l.who
        /\ row.value = l.value
    BY LiteralRowType DEF LiteralRow
  <2>3. /\ Active(i.literals) \subseteq Active(s.literals) \cup {row}
        /\ row \in Active(i.literals)
        /\ i.entities = s.entities /\ i.relations = s.relations
    BY <2>2, InsertedLiterals
  <2>4. ~SubjectRefused(i, l.who, l.pred)
    BY <2>1, <2>3 DEF SubjectRefused, IsMember, HasMembershipRow, IsAdultDependent, Between
  <2>5. {r \in ActiveLiterals(s, l.who, l.pred) : r.value = l.value} = {}
    BY <1>2, <2>1 DEF WriteLiteral, Refused, Accepted
  <2>6. {r \in ActiveLiterals(i, l.who, l.pred) : r.value = l.value} = {row}
    BY <2>2, <2>3, <2>5 DEF ActiveLiterals
  <2>7. SameClass(row, row)
    BY DEF SameClass
  <2>8. WriteLiteral(i, l, chan, policy) = Accepted(i)
    BY <2>1, <2>4, <2>6, <2>7 DEF WriteLiteral
  <2> QED
    BY <1>2, <2>8 DEF Accepted
<1> QED
  BY <1>1, <1>2, WrittenLiteral DEF Refused

LEMMA RepeatedContact ==
  ASSUME NEW s \in Stores, NEW c \in OfferedContacts, NEW chan \in Channels, NEW policy,
         WriteContact(s, c, chan, policy).ok
  PROVE  LET t == WriteContact(s, c, chan, policy).store
         IN  WriteContact(t, c, chan, policy) = Accepted(t)
<1> DEFINE t == Listed(s, c, chan)
<1>1. CASE WriteContact(s, c, chan, policy) = Accepted(s)
  BY <1>1 DEF Accepted
<1>2. CASE WriteContact(s, c, chan, policy) = Accepted(t) /\ Accepted(t) # Accepted(s)
  <2>1. ~(c.who = Owner \/ ~Exists(s, c.who) \/ c.who \notin Persons)
    BY <1>2 DEF WriteContact, Refused, Accepted
  <2>2. ContactRow(c, chan) \in Active(t.contacts)
    BY ListedContacts
  <2>3. ContactRow(c, chan) \in CurrentContact(t, c) /\ SameTerms(ContactRow(c, chan), c)
    BY <2>2 DEF CurrentContact, ContactRow, SameTerms
  <2>4. Exists(t, c.who)
    BY <2>1, ListedContacts DEF Exists
  <2>5. WriteContact(t, c, chan, policy) = Accepted(t)
    BY <2>1, <2>3, <2>4 DEF WriteContact
  <2> QED
    BY <1>2, <2>5 DEF Accepted
<1> QED
  BY <1>1, <1>2, WrittenContact DEF Refused

\* An assertion leaves its pair stored and takes nobody's membership away.
LEMMA AssertedHolds ==
  ASSUME NEW s \in Stores, NEW row \in RelationRows, row.life = "active"
  PROVE  LET t == AssertRelation(s, row)
         IN  /\ Between(t, row.from, row.pred, row.to) # {}
             /\ \A who : HasMembershipRow(s, who) => HasMembershipRow(t, who)
<1> DEFINE old == IF row.pred \in TemporalPredicates
                  THEN {r \in Active(s.relations) : r.from = row.from /\ r.pred = row.pred}
                  ELSE {}
           new == (s.relations \ old) \cup {Superseded(r) : r \in old} \cup {row}
           t == AssertRelation(s, row)
<1>1. CASE Between(s, row.from, row.pred, row.to) # {}
  BY <1>1 DEF AssertRelation
<1>2. CASE Between(s, row.from, row.pred, row.to) = {}
  <2>1. t.relations = new
    BY <1>2 DEF AssertRelation, InsertRelation, Stores
  <2>2. row \in Between(t, row.from, row.pred, row.to)
    BY <2>1 DEF Between, Active
  <2>3. \A r \in Active(s.relations) : r.pred \in {"child_of", "pet_of"} => r \in Active(t.relations)
    BY <2>1 DEF Active, TemporalPredicates
  <2>4. \A who : HasMembershipRow(s, who) => HasMembershipRow(t, who)
    BY <2>3 DEF HasMembershipRow, Between
  <2> QED
    BY <2>2, <2>4
<1> QED
  BY <1>1, <1>2

LEMMA RepeatedRelation ==
  ASSUME NEW s \in Stores, NEW from \in Names, NEW pred \in Relations, NEW to \in Names,
         NEW chan \in Channels, NEW policy,
         WriteRelation(s, from, pred, to, chan, policy).ok
  PROVE  LET t == WriteRelation(s, from, pred, to, chan, policy).store
         IN  WriteRelation(t, from, pred, to, chan, policy) = Accepted(t)
<1> DEFINE row == RelationRow(from, pred, to, RelationClass(from, pred), chan)
           t == AssertRelation(s, row)
<1>1. /\ ~RelationRefused(s, from, pred, to)
      /\ policy = "refuse" => Rivals(s, from, pred, to) = {}
      /\ ~EndsRefused(s, from, pred, to)
      /\ \A r \in Between(s, row.from, pred, row.to) : SameClass(r, row)
      /\ WriteRelation(s, from, pred, to, chan, policy) = Accepted(t)
  BY DEF WriteRelation, Refused
<1>2. row \in RelationRows /\ row.life = "active" /\ row.pred = pred
  BY RelationRowType DEF RelationRow
<1>3. \/ row.from = from /\ row.to = to
      \/ pred \in Symmetric /\ to = Owner /\ row.from = to /\ row.to = from
  BY StoredEnds
<1>4. from # to
  BY <1>1 DEF EndsRefused
<1>5. /\ Active(t.relations) \subseteq Active(s.relations) \cup {row}
      /\ Between(t, row.from, pred, row.to) # {}
      /\ \A who : HasMembershipRow(s, who) => HasMembershipRow(t, who)
      /\ t.entities = s.entities
  BY <1>2, AssertedRelations, AssertedHolds, RelationStore
<1>6. \A r \in Between(t, row.from, pred, row.to) : SameClass(r, row)
  BY <1>1, <1>5 DEF Between, SameClass
<1>7. Related(t, from, pred, to)
  BY <1>3, <1>5 DEF Related
<1>8. ~RelationRefused(t, from, pred, to)
  <2>1. pred \in MembershipPredicates => ~MembershipRefused(t, from, pred, to)
    BY <1>1, <1>7 DEF RelationRefused, MembershipRefused, ActiveRepeat
  <2>2. ~SubjectRefused(s, from, pred) => ~SubjectRefused(t, from, pred)
    BY <1>5 DEF SubjectRefused, IsMember, IsAdultDependent
  <2>3. pred \in RelativePredicates => ~HasMembershipRow(t, to) /\ ~IsPartner(t, to)
    <3>1. pred \in RelativePredicates =>
            /\ ~HasMembershipRow(s, to) /\ ~IsPartner(s, to)
            /\ pred \notin {"child_of", "pet_of", "partner_of"}
      BY <1>1, AcceptedRelative DEF RelativePredicates
    <3>2. /\ HasMembershipRow(t, to) => HasMembershipRow(s, to) \/ pred \in {"child_of", "pet_of"}
          /\ IsPartner(t, to) => IsPartner(s, to) \/ pred = "partner_of"
      BY <1>1, <1>4, RolesAfter
    <3> QED
      BY <3>1, <3>2
  <2> QED
    BY <1>1, <2>1, <2>2, <2>3 DEF RelationRefused, RelativeRefused
<1>9. policy = "refuse" => Rivals(t, from, pred, to) = {}
  <2> SUFFICES ASSUME Rivals(s, from, pred, to) = {}, NEW x \in Rivals(t, from, pred, to)
               PROVE  FALSE
    BY <1>1
  <2>1. CASE pred = "partner_of"
    <3> DEFINE other == IF from = Owner THEN to ELSE from
    <3>1. x \in Persons /\ x # other /\ Related(t, x, "partner_of", Owner)
      BY <2>1 DEF Rivals, TemporalPredicates
    <3>2. ~Related(s, x, "partner_of", Owner)
      BY <2>1, <3>1 DEF Rivals, TemporalPredicates
    <3>3. \/ row.from = x /\ row.to = Owner
          \/ row.from = Owner /\ row.to = x
      BY <1>2, <3>1, <3>2, AssertedPair
    <3> QED
      BY <1>3, <3>1, <3>3
  <2>2. CASE pred \in TemporalPredicates
    <3>1. x \in Names \ {to} /\ Between(t, from, pred, x) # {} /\ pred # "partner_of"
          /\ pred \notin Symmetric
      BY <2>2 DEF Rivals, TemporalPredicates, Symmetric
    <3>2. Between(s, from, pred, x) = {}
      BY <2>2, <3>1 DEF Rivals
    <3>3. row.to = x
      BY <1>2, <3>1, <3>2, AssertedBetween
    <3> QED
      BY <1>3, <3>1, <3>3
  <2>3. CASE pred # "partner_of" /\ pred \notin TemporalPredicates
    BY <2>3 DEF Rivals
  <2> QED
    BY <2>1, <2>2, <2>3
<1>10. AssertRelation(t, row) = t
  BY <1>2, <1>5 DEF AssertRelation
<1>11. ~EndsRefused(t, from, pred, to)
  BY <1>1, <1>5 DEF EndsRefused, Exists
<1>12. WriteRelation(t, from, pred, to, chan, policy) = Accepted(t)
  BY <1>1, <1>6, <1>8, <1>9, <1>10, <1>11 DEF WriteRelation
<1> QED
  BY <1>1, <1>12 DEF Accepted

\* Writing again what was just accepted is accepted and changes nothing, for a
\* literal, a relation and a contact and under either policy: this is what makes
\* a load safe to run twice.
THEOREM AcceptedWritesRepeat ==
  ASSUME NEW s \in Stores, NEW chan \in Channels, NEW policy
  PROVE  /\ \A l \in OfferedLiterals :
              LET w == WriteLiteral(s, l, chan, policy)
              IN  w.ok => WriteLiteral(w.store, l, chan, policy) = w
         /\ \A from \in Names, pred \in Relations, to \in Names :
              LET w == WriteRelation(s, from, pred, to, chan, policy)
              IN  w.ok => WriteRelation(w.store, from, pred, to, chan, policy) = w
         /\ \A c \in OfferedContacts :
              LET w == WriteContact(s, c, chan, policy)
              IN  w.ok => WriteContact(w.store, c, chan, policy) = w
<1>1. \A w : (w = Refused(w.store) \/ w = Accepted(w.store)) /\ w.ok => w = Accepted(w.store)
  BY DEF Refused, Accepted
<1>2. \A t : Refused(t) = Refused(Refused(t).store) /\ Accepted(t) = Accepted(Accepted(t).store)
  BY DEF Refused, Accepted
<1>3. ASSUME NEW l \in OfferedLiterals, WriteLiteral(s, l, chan, policy).ok
      PROVE  WriteLiteral(WriteLiteral(s, l, chan, policy).store, l, chan, policy)
               = WriteLiteral(s, l, chan, policy)
  BY <1>1, <1>2, <1>3, RepeatedLiteral, WrittenLiteral
<1>4. ASSUME NEW from \in Names, NEW pred \in Relations, NEW to \in Names,
             WriteRelation(s, from, pred, to, chan, policy).ok
      PROVE  WriteRelation(WriteRelation(s, from, pred, to, chan, policy).store, from, pred, to,
                           chan, policy) = WriteRelation(s, from, pred, to, chan, policy)
  <2>1. \E t : WriteRelation(s, from, pred, to, chan, policy) \in {Refused(t), Accepted(t)}
    BY DEF WriteRelation
  <2> QED
    BY <1>1, <1>2, <1>4, <2>1, RepeatedRelation
<1>5. ASSUME NEW c \in OfferedContacts, WriteContact(s, c, chan, policy).ok
      PROVE  WriteContact(WriteContact(s, c, chan, policy).store, c, chan, policy)
               = WriteContact(s, c, chan, policy)
  BY <1>1, <1>2, <1>5, RepeatedContact, WrittenContact
<1> QED
  BY <1>3, <1>4, <1>5


-----------------------------------------------------------------------------
(* What it means that a write of a file has been done.                     *)

EntityDone(s, e) ==
  /\ Exists(s, e.who)
  /\ \A x \in s.entities : x.who = e.who => x.key = e.key /\ (e.key = "child" => x.adult = e.adult)

RowOf(r) == RelationRow(r.from, r.pred, r.to, RelationClass(r.from, r.pred), "import")

RelationDone(s, r) ==
  /\ ~RelationRefused(s, r.from, r.pred, r.to)
  /\ Rivals(s, r.from, r.pred, r.to) = {}
  /\ ~EndsRefused(s, r.from, r.pred, r.to)
  /\ Between(s, RowOf(r).from, r.pred, RowOf(r).to) # {}
  /\ \A x \in Between(s, RowOf(r).from, r.pred, RowOf(r).to) : SameClass(x, RowOf(r))

SameValue(s, l) == {x \in ActiveLiterals(s, l.who, l.pred) : x.value = l.value}

LiteralDone(s, l) ==
  /\ l.pred \notin Unstorable /\ l.valid /\ ~SubjectRefused(s, l.who, l.pred)
  /\ SameValue(s, l) # {}
  /\ \A x \in SameValue(s, l) : SameClass(x, LiteralRow(l, "import"))

ContactDone(s, c) ==
  /\ c.who # Owner /\ Exists(s, c.who) /\ c.who \in Persons
  /\ \E x \in CurrentContact(s, c) : SameTerms(x, c)

Harmless(s, plan) ==
  /\ \A e \in plan.entities : EntityDone(s, e)
  /\ \A r \in plan.relations : RelationDone(s, r)
  /\ \A l \in plan.literals : LiteralDone(s, l)
  /\ \A c \in plan.contacts : ContactDone(s, c)

\* What is done is accepted again and changes nothing.
LEMMA DoneRepeats ==
  ASSUME NEW s
  PROVE  /\ \A e : EntityDone(s, e) => CreateThirdParty(s, e.who, e.key, e.adult) = Accepted(s)
         /\ \A r : RelationDone(s, r) =>
              WriteRelation(s, r.from, r.pred, r.to, "import", "refuse") = Accepted(s)
         /\ \A l : LiteralDone(s, l) => WriteLiteral(s, l, "import", "refuse") = Accepted(s)
         /\ \A c : ContactDone(s, c) => WriteContact(s, c, "import", "refuse") = Accepted(s)
<1>1. ASSUME NEW e, EntityDone(s, e)
      PROVE  CreateThirdParty(s, e.who, e.key, e.adult) = Accepted(s)
  BY <1>1 DEF EntityDone, CreateThirdParty, Exists
<1>2. ASSUME NEW r, RelationDone(s, r)
      PROVE  WriteRelation(s, r.from, r.pred, r.to, "import", "refuse") = Accepted(s)
  <2>1. AssertRelation(s, RowOf(r)) = s
    BY <1>2 DEF RelationDone, RowOf, AssertRelation, RelationRow
  <2> QED
    BY <1>2, <2>1 DEF RelationDone, RowOf, WriteRelation
<1>3. ASSUME NEW l, LiteralDone(s, l)
      PROVE  WriteLiteral(s, l, "import", "refuse") = Accepted(s)
  BY <1>3 DEF LiteralDone, SameValue, WriteLiteral
<1>4. ASSUME NEW c, ContactDone(s, c)
      PROVE  WriteContact(s, c, "import", "refuse") = Accepted(s)
  BY <1>4 DEF ContactDone, WriteContact
<1> QED
  BY <1>1, <1>2, <1>3, <1>4

-----------------------------------------------------------------------------
(* A write that is accepted has been done.                                 *)

LEMMA CreatedStore ==
  ASSUME NEW s \in Stores, NEW e \in EntityRows
  PROVE  LET t == CreateThirdParty(s, e.who, e.key, e.adult).store
         IN  /\ t \in Stores
             /\ t.literals = s.literals /\ t.relations = s.relations /\ t.contacts = s.contacts
             /\ s.entities \subseteq t.entities
             /\ \A x \in t.entities : Exists(s, x.who) => x \in s.entities
<1> DEFINE new == Entity(e.who, e.key, e.adult)
           t == CreateThirdParty(s, e.who, e.key, e.adult).store
<1>1. CASE {x \in s.entities : x.who = e.who} = {}
  <2>1. new \in EntityRows /\ new.who = e.who
    BY DEF Entity, EntityRows
  <2>2. t = [s EXCEPT !.entities = @ \cup {new}]
    BY <1>1 DEF CreateThirdParty, Accepted
  <2>3. /\ t.entities = s.entities \cup {new} /\ t.literals = s.literals
        /\ t.relations = s.relations /\ t.contacts = s.contacts /\ t \in Stores
    BY <2>1, <2>2 DEF Stores
  <2> QED
    BY <1>1, <2>1, <2>3 DEF Exists
<1>2. CASE {x \in s.entities : x.who = e.who} # {}
  BY <1>2 DEF CreateThirdParty, Accepted, Refused
<1> QED
  BY <1>1, <1>2

LEMMA CreationDone ==
  ASSUME NEW s \in Stores, NEW e \in EntityRows,
         CreateThirdParty(s, e.who, e.key, e.adult).ok
  PROVE  EntityDone(CreateThirdParty(s, e.who, e.key, e.adult).store, e)
<1> DEFINE new == Entity(e.who, e.key, e.adult)
<1>1. CASE {x \in s.entities : x.who = e.who} = {}
  <2>1. CreateThirdParty(s, e.who, e.key, e.adult).store.entities = s.entities \cup {new}
    BY <1>1 DEF CreateThirdParty, Accepted, Stores
  <2>2. new.who = e.who /\ new.key = e.key /\ new.adult = e.adult
    BY DEF Entity
  <2> HIDE DEF new
  <2> QED
    BY <1>1, <2>1, <2>2 DEF EntityDone, Exists
<1>2. CASE {x \in s.entities : x.who = e.who} # {}
  BY <1>2 DEF CreateThirdParty, Accepted, Refused, EntityDone, Exists
<1> QED
  BY <1>1, <1>2

LEMMA RelatingDone ==
  ASSUME NEW s \in Stores, NEW r \in OfferedRelations,
         WriteRelation(s, r.from, r.pred, r.to, "import", "refuse").ok
  PROVE  RelationDone(WriteRelation(s, r.from, r.pred, r.to, "import", "refuse").store, r)
<1> DEFINE row == RowOf(r)
           t == WriteRelation(s, r.from, r.pred, r.to, "import", "refuse").store
<1>1. r.from \in Names /\ r.pred \in Relations /\ r.to \in Names /\ "import" \in Channels
  BY DEF OfferedRelations, Channels
<1>2. row \in RelationRows /\ row.life = "active" /\ row.pred = r.pred
  BY <1>1, RelationRowType DEF RowOf, RelationRow
<1>3. t = AssertRelation(s, row)
  BY DEF WriteRelation, Refused, Accepted, RowOf
<1>4. Between(t, row.from, r.pred, row.to) # {}
  BY <1>2, <1>3, AssertedHolds
<1>5. WriteRelation(t, r.from, r.pred, r.to, "import", "refuse") = Accepted(t)
  BY <1>1, RepeatedRelation
<1> QED
  BY <1>4, <1>5 DEF RelationDone, WriteRelation, Refused, Accepted, RowOf

LEMMA StatingDone ==
  ASSUME NEW s \in Stores, NEW l \in OfferedLiterals, WriteLiteral(s, l, "import", "refuse").ok
  PROVE  LiteralDone(WriteLiteral(s, l, "import", "refuse").store, l)
<1> DEFINE row == LiteralRow(l, "import")
           t == WriteLiteral(s, l, "import", "refuse").store
<1>1. row \in LiteralRows /\ row.life = "active" /\ row.who = l.who /\ row.pred = l.pred
      /\ row.value = l.value
  BY LiteralRowType DEF LiteralRow, Channels
<1>2. t \in Stores
  BY <1>1, WrittenLiteral, InsertedLiterals DEF Refused, Accepted
<1>3. WriteLiteral(t, l, "import", "refuse") = Accepted(t)
  BY RepeatedLiteral DEF Channels
<1>4. WriteLiteral(t, l, "import", "refuse").ok /\ WriteLiteral(t, l, "import", "refuse").store = t
  BY <1>3 DEF Accepted
<1>5. CASE l.valid /\ SameValue(t, l) # {}
  BY <1>4, <1>5 DEF WriteLiteral, SameValue, LiteralDone, Refused
<1>6. CASE ~(l.valid /\ SameValue(t, l) # {})
  <2>1. l.valid /\ t = InsertLiteral(t, row)
    BY <1>4, <1>6 DEF WriteLiteral, SameValue, Refused, Accepted
  <2>2. row \in Active(t.literals)
    BY <1>1, <1>2, <2>1, InsertedLiterals
  <2> QED
    BY <1>1, <1>6, <2>1, <2>2 DEF SameValue, ActiveLiterals
<1> QED
  BY <1>5, <1>6

LEMMA ListingDone ==
  ASSUME NEW s \in Stores, NEW c \in OfferedContacts, WriteContact(s, c, "import", "refuse").ok
  PROVE  ContactDone(WriteContact(s, c, "import", "refuse").store, c)
<1> DEFINE t == WriteContact(s, c, "import", "refuse").store
<1>1. ContactRow(c, "import").life = "active" /\ SameTerms(ContactRow(c, "import"), c)
      /\ ContactRow(c, "import").who = c.who /\ ContactRow(c, "import").role = c.role
  BY DEF ContactRow, SameTerms
<1>2. t \in Stores /\ "import" \in Channels
  <2>1. "import" \in Channels
    BY DEF Channels
  <2>2. Listed(s, c, "import") \in Stores
    BY <2>1, ListedContacts
  <2> QED
    BY <2>1, <2>2, WrittenContact DEF Refused, Accepted
<1>3. WriteContact(t, c, "import", "refuse") = Accepted(t)
  BY RepeatedContact DEF Channels
<1>4. WriteContact(t, c, "import", "refuse").ok /\ WriteContact(t, c, "import", "refuse").store = t
  BY <1>3 DEF Accepted
<1>5. ~(c.who = Owner \/ ~Exists(t, c.who) \/ c.who \notin Persons)
  BY <1>4 DEF WriteContact, Refused
<1>6. CASE \E x \in CurrentContact(t, c) : SameTerms(x, c)
  BY <1>5, <1>6 DEF ContactDone
<1>7. CASE ~\E x \in CurrentContact(t, c) : SameTerms(x, c)
  <2>1. t = Listed(t, c, "import")
    BY <1>4, <1>5, <1>7 DEF WriteContact, Listed, Refused, Accepted
  <2>2. ContactRow(c, "import") \in Active(t.contacts)
    BY <1>2, <2>1, ListedContacts
  <2> QED
    BY <1>1, <1>7, <2>2 DEF CurrentContact
<1> QED
  BY <1>6, <1>7

-----------------------------------------------------------------------------
(* What has been done stays done.                                          *)

LEMMA EntityStays ==
  ASSUME NEW s \in Stores, NEW e \in EntityRows, NEW d, EntityDone(s, d)
  PROVE  EntityDone(CreateThirdParty(s, e.who, e.key, e.adult).store, d)
BY CreatedStore DEF EntityDone, Exists

\* The relations a seed file can state: none of them is a stay at a place.
FileRelations == {r \in OfferedRelations : r.pred \in MembershipPredicates \cup PoolRelations}

LEMMA OfTheOwner ==
  ASSUME NEW s, NEW r \in FileRelations, r.pred \in PoolRelations,
         ~RelationRefused(s, r.from, r.pred, r.to)
  PROVE  r.from = Owner
BY DEF RelationRefused, RelativeRefused, SubjectRefused, OwnerOnly

LEMMA FileRivals ==
  ASSUME NEW s, NEW t, NEW r \in FileRelations,
         Rivals(s, r.from, r.pred, r.to) = {},
         \A x \in Persons : Related(t, x, "partner_of", Owner) /\ r.pred = "partner_of" =>
           Related(s, x, "partner_of", Owner) \/ x = (IF r.from = Owner THEN r.to ELSE r.from)
  PROVE  Rivals(t, r.from, r.pred, r.to) = {}
<1>1. r.pred \notin TemporalPredicates
  BY DEF FileRelations, MembershipPredicates, PoolRelations, RelativePredicates, TemporalPredicates
<1>2. CASE r.pred = "partner_of"
  BY <1>1, <1>2 DEF Rivals
<1>3. CASE r.pred # "partner_of"
  BY <1>1, <1>3 DEF Rivals
<1> QED
  BY <1>2, <1>3

\* What a stored relation of a file needs of another store to be done there too.
LEMMA RelationStays ==
  ASSUME NEW s \in Stores, NEW t \in Stores, NEW r \in FileRelations, RelationDone(s, r),
         s.entities \subseteq t.entities,
         Between(t, RowOf(r).from, r.pred, RowOf(r).to) # {},
         \A x \in Between(t, RowOf(r).from, r.pred, RowOf(r).to) : SameClass(x, RowOf(r)),
         r.pred \in RelativePredicates => ~HasMembershipRow(t, r.to) /\ ~IsPartner(t, r.to),
         \A x \in Persons : Related(t, x, "partner_of", Owner) /\ r.pred = "partner_of" =>
           Related(s, x, "partner_of", Owner) \/ x = (IF r.from = Owner THEN r.to ELSE r.from)
  PROVE  RelationDone(t, r)
<1>1. ~RelationRefused(s, r.from, r.pred, r.to) /\ ~EndsRefused(s, r.from, r.pred, r.to)
  BY DEF RelationDone
<1>2. r.from # r.to
  BY <1>1 DEF EndsRefused
<1>3. Related(t, r.from, r.pred, r.to)
  BY StoredEnds DEF Related, RowOf
<1>4. r.pred \in MembershipPredicates => ~MembershipRefused(t, r.from, r.pred, r.to)
  BY <1>1, <1>3 DEF RelationRefused, MembershipRefused, ActiveRepeat
<1>5. r.pred \in PoolRelations => ~RelativeRefused(t, r.from, r.pred, r.to)
  BY <1>1, OfTheOwner DEF RelativeRefused, SubjectRefused
<1>6. ~RelationRefused(t, r.from, r.pred, r.to)
  BY <1>4, <1>5 DEF RelationRefused, FileRelations, MembershipPredicates, PoolRelations,
                    RelativePredicates, TemporalPredicates
<1>7. ~EndsRefused(t, r.from, r.pred, r.to)
  BY <1>1 DEF EndsRefused, Exists
<1>8. Rivals(t, r.from, r.pred, r.to) = {}
  BY FileRivals DEF RelationDone
<1> QED
  BY <1>6, <1>7, <1>8 DEF RelationDone

\* The rows of no relation were touched.
LEMMA RelationStaysElsewhere ==
  ASSUME NEW s \in Stores, NEW t \in Stores, NEW r \in FileRelations, RelationDone(s, r),
         s.entities \subseteq t.entities, t.relations = s.relations
  PROVE  RelationDone(t, r)
<1>1. r.pred \in RelativePredicates => ~HasMembershipRow(s, r.to) /\ ~IsPartner(s, r.to)
  BY AcceptedRelative DEF RelationDone
<1>2. \A a, p, b : /\ Between(t, a, p, b) = Between(s, a, p, b)
                   /\ Related(t, a, p, b) = Related(s, a, p, b)
  BY DEF Between, Related
<1>3. /\ Between(s, RowOf(r).from, r.pred, RowOf(r).to) # {}
      /\ \A x \in Between(s, RowOf(r).from, r.pred, RowOf(r).to) : SameClass(x, RowOf(r))
  BY DEF RelationDone
<1>4. r.pred \in RelativePredicates => ~HasMembershipRow(t, r.to) /\ ~IsPartner(t, r.to)
  BY <1>1, <1>2 DEF HasMembershipRow, IsPartner
<1> QED
  BY <1>2, <1>3, <1>4, RelationStays

\* Another relation of the file was written.
LEMMA RelationStaysAfterRelation ==
  ASSUME NEW s \in Stores, NEW r \in FileRelations, RelationDone(s, r), NEW n \in FileRelations,
         WriteRelation(s, n.from, n.pred, n.to, "import", "refuse").ok
  PROVE  RelationDone(WriteRelation(s, n.from, n.pred, n.to, "import", "refuse").store, r)
<1> DEFINE row == RowOf(n)
           old == RowOf(r)
           t == AssertRelation(s, row)
<1>1. /\ n.from \in Names /\ n.pred \in Relations /\ n.to \in Names /\ "import" \in Channels
      /\ r.from \in Names /\ r.pred \in Relations /\ r.to \in Names
  BY DEF FileRelations, OfferedRelations, Channels
<1>2. /\ ~RelationRefused(s, n.from, n.pred, n.to)
      /\ Rivals(s, n.from, n.pred, n.to) = {}
      /\ ~EndsRefused(s, n.from, n.pred, n.to)
      /\ WriteRelation(s, n.from, n.pred, n.to, "import", "refuse") = Accepted(t)
  BY DEF WriteRelation, Refused, RowOf
<1>3. row \in RelationRows /\ row.life = "active" /\ row.pred = n.pred
  BY <1>1, RelationRowType DEF RowOf, RelationRow
<1>4. t \in Stores /\ t.entities = s.entities
  BY <1>3, RelationStore
<1>5. CASE Between(s, row.from, row.pred, row.to) # {}
  BY <1>2, <1>5 DEF AssertRelation, Accepted
<1>6. CASE Between(s, row.from, row.pred, row.to) = {}
  <2>1. n.pred \notin TemporalPredicates
    BY DEF FileRelations, MembershipPredicates, PoolRelations, RelativePredicates, TemporalPredicates
  <2>2. t = [s EXCEPT !.relations = @ \cup {row}]
    BY <1>3, <1>6, <2>1 DEF AssertRelation, InsertRelation
  <2>3. Active(t.relations) = Active(s.relations) \cup {row}
    BY <1>3, <2>2 DEF Active, Stores
  <2>4. Between(t, old.from, r.pred, old.to) = Between(s, old.from, r.pred, old.to)
    <3>1. Between(s, old.from, r.pred, old.to) # {}
      BY DEF RelationDone
    <3>2. ~(row.from = old.from /\ row.pred = r.pred /\ row.to = old.to)
      BY <1>6, <3>1
    <3> QED
      BY <2>3, <3>2 DEF Between
  <2>5. r.pred \in RelativePredicates => ~HasMembershipRow(t, r.to) /\ ~IsPartner(t, r.to)
    <3> SUFFICES ASSUME r.pred \in RelativePredicates
                 PROVE  ~HasMembershipRow(t, r.to) /\ ~IsPartner(t, r.to)
      OBVIOUS
    <3>1. r.from = Owner /\ ~HasMembershipRow(s, r.to) /\ ~IsPartner(s, r.to)
      BY AcceptedRelative DEF RelationDone
    <3>2. Related(s, Owner, r.pred, r.to) /\ Related(t, Owner, r.pred, r.to)
      BY <2>4, <3>1, StoredEnds DEF RelationDone, Related, RowOf
    <3>3. IsRelative(s, r.to) /\ IsRelative(t, r.to)
      BY <3>2 DEF IsRelative
    <3>4. OneRole(s, r.to)
      BY <3>1 DEF OneRole
    <3>5. OneRole(t, r.to)
      BY <1>1, <1>2, <3>4, RelationsKeepOneRole DEF Accepted
    <3> QED
      BY <3>3, <3>5 DEF OneRole
  <2>6. ASSUME NEW x \in Persons, Related(t, x, "partner_of", Owner), r.pred = "partner_of",
               ~Related(s, x, "partner_of", Owner)
        PROVE  x = (IF r.from = Owner THEN r.to ELSE r.from)
    <3> DEFINE mine == IF n.from = Owner THEN n.to ELSE n.from
               his == IF r.from = Owner THEN r.to ELSE r.from
    <3>1. /\ n.pred = "partner_of"
          /\ \/ row.from = x /\ row.to = Owner
             \/ row.from = Owner /\ row.to = x
      BY <1>3, <2>6, AssertedPair
    <3>2. r.from = Owner \/ r.to = Owner
      BY <2>6 DEF RelationDone, RelationRefused, MembershipRefused, MembershipPredicates, Symmetric
    <3>3. Related(s, r.from, "partner_of", r.to)
      BY <2>6, StoredEnds DEF RelationDone, Related, RowOf
    <3>4. Related(s, his, "partner_of", Owner)
      BY <3>2, <3>3 DEF Related, Symmetric
    <3>5. his \in Persons
      BY <2>6, <3>2 DEF RelationDone, EndsRefused, SubjectsOf, TargetsOf, Tastes, TemporalPredicates
    <3>6. his = mine
      BY <1>2, <3>1, <3>4, <3>5 DEF Rivals, TemporalPredicates
    <3>7. x = mine \/ x = Owner
      BY <3>1, StoredEnds DEF RowOf
    <3>8. n.from # n.to
      BY <1>2 DEF EndsRefused
    <3>9. x = mine
      BY <3>1, <3>8, StoredEnds DEF RowOf
    <3> QED
      BY <3>6, <3>9
  <2>7. /\ Between(t, old.from, r.pred, old.to) # {}
        /\ \A x \in Between(t, old.from, r.pred, old.to) : SameClass(x, old)
    BY <2>4 DEF RelationDone
  <2>8. RelationDone(t, r)
    BY <1>4, <2>5, <2>6, <2>7, RelationStays
  <2> QED
    BY <1>2, <2>8 DEF Accepted
<1> QED
  BY <1>5, <1>6

LEMMA LiteralStaysElsewhere ==
  ASSUME NEW s, NEW t, NEW l, LiteralDone(s, l),
         t.literals = s.literals, t.entities = s.entities,
         HasMembershipRow(s, l.who) => HasMembershipRow(t, l.who)
  PROVE  LiteralDone(t, l)
<1>1. SameValue(t, l) = SameValue(s, l)
  BY DEF SameValue, ActiveLiterals
<1>2. ~SubjectRefused(t, l.who, l.pred)
  BY DEF LiteralDone, SubjectRefused, IsMember, IsAdultDependent
<1> QED
  BY <1>1, <1>2 DEF LiteralDone

\* What a write of the importer leaves of the literals: it supersedes none.
LEMMA StatedRows ==
  ASSUME NEW s \in Stores, NEW n \in OfferedLiterals
  PROVE  LET t == WriteLiteral(s, n, "import", "refuse").store
         IN  /\ t \in Stores
             /\ t.entities = s.entities /\ t.relations = s.relations /\ t.contacts = s.contacts
             /\ Active(s.literals) \subseteq Active(t.literals)
             /\ Active(t.literals) \subseteq Active(s.literals) \cup {LiteralRow(n, "import")}
<1> DEFINE row == LiteralRow(n, "import")
           i == InsertLiteral(s, row)
<1>1. row \in LiteralRows /\ row.life = "active" /\ row.who = n.who /\ row.pred = n.pred
  BY LiteralRowType DEF LiteralRow, Channels
<1>2. ASSUME ~(n.pred \in SingleCurrent /\ ActiveLiterals(s, n.who, n.pred) # {})
      PROVE  /\ i \in Stores
             /\ i.entities = s.entities /\ i.relations = s.relations /\ i.contacts = s.contacts
             /\ Active(i.literals) = Active(s.literals) \cup {row}
  BY <1>1, <1>2, InsertedLiterals
<1> QED
  BY <1>2, WrittenLiteral DEF Refused, Accepted

LEMMA LiteralStaysAfterLiteral ==
  ASSUME NEW s \in Stores, NEW l \in OfferedLiterals, LiteralDone(s, l), NEW n \in OfferedLiterals
  PROVE  LiteralDone(WriteLiteral(s, n, "import", "refuse").store, l)
<1> DEFINE row == LiteralRow(n, "import")
           t == WriteLiteral(s, n, "import", "refuse").store
<1>1. /\ Active(s.literals) \subseteq Active(t.literals)
      /\ Active(t.literals) \subseteq Active(s.literals) \cup {row}
      /\ t.entities = s.entities /\ t.relations = s.relations
  BY StatedRows
<1>2. SameValue(s, l) \subseteq SameValue(t, l) /\ SameValue(t, l) \subseteq SameValue(s, l) \cup {row}
  BY <1>1 DEF SameValue, ActiveLiterals
<1>3. row \in SameValue(t, l) => SameClass(row, LiteralRow(l, "import"))
  BY DEF SameValue, ActiveLiterals, LiteralRow, SameClass
<1>4. ~SubjectRefused(t, l.who, l.pred)
  BY <1>1 DEF LiteralDone, SubjectRefused, IsMember, IsAdultDependent, HasMembershipRow, Between
<1> QED
  BY <1>2, <1>3, <1>4 DEF LiteralDone

LEMMA ContactStaysElsewhere ==
  ASSUME NEW s, NEW t, NEW c, ContactDone(s, c),
         t.contacts = s.contacts, s.entities \subseteq t.entities
  PROVE  ContactDone(t, c)
BY DEF ContactDone, CurrentContact, Exists

LEMMA ListedRows ==
  ASSUME NEW s \in Stores, NEW n \in OfferedContacts
  PROVE  LET t == WriteContact(s, n, "import", "refuse").store
         IN  /\ t \in Stores
             /\ t.entities = s.entities /\ t.relations = s.relations /\ t.literals = s.literals
             /\ Active(s.contacts) \subseteq Active(t.contacts)
             /\ Active(t.contacts) \subseteq Active(s.contacts) \cup {ContactRow(n, "import")}
<1> DEFINE i == Listed(s, n, "import")
<1>1. "import" \in Channels
  BY DEF Channels
<1>2. ASSUME CurrentContact(s, n) = {}
      PROVE  /\ i \in Stores
             /\ i.entities = s.entities /\ i.relations = s.relations /\ i.literals = s.literals
             /\ Active(i.contacts) = Active(s.contacts) \cup {ContactRow(n, "import")}
  BY <1>1, <1>2, ListedContacts
<1> QED
  BY <1>2, WrittenContact DEF Refused, Accepted

LEMMA ContactStaysAfterContact ==
  ASSUME NEW s \in Stores, NEW c \in OfferedContacts, ContactDone(s, c), NEW n \in OfferedContacts
  PROVE  ContactDone(WriteContact(s, n, "import", "refuse").store, c)
<1> DEFINE t == WriteContact(s, n, "import", "refuse").store
<1>1. Active(s.contacts) \subseteq Active(t.contacts) /\ t.entities = s.entities
  BY ListedRows
<1> QED
  BY <1>1 DEF ContactDone, CurrentContact, Exists

LEMMA RelatedRows ==
  ASSUME NEW s \in Stores, NEW n \in FileRelations
  PROVE  LET t == WriteRelation(s, n.from, n.pred, n.to, "import", "refuse").store
         IN  /\ t \in Stores
             /\ t.entities = s.entities /\ t.literals = s.literals /\ t.contacts = s.contacts
             /\ Active(t.relations) \subseteq Active(s.relations) \cup {RowOf(n)}
             /\ \A who : HasMembershipRow(s, who) => HasMembershipRow(t, who)
<1> DEFINE row == RowOf(n)
           i == AssertRelation(s, row)
<1>1. row \in RelationRows /\ row.life = "active"
  BY RelationRowType DEF RowOf, RelationRow, FileRelations, OfferedRelations, Channels
<1>2. /\ i \in Stores
      /\ i.entities = s.entities /\ i.literals = s.literals /\ i.contacts = s.contacts
      /\ Active(i.relations) \subseteq Active(s.relations) \cup {row}
      /\ \A who : HasMembershipRow(s, who) => HasMembershipRow(i, who)
  BY <1>1, RelationStore, AssertedRelations, AssertedHolds
<1> QED
  BY <1>2 DEF WriteRelation, Refused, Accepted, RowOf

-----------------------------------------------------------------------------
(* The writes of the other tools.                                          *)

StoreSound(s) == OneCurrentValue(s) /\ OrdersAreFree(s)

NothingImported(s, t) ==
  /\ NewImports(s.literals, t.literals) = {}
  /\ NewImports(s.relations, t.relations) = {}
  /\ NewImports(s.contacts, t.contacts) = {}

\* What a write that is not a load's does at most.
Foreign(s, t) ==
  /\ t \in Stores
  /\ StoreSound(s) => StoreSound(t)
  /\ NothingImported(s, t)

LEMMA NoImport ==
  ASSUME NEW old, NEW new, NEW chan, chan # "import",
         \A x \in Active(new) : x \in old \/ x.chan = chan
  PROVE  NewImports(old, new) = {}
BY DEF NewImports, OfChannel, Active

LEMMA SameImports ==
  ASSUME NEW rows
  PROVE  NewImports(rows, rows) = {}
BY DEF NewImports, OfChannel, Active

LEMMA ForeignNothing ==
  ASSUME NEW s \in Stores
  PROVE  Foreign(s, s)
BY SameImports DEF Foreign, NothingImported

LEMMA ForeignUpsert ==
  ASSUME NEW s \in Stores, NEW who \in Names
  PROVE  Foreign(s, UpsertEntity(s, who))
<1> DEFINE new == Entity(who, "none", FALSE)
           t == [s EXCEPT !.entities = @ \cup {new}]
<1>1. new \in EntityRows
  BY DEF Entity, EntityRows, Keys
<1>2. t \in Stores /\ t.literals = s.literals /\ t.relations = s.relations /\ t.contacts = s.contacts
  BY <1>1 DEF Stores
<1>3. Foreign(s, t)
  BY <1>2, SameImports DEF Foreign, NothingImported, StoreSound, OneCurrentValue, OrdersAreFree
<1> QED
  BY <1>3, ForeignNothing DEF UpsertEntity

LEMMA ForeignLiteral ==
  ASSUME NEW s \in Stores, NEW l \in OfferedLiterals, NEW chan \in Channels \ {"import"}, NEW policy
  PROVE  Foreign(s, WriteLiteral(s, l, chan, policy).store)
<1> DEFINE row == LiteralRow(l, chan)
           i == InsertLiteral(s, row)
<1>1. row \in LiteralRows /\ row.life = "active" /\ row.chan = chan
  BY LiteralRowType DEF LiteralRow
<1>2. /\ i \in Stores
      /\ Active(i.literals) \subseteq Active(s.literals) \cup {row}
      /\ i.relations = s.relations /\ i.contacts = s.contacts
  BY <1>1, InsertedLiterals
<1>3. NewImports(s.literals, i.literals) = {}
  BY <1>1, <1>2, NoImport DEF Active
<1>4. OneCurrentValue(s) => OneCurrentValue(i)
  BY <1>1, OneCurrentAfterInsert
<1>5. Foreign(s, i)
  BY <1>2, <1>3, <1>4, SameImports DEF Foreign, NothingImported, StoreSound, OrdersAreFree
<1> QED
  BY <1>5, ForeignNothing, WrittenLiteral DEF Refused, Accepted

LEMMA ForeignContact ==
  ASSUME NEW s \in Stores, NEW c \in OfferedContacts, NEW chan \in Channels \ {"import"}, NEW policy
  PROVE  Foreign(s, WriteContact(s, c, chan, policy).store)
<1> DEFINE i == Listed(s, c, chan)
           t == WriteContact(s, c, chan, policy).store
<1>1. ContactRow(c, chan).chan = chan
  BY DEF ContactRow
<1>2. /\ i \in Stores
      /\ Active(i.contacts) \subseteq Active(s.contacts) \cup {ContactRow(c, chan)}
      /\ i.relations = s.relations /\ i.literals = s.literals
  BY ListedContacts
<1>3. NewImports(s.contacts, i.contacts) = {}
  BY <1>1, <1>2, NoImport DEF Active
<1>4. NothingImported(s, i)
  BY <1>2, <1>3, SameImports DEF NothingImported
<1>5. OrdersAreFree(s) => OrdersAreFree(t)
  BY ContactsKeepOrdersFree
<1>6. OneCurrentValue(s) => OneCurrentValue(i)
  BY <1>2 DEF OneCurrentValue
<1>7. t = s \/ t = i
  BY WrittenContact DEF Refused, Accepted
<1> QED
  BY <1>2, <1>4, <1>5, <1>6, <1>7, ForeignNothing DEF Foreign, StoreSound

\* The relation of the personal setup.
LEMMA ForeignRelation ==
  ASSUME NEW s \in Stores, NEW row \in RelationRows, row.chan # "import"
  PROVE  Foreign(s, AssertRelation(s, row))
<1> SUFFICES ASSUME NEW t, t = AssertRelation(s, row)
             PROVE  Foreign(s, t)
  OBVIOUS
<1>1. /\ t \in Stores /\ t.literals = s.literals /\ t.contacts = s.contacts
      /\ Active(t.relations) \subseteq Active(s.relations) \cup {row}
  BY RelationStore, AssertedRelations
<1>2. \A x \in Active(t.relations) : x \in s.relations \/ x.chan = row.chan
  BY <1>1 DEF Active
<1>3. NewImports(s.relations, t.relations) = {}
  BY <1>2, NoImport
<1>4. NothingImported(s, t)
  BY <1>1, <1>3, SameImports DEF NothingImported
<1>5. (OneCurrentValue(s) <=> OneCurrentValue(t)) /\ (OrdersAreFree(s) <=> OrdersAreFree(t))
  BY <1>1 DEF OneCurrentValue, OrdersAreFree
<1> QED
  BY <1>1, <1>4, <1>5 DEF Foreign, StoreSound

LEMMA RevokedRows ==
  ASSUME NEW rows, NEW row, [row EXCEPT !.life = "revoked"].life = "revoked"
  PROVE  /\ Active(Revoked(rows, row)) \subseteq Active(rows)
         /\ NewImports(rows, Revoked(rows, row)) = {}
<1>1. Active(Revoked(rows, row)) \subseteq Active(rows)
  <2>1. CASE row \in Active(rows)
    BY <2>1 DEF Revoked, Active
  <2>2. CASE row \notin Active(rows)
    BY <2>2 DEF Revoked
  <2> QED
    BY <2>1, <2>2
<1> QED
  BY <1>1 DEF NewImports, OfChannel, Active

LEMMA ForeignRevocations ==
  ASSUME NEW s \in Stores
  PROVE  /\ \A row \in Active(s.literals) : Foreign(s, [s EXCEPT !.literals = Revoked(@, row)])
         /\ \A row \in Active(s.relations) : Foreign(s, [s EXCEPT !.relations = Revoked(@, row)])
         /\ \A row \in Active(s.contacts) : Foreign(s, [s EXCEPT !.contacts = Revoked(@, row)])
<1>1. ASSUME NEW row \in Active(s.literals)
      PROVE  Foreign(s, [s EXCEPT !.literals = Revoked(@, row)])
  <2> DEFINE gone == [row EXCEPT !.life = "revoked"]
             t == [s EXCEPT !.literals = Revoked(@, row)]
  <2>1. row \in LiteralRows
    BY DEF Active, Stores
  <2>2. gone \in LiteralRows /\ gone.life = "revoked"
    BY <2>1 DEF LiteralRows, Life
  <2>3. Revoked(s.literals, row) \subseteq LiteralRows
    BY <2>2 DEF Revoked, Stores
  <2>4. t \in Stores /\ t.literals = Revoked(s.literals, row) /\ t.relations = s.relations
        /\ t.contacts = s.contacts
    BY <2>3 DEF Stores
  <2>5. Active(t.literals) \subseteq Active(s.literals) /\ NewImports(s.literals, t.literals) = {}
    BY <2>2, <2>4, RevokedRows
  <2>6. NothingImported(s, t)
    BY <2>4, <2>5, SameImports DEF NothingImported
  <2>7. StoreSound(s) => StoreSound(t)
    BY <2>4, <2>5 DEF StoreSound, OneCurrentValue, OrdersAreFree
  <2> QED
    BY <2>4, <2>6, <2>7 DEF Foreign
<1>2. ASSUME NEW row \in Active(s.relations)
      PROVE  Foreign(s, [s EXCEPT !.relations = Revoked(@, row)])
  <2> DEFINE gone == [row EXCEPT !.life = "revoked"]
             t == [s EXCEPT !.relations = Revoked(@, row)]
  <2>1. row \in RelationRows
    BY DEF Active, Stores
  <2>2. gone \in RelationRows /\ gone.life = "revoked"
    BY <2>1 DEF RelationRows, Life
  <2>3. Revoked(s.relations, row) \subseteq RelationRows
    BY <2>2 DEF Revoked, Stores
  <2>4. t \in Stores /\ t.relations = Revoked(s.relations, row) /\ t.literals = s.literals
        /\ t.contacts = s.contacts
    BY <2>3 DEF Stores
  <2>5. Active(t.relations) \subseteq Active(s.relations) /\ NewImports(s.relations, t.relations) = {}
    BY <2>2, <2>4, RevokedRows
  <2>6. NothingImported(s, t)
    BY <2>4, <2>5, SameImports DEF NothingImported
  <2>7. StoreSound(s) => StoreSound(t)
    BY <2>4 DEF StoreSound, OneCurrentValue, OrdersAreFree
  <2> QED
    BY <2>4, <2>6, <2>7 DEF Foreign
<1>3. ASSUME NEW row \in Active(s.contacts)
      PROVE  Foreign(s, [s EXCEPT !.contacts = Revoked(@, row)])
  <2> DEFINE gone == [row EXCEPT !.life = "revoked"]
             t == [s EXCEPT !.contacts = Revoked(@, row)]
  <2>1. row \in ContactRows
    BY DEF Active, Stores
  <2>2. gone \in ContactRows /\ gone.life = "revoked"
    BY <2>1 DEF ContactRows, Life
  <2>3. Revoked(s.contacts, row) \subseteq ContactRows
    BY <2>2 DEF Revoked, Stores
  <2>4. t \in Stores /\ t.contacts = Revoked(s.contacts, row) /\ t.literals = s.literals
        /\ t.relations = s.relations
    BY <2>3 DEF Stores
  <2>5. Active(t.contacts) \subseteq Active(s.contacts) /\ NewImports(s.contacts, t.contacts) = {}
    BY <2>2, <2>4, RevokedRows
  <2>6. NothingImported(s, t)
    BY <2>4, <2>5, SameImports DEF NothingImported
  <2>7. StoreSound(s) => StoreSound(t)
    BY <2>4, <2>5 DEF StoreSound, OneCurrentValue, OrdersAreFree
  <2> QED
    BY <2>4, <2>6, <2>7 DEF Foreign
<1> QED
  BY <1>1, <1>2, <1>3

-----------------------------------------------------------------------------
(* Types.                                                                  *)

Plans == [entities : SUBSET EntityRows, relations : SUBSET FileRelations,
          literals : SUBSET OfferedLiterals, contacts : SUBSET OfferedContacts]
Files == Seeds \cup {NoSeed}
Loaders == [at : {"idle", "begin", "tx", "review"}, file : Files, replace : BOOLEAN, apply : BOOLEAN,
            declared : BOOLEAN, opened : BOOLEAN, commit : BOOLEAN, left : Plans,
            ids : SUBSET Names, work : Stores, problem : BOOLEAN]
Setups == [at : {"idle", "owner", "role", "children", "relation"}, left : SUBSET SetupChildren,
           child : SetupChildren \cup {Owner}]
Lasts == [file : Files, untouched : BOOLEAN]

\* A record of a commissioning, whatever its fields hold.
Shaped(rec) ==
  rec \in [status : {rec.status}, sha : {rec.sha}, sections : {rec.sections},
           columns : {rec.columns}, ready : {rec.ready}]

\* The parts of the state that the argument looks at.
Typed ==
  /\ store \in Stores
  /\ setup \in Setups
  /\ loader \in Loaders
  /\ editor \subseteq ContactRows
  /\ last \in Lasts
  /\ Shaped(record)

LEMMA PlanType ==
  ASSUME NEW id \in Seeds
  PROVE  Plan(Contents[id]) \in Plans
<1>1. RelationsOf(Contents[id]) \subseteq FileRelations
  <2>1. \A list \in Relatives : PredicateOf(list) \in RelativePredicates
    BY DEF Relatives, PredicateOf, RelativePredicates
  <2>2. {"child_of", "partner_of", "pet_of", "withhold_from"} \cup RelativePredicates
          \subseteq MembershipPredicates \cup PoolRelations
    BY DEF MembershipPredicates, PoolRelations
  <2>3. \A who : /\ Relation(who, "child_of", Owner).pred = "child_of"
                 /\ Relation(who, "partner_of", Owner).pred = "partner_of"
                 /\ Relation(who, "pet_of", Owner).pred = "pet_of"
                 /\ Relation(Owner, "withhold_from", who).pred = "withhold_from"
                 /\ \A list : Relation(Owner, PredicateOf(list), who).pred = PredicateOf(list)
    BY DEF Relation
  <2>4. \A r \in RelationsOf(Contents[id]) : r.pred \in MembershipPredicates \cup PoolRelations
    <3> SUFFICES ASSUME NEW r \in RelationsOf(Contents[id])
                 PROVE  r.pred \in MembershipPredicates \cup PoolRelations
      OBVIOUS
    <3> DEFINE file == Contents[id]
    <3>1. CASE r \in {Relation(who, "child_of", Owner) : who \in Children(file)}
      BY <2>2, <2>3, <3>1
    <3>2. CASE r \in {Relation(who, "partner_of", Owner) : who \in file.partner}
      BY <2>2, <2>3, <3>2
    <3>3. CASE r \in {Relation(who, "pet_of", Owner) : who \in file.pets}
      BY <2>2, <2>3, <3>3
    <3>4. CASE r \in {Relation(Owner, "withhold_from", who) : who \in file.withhold}
      BY <2>2, <2>3, <3>4
    <3>5. CASE r \in UNION {{Relation(Owner, PredicateOf(list), who) : who \in file[list]} :
                            list \in Relatives}
      BY <2>1, <2>2, <2>3, <3>5
    <3> QED
      BY <3>1, <3>2, <3>3, <3>4, <3>5 DEF RelationsOf
  <2> QED
    BY <2>4, ContentsAreFiles DEF FileRelations
<1> QED
  BY <1>1, ContentsAreFiles DEF Plan, Plans

LEMMA EmptyTypes ==
  /\ EmptyStore \in Stores /\ NoPlan \in Plans /\ NoLoad \in Loaders /\ NoSetup \in Setups
BY DEF EmptyStore, Stores, NoPlan, Plans, NoLoad, Loaders, Files, NoSetup, Setups

LEMMA RetractedStore ==
  ASSUME NEW s \in Stores
  PROVE  LET gone == DeleteByChannel(s, "import")
             t == [gone EXCEPT !.entities = @ \ Orphans(gone)]
         IN  /\ gone \in Stores /\ t \in Stores
             /\ t.literals \subseteq s.literals /\ t.relations \subseteq s.relations
             /\ t.contacts \subseteq s.contacts
BY DEF DeleteByChannel, Stores

-----------------------------------------------------------------------------
(* The transaction of a load, write by write.                              *)

\* What is imported in t and was not in s, the file says.
Says(file, s, t) ==
  /\ \A row \in NewImports(s.literals, t.literals) : SaysLiteral(file, row)
  /\ \A row \in NewImports(s.relations, t.relations) : SaysRelation(file, row)
  /\ \A row \in NewImports(s.contacts, t.contacts) : SaysContact(file, row)

Remains(plan, left) ==
  /\ left.entities \subseteq plan.entities /\ left.relations \subseteq plan.relations
  /\ left.literals \subseteq plan.literals /\ left.contacts \subseteq plan.contacts
  /\ left.entities # {} => left.literals = plan.literals

DoneSoFar(s, plan, left) ==
  /\ \A e \in plan.entities \ left.entities : EntityDone(s, e)
  /\ \A r \in plan.relations \ left.relations : RelationDone(s, r)
  /\ \A l \in plan.literals \ left.literals : LiteralDone(s, l)
  /\ \A c \in plan.contacts \ left.contacts : ContactDone(s, c)

\* Of a transaction that started on the rows base: work are its rows.
Tx(base, id, left, work, problem) ==
  LET plan == Plan(Contents[id])
  IN  /\ Remains(plan, left)
      /\ StoreSound(work)
      /\ Says(Contents[id], base, work)
      /\ ~problem => DoneSoFar(work, plan, left)

LEMMA SaidLiteral ==
  ASSUME NEW file, NEW old, NEW before, NEW after, NEW l \in file.literals,
         \A row \in NewImports(old, before) : SaysLiteral(file, row),
         Active(after) \subseteq Active(before) \cup {LiteralRow(l, "import")}
  PROVE  \A row \in NewImports(old, after) : SaysLiteral(file, row)
BY DEF NewImports, OfChannel, Active, SaysLiteral

LEMMA SaidRelation ==
  ASSUME NEW file, NEW old, NEW before, NEW after, NEW r \in RelationsOf(file),
         \A row \in NewImports(old, before) : SaysRelation(file, row),
         Active(after) \subseteq Active(before) \cup {RowOf(r)}
  PROVE  \A row \in NewImports(old, after) : SaysRelation(file, row)
BY DEF NewImports, OfChannel, Active, SaysRelation, RowOf

LEMMA SaidContact ==
  ASSUME NEW file, NEW old, NEW before, NEW after, NEW c \in file.contacts,
         \A row \in NewImports(old, before) : SaysContact(file, row),
         Active(after) \subseteq Active(before) \cup {ContactRow(c, "import")}
  PROVE  \A row \in NewImports(old, after) : SaysContact(file, row)
BY DEF NewImports, OfChannel, Active, SaysContact

LEMMA TxCreates ==
  ASSUME NEW base, NEW id \in Seeds, NEW left \in Plans, NEW work \in Stores, NEW problem \in BOOLEAN,
         Tx(base, id, left, work, problem), NEW e \in left.entities,
         NEW written, written = CreateThirdParty(work, e.who, e.key, e.adult),
         NEW rest, rest = [left EXCEPT !.entities = @ \ {e}]
  PROVE  /\ Tx(base, id, rest, written.store, problem \/ ~written.ok)
         /\ written.store \in Stores /\ rest \in Plans
<1> DEFINE plan == Plan(Contents[id])
           t == written.store
<1>1. e \in EntityRows
  BY DEF Plans
<1>2. /\ rest \in Plans /\ rest.entities = left.entities \ {e}
      /\ rest.relations = left.relations /\ rest.literals = left.literals
      /\ rest.contacts = left.contacts
  BY DEF Plans
<1>3. /\ t \in Stores
      /\ t.literals = work.literals /\ t.relations = work.relations /\ t.contacts = work.contacts
      /\ work.entities \subseteq t.entities
  BY <1>1, CreatedStore
<1>4. Remains(plan, rest)
  BY <1>2 DEF Tx, Remains
<1>5. StoreSound(t)
  BY <1>3 DEF Tx, StoreSound, OneCurrentValue, OrdersAreFree
<1>6. Says(Contents[id], base, t)
  BY <1>3 DEF Tx, Says
<1>7. ASSUME ~problem, written.ok
      PROVE  DoneSoFar(t, plan, rest)
  <2>1. DoneSoFar(work, plan, left) /\ left.literals = plan.literals
    BY <1>7 DEF Tx, Remains
  <2>2. \A d \in plan.entities \ rest.entities : EntityDone(t, d)
    BY <2>1, <1>1, <1>2, <1>7, CreationDone, EntityStays DEF DoneSoFar
  <2>3. \A r \in plan.relations \ rest.relations : RelationDone(t, r)
    BY <2>1, <1>2, <1>3, RelationStaysElsewhere, PlanType DEF DoneSoFar, Plans
  <2>4. \A c \in plan.contacts \ rest.contacts : ContactDone(t, c)
    BY <2>1, <1>2, <1>3, ContactStaysElsewhere DEF DoneSoFar
  <2> QED
    BY <2>1, <2>2, <2>3, <2>4, <1>2 DEF DoneSoFar
<1> QED
  BY <1>2, <1>3, <1>4, <1>5, <1>6, <1>7 DEF Tx

\* A write that is refused or skipped.
LEMMA TxRefuses ==
  ASSUME NEW base, NEW id \in Seeds, NEW left, NEW work \in Stores, NEW problem \in BOOLEAN,
         Tx(base, id, left, work, problem), NEW rest, Remains(Plan(Contents[id]), rest),
         NEW written, written = Refused(work)
  PROVE  /\ Tx(base, id, rest, written.store, problem \/ ~written.ok)
         /\ written.store \in Stores
BY DEF Tx, Refused

LEMMA TxRelates ==
  ASSUME NEW base, NEW id \in Seeds, NEW left \in Plans, NEW work \in Stores, NEW problem \in BOOLEAN,
         Tx(base, id, left, work, problem), NEW n \in left.relations,
         NEW written, written = WriteRelation(work, n.from, n.pred, n.to, "import", "refuse"),
         NEW rest, rest = [left EXCEPT !.relations = @ \ {n}]
  PROVE  /\ Tx(base, id, rest, written.store, problem \/ ~written.ok)
         /\ written.store \in Stores /\ rest \in Plans /\ Remains(Plan(Contents[id]), rest)
<1> DEFINE plan == Plan(Contents[id])
           t == written.store
<1>1. n \in FileRelations /\ n \in RelationsOf(Contents[id])
  BY DEF Plans, Plan, Tx, Remains
<1>2. /\ rest \in Plans /\ rest.relations = left.relations \ {n}
      /\ rest.entities = left.entities /\ rest.literals = left.literals
      /\ rest.contacts = left.contacts
  BY DEF Plans
<1>3. /\ t \in Stores
      /\ t.entities = work.entities /\ t.literals = work.literals /\ t.contacts = work.contacts
      /\ Active(t.relations) \subseteq Active(work.relations) \cup {RowOf(n)}
      /\ \A who : HasMembershipRow(work, who) => HasMembershipRow(t, who)
  BY <1>1, RelatedRows
<1>4. Remains(plan, rest)
  BY <1>2 DEF Tx, Remains
<1>5. StoreSound(t)
  BY <1>3 DEF Tx, StoreSound, OneCurrentValue, OrdersAreFree
<1>6. Says(Contents[id], base, t)
  <2>1. \A row \in NewImports(base.relations, t.relations) : SaysRelation(Contents[id], row)
    BY <1>1, <1>3, SaidRelation DEF Tx, Says
  <2> QED
    BY <1>3, <2>1 DEF Tx, Says
<1>7. ASSUME ~problem, written.ok
      PROVE  DoneSoFar(t, plan, rest)
  <2>1. DoneSoFar(work, plan, left)
    BY <1>7 DEF Tx
  <2>2. \A d \in plan.entities \ rest.entities : EntityDone(t, d)
    BY <2>1, <1>2, <1>3 DEF DoneSoFar, EntityDone, Exists
  <2>3. RelationDone(t, n)
    BY <1>1, <1>7, RelatingDone DEF FileRelations
  <2>4. \A r \in plan.relations \ rest.relations : RelationDone(t, r)
    BY <2>1, <2>3, <1>1, <1>2, <1>7, RelationStaysAfterRelation, PlanType DEF DoneSoFar, Plans
  <2>5. \A l \in plan.literals \ rest.literals : LiteralDone(t, l)
    BY <2>1, <1>2, <1>3, LiteralStaysElsewhere DEF DoneSoFar
  <2>6. \A c \in plan.contacts \ rest.contacts : ContactDone(t, c)
    BY <2>1, <1>2, <1>3, ContactStaysElsewhere DEF DoneSoFar
  <2> QED
    BY <2>2, <2>4, <2>5, <2>6 DEF DoneSoFar
<1> QED
  BY <1>2, <1>3, <1>4, <1>5, <1>6, <1>7 DEF Tx

LEMMA TxStates ==
  ASSUME NEW base, NEW id \in Seeds, NEW left \in Plans, NEW work \in Stores, NEW problem \in BOOLEAN,
         Tx(base, id, left, work, problem), left.entities = {}, NEW n \in left.literals,
         NEW written, written = WriteLiteral(work, n, "import", "refuse"),
         NEW rest, rest = [left EXCEPT !.literals = @ \ {n}]
  PROVE  /\ Tx(base, id, rest, written.store, problem \/ ~written.ok)
         /\ written.store \in Stores /\ rest \in Plans /\ Remains(Plan(Contents[id]), rest)
<1> DEFINE plan == Plan(Contents[id])
           t == written.store
<1>1. n \in OfferedLiterals /\ n \in Contents[id].literals
  BY DEF Plans, Plan, Tx, Remains
<1>2. /\ rest \in Plans /\ rest.literals = left.literals \ {n}
      /\ rest.entities = left.entities /\ rest.relations = left.relations
      /\ rest.contacts = left.contacts
  BY DEF Plans
<1>3. /\ t \in Stores
      /\ t.entities = work.entities /\ t.relations = work.relations /\ t.contacts = work.contacts
      /\ Active(t.literals) \subseteq Active(work.literals) \cup {LiteralRow(n, "import")}
  BY <1>1, StatedRows
<1>4. Remains(plan, rest)
  BY <1>2 DEF Tx, Remains
<1>5. StoreSound(t)
  <2>1. "import" \in Channels
    BY DEF Channels
  <2>2. OneCurrentValue(t)
    BY <1>1, <2>1, LiteralsKeepOneCurrentValue DEF Tx, StoreSound
  <2> QED
    BY <1>3, <2>2 DEF Tx, StoreSound, OrdersAreFree
<1>6. Says(Contents[id], base, t)
  <2>1. \A row \in NewImports(base.literals, t.literals) : SaysLiteral(Contents[id], row)
    BY <1>1, <1>3, SaidLiteral, ZenonT(60) DEF Tx, Says
  <2> QED
    BY <1>3, <2>1 DEF Tx, Says
<1>7. ASSUME ~problem, written.ok
      PROVE  DoneSoFar(t, plan, rest)
  <2>1. DoneSoFar(work, plan, left)
    BY <1>7 DEF Tx
  <2>2. \A d \in plan.entities \ rest.entities : EntityDone(t, d)
    BY <2>1, <1>2, <1>3 DEF DoneSoFar, EntityDone, Exists
  <2>3. \A r \in plan.relations \ rest.relations : RelationDone(t, r)
    BY <2>1, <1>2, <1>3, RelationStaysElsewhere, PlanType DEF DoneSoFar, Plans
  <2>4. LiteralDone(t, n)
    BY <1>1, <1>7, StatingDone
  <2>5. \A l \in plan.literals \ rest.literals : LiteralDone(t, l)
    BY <2>1, <2>4, <1>1, <1>2, LiteralStaysAfterLiteral, PlanType DEF DoneSoFar, Plans
  <2>6. \A c \in plan.contacts \ rest.contacts : ContactDone(t, c)
    BY <2>1, <1>2, <1>3, ContactStaysElsewhere DEF DoneSoFar
  <2> QED
    BY <2>2, <2>3, <2>5, <2>6 DEF DoneSoFar
<1> QED
  BY <1>2, <1>3, <1>4, <1>5, <1>6, <1>7 DEF Tx

LEMMA TxLists ==
  ASSUME NEW base, NEW id \in Seeds, NEW left \in Plans, NEW work \in Stores, NEW problem \in BOOLEAN,
         Tx(base, id, left, work, problem), NEW n \in left.contacts,
         NEW written, written = WriteContact(work, n, "import", "refuse"),
         NEW rest, rest = [left EXCEPT !.contacts = @ \ {n}]
  PROVE  /\ Tx(base, id, rest, written.store, problem \/ ~written.ok)
         /\ written.store \in Stores /\ rest \in Plans /\ Remains(Plan(Contents[id]), rest)
<1> DEFINE plan == Plan(Contents[id])
           t == written.store
<1>1. n \in OfferedContacts /\ n \in Contents[id].contacts
  BY DEF Plans, Plan, Tx, Remains
<1>2. /\ rest \in Plans /\ rest.contacts = left.contacts \ {n}
      /\ rest.entities = left.entities /\ rest.relations = left.relations
      /\ rest.literals = left.literals
  BY DEF Plans
<1>3. /\ t \in Stores
      /\ t.entities = work.entities /\ t.relations = work.relations /\ t.literals = work.literals
      /\ Active(t.contacts) \subseteq Active(work.contacts) \cup {ContactRow(n, "import")}
  BY <1>1, ListedRows
<1>4. Remains(plan, rest)
  BY <1>2 DEF Tx, Remains
<1>5. StoreSound(t)
  <2>1. "import" \in Channels
    BY DEF Channels
  <2>2. OrdersAreFree(t)
    BY <1>1, <2>1, ContactsKeepOrdersFree DEF Tx, StoreSound
  <2> QED
    BY <1>3, <2>2 DEF Tx, StoreSound, OneCurrentValue
<1>6. Says(Contents[id], base, t)
  <2>1. \A row \in NewImports(base.contacts, t.contacts) : SaysContact(Contents[id], row)
    BY <1>1, <1>3, SaidContact DEF Tx, Says
  <2> QED
    BY <1>3, <2>1 DEF Tx, Says
<1>7. ASSUME ~problem, written.ok
      PROVE  DoneSoFar(t, plan, rest)
  <2>1. DoneSoFar(work, plan, left)
    BY <1>7 DEF Tx
  <2>2. \A d \in plan.entities \ rest.entities : EntityDone(t, d)
    BY <2>1, <1>2, <1>3 DEF DoneSoFar, EntityDone, Exists
  <2>3. \A r \in plan.relations \ rest.relations : RelationDone(t, r)
    BY <2>1, <1>2, <1>3, RelationStaysElsewhere, PlanType DEF DoneSoFar, Plans
  <2>4. \A l \in plan.literals \ rest.literals : LiteralDone(t, l)
    <3>1. \A who : HasMembershipRow(work, who) => HasMembershipRow(t, who)
      BY <1>3 DEF HasMembershipRow, Between
    <3> QED
      BY <3>1, <2>1, <1>2, <1>3, LiteralStaysElsewhere DEF DoneSoFar
  <2>5. ContactDone(t, n)
    BY <1>1, <1>7, ListingDone
  <2>6. \A c \in plan.contacts \ rest.contacts : ContactDone(t, c)
    BY <2>1, <2>5, <1>1, <1>2, ContactStaysAfterContact, PlanType DEF DoneSoFar, Plans
  <2> QED
    BY <2>2, <2>3, <2>4, <2>6 DEF DoneSoFar
<1> QED
  BY <1>2, <1>3, <1>4, <1>5, <1>6, <1>7 DEF Tx

LEMMA TxBegins ==
  ASSUME NEW base \in Stores, StoreSound(base), NEW id \in Seeds, NEW work,
         work.literals \subseteq base.literals, work.relations \subseteq base.relations,
         work.contacts \subseteq base.contacts
  PROVE  Tx(base, id, Plan(Contents[id]), work, FALSE)
<1>1. Remains(Plan(Contents[id]), Plan(Contents[id]))
  BY DEF Remains
<1>2. StoreSound(work)
  BY DEF StoreSound, OneCurrentValue, OrdersAreFree, Active
<1>3. Says(Contents[id], base, work)
  BY DEF Says, NewImports, Active, OfChannel
<1>4. DoneSoFar(work, Plan(Contents[id]), Plan(Contents[id]))
  BY DEF DoneSoFar
<1> QED
  BY <1>1, <1>2, <1>3, <1>4 DEF Tx

-----------------------------------------------------------------------------
(* The inductive invariant.                                                *)

Kept ==
  /\ StoreSound(store)
  /\ loader.at # "idle" => loader.file \in Seeds
  /\ loader.at = "tx" => Tx(store, loader.file, loader.left, loader.work, loader.problem)
  /\ last.untouched => last.file \in Seeds /\ Harmless(store, Plan(Contents[last.file]))

IInv == Typed /\ Kept

\* What a step may do to the imported rows and to a closed record.
Recording ==
  /\ record.status = "closed" => record' = record
  /\ \/ NothingImported(store, store')
     \/ /\ record'.status = "open" /\ record'.sha \in Seeds
        /\ Says(Contents[record'.sha], store, store')

LEMMA InitKept == Init => IInv
<1> SUFFICES ASSUME Init PROVE IInv
  OBVIOUS
<1>1. Typed
  BY EmptyTypes DEF Init, Typed, Shaped, Lasts, Files, NoEdit, NoRecord
<1>2. StoreSound(EmptyStore)
  BY DEF StoreSound, OneCurrentValue, OrdersAreFree, EmptyStore, Active
<1> QED
  BY <1>1, <1>2 DEF Init, Kept, IInv, NoLoad

\* A step of another tool that leaves the rows and the load as they are.
LEMMA QuietStep ==
  ASSUME IInv, UNCHANGED <<store, loader, last>>
  PROVE  Kept' /\ NothingImported(store, store')
BY SameImports DEF IInv, Kept, NothingImported

\* A step of another tool that writes.
LEMMA WritingStep ==
  ASSUME IInv, NEW t, Foreign(store, t), Writes(t), UNCHANGED loader
  PROVE  Kept' /\ NothingImported(store, store') /\ store' \in Stores /\ last' \in Lasts
<1>1. /\ store' = t /\ loader.at # "tx" /\ last' \in Lasts /\ last'.file = last.file
      /\ last'.untouched => last.untouched /\ t = store
  BY DEF Writes, Unlocked, IInv, Typed, Lasts
<1> QED
  BY <1>1 DEF Foreign, IInv, Kept

LEMMA SetupStep ==
  ASSUME IInv, Setup
  PROVE  IInv' /\ Recording
<1>1. UNCHANGED <<record, editor, loader>>
  BY DEF Setup, SetupStarts, SetupNamesOwner, SetupGivesRole, SetupNamesChild, SetupRelatesChild,
         SetupSavesPin, SetupStops, tools
<1>2. setup' \in Setups
  <2>1. setup \in Setups
    BY DEF IInv, Typed
  <2>2. CASE \E children \in SUBSET SetupChildren : SetupStarts(children)
    BY <2>2 DEF SetupStarts, SetupGoes, Setups
  <2>3. CASE SetupNamesOwner \/ SetupGivesRole
    BY <2>1, <2>3 DEF SetupNamesOwner, SetupGivesRole, SetupGoes, Setups
  <2>4. CASE \E child \in SetupChildren : SetupNamesChild(child)
    BY <2>1, <2>4 DEF SetupNamesChild, SetupGoes, Setups
  <2>5. CASE SetupRelatesChild
    BY <2>1, <2>5 DEF SetupRelatesChild, SetupGoes, Setups
  <2>6. CASE SetupSavesPin \/ SetupStops
    BY <2>6, EmptyTypes DEF SetupSavesPin, SetupStops, SetupGoes
  <2> QED
    BY <2>2, <2>3, <2>4, <2>5, <2>6 DEF Setup
<1>3. /\ Owner \in Names
      /\ \A child \in SetupChildren : child \in Names
  BY OwnerIsAPerson, EditsAreLiterals DEF Names
<1>4. setup.child \in Names
  BY <1>3 DEF IInv, Typed, Setups
<1>5. \/ UNCHANGED <<store, last>>
      \/ \E t : Foreign(store, t) /\ Writes(t)
  <2>1. CASE SetupNamesOwner
    BY <2>1, <1>3, ForeignUpsert DEF SetupNamesOwner, IInv, Typed
  <2>2. CASE \E child \in SetupChildren : SetupNamesChild(child)
    BY <2>2, <1>3, ForeignUpsert DEF SetupNamesChild, IInv, Typed
  <2>3. CASE SetupRelatesChild
    <3> DEFINE row == RelationRow(setup.child, "child_of", Owner,
                                  RelationClass(setup.child, "child_of"), "none")
    <3>1. "none" \in Channels /\ "child_of" \in Relations
      BY DEF Channels, Relations, MembershipPredicates
    <3>2. row \in RelationRows
      BY <3>1, <1>3, <1>4, RelationRowType
    <3>3. row.chan # "import"
      BY DEF RelationRow
    <3>4. Writes(AssertRelation(store, row))
      BY <2>3 DEF SetupRelatesChild
    <3> HIDE DEF row
    <3> QED
      BY <3>2, <3>3, <3>4, ForeignRelation DEF IInv, Typed
  <2> QED
    BY <2>1, <2>2, <2>3 DEF Setup, SetupStarts, SetupGivesRole, SetupSavesPin, SetupStops
<1>6. Kept' /\ NothingImported(store, store') /\ store' \in Stores /\ last' \in Lasts
  <2>1. CASE UNCHANGED <<store, last>>
    BY <2>1, <1>1, QuietStep DEF IInv, Typed
  <2> QED
    BY <2>1, <1>1, <1>5, WritingStep
<1> QED
  BY <1>1, <1>2, <1>6 DEF IInv, Typed, Recording

LEMMA LivingStep ==
  ASSUME IInv, Living
  PROVE  IInv' /\ Recording
<1>1. UNCHANGED <<record, setup, editor, loader>>
  BY DEF Living, Enrol, FaceByName, TasteOffered, TasteLapses, TastePromoted, tools
<1>2. Owner \in Names /\ \A who \in Faces : who \in Names
  BY OwnerIsAPerson, EditsAreLiterals DEF Names
<1>3. \/ UNCHANGED <<store, last>>
      \/ \E t : Foreign(store, t) /\ Writes(t)
  <2>1. CASE \E who \in Faces : FaceByName(who)
    BY <2>1, <1>2, ForeignUpsert DEF FaceByName, IInv, Typed
  <2>2. CASE \E value \in VoiceTastes : TastePromoted(value)
    <3>1. PICK value \in VoiceTastes : TastePromoted(value)
      BY <2>2
    <3> DEFINE l == [who |-> Owner, pred |-> "likes", value |-> value, valid |-> TRUE]
    <3>2. l \in OfferedLiterals
      BY <1>2, EditsAreLiterals DEF OfferedLiterals, Literals, Tastes
    <3>3. "voice" \in Channels \ {"import"}
      BY DEF Channels
    <3>4. Writes(WriteLiteral(store, l, "voice", "supersede").store)
      BY <3>1 DEF TastePromoted
    <3> HIDE DEF l
    <3> QED
      BY <3>2, <3>3, <3>4, ForeignLiteral DEF IInv, Typed
  <2> QED
    BY <2>1, <2>2 DEF Living, Enrol, TasteOffered, TasteLapses
<1>4. Kept' /\ NothingImported(store, store') /\ store' \in Stores /\ last' \in Lasts
  <2>1. CASE UNCHANGED <<store, last>>
    BY <2>1, <1>1, QuietStep DEF IInv, Typed
  <2> QED
    BY <2>1, <1>1, <1>3, WritingStep
<1> QED
  BY <1>1, <1>4 DEF IInv, Typed, Recording

LEMMA ClosingStep ==
  ASSUME IInv, Closing
  PROVE  IInv' /\ Recording
<1>1. UNCHANGED <<store, setup, editor, loader, last>>
  BY DEF Closing, CloseStarts, CloseEvaluates, CloseRecords, CloseReadsRecord,
         CloseReadsDetails, CloseWritesActa, CloseEnds, CloseStops,
         CloseGoes, people
<1>2. Kept' /\ NothingImported(store, store')
  BY <1>1, QuietStep
<1>3. record.status = "closed" => record' = record
  BY DEF Closing, CloseStarts, CloseEvaluates, CloseRecords, CloseReadsRecord,
         CloseReadsDetails, CloseWritesActa, CloseEnds, CloseStops
<1>4. Shaped(record')
  <2>1. CASE record' = record
    BY <2>1 DEF IInv, Typed
  <2>2. CASE CloseEnds
    BY <2>2 DEF CloseEnds, IInv, Typed, Shaped
  <2>3. CASE \E column \in Columns : CloseRecords(column)
    BY <2>3 DEF CloseRecords, IInv, Typed, Shaped
  <2> QED
    BY <2>1, <2>2, <2>3 DEF Closing, CloseStarts, CloseEvaluates, CloseReadsRecord,
                            CloseReadsDetails, CloseWritesActa, CloseStops
<1> QED
  BY <1>1, <1>2, <1>3, <1>4 DEF IInv, Typed, Recording

LEMMA AdministrationStep ==
  ASSUME IInv, Administration
  PROVE  IInv' /\ Recording
<1>1. UNCHANGED <<record, setup, loader>>
  BY DEF Administration, EditLiteral, RevokeLiteral, RevokeRelation, RevokeContact,
         ChangeContactStarts, ChangeContactEnds, ChangeContactStops, Edits, people
<1>2. editor' \subseteq ContactRows
  <2>1. CASE UNCHANGED editor
    BY <2>1 DEF IInv, Typed
  <2>2. CASE editor' = {}
    BY <2>2
  <2>3. CASE \E row \in Active(store.contacts) : ChangeContactStarts(row)
    BY <2>3 DEF ChangeContactStarts, Active, IInv, Typed, Stores
  <2> QED
    BY <2>1, <2>2, <2>3
    DEF Administration, EditLiteral, RevokeLiteral, RevokeRelation, RevokeContact, NoEdit,
        ChangeContactEnds, ChangeContactStops
<1>3. "admin" \in Channels \ {"import"}
  BY DEF Channels
<1>4. \/ UNCHANGED <<store, last>>
      \/ \E t : Foreign(store, t) /\ Writes(t)
  <2>1. CASE \E l \in AdminLiterals : EditLiteral(l)
    BY <2>1, <1>3, ForeignLiteral, EditsAreLiterals DEF EditLiteral, Edits, IInv, Typed
  <2>2. CASE \E row \in Active(store.literals) : RevokeLiteral(row)
    BY <2>2, ForeignRevocations DEF RevokeLiteral, Edits, IInv, Typed
  <2>3. CASE \E row \in Active(store.relations) : RevokeRelation(row)
    BY <2>3, ForeignRevocations DEF RevokeRelation, Edits, IInv, Typed
  <2>4. CASE \E row \in Active(store.contacts) : RevokeContact(row)
    BY <2>4, ForeignRevocations DEF RevokeContact, Edits, IInv, Typed
  <2>5. CASE \E row \in editor, phone \in Phones : ChangeContactEnds(row, phone)
    <3>1. PICK row \in editor, phone \in Phones : ChangeContactEnds(row, phone)
      BY <2>5
    <3> DEFINE c == [who |-> row.who, role |-> row.role, phone |-> phone, order |-> row.order,
                     key |-> row.key]
    <3>2. c \in OfferedContacts
      BY DEF IInv, Typed, ContactRows, OfferedContacts
    <3>3. Writes(WriteContact(store, c, "admin", "supersede").store)
      BY <3>1 DEF ChangeContactEnds, Edits
    <3> HIDE DEF c
    <3> QED
      BY <1>3, <3>2, <3>3, ForeignContact DEF IInv, Typed
  <2> QED
    BY <2>1, <2>2, <2>3, <2>4, <2>5 DEF Administration, ChangeContactStarts, ChangeContactStops
<1>5. Kept' /\ NothingImported(store, store') /\ store' \in Stores /\ last' \in Lasts
  <2>1. CASE UNCHANGED <<store, last>>
    BY <2>1, <1>1, QuietStep DEF IInv, Typed
  <2> QED
    BY <2>1, <1>1, <1>4, WritingStep
<1> QED
  BY <1>1, <1>2, <1>5 DEF IInv, Typed, Recording


\* Every step of a load keeps the invariant; only its commit changes the rows.
LEMMA LoadStep ==
  ASSUME IInv, Load
  PROVE  IInv' /\ Recording
<1>1. UNCHANGED <<setup, editor>>
  BY DEF Load, LoadStarts, LoadBegins, LoadCreates, LoadRelates, LoadStates, LoadLists, LoadEnds,
         LoadConfirmed, LoadStops, LoadOnly, LoadGoes, Did, people
<1>2. ASSUME UNCHANGED <<store, record, last>>, loader' \in Loaders,
             loader'.at # "idle" => loader'.file \in Seeds,
             loader'.at = "tx" =>
               Tx(store, loader'.file, loader'.left, loader'.work, loader'.problem)
      PROVE  IInv' /\ Recording
  BY <1>1, <1>2, SameImports DEF IInv, Typed, Kept, Recording, NothingImported
<1>3. ASSUME LoadOnly(NoLoad)
      PROVE  IInv' /\ Recording
  BY <1>2, <1>3, EmptyTypes DEF LoadOnly, LoadGoes, NoLoad
<1>4. ASSUME NEW load \in Loaders, load.file \in Seeds, NEW commit \in BOOLEAN,
             LoadOnly(Asked(load, commit))
      PROVE  IInv' /\ Recording
  <2> DEFINE asked == [load EXCEPT !.at = "begin", !.commit = commit,
                                   !.opened = (record.status = "open")]
  <2>1. asked \in Loaders /\ asked.at = "begin" /\ asked.file \in Seeds
    BY <1>4 DEF Loaders
  <2>2. loader' = asked \/ LoadOnly(NoLoad)
    BY <1>4 DEF Asked, LoadOnly, LoadGoes
  <2>3. UNCHANGED <<store, record, last>>
    BY <1>4 DEF LoadOnly
  <2> HIDE DEF asked
  <2> QED
    BY <1>2, <1>3, <2>1, <2>2, <2>3
<1>5. ASSUME NEW file \in Seeds, NEW replace \in BOOLEAN, NEW apply \in BOOLEAN,
             NEW declared \in BOOLEAN, LoadStarts(file, replace, apply, declared)
      PROVE  IInv' /\ Recording
  <2> DEFINE load == [NoLoad EXCEPT !.file = file, !.replace = replace, !.apply = apply,
                                    !.declared = declared]
  <2>1. load \in Loaders /\ load.file = file
    BY EmptyTypes DEF Loaders, NoLoad, Files
  <2>2. LoadOnly(Asked(load, FALSE))
    BY <1>5 DEF LoadStarts
  <2> HIDE DEF load
  <2> QED
    BY <1>4, <2>1, <2>2
<1>6. ASSUME LoadConfirmed
      PROVE  IInv' /\ Recording
  BY <1>4, <1>6 DEF LoadConfirmed, IInv, Typed, Kept
<1>7. ASSUME LoadBegins
      PROVE  IInv' /\ Recording
  <2>1. SUFFICES ASSUME ~(loader.replace /\ ReplaceRefused)
                 PROVE  IInv' /\ Recording
    BY <1>3, <1>7 DEF LoadBegins
  <2> DEFINE work == IF loader.replace
                     THEN [Retracted EXCEPT !.entities = @ \ Orphans(Retracted)] ELSE store
             next == [loader EXCEPT !.at = "tx", !.left = Plan(Contents[loader.file]),
                                    !.ids = {Owner}, !.work = work]
  <2>2. /\ work \in Stores /\ work.literals \subseteq store.literals
        /\ work.relations \subseteq store.relations /\ work.contacts \subseteq store.contacts
    BY RetractedStore DEF Retracted, IInv, Typed
  <2>3. loader \in Loaders /\ loader.file \in Seeds /\ StoreSound(store) /\ store \in Stores
        /\ loader.at = "begin"
    BY <1>7 DEF LoadBegins, IInv, Typed, Kept
  <2>4. LoadOnly(next)
    BY <1>7, <2>1 DEF LoadBegins
  <2> HIDE DEF work
  <2>5. Plan(Contents[loader.file]) \in Plans /\ {Owner} \in SUBSET Names
    BY <2>3, PlanType, OwnerIsAPerson DEF Names
  <2>6. /\ next \in Loaders /\ next.at = "tx" /\ next.file = loader.file
        /\ next.left = Plan(Contents[loader.file]) /\ next.work = work
        /\ next.problem = loader.problem
    BY <2>2, <2>3, <2>5 DEF Loaders
  <2>7. Tx(store, loader.file, Plan(Contents[loader.file]), work, FALSE)
    BY <2>2, <2>3, TxBegins
  <2>8. Tx(store, loader.file, Plan(Contents[loader.file]), work, loader.problem)
    BY <2>3, <2>7 DEF Tx, Loaders
  <2>9. loader' = next /\ UNCHANGED <<store, record, last>>
    BY <2>4 DEF LoadOnly, LoadGoes
  <2> HIDE DEF next
  <2> QED
    BY <1>2, <2>3, <2>6, <2>8, <2>9
<1>8. ASSUME loader.at = "tx", NEW written, NEW left \in Plans, NEW ids \in SUBSET Names,
             Did(written, left, ids), written.store \in Stores,
             Tx(store, loader.file, left, written.store, loader.problem \/ ~written.ok)
      PROVE  IInv' /\ Recording
  <2> DEFINE next == [loader EXCEPT !.work = written.store, !.left = left, !.ids = ids,
                                    !.problem = @ \/ ~written.ok]
  <2>1. loader \in Loaders /\ loader.file \in Seeds
    BY <1>8 DEF IInv, Typed, Kept
  <2>2. /\ next.at = "tx" /\ next.file = loader.file /\ next.left = left
        /\ next.work = written.store /\ (next.problem <=> loader.problem \/ ~written.ok)
    BY <1>8, <2>1 DEF Loaders
  <2>3. next \in Loaders
    BY <1>8, <2>1 DEF Loaders
  <2>4. loader' = next /\ UNCHANGED <<store, record, last>>
    BY <1>8 DEF Did, LoadOnly, LoadGoes
  <2> HIDE DEF next
  <2>5. Tx(store, next.file, next.left, next.work, next.problem)
    BY <1>8, <2>2 DEF Tx
  <2> QED
    BY <1>2, <2>1, <2>2, <2>3, <2>4, <2>5
<1>9. ASSUME InTransaction
      PROVE  /\ loader.at = "tx" /\ loader.file \in Seeds /\ loader.left \in Plans
             /\ loader.ids \in SUBSET Names /\ loader.work \in Stores /\ loader.problem \in BOOLEAN
             /\ Tx(store, loader.file, loader.left, loader.work, loader.problem)
  BY <1>9 DEF InTransaction, IInv, Typed, Kept, Loaders
<1>10. ASSUME NEW e \in loader.left.entities, LoadCreates(e)
       PROVE  IInv' /\ Recording
  <2> DEFINE written == CreateThirdParty(loader.work, e.who, e.key, e.adult)
             rest == [loader.left EXCEPT !.entities = @ \ {e}]
             ids == IF written.ok THEN loader.ids \cup {e.who} ELSE loader.ids
  <2>1. InTransaction /\ Did(written, rest, ids)
    BY <1>10 DEF LoadCreates
  <2>2. ids \in SUBSET Names
    BY <1>9, <2>1 DEF Plans, EntityRows
  <2>3. /\ Tx(store, loader.file, rest, written.store, loader.problem \/ ~written.ok)
        /\ written.store \in Stores /\ rest \in Plans
    BY <1>9, <2>1, TxCreates
  <2> HIDE DEF written, rest, ids
  <2> QED
    BY <1>8, <1>9, <2>1, <2>2, <2>3
<1>11. ASSUME NEW r \in loader.left.relations, LoadRelates(r)
       PROVE  IInv' /\ Recording
  <2> DEFINE write == WriteRelation(loader.work, r.from, r.pred, r.to, "import", "refuse")
             written == OrSkipped({r.from, r.to}, write)
             rest == [loader.left EXCEPT !.relations = @ \ {r}]
  <2>1. InTransaction /\ Did(written, rest, loader.ids)
    BY <1>11 DEF LoadRelates
  <2>2. rest \in Plans /\ Remains(Plan(Contents[loader.file]), rest)
        /\ Tx(store, loader.file, rest, write.store, loader.problem \/ ~write.ok)
        /\ write.store \in Stores
    BY <1>9, <2>1, TxRelates
  <2>3. written = write \/ written = Refused(loader.work)
    BY DEF OrSkipped
  <2> HIDE DEF write, written, rest
  <2>4. /\ Tx(store, loader.file, rest, written.store, loader.problem \/ ~written.ok)
        /\ written.store \in Stores
    BY <1>9, <2>1, <2>2, <2>3, TxRefuses
  <2> QED
    BY <1>8, <1>9, <2>1, <2>2, <2>4
<1>12. ASSUME NEW l \in loader.left.literals, LoadStates(l)
       PROVE  IInv' /\ Recording
  <2> DEFINE write == WriteLiteral(loader.work, l, "import", "refuse")
             written == OrSkipped({l.who}, write)
             rest == [loader.left EXCEPT !.literals = @ \ {l}]
  <2>1. InTransaction /\ loader.left.entities = {} /\ Did(written, rest, loader.ids)
    BY <1>12 DEF LoadStates
  <2>2. rest \in Plans /\ Remains(Plan(Contents[loader.file]), rest)
        /\ Tx(store, loader.file, rest, write.store, loader.problem \/ ~write.ok)
        /\ write.store \in Stores
    BY <1>9, <2>1, TxStates
  <2>3. written = write \/ written = Refused(loader.work)
    BY DEF OrSkipped
  <2> HIDE DEF write, written, rest
  <2>4. /\ Tx(store, loader.file, rest, written.store, loader.problem \/ ~written.ok)
        /\ written.store \in Stores
    BY <1>9, <2>1, <2>2, <2>3, TxRefuses
  <2> QED
    BY <1>8, <1>9, <2>1, <2>2, <2>4
<1>13. ASSUME NEW c \in loader.left.contacts, LoadLists(c)
       PROVE  IInv' /\ Recording
  <2> DEFINE write == WriteContact(loader.work, c, "import", "refuse")
             written == OrSkipped({c.who}, write)
             rest == [loader.left EXCEPT !.contacts = @ \ {c}]
  <2>1. InTransaction /\ Did(written, rest, loader.ids)
    BY <1>13 DEF LoadLists
  <2>2. rest \in Plans /\ Remains(Plan(Contents[loader.file]), rest)
        /\ Tx(store, loader.file, rest, write.store, loader.problem \/ ~write.ok)
        /\ write.store \in Stores
    BY <1>9, <2>1, TxLists
  <2>3. written = write \/ written = Refused(loader.work)
    BY DEF OrSkipped
  <2> HIDE DEF write, written, rest
  <2>4. /\ Tx(store, loader.file, rest, written.store, loader.problem \/ ~written.ok)
        /\ written.store \in Stores
    BY <1>9, <2>1, <2>2, <2>3, TxRefuses
  <2> QED
    BY <1>8, <1>9, <2>1, <2>2, <2>4
<1>14. ASSUME LoadEnds
       PROVE  IInv' /\ Recording
  <2>1. InTransaction /\ loader.left = NoPlan
    BY <1>14 DEF LoadEnds
  <2>2. CASE loader.commit /\ ~loader.problem /\ Recordable
    <3>1. /\ loader' = NoLoad /\ store' = loader.work /\ record' = Recorded
          /\ last' = [file |-> loader.file, untouched |-> TRUE]
      BY <1>14, <2>2 DEF LoadEnds, LoadGoes
    <3>2. Harmless(loader.work, Plan(Contents[loader.file]))
      BY <1>9, <2>1, <2>2 DEF Tx, DoneSoFar, Harmless, NoPlan
    <3>3. StoreSound(loader.work) /\ Says(Contents[loader.file], store, loader.work)
      BY <1>9, <2>1 DEF Tx
    <3>4. /\ record'.status = "open" /\ record'.sha = loader.file
          /\ Shaped(record')
      <4>1. Shaped(record)
        BY DEF IInv, Typed
      <4> QED
        BY <3>1, <4>1 DEF Recorded, Shaped
    <3>5. record.status # "closed"
      BY <2>2 DEF Recordable
    <3>6. Kept'
      BY <1>9, <2>1, <3>1, <3>2, <3>3 DEF Kept, NoLoad
    <3>7. Typed'
      BY <1>1, <1>9, <2>1, <3>1, <3>4, EmptyTypes DEF IInv, Typed, Lasts, Files
    <3> QED
      BY <1>9, <2>1, <3>1, <3>3, <3>4, <3>5, <3>6, <3>7 DEF IInv, Recording
  <2>3. CASE ~(loader.commit /\ ~loader.problem /\ Recordable)
    <3> DEFINE review == [NoLoad EXCEPT !.at = "review", !.file = loader.file,
                            !.replace = loader.replace, !.apply = TRUE,
                            !.declared = loader.declared]
    <3>1. loader' = review \/ LoadOnly(NoLoad)
      BY <1>14, <2>3 DEF LoadEnds, LoadOnly, LoadGoes
    <3>2. UNCHANGED <<store, record, last>>
      BY <1>14, <2>3 DEF LoadEnds, LoadOnly
    <3>3. review \in Loaders /\ review.at = "review" /\ review.file \in Seeds
      <4>1. loader.replace \in BOOLEAN /\ loader.declared \in BOOLEAN /\ loader.file \in Seeds
        BY <1>9, <2>1 DEF IInv, Typed, Loaders
      <4>2. NoPlan \in Plans /\ EmptyStore \in Stores
        BY EmptyTypes
      <4> QED
        BY <4>1, <4>2, EmptyTypes DEF NoLoad, Loaders, Files
    <3> HIDE DEF review
    <3> QED
      BY <1>2, <1>3, <3>1, <3>2, <3>3
  <2> QED
    BY <2>2, <2>3
<1> QED
  BY <1>3, <1>5, <1>6, <1>7, <1>10, <1>11, <1>12, <1>13, <1>14 DEF Load, LoadStops

LEMMA StepKeeps ==
  ASSUME IInv, [Next]_vars
  PROVE  IInv' /\ (Recording \/ UNCHANGED vars)
<1>1. CASE UNCHANGED vars
  BY <1>1 DEF vars, people, tools, IInv, Typed, Kept
<1> QED
  BY <1>1, SetupStep, LivingStep, LoadStep, ClosingStep, AdministrationStep DEF Next

\* Every predicate of one current value has one, and no two active contacts
\* share a place in the order of calls, whatever the tools do and in whatever
\* order (literal_facts_v4, care_contacts).
THEOREM RowsStaySound == Spec => []StoreSound(store)
<1>1. IInv => StoreSound(store)
  BY DEF IInv, Kept
<1> QED
  BY <1>1, InitKept, StepKeeps, PTL DEF Spec

\* Loading again the file that was loaded last changes nothing and is accepted
\* whole, for every file the installation accepts and whatever the store held
\* before the first load.
THEOREM ReloadAlwaysHarmless == Spec => []ReloadIsHarmless
<1>1. IInv => ReloadIsHarmless
  <2> SUFFICES ASSUME IInv, last.untouched PROVE ReloadIsHarmless
    BY DEF ReloadIsHarmless
  <2>1. Harmless(store, Plan(Contents[last.file]))
    BY DEF IInv, Kept
  <2> QED
    BY <2>1, DoneRepeats DEF Harmless, ReloadIsHarmless
<1> QED
  BY <1>1, InitKept, StepKeeps, PTL DEF Spec

\* Rows are imported only together with the open record of the file that says
\* them, and a closed record never changes.
THEOREM ImportsAlwaysRecorded == Spec => ImportsAreRecorded
<1> DEFINE Step == [/\ record.status = "closed" => record' = record
     /\ LET literals == NewImports(store.literals, store'.literals)
            relations == NewImports(store.relations, store'.relations)
            contacts == NewImports(store.contacts, store'.contacts)
        IN  literals \cup relations \cup contacts # {} =>
              /\ record'.status = "open" /\ record'.sha \in Seeds
              /\ \A row \in literals : SaysLiteral(Contents[record'.sha], row)
              /\ \A row \in relations : SaysRelation(Contents[record'.sha], row)
              /\ \A row \in contacts : SaysContact(Contents[record'.sha], row)]_vars
<1>1. IInv /\ [Next]_vars => Step
  BY StepKeeps DEF Recording, NothingImported, Says
<1>2. IInv /\ [Next]_vars => IInv'
  BY StepKeeps
<1> QED
  BY <1>1, <1>2, InitKept, PTL DEF Spec, ImportsAreRecorded

-----------------------------------------------------------------------------
(* Rows and their entities.                                                *)

Grounded(s) ==
  /\ \A r \in s.literals : Exists(s, r.who)
  /\ \A r \in s.relations : Exists(s, r.from) /\ Exists(s, r.to)
  /\ \A c \in s.contacts : Exists(s, c.who)

\* From s to t no entity is lost, and what was grounded stays so.
Grows(s, t) ==
  /\ \A who : Exists(s, who) => Exists(t, who)
  /\ Grounded(s) => Grounded(t)

\* What a store adds is about entities it had.
LEMMA GrowsOnItself ==
  ASSUME NEW s \in Stores, NEW t \in Stores, s.entities \subseteq t.entities,
         \A x \in t.literals : Exists(s, x.who) \/ \E y \in s.literals : y.who = x.who,
         \A x \in t.contacts : Exists(s, x.who) \/ \E y \in s.contacts : y.who = x.who,
         \A x \in t.relations :
           \/ Exists(s, x.from) /\ Exists(s, x.to)
           \/ \E y \in s.relations : y.from = x.from /\ y.to = x.to
  PROVE  Grows(s, t)
<1>1. \A who : Exists(s, who) => Exists(t, who)
  BY DEF Exists
<1>2. ASSUME Grounded(s) PROVE Grounded(t)
  BY <1>1, <1>2 DEF Grounded
<1> QED
  BY <1>1, <1>2 DEF Grows

LEMMA GrowsNot ==
  ASSUME NEW s
  PROVE  Grows(s, s)
BY DEF Grows

LEMMA GrowsUpsert ==
  ASSUME NEW s \in Stores, NEW who \in Names
  PROVE  Grows(s, UpsertEntity(s, who)) /\ Exists(UpsertEntity(s, who), who)
<1> DEFINE new == Entity(who, "none", FALSE)
           t == [s EXCEPT !.entities = @ \cup {new}]
<1>1. new \in EntityRows /\ new.who = who
  BY DEF Entity, EntityRows, Keys
<1>2. /\ t \in Stores /\ t.literals = s.literals /\ t.relations = s.relations
      /\ t.contacts = s.contacts /\ t.entities = s.entities \cup {new}
  BY <1>1 DEF Stores
<1>3. Grows(s, t) /\ Exists(t, who)
  BY <1>1, <1>2, GrowsOnItself DEF Exists
<1> QED
  BY <1>3, GrowsNot DEF UpsertEntity

LEMMA GrowsCreation ==
  ASSUME NEW s \in Stores, NEW e \in EntityRows
  PROVE  Grows(s, CreateThirdParty(s, e.who, e.key, e.adult).store)
<1> SUFFICES ASSUME NEW t, t = CreateThirdParty(s, e.who, e.key, e.adult).store
             PROVE  Grows(s, t)
  OBVIOUS
<1>1. /\ t \in Stores /\ s.entities \subseteq t.entities /\ t.literals = s.literals
      /\ t.relations = s.relations /\ t.contacts = s.contacts
  BY CreatedStore
<1> QED
  BY <1>1, GrowsOnItself

LEMMA GrowsLiteral ==
  ASSUME NEW s \in Stores, NEW l \in OfferedLiterals, NEW chan \in Channels, NEW policy
  PROVE  Grows(s, WriteLiteral(s, l, chan, policy).store)
<1> DEFINE row == LiteralRow(l, chan)
           old == IF row.pred \in SingleCurrent THEN ActiveLiterals(s, row.who, row.pred) ELSE {}
           t == InsertLiteral(s, row)
<1>1. row \in LiteralRows /\ row.life = "active" /\ row.who = l.who
  BY LiteralRowType DEF LiteralRow
<1>2. t \in Stores /\ t.entities = s.entities /\ t.relations = s.relations /\ t.contacts = s.contacts
  BY <1>1, InsertedLiterals
<1>3. t.literals = (s.literals \ old) \cup {Superseded(r) : r \in old} \cup {row}
  BY DEF InsertLiteral, Stores
<1>4. \A r \in old : r \in s.literals /\ Superseded(r).who = r.who
  BY DEF Superseded, Stores, LiteralRows, ActiveLiterals, Active
<1>5. ASSUME Exists(s, l.who) PROVE Grows(s, t)
  <2> HIDE DEF row, old, t
  <2>1. \A x \in t.literals : Exists(s, x.who) \/ \E y \in s.literals : y.who = x.who
    BY <1>1, <1>3, <1>4, <1>5
  <2> QED
    BY <1>2, <2>1, GrowsOnItself
<1>6. WriteLiteral(s, l, chan, policy).store = s
      \/ (WriteLiteral(s, l, chan, policy).store = t /\ Exists(s, l.who))
  BY DEF WriteLiteral, Refused, Accepted
<1> QED
  BY <1>5, <1>6, GrowsNot

LEMMA GrowsContact ==
  ASSUME NEW s \in Stores, NEW c \in OfferedContacts, NEW chan \in Channels, NEW policy
  PROVE  Grows(s, WriteContact(s, c, chan, policy).store)
<1> DEFINE t == Listed(s, c, chan)
           gone == {[r EXCEPT !.life = "revoked"] : r \in CurrentContact(s, c)}
<1>1. t \in Stores /\ t.entities = s.entities /\ t.relations = s.relations /\ t.literals = s.literals
  BY ListedContacts
<1>2. t.contacts = (s.contacts \ CurrentContact(s, c)) \cup gone \cup {ContactRow(c, chan)}
  BY DEF Listed, Stores
<1>3. \A r \in CurrentContact(s, c) : r \in s.contacts /\ [r EXCEPT !.life = "revoked"].who = r.who
  BY DEF Stores, ContactRows, CurrentContact, Active
<1>4. ContactRow(c, chan).who = c.who
  BY DEF ContactRow
<1>5. ASSUME Exists(s, c.who) PROVE Grows(s, t)
  <2>1. \A x \in gone : \E y \in s.contacts : y.who = x.who
    BY <1>3
  <2> HIDE DEF gone, t
  <2>2. \A x \in t.contacts : Exists(s, x.who) \/ \E y \in s.contacts : y.who = x.who
    BY <1>2, <1>4, <1>5, <2>1
  <2> QED
    BY <1>1, <2>2, GrowsOnItself
<1>6. WriteContact(s, c, chan, policy).store = s
      \/ (WriteContact(s, c, chan, policy).store = t /\ Exists(s, c.who))
  BY DEF WriteContact, Listed, Refused, Accepted
<1> QED
  BY <1>5, <1>6, GrowsNot

LEMMA GrowsAssertion ==
  ASSUME NEW s \in Stores, NEW row \in RelationRows, Exists(s, row.from), Exists(s, row.to)
  PROVE  Grows(s, AssertRelation(s, row))
<1> DEFINE old == IF row.pred \in TemporalPredicates
                  THEN {r \in Active(s.relations) : r.from = row.from /\ r.pred = row.pred}
                  ELSE {}
           t == InsertRelation(s, row)
<1>1. CASE Between(s, row.from, row.pred, row.to) = {}
  <2>1. AssertRelation(s, row) = t
    BY <1>1 DEF AssertRelation
  <2>2. t \in Stores /\ t.literals = s.literals /\ t.contacts = s.contacts /\ t.entities = s.entities
    BY <2>1, RelationStore DEF InsertRelation, Stores
  <2>3. t.relations = (s.relations \ old) \cup {Superseded(r) : r \in old} \cup {row}
    BY DEF InsertRelation, Stores
  <2>4. \A r \in old : /\ r \in s.relations /\ Superseded(r).from = r.from
                       /\ Superseded(r).to = r.to
    BY DEF Superseded, Stores, RelationRows, Active
  <2> HIDE DEF old, t
  <2>5. \A x \in t.relations : \/ Exists(s, x.from) /\ Exists(s, x.to)
                               \/ \E y \in s.relations : y.from = x.from /\ y.to = x.to
    BY <2>3, <2>4
  <2> QED
    BY <2>1, <2>2, <2>5, GrowsOnItself
<1>2. CASE Between(s, row.from, row.pred, row.to) # {}
  BY <1>2, GrowsNot DEF AssertRelation
<1> QED
  BY <1>1, <1>2

LEMMA GrowsRelation ==
  ASSUME NEW s \in Stores, NEW r \in OfferedRelations, NEW chan \in Channels, NEW policy
  PROVE  Grows(s, WriteRelation(s, r.from, r.pred, r.to, chan, policy).store)
<1> DEFINE row == RelationRow(r.from, r.pred, r.to, RelationClass(r.from, r.pred), chan)
<1>1. row \in RelationRows
  BY RelationRowType DEF OfferedRelations
<1>2. \/ row.from = r.from /\ row.to = r.to
      \/ row.from = r.to /\ row.to = r.from
  BY StoredEnds
<1> HIDE DEF row
<1>3. WriteRelation(s, r.from, r.pred, r.to, chan, policy).store = s
      \/ (/\ WriteRelation(s, r.from, r.pred, r.to, chan, policy).store = AssertRelation(s, row)
          /\ Exists(s, r.from) /\ Exists(s, r.to))
  BY DEF WriteRelation, Refused, Accepted, EndsRefused, row
<1> QED
  BY <1>1, <1>2, <1>3, GrowsAssertion, GrowsNot

LEMMA GrowsRevoked ==
  ASSUME NEW s \in Stores
  PROVE  /\ \A row \in Active(s.literals) : Grows(s, [s EXCEPT !.literals = Revoked(@, row)])
         /\ \A row \in Active(s.relations) : Grows(s, [s EXCEPT !.relations = Revoked(@, row)])
         /\ \A row \in Active(s.contacts) : Grows(s, [s EXCEPT !.contacts = Revoked(@, row)])
<1>1. ASSUME NEW row \in Active(s.literals)
      PROVE  Grows(s, [s EXCEPT !.literals = Revoked(@, row)])
  <2> DEFINE t == [s EXCEPT !.literals = Revoked(@, row)]
  <2>1. row \in s.literals /\ [row EXCEPT !.life = "revoked"].who = row.who
    BY DEF Active, Stores, LiteralRows
  <2>2. /\ t \in Stores /\ t.literals = Revoked(s.literals, row) /\ t.relations = s.relations
        /\ t.contacts = s.contacts /\ t.entities = s.entities
    BY ForeignRevocations DEF Foreign, Stores
  <2> HIDE DEF t
  <2>3. \A x \in Revoked(s.literals, row) : \E y \in s.literals : y.who = x.who
    BY <2>1 DEF Revoked
  <2>4. Grows(s, t)
    BY <2>2, <2>3, GrowsOnItself
  <2> QED
    BY <2>4 DEF t
<1>2. ASSUME NEW row \in Active(s.relations)
      PROVE  Grows(s, [s EXCEPT !.relations = Revoked(@, row)])
  <2> DEFINE t == [s EXCEPT !.relations = Revoked(@, row)]
             gone == [row EXCEPT !.life = "revoked"]
  <2>1. row \in s.relations /\ gone.from = row.from /\ gone.to = row.to
    BY DEF Active, Stores, RelationRows
  <2>2. /\ t \in Stores /\ t.relations = Revoked(s.relations, row) /\ t.literals = s.literals
        /\ t.contacts = s.contacts /\ t.entities = s.entities
    BY ForeignRevocations DEF Foreign, Stores
  <2> HIDE DEF t
  <2>3. \A x \in Revoked(s.relations, row) : \E y \in s.relations : y.from = x.from /\ y.to = x.to
    BY <2>1 DEF Revoked
  <2>4. Grows(s, t)
    BY <2>2, <2>3, GrowsOnItself
  <2> QED
    BY <2>4 DEF t
<1>3. ASSUME NEW row \in Active(s.contacts)
      PROVE  Grows(s, [s EXCEPT !.contacts = Revoked(@, row)])
  <2> DEFINE t == [s EXCEPT !.contacts = Revoked(@, row)]
  <2>1. row \in s.contacts /\ [row EXCEPT !.life = "revoked"].who = row.who
    BY DEF Active, Stores, ContactRows
  <2>2. /\ t \in Stores /\ t.contacts = Revoked(s.contacts, row) /\ t.relations = s.relations
        /\ t.literals = s.literals /\ t.entities = s.entities
    BY ForeignRevocations DEF Foreign, Stores
  <2> HIDE DEF t
  <2>3. \A x \in Revoked(s.contacts, row) : \E y \in s.contacts : y.who = x.who
    BY <2>1 DEF Revoked
  <2>4. Grows(s, t)
    BY <2>2, <2>3, GrowsOnItself
  <2> QED
    BY <2>4 DEF t
<1> QED
  BY <1>1, <1>2, <1>3

\* Taking out the orphans of what a channel leaves.
LEMMA RetractedIsGrounded ==
  ASSUME NEW s \in Stores, NEW some,
         Grounded(s), \A who \in some : Exists(s, who),
         ~ \E e \in Orphans(DeleteByChannel(s, "import")) : e.who \in some
  PROVE  LET r == DeleteByChannel(s, "import")
             t == [r EXCEPT !.entities = @ \ Orphans(r)]
         IN  Grounded(t) /\ \A who \in some : Exists(t, who)
<1> DEFINE r == DeleteByChannel(s, "import")
           t == [r EXCEPT !.entities = @ \ Orphans(r)]
<1>1. /\ r.entities = s.entities /\ r.literals \subseteq s.literals
      /\ r.relations \subseteq s.relations /\ r.contacts \subseteq s.contacts
  BY DEF DeleteByChannel, Stores
<1>2. /\ t.entities = r.entities \ Orphans(r) /\ t.literals = r.literals
      /\ t.relations = r.relations /\ t.contacts = r.contacts
  BY DEF DeleteByChannel, Stores
<1> HIDE DEF r, t
<1>3. ASSUME NEW who, Exists(s, who), HasRows(r, who) \/ who \in some PROVE Exists(t, who)
  <2>1. PICK e \in s.entities : e.who = who
    BY <1>3 DEF Exists
  <2>2. e \notin Orphans(r)
    BY <1>3, <2>1 DEF Orphans, r
  <2> QED
    BY <1>1, <1>2, <2>1, <2>2 DEF Exists
<1>4. Grounded(t)
  <2>1. \A x \in t.literals : Exists(s, x.who) /\ HasRows(r, x.who)
    BY <1>1, <1>2 DEF Grounded, HasRows
  <2>2. \A x \in t.relations : /\ Exists(s, x.from) /\ HasRows(r, x.from)
                               /\ Exists(s, x.to) /\ HasRows(r, x.to)
    BY <1>1, <1>2 DEF Grounded, HasRows
  <2>3. \A x \in t.contacts : Exists(s, x.who) /\ HasRows(r, x.who)
    BY <1>1, <1>2 DEF Grounded, HasRows
  <2> QED
    BY <1>3, <2>1, <2>2, <2>3 DEF Grounded
<1> QED
  BY <1>3, <1>4 DEF r, t

\* The rows, and those of a running load: nobody else writes meanwhile.
GroundedInv ==
  /\ Grounded(store)
  /\ \A who \in tied : Exists(store, who)
  /\ loader.at = "tx" => Grounded(loader.work) /\ \A who \in tied : Exists(loader.work, who)

\* Any writer but a load.
LEMMA GroundedWrite ==
  ASSUME GroundedInv, NEW t, Grows(store, t), Writes(t), UNCHANGED loader,
         \A who \in tied' : who \in tied \/ Exists(t, who)
  PROVE  GroundedInv'
<1>1. store' = t /\ loader.at # "tx"
  BY DEF Writes, Unlocked
<1> QED
  BY <1>1 DEF GroundedInv, Grows

LEMMA GroundedSetup ==
  ASSUME IInv, GroundedInv, Setup
  PROVE  GroundedInv'
<1>1. UNCHANGED <<tied, loader>>
  BY DEF Setup, SetupStarts, SetupNamesOwner, SetupGivesRole, SetupNamesChild, SetupRelatesChild,
         SetupSavesPin, SetupStops, tools
<1>2. /\ Owner \in Names
      /\ \A child \in SetupChildren : child \in Names
  BY OwnerIsAPerson, EditsAreLiterals DEF Names
<1>3. store \in Stores /\ setup.child \in Names
  BY <1>2 DEF IInv, Typed, Setups
<1>4. CASE SetupNamesOwner
  BY <1>1, <1>2, <1>3, <1>4, GrowsUpsert, GroundedWrite DEF SetupNamesOwner
<1>5. CASE \E child \in SetupChildren : SetupNamesChild(child)
  BY <1>1, <1>2, <1>3, <1>5, GrowsUpsert, GroundedWrite DEF SetupNamesChild
<1>6. CASE SetupRelatesChild
  <2> DEFINE row == RelationRow(setup.child, "child_of", Owner,
                                RelationClass(setup.child, "child_of"), "none")
  <2>1. "none" \in Channels /\ "child_of" \in Relations /\ "child_of" \notin Symmetric
    BY DEF Channels, Relations, MembershipPredicates, Symmetric
  <2>2. row \in RelationRows /\ row.from = setup.child /\ row.to = Owner
    BY <2>1, <1>2, <1>3, RelationRowType, StoredEnds
  <2>3. Exists(store, setup.child) /\ Exists(store, Owner) /\ Writes(AssertRelation(store, row))
    BY <1>6 DEF SetupRelatesChild, EndsRefused
  <2> HIDE DEF row
  <2> QED
    BY <1>1, <1>3, <2>2, <2>3, GrowsAssertion, GroundedWrite
<1>7. CASE UNCHANGED store
  BY <1>1, <1>7 DEF GroundedInv
<1> QED
  BY <1>4, <1>5, <1>6, <1>7 DEF Setup, SetupStarts, SetupGivesRole, SetupSavesPin, SetupStops

LEMMA GroundedLiving ==
  ASSUME IInv, GroundedInv, Living
  PROVE  GroundedInv'
<1>1. UNCHANGED loader
  BY DEF Living, Enrol, FaceByName, TasteOffered, TasteLapses, TastePromoted, tools
<1>2. Owner \in Names /\ \A who \in Faces : who \in Names
  BY OwnerIsAPerson, EditsAreLiterals DEF Names
<1>3. store \in Stores
  BY DEF IInv, Typed
<1>4. CASE \E who \in Faces : FaceByName(who)
  <2>1. PICK who \in Faces : FaceByName(who)
    BY <1>4
  <2>2. Grows(store, UpsertEntity(store, who)) /\ Exists(UpsertEntity(store, who), who)
    BY <1>2, <1>3, GrowsUpsert
  <2> QED
    BY <1>1, <2>1, <2>2, GroundedWrite DEF FaceByName
<1>5. CASE \E value \in VoiceTastes : TastePromoted(value)
  <2>1. PICK value \in VoiceTastes : TastePromoted(value)
    BY <1>5
  <2> DEFINE l == [who |-> Owner, pred |-> "likes", value |-> value, valid |-> TRUE]
  <2>2. l \in OfferedLiterals
    BY <1>2, EditsAreLiterals DEF OfferedLiterals, Literals, Tastes
  <2>3. "voice" \in Channels
    BY DEF Channels
  <2>4. Writes(WriteLiteral(store, l, "voice", "supersede").store) /\ UNCHANGED tied
    BY <2>1 DEF TastePromoted
  <2> HIDE DEF l
  <2> QED
    BY <1>1, <1>3, <2>2, <2>3, <2>4, GrowsLiteral, GroundedWrite
<1>6. CASE UNCHANGED <<store, tied>>
  BY <1>1, <1>6 DEF GroundedInv
<1> QED
  BY <1>4, <1>5, <1>6 DEF Living, Enrol, TasteOffered, TasteLapses

LEMMA GroundedAdministration ==
  ASSUME IInv, GroundedInv, Administration
  PROVE  GroundedInv'
<1>1. UNCHANGED <<tied, loader>>
  BY DEF Administration, EditLiteral, RevokeLiteral, RevokeRelation, RevokeContact,
         ChangeContactStarts, ChangeContactEnds, ChangeContactStops, Edits, people
<1>2. store \in Stores /\ editor \subseteq ContactRows /\ "admin" \in Channels
  BY DEF IInv, Typed, Channels
<1>3. ASSUME NEW t, Grows(store, t), Edits(t) PROVE GroundedInv'
  BY <1>1, <1>3, GroundedWrite DEF Edits
<1>4. CASE \E l \in AdminLiterals : EditLiteral(l)
  BY <1>2, <1>3, <1>4, GrowsLiteral, EditsAreLiterals DEF EditLiteral
<1>5. CASE \E row \in Active(store.literals) : RevokeLiteral(row)
  BY <1>2, <1>3, <1>5, GrowsRevoked DEF RevokeLiteral
<1>6. CASE \E row \in Active(store.relations) : RevokeRelation(row)
  BY <1>2, <1>3, <1>6, GrowsRevoked DEF RevokeRelation
<1>7. CASE \E row \in Active(store.contacts) : RevokeContact(row)
  BY <1>2, <1>3, <1>7, GrowsRevoked DEF RevokeContact
<1>8. CASE \E row \in editor, phone \in Phones : ChangeContactEnds(row, phone)
  <2>1. PICK row \in editor, phone \in Phones : ChangeContactEnds(row, phone)
    BY <1>8
  <2> DEFINE c == [who |-> row.who, role |-> row.role, phone |-> phone, order |-> row.order,
                   key |-> row.key]
  <2>2. c \in OfferedContacts
    BY <1>2 DEF ContactRows, OfferedContacts
  <2>3. Edits(WriteContact(store, c, "admin", "supersede").store)
    BY <2>1 DEF ChangeContactEnds
  <2> HIDE DEF c
  <2> QED
    BY <1>2, <1>3, <2>2, <2>3, GrowsContact
<1>9. CASE UNCHANGED store
  BY <1>1, <1>9 DEF GroundedInv
<1> QED
  BY <1>4, <1>5, <1>6, <1>7, <1>8, <1>9 DEF Administration, ChangeContactStarts, ChangeContactStops

LEMMA GroundedLoad ==
  ASSUME IInv, GroundedInv, Load
  PROVE  GroundedInv'
<1>1. UNCHANGED tied
  BY DEF Load, LoadStarts, LoadBegins, LoadCreates, LoadRelates, LoadStates, LoadLists, LoadEnds,
         LoadConfirmed, LoadStops, LoadOnly, LoadGoes, Did, people
<1>2. store \in Stores /\ loader \in Loaders /\ loader.work \in Stores /\ loader.left \in Plans
  BY DEF IInv, Typed, Loaders
<1>3. ASSUME UNCHANGED store, loader'.at # "tx" PROVE GroundedInv'
  BY <1>1, <1>3 DEF GroundedInv
<1>4. CASE LoadOnly(NoLoad)
  BY <1>3, <1>4 DEF LoadOnly, LoadGoes, NoLoad
<1>5. ASSUME NEW load \in Loaders, NEW commit, LoadOnly(Asked(load, commit)) PROVE GroundedInv'
  BY <1>3, <1>4, <1>5 DEF LoadOnly, LoadGoes, Asked, Loaders
<1>6. CASE LoadConfirmed
  BY <1>2, <1>5, <1>6 DEF LoadConfirmed
<1>7. ASSUME NEW file \in Seeds, NEW replace \in BOOLEAN, NEW apply \in BOOLEAN,
             NEW declared \in BOOLEAN, LoadStarts(file, replace, apply, declared)
      PROVE  GroundedInv'
  <2> DEFINE load == [NoLoad EXCEPT !.file = file, !.replace = replace, !.apply = apply,
                                    !.declared = declared]
  <2>1. load \in Loaders
    BY EmptyTypes DEF Loaders, NoLoad, Files
  <2>2. LoadOnly(Asked(load, FALSE))
    BY <1>7 DEF LoadStarts
  <2> HIDE DEF load
  <2> QED
    BY <1>5, <2>1, <2>2
<1>8. CASE LoadBegins
  <2>1. SUFFICES ASSUME ~(loader.replace /\ ReplaceRefused) PROVE GroundedInv'
    BY <1>4, <1>8 DEF LoadBegins
  <2> DEFINE kept == [Retracted EXCEPT !.entities = @ \ Orphans(Retracted)]
             work == IF loader.replace THEN kept ELSE store
  <2>2. loader'.work = work /\ UNCHANGED store
    BY <1>2, <1>8, <2>1 DEF LoadBegins, LoadOnly, LoadGoes, Loaders
  <2>3. CASE loader.replace
    <3>1. ~ \E e \in Orphans(Retracted) : e.who \in tied
      BY <2>1, <2>3 DEF ReplaceRefused
    <3>2. Grounded(kept) /\ \A who \in tied : Exists(kept, who)
      BY <1>2, <3>1, RetractedIsGrounded DEF GroundedInv, Retracted
    <3> HIDE DEF kept
    <3> QED
      BY <1>1, <2>2, <2>3, <3>2 DEF GroundedInv
  <2>4. CASE ~loader.replace
    BY <1>1, <2>2, <2>4 DEF GroundedInv
  <2> QED
    BY <2>3, <2>4
<1>9. ASSUME InTransaction, NEW written, NEW left, NEW ids, Did(written, left, ids),
             Grows(loader.work, written.store)
      PROVE  GroundedInv'
  <2>1. loader'.work = written.store /\ UNCHANGED store
    BY <1>2, <1>9 DEF Did, LoadOnly, LoadGoes, Loaders
  <2>2. loader.at = "tx"
    BY <1>9 DEF InTransaction
  <2> QED
    BY <1>1, <1>9, <2>1, <2>2 DEF GroundedInv, Grows
<1>10. ASSUME NEW names, NEW written, Grows(loader.work, written.store)
       PROVE  Grows(loader.work, OrSkipped(names, written).store)
  BY <1>10, GrowsNot DEF OrSkipped, Refused
<1>11. ASSUME NEW e \in loader.left.entities, LoadCreates(e) PROVE GroundedInv'
  <2>1. e \in EntityRows
    BY <1>2 DEF Plans
  <2> QED
    BY <1>2, <1>9, <1>11, <2>1, GrowsCreation DEF LoadCreates
<1>12. ASSUME NEW r \in loader.left.relations, LoadRelates(r) PROVE GroundedInv'
  <2>1. r \in OfferedRelations /\ "import" \in Channels
    BY <1>2 DEF Plans, FileRelations, Channels
  <2>2. Grows(loader.work, WriteRelation(loader.work, r.from, r.pred, r.to, "import", "refuse").store)
    BY <1>2, <2>1, GrowsRelation
  <2> QED
    BY <1>9, <1>10, <1>12, <2>2 DEF LoadRelates
<1>13. ASSUME NEW l \in loader.left.literals, LoadStates(l) PROVE GroundedInv'
  <2>1. l \in OfferedLiterals /\ "import" \in Channels
    BY <1>2 DEF Plans, Channels
  <2>2. Grows(loader.work, WriteLiteral(loader.work, l, "import", "refuse").store)
    BY <1>2, <2>1, GrowsLiteral
  <2> QED
    BY <1>9, <1>10, <1>13, <2>2 DEF LoadStates
<1>14. ASSUME NEW c \in loader.left.contacts, LoadLists(c) PROVE GroundedInv'
  <2>1. c \in OfferedContacts /\ "import" \in Channels
    BY <1>2 DEF Plans, Channels
  <2>2. Grows(loader.work, WriteContact(loader.work, c, "import", "refuse").store)
    BY <1>2, <2>1, GrowsContact
  <2> QED
    BY <1>9, <1>10, <1>14, <2>2 DEF LoadLists
<1>15. CASE LoadEnds
  <2>1. CASE loader.commit /\ ~loader.problem /\ Recordable
    <3>1. loader.at = "tx" /\ store' = loader.work /\ loader' = NoLoad
      BY <1>15, <2>1 DEF LoadEnds, InTransaction, LoadGoes
    <3> QED
      BY <1>1, <3>1 DEF GroundedInv, NoLoad
  <2>2. CASE ~(loader.commit /\ ~loader.problem /\ Recordable)
    <3> DEFINE review == [NoLoad EXCEPT !.at = "review", !.file = loader.file,
                            !.replace = loader.replace, !.apply = TRUE,
                            !.declared = loader.declared]
    <3>1. UNCHANGED store /\ (loader' = review \/ loader' = NoLoad)
      BY <1>15, <2>2 DEF LoadEnds, LoadOnly, LoadGoes
    <3>2. review.at # "tx" /\ NoLoad.at # "tx"
      BY DEF NoLoad
    <3> HIDE DEF review
    <3> QED
      BY <1>3, <3>1, <3>2
  <2> QED
    BY <2>1, <2>2
<1> QED
  BY <1>4, <1>6, <1>7, <1>8, <1>11, <1>12, <1>13, <1>14, <1>15 DEF Load, LoadStops

\* No row, and no face learnt by name, loses the entity it is about, although a
\* replacing load deletes the entities of an earlier file: those that another
\* tool wrote of stay, and one that a face refers to stops the load
\* (delete_orphan_import_entities, entity_has_rows).
THEOREM RowsKeepTheirEntity == Spec => []RowsHaveTheirEntity
<1>1. Init => GroundedInv
  BY DEF Init, GroundedInv, Grounded, EmptyStore, NoLoad
<1>2. IInv /\ GroundedInv /\ [Next]_vars => GroundedInv'
  <2> SUFFICES ASSUME IInv, GroundedInv, [Next]_vars PROVE GroundedInv'
    OBVIOUS
  <2>1. CASE UNCHANGED vars \/ Closing
    <3>1. UNCHANGED <<store, tied, loader>>
      BY <2>1 DEF Closing, CloseStarts, CloseEvaluates, CloseRecords, CloseReadsRecord,
                  CloseReadsDetails, CloseWritesActa, CloseEnds, CloseStops, CloseGoes,
                  people, vars, tools
    <3> QED
      BY <3>1 DEF GroundedInv
  <2> QED
    BY <2>1, GroundedSetup, GroundedLiving, GroundedLoad, GroundedAdministration DEF Next
<1>3. GroundedInv => RowsHaveTheirEntity
  <2> SUFFICES ASSUME GroundedInv PROVE RowsHaveTheirEntity
    OBVIOUS
  <2>1. \A r \in store.relations : \A who \in {r.from, r.to} : Exists(store, who)
    BY DEF GroundedInv, Grounded
  <2>2. \A who \in UNION {{r.from, r.to} : r \in store.relations} : Exists(store, who)
    BY <2>1
  <2>3. \A who \in {r.who : r \in store.literals} \cup {c.who : c \in store.contacts} :
          Exists(store, who)
    BY DEF GroundedInv, Grounded
  <2> QED
    BY <2>2, <2>3 DEF RowsHaveTheirEntity, GroundedInv
<1>4. IInv /\ [Next]_vars => IInv'
  BY StepKeeps
<1> QED
  BY <1>1, <1>2, <1>3, <1>4, InitKept, PTL DEF Spec
=============================================================================
