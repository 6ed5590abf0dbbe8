------------------------- MODULE CanonicalStore -------------------------
(***************************************************************************)
(* The relational store of the owner's memory and its canonical writer:    *)
(* what one call of write_literal, write_relation, write_contact or        *)
(* create_third_party does to the tables entities, literal_facts_v4,       *)
(* entity_relations_v4 and care_contacts, and when it is refused.          *)
(*                                                                         *)
(* A store is a record of four sets of rows.  A name stands for an entity  *)
(* (its folded name and its type), so a row is identified by what it says: *)
(* two past rows that say the same are one.  Of a refusal the model keeps  *)
(* that it happened; which of the reasons is reported to the person is     *)
(* wording.  No caller gives valid_to, so a row that starts as 'expired'   *)
(* is left out.  A symmetric pair is stored with the owner first: the code *)
(* sorts the two ids, and the owner's is the first one of an installation. *)
(***************************************************************************)
EXTENDS Naturals

CONSTANTS
  Owner,      \* the person who owns the installation
  Persons,    \* the names of people, the owner's among them
  Pets,       \* the names of pets
  Places,     \* the names of places
  Values,     \* what a literal may say
  Phones      \* the telephone numbers

ASSUME OwnerIsAPerson == Owner \in Persons
ASSUME NamesAreOfOneType == /\ Persons \cap Pets = {}
                            /\ Persons \cap Places = {}
                            /\ Pets \cap Places = {}

(***************************************************************************)
(* The predicate registry.                                                 *)
(***************************************************************************)
\* What a commissioning captures about the owner: single values and lists.
PoolSingle == {"preferred_name", "address_form", "health_coverage", "takes_anticoagulant",
               "blood_type", "mobility", "hearing", "vision", "preferred_emergency_facility",
               "home_address", "dwelling_type", "floor", "has_lift", "home_access_note",
               "lives_alone"}
PoolMulti == {"health_condition", "medication", "rescue_medication", "implanted_device",
              "document_location", "secret_holder"}
RelativePredicates == {"has_parent", "has_grandparent", "has_grandchild", "has_sibling"}
PoolRelations == RelativePredicates \cup {"withhold_from"}

\* What is known of any member of the household.
MemberSingle == {"birth_date", "species", "stated_age"}
Tastes == {"likes", "dislikes", "prefers"}
MembershipPredicates == {"child_of", "partner_of", "pet_of"}
TemporalPredicates == {"lives_in", "works_at"}

SingleCurrent == PoolSingle \cup MemberSingle \cup {"access_code"}
Literals == SingleCurrent \cup PoolMulti \cup Tastes \cup {"allergic_to", "private_topic"}
Relations == PoolRelations \cup MembershipPredicates \cup TemporalPredicates
Symmetric == {"partner_of", "has_sibling"}
Unstorable == {"access_code"}

\* The predicates that are the owner's alone: their default visibility is personal.
OwnerOnly == PoolSingle \cup PoolMulti \cup PoolRelations \cup {"private_topic", "access_code"}

MedicalPredicates == {"health_condition", "medication", "takes_anticoagulant",
                      "rescue_medication", "implanted_device", "blood_type", "mobility",
                      "hearing", "vision", "allergic_to"}
LocationPredicates == {"preferred_emergency_facility", "home_address", "dwelling_type", "floor",
                       "has_lift", "home_access_note", "lives_alone", "lives_in"}

Sensitivity(pred) ==
  CASE pred \in MedicalPredicates -> "medical"
    [] pred \in LocationPredicates -> "location"
    [] pred \in {"birth_date", "stated_age", "child_of"} -> "child_data"
    [] pred \in {"document_location", "secret_holder", "access_code"} -> "security"
    [] pred \in {"health_coverage", "withhold_from"} -> "private"
    [] OTHER -> "normal"

\* Which entities may be the subject, and the target, of a predicate.
SubjectsOf(pred) ==
  CASE pred \in {"species", "pet_of"} -> Pets
    [] pred \in Tastes \cup {"allergic_to", "stated_age", "lives_in"} -> Persons \cup Pets
    [] OTHER -> Persons

TargetsOf(pred) == IF pred \in TemporalPredicates THEN Places ELSE Persons

(***************************************************************************)
(* Rows.                                                                   *)
(***************************************************************************)
Names == Persons \cup Pets \cup Places
Channels == {"import", "admin", "voice", "none"}
Life == {"active", "superseded", "revoked"}
Policies == {"refuse", "supersede"}
NoOrder == 0
Roles == {"emergency", "caregiver", "doctor", "key_holder", "neighbor", "trusted", "other"}
Keys == {"none", "partner", "child", "pet", "parent", "grandparent", "sibling", "grandchild",
         "third_party"}
Visibilities == {"personal", "household"}
Sensitivities == {"normal", "private", "medical", "location", "child_data", "security"}

EntityRows == [who : Names, key : Keys, adult : BOOLEAN]
LiteralRows == [who : Names, pred : Literals, value : Values, vis : Visibilities,
                sens : Sensitivities, chan : Channels, life : Life]
RelationRows == [from : Names, pred : Relations, to : Names, vis : Visibilities,
                 sens : Sensitivities, chan : Channels, life : Life]
ContactRows == [who : Names, role : Roles, phone : Phones, order : Nat, key : BOOLEAN,
                chan : Channels, life : Life]

\* What a caller offers: valid is whether the value has the format that its
\* predicate asks for; key is whether the contact has a key of the house.
OfferedLiterals == [who : Names, pred : Literals, value : Values, valid : BOOLEAN]
OfferedRelations == [from : Names, pred : Relations, to : Names]
OfferedContacts == [who : Names, role : Roles, phone : Phones, order : Nat, key : BOOLEAN]

Stores == [entities : SUBSET EntityRows, literals : SUBSET LiteralRows,
           relations : SUBSET RelationRows, contacts : SUBSET ContactRows]

\* key is the role under which a seed file created the entity ("none" for the others).
Entity(who, key, adult) == [who |-> who, key |-> key, adult |-> adult]

EmptyStore == [entities |-> {}, literals |-> {}, relations |-> {}, contacts |-> {}]

Active(rows) == {row \in rows : row.life = "active"}
Exists(s, who) == \E e \in s.entities : e.who = who

\* The active rows that say one thing of one pair.
Between(s, from, pred, to) ==
  {r \in Active(s.relations) : r.from = from /\ r.pred = pred /\ r.to = to}

\* Whether the pair is stored, read in both directions for a symmetric predicate.
Related(s, from, pred, to) ==
  \/ Between(s, from, pred, to) # {}
  \/ pred \in Symmetric /\ Between(s, to, pred, from) # {}

(***************************************************************************)
(* Who somebody is to the owner.                                           *)
(***************************************************************************)
HasMembershipRow(s, who) ==
  \E pred \in {"child_of", "pet_of"} : Between(s, who, pred, Owner) # {}

IsAdultDependent(s, who) == \E e \in s.entities : e.who = who /\ e.adult

IsMember(s, who) == HasMembershipRow(s, who) /\ ~IsAdultDependent(s, who)

IsPartner(s, who) == Related(s, who, "partner_of", Owner)

HasActiveContact(s, who) == \E c \in Active(s.contacts) : c.who = who

IsRelative(s, who) == \E pred \in RelativePredicates : Related(s, Owner, pred, who)

HoldsRelativeRole(s, who) == HasActiveContact(s, who) \/ IsRelative(s, who)

\* Who holds an adult household role: assign_household_role has no caller, so
\* only the role that bootstrap_initial_owner gives exists.
Adults == {Owner}

\* Mutation of ActiveRepeat: a repeated relation passes every check again.
RepeatIsNew(s, from, pred, to) == FALSE

\* A relation that is already stored, which is not checked again.
ActiveRepeat(s, from, pred, to) == Related(s, from, pred, to)

(***************************************************************************)
(* Who may be the subject of a row, and the classification it gets.        *)
(***************************************************************************)
SubjectRefused(s, who, pred) == who # Owner /\ (~IsMember(s, who) \/ pred \in OwnerOnly)

SubjectClass(who, pred) ==
  [vis  |-> IF who = Owner THEN "personal" ELSE "household",
   sens |-> IF who = Owner /\ pred = "birth_date" THEN "private" ELSE Sensitivity(pred)]

\* A member is the owner's child, pet or partner, and only one of them; a person
\* who is already a contact or a relative becomes none of them.  A relation that
\* is already stored is accepted again.
MembershipRefused(s, from, pred, to) ==
  LET symmetric == pred \in Symmetric
      other == IF symmetric /\ from = Owner THEN to ELSE from
      ownerEnds == {to} \cup (IF symmetric THEN {from} ELSE {})
  IN  \/ Owner \notin ownerEnds
      \/ from = to
      \/ /\ ~ActiveRepeat(s, from, pred, to)
         /\ \/ HoldsRelativeRole(s, other)
            \/ symmetric /\ HasMembershipRow(s, other)
            \/ ~symmetric /\ (IsPartner(s, other) \/ other \in Adults)

\* A relative of the owner is not already a member or the partner.
RelativeRefused(s, from, pred, to) ==
  \/ SubjectRefused(s, from, pred)
  \/ pred \in RelativePredicates /\ (HasMembershipRow(s, to) \/ IsPartner(s, to))

RelationRefused(s, from, pred, to) ==
  \/ pred \in MembershipPredicates /\ MembershipRefused(s, from, pred, to)
  \/ pred \in PoolRelations /\ RelativeRefused(s, from, pred, to)
  \/ pred \in TemporalPredicates /\ SubjectRefused(s, from, pred)

RelationClass(from, pred) ==
  IF pred \in MembershipPredicates
  THEN [vis |-> "household", sens |-> Sensitivity(pred)]
  ELSE SubjectClass(from, pred)

\* Another active value where there may be only one: the other partner, or the
\* other place.
Rivals(s, from, pred, to) ==
  CASE pred = "partner_of" ->
         LET other == IF from = Owner THEN to ELSE from
         IN  {who \in Persons \ {other} : Related(s, who, "partner_of", Owner)}
    [] pred \in TemporalPredicates ->
         {place \in Names \ {to} : Between(s, from, pred, place) # {}}
    [] OTHER -> {}

(***************************************************************************)
(* The four writes.  Each returns the store it leaves and whether it was   *)
(* accepted; a refused write leaves the store as it was.                   *)
(***************************************************************************)
Refused(s) == [store |-> s, ok |-> FALSE]
Accepted(s) == [store |-> s, ok |-> TRUE]

Superseded(row) == [row EXCEPT !.life = "superseded"]

LiteralRow(l, chan) ==
  [who |-> l.who, pred |-> l.pred, value |-> l.value,
   vis |-> SubjectClass(l.who, l.pred).vis, sens |-> SubjectClass(l.who, l.pred).sens,
   chan |-> chan, life |-> "active"]

ActiveLiterals(s, who, pred) == {r \in Active(s.literals) : r.who = who /\ r.pred = pred}

InsertLiteral(s, row) ==
  LET old == IF row.pred \in SingleCurrent THEN ActiveLiterals(s, row.who, row.pred) ELSE {}
  IN  [s EXCEPT !.literals = (@ \ old) \cup {Superseded(r) : r \in old} \cup {row}]

SameClass(row, class) == row.vis = class.vis /\ row.sens = class.sens

WriteLiteral(s, l, chan, policy) ==
  LET active == ActiveLiterals(s, l.who, l.pred)
      present == IF l.valid THEN {r \in active : r.value = l.value} ELSE {}
      row == LiteralRow(l, chan)
  IN  IF l.pred \in Unstorable \/ SubjectRefused(s, l.who, l.pred)
      THEN Refused(s)
      ELSE IF present # {}
      THEN IF \A r \in present : SameClass(r, row) THEN Accepted(s) ELSE Refused(s)
      ELSE IF \/ ~l.valid
              \/ policy = "refuse" /\ l.pred \in SingleCurrent /\ active # {}
              \/ ~Exists(s, l.who) \/ l.who \notin SubjectsOf(l.pred)
      THEN Refused(s)
      ELSE Accepted(InsertLiteral(s, row))

\* The ends of a relation as they are stored.
Stored(from, pred, to) ==
  IF pred \in Symmetric /\ to = Owner THEN [from |-> to, to |-> from] ELSE [from |-> from, to |-> to]

RelationRow(from, pred, to, class, chan) ==
  [from |-> Stored(from, pred, to).from, pred |-> pred, to |-> Stored(from, pred, to).to,
   vis |-> class.vis, sens |-> class.sens, chan |-> chan, life |-> "active"]

\* A temporal relation closes the ones of its subject that were active.
InsertRelation(s, row) ==
  LET old == IF row.pred \in TemporalPredicates
             THEN {r \in Active(s.relations) : r.from = row.from /\ r.pred = row.pred}
             ELSE {}
  IN  [s EXCEPT !.relations = (@ \ old) \cup {Superseded(r) : r \in old} \cup {row}]

EndsRefused(s, from, pred, to) ==
  \/ from = to
  \/ ~Exists(s, from) \/ from \notin SubjectsOf(pred)
  \/ ~Exists(s, to) \/ to \notin TargetsOf(pred)

\* assert_entity_relation: an active row of the same ends is returned as it is.
AssertRelation(s, row) ==
  IF Between(s, row.from, row.pred, row.to) # {} THEN s ELSE InsertRelation(s, row)

WriteRelation(s, from, pred, to, chan, policy) ==
  LET row == RelationRow(from, pred, to, RelationClass(from, pred), chan)
      present == Between(s, row.from, pred, row.to)
  IN  IF \/ RelationRefused(s, from, pred, to)
         \/ policy = "refuse" /\ Rivals(s, from, pred, to) # {}
         \/ EndsRefused(s, from, pred, to)
         \/ \E r \in present : ~SameClass(r, row)
      THEN Refused(s)
      ELSE Accepted(AssertRelation(s, row))

ContactRow(c, chan) ==
  [who |-> c.who, role |-> c.role, phone |-> c.phone, order |-> c.order, key |-> c.key,
   chan |-> chan, life |-> "active"]

SameTerms(row, c) == row.phone = c.phone /\ row.order = c.order /\ row.key = c.key

CurrentContact(s, c) == {r \in Active(s.contacts) : r.who = c.who /\ r.role = c.role}

OrderTaken(s, c) ==
  /\ c.order # NoOrder
  /\ \E r \in Active(s.contacts) \ CurrentContact(s, c) : r.order = c.order

WriteContact(s, c, chan, policy) ==
  LET current == CurrentContact(s, c)
      revoked == {[r EXCEPT !.life = "revoked"] : r \in current}
  IN  IF c.who = Owner \/ ~Exists(s, c.who) \/ c.who \notin Persons
      THEN Refused(s)
      ELSE IF \E r \in current : SameTerms(r, c)
      THEN Accepted(s)
      ELSE IF (policy = "refuse" /\ current # {}) \/ OrderTaken(s, c)
      THEN Refused(s)
      ELSE Accepted([s EXCEPT !.contacts = (@ \ current) \cup revoked \cup {ContactRow(c, chan)}])

\* A third party is created once.  An entity of that name is taken again only by
\* the same role of a seed file, and its guardianship must be the stored one.
CreateThirdParty(s, who, key, adult) ==
  LET existing == {e \in s.entities : e.who = who}
  IN  IF existing = {}
      THEN Accepted([s EXCEPT !.entities = @ \cup {Entity(who, key, adult)}])
      ELSE IF \A e \in existing : e.key = key /\ (key = "child" => e.adult = adult)
      THEN Accepted(s)
      ELSE Refused(s)

\* upsert_entity: the entity of that name, created when there is none.
UpsertEntity(s, who) ==
  IF Exists(s, who) THEN s ELSE [s EXCEPT !.entities = @ \cup {Entity(who, "none", FALSE)}]

(***************************************************************************)
(* Revoking one row, and retracting what a channel wrote.                  *)
(***************************************************************************)
Revoked(rows, row) ==
  IF row \in Active(rows) THEN (rows \ {row}) \cup {[row EXCEPT !.life = "revoked"]} ELSE rows

OfChannel(rows, chan) == {row \in rows : row.chan = chan}

DeleteByChannel(s, chan) ==
  [s EXCEPT !.literals = @ \ OfChannel(@, chan),
            !.relations = @ \ OfChannel(@, chan),
            !.contacts = @ \ OfChannel(@, chan)]

\* Mutation of HasRows: the contacts are not looked at.
HasFacts(s, who) ==
  \/ \E r \in s.literals : r.who = who
  \/ \E r \in s.relations : r.from = who \/ r.to = who

HasRows(s, who) ==
  \/ \E r \in s.literals : r.who = who
  \/ \E r \in s.relations : r.from = who \/ r.to = who
  \/ \E c \in s.contacts : c.who = who

\* What delete_orphan_import_entities deletes.
Orphans(s) == {e \in s.entities : e.key # "none" /\ ~HasRows(s, e.who)}

(***************************************************************************)
(* What the rows of a store must be.                                       *)
(***************************************************************************)
\* A predicate of one current value has one active value for each subject
\* (_insert_literal_fact supersedes the others).
OneCurrentValue(s) ==
  \A a, b \in Active(s.literals) :
    a.pred \in SingleCurrent /\ a.who = b.who /\ a.pred = b.pred => a = b

\* No two active contacts share a place in the order of calls.
OrdersAreFree(s) ==
  \A a, b \in Active(s.contacts) : a.order # NoOrder /\ a.order = b.order => a = b

\* Nobody is two things to the owner: a child or pet, the partner, a relative.
OneRole(s, who) ==
  /\ ~(HasMembershipRow(s, who) /\ IsPartner(s, who))
  /\ ~(HasMembershipRow(s, who) /\ IsRelative(s, who))
  /\ ~(IsPartner(s, who) /\ IsRelative(s, who))
=========================================================================
