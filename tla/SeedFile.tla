---------------------------- MODULE SeedFile ----------------------------
(***************************************************************************)
(* The household's seed file: which files are accepted, and the plan of    *)
(* writes an accepted one is turned into.  A file is a record:             *)
(*   partner, parents, grandparents, siblings, grandchildren : names       *)
(*   children   : what is said of each, [who, adult]                       *)
(*   pets, withhold : names                                                *)
(*   literals   : what is said of the owner, the children and the pets     *)
(*   contacts   : the people to call                                       *)
(*   status     : the sections the person declared without items           *)
(* Names are folded and values have the format of their predicate: both    *)
(* are settled when the file is parsed.                                    *)
(***************************************************************************)
EXTENDS CanonicalStore

CONSTANT Zero   \* the age of 0, which may be among the Values

Sections == {"conditions", "allergies", "medications", "devices", "contacts", "withhold",
             "secrets", "documents", "household", "home", "function"}

Declared == {"none", "unknown", "declined", "not_asked"}
Statuses == Declared \cup {"provided"}

\* The lists of a file that hold relatives, their roles and their predicates.
Relatives == {"parents", "grandparents", "siblings", "grandchildren"}
RoleOf(list) == CASE list = "parents" -> "parent"
                  [] list = "grandparents" -> "grandparent"
                  [] list = "siblings" -> "sibling"
                  [] list = "grandchildren" -> "grandchild"
PredicateOf(list) == CASE list = "parents" -> "has_parent"
                       [] list = "grandparents" -> "has_grandparent"
                       [] list = "siblings" -> "has_sibling"
                       [] list = "grandchildren" -> "has_grandchild"

NamesOf(rows) == {row.who : row \in rows}
Children(file) == NamesOf(file.children)

\* The lists of people of whom nobody may be in two.
Groups(file) ==
  [list \in Relatives \cup {"owner", "partner", "children", "pets"} |->
     CASE list = "owner" -> {Owner}
       [] list = "children" -> Children(file)
       [] OTHER -> file[list]]

(***************************************************************************)
(* What is refused when the file is read.                                  *)
(***************************************************************************)
NamesTwice(file) ==
  \/ \E a, b \in DOMAIN Groups(file) : a # b /\ Groups(file)[a] \cap Groups(file)[b] # {}
  \/ (NamesOf(file.contacts) \cup file.withhold) \cap ({Owner} \cup file.pets) # {}

ContactsTwice(file) ==
  \E a, b \in file.contacts :
    /\ a # b
    /\ (a.order # NoOrder /\ a.order = b.order) \/ (a.who = b.who /\ a.role = b.role)

LikedAndDisliked(file) ==
  \E a, b \in file.literals :
    a.who = b.who /\ a.value = b.value /\ a.pred = "likes" /\ b.pred = "dislikes"

\* An adult child is a name and its guardianship only, and an age is said once; but
\* the age of an adult child is tested for truth, and 0 passes for no age.
SaysNothing(l) == l.pred = "stated_age" /\ l.value = Zero

ChildFactsRefused(file) ==
  \/ \E child \in file.children, l \in file.literals :
       child.adult /\ child.who = l.who /\ ~SaysNothing(l)
  \/ \E a, b \in file.literals :
       a.who = b.who /\ a.who \in Children(file) /\ a.pred = "birth_date" /\ b.pred = "stated_age"

SectionOf(pred) ==
  CASE pred = "health_condition" -> {"conditions"}
    [] pred = "allergic_to" -> {"allergies"}
    [] pred \in {"medication", "takes_anticoagulant", "rescue_medication"} -> {"medications"}
    [] pred = "implanted_device" -> {"devices"}
    [] pred = "secret_holder" -> {"secrets"}
    [] pred = "document_location" -> {"documents"}
    [] pred \in {"home_address", "dwelling_type", "floor", "has_lift", "home_access_note",
                 "lives_alone", "preferred_emergency_facility"} -> {"home"}
    [] pred \in {"mobility", "hearing", "vision"} -> {"function"}
    [] OTHER -> {}

SectionsWithItems(file) ==
  (UNION {SectionOf(l.pred) : l \in {x \in file.literals : x.who = Owner}})
    \cup (IF file.contacts # {} THEN {"contacts"} ELSE {})
    \cup (IF file.withhold # {} THEN {"withhold"} ELSE {})
    \cup (IF file.partner \cup Children(file) \cup file.pets # {} THEN {"household"} ELSE {})

\* status is a function on the sections the person declared.
StatusRefused(file) ==
  \E section \in DOMAIN file.status :
    (section \in SectionsWithItems(file)) # (file.status[section] = "provided")

Readable(file) ==
  /\ ~NamesTwice(file)
  /\ ~ContactsTwice(file)
  /\ ~LikedAndDisliked(file)
  /\ ~ChildFactsRefused(file)
  /\ ~StatusRefused(file)

(***************************************************************************)
(* The plan: entities, relations, literals and contacts, in this order.    *)
(***************************************************************************)
\* A name is created once, under the first role the file gives it.
FirstRole(file, who) ==
  CASE who \in file.partner -> "partner"
    [] who \in Children(file) -> "child"
    [] \E list \in Relatives : who \in file[list] ->
         RoleOf(CHOOSE list \in Relatives : who \in file[list])
    [] who \in file.pets -> "pet"
    [] OTHER -> "third_party"

Named(file) == ((UNION {Groups(file)[list] : list \in DOMAIN Groups(file)}) \ {Owner})
                 \cup file.withhold \cup NamesOf(file.contacts)

Creations(file) ==
  {Entity(who, FirstRole(file, who), \E child \in file.children : child.who = who /\ child.adult) :
     who \in Named(file)}

Relation(from, pred, to) == [from |-> from, pred |-> pred, to |-> to]

RelationsOf(file) ==
  {Relation(who, "child_of", Owner) : who \in Children(file)}
    \cup {Relation(who, "partner_of", Owner) : who \in file.partner}
    \cup {Relation(who, "pet_of", Owner) : who \in file.pets}
    \cup (UNION {{Relation(Owner, PredicateOf(list), who) : who \in file[list]} : list \in Relatives})
    \cup {Relation(Owner, "withhold_from", who) : who \in file.withhold}

Plan(file) == [entities |-> Creations(file), relations |-> RelationsOf(file),
               literals |-> file.literals, contacts |-> file.contacts]

SectionStatuses(file) ==
  [section \in Sections |->
     IF section \in SectionsWithItems(file) THEN "provided"
     ELSE IF section \in DOMAIN file.status THEN file.status[section] ELSE "not_asked"]
=========================================================================
