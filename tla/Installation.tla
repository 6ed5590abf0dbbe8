-------------------------- MODULE Installation --------------------------
(***************************************************************************)
(* An installation from its first setup to its life after commissioning:   *)
(* the personal setup, the seed file that is loaded and loaded again, the  *)
(* closing of the commissioning with its acta, the local administrator and *)
(* the tastes promoted by voice, all writing the same store                *)
(* (personal_setup.py, seed_cli.py, commission_cli.py, admin_cli.py and    *)
(* memory/seed_run.py, seed_import.py, seed_replace.py, commissioning.py,  *)
(* commissioning_acta.py, admin_ops.py, memory_writer.py).                 *)
(*                                                                         *)
(* Every transaction is a step, but that of a load, which holds the write  *)
(* lock from LoadBegins to LoadEnds while its writes go on one by one.     *)
(* The command-line tools look once whether the server answers: a server   *)
(* that starts later is not seen, so all of them may run together.         *)
(***************************************************************************)
EXTENDS SeedFile, Sequences

CONSTANTS
  Seeds,          \* the seed files, named by their digest
  Contents,       \* what each file says
  NoSeed,         \* no file
  Faces,          \* the people whose face may be learnt by name
  SetupChildren,  \* the children that may be named at the personal setup
  AdminLiterals,  \* what the administrator may write of the owner
  VoiceTastes,    \* the tastes the owner may confirm by voice
  MaxSetups, MaxLoads, MaxEdits   \* bounds

ASSUME ContentsAreFiles ==
  /\ NoSeed \notin Seeds
  /\ \A id \in Seeds : /\ RelationsOf(Contents[id]) \subseteq OfferedRelations
                       /\ Creations(Contents[id]) \subseteq EntityRows
                       /\ Contents[id].literals \subseteq OfferedLiterals
                       /\ Contents[id].contacts \subseteq OfferedContacts
ASSUME EditsAreLiterals ==
  /\ AdminLiterals \subseteq OfferedLiterals
  /\ VoiceTastes \subseteq Values
  /\ SetupChildren \cup Faces \subseteq Persons \ {Owner}

VARIABLES
  store,      \* the committed rows
  owner,      \* whether the owner's role and the PIN are active
  setup,      \* the personal setup that is running
  enrolled,   \* the owner's biometric modalities
  tied,       \* entities that another table refers to: a face by name
  candidate,  \* whether a memory candidate is live
  record,     \* the commissioning record
  acta,       \* the acta on disk
  loader,     \* the seed import that is running
  closer,     \* the closing that is running
  editor,     \* the contact change that is running
  audit,      \* administrator operations audited
  setups, loads,
  last        \* history: the file last loaded, and whether nobody wrote since

people == <<owner, setup, enrolled, tied, candidate>>
tools == <<loader, closer, editor>>
counters == <<audit, setups, loads>>
vars == <<store, people, record, acta, tools, counters, last>>

-----------------------------------------------------------------------------
(* The record of a commissioning and what is kept of a running tool.       *)

Columns == {"baseline", "notice", "consents", "readiness", "modalities"}

NoSections == [section \in Sections |-> "not_asked"]

NoRecord == [status |-> "none", sha |-> NoSeed, sections |-> NoSections, columns |-> {},
             ready |-> FALSE]

\* What an acta says.
NoActa == [sha |-> NoSeed, sections |-> NoSections, columns |-> {}, ready |-> FALSE]

NoPlan == [entities |-> {}, relations |-> {}, literals |-> {}, contacts |-> {}]

NoLoad == [at |-> "idle", file |-> NoSeed, replace |-> FALSE, apply |-> FALSE,
           declared |-> FALSE, opened |-> FALSE, commit |-> FALSE, left |-> NoPlan, ids |-> {},
           work |-> EmptyStore, problem |-> FALSE]

\* draft: what write_acta has read so far.
NoClosing == [at |-> "idle", function |-> FALSE, draft |-> NoActa]
NoEdit == {}      \* the contact row a change was started from, when there is one
NoSetup == [at |-> "idle", left |-> {}, child |-> Owner]

Init ==
  /\ store = EmptyStore
  /\ owner = [role |-> FALSE, pin |-> FALSE]
  /\ setup = NoSetup
  /\ enrolled = {} /\ tied = {} /\ candidate = FALSE
  /\ record = NoRecord /\ acta = NoActa
  /\ loader = NoLoad /\ closer = NoClosing /\ editor = NoEdit
  /\ audit = 0 /\ setups = 0 /\ loads = 0
  /\ last = [file |-> NoSeed, untouched |-> FALSE]

OwnerReady == owner.role /\ owner.pin
WindowOpen == record.status # "closed"
Unlocked == loader.at # "tx"

\* A write of anybody but a load.
Writes(s) == /\ Unlocked
             /\ store' = s
             /\ last' = [last EXCEPT !.untouched = @ /\ s = store]

-----------------------------------------------------------------------------
(* Personal setup: the owner, the children, the PIN, each in transactions  *)
(* of their own.  It may be run again; what it finds done it leaves.       *)

SetupGoes(next) == setup' = next

SetupStarts(children) ==
  /\ setup.at = "idle" /\ setups < MaxSetups
  /\ setups' = setups + 1
  /\ SetupGoes([at |-> "owner", left |-> children, child |-> Owner])
  /\ UNCHANGED <<store, owner, enrolled, tied, candidate, record, acta, tools, audit, loads, last>>

SetupNamesOwner ==
  /\ setup.at = "owner"
  /\ Writes(UpsertEntity(store, Owner))
  /\ SetupGoes([setup EXCEPT !.at = "role"])
  /\ UNCHANGED <<owner, enrolled, tied, candidate, record, acta, tools, counters>>

SetupGivesRole ==
  /\ setup.at = "role" /\ Unlocked
  /\ owner' = [owner EXCEPT !.role = TRUE]
  /\ SetupGoes([setup EXCEPT !.at = "children"])
  /\ UNCHANGED <<store, enrolled, tied, candidate, record, acta, tools, counters, last>>

SetupNamesChild(child) ==
  /\ setup.at = "children" /\ child \in setup.left
  /\ Writes(UpsertEntity(store, child))
  /\ SetupGoes([setup EXCEPT !.at = "relation", !.child = child])
  /\ UNCHANGED <<owner, enrolled, tied, candidate, record, acta, tools, counters>>

\* The relation is asserted as it is, without asking the canonical writer; a child
\* that a replacing load has deleted meanwhile stops the setup.
SetupRelatesChild ==
  /\ setup.at = "relation" /\ ~EndsRefused(store, setup.child, "child_of", Owner)
  /\ Writes(AssertRelation(store,
              RelationRow(setup.child, "child_of", Owner, RelationClass(setup.child, "child_of"), "none")))
  /\ SetupGoes([setup EXCEPT !.at = "children", !.left = @ \ {setup.child}, !.child = Owner])
  /\ UNCHANGED <<owner, enrolled, tied, candidate, record, acta, tools, counters>>

SetupSavesPin ==
  /\ setup.at = "children" /\ setup.left = {} /\ Unlocked
  /\ owner' = [owner EXCEPT !.pin = TRUE]
  /\ SetupGoes(NoSetup)
  /\ UNCHANGED <<store, enrolled, tied, candidate, record, acta, tools, counters, last>>

SetupStops ==
  /\ setup.at # "idle"
  /\ SetupGoes(NoSetup)
  /\ UNCHANGED <<store, owner, enrolled, tied, candidate, record, acta, tools, counters, last>>

Setup ==
  \/ \E children \in SUBSET SetupChildren : SetupStarts(children)
  \/ SetupNamesOwner
  \/ SetupGivesRole
  \/ \E child \in SetupChildren : SetupNamesChild(child)
  \/ SetupRelatesChild
  \/ SetupSavesPin
  \/ SetupStops

-----------------------------------------------------------------------------
(* Enrolment, and what the owner's voice leaves in the store.              *)

Enrol(modality) ==
  /\ OwnerReady /\ modality \notin enrolled /\ Unlocked
  /\ enrolled' = enrolled \cup {modality}
  /\ UNCHANGED <<store, owner, setup, tied, candidate, record, acta, tools, counters, last>>

\* A face learnt by name: its profile refers to the entity of that name.
FaceByName(who) ==
  /\ tied = {}
  /\ Writes(UpsertEntity(store, who))
  /\ tied' = {who}
  /\ UNCHANGED <<owner, setup, enrolled, candidate, record, acta, tools, counters>>

TasteOffered ==
  /\ {"face", "voice"} \subseteq enrolled /\ ~candidate /\ Unlocked
  /\ candidate' = TRUE
  /\ UNCHANGED <<store, owner, setup, enrolled, tied, record, acta, tools, counters, last>>

TasteLapses ==
  /\ candidate /\ Unlocked
  /\ candidate' = FALSE
  /\ UNCHANGED <<store, owner, setup, enrolled, tied, record, acta, tools, counters, last>>

TastePromoted(value) ==
  /\ candidate
  /\ candidate' = FALSE
  /\ Writes(WriteLiteral(store, [who |-> Owner, pred |-> "likes", value |-> value, valid |-> TRUE],
                         "voice", "supersede").store)
  /\ UNCHANGED <<owner, setup, enrolled, tied, record, acta, tools, counters>>

Living ==
  \/ \E modality \in {"face", "voice"} : Enrol(modality)
  \/ \E who \in Faces : FaceByName(who)
  \/ TasteOffered
  \/ TasteLapses
  \/ \E value \in VoiceTastes : TastePromoted(value)

-----------------------------------------------------------------------------
(* The seed import: a dry run, the review, and the same run applied.       *)

LoadGoes(next) ==
  /\ loader' = next
  /\ UNCHANGED <<people, acta, closer, editor, audit, setups>>

LoadOnly(next) == LoadGoes(next) /\ UNCHANGED <<store, record, last>>

\* What run_seed reads before its transaction: the window, the open record, and
\* whether an applied load would have one to write in.
Asked(load, commit) ==
  IF WindowOpen /\ (commit => load.declared \/ record.status = "open")
  THEN [load EXCEPT !.at = "begin", !.commit = commit, !.opened = (record.status = "open")]
  ELSE NoLoad

LoadStarts(file, replace, apply, declared) ==
  /\ loader.at = "idle" /\ loads < MaxLoads
  /\ OwnerReady /\ Readable(Contents[file])
  /\ IF apply THEN declared \/ record.status = "open" ELSE ~declared
  /\ loads' = loads + 1
  /\ LoadOnly(Asked([NoLoad EXCEPT !.file = file, !.replace = replace, !.apply = apply,
                                   !.declared = declared], FALSE))

\* What a replacing load takes out first; it is refused once the robot has
\* learnt something by voice, and blocked by an entity another table refers to.
Retracted == DeleteByChannel(store, "import")

ReplaceRefused ==
  \/ OfChannel(store.literals, "voice") # {}
  \/ candidate
  \/ \E e \in Orphans(Retracted) : e.who \in tied

LoadBegins ==
  /\ loader.at = "begin" /\ loads' = loads
  /\ IF loader.replace /\ ReplaceRefused
     THEN LoadOnly(NoLoad)
     ELSE LET left == IF loader.replace
                      THEN [Retracted EXCEPT !.entities = @ \ Orphans(Retracted)]
                      ELSE store
          IN  LoadOnly([loader EXCEPT !.at = "tx", !.left = Plan(Contents[loader.file]),
                                      !.ids = {Owner}, !.work = left])

InTransaction == loader.at = "tx" /\ loads' = loads

\* One write of the plan, on the rows the transaction has so far.
Did(written, left, ids) ==
  LoadOnly([loader EXCEPT !.work = written.store, !.left = left, !.ids = ids,
                          !.problem = @ \/ ~written.ok])

LoadCreates(e) ==
  /\ InTransaction /\ e \in loader.left.entities
  /\ LET written == CreateThirdParty(loader.work, e.who, e.key, e.adult)
     IN  Did(written, [loader.left EXCEPT !.entities = @ \ {e}],
             IF written.ok THEN loader.ids \cup {e.who} ELSE loader.ids)

\* A write that depends on an entity that was refused is skipped.
OrSkipped(names, written) == IF names \subseteq loader.ids THEN written ELSE Refused(loader.work)

LoadRelates(r) ==
  /\ InTransaction /\ loader.left.entities = {} /\ r \in loader.left.relations
  /\ Did(OrSkipped({r.from, r.to},
                    WriteRelation(loader.work, r.from, r.pred, r.to, "import", "refuse")),
         [loader.left EXCEPT !.relations = @ \ {r}], loader.ids)

LoadStates(l) ==
  /\ InTransaction /\ loader.left.entities \cup loader.left.relations = {}
  /\ l \in loader.left.literals
  /\ Did(OrSkipped({l.who}, WriteLiteral(loader.work, l, "import", "refuse")),
         [loader.left EXCEPT !.literals = @ \ {l}], loader.ids)

LoadLists(c) ==
  /\ InTransaction
  /\ loader.left.entities \cup loader.left.relations \cup loader.left.literals = {}
  /\ c \in loader.left.contacts
  /\ Did(OrSkipped({c.who}, WriteContact(loader.work, c, "import", "refuse")),
         [loader.left EXCEPT !.contacts = @ \ {c}], loader.ids)

\* Mutation of Recordable: the record read before the transaction is trusted.
RecordableAsRead == loader.opened \/ record.status = "none"

\* _record: the open record is written again, or the first one is opened.
Recordable == IF loader.opened THEN record.status = "open" ELSE record.status = "none"

Recorded == [record EXCEPT !.status = "open", !.sha = loader.file,
                           !.sections = SectionStatuses(Contents[loader.file])]

\* Any problem, and a dry run, roll everything back.
LoadEnds ==
  /\ InTransaction /\ loader.left = NoPlan
  /\ IF loader.commit /\ ~loader.problem /\ Recordable
     THEN /\ LoadGoes(NoLoad)
          /\ store' = loader.work
          /\ record' = Recorded
          /\ last' = [file |-> loader.file, untouched |-> TRUE]
     ELSE LoadOnly(IF ~loader.commit /\ ~loader.problem /\ loader.apply
                   THEN [NoLoad EXCEPT !.at = "review", !.file = loader.file,
                           !.replace = loader.replace, !.apply = TRUE, !.declared = loader.declared]
                   ELSE NoLoad)

LoadConfirmed ==
  /\ loader.at = "review" /\ loads' = loads
  /\ LoadOnly(Asked(loader, TRUE))

\* The person cancels, or the process dies and the transaction with it.
LoadStops ==
  /\ loader.at # "idle" /\ loads' = loads
  /\ LoadOnly(NoLoad)

Load ==
  \/ \E file \in Seeds, replace, apply, declared \in BOOLEAN :
       LoadStarts(file, replace, apply, declared)
  \/ LoadBegins
  \/ \E e \in loader.left.entities : LoadCreates(e)
  \/ \E r \in loader.left.relations : LoadRelates(r)
  \/ \E l \in loader.left.literals : LoadStates(l)
  \/ \E c \in loader.left.contacts : LoadLists(c)
  \/ LoadEnds
  \/ LoadConfirmed
  \/ LoadStops

-----------------------------------------------------------------------------
(* The closing: each datum in a transaction of its own, the acta, the end. *)

Stages == <<"baseline", "evaluate", "notice", "consents", "readiness", "modalities",
            "acta", "details", "statuses", "close">>

After(stage) == Stages[1 + CHOOSE i \in 1 .. 9 : Stages[i] = stage]

CloseGoes(next) ==
  /\ closer' = next
  /\ UNCHANGED <<store, people, loader, editor, counters, last>>

\* derive_modalities: what is enrolled is read from the database every time.
Modalities == enrolled \cup (IF owner.pin THEN {"pin"} ELSE {})

CloseStarts ==
  /\ closer.at = "idle"
  /\ OwnerReady /\ {"face", "voice"} \subseteq Modalities /\ record.status = "open"
  /\ CloseGoes([NoClosing EXCEPT !.at = "baseline"])
  /\ UNCHANGED <<record, acta>>

\* The sections are read, and the readiness of the capabilities judged, before
\* anything of it is recorded.
CloseEvaluates ==
  /\ closer.at = "evaluate"
  /\ CloseGoes([closer EXCEPT !.at = After("evaluate"),
                              !.function = record.sections["function"] = "provided"])
  /\ UNCHANGED <<record, acta>>

\* _set_columns: a record that is closed meanwhile is written no more.
CloseRecords(column) ==
  /\ closer.at = column /\ Unlocked
  /\ IF record.status = "open"
     THEN /\ record' = [record EXCEPT !.columns = @ \cup {column},
                                      !.ready = IF column = "readiness" THEN closer.function ELSE @]
          /\ CloseGoes([closer EXCEPT !.at = After(column)])
     ELSE record' = record /\ CloseGoes(NoClosing)
  /\ UNCHANGED acta

\* write_acta reads the open record, its columns and its sections one after the
\* other, in no transaction: a load may write the record in between.
CloseReadsRecord ==
  /\ closer.at = "acta"
  /\ CloseGoes(IF record.status = "open"
               THEN [closer EXCEPT !.at = After("acta"), !.draft.sha = record.sha]
               ELSE NoClosing)
  /\ UNCHANGED <<record, acta>>

CloseReadsDetails ==
  /\ closer.at = "details"
  /\ CloseGoes([closer EXCEPT !.at = After("details"), !.draft.columns = record.columns,
                              !.draft.ready = record.ready])
  /\ UNCHANGED <<record, acta>>

CloseWritesActa ==
  /\ closer.at = "statuses"
  /\ acta' = [closer.draft EXCEPT !.sections = record.sections]
  /\ CloseGoes([closer EXCEPT !.at = After("statuses"), !.draft = NoActa])
  /\ UNCHANGED record

CloseEnds ==
  /\ closer.at = "close" /\ Unlocked
  /\ record' = IF record.status = "open" THEN [record EXCEPT !.status = "closed"] ELSE record
  /\ CloseGoes(NoClosing)
  /\ UNCHANGED acta

CloseStops ==
  /\ closer.at # "idle"
  /\ CloseGoes(NoClosing)
  /\ UNCHANGED <<record, acta>>

Closing ==
  \/ CloseStarts
  \/ CloseEvaluates
  \/ \E column \in Columns : CloseRecords(column)
  \/ CloseReadsRecord
  \/ CloseReadsDetails
  \/ CloseWritesActa
  \/ CloseEnds
  \/ CloseStops

-----------------------------------------------------------------------------
(* The administrator: one transaction for the change and its audit row,    *)
(* after the PIN; the record of the commissioning is not looked at.        *)

Edits(s) ==
  /\ OwnerReady /\ audit < MaxEdits
  /\ audit' = audit + 1
  /\ Writes(s)
  /\ UNCHANGED <<people, record, acta, loader, closer, setups, loads>>

EditLiteral(l) ==
  /\ Edits(WriteLiteral(store, l, "admin", "supersede").store)
  /\ UNCHANGED editor

RevokeLiteral(row) ==
  /\ Edits([store EXCEPT !.literals = Revoked(@, row)])
  /\ UNCHANGED editor

RevokeRelation(row) ==
  /\ Edits([store EXCEPT !.relations = Revoked(@, row)])
  /\ UNCHANGED editor

RevokeContact(row) ==
  /\ Edits([store EXCEPT !.contacts = Revoked(@, row)])
  /\ UNCHANGED editor

\* A change of a contact keeps the other terms as they were when it was listed.
ChangeContactStarts(row) ==
  /\ editor = NoEdit /\ OwnerReady
  /\ editor' = {row}
  /\ UNCHANGED <<store, people, record, acta, loader, closer, counters, last>>

ChangeContactEnds(row, phone) ==
  /\ Edits(WriteContact(store, [who |-> row.who, role |-> row.role, phone |-> phone,
                                order |-> row.order, key |-> row.key], "admin", "supersede").store)
  /\ editor' = NoEdit

ChangeContactStops ==
  /\ editor # NoEdit
  /\ editor' = NoEdit
  /\ UNCHANGED <<store, people, record, acta, loader, closer, counters, last>>

Administration ==
  \/ \E l \in AdminLiterals : EditLiteral(l)
  \/ \E row \in Active(store.literals) : RevokeLiteral(row)
  \/ \E row \in Active(store.relations) : RevokeRelation(row)
  \/ \E row \in Active(store.contacts) : RevokeContact(row)
  \/ \E row \in Active(store.contacts) : ChangeContactStarts(row)
  \/ \E row \in editor, phone \in Phones : ChangeContactEnds(row, phone)
  \/ ChangeContactStops

Next == Setup \/ Living \/ Load \/ Closing \/ Administration

Spec == Init /\ [][Next]_vars

-----------------------------------------------------------------------------
(* What must hold.                                                         *)

\* Loading the file that was loaded last, when nobody wrote since, is accepted
\* whole and changes nothing: each write finds what it wrote (_is_active_repeat,
\* and "already present" in write_literal, write_contact and create_third_party),
\* whatever another write of the same file made of that person.
ReloadIsHarmless ==
  last.untouched =>
    LET plan == Plan(Contents[last.file])
    IN  /\ \A e \in plan.entities : CreateThirdParty(store, e.who, e.key, e.adult) = Accepted(store)
        /\ \A r \in plan.relations :
             WriteRelation(store, r.from, r.pred, r.to, "import", "refuse") = Accepted(store)
        /\ \A l \in plan.literals : WriteLiteral(store, l, "import", "refuse") = Accepted(store)
        /\ \A c \in plan.contacts : WriteContact(store, c, "import", "refuse") = Accepted(store)

NewImports(before, after) == Active(OfChannel(after, "import")) \ before

\* Whether the file says the row.
SaysLiteral(file, row) == \E l \in file.literals : row = LiteralRow(l, "import")
SaysContact(file, row) == \E c \in file.contacts : row = ContactRow(c, "import")
SaysRelation(file, row) ==
  \E r \in RelationsOf(file) :
    row = RelationRow(r.from, r.pred, r.to, RelationClass(r.from, r.pred), "import")

\* An imported row appears only while the commissioning is open, and in the same
\* step the open record names the file that says it; a closed record never changes.
\* The window and the open record are read before the transaction (run_seed), and
\* the closing of another terminal may come in between.
ImportsAreRecorded ==
  [][/\ record.status = "closed" => record' = record
     /\ LET literals == NewImports(store.literals, store'.literals)
            relations == NewImports(store.relations, store'.relations)
            contacts == NewImports(store.contacts, store'.contacts)
        IN  literals \cup relations \cup contacts # {} =>
              /\ record'.status = "open" /\ record'.sha \in Seeds
              /\ \A row \in literals : SaysLiteral(Contents[record'.sha], row)
              /\ \A row \in relations : SaysRelation(Contents[record'.sha], row)
              /\ \A row \in contacts : SaysContact(Contents[record'.sha], row)]_vars

\* Every row, and every face learnt by name, is about entities that exist: a
\* replacing load deletes the entities that an earlier file created, and what
\* another tool wrote of them since keeps them (delete_orphan_import_entities,
\* entity_has_rows).
RowsHaveTheirEntity ==
  /\ \A e \in {r.who : r \in store.literals} \cup {c.who : c \in store.contacts}
            \cup UNION {{r.from, r.to} : r \in store.relations} : Exists(store, e)
  /\ \A who \in tied : Exists(store, who)
=========================================================================
