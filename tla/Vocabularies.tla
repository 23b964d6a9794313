---------------------------- MODULE Vocabularies ----------------------------
(***************************************************************************)
(* The versions of the controlled vocabulary of item metadata, of which one*)
(* is active.  create_metadata_schema and the activate endpoint replace the*)
(* active one in a transaction; PATCH reads a whole row and later saves it;*)
(* DELETE removes one.                                                     *)
(*                                                                         *)
(* Transactions are those of PostgreSQL at READ COMMITTED: an UPDATE finds *)
(* its rows when it begins, waits for those that are locked, and leaves out*)
(* what no longer matches; the unique indexes, one of them on the active   *)
(* row alone, make a writer wait for open transactions and then fail.      *)
(***************************************************************************)
EXTENDS Integers, FiniteSets

CONSTANTS
  Schemas,   \* rows of itembank_metadataschema, deleted ones included
  Admins,    \* requests at a time
  MaxVersion \* bound: versions

ASSUME VocabulariesAssumption == MaxVersion \in Nat

VARIABLES
  schema,   \* the rows, as committed
  admin     \* per request: its transaction, or the row it read

vocabularyVars == <<schema, admin>>

-----------------------------------------------------------------------------
Row(version, is_active) == [stored |-> TRUE, version |-> version, is_active |-> is_active]

\* Not there: an identifier nobody refers to any more stands for a new one.
NoRow == [stored |-> FALSE]

AtRest == [pc |-> "rest"]

VocabulariesInit ==
  /\ schema = [i \in Schemas |-> NoRow]
  /\ admin = [a \in Admins |-> AtRest]

Stored == {i \in Schemas : schema[i].stored}

ActiveSchemas == {i \in Stored : schema[i].is_active}

-----------------------------------------------------------------------------
Busy(a) == admin[a].pc # "rest"

\* The rows a transaction has locked: the one it activates and those it has
\* deactivated.
LockedBy(a) ==
  IF admin[a].pc \in {"find", "deactivate", "write", "commit"}
  THEN admin[a].off \cup (IF admin[a].op = "activate" THEN {admin[a].id} ELSE {})
  ELSE {}

Unlocked(a, rows) == \A b \in Admins \ {a} : rows \cap LockedBy(b) = {}

GoTo(a, pc) == admin' = [admin EXCEPT ![a].pc = pc]

GiveUp(a) == admin' = [admin EXCEPT ![a] = AtRest]

Transaction(pc, op, id, version, is_active) ==
  [pc |-> pc, op |-> op, id |-> id, version |-> version, is_active |-> is_active,
   seen |-> {}, off |-> {}]

\* The one after the last version, or the first.
NextVersion(version) ==
  /\ \A i \in Stored : schema[i].version < version
  /\ version = 1 \/ \E i \in Stored : schema[i].version = version - 1

\* POST metadata-schemas/: create_metadata_schema looks for the last version,
CreateSchema(a, i, activate) ==
  /\ ~Busy(a)
  /\ schema[i] = NoRow /\ \A b \in Admins : Busy(b) => admin[b].id # i
  /\ \E version \in 1..MaxVersion :
       /\ NextVersion(version)
       /\ admin' = [admin EXCEPT ![a] =
            Transaction(IF activate THEN "find" ELSE "write", "create", i, version, activate)]
  /\ UNCHANGED schema

\* POST metadata-schemas/{id}/activate/ locks the row: the filter by its id is
\* part of the query that locks.
ActivateSchema(a, i) ==
  /\ ~Busy(a)
  /\ i \in Stored /\ Unlocked(a, {i})
  /\ admin' = [admin EXCEPT ![a] =
       Transaction("find", "activate", i, schema[i].version, TRUE)]
  /\ UNCHANGED schema

\* Both update the rows that are active: the rows are found,
FindActive(a) ==
  /\ admin[a].pc = "find"
  /\ admin' = [admin EXCEPT ![a].pc = "deactivate", ![a].seen = ActiveSchemas \ {admin[a].id}]
  /\ UNCHANGED schema

\* Mutant: the update is committed on its own.
DeactivateNow(a) ==
  /\ admin[a].pc = "deactivate"
  /\ Unlocked(a, admin[a].seen)
  /\ schema' = [i \in Schemas |-> IF i \in admin[a].seen \cap ActiveSchemas
                                  THEN [schema[i] EXCEPT !.is_active = FALSE] ELSE schema[i]]
  /\ GoTo(a, "write")

\* and, when nobody has them locked, changed if they still are active.
Deactivate(a) ==
  /\ admin[a].pc = "deactivate"
  /\ Unlocked(a, admin[a].seen)
  /\ admin' = [admin EXCEPT ![a].pc = "write", ![a].off = admin[a].seen \cap ActiveSchemas]
  /\ UNCHANGED schema

-----------------------------------------------------------------------------
(* The unique indexes.                                                     *)

\* What others have written and not committed might take the version, or has
\* the index entry of the active row: one waits.
Wrote(b) == admin[b].pc = "commit"

VersionAwaited(a) ==
  \E b \in Admins \ {a} : /\ Wrote(b) /\ admin[b].op = "create"
                          /\ admin[b].version = admin[a].version

ActiveAwaited(a) ==
  \E b \in Admins \ {a} : Busy(b) /\ admin[b].pc # "save" /\
    \/ Wrote(b) /\ admin[b].is_active
    \/ admin[b].off \cap ActiveSchemas # {}

VersionTaken(a) == \E i \in Stored \ {admin[a].id} : schema[i].version = admin[a].version

OtherIsActive(a, off) == ActiveSchemas \ (off \cup {admin[a].id}) # {}

\* The statement that writes the row: it may have to wait, or fail.
MayWrite(a, inserts, activates) ==
  /\ inserts => ~VersionAwaited(a)
  /\ activates => ~ActiveAwaited(a)

Violates(a, inserts, activates, off) ==
  (inserts /\ VersionTaken(a)) \/ (activates /\ OtherIsActive(a, off))

\* objects.create, and save(update_fields=["is_active"]).
WriteSchema(a) ==
  LET inserts   == admin[a].op = "create"
      activates == admin[a].is_active /\ admin[a].id \notin ActiveSchemas
  IN  /\ admin[a].pc = "write"
      /\ MayWrite(a, inserts, activates)
      /\ IF Violates(a, inserts, activates, admin[a].off) THEN GiveUp(a) ELSE GoTo(a, "commit")
      /\ UNCHANGED schema

CommitSchema(a) ==
  /\ admin[a].pc = "commit"
  /\ schema' = [i \in Schemas |->
       IF i = admin[a].id THEN Row(admin[a].version, admin[a].is_active)
       ELSE IF i \in admin[a].off THEN [schema[i] EXCEPT !.is_active = FALSE] ELSE schema[i]]
  /\ GiveUp(a)

\* The worker dies, and its transaction is rolled back.
DieChanging(a) == Busy(a) /\ GiveUp(a) /\ UNCHANGED schema

-----------------------------------------------------------------------------
(* What ModelViewSet adds.                                                 *)

\* PATCH metadata-schemas/{id}/: the row is read,
ReadSchema(a, i) ==
  /\ ~Busy(a)
  /\ i \in Stored
  /\ admin' = [admin EXCEPT ![a] =
       Transaction("save", "patch", i, schema[i].version, schema[i].is_active)]
  /\ UNCHANGED schema

\* and saved with all its columns, or inserted again if it has been deleted.
SaveSchema(a) ==
  LET i == admin[a].id
      inserts   == i \notin Stored
      activates == admin[a].is_active /\ i \notin ActiveSchemas
  IN  /\ admin[a].pc = "save"
      /\ Unlocked(a, {i})
      /\ MayWrite(a, inserts, activates)
      /\ schema' = IF Violates(a, inserts, activates, {}) THEN schema
                   ELSE [schema EXCEPT ![i] = Row(admin[a].version, admin[a].is_active)]
      /\ GiveUp(a)

\* DELETE metadata-schemas/{id}/
DestroySchema(i) ==
  /\ i \in Stored /\ \A a \in Admins : i \notin LockedBy(a)
  /\ schema' = [schema EXCEPT ![i] = NoRow]
  /\ UNCHANGED admin

-----------------------------------------------------------------------------
VocabulariesNext ==
  \/ \E a \in Admins :
       \/ \E i \in Schemas :
            \/ \E activate \in BOOLEAN : CreateSchema(a, i, activate)
            \/ ActivateSchema(a, i) \/ ReadSchema(a, i)
       \/ FindActive(a) \/ Deactivate(a) \/ WriteSchema(a) \/ CommitSchema(a)
       \/ SaveSchema(a) \/ DieChanging(a)
  \/ \E i \in Schemas : DestroySchema(i)

VocabulariesSpec == VocabulariesInit /\ [][VocabulariesNext]_vocabularyVars

-----------------------------------------------------------------------------
(* Properties.                                                             *)

\* There is at most one active vocabulary, and where there was one there is one:
\* it is replaced, by whoever creates or activates another at the same time, and
\* also when that fails.  Only a DELETE of it leaves none, and the PATCH of a
\* row that was read before it was activated, which saves it inactive again.
OneVocabulary ==
  [][/\ \A i, j \in ActiveSchemas' : i = j
     /\ ActiveSchemas # {} /\ ActiveSchemas' = {} =>
          \E i \in ActiveSchemas : ~schema'[i].stored \/ \E a \in Admins : SaveSchema(a)
    ]_vocabularyVars
=============================================================================
