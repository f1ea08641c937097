--------------------------- MODULE LegacyBootstrap ---------------------------
(***************************************************************************)
(* legacy_bootstrap.py: the rows of a retired catalog are translated and    *)
(* appended to the canonical database in one transaction, after the objects *)
(* they name were verified; other writers of the database keep working.     *)
(* Of its tables stand the three that refer to each other and, as           *)
(* TargetOnly, those the old schema did not have.  A row's columns are what *)
(* the translation derives: a manifest's format and object count.           *)
(***************************************************************************)
EXTENDS Integers, FiniteSets, Sequences, FiniteSetsExt

CONSTANTS
  Manifest, StoredObject, Format,
  NotThere, NoParent,
  ForeignRow,       \* rows of TargetOnly and of legacy tables others may write
  MaxWrites         \* bound

ASSUME BootstrapAssumption ==
  /\ MaxWrites \in Nat /\ NotThere \notin Format
  /\ IsFiniteSet(Manifest) /\ IsFiniteSet(StoredObject)

VARIABLES
  legacy,           \* the retired database: manifests, objects, relations
  intact,           \* the objects that answer a HEAD as their row says
  target,           \* committed rows of the canonical database
  planned,          \* rows found missing, in insertion order
  unit,             \* rows inserted by the open transaction
  bootstrap,        \* idle, planned, inserting, applied, refused
  writes

bootstrapVars == <<legacy, intact, target, planned, unit, bootstrap, writes>>

(* What the old schema's foreign keys let its rows be.                      *)
LegacySnapshots ==
  {l \in [parent : [Manifest -> Manifest \cup {NoParent, NotThere}],
          format : [StoredObject -> Format \cup {NotThere}],
          relations : SUBSET (Manifest \X StoredObject)] :
     /\ \A m \in Manifest : l.parent[m] \in Manifest => l.parent[l.parent[m]] # NotThere
     /\ \A r \in l.relations : l.parent[r[1]] # NotThere /\ l.format[r[2]] # NotThere}

Manifests == {m \in Manifest : legacy.parent[m] # NotThere}
ListedObjects == {o \in StoredObject : legacy.format[o] # NotThere}
Linked(m) == {r[2] : r \in {q \in legacy.relations : q[1] = m}}
FormatsOf(m) == {legacy.format[o] : o \in Linked(m)}

-----------------------------------------------------------------------------
(* _translate_legacy_v001.                                                  *)

(* Mutant: an object with several relations is let through.                 *)
SomeRelation(o) == \E r \in legacy.relations : r[2] = o

OneRelation(o) == Cardinality({r \in legacy.relations : r[2] = o}) = 1
Translatable ==
  /\ \A o \in ListedObjects : OneRelation(o)
  /\ \A m \in Manifests : Cardinality(FormatsOf(m)) = 1

Row(table, key, parents, columns) ==
  [table |-> table, key |-> key, parents |-> parents, columns |-> columns]
ObjectRow(o) == Row("object", <<o>>, {}, <<legacy.format[o], 1>>)
ManifestRow(m) ==
  Row("manifest", <<m>>,
      IF legacy.parent[m] = NoParent THEN {} ELSE {<<"manifest", <<legacy.parent[m]>>>>},
      <<CHOOSE f \in FormatsOf(m) : TRUE, Cardinality(Linked(m))>>)
RelationRow(r) ==
  Row("relation", r, {<<"manifest", <<r[1]>>>>, <<"object", <<r[2]>>>>}, <<legacy.format[r[2]], 1>>)

SourceRows ==
  {ObjectRow(o) : o \in ListedObjects} \cup {ManifestRow(m) : m \in Manifests}
  \cup {RelationRow(r) : r \in legacy.relations}

KeyOf(row) == <<row.table, row.key>>
TargetOnly(row) == row.table = "event"

(* _missing_rows: the target may hold rows of the source and of tables the  *)
(* source cannot have, nothing else and nothing altered.                    *)
Comparable(rows) == \A row \in rows : row \in SourceRows \/ TargetOnly(row)
MissingRows(rows) == {row \in SourceRows : \A t \in rows : KeyOf(t) # KeyOf(row)}

(* _parent_first: repeatedly the rows whose parent is inserted or is not    *)
(* among the missing ones; the rest, when none is left, are a cycle.        *)
Ready(rows, done) ==
  {row \in rows \ done : \A p \in row.parents :
     p \in {KeyOf(d) : d \in done} \/ p \notin {KeyOf(r) : r \in rows}}
Rounds(rows) ==
  LET round[n \in 0 .. Cardinality(rows)] ==
        IF n = 0 THEN {} ELSE round[n - 1] \cup Ready(rows, round[n - 1])
  IN round
Acyclic(rows) == Rounds(rows)[Cardinality(rows)] = rows

(* Mutant: the newest row comes first.                                      *)
NewestFirst(rows) ==
  LET last == Cardinality(rows)
  IN [n \in 1 .. last |-> Rounds(rows)[last + 1 - n] \ Rounds(rows)[last - n]]

(* The rows of a table in rounds, parents before children.                  *)
ParentFirst(rows) == [n \in 1 .. Cardinality(rows) |-> Rounds(rows)[n] \ Rounds(rows)[n - 1]]

OfTable(rows, table) == {row \in rows : row.table = table}
InsertionOrder(rows) ==
  ParentFirst(OfTable(rows, "object")) \o ParentFirst(OfTable(rows, "manifest"))
  \o ParentFirst(OfTable(rows, "relation"))

-----------------------------------------------------------------------------
BootstrapInit ==
  /\ legacy \in LegacySnapshots
  /\ intact \in {S \in SUBSET ListedObjects : Cardinality(ListedObjects \ S) <= 1}
  /\ target = {} /\ planned = <<>> /\ unit = {} /\ bootstrap = "idle" /\ writes = 0

(* The audit: counts, a HEAD of every object, the comparison.               *)
Plan ==
  /\ bootstrap = "idle"
  /\ LET missing == MissingRows(target)
     IN IF Translatable /\ ListedObjects \subseteq intact /\ Comparable(target)
           /\ Acyclic(OfTable(missing, "manifest"))
        THEN IF missing = {} THEN bootstrap' = "applied" /\ UNCHANGED planned
             ELSE bootstrap' = "inserting" /\ planned' = InsertionOrder(missing)
        ELSE bootstrap' = "refused" /\ UNCHANGED planned
  /\ UNCHANGED <<legacy, intact, target, unit, writes>>

(* append_unique: a row another writer committed meanwhile stays.           *)
InsertNext ==
  /\ bootstrap = "inserting" /\ planned # <<>>
  /\ unit' = unit \cup {row \in Head(planned) : \A t \in target : KeyOf(t) # KeyOf(row)}
  /\ planned' = Tail(planned)
  /\ UNCHANGED <<legacy, intact, target, bootstrap, writes>>

(* Mutant: the transaction commits what it inserted.                        *)
NotReadAgain(rows) == TRUE

(* The snapshot read in the transaction has every source row, unaltered.    *)
Confirmed(rows) == Comparable(rows) /\ MissingRows(rows) = {}

Finish ==
  /\ bootstrap = "inserting" /\ planned = <<>>
  /\ IF Confirmed(target \cup unit)
     THEN bootstrap' = "applied" /\ target' = target \cup unit
     ELSE bootstrap' = "refused" /\ UNCHANGED target
  /\ unit' = {}
  /\ UNCHANGED <<legacy, intact, planned, writes>>

ProcessDies ==
  /\ bootstrap = "inserting" /\ writes < MaxWrites
  /\ writes' = writes + 1
  /\ bootstrap' = "idle" /\ planned' = <<>> /\ unit' = {}
  /\ UNCHANGED <<legacy, intact, target>>

RunAgain ==
  /\ bootstrap \in {"applied", "refused"} /\ writes < MaxWrites
  /\ writes' = writes + 1 /\ bootstrap' = "idle"
  /\ UNCHANGED <<legacy, intact, target, planned, unit>>

(* Another writer commits a row whose parents are there and whose id is not.*)
OtherWrites(row) ==
  /\ writes < MaxWrites
  /\ \A t \in target \cup unit : KeyOf(t) # KeyOf(row)
  /\ row.parents \subseteq {KeyOf(t) : t \in target}
  /\ writes' = writes + 1 /\ target' = target \cup {row}
  /\ UNCHANGED <<legacy, intact, planned, unit, bootstrap>>

BootstrapNext ==
  \/ Plan \/ InsertNext \/ Finish \/ ProcessDies \/ RunAgain
  \/ \E row \in ForeignRow : OtherWrites(row)

BootstrapSpec == BootstrapInit /\ [][BootstrapNext]_bootstrapVars

-----------------------------------------------------------------------------
(* Every variable holds values of its type, one row per id.                 *)
BootstrapTypeOK ==
  /\ legacy \in LegacySnapshots /\ intact \subseteq ListedObjects
  /\ \A r, s \in target \cup unit : KeyOf(r) = KeyOf(s) => r = s
  /\ bootstrap \in {"idle", "inserting", "applied", "refused"}
  /\ writes \in 0 .. MaxWrites

FromSource(row) == row \notin ForeignRow

(* A statement of the transaction never misses a parent row, in whatever    *)
(* order rows refer to each other; the database holds every legacy row or   *)
(* none, unaltered, and only those of objects that were verified; and an    *)
(* applied bootstrap is the whole snapshot: every object linked once, every *)
(* manifest with the number of objects it counts.                           *)
BootstrapExact ==
  /\ \A row \in target \cup unit : row.parents \subseteq {KeyOf(t) : t \in target \cup unit}
  /\ (\E row \in target : FromSource(row)) => ListedObjects \subseteq intact /\ SourceRows \subseteq target
  /\ bootstrap = "applied" =>
       /\ SourceRows \subseteq target
       /\ \A o \in ListedObjects : Cardinality({r \in target : r.table = "relation" /\ r.key[2] = o}) = 1
       /\ \A r \in OfTable(target, "manifest") :
            FromSource(r) => r.columns[2] = Cardinality(
              {q \in target : q.table = "relation" /\ <<"manifest", r.key>> \in q.parents})
=============================================================================
