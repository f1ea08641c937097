----------------------------- MODULE LocalCatalog -----------------------------
(***************************************************************************)
(* LocalCatalog (catalog.py): one JSONL file per table, each rewritten      *)
(* atomically by every upsert; a transaction keeps the bytes of every file  *)
(* and writes them back if its block raises.  The block is the one of       *)
(* publish_dataset: the BUILDING row, the object rows, the final row, the   *)
(* previous row SUPERSEDED.  A process may die between two file writes, of  *)
(* the block or of the restoration, and the next one starts from the files. *)
(* Slots of one dataset year; a new revision carries the earlier one's.     *)
(***************************************************************************)
EXTENDS Integers, FiniteSets, Sequences, FiniteSetsExt

CONSTANTS
  Part,             \* partition slots
  MaxLocalRevision, MaxDeaths  \* bounds

LocalRevision == 1 .. MaxLocalRevision
ASSUME LocalAssumption == MaxLocalRevision \in Nat \ {0} /\ MaxDeaths \in Nat

VARIABLES
  files,     \* the table files: manifests, storage objects, dataset objects
  block,     \* the transaction: writes left, snapshot, or nothing
  deaths

localVars == <<files, block, deaths>>

Table == {"manifests", "storage", "objects"}
NoManifest == [status |-> "ABSENT", hash |-> {}]
Empty == [manifests |-> [r \in LocalRevision |-> NoManifest], storage |-> {}, objects |-> {}]
Closed == [phase |-> "closed", todo |-> <<>>, snapshot |-> Empty, rev |-> 0]

LocalInit == files = Empty /\ block = Closed /\ deaths = 0

Availables(f) == {r \in LocalRevision : f.manifests[r].status = "AVAILABLE"}
LatestLocal == IF Availables(files) = {} THEN 0 ELSE Max(Availables(files))

(* One file write, by table: upsert merges by id and rewrites the file.     *)
UpsertManifest(r, status, hash) == [table |-> "manifests", rev |-> r,
                                    row |-> [status |-> status, hash |-> hash]]
Stage(table, rows) == [table |-> table, rows |-> rows]
Written(f, w) ==
  IF w.table = "manifests" THEN [f EXCEPT !.manifests[w.rev] = w.row]
  ELSE [f EXCEPT ![w.table] = @ \cup w.rows]

ObjectsOf(r) == {o \in files.objects : o[1] = r}

(* The block publish_dataset runs: what it writes, in order.                *)
Begin(parts, sound) ==
  /\ block = Closed /\ LatestLocal + 1 \in LocalRevision
  /\ LET prev == LatestLocal
         kept == IF prev = 0 THEN {} ELSE {o \in ObjectsOf(prev) : o[2] \notin parts}
         rev == prev + 1
         all == {o[2] : o \in kept} \cup parts
         status == IF sound THEN "AVAILABLE" ELSE "QUARANTINED"
     IN block' = [phase |-> "open", rev |-> rev, snapshot |-> files,
          todo |-> <<UpsertManifest(rev, "BUILDING", {}),
                     Stage("storage", {rev} \X parts),
                     Stage("objects", {rev} \X all),
                     UpsertManifest(rev, status, all)>>
                   \o (IF sound /\ prev # 0
                       THEN <<UpsertManifest(prev, "SUPERSEDED", files.manifests[prev].hash)>>
                       ELSE <<>>)]
  /\ UNCHANGED <<files, deaths>>

WriteTable ==
  /\ block.phase = "open" /\ block.todo # <<>>
  /\ files' = Written(files, Head(block.todo))
  /\ block' = [block EXCEPT !.todo = Tail(@)]
  /\ UNCHANGED deaths

(* _assert_single_available_manifest on leaving the block.                  *)
LocalCommit ==
  /\ block.phase = "open" /\ block.todo = <<>> /\ Cardinality(Availables(files)) <= 1
  /\ block' = Closed
  /\ UNCHANGED <<files, deaths>>

(* Any exception in the block, or a second AVAILABLE manifest: the tables   *)
(* are put back one by one.                                                 *)
LocalRaise ==
  /\ block.phase = "open"
  /\ block.todo # <<>> \/ Cardinality(Availables(files)) > 1
  /\ block' = [block EXCEPT !.phase = "restoring", !.todo = <<"manifests", "storage", "objects">>]
  /\ UNCHANGED <<files, deaths>>

(* Mutant: the manifests are not put back.                                  *)
RestoreRows ==
  /\ block.phase = "restoring"
  /\ IF block.todo = <<>> THEN block' = Closed /\ UNCHANGED files
     ELSE /\ files' = IF Head(block.todo) = "manifests" THEN files
                      ELSE [files EXCEPT ![Head(block.todo)] = block.snapshot[Head(block.todo)]]
          /\ block' = [block EXCEPT !.todo = Tail(@)]
  /\ UNCHANGED deaths

Restore ==
  /\ block.phase = "restoring"
  /\ IF block.todo = <<>> THEN block' = Closed /\ UNCHANGED files
     ELSE /\ files' = [files EXCEPT ![Head(block.todo)] = block.snapshot[Head(block.todo)]]
          /\ block' = [block EXCEPT !.todo = Tail(@)]
  /\ UNCHANGED deaths

(* The snapshot dies with the process; the files stay as they are.          *)
LocalDies ==
  /\ block # Closed /\ deaths < MaxDeaths /\ deaths' = deaths + 1
  /\ block' = Closed
  /\ UNCHANGED files

LocalNext ==
  \/ \E parts \in SUBSET Part \ {{}}, sound \in BOOLEAN : Begin(parts, sound)
  \/ WriteTable \/ LocalCommit \/ LocalRaise \/ Restore \/ LocalDies
LocalSpec == LocalInit /\ [][LocalNext]_localVars

-----------------------------------------------------------------------------
(* Every variable holds values of its type.                                 *)
LocalTypeOK ==
  /\ files.storage \subseteq LocalRevision \X Part /\ files.objects \subseteq LocalRevision \X Part
  /\ \A r \in LocalRevision : files.manifests[r].hash \subseteq Part
  /\ block.phase \in {"closed", "open", "restoring"} /\ deaths \in Nat

(* A block that raised leaves nothing, one that ended leaves everything: as *)
(* long as no process died in a block, the catalog at rest has one          *)
(* AVAILABLE manifest at most, with the objects its hash covers, and no row *)
(* of a revision that has no manifest.                                      *)
AtRest == block = Closed
Whole ==
  /\ Cardinality(Availables(files)) <= 1
  /\ \A r \in LocalRevision :
       /\ files.manifests[r].hash \subseteq {o[2] : o \in ObjectsOf(r)}
       /\ files.manifests[r].status # "BUILDING"
       /\ files.manifests[r] = NoManifest => ObjectsOf(r) = {} /\ r \notin {o[1] : o \in files.storage}
RaisesLeaveNothing == AtRest /\ deaths = 0 => Whole

(* A block is all or nothing, whatever ends it.                             *)
BlockIsAtomic == AtRest => Whole
=============================================================================
