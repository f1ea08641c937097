----------------------------- MODULE CatalogApply -----------------------------
(***************************************************************************)
(* operations.py over one dataset: a local catalog that keeps publishing    *)
(* revisions, validate_catalog over its objects, upload_catalog_objects to  *)
(* a remote store, and apply_catalog_to_postgres, which replays the local   *)
(* rows into a database where a worker may be publishing revisions of the   *)
(* same deterministic identities and where an operator reviews the          *)
(* provider's rights.  A revision lists objects; an object row carries the  *)
(* side that registered it, which stands for created_at; a hash is the set  *)
(* of objects it was taken over.  Quarantine is DatasetPublication's.       *)
(* The commands read and write the tables one by one; a local publication   *)
(* is one step, and a reader who meets one half-way is left out (README).   *)
(***************************************************************************)
EXTENDS Integers, FiniteSets, FiniteSetsExt

CONSTANTS
  Content,                \* what an object can hold, one object per content
  Unreviewed,             \* UNVERIFIED / REVIEW_REQUIRED, what the engine writes
  Approved, Suspended,    \* a reviewed ACTIVE row, a reviewed row that is not
  Attested,               \* the row a RightsAttestation asks for, or Unreviewed: none
  NoSuchRow,              \* an absent row
  MaxRevision, MaxWorker, MaxReviews, MaxDamaged   \* bounds

ASSUME ApplyAssumption ==
  /\ IsFiniteSet(Content)
  /\ Unreviewed \notin {Approved, Suspended, NoSuchRow}
  /\ Approved \notin {Suspended, NoSuchRow} /\ Suspended # NoSuchRow
  /\ NoSuchRow \notin {"local", "worker"}
                   \union [status : {"AVAILABLE", "SUPERSEDED"}, hash : SUBSET Content]
  /\ Attested \in {Unreviewed, Approved}
  /\ {MaxRevision, MaxWorker, MaxReviews, MaxDamaged} \subseteq Nat

Number == 1..MaxRevision

VARIABLES
  home,      \* the local catalog: manifests, relations, object rows
  damaged,   \* local objects whose bytes no longer match
  validated,   \* the last validation: PASSED, and the objects with an incident
  base,      \* the database: the same tables and the provider's row
  plan,      \* the apply in progress: rows read, provider row resolved
  remote,    \* contents in the remote store
  upload,    \* the upload in progress: object rows read, uploaded so far
  copy,      \* the destination catalog of the last upload
  worked, reviews

applyVars == <<home, damaged, validated, base, plan, remote, upload, copy, worked, reviews>>

NoTables == [manifest |-> [r \in Number |-> NoSuchRow], relation |-> {},
             object |-> [c \in Content |-> NoSuchRow]]
NoPlan == [phase |-> "idle", rows |-> NoTables, provider |-> Unreviewed]
NoUpload == [phase |-> "idle", listed |-> {}, done |-> {}]
ListingOf(t, r) == {c \in Content : <<r, c>> \in t.relation}
Objects(t) == {c \in Content : t.object[c] # NoSuchRow}
Present(t) == {r \in Number : t.manifest[r] # NoSuchRow}
Releases(t) == {r \in Present(t) : t.manifest[r].status = "AVAILABLE"}
HeadOf(t) == IF Releases(t) = {} THEN 0 ELSE Max(Releases(t))

(* publish_dataset on these tables: the next revision after the newest      *)
(* AVAILABLE one carries its objects or replaces them all, and supersedes   *)
(* it.                                                                      *)
Publishes(t, side, c, keep) ==
  LET r == HeadOf(t) + 1
      old == IF HeadOf(t) = 0 THEN {} ELSE ListingOf(t, HeadOf(t))
      list == IF keep THEN old \union {c} ELSE {c}
      closed == IF HeadOf(t) = 0 THEN t.manifest
                ELSE [t.manifest EXCEPT ![HeadOf(t)].status = "SUPERSEDED"]
  IN [manifest |-> [closed EXCEPT ![r] = [status |-> "AVAILABLE", hash |-> list]],
      relation |-> t.relation \union {<<r, d>> : d \in list},
      object |-> [t.object EXCEPT ![c] = IF @ = NoSuchRow THEN side ELSE @]]

LocalPublishes(c, keep) ==
  /\ HeadOf(home) < MaxRevision /\ c \notin damaged
  /\ home' = Publishes(home, "local", c, keep)
  /\ UNCHANGED <<damaged, validated, base, plan, remote, upload, copy, worked, reviews>>

(* The worker publishes in one transaction, under uq dataset_hash and the   *)
(* immutable object rows.                                                   *)
WorkerPublishes(c, keep) ==
  LET after == Publishes(base.tables, "worker", c, keep)
  IN /\ HeadOf(base.tables) < MaxRevision /\ worked < MaxWorker
     /\ base.tables.object[c] \in {NoSuchRow, "worker"}
     /\ \A r, s \in Present(after) : after.manifest[r].hash = after.manifest[s].hash => r = s
     /\ base' = [base EXCEPT !.tables = after]
     /\ worked' = worked + 1
     /\ UNCHANGED <<home, damaged, validated, plan, remote, upload, copy, reviews>>

ReviewsRights(row) ==
  /\ reviews < MaxReviews /\ base.provider # NoSuchRow /\ row # base.provider
  /\ base' = [base EXCEPT !.provider = row]
  /\ reviews' = reviews + 1
  /\ UNCHANGED <<home, damaged, validated, plan, remote, upload, copy, worked>>

Damage(c) ==
  /\ c \in Objects(home) \ damaged /\ Cardinality(damaged) < MaxDamaged
  /\ damaged' = damaged \union {c}
  /\ UNCHANGED <<home, validated, base, plan, remote, upload, copy, worked, reviews>>

-----------------------------------------------------------------------------
(* validate_catalog.  A damaged object is reported and left out of the      *)
(* recomputed hash, so its manifest fails a second time; only the object    *)
(* finding has the scope an incident row needs.                             *)
Mismatched(r) == ListingOf(home, r) \intersect damaged
HashDiffers(r) == ListingOf(home, r) \ damaged # home.manifest[r].hash

(* Mutant: an object that fails its check is passed over.                   *)
BrokenOnly(r) == ListingOf(home, r) = {}

Broken(r) == Mismatched(r) # {} \/ HashDiffers(r)

(* Mutant: only the findings of the current revision are recorded.          *)
RecordedOfHead == IF HeadOf(home) = 0 THEN {} ELSE Mismatched(HeadOf(home))

Recorded == UNION {Mismatched(r) : r \in Present(home)}

Validate ==
  /\ validated' = [passed |-> \A r \in Present(home) : ~Broken(r),
                 incidents |-> validated.incidents \union Recorded,
                 over |-> damaged]
  /\ UNCHANGED <<home, damaged, base, plan, remote, upload, copy, worked, reviews>>

-----------------------------------------------------------------------------
(* apply_catalog_to_postgres.  The tables are read one by one, in           *)
(* APPLY_TABLE_ORDER, then the manifests once more: two of one hash fail    *)
(* the report before anything is written.                                   *)
DuplicateHashes(t) ==
  \E r, s \in Present(t) : r # s /\ t.manifest[r].hash = t.manifest[s].hash

ReadManifests ==
  /\ plan.phase = "idle" /\ Present(home) # {}
  /\ plan' = [phase |-> "objects", rows |-> [NoTables EXCEPT !.manifest = home.manifest],
              provider |-> Unreviewed]
  /\ UNCHANGED <<home, damaged, validated, base, remote, upload, copy, worked, reviews>>

ReadObjects ==
  /\ plan.phase = "objects"
  /\ plan' = [plan EXCEPT !.phase = "relations", !.rows.object = home.object]
  /\ UNCHANGED <<home, damaged, validated, base, remote, upload, copy, worked, reviews>>

ReadRelations ==
  /\ plan.phase = "relations"
  /\ plan' = IF DuplicateHashes(home) THEN NoPlan
             ELSE [plan EXCEPT !.phase = "rights", !.rows.relation = home.relation]
  /\ UNCHANGED <<home, damaged, validated, base, remote, upload, copy, worked, reviews>>

(* Mutant: the provider's row is written as the local catalog has it.       *)
ResolvedAsIs(preserve) == {Unreviewed}

(* rights_review_state and the preservation mode: the local row is always   *)
(* the engine's placeholder; an attestation replaces it, or the ACTIVE row  *)
(* the target has; otherwise the provider blocks the apply.                 *)
Resolved(preserve) ==
  IF Attested # Unreviewed THEN {Attested}
  ELSE IF preserve /\ base.provider = Approved THEN {base.provider} ELSE {}

ResolveRights(preserve) ==
  /\ plan.phase = "rights"
  /\ \/ \E row \in Resolved(preserve) : plan' = [plan EXCEPT !.phase = "writing", !.provider = row]
     \/ Resolved(preserve) = {} /\ plan' = NoPlan
  /\ UNCHANGED <<home, damaged, validated, base, remote, upload, copy, worked, reviews>>

(* Mutant: a manifest row the database already has is left as it is.        *)
MergedKept(t, r) ==
  IF base.tables.manifest[r] # NoSuchRow THEN base.tables.manifest[r] ELSE t.manifest[r]

(* upsert: ON CONFLICT (id) DO UPDATE takes every field of the local row.   *)
MergedManifest(t, r) == IF t.manifest[r] # NoSuchRow THEN t.manifest[r] ELSE base.tables.manifest[r]

(* storage.objects is insert-only: another row under the same id raises.    *)
ObjectsAgree(t) ==
  \A c \in Objects(t) : base.tables.object[c] \in {NoSuchRow, t.object[c]}

Replayed(t) ==
  [manifest |-> [r \in Number |-> MergedManifest(t, r)],
   relation |-> base.tables.relation \union t.relation,
   object |-> [c \in Content |-> IF t.object[c] # NoSuchRow THEN t.object[c]
                                 ELSE base.tables.object[c]]]

(* The foreign keys of dataset_objects.                                     *)
ParentsThere(t) == \A p \in t.relation : p[1] \in Present(t) /\ p[2] \in Objects(t)

(* One transaction: instruments are read out of the local files, so a       *)
(* damaged one raises; a conflicting object or hash, or a relation read     *)
(* without its manifest or object, rolls everything back.                   *)
Commit ==
  LET t == plan.rows
  IN /\ plan.phase = "writing"
     /\ base' = IF Objects(home) \intersect damaged = {} /\ ObjectsAgree(t)
                   /\ ~DuplicateHashes(Replayed(t)) /\ ParentsThere(Replayed(t))
                THEN [tables |-> Replayed(t), provider |-> plan.provider]
                ELSE base
     /\ plan' = NoPlan
     /\ UNCHANGED <<home, damaged, validated, remote, upload, copy, worked, reviews>>

ApplyDies ==
  /\ plan.phase # "idle" /\ plan' = NoPlan
  /\ UNCHANGED <<home, damaged, validated, base, remote, upload, copy, worked, reviews>>

-----------------------------------------------------------------------------
(* upload_catalog_objects: the object rows are read and every object is     *)
(* put; only then are the other tables read, each as it is copied to the    *)
(* destination.                                                             *)
StartUpload ==
  /\ upload.phase = "idle" /\ Objects(home) # {}
  /\ upload' = [phase |-> "manifests", listed |-> Objects(home), done |-> {}]
  /\ UNCHANGED <<home, damaged, validated, base, plan, remote, copy, worked, reviews>>

PutObject ==
  /\ upload.phase = "manifests" /\ upload.done # upload.listed
  /\ LET c == CHOOSE d \in upload.listed \ upload.done : TRUE
     IN IF c \in damaged
        THEN upload' = NoUpload /\ UNCHANGED remote
        ELSE /\ upload' = [upload EXCEPT !.done = @ \union {c}]
             /\ remote' = remote \union {c}
  /\ UNCHANGED <<home, damaged, validated, base, plan, copy, worked, reviews>>

(* Mutant: the destination is written while objects are still to be put.    *)
AllPutNever == TRUE

AllPut == upload.done = upload.listed

CopyManifests ==
  /\ upload.phase = "manifests" /\ AllPut
  /\ copy' = [copy EXCEPT !.manifest = @ \union Present(home)]
  /\ upload' = [upload EXCEPT !.phase = "objects"]
  /\ UNCHANGED <<home, damaged, validated, base, plan, remote, worked, reviews>>

CopyObjects ==
  /\ upload.phase = "objects"
  /\ copy' = [copy EXCEPT !.object = @ \union upload.listed]
  /\ upload' = [upload EXCEPT !.phase = "relations"]
  /\ UNCHANGED <<home, damaged, validated, base, plan, remote, worked, reviews>>

CopyRelations ==
  /\ upload.phase = "relations"
  /\ copy' = [copy EXCEPT !.relation = @ \union home.relation]
  /\ upload' = NoUpload
  /\ UNCHANGED <<home, damaged, validated, base, plan, remote, worked, reviews>>

UploadDies ==
  /\ upload.phase # "idle" /\ upload' = NoUpload
  /\ UNCHANGED <<home, damaged, validated, base, plan, remote, copy, worked, reviews>>

ApplyInit ==
  /\ home = NoTables /\ damaged = {}
  /\ validated = [passed |-> FALSE, incidents |-> {}, over |-> {}]
  /\ base \in [tables : {NoTables}, provider : {NoSuchRow, Approved}]
  /\ plan = NoPlan /\ remote = {} /\ upload = NoUpload
  /\ copy = [manifest |-> {}, object |-> {}, relation |-> {}]
  /\ worked = 0 /\ reviews = 0

ApplyNext ==
  \/ \E c \in Content, keep \in BOOLEAN : LocalPublishes(c, keep) \/ WorkerPublishes(c, keep)
  \/ \E row \in {Approved, Suspended} : ReviewsRights(row)
  \/ \E c \in Content : Damage(c)
  \/ Validate
  \/ ReadManifests \/ ReadObjects \/ ReadRelations
  \/ \E preserve \in BOOLEAN : ResolveRights(preserve)
  \/ Commit \/ ApplyDies
  \/ StartUpload \/ PutObject \/ CopyManifests \/ CopyObjects \/ CopyRelations \/ UploadDies

ApplySpec == ApplyInit /\ [][ApplyNext]_applyVars

-----------------------------------------------------------------------------
Tables == [manifest : [Number -> [status : {"AVAILABLE", "SUPERSEDED"}, hash : SUBSET Content]
                                   \union {NoSuchRow}],
           relation : SUBSET (Number \X Content),
           object : [Content -> {"local", "worker", NoSuchRow}]]

(* Every table keeps rows of its shape (db/tables.py).                      *)
ApplyTypeOK ==
  /\ home \in Tables /\ base.tables \in Tables /\ plan.rows \in Tables
  /\ base.provider \in {NoSuchRow, Unreviewed, Approved, Suspended}
  /\ damaged \subseteq Content /\ remote \subseteq Content

(* While apply is the only writer of the dataset, every commit leaves the   *)
(* database with one AVAILABLE revision, every row's objects registered,    *)
(* and every hash taken over what the revision lists (operations.py:        *)
(* 676-697 replays in one transaction, children after parents).             *)
ReplayIsWhole ==
  worked = 0 =>
    /\ Cardinality(Releases(base.tables)) <= 1
    /\ \A r \in Present(base.tables) :
         /\ base.tables.manifest[r].hash = ListingOf(base.tables, r)
         /\ ListingOf(base.tables, r) \subseteq Objects(base.tables)

(* The placeholder never reaches the database, however the apply, the       *)
(* review and the preservation interleave ("The placeholder itself is never *)
(* written", operations.py:578).                                            *)
RightsReviewed == base.provider # Unreviewed

(* A validation that passed saw no damaged object in any revision; every    *)
(* damaged object a validation met in a revision, current or superseded,    *)
(* has an incident row, and no sound object has (operations.py:198-200,     *)
(* 258-260).                                                                *)
Listed == UNION {ListingOf(home, r) : r \in Present(home)}
DamageIsRecorded ==
  /\ validated.passed => validated.over \intersect Listed = {}
  /\ validated.over \intersect Listed \subseteq validated.incidents
  /\ validated.incidents \subseteq damaged

(* The destination catalog holds the row of an object only once the remote  *)
(* store has its bytes, wherever an upload dies and another one begins      *)
(* (operations.py:724-756, 757-773).                                        *)
DestinationIsBacked == copy.object \subseteq remote

(* The four together.                                                       *)
ApplySound == ReplayIsWhole /\ RightsReviewed /\ DamageIsRecorded /\ DestinationIsBacked

(* Not so in the code: a relation of the destination has its object row and *)
(* its manifest.  What is registered after the object rows were read is     *)
(* listed without row or bytes, and between the manifests and the relations *)
(* without its manifest.                                                    *)
DestinationIsWhole ==
  \A p \in copy.relation : p[1] \in copy.manifest /\ p[2] \in copy.object

(* "A unit of work would commit two AVAILABLE manifests for the same        *)
(* period" is refused (db/errors.py:76): at most one AVAILABLE revision.    *)
(* The replay's upserts never mark the period as touched, so an apply       *)
(* re-opens a revision the worker superseded.                               *)
OneRelease == Cardinality(Releases(base.tables)) <= 1
=============================================================================
