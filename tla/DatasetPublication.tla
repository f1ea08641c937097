------------------------- MODULE DatasetPublication -------------------------
(***************************************************************************)
(* Publication of one dataset year by MarketPipelineEngine.publish_dataset  *)
(* (market_pipeline_lib/engine.py) against an immutable object store and a  *)
(* catalog of manifests.                                                    *)
(*                                                                          *)
(* A dataset year is a chain of manifest revisions.  A publisher            *)
(*   1. reads the newest AVAILABLE manifest and picks the next revision,    *)
(*   2. puts its Parquet objects in the store, outside any transaction,     *)
(*   3. reads the rows of the previous manifest and keeps those its replace *)
(*      periods do not overlap,                                             *)
(*   4. commits every catalog row in one transaction,                       *)
(*   5. projects the end of the manifest onto the feed's watermark.         *)
(* Any publisher may stop between two of these steps.  The manifest id, the *)
(* object keys and the row ids are all functions of the revision number, so *)
(* a revision that was QUARANTINED is used again by the next attempt.       *)
(***************************************************************************)
EXTENDS Integers

CONSTANTS
  Publisher,    \* the processes that run publish_dataset
  LastDay,      \* the days of the year are numbered from 1 to LastDay
  Partition,    \* partitions: a granularity with its first day
  DaysOf,       \* the days each partition spans
  Shard,        \* shard keys
  Content,      \* the bytes a Parquet object may hold
  Broken,       \* a table with an ERROR quality issue
  Job,          \* the publications the callers may ask for
  MaxRevision,  \* bound: the largest revision number explored
  Postgres,     \* TRUE for PostgresCatalog, FALSE for LocalCatalog
  Outages,      \* TRUE if an object-store call may fail for good
  Verdict       \* what a review may make of the feed: active or not

Day      == 1 .. LastDay
Revision == 1 .. MaxRevision
Slot     == Partition \X Shard
Object   == [rev : Revision, slot : Slot, content : Content]
Canonical == [slot : Slot, content : Content]
Groups   == UNION {[S -> Content \cup {Broken}] : S \in SUBSET Slot}

(* A publication: its tables by slot, the days its replace periods cover,   *)
(* whether the collection step reported a failure of its own, and the       *)
(* revision forced by --revision (0: none).                                 *)
Publication == [groups   : Groups,
                replaces : SUBSET Day,
                failed   : BOOLEAN,
                revision : Revision \cup {0}]

ASSUME PublicationAssumption ==
  /\ LastDay \in Nat
  /\ DaysOf \in [Partition -> (SUBSET Day) \ {{}}]
  /\ Broken \notin Content
  /\ MaxRevision \in Nat \ {0}
  /\ Postgres \in BOOLEAN
  /\ Outages \in BOOLEAN
  /\ Verdict \subseteq BOOLEAN
  /\ Job \subseteq Publication

VARIABLES
  store,       \* objects in the object store
  registered,  \* rows of storage.objects
  listing,     \* rows of dataset_objects: the objects listed by each manifest
  manifest,    \* rows of dataset_manifests, by revision
  watermark,   \* the feed's durable watermark, 0 before the first one
  active,      \* the feed's provider is ACTIVE and the feed is not retired
  work         \* what each publisher has in memory

vars == <<store, registered, listing, manifest, watermark, active, work>>

Status == {"ABSENT", "AVAILABLE", "QUARANTINED", "SUPERSEDED"}
Manifest == [status : Status, hash : SUBSET Canonical]
Absent == [status |-> "ABSENT", hash |-> {}]

Phase == {"idle", "writing", "publishing", "advancing", "refused"}
Work == [phase    : Phase,
         replaces : SUBSET Day,
         rev      : Revision \cup {0},
         prev     : Revision \cup {0},
         prevRow  : Manifest,
         todo     : Groups,
         new      : SUBSET Object,
         retained : SUBSET Object,
         error    : BOOLEAN,
         observed : Nat]

NoTables == [s \in {} |-> Broken]
Idle == [phase |-> "idle", replaces |-> {}, rev |-> 0, prev |-> 0,
         prevRow |-> Absent, todo |-> NoTables, new |-> {}, retained |-> {},
         error |-> FALSE, observed |-> 0]

-----------------------------------------------------------------------------
(* dataset_hash covers slot and bytes of every object, never its key, so    *)
(* the set of canonical objects stands for the hash.                        *)
Canon(o) == [slot |-> o.slot, content |-> o.content]
CanonicalHash(objects) == {Canon(o) : o \in objects}

Span(o) == DaysOf[o.slot[1]]
(* Mutant: a replace period must contain the whole partition.               *)
OverlapsContained(o, days) == Span(o) \subseteq days
Overlaps(o, days) == Span(o) \cap days # {}

Latest(n, S) == n \in S /\ \A m \in S : m <= n
PeriodEnd(objects) ==
  IF objects = {} THEN 0
  ELSE CHOOSE n \in Day : Latest(n, UNION {Span(o) : o \in objects})

Available == {r \in Revision : manifest[r].status = "AVAILABLE"}
LatestAvailable ==
  IF Available = {} THEN 0 ELSE CHOOSE r \in Revision : Latest(r, Available)

(* Mutant: the revision number is not incremented.                          *)
NextRevisionReused(j) == IF LatestAvailable = 0 THEN 1 ELSE LatestAvailable

NextRevision(j) ==
  IF j.revision # 0 THEN j.revision ELSE LatestAvailable + 1

-----------------------------------------------------------------------------
Init ==
  /\ store = {}
  /\ registered = {}
  /\ listing = [r \in Revision |-> {}]
  /\ manifest = [r \in Revision |-> Absent]
  /\ watermark = 0
  /\ active = FALSE
  /\ work = [p \in Publisher |-> Idle]

(* _next_revision and the building record.  A forced revision older than    *)
(* the newest AVAILABLE one is refused; an equal one is not.                *)
StartPublish(p, j) ==
  /\ work[p].phase = "idle"
  /\ j.revision # 0 => j.revision >= LatestAvailable
  /\ NextRevision(j) \in Revision
  /\ work' = [work EXCEPT ![p] =
       [Idle EXCEPT !.phase = "writing",
                    !.replaces = j.replaces,
                    !.rev = NextRevision(j),
                    !.prev = LatestAvailable,
                    !.prevRow = IF LatestAvailable = 0
                                THEN Absent ELSE manifest[LatestAvailable],
                    !.todo = j.groups,
                    !.error = j.failed]]
  /\ UNCHANGED <<store, registered, listing, manifest, watermark>>

ObjectOf(p, s) ==
  [rev |-> work[p].rev, slot |-> s, content |-> work[p].todo[s]]

(* Mutant: put overwrites whatever is under the key.                        *)
KeyTakenNever(o) == FALSE

KeyTaken(o) ==
  \E x \in store : x.rev = o.rev /\ x.slot = o.slot /\ x.content # o.content

Rest(f, s) == [t \in DOMAIN f \ {s} |-> f[t]]
Done(p, s, extra, failed) ==
  [work EXCEPT ![p].todo = Rest(@, s),
               ![p].new = @ \cup extra,
               ![p].error = @ \/ failed]

(* A table with an ERROR issue is reported and never written.               *)
SkipBroken(p, s) ==
  /\ work[p].todo[s] = Broken
  /\ work' = Done(p, s, {}, TRUE)
  /\ UNCHANGED store

(* Mutant: the upload is skipped and the rows are written all the same.     *)
PutObjectSkipped(p, s) ==
  /\ work[p].todo[s] \in Content
  /\ ~KeyTaken(ObjectOf(p, s))
  /\ work' = Done(p, s, {ObjectOf(p, s)}, FALSE)
  /\ UNCHANGED store

(* put is create-only: a new key is written, identical bytes are accepted.  *)
PutObject(p, s) ==
  /\ work[p].todo[s] \in Content
  /\ ~KeyTaken(ObjectOf(p, s))
  /\ store' = store \cup {ObjectOf(p, s)}
  /\ work' = Done(p, s, {ObjectOf(p, s)}, FALSE)

(* Other bytes under the key: put raises, the loop records                  *)
(* OBJECT_PUBLISH_FAILED and goes on with the next table.                   *)
RefusePut(p, s) ==
  /\ work[p].todo[s] \in Content
  /\ KeyTaken(ObjectOf(p, s))
  /\ work' = Done(p, s, {}, TRUE)
  /\ UNCHANGED store

(* The store fails beyond its retries; the bytes may have landed or not.    *)
FailPut(p, s) ==
  /\ Outages
  /\ work[p].todo[s] \in Content
  /\ \/ UNCHANGED store
     \/ ~KeyTaken(ObjectOf(p, s)) /\ store' = store \cup {ObjectOf(p, s)}
  /\ work' = Done(p, s, {}, TRUE)

WriteObject(p) ==
  /\ work[p].phase = "writing"
  /\ \E s \in DOMAIN work[p].todo :
       SkipBroken(p, s) \/ PutObject(p, s) \/ RefusePut(p, s) \/ FailPut(p, s)
  /\ UNCHANGED <<registered, listing, manifest, watermark>>

(* Mutant: only the objects of this publication make it into the revision.  *)
ReadPreviousDropped(p) ==
  /\ work[p].phase = "writing"
  /\ DOMAIN work[p].todo = {}
  /\ work' = [work EXCEPT ![p].phase = "publishing",
                          ![p].observed = PeriodEnd(work[p].new)]
  /\ UNCHANGED <<store, registered, listing, manifest, watermark>>

(* objects_for_manifest(previous), read before the transaction opens.       *)
ReadPrevious(p) ==
  /\ work[p].phase = "writing"
  /\ DOMAIN work[p].todo = {}
  /\ LET kept == IF work[p].prev = 0 THEN {}
                 ELSE {o \in listing[work[p].prev] :
                         ~Overlaps(o, work[p].replaces)}
     IN work' = [work EXCEPT ![p].phase = "publishing",
                             ![p].retained = kept,
                             ![p].observed = PeriodEnd(kept \cup work[p].new)]
  /\ UNCHANGED <<store, registered, listing, manifest, watermark>>

-----------------------------------------------------------------------------
(* The catalog transaction.                                                 *)
AllObjects(p) == work[p].retained \cup work[p].new
Outcome(p) ==
  IF AllObjects(p) # {} /\ ~work[p].error THEN "AVAILABLE" ELSE "QUARANTINED"

(* Mutant: rows are staged for the new objects only.                        *)
ListingAfterNewOnly(p) == [listing EXCEPT ![work[p].rev] = @ \cup work[p].new]

(* stage_object upserts one row per object under the manifest's id; rows an *)
(* earlier attempt left there are not removed.                              *)
ListingAfter(p) == [listing EXCEPT ![work[p].rev] = @ \cup AllObjects(p)]

(* Mutant: the final publish_manifest is forgotten.                         *)
ManifestAfterBuilding(p) ==
  [manifest EXCEPT ![work[p].rev] = [status |-> "BUILDING", hash |-> {}]]

(* Mutant: the previous manifest is superseded by a QUARANTINED one too.    *)
ManifestAfterAlwaysSupersedes(p) ==
  [r \in Revision |->
     IF r = work[p].prev THEN [work[p].prevRow EXCEPT !.status = "SUPERSEDED"]
     ELSE IF r = work[p].rev
       THEN [status |-> Outcome(p), hash |-> CanonicalHash(AllObjects(p))]
     ELSE manifest[r]]

(* The final manifest row, then, if AVAILABLE, the previous row as it was   *)
(* read at the start of the publication, now SUPERSEDED.                    *)
ManifestAfter(p) ==
  [r \in Revision |->
     IF r = work[p].prev /\ Outcome(p) = "AVAILABLE"
       THEN [work[p].prevRow EXCEPT !.status = "SUPERSEDED"]
     ELSE IF r = work[p].rev
       THEN [status |-> Outcome(p), hash |-> CanonicalHash(AllObjects(p))]
     ELSE manifest[r]]

(* Mutant: the transaction does not count the AVAILABLE manifests.          *)
SingleAvailableUnchecked(m) == TRUE

(* _assert_single_available_manifest, under the advisory lock.              *)
SingleAvailable(m) ==
  \A r, q \in Revision :
    m[r].status = "AVAILABLE" /\ m[q].status = "AVAILABLE" => r = q

(* storage.objects rows are inserted, never updated, and created_at is part *)
(* of the comparison: an object an earlier attempt registered is refused.   *)
StorageConflict(p) == Postgres /\ work[p].new \cap registered # {}

(* Unique indexes: one object per slot of a manifest, one manifest per hash *)
(* among the manifests that list objects.                                   *)
SlotConflict(p) ==
  Postgres /\ \E o, x \in ListingAfter(p)[work[p].rev] : o # x /\ o.slot = x.slot
HashConflict(p) ==
  Postgres /\ \E r \in Revision \ {work[p].rev} :
    /\ listing[r] # {} /\ ListingAfter(p)[work[p].rev] # {}
    /\ manifest[r].hash = CanonicalHash(AllObjects(p))

Conflict(p) == StorageConflict(p) \/ SlotConflict(p) \/ HashConflict(p)

Commit(p) ==
  /\ work[p].phase = "publishing"
  /\ ~Conflict(p)
  /\ SingleAvailable(ManifestAfter(p))
  /\ registered' = registered \cup work[p].new
  /\ listing' = ListingAfter(p)
  /\ manifest' = ManifestAfter(p)
  /\ work' = [work EXCEPT ![p] =
       IF Outcome(p) = "AVAILABLE" THEN [@ EXCEPT !.phase = "advancing"] ELSE Idle]
  /\ UNCHANGED <<store, watermark>>

(* A refused row, or a second AVAILABLE manifest: everything rolls back and *)
(* the caller sees the exception.                                           *)
RollBack(p) ==
  /\ work[p].phase = "publishing"
  /\ Conflict(p) \/ ~SingleAvailable(ManifestAfter(p))
  /\ work' = [work EXCEPT ![p].phase = "refused"]
  /\ UNCHANGED <<store, registered, listing, manifest, watermark>>

GiveUp(p) ==
  /\ work[p].phase = "refused"
  /\ work' = [work EXCEPT ![p] = Idle]
  /\ UNCHANGED <<store, registered, listing, manifest, watermark>>

-----------------------------------------------------------------------------
(* Repositories advance a watermark only to a later position.               *)
Later(stored, position) == IF position > stored THEN position ELSE stored

(* Mutant: the watermark moves as soon as the objects are known.            *)
AdvanceWatermarkEarly(p) ==
  /\ work[p].phase \in {"publishing", "advancing"}
  /\ watermark' = Later(watermark, work[p].observed)
  /\ work' = [work EXCEPT ![p] = Idle]
  /\ UNCHANGED <<store, registered, listing, manifest>>

AdvanceWatermark(p) ==
  /\ work[p].phase = "advancing"
  /\ watermark' = Later(watermark, work[p].observed)
  /\ work' = [work EXCEPT ![p] = Idle]
  /\ UNCHANGED <<store, registered, listing, manifest>>

(* The scheduled reconciliation of manifests and watermarks: the furthest   *)
(* period_end among the AVAILABLE manifests.                                *)
EndOfHash(h) ==
  IF h = {} THEN 0
  ELSE CHOOSE n \in Day : Latest(n, UNION {DaysOf[c.slot[1]] : c \in h})

(* Mutant: only a feed without a watermark is reconciled.                   *)
ReconcileFirstOnly ==
  /\ active
  /\ Available # {}
  /\ watermark' = IF watermark = 0 THEN EndOfHash(manifest[LatestAvailable].hash)
                  ELSE watermark
  /\ UNCHANGED <<store, registered, listing, manifest, active, work>>

(* It passes over a feed that is retired or whose provider is not ACTIVE.   *)
Reconcile ==
  /\ active
  /\ Available # {}
  /\ watermark' = Later(watermark, EndOfHash(manifest[LatestAvailable].hash))
  /\ UNCHANGED <<store, registered, listing, manifest, active, work>>

(* _ensure_provider_metadata: an engine that is constructed writes the      *)
(* provider as REVIEW_REQUIRED, also over a status it was reviewed to.      *)
OpenEngine ==
  /\ active' = FALSE
  /\ UNCHANGED <<store, registered, listing, manifest, watermark, work>>

(* A person attests the provider's rights, with a status of theirs, or      *)
(* retires the feed.                                                        *)
ReviewRights ==
  /\ active' \in Verdict
  /\ UNCHANGED <<store, registered, listing, manifest, watermark, work>>

(* The process dies, or the database is lost before the commit.             *)
Crash(p) ==
  /\ work[p].phase # "idle"
  /\ work' = [work EXCEPT ![p] = Idle]
  /\ UNCHANGED <<store, registered, listing, manifest, watermark>>

Publish(p) ==
  \/ \E j \in Job : StartPublish(p, j)
  \/ WriteObject(p)
  \/ ReadPrevious(p)
  \/ Commit(p)
  \/ RollBack(p)
  \/ GiveUp(p)
  \/ AdvanceWatermark(p)
  \/ Crash(p)

Next ==
  \/ (\E p \in Publisher : Publish(p)) /\ UNCHANGED active
  \/ Reconcile
  \/ OpenEngine
  \/ ReviewRights

Spec == Init /\ [][Next]_vars
(* Only the scheduled reconciliation is fair: nothing makes a job run.      *)
FairSpec == Spec /\ WF_vars(Reconcile)

-----------------------------------------------------------------------------
(* Every variable holds values of its type.                                 *)
TypeOK ==
  /\ store \subseteq Object
  /\ registered \subseteq Object
  /\ listing \in [Revision -> SUBSET Object]
  /\ manifest \in [Revision -> Manifest]
  /\ watermark \in Nat
  /\ active \in BOOLEAN
  /\ work \in [Publisher -> Work]

(* A dataset year never has two AVAILABLE manifests, whatever the           *)
(* publishers do between their reads and their transaction.                 *)
OneAvailable ==
  \A r, q \in Available : r = q

(* A key never holds two different byte strings.                            *)
OneContentPerKey ==
  \A o, x \in store : o.rev = x.rev /\ o.slot = x.slot => o = x

(* What a manifest lists is registered, and what is registered is in the    *)
(* store: a crash leaves orphans in the store, never a dangling row.        *)
ListedObjectsStored ==
  /\ \A r \in Revision : listing[r] \subseteq registered
  /\ registered \subseteq store

(* dataset_hash never covers an object the manifest does not list, even     *)
(* when several attempts wrote the same revision.                           *)
HashCoversListed ==
  \A r \in Revision : manifest[r].hash \subseteq CanonicalHash(listing[r])

(* dataset_hash of an AVAILABLE manifest is the hash of exactly the objects *)
(* it lists, which is what a reader of the manifest recomputes              *)
(* (compatibility.py validate_dataset_manifest).                            *)
HashMatchesListing ==
  \A r \in Available : manifest[r].hash = CanonicalHash(listing[r])

(* No two objects of an AVAILABLE manifest hold the same day of a shard.    *)
NoOverlapInAvailable ==
  \A r \in Available : \A o, x \in listing[r] :
    o # x => o.slot[2] # x.slot[2] \/ Span(o) \cap Span(x) = {}

(* The watermark never passes the end of what some commit listed.           *)
WatermarkBacked ==
  watermark > 0 => \E r \in Revision : \E o \in listing[r] : watermark \in Span(o)

(* What the store, the catalog and the watermark say of each other, through *)
(* every crash and race of publish_dataset: bytes never change under a key, *)
(* no row dangles, no hash and no watermark speaks of what is not listed.   *)
StorageSound ==
  OneContentPerKey /\ ListedObjectsStored /\ HashCoversListed /\ WatermarkBacked

(* What a reader of an AVAILABLE manifest relies on: its hash and its       *)
(* listing are the same objects, and no day of a shard is there twice.      *)
AvailableSound == HashMatchesListing /\ NoOverlapInAvailable

(* Publishing a revision drops from the dataset only objects whose          *)
(* partition a replace period of that publication overlaps.                 *)
CarriesForward ==
  [][\A p \in Publisher : Commit(p) /\ Outcome(p) = "AVAILABLE" =>
       \A r \in Available : \A o \in listing[r] :
         o \in listing'[work[p].rev] \/ Overlaps(o, work[p].replaces)]_vars

(* A manifest that was AVAILABLE keeps its objects and its hash for good:   *)
(* it may become SUPERSEDED and nothing else.                               *)
ReleasedIsFrozen ==
  [][\A r \in Revision : manifest[r].status \in {"AVAILABLE", "SUPERSEDED"} =>
       /\ listing'[r] = listing[r]
       /\ manifest'[r].hash = manifest[r].hash
       /\ manifest'[r].status \in {manifest[r].status, "SUPERSEDED"}]_vars

(* A dataset year that has been published has an AVAILABLE manifest from    *)
(* then on: a failed attempt never takes the previous revision away.        *)
StaysAvailable == [][Available # {} => Available' # {}]_vars

(* A release stands: it is frozen, and the dataset year stays served.       *)
ReleasesStand == ReleasedIsFrozen /\ StaysAvailable

(* The end of a manifest that stays AVAILABLE reaches the watermark, even   *)
(* if its publisher died before step 5, provided the feed and its provider  *)
(* stay active: an engine opened meanwhile takes that away again.           *)
AvailableUpTo(r, n) == r \in Available /\ EndOfHash(manifest[r].hash) = n
WatermarkCatchesUp ==
  \A r \in Revision, n \in Day :
    active /\ AvailableUpTo(r, n) ~> watermark >= n \/ ~active \/ ~AvailableUpTo(r, n)
=============================================================================
