--------------------------- MODULE DatasetReleases ---------------------------
(***************************************************************************)
(* The releases of a dataset year as its readers see them: publication      *)
(* implements the chain of frozen snapshots of VersionedDataset as long as  *)
(* one publisher works on the dataset year and no quarantined attempt       *)
(* leaves rows under the revision it did not release.                       *)
(***************************************************************************)
EXTENDS DatasetPublication

(* A released revision is one that was ever AVAILABLE.                      *)
Released(r) == manifest[r].status \in {"AVAILABLE", "SUPERSEDED"}

(* A release replaces every object that shares a day with its replace       *)
(* periods, in any shard, and brings its tables.                            *)
Brings(j) == {[slot |-> s, content |-> j.groups[s]] : s \in DOMAIN j.groups}
Obsolete(j) == {c \in Canonical : DaysOf[c.slot[1]] \cap j.replaces # {}}

Dataset == INSTANCE VersionedDataset WITH
  Batch <- {[items |-> Brings(j), obsolete |-> Obsolete(j)] : j \in Job},
  snapshot <- [r \in {q \in Revision : Released(q)} |-> CanonicalHash(listing[r])],
  current <- LatestAvailable

(* The publications of one worker release snapshots, whatever crashes.      *)
ReleasesSnapshots == Dataset!Spec

-----------------------------------------------------------------------------
(* What the theorems about one publisher take of the callers.               *)
OnePublisher == \A p, q \in Publisher : p = q
(* Nobody passes --revision (cli.py), which may name the newest AVAILABLE   *)
(* revision.                                                                *)
Unforced == \A j \in Job : j.revision = 0
(* The replace periods cover the partitions of the tables (engine.py,       *)
(* migrate_legacy, backfill, derive, incremental, compact;                  *)
(* realtime_ingest.py, _publish_year).                                      *)
ReplacesCover == \A j \in Job : \A s \in DOMAIN j.groups : DaysOf[s[1]] \subseteq j.replaces
(* A publication brings no day of a shard twice: all its tables are of one  *)
(* granularity.                                                             *)
TablesApart ==
  \A j \in Job : \A s, t \in DOMAIN j.groups :
    s # t => s[2] # t[2] \/ DaysOf[s[1]] \cap DaysOf[t[1]] = {}
(* No quarantined attempt has left rows under its revision.                 *)
NoLeftovers == \A r \in Revision : manifest[r].status = "QUARANTINED" => listing[r] = {}
=============================================================================
