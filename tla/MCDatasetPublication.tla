------------------------ MODULE MCDatasetPublication ------------------------
(* Small instances of DatasetPublication.  Two days, the year that spans    *)
(* them, two shards and two versions of the bytes.                          *)
EXTENDS DatasetReleases

MCLastDay == 2
MCPartition == {"day1", "day2", "year"}
MCDaysOf == [q \in MCPartition |->
               CASE q = "day1" -> {1} [] q = "day2" -> {2} [] q = "year" -> {1, 2}]

Request(groups, failed, revision) ==
  [groups   |-> groups,
   replaces |-> UNION {MCDaysOf[s[1]] : s \in DOMAIN groups},
   failed   |-> failed,
   revision |-> revision]

(* Tables for the shards of one partition.                                  *)
Tables(q, shards, values) ==
  UNION {[{q} \X S -> values] : S \in SUBSET shards \ {{}}}

(* An incremental run of one day, with a shard that may be broken or new,   *)
(* a backfill or compaction of the year, a collection failure.              *)
MixedJobs ==
  {Request(g, FALSE, 0) :
     g \in {[s \in {<<"day1", "A">>} |-> "c2"]}
        \cup {[s \in {"day1"} \X {"A", "B"} |-> IF s[2] = "A" THEN "c1" ELSE b] : b \in {"c1", "broken"}}
        \cup Tables("year", {"A"}, {"c1"})}
  \cup {Request([s \in {<<"day2", "A">>} |-> "c1"], f, 0) : f \in BOOLEAN}

(* Every table sound and always the same bytes: a day for one or both       *)
(* shards, the other day, the whole year.                                   *)
SoundJobs ==
  {Request(g, FALSE, 0) :
     g \in {[s \in {"day1"} \X S |-> "c1"] : S \in {{"A"}, {"A", "B"}}}
        \cup {[s \in {<<"day2", "A">>} |-> "c1"],
              [s \in {<<"year", "A">>} |-> "c1"]}}

(* A day at a time for two workers of the same dataset year.                *)
DayJobs ==
  {Request(g, FALSE, 0) :
     g \in Tables("day1", {"A"}, {"c1", "c2"}) \cup Tables("day2", {"A"}, {"c1"})}
=============================================================================
