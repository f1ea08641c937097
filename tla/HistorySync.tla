------------------------------ MODULE HistorySync ------------------------------
(***************************************************************************)
(* apps/pipeline_worker/sync_market_history.py: the scheduled job that      *)
(* publishes the sessions closed since the newest 30-minute manifest, in    *)
(* batches through MarketPipelineEngine.incremental, projects the recent    *)
(* bars of every resolution into Redis and then writes the projection's     *)
(* metadata.  A dataset is the set of sessions it holds, an instrument has  *)
(* bars in every one; adjustment corrections are PipelineRuns'.             *)
(***************************************************************************)
EXTENDS Integers, FiniteSets, Sequences, FiniteSetsExt

CONSTANTS
  Timeframes,      \* a sequence: the native one first, then the derived ones
  Listed,          \* a sequence of instruments, in the order they are projected
  BatchSize,       \* PUBLICATION_SESSION_BATCH
  Lookback,        \* sessions a projection reaches back
  LastSession, MaxFailures   \* bounds

ASSUME SyncAssumption ==
  /\ Timeframes \in Seq({Timeframes[k] : k \in DOMAIN Timeframes}) /\ Len(Timeframes) > 0
  /\ Listed \in Seq({Listed[k] : k \in DOMAIN Listed}) /\ Len(Listed) > 0
  /\ {BatchSize, Lookback, LastSession} \subseteq Nat \ {0} /\ MaxFailures \in Nat

TF == {Timeframes[k] : k \in DOMAIN Timeframes}
Native == Timeframes[1]
Keys == {Listed[k] : k \in DOMAIN Listed} \X TF

VARIABLES
  closed,      \* sessions 1..closed are over
  published,   \* [timeframe -> sessions of its AVAILABLE manifests]
  job,         \* the running sync
  redis,       \* [instrument, timeframe -> sessions in the key's payload]
  metadata,    \* [timeframe -> newest session the metadata speaks of]
  syncFailures

syncVars == <<closed, published, job, redis, metadata, syncFailures>>

Idle == [phase |-> "idle", pending |-> {}, step |-> 1, failed |-> FALSE, key |-> 1]

SyncInit ==
  /\ closed = 1
  /\ published = [t \in TF |-> {1}]
  /\ job = Idle
  /\ redis = [k \in Keys |-> {}]
  /\ metadata = [t \in TF |-> 0]
  /\ syncFailures = 0

Newest(S) == Max(S \cup {0})
FailsNow == syncFailures < MaxFailures /\ syncFailures' = syncFailures + 1

SessionEnds ==
  /\ closed < LastSession /\ closed' = closed + 1
  /\ UNCHANGED <<published, job, redis, metadata, syncFailures>>

(* Mutant: the session still open counts as completed.                      *)
MissingWithOpen == Newest(published[Native]) + 1 .. closed + 1

(* completed_sessions_after the newest native period.                       *)
MissingSessions == Newest(published[Native]) + 1 .. closed

StartSync ==
  /\ job.phase = "idle"
  /\ job' = [Idle EXCEPT !.pending = MissingSessions,
                         !.phase = IF MissingSessions = {} THEN "projecting" ELSE "publishing"]
  /\ UNCHANGED <<closed, published, redis, metadata, syncFailures>>

BatchOf(pending) == {s \in pending : Cardinality({r \in pending : r <= s}) <= BatchSize}

(* incremental publishes one contract after the other from what it staged;  *)
(* one that is quarantined fails the run, which still publishes the rest.   *)
PublishContract ==
  LET t == Timeframes[job.step]
  IN /\ job.phase = "publishing" /\ job.step <= Len(Timeframes)
     /\ \/ /\ published' = [published EXCEPT ![t] = @ \cup BatchOf(job.pending)]
           /\ job' = [job EXCEPT !.step = @ + 1]
           /\ UNCHANGED syncFailures
        \/ /\ FailsNow
           /\ job' = [job EXCEPT !.step = @ + 1, !.failed = TRUE]
           /\ UNCHANGED published
     /\ UNCHANGED <<closed, redis, metadata>>

(* Mutant: the next batch follows a failed one.                             *)
GoesOnAnyway == TRUE

(* A batch that did not succeed raises out of the sync.                     *)
GoesOn == ~job.failed

FinishBatch ==
  /\ job.phase = "publishing" /\ job.step > Len(Timeframes)
  /\ LET rest == job.pending \ BatchOf(job.pending)
     IN job' = IF ~GoesOn THEN Idle
               ELSE [job EXCEPT !.pending = rest, !.step = 1, !.failed = FALSE,
                                !.phase = IF rest = {} THEN "projecting" ELSE "publishing"]
  /\ UNCHANGED <<closed, published, redis, metadata, syncFailures>>

(* _project_history reads a timeframe's manifests and verified objects, and *)
(* sets one key per instrument.                                             *)
Recent(t) == {s \in published[t] : s > Newest(published[t]) - Lookback}

ProjectKey ==
  LET t == Timeframes[job.step]
  IN /\ job.phase = "projecting" /\ job.step <= Len(Timeframes)
     /\ redis' = [redis EXCEPT ![<<Listed[job.key], t>>] = Recent(t)]
     /\ job' = IF job.key < Len(Listed) THEN [job EXCEPT !.key = @ + 1]
               ELSE [job EXCEPT !.key = 1, !.step = @ + 1]
     /\ UNCHANGED <<closed, published, metadata, syncFailures>>

(* Mutant: the metadata is written before the keys.                         *)
AllProjectedSoon == TRUE

AllProjected == job.step > Len(Timeframes)

WriteMetadata ==
  /\ job.phase = "projecting" /\ AllProjected
  /\ metadata' = [t \in TF |-> Newest(published[t])]
  /\ job' = [job EXCEPT !.phase = "succeeded"]
  /\ UNCHANGED <<closed, published, redis, syncFailures>>

ReportSuccess ==
  /\ job.phase = "succeeded" /\ job' = Idle
  /\ UNCHANGED <<closed, published, redis, metadata, syncFailures>>

(* The process dies, or an object, Redis or the database fails it.          *)
SyncDies ==
  /\ job.phase \in {"publishing", "projecting"} /\ FailsNow
  /\ job' = Idle
  /\ UNCHANGED <<closed, published, redis, metadata>>

SyncNext ==
  \/ SessionEnds \/ StartSync \/ PublishContract \/ FinishBatch
  \/ ProjectKey \/ WriteMetadata \/ ReportSuccess \/ SyncDies

SyncSpec == SyncInit /\ [][SyncNext]_syncVars

-----------------------------------------------------------------------------
(* Every variable holds values of its type: no session is published,        *)
(* projected or spoken of before it closed.                                 *)
SyncTypeOK ==
  /\ closed \in 1..LastSession /\ syncFailures \in 0..MaxFailures
  /\ published \in [TF -> SUBSET (1..closed)]
  /\ redis \in [Keys -> SUBSET (1..closed)] /\ metadata \in [TF -> 0..closed]
  /\ job.phase \in {"idle", "publishing", "projecting", "succeeded"}
  /\ job.pending \subseteq 1..closed

(* The native history has no hole, whatever failed: the next sync starts    *)
(* from its newest session, so a batch must not pass one that failed.       *)
NativeHasNoHole == published[Native] = 1..Newest(published[Native])

(* The metadata never speaks of a session some instrument's key lacks, and  *)
(* a key holds published sessions only.                                     *)
MetadataBacked ==
  \A k \in Keys :
    /\ redis[k] \subseteq published[k[2]]
    /\ metadata[k[2]] <= Newest(redis[k])

(* Without a failure every sync leaves every resolution with the same       *)
(* sessions.                                                                *)
WholeWhenNothingFails ==
  syncFailures = 0 /\ job.phase \in {"idle", "projecting", "succeeded"} =>
    \A t \in TF : published[t] = published[Native]

(* The three together.                                                      *)
SyncSound == NativeHasNoHole /\ MetadataBacked /\ WholeWhenNothingFails

(* "publication commits recoverable session batches"                        *)
(* (tests/test_market_history_sync.py:277): once a sync succeeded, what an  *)
(* earlier failure left out of a derived resolution is there.  The start is *)
(* read from the native manifests alone, so it is not.                      *)
BatchesRecoverable ==
  job.phase = "succeeded" => \A t \in TF : published[Native] \subseteq published[t]
=============================================================================
