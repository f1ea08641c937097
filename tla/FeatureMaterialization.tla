----------------------- MODULE FeatureMaterialization -----------------------
(***************************************************************************)
(* Feature series: the planner of backfill commands (features/backfill.py), *)
(* the worker port that executes them (apps/pipeline_worker/                *)
(* feature_output.py), the materializer and its output publisher            *)
(* (features/materialization.py, output.py), and the snapshot batches that  *)
(* pin a set of materializations (features/snapshots.py).                   *)
(*                                                                          *)
(* A series is an instrument under one definition.  Its bars come from one  *)
(* object per segment of time; the objects of a year are listed by the      *)
(* year's manifest, and every publication of the year makes a new revision  *)
(* of it with new object ids.  Values are a function of the bars, so a      *)
(* materialization is named by its command: series, period and the          *)
(* revisions it read.  A transaction holds the advisory lock of the key it  *)
(* publishes under and is one step; a worker may die between any two others.*)
(***************************************************************************)
EXTENDS Integers, FiniteSets, Sequences, FiniteSetsExt, Functions

CONSTANTS
  Series,          \* (definition, instrument) pairs
  Segments,        \* number of source objects, in order of time
  YearOfSegment,   \* the year a segment lies in
  LoadedSegments,  \* segments published before the first plan
  ClampStarts,     \* starts the operator asks for with --from
  NeededSegments,  \* required_history_points, in segments
  MaxObjects,      \* MAX_SOURCE_OBJECTS_PER_COMMAND
  AllowHoles,      \* --allow-holes
  Executor,        \* workers
  Sealer,          \* callers of seal
  MaxSourceRevisions, MaxPlans, MaxFeatureFaults, MaxTries  \* bounds

Segment == 1 .. Segments
SourceYear == {YearOfSegment[s] : s \in Segment}
ASSUME FeatureAssumption ==
  /\ Segments \in Nat \ {0} /\ YearOfSegment \in [1 .. Segments -> Nat]
  /\ LoadedSegments \cup ClampStarts \subseteq 1 .. Segments
  /\ {NeededSegments, MaxObjects, MaxTries, MaxSourceRevisions} \subseteq Nat \ {0}
  /\ {MaxPlans, MaxFeatureFaults} \subseteq Nat /\ AllowHoles \in BOOLEAN

VARIABLES
  segments,     \* published segments of source bars
  revision,     \* the AVAILABLE revision of each year's source manifest
  commands,     \* messages on the queue, with the tries they have had
  parkedCommands,
  runs,         \* pipeline_runs by command id
  rows,         \* feature_materializations: status of each
  stored,       \* materializations whose object is in the store
  registered,       \* materializations whose manifest is AVAILABLE and lists it
  executor,     \* what each worker is doing
  batches,      \* feature_snapshot_batches: status of each plan
  sealer,       \* what each seal call has read
  plans, featureFaults  \* bounds

featureVars == <<segments, revision, commands, parkedCommands, runs, rows, stored, registered,
                 executor, batches, sealer, plans, featureFaults>>

NoFeature == [series |-> "none", from |-> 0, to |-> 0, input |-> {}]
IdleExecutor == [phase |-> "idle", cmd |-> NoFeature, tries |-> 0, prev |-> FALSE,
                 created |-> FALSE]
IdleSealer == [plan |-> NoFeature, held |-> "none", verdict |-> "none"]

FeatureInit ==
  /\ segments = LoadedSegments
  /\ revision = [y \in SourceYear |-> IF \E s \in LoadedSegments : YearOfSegment[s] = y
                                      THEN 1 ELSE 0]
  /\ commands = {} /\ parkedCommands = {} /\ runs = <<>> /\ rows = <<>>
  /\ stored = {} /\ registered = {}
  /\ executor = [w \in Executor |-> IdleExecutor]
  /\ batches = <<>> /\ sealer = [k \in Sealer |-> IdleSealer]
  /\ plans = 0 /\ featureFaults = 0

RecordOf(f, key) == IF key \in DOMAIN f THEN f[key] ELSE "absent"
Record(f, key, value) == [k \in DOMAIN f \cup {key} |-> IF k = key THEN value ELSE f[k]]
FeatureFault == featureFaults < MaxFeatureFaults /\ featureFaults' = featureFaults + 1

-----------------------------------------------------------------------------
(* Source bars: a year grows by a segment, or is published again corrected. *)
NewRevision(y) ==
  /\ revision[y] < MaxSourceRevisions
  /\ revision' = [revision EXCEPT ![y] = @ + 1]
  /\ UNCHANGED <<commands, parkedCommands, runs, rows, stored, registered, executor, batches, sealer,
                 plans, featureFaults>>
SourceGrows(s) ==
  s \notin segments /\ segments' = segments \cup {s} /\ NewRevision(YearOfSegment[s])
SourceCorrected(y) == revision[y] > 0 /\ UNCHANGED segments /\ NewRevision(y)

(* The bar objects of a period, listed by the current AVAILABLE revisions.  *)
SourceObject(s) == [segment |-> s, rev |-> revision[YearOfSegment[s]]]
Authoritative(from, to) == {SourceObject(s) : s \in from .. to}

-----------------------------------------------------------------------------
(* plan_feature_backfill for the named instruments, and sending what it     *)
(* planned; sending may be cut short, which is naming fewer of them.        *)
SatisfiedBy(s, from, to) ==
  \E m \in DOMAIN rows :
    rows[m] = "SUCCEEDED" /\ m.series = s /\ m.from <= from /\ m.to >= to
SourceGap(from, to) == ~(from .. to \subseteq segments)
Chunks(from, to) ==
  {<<a, Min({a + MaxObjects - 1, to})>> :
     a \in {x \in from .. to : (x - from) % MaxObjects = 0}}
(* A plan with a seam is only sent when the operator accepts the hole.      *)
HolesAllowed(chunks) == Cardinality(chunks) > 1 => AllowHoles
(* The id of a command does not depend on its sources.                      *)
IdOf(c) == <<c.series, c.from, c.to>>

PlanBackfill(named, clampFrom) ==
  LET from == Max({Min(segments), clampFrom})
      to   == Max(segments)
      chunks == Chunks(from, to)
      todo == {s \in named : ~SatisfiedBy(s, from, to)}
      sent == {[series |-> s, from |-> c[1], to |-> c[2], input |-> Authoritative(c[1], c[2])] :
                 s \in todo, c \in chunks}
  IN /\ segments # {} /\ from <= to /\ ~SourceGap(from, to)
     /\ HolesAllowed(chunks)
     /\ plans < MaxPlans /\ plans' = plans + 1
     /\ sent # {}
     /\ commands' = commands \cup {[cmd |-> c, tries |-> 0] : c \in sent}
     /\ UNCHANGED <<segments, revision, parkedCommands, runs, rows, stored, registered, executor,
                    batches, sealer, featureFaults>>

-----------------------------------------------------------------------------
(* The worker port.                                                         *)
InPhase(w, phase) == executor[w].phase = phase
Turn(w, phase) == executor' = [executor EXCEPT ![w].phase = phase]

(* The sources must be the complete current set of the period, and the id   *)
(* must not have been used with others.                                     *)
CompleteSources(c) == c.input = Authoritative(c.from, c.to)
IdTaken(c) == IdOf(c) \in DOMAIN runs /\ runs[IdOf(c)].input # c.input
RefusedCommand(c) == ~CompleteSources(c) \/ IdTaken(c)

RefuseCommand(w, m) ==
  /\ InPhase(w, "idle") /\ m \in commands
  /\ commands' = commands \ {m}
  /\ parkedCommands' = parkedCommands \cup {m.cmd}
  /\ UNCHANGED <<segments, revision, runs, rows, stored, registered, executor, batches, sealer, plans>>
RefuseSources(w, m) == RefusedCommand(m.cmd) /\ RefuseCommand(w, m) /\ UNCHANGED featureFaults
(* A source object whose bytes do not verify, or cannot be read.            *)
RefuseBytes(w, m) == ~RefusedCommand(m.cmd) /\ RefuseCommand(w, m) /\ FeatureFault

BeginRun(w, m) ==
  /\ InPhase(w, "idle") /\ m \in commands /\ ~RefusedCommand(m.cmd)
  /\ commands' = commands \ {m}
  /\ runs' = Record(runs, IdOf(m.cmd), [status |-> "RUNNING", input |-> m.cmd.input])
  /\ executor' = [executor EXCEPT ![w] =
       [IdleExecutor EXCEPT !.phase = "begun", !.cmd = m.cmd, !.tries = m.tries]]
  /\ UNCHANGED <<segments, revision, parkedCommands, rows, stored, registered, batches, sealer, plans,
                 featureFaults>>

(* Mutant: a materialization that succeeded before starts over.             *)
ForgetsSuccess(m) == RecordOf(rows, m) = "PUBLISHED"
PreviousSuccess(m) == RecordOf(rows, m) = "SUCCEEDED"
StartMaterialization(w) ==
  LET m == executor[w].cmd
      prev == PreviousSuccess(m)
  IN /\ InPhase(w, "begun")
     /\ executor' = [executor EXCEPT ![w].phase = "compute", ![w].prev = prev]
     /\ rows' = IF prev THEN rows ELSE Record(rows, m, "RUNNING")
     /\ UNCHANGED <<segments, revision, commands, parkedCommands, runs, stored, registered, batches,
                    sealer, plans, featureFaults>>

ComputeSeries(w) ==
  LET m == executor[w].cmd
      enough == m.to - m.from + 1 >= NeededSegments
  IN /\ InPhase(w, "compute")
     /\ Turn(w, IF enough THEN "put" ELSE "failed")
     /\ rows' = IF enough THEN rows ELSE Record(rows, m, "FAILED")
     /\ UNCHANGED <<segments, revision, commands, parkedCommands, runs, stored, registered, batches,
                    sealer, plans, featureFaults>>

(* The create-only put, read back.  A failure deletes what it created.      *)
PutSeries(w) ==
  /\ InPhase(w, "put")
  /\ stored' = stored \cup {executor[w].cmd}
  /\ executor' = [executor EXCEPT ![w].phase = "register",
                                  ![w].created = executor[w].cmd \notin stored]
  /\ UNCHANGED <<segments, revision, commands, parkedCommands, runs, rows, registered, batches, sealer,
                 plans, featureFaults>>
PutSeriesFails(w) ==
  /\ InPhase(w, "put") /\ FeatureFault
  /\ Turn(w, IF executor[w].prev THEN "failed" ELSE "failing")
  /\ UNCHANGED <<segments, revision, commands, parkedCommands, runs, rows, stored, registered, batches,
                 sealer, plans>>

(* Done before: the manifest, the object and the relation must be there.    *)
ConfirmPublication(w) ==
  /\ InPhase(w, "register") /\ executor[w].prev
  /\ Turn(w, IF executor[w].cmd \in registered THEN "finish" ELSE "cleanup")
  /\ UNCHANGED <<segments, revision, commands, parkedCommands, runs, rows, stored, registered, batches,
                 sealer, plans, featureFaults>>

(* An object registered before has another created_at, and one manifest of  *)
(* a key, which names the year a period starts in, may be AVAILABLE.        *)
SameKey(m, o) == m.series = o.series /\ YearOfSegment[m.from] = YearOfSegment[o.from]
Registrable(m) == m \notin registered /\ \A o \in registered : ~SameKey(m, o)
RegisterSeries(w) ==
  LET m == executor[w].cmd
  IN /\ InPhase(w, "register") /\ ~executor[w].prev /\ Registrable(m)
     /\ registered' = registered \cup {m}
     /\ rows' = Record(rows, m, "SUCCEEDED")
     /\ Turn(w, "finish")
     /\ UNCHANGED <<segments, revision, commands, parkedCommands, runs, stored, batches, sealer,
                    plans, featureFaults>>
RegisterFails(w) ==
  /\ InPhase(w, "register") /\ ~executor[w].prev
  /\ IF Registrable(executor[w].cmd) THEN FeatureFault ELSE UNCHANGED featureFaults
  /\ Turn(w, "cleanup")
  /\ UNCHANGED <<segments, revision, commands, parkedCommands, runs, rows, stored, registered, batches,
                 sealer, plans>>

(* Only an object this call created is deleted.                             *)
CleanUp(w) ==
  /\ InPhase(w, "cleanup")
  /\ stored' = IF executor[w].created THEN stored \ {executor[w].cmd} ELSE stored
  /\ Turn(w, IF executor[w].prev THEN "failed" ELSE "failing")
  /\ UNCHANGED <<segments, revision, commands, parkedCommands, runs, rows, registered, batches, sealer,
                 plans, featureFaults>>
RecordFailure(w) ==
  /\ InPhase(w, "failing")
  /\ rows' = Record(rows, executor[w].cmd, "FAILED")
  /\ Turn(w, "failed")
  /\ UNCHANGED <<segments, revision, commands, parkedCommands, runs, stored, registered, batches,
                 sealer, plans, featureFaults>>

(* The run is closed, and the message acknowledged, tried again or parked.  *)
CloseRun(w, status) ==
  LET c == executor[w].cmd
  IN /\ runs' = [runs EXCEPT ![IdOf(c)].status = status]
     /\ executor' = [executor EXCEPT ![w] = IdleExecutor]
     /\ UNCHANGED <<segments, revision, rows, stored, registered, batches, sealer, plans,
                    featureFaults>>
FinishSeries(w) ==
  /\ InPhase(w, "finish") /\ CloseRun(w, "SUCCEEDED") /\ UNCHANGED <<commands, parkedCommands>>
FailRun(w) ==
  LET c == executor[w].cmd  tries == executor[w].tries + 1
  IN /\ InPhase(w, "failed") /\ CloseRun(w, "FAILED")
     /\ IF tries < MaxTries
        THEN commands' = commands \cup {[cmd |-> c, tries |-> tries]} /\ UNCHANGED parkedCommands
        ELSE parkedCommands' = parkedCommands \cup {c} /\ UNCHANGED commands

(* The message of a worker that dies, or loses its lease, is delivered to   *)
(* another.                                                                 *)
Redelivered(w) ==
  /\ FeatureFault
  /\ commands' = commands \cup
       {[cmd |-> executor[w].cmd, tries |-> Min({executor[w].tries + 1, MaxTries - 1})]}
ExecutorDies(w) ==
  /\ ~InPhase(w, "idle") /\ Redelivered(w)
  /\ executor' = [executor EXCEPT ![w] = IdleExecutor]
  /\ UNCHANGED <<segments, revision, parkedCommands, runs, rows, stored, registered, batches, sealer,
                 plans>>
LeaseLost(w) ==
  /\ ~InPhase(w, "idle") /\ Redelivered(w)
  /\ UNCHANGED <<segments, revision, parkedCommands, runs, rows, stored, registered, executor, batches,
                 sealer, plans>>

-----------------------------------------------------------------------------
(* Snapshot batches: every series over one period, from one set of inputs.  *)
Members(plan) == {[plan EXCEPT !.series = s] : s \in Series}
OpenBatch(from) ==
  LET plan == [series |-> "all", from |-> from, to |-> Max(segments),
               input |-> Authoritative(from, Max(segments))]
  IN /\ segments # {} /\ from \in segments /\ ~SourceGap(from, Max(segments))
     /\ plan \notin DOMAIN batches /\ batches = <<>>
     /\ batches' = Record(batches, plan, "PENDING")
     /\ UNCHANGED <<segments, revision, commands, parkedCommands, runs, rows, stored, registered,
                    executor, sealer, plans, featureFaults>>

(* Mutant: only a member that failed keeps a batch open.                    *)
IgnoresAbsent(plan) ==
  IF \E m \in Members(plan) : RecordOf(rows, m) = "FAILED" THEN "FAILED" ELSE "SUCCEEDED"
BatchVerdict(plan) ==
  IF \A m \in Members(plan) : RecordOf(rows, m) = "SUCCEEDED" THEN "SUCCEEDED"
  ELSE IF \E m \in Members(plan) : RecordOf(rows, m) = "FAILED" THEN "FAILED" ELSE "PENDING"

(* seal reads the batch and its members, then writes.  A sealed batch is    *)
(* returned as it is; a mark that changes nothing is not written.           *)
SealReads(k, plan) ==
  /\ sealer[k] = IdleSealer /\ plan \in DOMAIN batches /\ batches[plan] # "SUCCEEDED"
  /\ BatchVerdict(plan) # batches[plan]
  /\ sealer' = [sealer EXCEPT ![k] =
       [plan |-> plan, held |-> batches[plan], verdict |-> BatchVerdict(plan)]]
  /\ UNCHANGED <<segments, revision, commands, parkedCommands, runs, rows, stored, registered,
                 executor, batches, plans, featureFaults>>
SealWrites(k) ==
  /\ sealer[k] # IdleSealer
  /\ batches' = [batches EXCEPT ![sealer[k].plan] = sealer[k].verdict]
  /\ sealer' = [sealer EXCEPT ![k] = IdleSealer]
  /\ UNCHANGED <<segments, revision, commands, parkedCommands, runs, rows, stored, registered,
                 executor, plans, featureFaults>>

-----------------------------------------------------------------------------
Executing(w) ==
  \/ \E m \in commands : RefuseSources(w, m) \/ RefuseBytes(w, m) \/ BeginRun(w, m)
  \/ StartMaterialization(w) \/ ComputeSeries(w) \/ PutSeries(w) \/ ConfirmPublication(w)
  \/ RegisterSeries(w) \/ RegisterFails(w) \/ CleanUp(w) \/ RecordFailure(w)
  \/ FinishSeries(w) \/ FailRun(w)
FeatureNext ==
  \/ \E s \in Segment : SourceGrows(s)
  \/ \E y \in SourceYear : SourceCorrected(y)
  \/ \E named \in SUBSET Series, from \in ClampStarts : PlanBackfill(named, from)
  \/ \E w \in Executor : Executing(w) \/ PutSeriesFails(w) \/ ExecutorDies(w) \/ LeaseLost(w)
  \/ \E from \in ClampStarts : OpenBatch(from)
  \/ \E k \in Sealer : SealWrites(k) \/ \E plan \in DOMAIN batches : SealReads(k, plan)
FeatureSpec == FeatureInit /\ [][FeatureNext]_featureVars

-----------------------------------------------------------------------------
Materialization ==
  [series : Series, from : Segment, to : Segment,
   input : SUBSET [segment : Segment, rev : 1 .. MaxSourceRevisions]]
(* The variables have their types.                                          *)
FeatureTypeOK ==
  /\ segments \subseteq Segment /\ revision \in [SourceYear -> 0 .. MaxSourceRevisions]
  /\ \A m \in commands : m.cmd \in Materialization /\ m.tries \in 0 .. MaxTries - 1
  /\ parkedCommands \cup DOMAIN rows \cup stored \cup registered \subseteq Materialization
  /\ \A m \in DOMAIN rows : rows[m] \in {"RUNNING", "SUCCEEDED", "FAILED"}
  /\ \A c \in DOMAIN runs : runs[c].status \in {"RUNNING", "SUCCEEDED", "FAILED"}
  /\ \A p \in DOMAIN batches : batches[p] \in {"PENDING", "SUCCEEDED", "FAILED"}
  /\ \A w \in Executor : InPhase(w, "idle") \/ executor[w].cmd \in Materialization

(* What a consumer may pin stays readable, whatever the worker is killed in *)
(* and however often a command is delivered: a series recorded SUCCEEDED is *)
(* listed by its AVAILABLE manifest and its bytes are stored, the manifests *)
(* that are AVAILABLE are exactly those, one per key; and a batch is sealed *)
(* only over members that are all such (snapshots.py, "a batch that is      *)
(* missing any planned member is not consumable").                          *)
SeriesIntact ==
  /\ \A m \in DOMAIN rows : rows[m] = "SUCCEEDED" => m \in registered
  /\ \A m \in registered : /\ m \in stored /\ rows[m] = "SUCCEEDED"
                       /\ \A o \in registered : o # m => ~SameKey(m, o)
  /\ \A p \in DOMAIN batches : batches[p] = "SUCCEEDED" => Members(p) \subseteq registered

(* What the planner plans over bars that do not change becomes a series,    *)
(* faults aside (backfill.py, "every released strategy can actually read    *)
(* its indicator over the whole history").                                  *)
PlannedIsServed ==
  \A c \in parkedCommands :
    (CompleteSources(c) /\ c.to - c.from + 1 >= NeededSegments)
      => featureFaults > 0
=============================================================================
