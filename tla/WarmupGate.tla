------------------------------ MODULE WarmupGate ------------------------------
(***************************************************************************)
(* The pre-start gate (warmup_gate.py) beside the publication of the        *)
(* dataset year it reads, and the warm-up bundle the verdict goes into      *)
(* (realtime_warmup.py, runtime_warmup_export.py).                          *)
(*                                                                          *)
(* A verdict is evaluated, recorded and exported in separate steps, without *)
(* the lock publish_dataset takes: a publication may commit between any two *)
(* of them.  Publication is the one of DatasetPublication with its object   *)
(* writes folded into the commit and one object per session and shard.      *)
(* Times count ticks; the events of a bundle are its session.               *)
(***************************************************************************)
EXTENDS Integers, FiniteSets, Sequences, FiniteSetsExt

CONSTANTS
  Sessions,           \* sessions of the year, in order
  GateShard,          \* required_shards
  Flushes,            \* the sets of shards one publication may bring
  FreshnessBudget,
  MaxReadinessAge,
  MaxGateRevision, MaxGateTime, MaxWatermarks, MaxVerdicts  \* bounds

Session == 1 .. Sessions
GateRevision == 1 .. MaxGateRevision
Slot == Session \X GateShard
ASSUME WarmupAssumption ==
  /\ {Sessions, FreshnessBudget, MaxReadinessAge, MaxGateRevision} \subseteq Nat \ {0}
  /\ {MaxGateTime, MaxWatermarks, MaxVerdicts} \subseteq Nat
  /\ IsFiniteSet(GateShard) /\ GateShard # {} /\ Flushes \subseteq SUBSET GateShard \ {{}}

VARIABLES
  shelf,      \* dataset_manifests: status and the slots its hash covers
  contents,   \* dataset_objects: the (revision, slot) objects each manifest lists
  mark,       \* stream_watermarks row of the feed: position and ingested_at
  clock,
  writer,     \* the publication under way
  batch,      \* state of the snapshot batch the consumer pins
  verdict,    \* the readiness last evaluated
  recorder,   \* where record() of that verdict stands
  blamed,     \* manifests (0: none) that quality_incidents of the gate name
  export,     \* publish_trading_warmup: the readiness document it was given
  bundle,     \* what lies at the output path
  watermarks, verdicts  \* bounds: writes of the watermark row, evaluations

warmupVars == <<shelf, contents, mark, clock, writer, batch, verdict, recorder, blamed,
                export, bundle, watermarks, verdicts>>
catalogVars == <<shelf, contents, writer>>
gateVars == <<verdict, recorder, blamed, export, bundle, verdicts>>
exportingVars == <<export, bundle>>

ManifestStatus == {"ABSENT", "AVAILABLE", "QUARANTINED", "SUPERSEDED"}
ShelfRow == [status : ManifestStatus, hash : SUBSET Slot]
NoRow == [status |-> "ABSENT", hash |-> {}]
Resting == [phase |-> "idle", slots |-> {}, rev |-> 0, prev |-> 0, row |-> NoRow]
NotRecording == [phase |-> "idle", row |-> NoRow]
Reason == {"DAILY_OBJECT_MISSING", "MANIFEST_NOT_AVAILABLE", "WATERMARK_MISSING",
           "WATERMARK_STALE", "WATERMARK_BEHIND_SESSION", "FEATURE_BATCH_MISSING",
           "FEATURE_BATCH_INCOMPLETE"}
NoVerdict == [state |-> "NONE", reason |-> "NONE", session |-> 0, rev |-> 0, at |-> 0,
              features |-> "unchecked"]
NoBundle == [state |-> "NONE", session |-> 0, rev |-> 0, features |-> "unchecked"]
NoExport == [phase |-> "idle", document |-> NoBundle]

On(status) == {r \in GateRevision : shelf[r].status = status}
Newest(S) == IF S = {} THEN 0 ELSE Max(S)
Current == Newest(On("AVAILABLE"))

WarmupInit ==
  /\ shelf = [r \in GateRevision |-> NoRow]
  /\ contents = [r \in GateRevision |-> {}]
  /\ mark = [at |-> 0, ingested |-> 0]
  /\ clock = 0 /\ watermarks = 0 /\ verdicts = 0
  /\ writer = Resting
  /\ batch = "unopened"
  /\ verdict = NoVerdict
  /\ recorder = NotRecording
  /\ blamed = {}
  /\ export = NoExport /\ bundle = NoBundle

-----------------------------------------------------------------------------
(* The ingestor's side: a publication reads the newest AVAILABLE manifest,  *)
(* then commits with the row it read; the watermark follows.                *)
BeginPublication(s, shards) ==
  /\ writer.phase = "idle"
  /\ Current + 1 \in GateRevision
  /\ writer' = [phase |-> "publishing", slots |-> {s} \X shards, rev |-> Current + 1,
                prev |-> Current, row |-> IF Current = 0 THEN NoRow ELSE shelf[Current]]
  /\ UNCHANGED <<shelf, contents, mark, clock, batch, watermarks>> /\ UNCHANGED gateVars

SessionOf(o) == o[2][1]
New == {writer.rev} \X writer.slots
Retained ==
  IF writer.prev = 0 THEN {}
  ELSE {o \in contents[writer.prev] : SessionOf(o) \notin {x[1] : x \in writer.slots}}
Slots(objects) == {o[2] : o \in objects}

(* stage_object refuses an object an earlier attempt registered; a dataset  *)
(* hash is unique among manifests.                                          *)
Refused ==
  \/ New \cap UNION {contents[r] : r \in GateRevision} # {}
  \/ \E r \in GateRevision \ {writer.rev} :
       contents[r] # {} /\ shelf[r].hash = Slots(New \cup Retained)

CommitPublication ==
  /\ writer.phase = "publishing" /\ ~Refused
  /\ shelf' = [r \in GateRevision |->
       IF r = writer.prev THEN [writer.row EXCEPT !.status = "SUPERSEDED"]
       ELSE IF r = writer.rev
         THEN [status |-> "AVAILABLE", hash |-> Slots(New \cup Retained)]
       ELSE shelf[r]]
  /\ \A r \in GateRevision \ {writer.rev} : shelf'[r].status # "AVAILABLE"
  /\ contents' = [contents EXCEPT ![writer.rev] = @ \cup New \cup Retained]
  /\ writer' = Resting
  /\ UNCHANGED <<mark, clock, batch, watermarks>> /\ UNCHANGED gateVars

(* A refusal, or the publisher dies: the transaction leaves nothing.        *)
AbortPublication ==
  /\ writer.phase = "publishing"
  /\ writer' = Resting
  /\ UNCHANGED <<shelf, contents, mark, clock, batch, watermarks>> /\ UNCHANGED gateVars

(* The row moves only to a later position, its ingestion time with it.     *)
AdvanceMark(s) ==
  /\ watermarks < MaxWatermarks /\ s > mark.at
  /\ mark' = [at |-> s, ingested |-> clock] /\ watermarks' = watermarks + 1
  /\ UNCHANGED <<clock, batch>> /\ UNCHANGED <<catalogVars, gateVars>>

GateTick ==
  /\ clock < MaxGateTime /\ clock' = clock + 1
  /\ UNCHANGED <<mark, batch, watermarks>> /\ UNCHANGED <<catalogVars, gateVars>>

BatchMoves ==
  /\ \/ batch = "unopened" /\ batch' = "open"
     \/ batch = "open" /\ batch' = "sealed"
  /\ UNCHANGED <<mark, clock, watermarks>> /\ UNCHANGED <<catalogVars, gateVars>>

-----------------------------------------------------------------------------
(* Mutant: one covered shard is enough.                                     *)
MissingAny(s, r) ==
  LET covered == {o[2][2] : o \in {x \in contents[r] : SessionOf(x) = s}}
  IN IF covered = {} THEN GateShard ELSE {}

MissingShards(s, r) ==
  GateShard \ {o[2][2] : o \in {x \in contents[r] : SessionOf(x) = s}}

(* The checks in their fixed order: the data, the freshness, the features.  *)
(* A manifest of any year is a candidate in the code; here there is one.    *)
DataChecks(s) ==
  <<[fails |-> \A r \in GateRevision : shelf[r] = NoRow, reason |-> "DAILY_OBJECT_MISSING"],
    [fails |-> Current = 0, reason |-> "MANIFEST_NOT_AVAILABLE"],
    [fails |-> Current # 0 /\ MissingShards(s, Current) # {}, reason |-> "DAILY_OBJECT_MISSING"]>>
WatermarkChecks(s) ==
  <<[fails |-> mark.at = 0, reason |-> "WATERMARK_MISSING"],
    [fails |-> clock - mark.ingested > FreshnessBudget, reason |-> "WATERMARK_STALE"],
    [fails |-> mark.at < s, reason |-> "WATERMARK_BEHIND_SESSION"]>>
(* Whether a feature batch is looked at is up to the caller of evaluate:    *)
(* without one nothing blocks, and the verdict says that it was not.        *)
Looked == {"checked", "unchecked"}
FeatureChecks(looked) ==
  <<[fails |-> looked = "checked" /\ batch = "unopened", reason |-> "FEATURE_BATCH_MISSING"],
    [fails |-> looked = "checked" /\ batch = "open", reason |-> "FEATURE_BATCH_INCOMPLETE"]>>

Checks(s, looked) == DataChecks(s) \o WatermarkChecks(s) \o FeatureChecks(looked)
Failing(s, looked) == {k \in DOMAIN Checks(s, looked) : Checks(s, looked)[k].fails}

(* evaluate: reads the catalog and writes nothing.                          *)
Evaluate(s, looked) ==
  /\ verdicts < MaxVerdicts /\ recorder = NotRecording
  /\ verdicts' = verdicts + 1
  /\ LET failing == Failing(s, looked)
     IN verdict' =
          [state |-> IF failing = {} THEN "READY" ELSE "BLOCKED",
           reason |-> IF failing = {} THEN "NONE" ELSE Checks(s, looked)[Min(failing)].reason,
           session |-> s, rev |-> Current, at |-> clock, features |-> looked]
  /\ UNCHANGED <<recorder, blamed, mark, clock, batch, watermarks>> /\ UNCHANGED exportingVars
  /\ UNCHANGED catalogVars

(* record: the incident first; with no manifest it blames none.             *)
RecordIncident ==
  /\ verdict.state = "BLOCKED" /\ recorder = NotRecording
  /\ blamed' = blamed \cup {verdict.rev}
  /\ recorder' = [recorder EXCEPT !.phase = IF verdict.rev = 0 THEN "done" ELSE "reading"]
  /\ UNCHANGED <<verdict, mark, clock, batch, watermarks, verdicts>>
  /\ UNCHANGED <<exportingVars, catalogVars>>

(* _quarantine reads the row, and writes the row it read.                   *)
ReadManifestRow ==
  /\ recorder.phase = "reading"
  /\ recorder' = IF shelf[verdict.rev].status = "QUARANTINED"
                 THEN [recorder EXCEPT !.phase = "done"]
                 ELSE [phase |-> "writing", row |-> shelf[verdict.rev]]
  /\ UNCHANGED <<verdict, blamed, mark, clock, batch, watermarks, verdicts>>
  /\ UNCHANGED <<exportingVars, catalogVars>>

(* Mutant: the row is written back as it was read.                          *)
QuarantineAsRead ==
  /\ recorder.phase = "writing"
  /\ shelf' = [shelf EXCEPT ![verdict.rev] = recorder.row]
  /\ recorder' = [NotRecording EXCEPT !.phase = "done"]
  /\ UNCHANGED <<contents, writer, verdict, blamed, mark, clock, batch, watermarks, verdicts>>
  /\ UNCHANGED exportingVars

Quarantine ==
  /\ recorder.phase = "writing"
  /\ shelf' = [shelf EXCEPT ![verdict.rev] = [recorder.row EXCEPT !.status = "QUARANTINED"]]
  /\ recorder' = [NotRecording EXCEPT !.phase = "done"]
  /\ UNCHANGED <<contents, writer, verdict, blamed, mark, clock, batch, watermarks, verdicts>>
  /\ UNCHANGED exportingVars

(* record returns, or its process dies at any point.                        *)
RecorderEnds ==
  /\ recorder.phase # "idle"
  /\ recorder' = NotRecording /\ verdict' = NoVerdict
  /\ UNCHANGED <<blamed, mark, clock, batch, watermarks, verdicts>>
  /\ UNCHANGED <<exportingVars, catalogVars>>

-----------------------------------------------------------------------------
(* Mutant: the age of the verdict is not looked at.                         *)
NeverTooOld == TRUE

NotTooOld == clock - verdict.at <= MaxReadinessAge

(* publish_trading_warmup is given a readiness document someone made of the *)
(* verdict: it names the feed by its catalog id, as the gate does, or by    *)
(* its code, and the manifest of the catalog, the one the bundle will have, *)
(* or none.                                                                 *)
FeedNamed == {"id", "code"}
ManifestNamed == {"catalog", "bundle", "none"}

(* The code of the feed is demanded and the age looked at, once, before     *)
(* anything is written.  The same inputs again are ALREADY_APPLIED, any     *)
(* other input is refused; neither changes what lies at the path.           *)
BeginWarmupExport(feed) ==
  /\ export = NoExport /\ verdict.state \in {"READY", "BLOCKED"}
  /\ feed = "code" /\ NotTooOld /\ bundle = NoBundle
  /\ export' = [phase |-> "staging",
                document |-> [state |-> verdict.state, session |-> verdict.session,
                              rev |-> verdict.rev, features |-> verdict.features]]
  /\ UNCHANGED <<verdict, recorder, blamed, bundle, mark, clock, batch, watermarks, verdicts>>
  /\ UNCHANGED catalogVars

(* The bundle is staged and verified (WarmupBundle has those steps) and has *)
(* an id of its own: a document that names the catalog's manifest is        *)
(* refused.  A READY bundle needs events, all of the session the verdict    *)
(* names.  A path that was taken meanwhile makes os.replace raise.          *)
MoveBundle(named) ==
  /\ export.phase = "staging"
  /\ named = "catalog" => export.document.rev = 0
  /\ bundle' = IF bundle = NoBundle THEN export.document ELSE bundle
  /\ export' = NoExport
  /\ UNCHANGED <<verdict, recorder, blamed, mark, clock, batch, watermarks, verdicts>>
  /\ UNCHANGED catalogVars

(* A refusal, a failure or a death: the staging directory is removed, or    *)
(* never read.                                                              *)
WarmupExportFails ==
  /\ export # NoExport
  /\ export' = NoExport
  /\ UNCHANGED <<verdict, recorder, blamed, bundle, mark, clock, batch, watermarks, verdicts>>
  /\ UNCHANGED catalogVars

WarmupNext ==
  \/ \E s \in Session, S \in Flushes : BeginPublication(s, S)
  \/ CommitPublication \/ AbortPublication
  \/ \E s \in Session : AdvanceMark(s)
  \/ GateTick \/ BatchMoves
  \/ \E s \in Session, looked \in Looked : Evaluate(s, looked)
  \/ RecordIncident \/ ReadManifestRow \/ Quarantine \/ RecorderEnds
  \/ \E feed \in FeedNamed : BeginWarmupExport(feed)
  \/ \E named \in ManifestNamed : MoveBundle(named)
  \/ WarmupExportFails

WarmupSpec == WarmupInit /\ [][WarmupNext]_warmupVars

-----------------------------------------------------------------------------
(* Every variable holds values of its type.                                 *)
Verdict == [state : {"NONE", "READY", "BLOCKED"}, reason : Reason \cup {"NONE"},
            session : Session \cup {0}, rev : GateRevision \cup {0},
            at : Nat, features : Looked]
Bundle == [state : {"NONE", "READY", "BLOCKED"}, session : Session \cup {0},
           rev : GateRevision \cup {0}, features : Looked]
WarmupTypeOK ==
  /\ shelf \in [GateRevision -> ShelfRow]
  /\ contents \in [GateRevision -> SUBSET (GateRevision \X Slot)]
  /\ mark \in [at : Session \cup {0}, ingested : Nat] /\ clock \in Nat
  /\ writer \in [phase : {"idle", "publishing"}, slots : SUBSET Slot, prev : GateRevision \cup {0},
                 rev : GateRevision \cup {0}, row : ShelfRow]
  /\ batch \in {"unopened", "open", "sealed"}
  /\ verdict \in Verdict
  /\ bundle \in Bundle
  /\ export \in [phase : {"idle", "staging"}, document : Bundle]
  /\ recorder \in [phase : {"idle", "reading", "writing", "done"}, row : ShelfRow]
  /\ blamed \subseteq GateRevision \cup {0}
  /\ {watermarks, verdicts} \subseteq Nat

(* What a READY bundle says stays true of the manifest its verdict names:   *)
(* every required shard of the session is listed, whatever is published or  *)
(* blocked meanwhile; the feed has passed the session; and the features are *)
(* sealed, if a batch was looked at.  And the rows the gate writes outside  *)
(* the publication lock never leave the year with two AVAILABLE manifests.  *)
GateSound ==
  /\ bundle.state = "READY" =>
       /\ {bundle.session} \X GateShard \subseteq Slots(contents[bundle.rev])
       /\ mark.at >= bundle.session
       /\ bundle.features = "checked" => batch = "sealed"
  /\ \A r, q \in On("AVAILABLE") : r = q

(* When a READY verdict is accepted for a bundle, the feed was heard from   *)
(* within the freshness budget and the readiness age together.  The bundle  *)
(* is put at its path later, without another look at the time.              *)
ExportIsFresh ==
  [][export'.phase = "staging" /\ export.phase = "idle" /\ export'.document.state = "READY" =>
       clock - mark.ingested <= FreshnessBudget + MaxReadinessAge]_warmupVars

(* A release covers every session an earlier one covered.                   *)
ReleasesKeepSessions ==
  [][\A r, q \in GateRevision :
       shelf'[r] # shelf[r] /\ shelf'[r].status = "AVAILABLE" /\ shelf[q] # NoRow =>
         {x[1] : x \in shelf[q].hash} \subseteq {x[1] : x \in shelf'[r].hash}]_warmupVars
=============================================================================
