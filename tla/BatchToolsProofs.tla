--------------------------- MODULE BatchToolsProofs ---------------------------
(***************************************************************************)
(* Proofs, for every value of their constants, about the components of      *)
(* MCBatchTools: the feature executor (FeatureMaterialization), the warm-up *)
(* gate and bundle (WarmupGate, WarmupBundle), the runtime export           *)
(* (RuntimeExport), the object store (ImmutableStore), the local catalog    *)
(* (LocalCatalog), the legacy bootstrap (LegacyBootstrap), the instrument   *)
(* registry (ReferenceRegistry) and the catalog's commands (CatalogApply);  *)
(* the calculators and the quality rules are ComputationProofs'.  The last  *)
(* section shows that all keep their promises while they stand beside the   *)
(* others.                                                                  *)
(***************************************************************************)
EXTENDS MCBatchTools, ComputationProofs

-----------------------------------------------------------------------------
(* Feature series: what the planner sends                                   *)

RunStatus == {"RUNNING", "SUCCEEDED", "FAILED"}
Sources == SUBSET [segment : Segment, rev : 1 .. MaxSourceRevisions]
ExecutorPhase == {"idle", "begun", "compute", "put", "register", "cleanup", "failing",
                  "failed", "finish"}
ExecutorRecord ==
  [phase : ExecutorPhase, cmd : Materialization \cup {NoFeature}, tries : 0 .. MaxTries - 1,
   prev : BOOLEAN, created : BOOLEAN]

FeatureTyped ==
  /\ segments \subseteq Segment /\ revision \in [SourceYear -> 0 .. MaxSourceRevisions]
  /\ \A s \in segments : revision[YearOfSegment[s]] >= 1
  /\ commands \subseteq [cmd : Materialization, tries : 0 .. MaxTries - 1]
  /\ parkedCommands \cup stored \cup registered \subseteq Materialization
  /\ DOMAIN rows \subseteq Materialization
  /\ \A m \in DOMAIN rows : rows[m] \in RunStatus
  /\ \A c \in DOMAIN runs : runs[c] \in [status : RunStatus, input : Sources]
  /\ executor \in [Executor -> ExecutorRecord]
  /\ \A w \in Executor : executor[w].phase = "idle" \/ executor[w].cmd \in Materialization
  /\ \A p \in DOMAIN batches : batches[p] \in {"PENDING", "SUCCEEDED", "FAILED"}
  /\ DOMAIN sealer = Sealer
  /\ \A k \in Sealer : sealer[k] = IdleSealer
                       \/ sealer[k].verdict \in {"PENDING", "SUCCEEDED", "FAILED"}

(* The bar objects of published segments are bar objects.                   *)
LEMMA AuthoritativeTyped ==
  ASSUME FeatureTyped, NEW a \in Segment, NEW b \in Segment, a .. b \subseteq segments
  PROVE  Authoritative(a, b) \in Sources
<1>1. ASSUME NEW s \in a .. b
      PROVE  SourceObject(s) \in [segment : Segment, rev : 1 .. MaxSourceRevisions]
  <2>1. s \in segments /\ s \in Segment
    BY <1>1 DEF FeatureTyped
  <2>2. YearOfSegment[s] \in SourceYear
    BY <2>1 DEF SourceYear
  <2>3. revision[YearOfSegment[s]] \in 0 .. MaxSourceRevisions /\ revision[YearOfSegment[s]] >= 1
    BY <2>1, <2>2 DEF FeatureTyped
  <2>4. MaxSourceRevisions \in Nat
    BY FeatureAssumption
  <2>5. revision[YearOfSegment[s]] \in 1 .. MaxSourceRevisions
    BY <2>3, <2>4
  <2> QED BY <2>1, <2>5 DEF SourceObject
<1> QED BY <1>1 DEF Authoritative, Sources

(* The first and the last segment of a plan are segments.                   *)
LEMMA PlanPeriod ==
  ASSUME FeatureTyped, segments # {}, NEW clampFrom \in ClampStarts
  PROVE  Max({Min(segments), clampFrom}) \in Segment /\ Max(segments) \in Segment
<1>1. Segments \in Nat /\ clampFrom \in Segment /\ segments \subseteq Segment
  BY FeatureAssumption DEF FeatureTyped, Segment
<1>2. segments \in SUBSET Nat /\ segments \in SUBSET (0 .. Segments)
  BY <1>1 DEF Segment
<1>3. Min(segments) \in Segment
  BY <1>1, <1>2, MinIsLeast
<1>4. Max(segments) \in Segment
  BY <1>1, <1>2, MaxIsGreatest
<1>5. {Min(segments), clampFrom} \in SUBSET (0 .. Segments) /\ {Min(segments), clampFrom} # {}
  BY <1>1, <1>3 DEF Segment
<1>6. Max({Min(segments), clampFrom}) \in {Min(segments), clampFrom}
  BY <1>1, <1>5, MaxIsGreatest
<1> QED BY <1>1, <1>3, <1>4, <1>6

(* A chunk of a period lies in it.                                          *)
LEMMA ChunkInPeriod ==
  ASSUME NEW from \in Segment, NEW to \in Segment, NEW c \in Chunks(from, to)
  PROVE  /\ c[1] \in Segment /\ c[2] \in Segment
         /\ c[1] .. c[2] \subseteq from .. to
<1>1. PICK a \in from .. to : c = <<a, Min({a + MaxObjects - 1, to})>>
  BY DEF Chunks
<1>2. Segments \in Nat /\ MaxObjects \in Nat \ {0} /\ from \in Nat /\ to \in Nat
  BY FeatureAssumption DEF Segment
<1>3. a \in Segment /\ a \in Nat /\ a <= to /\ from <= a
  BY <1>1, <1>2 DEF Segment
<1> DEFINE last == Min({a + MaxObjects - 1, to})
<1>4. a + MaxObjects - 1 \in Nat /\ a <= a + MaxObjects - 1
  BY <1>2, <1>3
<1>5. {a + MaxObjects - 1, to} \in SUBSET Nat /\ {a + MaxObjects - 1, to} # {}
  BY <1>2, <1>4
<1>6. last \in {a + MaxObjects - 1, to} /\ last <= to
  BY <1>5, MinIsLeast
<1>7. last \in Nat /\ a <= last /\ last \in Segment
  BY <1>2, <1>3, <1>4, <1>6 DEF Segment
<1>8. c[1] = a /\ c[2] = last
  BY <1>1
<1>9. \A x \in a .. last : x \in from .. to
  BY <1>2, <1>3, <1>6, <1>7
<1> HIDE DEF last
<1> QED BY <1>3, <1>7, <1>8, <1>9

(* What the planner sends are materializations.                             *)
LEMMA PlanTyped ==
  ASSUME FeatureTyped, NEW named \in SUBSET Series, NEW clampFrom \in ClampStarts,
         PlanBackfill(named, clampFrom)
  PROVE  commands' \subseteq [cmd : Materialization, tries : 0 .. MaxTries - 1]
<1> DEFINE from == Max({Min(segments), clampFrom})
           to == Max(segments)
           todo == {s \in named : ~SatisfiedBy(s, from, to)}
           sent == {[series |-> s, from |-> c[1], to |-> c[2],
                     input |-> Authoritative(c[1], c[2])] : s \in todo, c \in Chunks(from, to)}
<1>1. /\ segments # {} /\ ~SourceGap(from, to)
      /\ commands' = commands \cup {[cmd |-> c, tries |-> 0] : c \in sent}
  BY DEF PlanBackfill
<1>2. from \in Segment /\ to \in Segment
  BY <1>1, PlanPeriod
<1>3. from .. to \subseteq segments
  BY <1>1 DEF SourceGap
<1>4. ASSUME NEW s \in todo, NEW c \in Chunks(from, to)
      PROVE  [series |-> s, from |-> c[1], to |-> c[2],
              input |-> Authoritative(c[1], c[2])] \in Materialization
  <2> HIDE DEF from, to
  <2>1. /\ c[1] \in Segment /\ c[2] \in Segment
        /\ c[1] .. c[2] \subseteq from .. to
    BY <1>2, <1>4, ChunkInPeriod
  <2>2. Authoritative(c[1], c[2]) \in Sources
    BY <1>3, <2>1, AuthoritativeTyped
  <2>3. s \in Series
    BY <1>4
  <2> QED BY <2>1, <2>2, <2>3 DEF Materialization, Sources
<1>5. sent \subseteq Materialization
  BY <1>4
<1>6. 0 \in 0 .. MaxTries - 1
  BY FeatureAssumption
<1> HIDE DEF sent
<1> QED BY <1>1, <1>5, <1>6 DEF FeatureTyped

-----------------------------------------------------------------------------
(* Feature series: the types                                                *)

ExecutorsTyped ==
  /\ executor \in [Executor -> ExecutorRecord]
  /\ \A w \in Executor : executor[w].phase = "idle" \/ executor[w].cmd \in Materialization

(* A worker that turns to what it may do next is what a worker may be.      *)
LEMMA ExecutorsStayTyped ==
  ASSUME ExecutorsTyped, NEW w \in Executor, NEW y \in ExecutorRecord,
         y.phase = "idle" \/ y.cmd \in Materialization,
         executor' = [executor EXCEPT ![w] = y]
  PROVE  ExecutorsTyped'
BY DEF ExecutorsTyped

(* What the executor of a step holds before and after it.                   *)
LEMMA TurnTyped ==
  ASSUME ExecutorsTyped, NEW w \in Executor, NEW phase \in ExecutorPhase,
         Turn(w, phase), executor[w].phase # "idle"
  PROVE  /\ executor' = [executor EXCEPT ![w] = [executor[w] EXCEPT !.phase = phase]]
         /\ ExecutorsTyped'
<1> DEFINE y == [executor[w] EXCEPT !.phase = phase]
<1>1. executor[w] \in ExecutorRecord /\ executor[w].cmd \in Materialization
  BY DEF ExecutorsTyped
<1>2. y \in ExecutorRecord /\ y.cmd = executor[w].cmd
  BY <1>1 DEF ExecutorRecord
<1>3. executor' = [executor EXCEPT ![w] = y]
  BY DEF Turn, ExecutorsTyped
<1> HIDE DEF y
<1>4. ExecutorsTyped'
  BY <1>1, <1>2, <1>3, ExecutorsStayTyped
<1> QED BY <1>3, <1>4 DEF y

(* A worker at rest is a worker.                                            *)
LEMMA IdleTyped ==
  IdleExecutor \in ExecutorRecord /\ IdleExecutor.phase = "idle"
<1>1. 0 \in 0 .. MaxTries - 1
  BY FeatureAssumption
<1> QED BY <1>1 DEF IdleExecutor, ExecutorRecord, ExecutorPhase

(* A recorded value is among the values of the record.                      *)
LEMMA RecordTyped ==
  ASSUME NEW f, NEW K, NEW V, NEW key \in K, NEW value \in V,
         DOMAIN f \subseteq K, \A k \in DOMAIN f : f[k] \in V
  PROVE  /\ DOMAIN Record(f, key, value) = DOMAIN f \cup {key}
         /\ DOMAIN Record(f, key, value) \subseteq K
         /\ \A k \in DOMAIN Record(f, key, value) : Record(f, key, value)[k] \in V
         /\ Record(f, key, value)[key] = value
         /\ \A k \in DOMAIN f : k # key => Record(f, key, value)[k] = f[k]
BY DEF Record

RowsTyped ==
  /\ DOMAIN rows \subseteq Materialization
  /\ \A m \in DOMAIN rows : rows[m] \in RunStatus
CommandsTyped == commands \subseteq [cmd : Materialization, tries : 0 .. MaxTries - 1]
RunsTyped == \A c \in DOMAIN runs : runs[c] \in [status : RunStatus, input : Sources]
BatchesTyped ==
  /\ \A p \in DOMAIN batches : batches[p] \in {"PENDING", "SUCCEEDED", "FAILED"}
  /\ DOMAIN sealer = Sealer
  /\ \A k \in Sealer : sealer[k] = IdleSealer
                       \/ sealer[k].verdict \in {"PENDING", "SUCCEEDED", "FAILED"}
StoreTyped == parkedCommands \cup stored \cup registered \subseteq Materialization
SegmentsTyped ==
  /\ segments \subseteq Segment /\ revision \in [SourceYear -> 0 .. MaxSourceRevisions]
  /\ \A s \in segments : revision[YearOfSegment[s]] >= 1

(* The parts of the type invariant.                                         *)
LEMMA TypedParts ==
  FeatureTyped <=> /\ SegmentsTyped /\ CommandsTyped /\ StoreTyped /\ RowsTyped
                   /\ RunsTyped /\ ExecutorsTyped /\ BatchesTyped
BY DEF FeatureTyped, SegmentsTyped, CommandsTyped, StoreTyped, RowsTyped, RunsTyped,
       ExecutorsTyped, BatchesTyped

(* The same of the next state.                                              *)
LEMMA TypedAgain ==
  ASSUME SegmentsTyped', CommandsTyped', StoreTyped', RowsTyped', RunsTyped', ExecutorsTyped',
         BatchesTyped'
  PROVE  FeatureTyped'
BY DEF FeatureTyped, SegmentsTyped, CommandsTyped, StoreTyped, RowsTyped, RunsTyped,
       ExecutorsTyped, BatchesTyped

(* The message of a worker that dies or loses its lease is a message.       *)
LEMMA RedeliveredTyped ==
  ASSUME ExecutorsTyped, CommandsTyped, NEW w \in Executor, Redelivered(w),
         executor[w].phase # "idle"
  PROVE  CommandsTyped'
<1> DEFINE tries == Min({executor[w].tries + 1, MaxTries - 1})
<1>1. executor[w] \in ExecutorRecord /\ executor[w].cmd \in Materialization
      /\ MaxTries \in Nat \ {0}
  BY FeatureAssumption DEF ExecutorsTyped
<1>2. executor[w].tries \in 0 .. MaxTries - 1
  BY <1>1 DEF ExecutorRecord
<1>3. {executor[w].tries + 1, MaxTries - 1} \in SUBSET Nat
      /\ {executor[w].tries + 1, MaxTries - 1} # {}
  BY <1>1, <1>2
<1>4. tries \in {executor[w].tries + 1, MaxTries - 1} /\ tries <= MaxTries - 1
  BY <1>3, MinIsLeast
<1>5. tries \in 0 .. MaxTries - 1
  BY <1>1, <1>2, <1>4
<1>6. commands' = commands \cup {[cmd |-> executor[w].cmd, tries |-> tries]}
  BY DEF Redelivered
<1> HIDE DEF tries
<1> QED BY <1>1, <1>5, <1>6 DEF CommandsTyped

(* Sources that grow or are corrected, and what the planner sends.          *)
LEMMA SourcesStayTyped ==
  ASSUME FeatureTyped,
         \/ \E s \in Segment : SourceGrows(s)
         \/ \E y \in SourceYear : SourceCorrected(y)
         \/ \E named \in SUBSET Series, from \in ClampStarts : PlanBackfill(named, from)
  PROVE  FeatureTyped'
<1>1. ASSUME NEW y \in SourceYear, NewRevision(y)
      PROVE  /\ revision' \in [SourceYear -> 0 .. MaxSourceRevisions]
             /\ revision'[y] >= 1 /\ \A z \in SourceYear : revision'[z] >= revision[z]
             /\ CommandsTyped' /\ StoreTyped' /\ RowsTyped' /\ RunsTyped' /\ ExecutorsTyped'
             /\ BatchesTyped'
  <2>1. revision \in [SourceYear -> 0 .. MaxSourceRevisions] /\ MaxSourceRevisions \in Nat
    BY FeatureAssumption DEF FeatureTyped
  <2>2. /\ revision[y] < MaxSourceRevisions
        /\ revision' = [revision EXCEPT ![y] = @ + 1]
        /\ UNCHANGED <<commands, parkedCommands, runs, rows, stored, registered, executor,
                       batches, sealer>>
    BY <1>1 DEF NewRevision
  <2>3. /\ revision' \in [SourceYear -> 0 .. MaxSourceRevisions]
        /\ revision'[y] >= 1 /\ \A z \in SourceYear : revision'[z] >= revision[z]
    BY <1>1, <2>1, <2>2
  <2>4. /\ CommandsTyped' /\ StoreTyped' /\ RowsTyped' /\ RunsTyped' /\ ExecutorsTyped'
        /\ BatchesTyped'
    BY <2>2, TypedParts DEF CommandsTyped, StoreTyped, RowsTyped, RunsTyped, ExecutorsTyped,
       BatchesTyped
  <2> QED BY <2>3, <2>4
<1>2. \A s \in Segment : YearOfSegment[s] \in SourceYear
  BY DEF SourceYear
<1>3. /\ segments \subseteq Segment /\ \A s \in segments : revision[YearOfSegment[s]] >= 1
      /\ revision \in [SourceYear -> 0 .. MaxSourceRevisions]
  BY DEF FeatureTyped
<1>4. ASSUME NEW s \in Segment, SourceGrows(s) PROVE FeatureTyped'
  <2>1. segments' = segments \cup {s} /\ NewRevision(YearOfSegment[s])
    BY <1>4 DEF SourceGrows
  <2>2. /\ revision' \in [SourceYear -> 0 .. MaxSourceRevisions]
        /\ revision'[YearOfSegment[s]] >= 1
        /\ \A z \in SourceYear : revision'[z] >= revision[z]
        /\ CommandsTyped' /\ StoreTyped' /\ RowsTyped' /\ RunsTyped' /\ ExecutorsTyped'
        /\ BatchesTyped'
    BY <1>1, <1>2, <2>1
  <2>3. ASSUME NEW t \in segments PROVE revision'[YearOfSegment[t]] >= 1
    <3>1. YearOfSegment[t] \in SourceYear /\ revision[YearOfSegment[t]] >= 1
      BY <1>2, <1>3
    <3>2. /\ revision[YearOfSegment[t]] \in 0 .. MaxSourceRevisions
          /\ revision'[YearOfSegment[t]] \in 0 .. MaxSourceRevisions
          /\ MaxSourceRevisions \in Nat
      BY <1>3, <2>2, <3>1, FeatureAssumption
    <3> QED BY <2>2, <3>1, <3>2
  <2>4. SegmentsTyped'
    BY <1>3, <2>1, <2>2, <2>3 DEF SegmentsTyped
  <2> QED BY <2>2, <2>4, TypedAgain
<1>5. ASSUME NEW y \in SourceYear, SourceCorrected(y) PROVE FeatureTyped'
  <2>1. segments' = segments /\ NewRevision(y)
    BY <1>5 DEF SourceCorrected
  <2>2. /\ revision' \in [SourceYear -> 0 .. MaxSourceRevisions]
        /\ \A z \in SourceYear : revision'[z] >= revision[z]
        /\ CommandsTyped' /\ StoreTyped' /\ RowsTyped' /\ RunsTyped' /\ ExecutorsTyped'
        /\ BatchesTyped'
    BY <1>1, <2>1
  <2>3. ASSUME NEW t \in segments PROVE revision'[YearOfSegment[t]] >= 1
    <3>1. YearOfSegment[t] \in SourceYear /\ revision[YearOfSegment[t]] >= 1
      BY <1>2, <1>3
    <3>2. /\ revision[YearOfSegment[t]] \in 0 .. MaxSourceRevisions
          /\ revision'[YearOfSegment[t]] \in 0 .. MaxSourceRevisions
          /\ MaxSourceRevisions \in Nat
      BY <1>3, <2>2, <3>1, FeatureAssumption
    <3> QED BY <2>2, <3>1, <3>2
  <2>4. SegmentsTyped'
    BY <1>3, <2>1, <2>2, <2>3 DEF SegmentsTyped
  <2> QED BY <2>2, <2>4, TypedAgain
<1>6. ASSUME NEW named \in SUBSET Series, NEW from \in ClampStarts, PlanBackfill(named, from)
      PROVE  FeatureTyped'
  <2>1. CommandsTyped'
    BY <1>6, PlanTyped DEF CommandsTyped
  <2>2. UNCHANGED <<segments, revision, parkedCommands, runs, rows, stored, registered, executor,
                    batches, sealer>>
    BY <1>6 DEF PlanBackfill
  <2>3. /\ SegmentsTyped' /\ StoreTyped' /\ RowsTyped' /\ RunsTyped' /\ ExecutorsTyped'
        /\ BatchesTyped'
    BY <2>2, TypedParts DEF SegmentsTyped, StoreTyped, RowsTyped, RunsTyped, ExecutorsTyped,
       BatchesTyped
  <2> QED BY <2>1, <2>3, TypedAgain
<1> QED BY <1>4, <1>5, <1>6

(* A worker that takes a command, or refuses it.                            *)
LEMMA TakingStaysTyped ==
  ASSUME FeatureTyped, NEW w \in Executor, NEW m \in commands,
         RefuseSources(w, m) \/ RefuseBytes(w, m) \/ BeginRun(w, m)
  PROVE  FeatureTyped'
<1>1. m.cmd \in Materialization /\ m.tries \in 0 .. MaxTries - 1
      /\ m \in [cmd : Materialization, tries : 0 .. MaxTries - 1]
  BY DEF FeatureTyped
<1>2. CASE RefuseSources(w, m) \/ RefuseBytes(w, m)
  <2>1. /\ commands' = commands \ {m} /\ parkedCommands' = parkedCommands \cup {m.cmd}
        /\ UNCHANGED <<segments, revision, runs, rows, stored, registered, executor, batches,
                       sealer>>
    BY <1>2 DEF RefuseSources, RefuseBytes, RefuseCommand
  <2>2. /\ SegmentsTyped' /\ RowsTyped' /\ RunsTyped' /\ ExecutorsTyped' /\ BatchesTyped'
    BY <2>1, TypedParts DEF SegmentsTyped, RowsTyped, RunsTyped, ExecutorsTyped, BatchesTyped
  <2>3. StoreTyped' /\ CommandsTyped'
    BY <1>1, <2>1, TypedParts DEF StoreTyped, CommandsTyped
  <2> QED BY <2>2, <2>3, TypedAgain
<1>3. CASE BeginRun(w, m)
  <2> DEFINE y == [IdleExecutor EXCEPT !.phase = "begun", !.cmd = m.cmd, !.tries = m.tries]
             r == [status |-> "RUNNING", input |-> m.cmd.input]
  <2>1. /\ commands' = commands \ {m}
        /\ runs' = Record(runs, IdOf(m.cmd), r)
        /\ executor' = [executor EXCEPT ![w] = y]
        /\ UNCHANGED <<segments, revision, parkedCommands, rows, stored, registered, batches,
                       sealer>>
    BY <1>3 DEF BeginRun
  <2>2. y \in ExecutorRecord /\ y.cmd \in Materialization
    BY <1>1 DEF IdleExecutor, ExecutorRecord, ExecutorPhase
  <2>3. r \in [status : RunStatus, input : Sources]
    BY <1>1 DEF Materialization, Sources, RunStatus
  <2> HIDE DEF y, r
  <2>4. ExecutorsTyped'
    BY <2>1, <2>2, TypedParts, ExecutorsStayTyped
  <2>5. RunsTyped'
    BY <2>1, <2>3, TypedParts DEF RunsTyped, Record
  <2>6. /\ SegmentsTyped' /\ RowsTyped' /\ StoreTyped' /\ BatchesTyped' /\ CommandsTyped'
    BY <2>1, TypedParts DEF SegmentsTyped, RowsTyped, StoreTyped, BatchesTyped, CommandsTyped
  <2> QED BY <2>4, <2>5, <2>6, TypedAgain
<1> QED BY <1>2, <1>3

(* A worker at a materialization, up to the end of its run.                 *)
LEMMA WorkingStaysTyped ==
  ASSUME FeatureTyped, NEW w \in Executor,
         \/ StartMaterialization(w) \/ ComputeSeries(w) \/ PutSeries(w) \/ PutSeriesFails(w)
         \/ ConfirmPublication(w) \/ RegisterSeries(w) \/ RegisterFails(w) \/ CleanUp(w)
         \/ RecordFailure(w)
  PROVE  FeatureTyped'
<1> DEFINE x == executor[w]
           m == executor[w].cmd
<1>1. ExecutorsTyped /\ RowsTyped /\ StoreTyped /\ x \in ExecutorRecord
  BY TypedParts DEF ExecutorsTyped
<1>2. executor[w].phase # "idle"
  BY DEF StartMaterialization, ComputeSeries, PutSeries, PutSeriesFails, ConfirmPublication,
     RegisterSeries, RegisterFails, CleanUp, RecordFailure, InPhase
<1>3. m \in Materialization
  BY <1>1, <1>2 DEF ExecutorsTyped
<1>4. \A value \in RunStatus : rows' = Record(rows, m, value) => RowsTyped'
  <2> SUFFICES ASSUME NEW value \in RunStatus, rows' = Record(rows, m, value) PROVE RowsTyped'
    OBVIOUS
  <2> HIDE DEF m
  <2>1. DOMAIN rows \subseteq Materialization /\ \A k \in DOMAIN rows : rows[k] \in RunStatus
    BY <1>1 DEF RowsTyped
  <2>2. /\ DOMAIN Record(rows, m, value) \subseteq Materialization
        /\ \A k \in DOMAIN Record(rows, m, value) : Record(rows, m, value)[k] \in RunStatus
    BY <1>3, <2>1, RecordTyped
  <2> QED BY <2>2 DEF RowsTyped
<1>5. rows' = rows => RowsTyped'
  BY <1>1 DEF RowsTyped
<1>6. UNCHANGED <<segments, revision, commands, parkedCommands, runs, batches, sealer>>
  BY DEF StartMaterialization, ComputeSeries, PutSeries, PutSeriesFails, ConfirmPublication,
     RegisterSeries, RegisterFails, CleanUp, RecordFailure
<1>7. SegmentsTyped' /\ CommandsTyped' /\ RunsTyped' /\ BatchesTyped'
  BY <1>6, TypedParts DEF SegmentsTyped, CommandsTyped, RunsTyped, BatchesTyped
<1>8. \/ stored' = stored \/ stored' = stored \cup {m} \/ stored' = stored \ {m}
  BY DEF StartMaterialization, ComputeSeries, PutSeries, PutSeriesFails, ConfirmPublication,
     RegisterSeries, RegisterFails, CleanUp, RecordFailure
<1>9. \/ registered' = registered \/ registered' = registered \cup {m}
  BY DEF StartMaterialization, ComputeSeries, PutSeries, PutSeriesFails, ConfirmPublication,
     RegisterSeries, RegisterFails, CleanUp, RecordFailure
<1>10. StoreTyped'
  BY <1>1, <1>3, <1>6, <1>8, <1>9 DEF StoreTyped
<1>11. \/ rows' = rows \/ \E value \in RunStatus : rows' = Record(rows, m, value)
  BY DEF StartMaterialization, ComputeSeries, PutSeries, PutSeriesFails, ConfirmPublication,
     RegisterSeries, RegisterFails, CleanUp, RecordFailure, RunStatus
<1>12. RowsTyped'
  BY <1>4, <1>5, <1>11
<1>13. CASE \E phase \in ExecutorPhase : Turn(w, phase)
  <2>1. ExecutorsTyped'
    BY <1>1, <1>2, <1>13, TurnTyped
  <2> QED BY <1>7, <1>10, <1>12, <2>1, TypedAgain
<1>14. CASE StartMaterialization(w)
  <2> DEFINE y == [x EXCEPT !.phase = "compute", !.prev = PreviousSuccess(m)]
  <2>1. PreviousSuccess(m) \in BOOLEAN
    BY DEF PreviousSuccess
  <2>2. executor' = [executor EXCEPT ![w] = y]
    BY <1>1, <1>14 DEF StartMaterialization, ExecutorsTyped
  <2>3. y \in ExecutorRecord /\ y.cmd \in Materialization
    BY <1>1, <1>3, <2>1 DEF ExecutorRecord, ExecutorPhase
  <2> HIDE DEF y
  <2>4. ExecutorsTyped'
    BY <1>1, <2>2, <2>3, ExecutorsStayTyped
  <2> QED BY <1>7, <1>10, <1>12, <2>4, TypedAgain
<1>15. CASE PutSeries(w)
  <2> DEFINE y == [x EXCEPT !.phase = "register", !.created = m \notin stored]
  <2>2. executor' = [executor EXCEPT ![w] = y]
    BY <1>1, <1>15 DEF PutSeries, ExecutorsTyped
  <2>3. y \in ExecutorRecord /\ y.cmd \in Materialization
    BY <1>1, <1>3 DEF ExecutorRecord, ExecutorPhase
  <2> HIDE DEF y
  <2>4. ExecutorsTyped'
    BY <1>1, <2>2, <2>3, ExecutorsStayTyped
  <2> QED BY <1>7, <1>10, <1>12, <2>4, TypedAgain
<1>16. ~StartMaterialization(w) /\ ~PutSeries(w) => \E phase \in ExecutorPhase : Turn(w, phase)
  BY DEF ComputeSeries, PutSeriesFails, ConfirmPublication, RegisterSeries, RegisterFails,
     CleanUp, RecordFailure, ExecutorPhase
<1> QED BY <1>13, <1>14, <1>15, <1>16

(* The end of a run, and a worker that dies or loses its lease.             *)
LEMMA EndingStaysTyped ==
  ASSUME FeatureTyped, NEW w \in Executor,
         FinishSeries(w) \/ FailRun(w) \/ ExecutorDies(w) \/ LeaseLost(w)
  PROVE  FeatureTyped'
<1>1. /\ ExecutorsTyped /\ RunsTyped /\ CommandsTyped /\ StoreTyped
      /\ executor[w] \in ExecutorRecord
  BY TypedParts DEF ExecutorsTyped
<1>2. executor[w].phase # "idle"
  BY DEF FinishSeries, FailRun, ExecutorDies, LeaseLost, InPhase
<1>3. executor[w].cmd \in Materialization
  BY <1>1, <1>2 DEF ExecutorsTyped
<1>4. UNCHANGED <<segments, revision, rows, stored, registered, batches, sealer>>
  BY DEF FinishSeries, FailRun, ExecutorDies, LeaseLost, CloseRun
<1>5. SegmentsTyped' /\ RowsTyped' /\ BatchesTyped'
  BY <1>4, TypedParts DEF SegmentsTyped, RowsTyped, BatchesTyped
<1>6. executor' = executor \/ executor' = [executor EXCEPT ![w] = IdleExecutor]
  BY DEF FinishSeries, FailRun, ExecutorDies, LeaseLost, CloseRun
<1>7. ExecutorsTyped'
  <2>1. CASE executor' = executor
    BY <1>1, <2>1 DEF ExecutorsTyped
  <2>2. CASE executor' = [executor EXCEPT ![w] = IdleExecutor]
    BY <1>1, <2>2, IdleTyped, ExecutorsStayTyped
  <2> QED BY <1>6, <2>1, <2>2
<1>8. RunsTyped'
  <2>1. \/ runs' = runs
        \/ \E status \in RunStatus :
             runs' = [runs EXCEPT ![IdOf(executor[w].cmd)].status = status]
    BY DEF FinishSeries, FailRun, ExecutorDies, LeaseLost, CloseRun, RunStatus
  <2>2. CASE runs' = runs
    BY <1>1, <2>2 DEF RunsTyped
  <2>3. ASSUME NEW status \in RunStatus,
               runs' = [runs EXCEPT ![IdOf(executor[w].cmd)].status = status]
        PROVE  RunsTyped'
    BY <1>1, <2>3 DEF RunsTyped
  <2> QED BY <2>1, <2>2, <2>3
<1>9. CASE ExecutorDies(w) \/ LeaseLost(w)
  <2>1. Redelivered(w) /\ parkedCommands' = parkedCommands
    BY <1>9 DEF ExecutorDies, LeaseLost
  <2>2. CommandsTyped'
    BY <1>1, <1>2, <2>1, RedeliveredTyped
  <2>3. StoreTyped'
    BY <1>1, <1>4, <2>1 DEF StoreTyped
  <2> QED BY <1>5, <1>7, <1>8, <2>2, <2>3, TypedAgain
<1>10. CASE FinishSeries(w)
  <2>1. CommandsTyped' /\ StoreTyped'
    BY <1>1, <1>4, <1>10 DEF FinishSeries, CommandsTyped, StoreTyped
  <2> QED BY <1>5, <1>7, <1>8, <2>1, TypedAgain
<1>11. CASE FailRun(w)
  <2> DEFINE tries == executor[w].tries + 1
  <2>1. \/ /\ tries < MaxTries /\ parkedCommands' = parkedCommands
           /\ commands' = commands \cup {[cmd |-> executor[w].cmd, tries |-> tries]}
        \/ /\ parkedCommands' = parkedCommands \cup {executor[w].cmd} /\ commands' = commands
    BY <1>11 DEF FailRun
  <2>2. tries \in Nat /\ MaxTries \in Nat
    BY <1>1, FeatureAssumption DEF ExecutorRecord
  <2>3. tries < MaxTries => tries \in 0 .. MaxTries - 1
    BY <2>2
  <2> HIDE DEF tries
  <2>4. CommandsTyped'
    BY <1>1, <1>3, <2>1, <2>3 DEF CommandsTyped
  <2>5. StoreTyped'
    BY <1>1, <1>3, <1>4, <2>1 DEF StoreTyped
  <2> QED BY <1>5, <1>7, <1>8, <2>4, <2>5, TypedAgain
<1> QED BY <1>9, <1>10, <1>11

(* The snapshot batches.                                                    *)
LEMMA BatchesStayTyped ==
  ASSUME FeatureTyped,
         \/ \E from \in ClampStarts : OpenBatch(from)
         \/ \E k \in Sealer : SealWrites(k) \/ \E b \in DOMAIN batches : SealReads(k, b)
  PROVE  FeatureTyped'
<1>1. BatchesTyped
  BY TypedParts
<1>2. UNCHANGED <<segments, revision, commands, parkedCommands, runs, rows, stored, registered,
                  executor>>
  BY DEF OpenBatch, SealWrites, SealReads
<1>3. /\ SegmentsTyped' /\ CommandsTyped' /\ StoreTyped' /\ RowsTyped' /\ RunsTyped'
      /\ ExecutorsTyped'
  BY <1>2, TypedParts DEF SegmentsTyped, CommandsTyped, StoreTyped, RowsTyped, RunsTyped,
     ExecutorsTyped
<1>4. ASSUME NEW from \in ClampStarts, OpenBatch(from) PROVE BatchesTyped'
  BY <1>1, <1>4 DEF OpenBatch, BatchesTyped, Record
<1>5. ASSUME NEW k \in Sealer, SealWrites(k) PROVE BatchesTyped'
  <2>1. /\ sealer[k].verdict \in {"PENDING", "SUCCEEDED", "FAILED"}
        /\ batches' = [batches EXCEPT ![sealer[k].plan] = sealer[k].verdict]
        /\ sealer' = [sealer EXCEPT ![k] = IdleSealer]
    BY <1>1, <1>5 DEF SealWrites, BatchesTyped
  <2> QED BY <1>1, <2>1 DEF BatchesTyped
<1>6. ASSUME NEW k \in Sealer, NEW b \in DOMAIN batches, SealReads(k, b)
      PROVE  BatchesTyped'
  <2>1. BatchVerdict(b) \in {"PENDING", "SUCCEEDED", "FAILED"}
    BY DEF BatchVerdict
  <2>2. PICK y : /\ y.verdict = BatchVerdict(b)
                 /\ sealer' = [sealer EXCEPT ![k] = y] /\ batches' = batches
    BY <1>6 DEF SealReads
  <2> QED BY <1>1, <2>1, <2>2 DEF BatchesTyped
<1> QED BY <1>3, <1>4, <1>5, <1>6, TypedAgain

(* The types are kept by every step.                                        *)
LEMMA FeatureTypedStep ==
  ASSUME FeatureTyped, [FeatureNext]_featureVars
  PROVE  FeatureTyped'
<1>1. CASE UNCHANGED featureVars
  BY <1>1 DEF featureVars, FeatureTyped
<1>2. ASSUME NEW w \in Executor, Executing(w) \/ PutSeriesFails(w) \/ ExecutorDies(w) \/ LeaseLost(w)
      PROVE  FeatureTyped'
  BY <1>2, TakingStaysTyped, WorkingStaysTyped, EndingStaysTyped DEF Executing
<1> QED BY <1>1, <1>2, SourcesStayTyped, BatchesStayTyped DEF FeatureNext

(* The first state is of these types.                                       *)
LEMMA FeatureTypedInit ==
  FeatureInit => FeatureTyped
<1> SUFFICES ASSUME FeatureInit PROVE FeatureTyped
  OBVIOUS
<1>1. MaxSourceRevisions \in Nat \ {0} /\ LoadedSegments \subseteq Segment
  BY FeatureAssumption DEF Segment
<1>2. SegmentsTyped
  BY <1>1 DEF FeatureInit, SegmentsTyped, SourceYear
<1>3. ExecutorsTyped
  BY IdleTyped DEF FeatureInit, ExecutorsTyped
<1>4. BatchesTyped /\ RowsTyped /\ RunsTyped
  BY DEF FeatureInit, BatchesTyped, RowsTyped, RunsTyped
<1>5. StoreTyped /\ CommandsTyped
  BY DEF FeatureInit, StoreTyped, CommandsTyped
<1> QED BY <1>2, <1>3, <1>4, <1>5, TypedParts

(* The feature tables, the queue, the store and every worker's memory keep  *)
(* their types, for any series, segments and workers.                       *)
THEOREM FeatureTypeCorrect == FeatureSpec => []FeatureTypeOK
<1>1. FeatureTyped => FeatureTypeOK
  BY DEF FeatureTyped, FeatureTypeOK, RunStatus, InPhase
<1> QED BY <1>1, FeatureTypedInit, FeatureTypedStep, PTL DEF FeatureSpec

-----------------------------------------------------------------------------
(* Feature series: what is recorded stays readable                          *)

(* MATERIALIZE_FEATURE_OUTPUT is not claimed (apps/pipeline_worker/         *)
(* worker.py): nothing but the lease of its message keeps two workers from  *)
(* one command.  As long as no two of them are at the same command, what is *)
(* recorded stays readable; deliveries may come again at any time.          *)
AtCommand(w) == executor[w].phase # "idle"
CommandsApart ==
  \A v, w \in Executor :
    (v # w /\ AtCommand(v) /\ AtCommand(w)) => executor[v].cmd # executor[w].cmd
OneExecutor == \A v, w \in Executor : v = w

LongEnough(m) == m.to - m.from + 1 >= NeededSegments
Succeeded(m) == m \in DOMAIN rows /\ rows[m] = "SUCCEEDED"

RowsBacked == \A m \in DOMAIN rows : rows[m] = "SUCCEEDED" => m \in registered
RegisteredBacked ==
  \A m \in registered :
    /\ m \in stored /\ Succeeded(m) /\ LongEnough(m)
    /\ \A o \in registered : o # m => ~SameKey(m, o)

(* What a worker that was killed here, or goes on, cannot do: delete, or    *)
(* record FAILED, what is registered.                                       *)
ExecutorSound(x) ==
  /\ x.phase = "begun" => ~x.prev
  /\ x.phase \in {"compute", "put", "register"} => (x.prev <=> x.cmd \in registered)
  /\ x.phase \in {"cleanup", "failing"} => ~x.prev /\ x.cmd \notin registered
  /\ x.phase \in {"put", "register"} => LongEnough(x.cmd)
  /\ x.phase = "register" => x.cmd \in stored
ExecutorsSound == \A w \in Executor : ExecutorSound(executor[w])

SealsBacked ==
  /\ \A p \in DOMAIN batches : batches[p] = "SUCCEEDED" => Members(p) \subseteq registered
  /\ \A k \in Sealer : sealer[k].verdict = "SUCCEEDED" => Members(sealer[k].plan) \subseteq registered

SeriesInv == FeatureTyped /\ RowsBacked /\ RegisteredBacked /\ ExecutorsSound /\ SealsBacked

(* The step of a worker leaves the materializations of the others alone.    *)
OnlyOf(w) ==
  \A c : (c # executor[w].cmd \/ ~AtCommand(w)) =>
           (c \in registered' <=> c \in registered) /\ (c \in stored => c \in stored')

(* So the others stay sound if the one that moves does.                     *)
LEMMA OthersStaySound ==
  ASSUME CommandsApart, ExecutorsSound, FeatureTyped, NEW w \in Executor, NEW y,
         executor' = [executor EXCEPT ![w] = y], ExecutorSound(y)', OnlyOf(w)
  PROVE  ExecutorsSound'
<1>1. ASSUME NEW v \in Executor PROVE ExecutorSound(executor[v])'
  <2>1. CASE v = w
    <3>1. executor'[v] = y
      BY <2>1 DEF FeatureTyped
    <3> QED BY <3>1 DEF ExecutorSound
  <2>2. CASE v # w
    <3>1. executor'[v] = executor[v] /\ ExecutorSound(executor[v])
      BY <1>1, <2>2 DEF FeatureTyped, ExecutorsSound
    <3>2. CASE executor[v].phase = "idle"
      BY <3>1, <3>2 DEF ExecutorSound
    <3>3. CASE executor[v].phase # "idle"
      <4>1. executor[v].cmd # executor[w].cmd \/ ~AtCommand(w)
        BY <1>1, <2>2, <3>3 DEF CommandsApart, AtCommand
      <4>2. /\ executor[v].cmd \in registered' <=> executor[v].cmd \in registered
            /\ executor[v].cmd \in stored => executor[v].cmd \in stored'
        BY <4>1 DEF OnlyOf
      <4> QED BY <3>1, <4>2 DEF ExecutorSound, LongEnough
    <3> QED BY <3>2, <3>3
  <2> QED BY <2>1, <2>2
<1> QED BY <1>1 DEF ExecutorsSound

(* What is neither registered, recorded nor deleted keeps its backing.      *)
LEMMA BackingKept ==
  ASSUME RowsBacked, RegisteredBacked, SealsBacked, UNCHANGED <<rows, stored, registered>>
  PROVE  /\ RowsBacked' /\ RegisteredBacked'
         /\ UNCHANGED <<batches, sealer>> => SealsBacked'
BY DEF RowsBacked, RegisteredBacked, SealsBacked, Succeeded, LongEnough, SameKey

(* A row of a series that is not registered says anything but SUCCEEDED.    *)
LEMMA OtherRowRecorded ==
  ASSUME FeatureTyped, RowsBacked, RegisteredBacked, SealsBacked,
         NEW m \in Materialization, m \notin registered,
         NEW value \in {"RUNNING", "FAILED"}, rows' = Record(rows, m, value),
         UNCHANGED <<stored, registered, batches, sealer>>
  PROVE  RowsBacked' /\ RegisteredBacked' /\ SealsBacked'
<1>1. /\ DOMAIN rows' = DOMAIN rows \cup {m} /\ rows'[m] = value
      /\ \A k \in DOMAIN rows : k # m => rows'[k] = rows[k]
  BY DEF Record
<1>2. RowsBacked'
  BY <1>1 DEF RowsBacked
<1>3. RegisteredBacked'
  BY <1>1 DEF RegisteredBacked, Succeeded, LongEnough, SameKey
<1>4. SealsBacked'
  BY DEF SealsBacked
<1> QED BY <1>2, <1>3, <1>4

(* The worker that takes a materialization and computes it.                 *)
LEMMA StartingKeepsSeries ==
  ASSUME CommandsApart, SeriesInv, NEW w \in Executor,
         StartMaterialization(w) \/ ComputeSeries(w)
  PROVE  RowsBacked' /\ RegisteredBacked' /\ ExecutorsSound' /\ SealsBacked'
<1> DEFINE x == executor[w]
           m == executor[w].cmd
<1>1. /\ x \in ExecutorRecord /\ ExecutorSound(x) /\ FeatureTyped /\ RowsBacked
      /\ RegisteredBacked /\ SealsBacked /\ executor = [v \in Executor |-> executor[v]]
      /\ ExecutorsSound /\ CommandsApart
  BY DEF SeriesInv, ExecutorsSound, FeatureTyped
<1>9. OnlyOf(w)
  BY DEF OnlyOf, AtCommand, InPhase, StartMaterialization, ComputeSeries
<1>2. x.phase # "idle" /\ m \in Materialization
  BY <1>1 DEF StartMaterialization, ComputeSeries, InPhase, FeatureTyped
<1>3. UNCHANGED <<stored, registered, batches, sealer>>
  BY DEF StartMaterialization, ComputeSeries
<1>4. CASE StartMaterialization(w)
  <2> DEFINE next == [x EXCEPT !.phase = "compute", !.prev = PreviousSuccess(m)]
  <2>1. /\ executor' = [executor EXCEPT ![w] = next]
        /\ rows' = IF PreviousSuccess(m) THEN rows ELSE Record(rows, m, "RUNNING")
    BY <1>1, <1>4 DEF StartMaterialization
  <2>2. PreviousSuccess(m) <=> m \in registered
    BY <1>1 DEF PreviousSuccess, RecordOf, RowsBacked, RegisteredBacked, Succeeded
  <2>3. next.phase = "compute" /\ next.cmd = m /\ next.prev = PreviousSuccess(m)
    BY <1>1 DEF ExecutorRecord
  <2> HIDE DEF next, m
  <2>9. PICK y : y = next
    OBVIOUS
  <2>4. ExecutorSound(y)'
    BY <1>3, <2>2, <2>3, <2>9 DEF ExecutorSound
  <2>5. ExecutorsSound'
    BY <1>1, <2>1, <2>4, <2>9, <1>9, OthersStaySound
  <2>6. RowsBacked' /\ RegisteredBacked' /\ SealsBacked'
    <3>1. CASE PreviousSuccess(m)
      BY <1>1, <1>3, <2>1, <3>1, BackingKept
    <3>2. CASE ~PreviousSuccess(m)
      BY <1>1, <1>2, <1>3, <2>1, <2>2, <3>2, OtherRowRecorded
    <3> QED BY <3>1, <3>2
  <2> QED BY <2>5, <2>6
<1>5. CASE ComputeSeries(w)
  <2> DEFINE phase == IF LongEnough(m) THEN "put" ELSE "failed"
             next == [x EXCEPT !.phase = phase]
  <2>1. /\ x.phase = "compute" /\ Turn(w, phase)
        /\ rows' = IF LongEnough(m) THEN rows ELSE Record(rows, m, "FAILED")
    BY <1>5 DEF ComputeSeries, InPhase, LongEnough
  <2>2. executor' = [executor EXCEPT ![w] = next]
    BY <1>1, <2>1 DEF Turn
  <2>3. next.phase = phase /\ next.cmd = m /\ next.prev = x.prev
    BY <1>1 DEF ExecutorRecord
  <2>4. x.prev <=> m \in registered
    BY <1>1, <2>1 DEF ExecutorSound
  <2>5. ~LongEnough(m) => m \notin registered
    BY <1>1 DEF RegisteredBacked
  <2> HIDE DEF next
  <2>9. PICK y : y = next
    OBVIOUS
  <2>6. ExecutorSound(y)'
    BY <1>3, <2>3, <2>4, <2>9 DEF ExecutorSound, LongEnough
  <2>7. ExecutorsSound'
    BY <1>1, <2>2, <2>6, <2>9, <1>9, OthersStaySound
  <2> HIDE DEF m
  <2>8. RowsBacked' /\ RegisteredBacked' /\ SealsBacked'
    <3>1. CASE LongEnough(m)
      BY <1>1, <1>3, <2>1, <3>1, BackingKept
    <3>2. CASE ~LongEnough(m)
      BY <1>1, <1>2, <1>3, <2>1, <2>5, <3>2, OtherRowRecorded
    <3> QED BY <3>1, <3>2
  <2> QED BY <2>7, <2>8
<1> QED BY <1>4, <1>5

(* Its put, and the cleanup of what it created.                             *)
LEMMA StoringKeepsSeries ==
  ASSUME CommandsApart, SeriesInv, NEW w \in Executor,
         PutSeries(w) \/ PutSeriesFails(w) \/ CleanUp(w) \/ RecordFailure(w)
  PROVE  RowsBacked' /\ RegisteredBacked' /\ ExecutorsSound' /\ SealsBacked'
<1> DEFINE x == executor[w]
           m == executor[w].cmd
<1>1. /\ x \in ExecutorRecord /\ ExecutorSound(x) /\ FeatureTyped /\ RowsBacked
      /\ RegisteredBacked /\ SealsBacked /\ executor = [v \in Executor |-> executor[v]]
      /\ ExecutorsSound /\ CommandsApart
  BY DEF SeriesInv, ExecutorsSound, FeatureTyped
<1>9. OnlyOf(w)
  BY DEF OnlyOf, AtCommand, InPhase, PutSeries, PutSeriesFails, CleanUp, RecordFailure
<1>2. x.phase # "idle" /\ m \in Materialization
  BY <1>1 DEF PutSeries, PutSeriesFails, CleanUp, RecordFailure, InPhase, FeatureTyped
<1>3. UNCHANGED <<registered, batches, sealer>>
  BY DEF PutSeries, PutSeriesFails, CleanUp, RecordFailure
<1>4. SealsBacked'
  BY <1>1, <1>3 DEF SealsBacked
<1>5. CASE PutSeries(w)
  <2> DEFINE next == [x EXCEPT !.phase = "register", !.created = m \notin stored]
  <2>1. /\ executor' = [executor EXCEPT ![w] = next] /\ x.phase = "put"
        /\ rows' = rows /\ stored' = stored \cup {m}
    BY <1>1, <1>5 DEF PutSeries, InPhase
  <2>2. next.phase = "register" /\ next.cmd = m /\ next.prev = x.prev
    BY <1>1 DEF ExecutorRecord
  <2>3. (x.prev <=> m \in registered) /\ LongEnough(m)
    BY <1>1, <2>1 DEF ExecutorSound
  <2> HIDE DEF next, m
  <2>9. PICK y : y = next
    OBVIOUS
  <2>4. ExecutorSound(y)'
    BY <1>3, <2>1, <2>2, <2>3, <2>9 DEF ExecutorSound, LongEnough
  <2>5. ExecutorsSound'
    BY <1>1, <2>1, <2>4, <2>9, <1>9, OthersStaySound
  <2>6. RowsBacked' /\ RegisteredBacked'
    BY <1>1, <1>3, <2>1 DEF RowsBacked, RegisteredBacked, Succeeded, LongEnough, SameKey
  <2> QED BY <1>4, <2>5, <2>6
<1>6. CASE PutSeriesFails(w)
  <2> DEFINE phase == IF x.prev THEN "failed" ELSE "failing"
             next == [x EXCEPT !.phase = phase]
  <2>1. executor' = [executor EXCEPT ![w] = next] /\ x.phase = "put" /\ UNCHANGED <<rows, stored>>
    BY <1>1, <1>6 DEF PutSeriesFails, InPhase, Turn
  <2>2. next.phase = phase /\ next.cmd = m /\ next.prev = x.prev
    BY <1>1 DEF ExecutorRecord
  <2>3. x.prev <=> m \in registered
    BY <1>1, <2>1 DEF ExecutorSound
  <2> HIDE DEF next
  <2>9. PICK y : y = next
    OBVIOUS
  <2>4. ExecutorSound(y)'
    BY <1>3, <2>2, <2>3, <2>9 DEF ExecutorSound
  <2>5. ExecutorsSound'
    BY <1>1, <2>1, <2>4, <2>9, <1>9, OthersStaySound
  <2> QED BY <1>1, <1>3, <1>4, <2>1, <2>5, BackingKept
<1>7. CASE CleanUp(w)
  <2> DEFINE phase == IF x.prev THEN "failed" ELSE "failing"
             next == [x EXCEPT !.phase = phase]
  <2>1. /\ executor' = [executor EXCEPT ![w] = next] /\ x.phase = "cleanup" /\ rows' = rows
        /\ stored' = stored \/ stored' = stored \ {m}
    BY <1>1, <1>7 DEF CleanUp, InPhase, Turn
  <2>2. next.phase = phase /\ next.cmd = m /\ next.prev = x.prev
    BY <1>1 DEF ExecutorRecord
  <2>3. ~x.prev /\ m \notin registered
    BY <1>1, <2>1 DEF ExecutorSound
  <2> HIDE DEF next
  <2>9. PICK y : y = next
    OBVIOUS
  <2>4. ExecutorSound(y)'
    BY <1>3, <2>2, <2>3, <2>9 DEF ExecutorSound
  <2>5. ExecutorsSound'
    BY <1>1, <2>1, <2>4, <2>9, <1>9, OthersStaySound
  <2>6. RowsBacked' /\ RegisteredBacked'
    BY <1>1, <1>3, <2>1, <2>3 DEF RowsBacked, RegisteredBacked, Succeeded, LongEnough, SameKey
  <2> QED BY <1>4, <2>5, <2>6
<1>8. CASE RecordFailure(w)
  <2> DEFINE next == [x EXCEPT !.phase = "failed"]
  <2>1. /\ executor' = [executor EXCEPT ![w] = next] /\ x.phase = "failing"
        /\ rows' = Record(rows, m, "FAILED") /\ stored' = stored
    BY <1>1, <1>8 DEF RecordFailure, InPhase, Turn
  <2>2. next.phase = "failed" /\ m \notin registered
    BY <1>1, <2>1 DEF ExecutorRecord, ExecutorSound
  <2> HIDE DEF next, m
  <2>9. PICK y : y = next
    OBVIOUS
  <2>3. ExecutorSound(y)'
    BY <2>2, <2>9 DEF ExecutorSound
  <2>4. ExecutorsSound'
    BY <1>1, <2>1, <2>3, <2>9, <1>9, OthersStaySound
  <2>5. RowsBacked' /\ RegisteredBacked'
    BY <1>1, <1>2, <1>3, <2>1, <2>2, OtherRowRecorded
  <2> QED BY <1>4, <2>4, <2>5
<1> QED BY <1>5, <1>6, <1>7, <1>8

(* Its transaction: what it did before is confirmed, a new manifest lists   *)
(* the object that is stored, or nothing is registered.                     *)
LEMMA RegisteringKeepsSeries ==
  ASSUME CommandsApart, SeriesInv, NEW w \in Executor,
         ConfirmPublication(w) \/ RegisterSeries(w) \/ RegisterFails(w)
  PROVE  RowsBacked' /\ RegisteredBacked' /\ ExecutorsSound' /\ SealsBacked'
<1> DEFINE x == executor[w]
           m == executor[w].cmd
<1>1. /\ x \in ExecutorRecord /\ ExecutorSound(x) /\ FeatureTyped /\ RowsBacked
      /\ RegisteredBacked /\ SealsBacked /\ executor = [v \in Executor |-> executor[v]]
      /\ ExecutorsSound /\ CommandsApart
  BY DEF SeriesInv, ExecutorsSound, FeatureTyped
<1>9. OnlyOf(w)
  BY DEF OnlyOf, AtCommand, InPhase, ConfirmPublication, RegisterSeries, RegisterFails
<1>2. x.phase = "register" /\ m \in Materialization
  BY <1>1 DEF ConfirmPublication, RegisterSeries, RegisterFails, InPhase, FeatureTyped
<1>3. (x.prev <=> m \in registered) /\ LongEnough(m) /\ m \in stored
  BY <1>1, <1>2 DEF ExecutorSound
<1>4. UNCHANGED <<stored, batches, sealer>>
  BY DEF ConfirmPublication, RegisterSeries, RegisterFails
<1>5. CASE ConfirmPublication(w) \/ RegisterFails(w)
  <2> DEFINE phase == IF m \in registered THEN "finish" ELSE "cleanup"
             next == [x EXCEPT !.phase = phase]
  <2>1. executor' = [executor EXCEPT ![w] = next] /\ UNCHANGED <<rows, registered>>
    BY <1>1, <1>3, <1>5 DEF ConfirmPublication, RegisterFails, Turn
  <2>2. next.phase = phase /\ next.cmd = m /\ next.prev = x.prev
    BY <1>1 DEF ExecutorRecord
  <2> HIDE DEF next
  <2>3. PICK y : y = next
    OBVIOUS
  <2>4. ExecutorSound(y)'
    BY <1>3, <2>1, <2>2, <2>3 DEF ExecutorSound
  <2>5. ExecutorsSound'
    BY <1>1, <2>1, <2>3, <2>4, <1>9, OthersStaySound
  <2> QED BY <1>1, <1>4, <2>1, <2>5, BackingKept
<1>6. CASE RegisterSeries(w)
  <2> DEFINE next == [x EXCEPT !.phase = "finish"]
  <2>1. /\ executor' = [executor EXCEPT ![w] = next] /\ Registrable(m)
        /\ registered' = registered \cup {m} /\ rows' = Record(rows, m, "SUCCEEDED")
    BY <1>1, <1>6 DEF RegisterSeries, Turn
  <2>2. next.phase = "finish"
    BY <1>1 DEF ExecutorRecord
  <2> HIDE DEF next, m
  <2>3. PICK y : y = next
    OBVIOUS
  <2>4. ExecutorSound(y)'
    BY <2>2, <2>3 DEF ExecutorSound
  <2>5. ExecutorsSound'
    BY <1>1, <2>1, <2>3, <2>4, <1>9, OthersStaySound
  <2>6. /\ DOMAIN rows' = DOMAIN rows \cup {m} /\ rows'[m] = "SUCCEEDED"
        /\ \A k \in DOMAIN rows : k # m => rows'[k] = rows[k]
    BY <2>1 DEF Record
  <2>7. RowsBacked'
    BY <1>1, <2>1, <2>6 DEF RowsBacked
  <2>8. \A o \in registered : ~SameKey(m, o) /\ ~SameKey(o, m)
    BY <2>1 DEF Registrable, SameKey
  <2>9. ASSUME NEW k \in registered'
        PROVE  /\ k \in stored' /\ Succeeded(k)' /\ LongEnough(k)
               /\ \A o \in registered' : o # k => ~SameKey(k, o)
    BY <1>1, <1>3, <1>4, <2>1, <2>6, <2>8 DEF RegisteredBacked, Succeeded
  <2>10. RegisteredBacked'
    BY <2>9 DEF RegisteredBacked, LongEnough, SameKey
  <2>11. SealsBacked'
    BY <1>1, <1>4, <2>1 DEF SealsBacked
  <2> QED BY <2>5, <2>7, <2>10, <2>11
<1> QED BY <1>5, <1>6

(* Taking and ending a command leaves what is recorded alone.               *)
LEMMA TurningKeepsSeries ==
  ASSUME CommandsApart, SeriesInv, NEW w \in Executor,
         \/ \E m \in commands : RefuseSources(w, m) \/ RefuseBytes(w, m) \/ BeginRun(w, m)
         \/ FinishSeries(w) \/ FailRun(w) \/ ExecutorDies(w) \/ LeaseLost(w)
  PROVE  RowsBacked' /\ RegisteredBacked' /\ ExecutorsSound' /\ SealsBacked'
<1>1. FeatureTyped /\ RowsBacked /\ RegisteredBacked /\ SealsBacked /\ ExecutorsSound
  BY DEF SeriesInv
<1>2. UNCHANGED <<rows, stored, registered, batches, sealer>>
  BY DEF RefuseSources, RefuseBytes, RefuseCommand, BeginRun, FinishSeries, FailRun, CloseRun,
     ExecutorDies, LeaseLost
<1>3. RowsBacked' /\ RegisteredBacked' /\ SealsBacked'
  BY <1>1, <1>2, BackingKept
<1>9. OnlyOf(w)
  BY <1>2 DEF OnlyOf
<1>4. \/ executor' = executor
      \/ \E y : /\ executor' = [executor EXCEPT ![w] = y] /\ y.phase \in {"idle", "begun"}
                /\ ~y.prev
  <2>1. ASSUME NEW m \in commands, BeginRun(w, m)
        PROVE  \E y : /\ executor' = [executor EXCEPT ![w] = y]
                      /\ y.phase \in {"idle", "begun"} /\ ~y.prev
    <3> DEFINE y == [IdleExecutor EXCEPT !.phase = "begun", !.cmd = m.cmd, !.tries = m.tries]
    <3>1. executor' = [executor EXCEPT ![w] = y]
      BY <2>1 DEF BeginRun
    <3>2. y.phase = "begun" /\ ~y.prev
      BY DEF IdleExecutor
    <3> QED BY <3>1, <3>2
  <2>2. IdleExecutor.phase = "idle" /\ ~IdleExecutor.prev
    BY DEF IdleExecutor
  <2> QED BY <2>1, <2>2 DEF RefuseSources, RefuseBytes, RefuseCommand, FinishSeries, FailRun,
        CloseRun, ExecutorDies, LeaseLost
<1>5. ExecutorsSound'
  <2>1. CASE executor' = executor
    BY <1>1, <1>2, <2>1 DEF ExecutorsSound, ExecutorSound, LongEnough
  <2>2. ASSUME NEW y, executor' = [executor EXCEPT ![w] = y], y.phase \in {"idle", "begun"},
               ~y.prev
        PROVE  ExecutorsSound'
    <3>1. ExecutorSound(y)'
      BY <2>2 DEF ExecutorSound
    <3> QED BY <1>1, <2>2, <3>1, <1>9, OthersStaySound
  <2> QED BY <1>4, <2>1, <2>2
<1> QED BY <1>3, <1>5

(* A batch is sealed over what its sealer found registered, and what was    *)
(* registered stays so.                                                     *)
LEMMA BatchesKeepSeries ==
  ASSUME SeriesInv,
         \/ \E from \in ClampStarts : OpenBatch(from)
         \/ \E k \in Sealer : SealWrites(k) \/ \E b \in DOMAIN batches : SealReads(k, b)
  PROVE  RowsBacked' /\ RegisteredBacked' /\ ExecutorsSound' /\ SealsBacked'
<1>1. FeatureTyped /\ RowsBacked /\ RegisteredBacked /\ SealsBacked /\ ExecutorsSound
  BY DEF SeriesInv
<1>2. UNCHANGED <<rows, stored, registered, executor>>
  BY DEF OpenBatch, SealWrites, SealReads
<1>3. RowsBacked' /\ RegisteredBacked' /\ ExecutorsSound'
  BY <1>1, <1>2 DEF RowsBacked, RegisteredBacked, ExecutorsSound, ExecutorSound, Succeeded,
     LongEnough, SameKey
<1>4. ASSUME NEW from \in ClampStarts, OpenBatch(from) PROVE SealsBacked'
  <2>1. PICK b : batches' = Record(batches, b, "PENDING") /\ sealer' = sealer
    BY <1>4 DEF OpenBatch
  <2> QED BY <1>1, <1>2, <2>1 DEF Record, SealsBacked, Members
<1>5. ASSUME NEW k \in Sealer, SealWrites(k) PROVE SealsBacked'
  <2>1. PICK b, v :
          /\ b = sealer[k].plan /\ v = sealer[k].verdict
          /\ batches' = [batches EXCEPT ![b] = v]
          /\ sealer' = [sealer EXCEPT ![k] = IdleSealer]
    BY <1>5 DEF SealWrites
  <2>2. v = "SUCCEEDED" => Members(b) \subseteq registered
    BY <1>1, <2>1 DEF SealsBacked
  <2>3. \A p \in DOMAIN batches' : batches'[p] = "SUCCEEDED" => Members(p) \subseteq registered'
    BY <1>1, <1>2, <2>1, <2>2 DEF SealsBacked
  <2>4. IdleSealer.verdict # "SUCCEEDED" /\ DOMAIN sealer = Sealer
    BY <1>1 DEF IdleSealer, FeatureTyped
  <2>5. \A j \in Sealer :
          sealer'[j].verdict = "SUCCEEDED" => Members(sealer'[j].plan) \subseteq registered'
    BY <1>1, <1>2, <2>1, <2>4 DEF SealsBacked
  <2> QED BY <2>3, <2>5 DEF SealsBacked, Members
<1>6. ASSUME NEW k \in Sealer, NEW b \in DOMAIN batches, SealReads(k, b)
      PROVE  SealsBacked'
  <2>1. PICK y : /\ y.plan = b /\ y.verdict = BatchVerdict(b)
                 /\ sealer' = [sealer EXCEPT ![k] = y] /\ batches' = batches
    BY <1>6 DEF SealReads
  <2>2. BatchVerdict(b) = "SUCCEEDED" => Members(b) \subseteq registered
    BY <1>1 DEF BatchVerdict, RecordOf, RowsBacked
  <2>3. DOMAIN sealer = Sealer
    BY <1>1 DEF FeatureTyped
  <2>4. \A j \in Sealer :
          sealer'[j].verdict = "SUCCEEDED" => Members(sealer'[j].plan) \subseteq registered'
    BY <1>1, <1>2, <2>1, <2>2, <2>3 DEF SealsBacked
  <2> QED BY <1>1, <1>2, <2>1, <2>4 DEF SealsBacked, Members
<1> QED BY <1>3, <1>4, <1>5, <1>6

(* Every step keeps it.                                                     *)
LEMMA SeriesInvStep ==
  ASSUME CommandsApart, SeriesInv, [FeatureNext]_featureVars
  PROVE  SeriesInv'
<1>1. FeatureTyped'
  BY FeatureTypedStep DEF SeriesInv
<1>2. ASSUME UNCHANGED <<rows, stored, registered, executor, batches, sealer>>
      PROVE  RowsBacked' /\ RegisteredBacked' /\ ExecutorsSound' /\ SealsBacked'
  BY <1>2 DEF SeriesInv, RowsBacked, RegisteredBacked, ExecutorsSound, ExecutorSound, Succeeded,
     LongEnough, SameKey, SealsBacked, Members
<1>3. CASE UNCHANGED featureVars
  BY <1>1, <1>2, <1>3 DEF featureVars, SeriesInv
<1>4. CASE \/ \E s \in Segment : SourceGrows(s)
           \/ \E y \in SourceYear : SourceCorrected(y)
           \/ \E named \in SUBSET Series, from \in ClampStarts : PlanBackfill(named, from)
  <2>1. ASSUME NEW named \in SUBSET Series, NEW from \in ClampStarts, PlanBackfill(named, from)
        PROVE  UNCHANGED <<rows, stored, registered, executor, batches, sealer>>
    BY <2>1 DEF PlanBackfill
  <2>2. ASSUME NEW y \in SourceYear, NewRevision(y)
        PROVE  UNCHANGED <<rows, stored, registered, executor, batches, sealer>>
    BY <2>2 DEF NewRevision
  <2>3. \A s \in Segment : YearOfSegment[s] \in SourceYear
    BY DEF SourceYear
  <2>4. UNCHANGED <<rows, stored, registered, executor, batches, sealer>>
    BY <1>4, <2>1, <2>2, <2>3 DEF SourceGrows, SourceCorrected
  <2> QED BY <1>1, <1>2, <2>4 DEF SeriesInv
<1>5. ASSUME NEW w \in Executor, Executing(w) \/ PutSeriesFails(w) \/ ExecutorDies(w) \/ LeaseLost(w)
      PROVE  RowsBacked' /\ RegisteredBacked' /\ ExecutorsSound' /\ SealsBacked'
  BY <1>5, StartingKeepsSeries, StoringKeepsSeries, RegisteringKeepsSeries, TurningKeepsSeries
     DEF Executing
<1> QED BY <1>1, <1>3, <1>4, <1>5, BatchesKeepSeries DEF FeatureNext, SeriesInv

(* The first state has nothing recorded.                                    *)
LEMMA SeriesInvInit ==
  FeatureInit => SeriesInv
<1> SUFFICES ASSUME FeatureInit PROVE SeriesInv
  OBVIOUS
<1>1. RowsBacked /\ RegisteredBacked
  BY DEF FeatureInit, RowsBacked, RegisteredBacked
<1>2. ExecutorsSound
  BY DEF FeatureInit, ExecutorsSound, ExecutorSound, IdleExecutor
<1>3. SealsBacked
  BY DEF FeatureInit, SealsBacked, IdleSealer
<1> QED BY <1>1, <1>2, <1>3, FeatureTypedInit DEF SeriesInv

(* While no two workers are at one command, a series recorded SUCCEEDED is  *)
(* listed by its AVAILABLE manifest and its bytes are stored, one manifest  *)
(* of a key is AVAILABLE, and a sealed batch has all its members, wherever  *)
(* a worker is killed and however often a command comes again.              *)
THEOREM SeriesIntactApart == FeatureSpec /\ []CommandsApart => []SeriesIntact
<1>1. SeriesInv => SeriesIntact
  BY DEF SeriesInv, SeriesIntact, RowsBacked, RegisteredBacked, Succeeded, SealsBacked
<1>2. CommandsApart /\ SeriesInv /\ [FeatureNext]_featureVars => SeriesInv'
  BY SeriesInvStep
<1> QED BY <1>1, <1>2, SeriesInvInit, PTL DEF FeatureSpec

(* The same with no hypothesis on the behaviour but that one worker         *)
(* executes feature commands.                                               *)
THEOREM SeriesStayIntact ==
  ASSUME OneExecutor
  PROVE  FeatureSpec => []SeriesIntact
<1>1. CommandsApart
  BY DEF OneExecutor, CommandsApart
<1>2. []CommandsApart
  BY <1>1, PTL
<1> QED BY <1>2, SeriesIntactApart, PTL

-----------------------------------------------------------------------------
(* Warm-up gate: the checks                                                 *)

(* The elements of one sequence after another.                              *)
LEMMA InARow ==
  ASSUME NEW S, NEW D \in Seq(S), NEW W \in Seq(S)
  PROVE  /\ D \o W \in Seq(S) /\ Len(D \o W) = Len(D) + Len(W)
         /\ \A i \in 1 .. Len(D) : (D \o W)[i] = D[i]
         /\ \A i \in 1 .. Len(W) : (D \o W)[Len(D) + i] = W[i]
<1> DEFINE G == D \o W
           m == Len(D)
           n == Len(W)
<1>1. G \in Seq(S) /\ Len(G) = m + n
  BY ConcatProperties
<1>2. \A i \in 1 .. m + n : G[i] = IF i <= m THEN D[i] ELSE W[i - m]
  BY Zenon, ConcatProperties
<1>3. m \in Nat /\ n \in Nat
  BY LenProperties
<1> HIDE DEF G, m, n
<1>4. \A i \in 1 .. m : G[i] = D[i]
  BY <1>2, <1>3
<1>5. ASSUME NEW i \in 1 .. n PROVE G[m + i] = W[i]
  <2>1. m + i \in 1 .. m + n /\ ~(m + i <= m) /\ (m + i) - m = i
    BY <1>3
  <2> QED BY <1>2, <2>1
<1> QED BY <1>1, <1>4, <1>5 DEF G, m, n

(* The eight checks of evaluate, in their order.                            *)
LEMMA ChecksInOrder ==
  ASSUME NEW s, NEW looked
  PROVE  /\ DOMAIN Checks(s, looked) = 1 .. 8
         /\ Checks(s, looked)[2].fails = (Current = 0)
         /\ Checks(s, looked)[3].fails = (Current # 0 /\ MissingShards(s, Current) # {})
         /\ Checks(s, looked)[5].fails = (clock - mark.ingested > FreshnessBudget)
         /\ Checks(s, looked)[6].fails = (mark.at < s)
         /\ Checks(s, looked)[7].fails = (looked = "checked" /\ batch = "unopened")
         /\ Checks(s, looked)[8].fails = (looked = "checked" /\ batch = "open")
         /\ \A k \in 1 .. 8 : Checks(s, looked)[k].reason \in Reason
<1> DEFINE D == DataChecks(s)
           W == WatermarkChecks(s)
           F == FeatureChecks(looked)
           G == D \o W
<1>1. \A k \in 1 .. 3 : D[k].reason \in Reason /\ W[k].reason \in Reason
  BY DEF DataChecks, WatermarkChecks, Reason
<1>2. \A k \in 1 .. 2 : F[k].reason \in Reason
  BY DEF FeatureChecks, Reason
<1>3. /\ D[2].fails = (Current = 0)
      /\ D[3].fails = (Current # 0 /\ MissingShards(s, Current) # {})
  BY DEF DataChecks
<1>4. W[2].fails = (clock - mark.ingested > FreshnessBudget) /\ W[3].fails = (mark.at < s)
  BY DEF WatermarkChecks
<1>5. /\ F[1].fails = (looked = "checked" /\ batch = "unopened")
      /\ F[2].fails = (looked = "checked" /\ batch = "open")
  BY DEF FeatureChecks
<1>6. PICK S : D \in Seq(S) /\ W \in Seq(S) /\ F \in Seq(S)
  <2> DEFINE S == {D[1], D[2], D[3], W[1], W[2], W[3], F[1], F[2]}
  <2>1. D \in Seq(S) /\ W \in Seq(S) /\ F \in Seq(S)
    BY DEF DataChecks, WatermarkChecks, FeatureChecks
  <2> QED BY <2>1
<1>7. Len(D) = 3 /\ Len(W) = 3 /\ Len(F) = 2
  BY DEF DataChecks, WatermarkChecks, FeatureChecks
<1>8. Checks(s, looked) = G \o F
  BY DEF Checks
<1> HIDE DEF D, W, F
<1>9. /\ G \in Seq(S) /\ Len(G) = 6
      /\ \A i \in 1 .. 3 : G[i] = D[i] /\ G[3 + i] = W[i]
  <2>1. /\ G \in Seq(S) /\ Len(G) = Len(D) + Len(W)
        /\ \A i \in 1 .. Len(D) : G[i] = D[i]
        /\ \A i \in 1 .. Len(W) : G[Len(D) + i] = W[i]
    BY <1>6, InARow
  <2> HIDE DEF G
  <2> QED BY <1>7, <2>1
<1> HIDE DEF G
<1>10. /\ G \o F \in Seq(S) /\ Len(G \o F) = 8
       /\ \A i \in 1 .. 6 : (G \o F)[i] = G[i]
       /\ \A i \in 1 .. 2 : (G \o F)[6 + i] = F[i]
  <2> DEFINE H == G \o F
  <2>1. /\ H \in Seq(S) /\ Len(H) = Len(G) + Len(F)
        /\ \A i \in 1 .. Len(G) : H[i] = G[i]
        /\ \A i \in 1 .. Len(F) : H[Len(G) + i] = F[i]
    <3>1. G \in Seq(S) /\ F \in Seq(S)
      BY <1>6, <1>9
    <3> QED BY <3>1, InARow
  <2> HIDE DEF H
  <2>2. /\ H \in Seq(S) /\ Len(H) = 8
        /\ \A i \in 1 .. 6 : H[i] = G[i]
        /\ \A i \in 1 .. 2 : H[6 + i] = F[i]
    BY <1>7, <1>9, <2>1
  <2> QED BY <2>2 DEF H
<1>11. DOMAIN Checks(s, looked) = 1 .. 8
  <2>1. PICK H : H = G \o F
    OBVIOUS
  <2>2. H \in Seq(S) /\ Len(H) = 8
    BY <1>10, <2>1
  <2>3. DOMAIN H = 1 .. 8
    BY <2>2
  <2> QED BY <1>8, <2>1, <2>3
<1>12. /\ \A i \in 1 .. 6 : Checks(s, looked)[i] = G[i]
       /\ \A i \in 1 .. 2 : Checks(s, looked)[6 + i] = F[i]
  BY <1>8, <1>10
<1>13. /\ G[1] = D[1] /\ G[2] = D[2] /\ G[3] = D[3]
       /\ G[3 + 1] = W[1] /\ G[3 + 2] = W[2] /\ G[3 + 3] = W[3]
  BY <1>9
<1>14. /\ Checks(s, looked)[1] = D[1] /\ Checks(s, looked)[2] = D[2] /\ Checks(s, looked)[3] = D[3]
       /\ Checks(s, looked)[4] = W[1] /\ Checks(s, looked)[5] = W[2] /\ Checks(s, looked)[6] = W[3]
  BY <1>12, <1>13
<1>15. Checks(s, looked)[6 + 1] = F[1] /\ Checks(s, looked)[6 + 2] = F[2]
  BY <1>12
<1>16. Checks(s, looked)[7] = F[1] /\ Checks(s, looked)[8] = F[2]
  BY <1>15
<1>17. \A k \in 1 .. 8 : Checks(s, looked)[k].reason \in Reason
  BY <1>1, <1>2, <1>14, <1>16
<1> QED BY <1>3, <1>4, <1>5, <1>11, <1>14, <1>16, <1>17

-----------------------------------------------------------------------------
(* Warm-up gate: what a READY bundle says                                   *)

Covers(s, r) == r \in GateRevision /\ {s} \X GateShard \subseteq Slots(contents[r])
ReadyFor(s, r, looked) ==
  Covers(s, r) /\ mark.at >= s /\ (looked = "checked" => batch = "sealed")

GateInv ==
  /\ WarmupTypeOK
  /\ mark.ingested <= clock
  /\ recorder.phase = "reading" => verdict.rev \in GateRevision
  /\ verdict.state = "READY" =>
       /\ ReadyFor(verdict.session, verdict.rev, verdict.features)
       /\ verdict.at - mark.ingested <= FreshnessBudget
  /\ export.document.state = "READY" =>
       ReadyFor(export.document.session, export.document.rev, export.document.features)
  /\ bundle.state = "READY" => ReadyFor(bundle.session, bundle.rev, bundle.features)
  /\ \A r, q \in On("AVAILABLE") : r = q

(* The current revision is one, or 0.                                       *)
LEMMA CurrentTyped ==
  Current \in GateRevision \cup {0} /\ (Current # 0 => Current \in On("AVAILABLE"))
<1> DEFINE S == On("AVAILABLE")
<1>1. MaxGateRevision \in Nat /\ S \in SUBSET (0 .. MaxGateRevision) /\ S \subseteq GateRevision
  BY WarmupAssumption DEF On, GateRevision
<1>2. S # {} => Max(S) \in S
  BY <1>1, MaxIsGreatest
<1> QED BY <1>1, <1>2 DEF Current, Newest

(* With no check that fails, the current manifest lists every shard of the  *)
(* session, the feed passed it in time and the batch, if looked at, sealed. *)
LEMMA NoCheckFails ==
  ASSUME WarmupTypeOK, NEW s \in Session, NEW looked, Failing(s, looked) = {}
  PROVE  ReadyFor(s, Current, looked) /\ clock - mark.ingested <= FreshnessBudget
<1>1. \A k \in 1 .. 8 : ~Checks(s, looked)[k].fails
  BY ChecksInOrder DEF Failing
<1>2. /\ ~Checks(s, looked)[2].fails /\ ~Checks(s, looked)[3].fails /\ ~Checks(s, looked)[5].fails
      /\ ~Checks(s, looked)[6].fails /\ ~Checks(s, looked)[7].fails /\ ~Checks(s, looked)[8].fails
  BY <1>1
<1>3. /\ Current # 0 /\ MissingShards(s, Current) = {}
      /\ ~(clock - mark.ingested > FreshnessBudget) /\ ~(mark.at < s)
      /\ looked = "checked" => batch # "unopened" /\ batch # "open"
  BY <1>2, ChecksInOrder
<1>4. Current \in GateRevision
  BY <1>3, CurrentTyped
<1>5. ASSUME NEW g \in GateShard PROVE <<s, g>> \in Slots(contents[Current])
  <2>1. g \in {o[2][2] : o \in {x \in contents[Current] : SessionOf(x) = s}}
    BY <1>3 DEF MissingShards
  <2>2. PICK o \in contents[Current] : o[2][1] = s /\ o[2][2] = g
    BY <2>1 DEF SessionOf
  <2>3. o \in GateRevision \X Slot
    BY <1>4 DEF WarmupTypeOK
  <2>4. o[2] = <<s, g>>
    BY <2>2, <2>3 DEF Slot
  <2> QED BY <2>2, <2>4 DEF Slots
<1>6. Covers(s, Current)
  BY <1>4, <1>5 DEF Covers
<1>7. mark.at \in Nat /\ mark.ingested \in Nat /\ clock \in Nat /\ s \in Nat
      /\ FreshnessBudget \in Nat /\ batch \in {"unopened", "open", "sealed"}
  BY WarmupAssumption DEF WarmupTypeOK, Session
<1> QED BY <1>3, <1>6, <1>7 DEF ReadyFor

(* What a publication lists is slots of its revision.                       *)
LEMMA CommitTyped ==
  ASSUME WarmupTypeOK, CommitPublication
  PROVE  /\ shelf' \in [GateRevision -> ShelfRow]
         /\ contents' \in [GateRevision -> SUBSET (GateRevision \X Slot)]
         /\ \A r \in GateRevision : contents[r] \subseteq contents'[r]
         /\ \A r, q \in GateRevision :
              shelf'[r].status = "AVAILABLE" /\ shelf'[q].status = "AVAILABLE" => r = q
<1>1. PICK rev, prev, slots, row :
        /\ writer.rev = rev /\ writer.prev = prev /\ writer.slots = slots /\ writer.row = row
        /\ rev \in GateRevision \cup {0} /\ prev \in GateRevision \cup {0}
        /\ slots \subseteq Slot /\ row \in ShelfRow
  BY DEF WarmupTypeOK
<1> DEFINE added == New \cup Retained
<1>2. contents \in [GateRevision -> SUBSET (GateRevision \X Slot)]
      /\ shelf \in [GateRevision -> ShelfRow]
  BY DEF WarmupTypeOK
<1>3. rev \in GateRevision => added \subseteq GateRevision \X Slot
  <2>1. ASSUME rev \in GateRevision PROVE New \subseteq GateRevision \X Slot
    BY <1>1, <2>1 DEF New
  <2>2. prev # 0 => contents[prev] \subseteq GateRevision \X Slot
    BY <1>1, <1>2
  <2>3. Retained \subseteq GateRevision \X Slot
    BY <1>1, <2>2 DEF Retained
  <2> QED BY <2>1, <2>3
<1>4. rev \in GateRevision => Slots(added) \subseteq Slot
  BY <1>3 DEF Slots
<1> HIDE DEF added
<1>5. /\ shelf' = [r \in GateRevision |->
            IF r = prev THEN [row EXCEPT !.status = "SUPERSEDED"]
            ELSE IF r = rev THEN [status |-> "AVAILABLE", hash |-> Slots(added)]
            ELSE shelf[r]]
      /\ contents' = [contents EXCEPT ![rev] = contents[rev] \cup added]
      /\ \A r \in GateRevision \ {rev} : shelf'[r].status # "AVAILABLE"
  BY <1>1 DEF CommitPublication, added
<1>6. [row EXCEPT !.status = "SUPERSEDED"] \in ShelfRow
  BY <1>1 DEF ShelfRow, ManifestStatus
<1>7. rev \in GateRevision => [status |-> "AVAILABLE", hash |-> Slots(added)] \in ShelfRow
  BY <1>4 DEF ShelfRow, ManifestStatus
<1>8. shelf' \in [GateRevision -> ShelfRow]
  BY <1>2, <1>5, <1>6, <1>7
<1>9. contents' \in [GateRevision -> SUBSET (GateRevision \X Slot)]
      /\ \A r \in GateRevision : contents[r] \subseteq contents'[r]
  BY <1>2, <1>3, <1>5
<1> QED BY <1>5, <1>8, <1>9

(* The side of the ingestor keeps what was listed and heard.                *)
GateProgress ==
  /\ \A r \in GateRevision : contents[r] \subseteq contents'[r]
  /\ mark'.at >= mark.at /\ mark'.ingested >= mark.ingested /\ clock' >= clock
  /\ mark'.ingested <= clock'
  /\ batch = "sealed" => batch' = "sealed"

(* What was READY stays so through progress.                                *)
LEMMA ReadyStays ==
  ASSUME WarmupTypeOK, WarmupTypeOK', GateProgress, NEW s \in Nat, NEW r, NEW looked,
         ReadyFor(s, r, looked)
  PROVE  ReadyFor(s, r, looked)'
<1>1. r \in GateRevision /\ contents[r] \subseteq contents'[r]
  BY DEF ReadyFor, Covers, GateProgress
<1>2. Slots(contents[r]) \subseteq Slots(contents'[r])
  BY <1>1 DEF Slots
<1>3. mark.at \in Nat /\ mark'.at \in Nat
  BY WarmupAssumption DEF WarmupTypeOK, Session
<1> QED BY <1>1, <1>2, <1>3 DEF ReadyFor, Covers, GateProgress, Slots

(* Publications, watermarks, ticks and batches.                             *)
LEMMA IngestorKeepsGate ==
  ASSUME GateInv,
         \/ \E s \in Session, S \in Flushes : BeginPublication(s, S)
         \/ CommitPublication \/ AbortPublication
         \/ \E s \in Session : AdvanceMark(s)
         \/ GateTick \/ BatchMoves
  PROVE  /\ WarmupTypeOK' /\ GateProgress /\ UNCHANGED gateVars
         /\ \A r, q \in On("AVAILABLE")' : r = q
         /\ clock' - mark'.ingested <= clock' - mark.ingested
<1>1. WarmupTypeOK /\ mark.ingested <= clock /\ \A r, q \in On("AVAILABLE") : r = q
  BY DEF GateInv
<1>2. /\ contents \in [GateRevision -> SUBSET (GateRevision \X Slot)]
      /\ shelf \in [GateRevision -> ShelfRow]
      /\ mark \in [at : Session \cup {0}, ingested : Nat] /\ clock \in Nat
      /\ batch \in {"unopened", "open", "sealed"} /\ watermarks \in Nat
      /\ writer \in [phase : {"idle", "publishing"}, slots : SUBSET Slot,
                     prev : GateRevision \cup {0}, rev : GateRevision \cup {0}, row : ShelfRow]
  BY <1>1 DEF WarmupTypeOK
<1>3. mark.at \in Nat /\ mark.ingested \in Nat /\ mark.at >= mark.at /\ clock >= clock
  BY <1>2 DEF Session
<1>4. NoRow \in ShelfRow /\ Resting \in [phase : {"idle", "publishing"}, slots : SUBSET Slot,
                     prev : GateRevision \cup {0}, rev : GateRevision \cup {0}, row : ShelfRow]
  BY DEF NoRow, ShelfRow, ManifestStatus, Resting
<1>5. ASSUME NEW s \in Session, NEW S \in Flushes, BeginPublication(s, S)
      PROVE  /\ WarmupTypeOK' /\ GateProgress /\ UNCHANGED gateVars
             /\ \A r, q \in On("AVAILABLE")' : r = q
  <2>1. UNCHANGED <<shelf, contents, mark, clock, batch, watermarks>> /\ UNCHANGED gateVars
    BY <1>5 DEF BeginPublication
  <2>2. S \subseteq GateShard
    BY WarmupAssumption
  <2>3. IF Current = 0 THEN TRUE ELSE shelf[Current] \in ShelfRow
    BY <1>2, CurrentTyped
  <2>4. PICK row \in ShelfRow :
          writer' = [phase |-> "publishing", slots |-> {s} \X S, rev |-> Current + 1,
                     prev |-> Current, row |-> row]
    BY <1>4, <1>5, <2>3 DEF BeginPublication
  <2>5. {s} \X S \subseteq Slot /\ Current + 1 \in GateRevision /\ Current \in GateRevision \cup {0}
    BY <1>5, <2>2, CurrentTyped DEF BeginPublication, Slot
  <2>6. writer' \in [phase : {"idle", "publishing"}, slots : SUBSET Slot,
                     prev : GateRevision \cup {0}, rev : GateRevision \cup {0}, row : ShelfRow]
    BY <2>4, <2>5
  <2>7. WarmupTypeOK'
    BY <1>1, <2>1, <2>6 DEF WarmupTypeOK, gateVars
  <2>8. GateProgress /\ \A r, q \in On("AVAILABLE")' : r = q
    BY <1>1, <1>3, <2>1 DEF GateProgress, On
  <2> QED BY <2>1, <2>7, <2>8
<1>6. ASSUME CommitPublication
      PROVE  /\ WarmupTypeOK' /\ GateProgress /\ UNCHANGED gateVars
             /\ \A r, q \in On("AVAILABLE")' : r = q
  <2>1. /\ writer' = Resting /\ UNCHANGED <<mark, clock, batch, watermarks>>
        /\ UNCHANGED gateVars
    BY <1>6 DEF CommitPublication
  <2>2. /\ shelf' \in [GateRevision -> ShelfRow]
        /\ contents' \in [GateRevision -> SUBSET (GateRevision \X Slot)]
        /\ \A r \in GateRevision : contents[r] \subseteq contents'[r]
        /\ \A r, q \in GateRevision :
             shelf'[r].status = "AVAILABLE" /\ shelf'[q].status = "AVAILABLE" => r = q
    BY <1>1, <1>6, CommitTyped
  <2>3. WarmupTypeOK'
    BY <1>1, <1>4, <2>1, <2>2 DEF WarmupTypeOK, gateVars
  <2>4. GateProgress /\ \A r, q \in On("AVAILABLE")' : r = q
    BY <1>1, <1>3, <2>1, <2>2 DEF GateProgress, On
  <2> QED BY <2>1, <2>3, <2>4
<1>7. ASSUME AbortPublication
      PROVE  /\ WarmupTypeOK' /\ GateProgress /\ UNCHANGED gateVars
             /\ \A r, q \in On("AVAILABLE")' : r = q
  <2>1. /\ writer' = Resting /\ UNCHANGED <<shelf, contents, mark, clock, batch, watermarks>>
        /\ UNCHANGED gateVars
    BY <1>7 DEF AbortPublication
  <2>2. WarmupTypeOK'
    BY <1>1, <1>4, <2>1 DEF WarmupTypeOK, gateVars
  <2>3. GateProgress /\ \A r, q \in On("AVAILABLE")' : r = q
    BY <1>1, <1>3, <2>1 DEF GateProgress, On
  <2> QED BY <2>1, <2>2, <2>3
<1>8. ASSUME UNCHANGED catalogVars, UNCHANGED gateVars,
             \/ \E s \in Session : AdvanceMark(s)
             \/ GateTick \/ BatchMoves
      PROVE  /\ WarmupTypeOK' /\ GateProgress
             /\ \A r, q \in On("AVAILABLE")' : r = q
  <2>1. mark' = mark \/ \E s \in Session : s > mark.at /\ mark' = [at |-> s, ingested |-> clock]
    BY <1>8 DEF AdvanceMark, GateTick, BatchMoves
  <2>2. mark' \in [at : Session \cup {0}, ingested : Nat]
        /\ mark'.at >= mark.at /\ mark'.ingested >= mark.ingested /\ mark'.ingested <= clock
    <3>1. CASE mark' = mark
      BY <1>1, <1>2, <1>3, <3>1
    <3>2. ASSUME NEW s \in Session, s > mark.at, mark' = [at |-> s, ingested |-> clock]
          PROVE  mark' \in [at : Session \cup {0}, ingested : Nat]
                 /\ mark'.at >= mark.at /\ mark'.ingested >= mark.ingested
                 /\ mark'.ingested <= clock
      <4>1. s \in Nat
        BY DEF Session
      <4> QED BY <1>1, <1>2, <1>3, <3>2, <4>1
    <3> QED BY <2>1, <3>1, <3>2
  <2>3. clock' = clock \/ clock' = clock + 1
    BY <1>8 DEF AdvanceMark, GateTick, BatchMoves
  <2>4. clock' \in Nat /\ clock' >= clock /\ mark'.ingested <= clock'
    BY <1>2, <2>2, <2>3
  <2>5. /\ batch' \in {"unopened", "open", "sealed"} /\ (batch = "sealed" => batch' = "sealed")
        /\ watermarks' \in Nat
    BY <1>2, <1>8 DEF AdvanceMark, GateTick, BatchMoves
  <2>6. WarmupTypeOK'
    BY <1>1, <1>8, <2>2, <2>4, <2>5 DEF WarmupTypeOK, gateVars, catalogVars
  <2>7. GateProgress /\ \A r, q \in On("AVAILABLE")' : r = q
    BY <1>1, <1>8, <2>2, <2>4, <2>5 DEF GateProgress, On, catalogVars
  <2> QED BY <2>6, <2>7
<1>9. /\ WarmupTypeOK' /\ GateProgress /\ UNCHANGED gateVars
      /\ \A r, q \in On("AVAILABLE")' : r = q
  <2>1. (\E s \in Session : AdvanceMark(s)) \/ GateTick \/ BatchMoves
        => UNCHANGED catalogVars /\ UNCHANGED gateVars
    BY DEF AdvanceMark, GateTick, BatchMoves, catalogVars, gateVars
  <2> QED BY <1>5, <1>6, <1>7, <1>8, <2>1
<1>10. mark'.ingested \in Nat /\ clock' \in Nat /\ mark'.ingested >= mark.ingested
  BY <1>9 DEF WarmupTypeOK, GateProgress
<1> QED BY <1>3, <1>9, <1>10

(* Evaluations, their records and their bundle.                             *)
Exporting ==
  \/ \E feed \in FeedNamed : BeginWarmupExport(feed)
  \/ \E named \in ManifestNamed : MoveBundle(named)
  \/ WarmupExportFails

LEMMA NoBundleTyped == NoBundle \in Bundle /\ NoBundle.state # "READY"
BY DEF NoBundle, Bundle, Looked

LEMMA GateStepsTyped ==
  ASSUME WarmupTypeOK, recorder.phase = "reading" => verdict.rev \in GateRevision,
         \/ \E s \in Session, looked \in Looked : Evaluate(s, looked)
         \/ RecordIncident \/ ReadManifestRow \/ Quarantine \/ RecorderEnds \/ Exporting
  PROVE  /\ WarmupTypeOK' /\ UNCHANGED <<contents, mark, clock, batch>>
         /\ On("AVAILABLE")' \subseteq On("AVAILABLE")
         /\ (recorder.phase = "reading" => verdict.rev \in GateRevision)'
<1>1. /\ shelf \in [GateRevision -> ShelfRow] /\ verdict \in Verdict
      /\ recorder \in [phase : {"idle", "reading", "writing", "done"}, row : ShelfRow]
      /\ blamed \subseteq GateRevision \cup {0} /\ verdicts \in Nat /\ watermarks \in Nat
      /\ clock \in Nat /\ bundle \in Bundle
      /\ export \in [phase : {"idle", "staging"}, document : Bundle]
  BY DEF WarmupTypeOK
<1>2. UNCHANGED <<contents, mark, clock, batch, watermarks, writer>>
  BY DEF Evaluate, RecordIncident, ReadManifestRow, Quarantine, RecorderEnds, Exporting,
     BeginWarmupExport, MoveBundle, WarmupExportFails, catalogVars
<1>3. ASSUME NEW s \in Session, NEW looked \in Looked, Evaluate(s, looked)
      PROVE  WarmupTypeOK' /\ shelf' = shelf
  <2> DEFINE reason == IF Failing(s, looked) = {} THEN "NONE" ELSE Checks(s, looked)[Min(Failing(s, looked))].reason
  <2>1. reason \in Reason \cup {"NONE"}
    <3>1. Failing(s, looked) \in SUBSET (1 .. 8) /\ Failing(s, looked) \in SUBSET Nat
      BY ChecksInOrder DEF Failing
    <3>2. Failing(s, looked) # {} => Min(Failing(s, looked)) \in 1 .. 8
      BY <3>1, MinIsLeast
    <3> QED BY <3>2, ChecksInOrder
  <2>2. PICK state \in {"READY", "BLOCKED"} :
          verdict' = [state |-> state, reason |-> reason, session |-> s, rev |-> Current,
                      at |-> clock, features |-> looked]
    BY <1>3 DEF Evaluate
  <2> HIDE DEF reason
  <2>3. verdict' \in Verdict
    BY <1>1, <2>1, <2>2, CurrentTyped DEF Verdict
  <2>4. UNCHANGED <<recorder, blamed, export, bundle, shelf>> /\ verdicts' = verdicts + 1
    BY <1>3 DEF Evaluate, catalogVars, exportingVars
  <2> QED BY <1>1, <1>2, <2>3, <2>4 DEF WarmupTypeOK
<1>4. ASSUME RecordIncident PROVE WarmupTypeOK' /\ shelf' = shelf
  <2>1. verdict.rev \in GateRevision \cup {0}
    BY <1>1 DEF Verdict
  <2>2. recorder' = [recorder EXCEPT !.phase = "done"]
        \/ recorder' = [recorder EXCEPT !.phase = "reading"]
    BY <1>4 DEF RecordIncident
  <2>3. recorder' \in [phase : {"idle", "reading", "writing", "done"}, row : ShelfRow]
    BY <1>1, <2>2
  <2>4. blamed' = blamed \cup {verdict.rev} /\ UNCHANGED <<verdict, export, bundle, verdicts, shelf>>
    BY <1>4 DEF RecordIncident, catalogVars, exportingVars
  <2> QED BY <1>1, <1>2, <2>1, <2>3, <2>4 DEF WarmupTypeOK
<1>5. ASSUME ReadManifestRow PROVE WarmupTypeOK' /\ shelf' = shelf
  <2>1. UNCHANGED <<verdict, blamed, export, bundle, verdicts, shelf>>
    BY <1>5 DEF ReadManifestRow, catalogVars, exportingVars
  <2>2. recorder' \in [phase : {"idle", "reading", "writing", "done"}, row : ShelfRow]
    <3>1. recorder.phase = "reading" /\ shelf[verdict.rev] \in ShelfRow
      BY <1>1, <1>5 DEF ReadManifestRow
    <3>2. PICK row \in ShelfRow :
            \/ recorder' = [recorder EXCEPT !.phase = "done"]
            \/ recorder' = [phase |-> "writing", row |-> row]
      BY <1>5, <3>1 DEF ReadManifestRow
    <3> QED BY <1>1, <3>2
  <2> QED BY <1>1, <1>2, <2>1, <2>2 DEF WarmupTypeOK
<1>6. ASSUME Quarantine PROVE WarmupTypeOK' /\ On("AVAILABLE")' \subseteq On("AVAILABLE")
  <2>1. PICK row \in ShelfRow : \E rev :
          /\ shelf' = [shelf EXCEPT ![rev] = [row EXCEPT !.status = "QUARANTINED"]]
          /\ recorder' = [NotRecording EXCEPT !.phase = "done"]
    BY <1>1, <1>6 DEF Quarantine
  <2>2. [row EXCEPT !.status = "QUARANTINED"] \in ShelfRow
        /\ [row EXCEPT !.status = "QUARANTINED"].status = "QUARANTINED"
    BY DEF ShelfRow, ManifestStatus
  <2>3. shelf' \in [GateRevision -> ShelfRow]
    BY <1>1, <2>1, <2>2
  <2>4. recorder' \in [phase : {"idle", "reading", "writing", "done"}, row : ShelfRow]
    BY <2>1 DEF NotRecording, NoRow, ShelfRow, ManifestStatus
  <2>5. UNCHANGED <<verdict, blamed, export, bundle, verdicts>>
    BY <1>6 DEF Quarantine, exportingVars
  <2>6. On("AVAILABLE")' \subseteq On("AVAILABLE")
    BY <1>1, <2>1, <2>2 DEF On
  <2> QED BY <1>1, <1>2, <2>3, <2>4, <2>5, <2>6 DEF WarmupTypeOK
<1>7. ASSUME RecorderEnds PROVE WarmupTypeOK' /\ shelf' = shelf
  <2>1. /\ recorder' = NotRecording /\ verdict' = NoVerdict
        /\ UNCHANGED <<blamed, export, bundle, verdicts, shelf>>
    BY <1>7 DEF RecorderEnds, catalogVars, exportingVars
  <2>2. NotRecording \in [phase : {"idle", "reading", "writing", "done"}, row : ShelfRow]
        /\ NoVerdict \in Verdict
    BY DEF NotRecording, NoRow, ShelfRow, ManifestStatus, NoVerdict, Verdict, Looked
  <2> QED BY <1>1, <1>2, <2>1, <2>2 DEF WarmupTypeOK
<1>8. ASSUME Exporting PROVE WarmupTypeOK' /\ shelf' = shelf
  <2>1. UNCHANGED <<verdict, recorder, blamed, verdicts, shelf>>
    BY <1>8 DEF Exporting, BeginWarmupExport, MoveBundle, WarmupExportFails, catalogVars
  <2>2. NoExport \in [phase : {"idle", "staging"}, document : Bundle]
    BY NoBundleTyped DEF NoExport
  <2>3. bundle' \in Bundle /\ export' \in [phase : {"idle", "staging"}, document : Bundle]
    <3>1. ASSUME NEW feed, BeginWarmupExport(feed)
          PROVE  bundle' \in Bundle /\ export' \in [phase : {"idle", "staging"}, document : Bundle]
      <4>1. [state |-> verdict.state, session |-> verdict.session, rev |-> verdict.rev,
             features |-> verdict.features] \in Bundle
        BY <1>1 DEF Verdict, Bundle
      <4> QED BY <1>1, <3>1, <4>1 DEF BeginWarmupExport
    <3>2. ASSUME NEW named, MoveBundle(named)
          PROVE  bundle' \in Bundle /\ export' = NoExport
      BY <1>1, <3>2 DEF MoveBundle
    <3>3. WarmupExportFails => bundle' = bundle /\ export' = NoExport
      BY DEF WarmupExportFails
    <3> QED BY <1>1, <1>8, <2>2, <3>1, <3>2, <3>3 DEF Exporting
  <2> QED BY <1>1, <1>2, <2>1, <2>3 DEF WarmupTypeOK
<1>9. shelf' = shelf => On("AVAILABLE")' \subseteq On("AVAILABLE")
  BY DEF On
<1>10. (recorder.phase = "reading" => verdict.rev \in GateRevision)'
  <2>1. ASSUME NEW s \in Session, NEW looked, Evaluate(s, looked)
        PROVE  recorder'.phase # "reading"
    BY <2>1 DEF Evaluate, NotRecording
  <2>2. ASSUME RecordIncident PROVE recorder'.phase = "reading" => verdict'.rev \in GateRevision
    <3>1. verdict.rev \in GateRevision \cup {0} /\ verdict' = verdict
      BY <1>1, <2>2 DEF Verdict, RecordIncident
    <3>2. verdict.rev = 0 => recorder' = [recorder EXCEPT !.phase = "done"]
      BY <2>2 DEF RecordIncident
    <3> QED BY <1>1, <3>1, <3>2
  <2>3. ASSUME ReadManifestRow PROVE recorder'.phase # "reading"
    <3>1. PICK row :
            \/ recorder' = [recorder EXCEPT !.phase = "done"]
            \/ recorder' = [phase |-> "writing", row |-> row]
      BY <2>3 DEF ReadManifestRow
    <3> QED BY <1>1, <3>1
  <2>4. ASSUME Quarantine \/ RecorderEnds PROVE recorder'.phase # "reading"
    BY <2>4 DEF Quarantine, RecorderEnds, NotRecording
  <2>5. ASSUME Exporting PROVE recorder' = recorder /\ verdict' = verdict
    BY <2>5 DEF Exporting, BeginWarmupExport, MoveBundle, WarmupExportFails
  <2> QED BY <2>1, <2>2, <2>3, <2>4, <2>5
<1> QED BY <1>2, <1>3, <1>4, <1>5, <1>6, <1>7, <1>8, <1>9, <1>10

(* Every step keeps what a READY verdict and a READY bundle say.            *)
LEMMA GateInvStep ==
  ASSUME GateInv, [WarmupNext]_warmupVars
  PROVE  GateInv'
<1>1. /\ WarmupTypeOK /\ \A r, q \in On("AVAILABLE") : r = q /\ mark.ingested <= clock
      /\ verdict \in Verdict /\ mark.ingested \in Nat /\ clock \in Nat /\ FreshnessBudget \in Nat
      /\ bundle \in Bundle /\ export \in [phase : {"idle", "staging"}, document : Bundle]
  BY WarmupAssumption DEF GateInv, WarmupTypeOK
<1>2. /\ verdict.session \in Nat /\ verdict.at \in Nat /\ bundle.session \in Nat
      /\ export.document.session \in Nat
  BY <1>1 DEF Verdict, Bundle, Session
<1>3. CASE UNCHANGED warmupVars
  BY <1>3 DEF GateInv, warmupVars, WarmupTypeOK, ReadyFor, Covers, Slots, On
<1>4. CASE \/ \E s \in Session, S \in Flushes : BeginPublication(s, S)
           \/ CommitPublication \/ AbortPublication
           \/ \E s \in Session : AdvanceMark(s)
           \/ GateTick \/ BatchMoves
  <2>1. /\ WarmupTypeOK' /\ GateProgress /\ \A r, q \in On("AVAILABLE")' : r = q
        /\ verdict' = verdict /\ bundle' = bundle /\ recorder' = recorder /\ export' = export
    BY <1>4, IngestorKeepsGate DEF gateVars
  <2>2. mark'.ingested >= mark.ingested /\ mark'.ingested <= clock' /\ mark'.ingested \in Nat
    BY <2>1 DEF GateProgress, WarmupTypeOK
  <2>3. PICK v, b, d : v = verdict /\ b = bundle /\ d = export.document
    OBVIOUS
  <2>4. /\ v.session \in Nat /\ b.session \in Nat /\ d.session \in Nat /\ v.at \in Nat
        /\ v.state = "READY" => /\ ReadyFor(v.session, v.rev, v.features)
                                /\ v.at - mark.ingested <= FreshnessBudget
        /\ d.state = "READY" => ReadyFor(d.session, d.rev, d.features)
        /\ b.state = "READY" => ReadyFor(b.session, b.rev, b.features)
    BY <1>2, <2>3 DEF GateInv
  <2>5. v.state = "READY" => ReadyFor(v.session, v.rev, v.features)'
    BY <1>1, <2>1, <2>4, ReadyStays
  <2>6. b.state = "READY" => ReadyFor(b.session, b.rev, b.features)'
    BY <1>1, <2>1, <2>4, ReadyStays
  <2>7. d.state = "READY" => ReadyFor(d.session, d.rev, d.features)'
    BY <1>1, <2>1, <2>4, ReadyStays
  <2>8. v.state = "READY" => v.at - mark'.ingested <= FreshnessBudget
    BY <1>1, <2>2, <2>4
  <2>9. recorder'.phase = "reading" => verdict'.rev \in GateRevision
    BY <2>1 DEF GateInv
  <2>10. v = verdict' /\ b = bundle' /\ d = export'.document
    BY <2>1, <2>3
  <2> QED BY <2>1, <2>2, <2>5, <2>6, <2>7, <2>8, <2>9, <2>10 DEF GateInv
<1>5. CASE \/ \E s \in Session, looked \in Looked : Evaluate(s, looked)
           \/ RecordIncident \/ ReadManifestRow \/ Quarantine \/ RecorderEnds \/ Exporting
  <2>1. /\ WarmupTypeOK' /\ UNCHANGED <<contents, mark, clock, batch>>
        /\ On("AVAILABLE")' \subseteq On("AVAILABLE")
        /\ (recorder.phase = "reading" => verdict.rev \in GateRevision)'
    BY <1>1, <1>5, GateStepsTyped DEF GateInv
  <2>2. \A r, q \in On("AVAILABLE")' : r = q
    BY <2>1 DEF GateInv
  <2>3. ASSUME NEW s, NEW r, NEW looked, ReadyFor(s, r, looked) PROVE ReadyFor(s, r, looked)'
    BY <2>1, <2>3 DEF ReadyFor, Covers, Slots
  <2>4. PICK v, b, d : v = verdict' /\ b = bundle' /\ d = export'.document
    OBVIOUS
  <2>5. v.state = "READY" =>
          ReadyFor(v.session, v.rev, v.features) /\ v.at - mark.ingested <= FreshnessBudget
    <3>1. ASSUME NEW s \in Session, NEW looked, Evaluate(s, looked), v.state = "READY"
          PROVE  ReadyFor(v.session, v.rev, v.features) /\ v.at - mark.ingested <= FreshnessBudget
      <4>1. /\ Failing(s, looked) = {} /\ v.session = s /\ v.rev = Current /\ v.at = clock
            /\ v.features = looked
        BY <2>4, <3>1 DEF Evaluate
      <4> QED BY <1>1, <3>1, <4>1, NoCheckFails
    <3>2. CASE RecorderEnds
      BY <2>4, <3>2 DEF RecorderEnds, NoVerdict
    <3>3. RecordIncident \/ ReadManifestRow \/ Quarantine \/ Exporting => verdict' = verdict
      BY DEF RecordIncident, ReadManifestRow, Quarantine, Exporting, BeginWarmupExport,
         MoveBundle, WarmupExportFails
    <3> QED BY <1>5, <2>4, <3>1, <3>2, <3>3 DEF GateInv
  <2>6. /\ d.state = "READY" => ReadyFor(d.session, d.rev, d.features)
        /\ b.state = "READY" => ReadyFor(b.session, b.rev, b.features)
    <3>1. ASSUME NEW feed, BeginWarmupExport(feed)
          PROVE  /\ bundle' = bundle /\ d.state = verdict.state /\ d.session = verdict.session
                 /\ d.rev = verdict.rev /\ d.features = verdict.features
      BY <2>4, <3>1 DEF BeginWarmupExport
    <3>2. ASSUME NEW named, MoveBundle(named)
          PROVE  (b = export.document \/ b = bundle) /\ d.state # "READY"
      BY <2>4, <3>2, NoBundleTyped DEF MoveBundle, NoExport
    <3>3. WarmupExportFails => bundle' = bundle /\ d.state # "READY"
      BY <2>4, NoBundleTyped DEF WarmupExportFails, NoExport
    <3>4. (\E s \in Session, looked \in Looked : Evaluate(s, looked)) \/ RecordIncident
            \/ ReadManifestRow \/ Quarantine \/ RecorderEnds => bundle' = bundle /\ export' = export
      BY DEF Evaluate, RecordIncident, ReadManifestRow, Quarantine, RecorderEnds, exportingVars
    <3>5. CASE Exporting
      BY <2>4, <3>1, <3>2, <3>3, <3>5 DEF GateInv, Exporting
    <3>6. CASE ~Exporting
      BY <1>5, <2>4, <3>4, <3>6 DEF GateInv
    <3> QED BY <3>5, <3>6
  <2>7. /\ v.state = "READY" => ReadyFor(v.session, v.rev, v.features)'
        /\ d.state = "READY" => ReadyFor(d.session, d.rev, d.features)'
        /\ b.state = "READY" => ReadyFor(b.session, b.rev, b.features)'
    BY <2>3, <2>5, <2>6
  <2> QED BY <1>1, <2>1, <2>2, <2>4, <2>5, <2>7 DEF GateInv
<1> QED BY <1>3, <1>4, <1>5 DEF WarmupNext, Exporting

(* At first there is nothing, and nothing is said.                          *)
LEMMA GateInvInit ==
  WarmupInit => GateInv
<1> SUFFICES ASSUME WarmupInit PROVE GateInv
  OBVIOUS
<1>1. NoRow \in ShelfRow /\ NoRow.status # "AVAILABLE"
  BY DEF NoRow, ShelfRow, ManifestStatus
<1>2. /\ NoVerdict \in Verdict /\ NoVerdict.state # "READY"
      /\ NoBundle \in Bundle /\ NoBundle.state # "READY"
      /\ NoExport \in [phase : {"idle", "staging"}, document : Bundle]
      /\ NoExport.document = NoBundle
  BY NoBundleTyped DEF NoVerdict, Verdict, Looked, NoExport
<1>3. /\ NotRecording \in [phase : {"idle", "reading", "writing", "done"}, row : ShelfRow]
      /\ NotRecording.phase # "reading"
      /\ Resting \in [phase : {"idle", "publishing"}, slots : SUBSET Slot,
                      prev : GateRevision \cup {0}, rev : GateRevision \cup {0}, row : ShelfRow]
  BY <1>1 DEF NotRecording, Resting
<1>4. On("AVAILABLE") = {}
  BY <1>1 DEF WarmupInit, On
<1>5. WarmupTypeOK
  BY <1>1, <1>2, <1>3 DEF WarmupInit, WarmupTypeOK
<1> QED BY <1>2, <1>3, <1>4, <1>5 DEF WarmupInit, GateInv

(* Gate, publications and exports keep their types.                         *)
THEOREM WarmupTypeCorrect == WarmupSpec => []WarmupTypeOK
<1>1. GateInv => WarmupTypeOK
  BY DEF GateInv
<1> QED BY <1>1, GateInvInit, GateInvStep, PTL DEF WarmupSpec

(* What a READY bundle says stays true of the manifest its verdict names,   *)
(* whatever is published, blocked or quarantined between the evaluation and *)
(* the move: its shards are listed, the feed passed the session, and the    *)
(* features are sealed if the verdict says that a batch was looked at.  The *)
(* rows the gate writes outside the publication lock never leave the year   *)
(* with two AVAILABLE manifests.                                            *)
THEOREM GateIsSound == WarmupSpec => []GateSound
<1>1. GateInv => GateSound
  BY DEF GateInv, GateSound, ReadyFor, Covers
<1> QED BY <1>1, GateInvInit, GateInvStep, PTL DEF WarmupSpec

(* When a READY verdict is accepted for a bundle, the feed was heard from   *)
(* within the freshness budget and the readiness age together, however late *)
(* that is after the evaluation.  How late the bundle is put at its path is *)
(* not bounded.                                                             *)
THEOREM ExportsAreFresh == WarmupSpec => ExportIsFresh
<1> DEFINE Fresh == clock - mark.ingested <= FreshnessBudget + MaxReadinessAge
           Accepted == /\ export'.phase = "staging" /\ export.phase = "idle"
                       /\ export'.document.state = "READY"
<1>1. ASSUME GateInv, [WarmupNext]_warmupVars
      PROVE  [Accepted => Fresh]_warmupVars
  <2>1. ASSUME NEW feed, BeginWarmupExport(feed), Accepted PROVE Fresh
    <3>1. verdict.state = "READY"
      BY <2>1 DEF BeginWarmupExport
    <3>2. /\ clock \in Nat /\ mark.ingested \in Nat /\ verdict.at \in Nat
          /\ FreshnessBudget \in Nat /\ MaxReadinessAge \in Nat
      BY <1>1, WarmupAssumption DEF GateInv, WarmupTypeOK, Verdict
    <3>3. clock - verdict.at <= MaxReadinessAge
      BY <2>1 DEF BeginWarmupExport, NotTooOld
    <3>4. verdict.at - mark.ingested <= FreshnessBudget
      BY <1>1, <3>1 DEF GateInv
    <3> QED BY <3>2, <3>3, <3>4
  <2>2. ASSUME Accepted, WarmupNext PROVE \E feed \in FeedNamed : BeginWarmupExport(feed)
    <3>1. export' # export /\ export' # NoExport
      BY <2>2 DEF NoExport
    <3>2. MoveBundle("catalog") \/ MoveBundle("bundle") \/ MoveBundle("none")
            \/ WarmupExportFails => export' = NoExport
      BY DEF MoveBundle, WarmupExportFails
    <3> QED BY <2>2, <3>1, <3>2 DEF WarmupNext, ManifestNamed, BeginPublication,
             CommitPublication, AbortPublication, AdvanceMark, GateTick, BatchMoves, Evaluate,
             RecordIncident, ReadManifestRow, Quarantine, RecorderEnds, gateVars, exportingVars
  <2>3. UNCHANGED warmupVars => ~Accepted
    BY DEF warmupVars
  <2> QED BY <1>1, <2>1, <2>2, <2>3
<1> QED BY <1>1, GateInvInit, GateInvStep, PTL DEF WarmupSpec, ExportIsFresh

-----------------------------------------------------------------------------
(* Object store: versions under one key.                                    *)

Version == [bytes : {Payload[u] : u \in StoreUser}, writer : StoreUser, live : BOOLEAN]
Putter ==
  [phase : {"idle", "putting", "rereading", "confirming"}, attempt : 0 .. MaxPutAttempts,
   landed : Nat, receipt : [version : Nat, created : BOOLEAN]]

KeyTyped ==
  /\ versions \in Seq(Version) /\ user \in [StoreUser -> Putter]
  /\ outages \in Nat /\ puts \in Nat

(* A version holds what its writer publishes, and at most one is there.     *)
WrittenAsPublished ==
  \A v \in DOMAIN versions : versions[v].bytes = Payload[versions[v].writer]
OneLive == \A v, w \in DOMAIN versions : versions[v].live /\ versions[w].live => v = w

(* The version a put is confirming is its own; a receipt names a version    *)
(* with its holder's bytes, and one that says created names the holder's.   *)
Holds(u, w) ==
  /\ w.landed \in {0} \cup DOMAIN versions
  /\ w.phase = "confirming" => w.landed # 0 /\ versions[w.landed].writer = u
  /\ w.receipt.version \in {0} \cup DOMAIN versions
  /\ w.receipt # NoReceipt =>
       /\ w.receipt.version # 0
       /\ versions[w.receipt.version].bytes = Payload[u]
       /\ w.receipt.created => versions[w.receipt.version].writer = u
HoldersSound == \A u \in StoreUser : Holds(u, user[u])

StoreInv == KeyTyped /\ WrittenAsPublished /\ OneLive /\ HoldersSound

(* An empty bucket with no put under way is sound.                          *)
LEMMA StoreInvInit == StoreInit => StoreInv
<1> SUFFICES ASSUME StoreInit PROVE StoreInv
  OBVIOUS
<1>1. versions = <<>> /\ DOMAIN versions = {} /\ versions \in Seq(Version)
  BY DEF StoreInit
<1>2. Unused \in Putter /\ Unused.landed = 0 /\ Unused.phase = "idle"
      /\ Unused.receipt = NoReceipt /\ NoReceipt.version = 0
  BY StoreAssumption DEF Unused, NoReceipt, Putter
<1>3. \A u \in StoreUser : user[u] = Unused
  BY DEF StoreInit
<1>4. KeyTyped
  BY <1>1, <1>2 DEF KeyTyped, StoreInit
<1>5. HoldersSound
  BY <1>1, <1>2, <1>3 DEF HoldersSound, Holds
<1> QED BY <1>1, <1>4, <1>5 DEF StoreInv, WrittenAsPublished, OneLive

(* A step that leaves every version its bytes and its writer, makes none    *)
(* live again, and puts one user in a sound position keeps the invariant.   *)
LEMMA VersionsKept ==
  ASSUME StoreInv, NEW u \in StoreUser, NEW w \in Putter, user' = [user EXCEPT ![u] = w],
         versions' \in Seq(Version), DOMAIN versions' = DOMAIN versions,
         outages' \in Nat, puts' \in Nat, Holds(u, w),
         \A v \in DOMAIN versions :
           /\ versions'[v].bytes = versions[v].bytes /\ versions'[v].writer = versions[v].writer
           /\ versions'[v].live => versions[v].live
  PROVE  StoreInv'
<1>1. KeyTyped'
  BY DEF StoreInv, KeyTyped
<1>2. WrittenAsPublished'
  BY DEF StoreInv, WrittenAsPublished
<1>3. OneLive'
  BY DEF StoreInv, OneLive
<1>4. \A x \in StoreUser : user'[x] = IF x = u THEN w ELSE user[x]
  BY DEF StoreInv, KeyTyped
<1>5. ASSUME NEW x \in StoreUser PROVE Holds(x, user[x])'
  <2>1. PICK y : y = user'[x]
    OBVIOUS
  <2>2. Holds(x, y)
    BY <1>4, <2>1 DEF StoreInv, HoldersSound
  <2>3. Holds(x, y)'
    BY <2>2 DEF Holds
  <2> QED BY <2>1, <2>3
<1> QED BY <1>1, <1>2, <1>3, <1>5 DEF StoreInv, HoldersSound

(* So does a step that writes a version while none is there.                *)
LEMMA VersionAdded ==
  ASSUME StoreInv, NEW u \in StoreUser, NEW w \in Putter, user' = [user EXCEPT ![u] = w],
         versions' = Append1(u), Live = {}, outages' \in Nat, puts' \in Nat,
         \/ Holds(u, w)
         \/ w.landed = Len(versions) + 1 /\ w.receipt = user[u].receipt
  PROVE  StoreInv'
<1> DEFINE fresh == [bytes |-> Payload[u], writer |-> u, live |-> TRUE]
<1>1. fresh \in Version
  BY DEF Version
<1>2. /\ versions' \in Seq(Version) /\ versions' = Append(versions, fresh)
      /\ DOMAIN versions = 1 .. Len(versions) /\ Len(versions) \in Nat
      /\ DOMAIN versions' = 1 .. Len(versions) + 1
      /\ \A v \in DOMAIN versions : versions'[v] = versions[v]
      /\ versions'[Len(versions) + 1] = fresh
  BY <1>1 DEF StoreInv, KeyTyped, Append1
<1>3. KeyTyped'
  BY <1>2 DEF StoreInv, KeyTyped
<1>4. WrittenAsPublished'
  BY <1>2 DEF StoreInv, WrittenAsPublished
<1>5. \A v \in DOMAIN versions : ~versions[v].live
  BY DEF Live
<1>6. OneLive'
  BY <1>2, <1>5 DEF OneLive
<1>7. \A x \in StoreUser : user'[x] = IF x = u THEN w ELSE user[x]
  BY DEF StoreInv, KeyTyped
<1>8. ASSUME NEW x \in StoreUser PROVE Holds(x, user[x])'
  <2>1. PICK y : y = user'[x]
    OBVIOUS
  <2>2. CASE Holds(x, y)
    <3>1. Holds(x, y)'
      BY <1>2, <2>2 DEF Holds
    <3> QED BY <2>1, <3>1
  <2>3. CASE ~Holds(x, y)
    <3>1. x = u /\ y = w /\ w.landed = Len(versions) + 1 /\ w.receipt = user[u].receipt
      BY <1>7, <2>1, <2>3 DEF StoreInv, HoldersSound
    <3>2. Holds(u, user[u])
      BY DEF StoreInv, HoldersSound
    <3>3. Holds(x, y)'
      BY <1>2, <3>1, <3>2 DEF Holds
    <3> QED BY <2>1, <3>3
  <2> QED BY <2>2, <2>3
<1> QED BY <1>3, <1>4, <1>6, <1>8 DEF StoreInv, HoldersSound

(* A user between calls, or with its PUT to come, holds nothing.            *)
LEMMA HoldingNothing ==
  /\ Unused \in Putter
  /\ \A u \in StoreUser : Holds(u, Unused)
  /\ \A n \in 0 .. MaxPutAttempts :
       /\ [Unused EXCEPT !.phase = "putting", !.attempt = n] \in Putter
       /\ \A u \in StoreUser : Holds(u, [Unused EXCEPT !.phase = "putting", !.attempt = n])
<1>1. NoReceipt \in [version : Nat, created : BOOLEAN] /\ NoReceipt.version = 0
  BY DEF NoReceipt
<1>2. Unused \in Putter /\ Unused.landed = 0 /\ Unused.phase = "idle"
      /\ Unused.receipt = NoReceipt
  BY <1>1, StoreAssumption DEF Unused, Putter
<1>3. \A u \in StoreUser : Holds(u, Unused)
  BY <1>1, <1>2 DEF Holds
<1>4. ASSUME NEW n \in 0 .. MaxPutAttempts, NEW w,
             w = [Unused EXCEPT !.phase = "putting", !.attempt = n]
      PROVE  w \in Putter /\ \A u \in StoreUser : Holds(u, w)
  <2>1. w = [phase |-> "putting", attempt |-> n, landed |-> 0, receipt |-> NoReceipt]
    BY <1>4 DEF Unused
  <2> QED BY <1>1, <2>1 DEF Holds, Putter
<1> QED BY <1>2, <1>3, <1>4

(* A receipt for a version with one's own bytes, which says created only of *)
(* a version one wrote, is sound.                                           *)
LEMMA ReceiptHeld ==
  ASSUME StoreInv, NEW u \in StoreUser, NEW v \in DOMAIN versions, NEW c \in BOOLEAN,
         versions[v].bytes = Payload[u], c => versions[v].writer = u, NEW w,
         w = [Unused EXCEPT !.receipt = [version |-> v, created |-> c]]
  PROVE  w \in Putter /\ Holds(u, w)
<1>1. v \in Nat /\ v # 0
  BY DEF StoreInv, KeyTyped
<1>2. w = [phase |-> "idle", attempt |-> 0, landed |-> 0,
           receipt |-> [version |-> v, created |-> c]]
  BY DEF Unused
<1>3. w \in Putter
  <2>1. PICK r : r = [version |-> v, created |-> c]
    OBVIOUS
  <2>2. r \in [version : Nat, created : BOOLEAN]
    BY <1>1, <2>1
  <2>3. 0 \in 0 .. MaxPutAttempts
    BY StoreAssumption
  <2>4. w = [phase |-> "idle", attempt |-> 0, landed |-> 0, receipt |-> r]
    BY <1>2, <2>1
  <2> HIDE <2>1
  <2> QED BY <2>2, <2>3, <2>4 DEF Putter, Unused
<1>4. Holds(u, w)
  BY <1>1, <1>2 DEF Holds
<1> QED BY <1>3, <1>4

(* The version a HEAD finds is one that is there.                           *)
LEMMA HeadFinds == ASSUME StoreInv, Live # {} PROVE Max(Live) \in DOMAIN versions
<1>1. Len(versions) \in Nat /\ DOMAIN versions = 1 .. Len(versions)
  BY DEF StoreInv, KeyTyped
<1>2. Live \in SUBSET (0 .. Len(versions))
  BY <1>1 DEF Live
<1>3. Max(Live) \in Live
  BY <1>1, <1>2, MaxIsGreatest
<1> QED BY <1>3 DEF Live

(* What finding a version under the key makes of a put.                     *)
LEMMA ReconcileKeeps ==
  ASSUME StoreInv, NEW u \in StoreUser, Live # {}, Reconcile(u, Max(Live)),
         UNCHANGED versions, outages' \in Nat, puts' \in Nat
  PROVE  StoreInv'
<1>1. Max(Live) \in DOMAIN versions
  BY HeadFinds
<1>2. PICK w : w = IF Same(Max(Live), u)
                   THEN [Unused EXCEPT !.receipt = Found(u, Max(Live))] ELSE Unused
  OBVIOUS
<1>3. w \in Putter /\ Holds(u, w)
  <2>1. CASE Same(Max(Live), u)
    BY <1>1, <1>2, <2>1, ReceiptHeld DEF Same, Found
  <2>2. CASE ~Same(Max(Live), u)
    BY <1>2, <2>2, HoldingNothing
  <2> QED BY <2>1, <2>2
<1>4. user' = [user EXCEPT ![u] = w]
  BY <1>2 DEF Reconcile, Become
<1>5. versions' \in Seq(Version)
  BY DEF StoreInv, KeyTyped
<1> QED BY <1>3, <1>4, <1>5, VersionsKept

(* Every step of a user keeps the invariant.                                *)
LEMMA StoreInvStep == StoreInv /\ [StoreNext]_storeVars => StoreInv'
<1> SUFFICES ASSUME StoreInv, [StoreNext]_storeVars PROVE StoreInv'
  OBVIOUS
<1>1. outages \in Nat /\ puts \in Nat /\ outages + 1 \in Nat /\ puts + 1 \in Nat
      /\ versions \in Seq(Version)
  BY DEF StoreInv, KeyTyped
<1>2. CASE UNCHANGED storeVars
  BY <1>2 DEF storeVars, StoreInv, KeyTyped, WrittenAsPublished, OneLive, HoldersSound, Holds
<1>3. CASE StoreNext
  <2>1. PICK u \in StoreUser :
          \/ HeadFirst(u) \/ PutLands(u) \/ PutFails(u) \/ PreconditionFails(u) \/ Reread(u)
          \/ Confirm(u) \/ Cleanup(u) \/ UserDies(u)
    BY <1>3 DEF StoreNext
  <2>2. user[u] \in Putter /\ Holds(u, user[u])
    BY DEF StoreInv, KeyTyped, HoldersSound
  <2>3. CASE HeadFirst(u)
    <3>1. puts' \in Nat /\ outages' \in Nat /\ UNCHANGED versions
      BY <1>1, <2>3 DEF HeadFirst
    <3>2. CASE Live = {}
      <4>1. PICK w : w = [Unused EXCEPT !.phase = "putting", !.attempt = 1]
        OBVIOUS
      <4>2. 1 \in 0 .. MaxPutAttempts
        BY StoreAssumption
      <4>4. w \in Putter /\ Holds(u, w)
        BY <4>1, <4>2, HoldingNothing
      <4>3. user' = [user EXCEPT ![u] = w]
        BY <2>3, <3>2, <4>1 DEF HeadFirst, Become
      <4> QED BY <1>1, <3>1, <4>3, <4>4, VersionsKept
    <3>3. CASE Live # {}
      BY <2>3, <3>1, <3>3, ReconcileKeeps DEF HeadFirst
    <3> QED BY <3>2, <3>3
  <2>4. CASE PutLands(u)
    <3>1. PICK w : w = [user[u] EXCEPT !.phase = "confirming", !.landed = Len(versions) + 1]
      OBVIOUS
    <3>2. Len(versions) + 1 \in Nat
      BY <1>1
    <3>3. /\ w \in Putter /\ w.landed = Len(versions) + 1
          /\ w.receipt = user[u].receipt /\ w.phase = "confirming"
      BY <2>2, <3>1, <3>2 DEF Putter
    <3>4. /\ user' = [user EXCEPT ![u] = w] /\ versions' = Append1(u) /\ Live = {}
          /\ outages' \in Nat /\ puts' \in Nat
      BY <1>1, <2>4, <3>1 DEF PutLands, Become, Precondition
    <3> QED BY <2>2, <3>3, <3>4, VersionAdded DEF Holds
  <2>5. CASE PutFails(u)
    <3>1. PICK w : w = IF AttemptsLeft(u) THEN [user[u] EXCEPT !.attempt = @ + 1] ELSE Unused
      OBVIOUS
    <3>2. w \in Putter /\ Holds(u, w)
      <4>1. CASE AttemptsLeft(u)
        <5>1. /\ user[u].attempt + 1 \in 0 .. MaxPutAttempts
              /\ user[u].attempt \in Nat
          BY <2>2, <4>1, StoreAssumption DEF Putter, AttemptsLeft
        <5>2. w \in Putter /\ w.landed = user[u].landed /\ w.phase = user[u].phase
              /\ w.receipt = user[u].receipt
          BY <2>2, <3>1, <4>1, <5>1 DEF Putter
        <5> QED BY <2>2, <5>2 DEF Holds
      <4>2. CASE ~AttemptsLeft(u)
        BY <3>1, <4>2, HoldingNothing
      <4> QED BY <4>1, <4>2
    <3>3. user' = [user EXCEPT ![u] = w] /\ outages' \in Nat /\ puts' \in Nat
      BY <1>1, <2>5, <3>1 DEF PutFails, Become, Fault
    <3>4. CASE UNCHANGED versions
      BY <1>1, <3>2, <3>3, <3>4, VersionsKept
    <3>5. CASE Precondition /\ versions' = Append1(u)
      BY <3>2, <3>3, <3>5, VersionAdded DEF Precondition
    <3> QED BY <2>5, <3>4, <3>5 DEF PutFails
  <2>6. CASE PreconditionFails(u)
    <3>1. PICK w : w = [user[u] EXCEPT !.phase = "rereading"]
      OBVIOUS
    <3>2. w \in Putter /\ w.landed = user[u].landed /\ w.phase = "rereading"
          /\ w.receipt = user[u].receipt
      BY <2>2, <3>1 DEF Putter
    <3>3. Holds(u, w)
      BY <2>2, <3>2 DEF Holds
    <3> QED BY <1>1, <2>6, <3>1, <3>2, <3>3, VersionsKept DEF PreconditionFails, Become
  <2>7. CASE Reread(u)
    <3>1. CASE Live = {}
      BY <1>1, <2>7, <3>1, HoldingNothing, VersionsKept DEF Reread, Become
    <3>2. CASE Live # {}
      BY <1>1, <2>7, <3>2, ReconcileKeeps DEF Reread
    <3> QED BY <3>1, <3>2
  <2>8. CASE Confirm(u)
    <3>1. CASE Fault /\ Become(u, Unused)
      BY <1>1, <2>8, <3>1, HoldingNothing, VersionsKept DEF Confirm, Become, Fault
    <3>2. CASE ~(Fault /\ Become(u, Unused))
      <4>1. PICK w :
              w = [Unused EXCEPT !.receipt = [version |-> user[u].landed, created |-> TRUE]]
        OBVIOUS
      <4>2. user' = [user EXCEPT ![u] = w] /\ UNCHANGED <<outages, versions, puts>>
            /\ user[u].phase = "confirming"
        BY <2>8, <3>2, <4>1 DEF Confirm, Become
      <4>3. user[u].landed \in DOMAIN versions /\ versions[user[u].landed].writer = u
        BY <2>2, <4>2 DEF Holds
      <4>4. versions[user[u].landed].bytes = Payload[u]
        BY <4>3 DEF StoreInv, WrittenAsPublished
      <4>5. w \in Putter /\ Holds(u, w)
        BY <4>1, <4>3, <4>4, ReceiptHeld
      <4> QED BY <1>1, <4>2, <4>5, VersionsKept
    <3> QED BY <3>1, <3>2
  <2>9. CASE Cleanup(u)
    <3>1. PICK r : r = user[u].receipt
      OBVIOUS
    <3>2. r # NoReceipt /\ r.version \in DOMAIN versions
      BY <2>2, <2>9, <3>1 DEF Cleanup, Holds
    <3>3. versions' = IF r.created THEN [versions EXCEPT ![r.version].live = FALSE] ELSE versions
      BY <2>9, <3>1 DEF Cleanup
    <3>4. \A v \in DOMAIN versions : versions[v] \in Version
      BY <1>1
    <3>5. versions' \in Seq(Version) /\ DOMAIN versions' = DOMAIN versions
      <4>1. CASE r.created
        <5>1. PICK x : x = [versions[r.version] EXCEPT !.live = FALSE]
          OBVIOUS
        <5>2. x \in Version
          BY <3>2, <3>4, <5>1 DEF Version
        <5>3. versions' = [versions EXCEPT ![r.version] = x]
          BY <3>2, <3>3, <4>1, <5>1
        <5> QED BY <1>1, <3>2, <5>2, <5>3
      <4>2. CASE ~r.created
        BY <1>1, <3>3, <4>2
      <4> QED BY <4>1, <4>2
    <3>6. \A v \in DOMAIN versions :
            /\ versions'[v].bytes = versions[v].bytes /\ versions'[v].writer = versions[v].writer
            /\ versions'[v].live => versions[v].live
      BY <3>2, <3>3, <3>4 DEF Version
    <3> QED BY <1>1, <2>9, <3>5, <3>6, HoldingNothing, VersionsKept DEF Cleanup, Become
  <2>10. CASE UserDies(u)
    BY <1>1, <2>10, HoldingNothing, VersionsKept DEF UserDies, Become, Fault
  <2> QED BY <2>1, <2>3, <2>4, <2>5, <2>6, <2>7, <2>8, <2>9, <2>10
<1> QED BY <1>2, <1>3

(* The invariant says what the store promises.                              *)
LEMMA StoreInvMeans == StoreInv => StoreTypeOK /\ StoreImmutable
<1> SUFFICES ASSUME StoreInv PROVE StoreTypeOK /\ StoreImmutable
  OBVIOUS
<1>1. StoreTypeOK
  <2>1. \A v \in DOMAIN versions : versions[v] \in Version
    BY DEF StoreInv, KeyTyped
  <2>2. \A v \in DOMAIN versions :
          versions[v].writer \in StoreUser /\ versions[v].live \in BOOLEAN
    BY <2>1 DEF Version
  <2>3. \A u \in StoreUser : user[u] \in Putter /\ Holds(u, user[u])
    BY DEF StoreInv, KeyTyped, HoldersSound
  <2> QED BY <2>2, <2>3 DEF StoreTypeOK, Putter, Holds, StoreInv, KeyTyped
<1>2. Cardinality(Live) <= 1
  <2>1. CASE Live = {}
    BY <2>1, FS_EmptySet
  <2>2. CASE Live # {}
    <3>1. PICK v \in Live : TRUE
      BY <2>2
    <3>2. Live = {v}
      BY <3>1 DEF Live, StoreInv, OneLive
    <3>3. Cardinality({v}) = 1
      BY FS_Singleton
    <3> QED BY <3>2, <3>3
  <2> QED BY <2>1, <2>2
<1>3. \A u \in StoreUser : user[u].receipt # NoReceipt =>
        /\ Same(user[u].receipt.version, u)
        /\ user[u].receipt.created => versions[user[u].receipt.version].writer = u
  BY DEF StoreInv, HoldersSound, Holds, Same
<1> QED BY <1>1, <1>2, <1>3 DEF StoreImmutable

(* S3ObjectStore.put and delete on one key: for any number of users, of     *)
(* attempts, of outages and of deaths, every variable keeps its type.       *)
THEOREM StoreTypeCorrect == StoreSpec => []StoreTypeOK
<1> QED BY StoreInvInit, StoreInvStep, StoreInvMeans, PTL DEF StoreSpec

(* A key holds at most one version; a receipt names a version with the      *)
(* bytes its holder published; and one that lets its holder delete names a  *)
(* version that holder wrote, whatever was retried or reread before.        *)
THEOREM StoreStaysImmutable == StoreSpec => []StoreImmutable
<1> QED BY StoreInvInit, StoreInvStep, StoreInvMeans, PTL DEF StoreSpec

-----------------------------------------------------------------------------
(* Instrument registry: who carried a symbol when.                          *)

(* Two rows that would answer the same question.                           *)
Alike(r, s) == r.venue = s.venue /\ (r.ticker = s.ticker \/ r.instrument = s.instrument)

Keyed(table) == \A r, s \in table : RowIdOf(r) = RowIdOf(s) => r = s
Disjoint(table) == \A r, s \in table : Alike(r, s) => r = s \/ ~PeriodsOverlap(r, s)

(* What one writer at a time makes of the tables: no two rows answer the    *)
(* same question at one instant, every row is of a registered instrument,   *)
(* and what was checked may still be written.                               *)
RegistryInv ==
  /\ RegistryTypeOK
  /\ Disjoint(periods)
  /\ \A r \in periods \cup writing : Registered(r.instrument)
  /\ \A a, b \in writing : a = b
  /\ \A a \in writing : Assignable(Candidates(a), a)

(* An empty registry is sound.                                              *)
LEMMA RegistryInvInit == RegistryInit => RegistryInv
BY DEF RegistryInit, RegistryInv, RegistryTypeOK, Disjoint

(* A row that overlaps none of the rows it could be taken for, its own      *)
(* former version apart, may be written among them.                         *)
LEMMA UpsertKeeps ==
  ASSUME NEW table \in SUBSET Assignments, NEW a \in Assignments, Keyed(table), Disjoint(table),
         \A r \in table : Alike(r, a) => RowIdOf(r) = RowIdOf(a) \/ ~PeriodsOverlap(r, a)
  PROVE  /\ Upserted(table, a) \in SUBSET Assignments
         /\ Keyed(Upserted(table, a)) /\ Disjoint(Upserted(table, a))
<1>1. \A r \in Upserted(table, a) : r = a \/ (r \in table /\ RowIdOf(r) # RowIdOf(a))
  BY DEF Upserted
<1>2. Keyed(Upserted(table, a))
  BY <1>1 DEF Keyed
<1>3. \A r, s : PeriodsOverlap(r, s) <=> PeriodsOverlap(s, r)
  BY DEF PeriodsOverlap
<1>4. \A r, s : Alike(r, s) <=> Alike(s, r)
  BY DEF Alike
<1>5. Disjoint(Upserted(table, a))
  BY <1>1, <1>3, <1>4 DEF Disjoint
<1> QED BY <1>1, <1>2, <1>5

(* Two assignments with one id that are both in force are one row.          *)
LEMMA OpenEndedKeyed == Keyed(OpenEnded)
<1> SUFFICES ASSUME NEW r \in OpenEnded, NEW s \in OpenEnded, RowIdOf(r) = RowIdOf(s)
             PROVE  r = s
  BY DEF Keyed
<1>1. r = [instrument |-> r.instrument, venue |-> r.venue, ticker |-> r.ticker,
           from |-> r.from, to |-> r.to]
  BY DEF OpenEnded, Assignments
<1>2. s = [instrument |-> s.instrument, venue |-> s.venue, ticker |-> s.ticker,
           from |-> s.from, to |-> s.to]
  BY DEF OpenEnded, Assignments
<1>3. /\ r.instrument = s.instrument /\ r.venue = s.venue /\ r.ticker = s.ticker
      /\ r.from = s.from
  BY DEF RowIdOf
<1>4. r.to = s.to
  BY DEF OpenEnded
<1> QED BY <1>1, <1>2, <1>3, <1>4

(* The period in force, closed later than it began.                         *)
LEMMA ClosedIsAssignment ==
  ASSUME NEW current \in Assignments, current.to = Open, NEW moment \in 1 .. MaxInstant,
         current.from < moment
  PROVE  /\ ClosesAt(current, moment) \in Assignments
         /\ RowIdOf(ClosesAt(current, moment)) = RowIdOf(current)
         /\ ClosesAt(current, moment).instrument = current.instrument
         /\ \A r \in Assignments :
              /\ Alike(r, ClosesAt(current, moment)) => Alike(r, current)
              /\ PeriodsOverlap(r, ClosesAt(current, moment)) => PeriodsOverlap(r, current)
<1>1. PICK c : c = ClosesAt(current, moment)
  OBVIOUS
<1>2. /\ c.instrument = current.instrument /\ c.venue = current.venue
      /\ c.ticker = current.ticker /\ c.from = current.from /\ c.to = moment
  BY <1>1 DEF ClosesAt, Assignments
<1>3. current.from \in 1 .. MaxInstant /\ moment \in 2 .. MaxInstant
  BY RegistryAssumption DEF Assignments
<1>4. c \in [instrument : Instrument, venue : Venue, ticker : Ticker,
             from : 1 .. MaxInstant, to : (2 .. MaxInstant) \cup {Open}]
  BY <1>1, <1>3 DEF ClosesAt, Assignments
<1>5. c \in Assignments
  BY <1>2, <1>4 DEF Assignments
<1>6. RowIdOf(c) = RowIdOf(current)
  BY <1>2 DEF RowIdOf
<1>7. \A r \in Assignments :
        /\ Alike(r, c) => Alike(r, current)
        /\ PeriodsOverlap(r, c) => PeriodsOverlap(r, current)
  BY <1>2 DEF Alike, PeriodsOverlap
<1> QED BY <1>1, <1>2, <1>5, <1>6, <1>7

(* Rows that were checked may be written as long as nothing else was.       *)
OneWriter == MaxWriters = 1

(* With one writer, the one that acts is the only one: its check is not     *)
(* overtaken.                                                               *)
LEMMA NobodyWriting ==
  ASSUME OneWriter, RegistryInv, Cardinality(writing) < MaxWriters
  PROVE  writing = {}
<1> SUFFICES ASSUME NEW a \in writing PROVE FALSE
  OBVIOUS
<1>1. writing = {a}
  BY DEF RegistryInv
<1> QED BY <1>1, FS_Singleton DEF OneWriter

(* With one writer, every step leaves a sound registry sound.               *)
LEMMA RegistryInvStep ==
  ASSUME OneWriter PROVE RegistryInv /\ [RegistryNext]_registryVars => RegistryInv'
<1> SUFFICES ASSUME RegistryInv, [RegistryNext]_registryVars PROVE RegistryInv'
  OBVIOUS
<1> USE DEF Registered
<1>1. /\ RegistryTypeOK /\ periods \in SUBSET Assignments /\ writing \in SUBSET Assignments
      /\ Keyed(periods) /\ Disjoint(periods)
      /\ instruments \in [Instrument -> [identity : Identity, fact : Fact] \cup {Absent}]
      /\ calendar \in [CalendarSession -> SessionType \cup {Absent}]
      /\ \A r \in periods \cup writing : Registered(r.instrument)
  BY DEF RegistryInv, RegistryTypeOK, Keyed
<1>2. CASE UNCHANGED registryVars
  <2>1. Disjoint(periods)' /\ RegistryTypeOK'
    BY <1>1, <1>2 DEF registryVars, Disjoint, RegistryTypeOK
  <2>2. (\A a \in writing : Assignable(Candidates(a), a))'
    BY <1>2 DEF registryVars, RegistryInv, Assignable, Candidates
  <2> QED BY <1>1, <1>2, <2>1, <2>2 DEF registryVars, RegistryInv
<1>3. ASSUME NEW i \in Instrument, NEW identity \in Identity, NEW fact \in Fact,
             Register(i, identity, fact)
      PROVE  RegistryInv'
  <2>1. PICK row : row = [identity |-> identity, fact |-> fact]
    OBVIOUS
  <2>2. row \in [identity : Identity, fact : Fact] /\ row # Absent
    BY <2>1, RegistryAssumption
  <2>3. /\ instruments' = [instruments EXCEPT ![i] = row]
        /\ UNCHANGED <<periods, calendar, writing>>
    BY <1>3, <2>1 DEF Register
  <2>4. /\ instruments' \in [Instrument -> [identity : Identity, fact : Fact] \cup {Absent}]
        /\ \A j \in Instrument : instruments[j] # Absent => instruments'[j] # Absent
    BY <1>1, <2>2, <2>3
  <2>5. \A r \in periods \cup writing : r.instrument \in Instrument
    BY <1>1 DEF Assignments
  <2>6. RegistryTypeOK' /\ Disjoint(periods)'
    BY <1>1, <2>3, <2>4 DEF RegistryTypeOK, Disjoint
  <2>7. (\A r \in periods \cup writing : Registered(r.instrument))'
    BY <1>1, <2>3, <2>4, <2>5
  <2>8. (\A a \in writing : Assignable(Candidates(a), a))'
    BY <2>3, <2>7 DEF RegistryInv, Assignable, Candidates
  <2> QED BY <2>3, <2>6, <2>7, <2>8 DEF RegistryInv
<1>4. ASSUME NEW a \in Assignments, CheckAssignment(a) PROVE RegistryInv'
  <2>1. writing = {}
    BY <1>4, NobodyWriting DEF CheckAssignment
  <2>2. /\ writing' = {a} /\ UNCHANGED <<instruments, periods, calendar>>
        /\ Assignable(Candidates(a), a)
    BY <1>4, <2>1 DEF CheckAssignment
  <2>3. RegistryTypeOK' /\ Disjoint(periods)'
    BY <1>1, <2>2 DEF RegistryTypeOK, Disjoint
  <2>4. (\A b \in writing : Assignable(Candidates(b), b))'
    BY <2>2 DEF Assignable, Candidates
  <2>5. (\A r \in periods \cup writing : Registered(r.instrument))'
    BY <1>1, <2>2 DEF Assignable
  <2>6. (\A b, c \in writing : b = c)'
    BY <2>2
  <2> QED BY <2>3, <2>4, <2>5, <2>6 DEF RegistryInv
<1>5. ASSUME NEW a \in Assignments, WriteAssignment(a) PROVE RegistryInv'
  <2>1. /\ a \in writing /\ writing' = {} /\ periods' = Upserted(periods, a)
        /\ UNCHANGED <<instruments, calendar>>
    BY <1>5 DEF WriteAssignment, RegistryInv
  <2>2. Assignable(Candidates(a), a)
    BY <2>1 DEF RegistryInv
  <2>3. \A r \in periods : Alike(r, a) => RowIdOf(r) = RowIdOf(a) \/ ~PeriodsOverlap(r, a)
    BY <2>2 DEF Assignable, Candidates, Alike
  <2>4. periods' \in SUBSET Assignments /\ Keyed(periods') /\ Disjoint(periods')
    BY <1>1, <2>1, <2>3, UpsertKeeps
  <2>5. RegistryTypeOK'
    BY <1>1, <2>1, <2>4 DEF RegistryTypeOK, Keyed
  <2>6. (\A r \in periods \cup writing : Registered(r.instrument))'
    BY <1>1, <2>1 DEF Upserted
  <2> QED BY <2>1, <2>4, <2>5, <2>6 DEF RegistryInv, Disjoint
<1>6. ASSUME NEW a \in OpenEnded, NEW b \in OpenEnded, NEW identity \in Identity,
             NEW fact \in Fact, NEW sessions \in SUBSET CalendarSession,
             NEW type \in SessionType,
             LoadReferenceData({a, b}, identity, fact, sessions, type)
      PROVE  RegistryInv'
  <2>1. PICK row : row = [identity |-> identity, fact |-> fact]
    OBVIOUS
  <2>2. row \in [identity : Identity, fact : Fact] /\ row # Absent
    BY <2>1, RegistryAssumption
  <2>3. PICK table : table = {a, b}
    OBVIOUS
  <2>4. table \in SUBSET Assignments /\ Keyed(table)
    BY <2>3, OpenEndedKeyed DEF OpenEnded, Keyed
  <2>5. /\ instruments' = [i \in Instrument |-> IF \E x \in table : x.instrument = i
                                                THEN row ELSE instruments[i]]
        /\ periods' = {r \in periods : \A x \in table : RowIdOf(r) # RowIdOf(x)} \cup table
        /\ calendar' = [s \in CalendarSession |-> IF s \in sessions THEN type ELSE calendar[s]]
        /\ UNCHANGED writing
        /\ \A x \in table : \A r \in Candidates(x) \cup (table \ {x}) :
             RowIdOf(r) = RowIdOf(x) \/ r.venue # x.venue
             \/ (r.ticker # x.ticker /\ r.instrument # x.instrument) \/ ~PeriodsOverlap(r, x)
    BY <1>6, <2>1, <2>3 DEF LoadReferenceData
  <2>6. writing = {}
    BY <1>6, NobodyWriting DEF LoadReferenceData
  <2>7. /\ instruments' \in [Instrument -> [identity : Identity, fact : Fact] \cup {Absent}]
        /\ \A j \in Instrument : instruments[j] # Absent => instruments'[j] # Absent
        /\ \A x \in table : x.instrument \in Instrument => instruments'[x.instrument] # Absent
    BY <1>1, <2>2, <2>5
  <2>8. calendar' \in [CalendarSession -> SessionType \cup {Absent}]
    BY <1>1, <2>5
  <2>9. periods' \in SUBSET Assignments /\ Keyed(periods')
    BY <1>1, <2>4, <2>5 DEF Keyed
  <2>10. \A x \in table, r \in periods \cup table :
           Alike(r, x) /\ RowIdOf(r) # RowIdOf(x) => ~PeriodsOverlap(r, x)
    BY <2>5 DEF Candidates, Alike
  <2>11. Disjoint(periods')
    <3>1. \A r, s : (PeriodsOverlap(r, s) <=> PeriodsOverlap(s, r)) /\ (Alike(r, s) <=> Alike(s, r))
      BY DEF PeriodsOverlap, Alike
    <3>2. ASSUME NEW r \in periods', NEW s \in periods', Alike(r, s), r # s
          PROVE  ~PeriodsOverlap(r, s)
      <4>1. RowIdOf(r) # RowIdOf(s)
        BY <2>9, <3>2 DEF Keyed
      <4>2. CASE r \in table \/ s \in table
        BY <2>5, <2>10, <3>1, <3>2, <4>1, <4>2
      <4>3. CASE r \notin table /\ s \notin table
        BY <1>1, <2>5, <3>2, <4>3 DEF Disjoint
      <4> QED BY <4>2, <4>3
    <3> QED BY <3>2 DEF Disjoint
  <2>12. \A r \in periods' : r.instrument \in Instrument
    BY <2>9 DEF Assignments
  <2>13. (\A r \in periods \cup writing : Registered(r.instrument))'
    BY <1>1, <2>5, <2>6, <2>7, <2>12
  <2>14. RegistryTypeOK'
    BY <1>1, <2>5, <2>7, <2>8, <2>9 DEF RegistryTypeOK, Keyed
  <2> QED BY <2>5, <2>6, <2>11, <2>13, <2>14 DEF RegistryInv, Disjoint
<1>7. ASSUME NEW i \in Instrument, NEW venue \in Venue, NEW ticker \in Ticker,
             NEW moment \in 1 .. MaxInstant, NEW transaction \in BOOLEAN,
             Rename(i, venue, ticker, moment, transaction)
      PROVE  RegistryInv'
  <2>1. PICK current \in OpenRows(i, venue) :
          /\ current.from < moment
          /\ LET closed == Upserted(periods, ClosesAt(current, moment))
                 next == [instrument |-> i, venue |-> venue, ticker |-> ticker,
                          from |-> moment, to |-> Open]
                 held == {r \in closed : r.venue = venue
                                         /\ (r.ticker = ticker \/ r.instrument = i)}
             IN periods' = IF \A r \in held : RowIdOf(r) = RowIdOf(next)
                                              \/ ~PeriodsOverlap(r, next)
                           THEN Upserted(closed, next)
                           ELSE IF transaction THEN periods ELSE closed
    BY <1>7 DEF Rename
  <2>2. writing = {} /\ UNCHANGED <<instruments, calendar, writing>>
    BY <1>7, NobodyWriting DEF Rename
  <2>3. current \in periods /\ current.instrument = i /\ current.to = Open
    BY <2>1 DEF OpenRows
  <2>4. PICK c : c = ClosesAt(current, moment)
    OBVIOUS
  <2>5. /\ c \in Assignments /\ RowIdOf(c) = RowIdOf(current) /\ c.instrument = i
        /\ \A r \in Assignments : /\ Alike(r, c) => Alike(r, current)
                                  /\ PeriodsOverlap(r, c) => PeriodsOverlap(r, current)
    BY <1>1, <2>1, <2>3, <2>4, ClosedIsAssignment
  <2>6. PICK closed : closed = Upserted(periods, c)
    OBVIOUS
  <2>7. \A r \in periods : Alike(r, c) => RowIdOf(r) = RowIdOf(c) \/ ~PeriodsOverlap(r, c)
    BY <1>1, <2>3, <2>5 DEF Disjoint
  <2>8. closed \in SUBSET Assignments /\ Keyed(closed) /\ Disjoint(closed)
    BY <1>1, <2>5, <2>6, <2>7, UpsertKeeps
  <2>9. PICK next : next = [instrument |-> i, venue |-> venue, ticker |-> ticker,
                            from |-> moment, to |-> Open]
    OBVIOUS
  <2>10. next \in Assignments /\ next.instrument = i /\ next.venue = venue /\ next.ticker = ticker
    BY <2>9 DEF Assignments
  <2>11. \/ /\ periods' = Upserted(closed, next)
            /\ \A r \in closed : Alike(r, next) =>
                 RowIdOf(r) = RowIdOf(next) \/ ~PeriodsOverlap(r, next)
         \/ periods' = periods
         \/ periods' = closed
    BY <2>1, <2>4, <2>6, <2>9, <2>10 DEF Alike
  <2>12. periods' \in SUBSET Assignments /\ Keyed(periods') /\ Disjoint(periods')
    BY <1>1, <2>8, <2>10, <2>11, UpsertKeeps
  <2>13. \A r \in periods' : r \in periods \/ r.instrument = i
    BY <2>5, <2>6, <2>10, <2>11 DEF Upserted
  <2>14. (\A r \in periods \cup writing : Registered(r.instrument))'
    BY <1>1, <2>2, <2>3, <2>13
  <2>15. RegistryTypeOK'
    BY <1>1, <2>2, <2>12 DEF RegistryTypeOK, Keyed
  <2> QED BY <2>2, <2>12, <2>14, <2>15 DEF RegistryInv, Disjoint
<1> QED BY <1>2, <1>3, <1>4, <1>5, <1>6, <1>7 DEF RegistryNext

(* Rows in force at one instant overlap.                                    *)
LEMMA RegistryInvMeans == RegistryInv => OneAnswer
<1> SUFFICES ASSUME RegistryInv, NEW moment \in 1 .. MaxInstant
             PROVE  /\ \A r, s \in InForce(moment) : Alike(r, s) => r = s
                    /\ \A r \in InForce(moment) : Registered(r.instrument)
  BY DEF OneAnswer, Alike
<1>1. \A r \in InForce(moment) : r \in periods /\ r \in Assignments
                                 /\ r.from <= moment /\ (r.to = Open \/ moment < r.to)
  BY DEF InForce, RegistryInv, RegistryTypeOK
<1>2. ASSUME NEW r \in InForce(moment), NEW s \in InForce(moment) PROVE PeriodsOverlap(r, s)
  <2>1. /\ r.from \in Int /\ s.from \in Int /\ moment \in Int
        /\ r.to # Open => r.to \in Int
        /\ s.to # Open => s.to \in Int
    BY <1>1 DEF Assignments
  <2> QED BY <1>1, <2>1 DEF PeriodsOverlap
<1>3. \A r, s \in InForce(moment) : Alike(r, s) => r = s
  BY <1>1, <1>2 DEF RegistryInv, Disjoint
<1> QED BY <1>1, <1>3 DEF RegistryInv

(* InstrumentRegistry with one writer at a time: for every set of           *)
(* instruments, venues, tickers and instants, a symbol has one answer at    *)
(* every instant, whatever was assigned, renamed, loaded or refused halfway.*)
THEOREM OneAnswerAlways == ASSUME OneWriter PROVE RegistrySpec => []OneAnswer
<1> QED BY RegistryInvInit, RegistryInvStep, RegistryInvMeans, PTL DEF RegistrySpec

-----------------------------------------------------------------------------
(* Catalog commands: tables that are replayed.                              *)

(* A catalog nobody else writes: one release, the newest of its revisions,  *)
(* and every hash over the listing, of objects that have their row.         *)
TableSound(t) ==
  /\ \A r, s \in Releases(t) : r = s
  /\ \A r \in Present(t) : \E h \in Releases(t) : r <= h
  /\ \A r \in Present(t) :
       t.manifest[r].hash = ListingOf(t, r) /\ ListingOf(t, r) \subseteq Objects(t)
  /\ \A p \in t.relation : p[1] \in Present(t)

(* Nothing of the first is missing in the second.                           *)
Follows(s, t) ==
  Present(s) \subseteq Present(t) /\ s.relation \subseteq t.relation /\ Objects(s) \subseteq Objects(t)

Later == {"relations", "rights", "writing"}
AllRead == {"rights", "writing"}

(* Rows read table by table: the manifests of an earlier catalog, whose     *)
(* listings the catalog never changes; then their objects; then relations   *)
(* that hold those listings.                                                *)
ReadSound(t, phase, full) ==
  /\ \A r, s \in Releases(t) : r = s
  /\ \A r \in Present(t) : \E h \in Releases(t) : r <= h
  /\ \A r \in Present(t) : r \in Present(full) /\ t.manifest[r].hash = ListingOf(full, r)
  /\ Objects(t) \subseteq Objects(full) /\ t.relation \subseteq full.relation
  /\ phase \in Later => \A r \in Present(t) : ListingOf(full, r) \subseteq Objects(t)
  /\ phase \in AllRead => \A r \in Present(t) : ListingOf(t, r) = ListingOf(full, r)

(* What is in the database is behind each table that was read.              *)
ReadFollows(b, t, phase) ==
  /\ phase # "idle" => Present(b) \subseteq Present(t)
  /\ phase \in Later => Objects(b) \subseteq Objects(t)
  /\ phase \in AllRead => b.relation \subseteq t.relation

(* The local catalog only grows, and while apply is the only writer of the  *)
(* database, what was replayed is behind what was read and what was read is *)
(* behind the catalog.                                                      *)
ReplayInv ==
  /\ home \in Tables /\ base.tables \in Tables /\ plan.rows \in Tables
  /\ worked \in Nat
  /\ TableSound(home) /\ ReadSound(plan.rows, plan.phase, home)
  /\ worked = 0 =>
       /\ TableSound(base.tables) /\ Follows(base.tables, home)
       /\ ReadFollows(base.tables, plan.rows, plan.phase)

PlanRows == [phase : {"idle", "objects", "relations", "rights", "writing"}, rows : Tables,
             provider : {Unreviewed, Approved}]

RightsInv ==
  /\ base \in [tables : Tables, provider : {NoSuchRow, Approved, Suspended}]
  /\ plan \in PlanRows
  /\ plan.phase = "writing" => plan.provider = Approved

DamageInv ==
  /\ home \in Tables /\ \A p \in home.relation : p[1] \in Present(home)
  /\ damaged \subseteq Content
  /\ validated.over \subseteq damaged /\ validated.incidents \subseteq damaged
  /\ validated.passed => \A p \in home.relation : p[2] \notin validated.over
  /\ \A p \in home.relation : p[2] \in validated.over => p[2] \in validated.incidents

UploadRows == [phase : {"idle", "manifests", "objects", "relations"},
               listed : SUBSET Content, done : SUBSET Content]

CopyRows == [manifest : SUBSET Number, object : SUBSET Content,
             relation : SUBSET (Number \X Content)]

UploadInv ==
  /\ home \in Tables /\ remote \subseteq Content
  /\ upload \in UploadRows /\ copy \in CopyRows
  /\ upload.done \subseteq upload.listed
  /\ upload.phase \in {"objects", "relations"} => upload.done = upload.listed
  /\ upload.done \subseteq remote
  /\ copy.object \subseteq remote

ApplyInv == ReplayInv /\ RightsInv /\ DamageInv /\ UploadInv

ManifestRows == [status : {"AVAILABLE", "SUPERSEDED"}, hash : SUBSET Content]

(* The newest release of a table.                                           *)
LEMMA HeadOfTable ==
  ASSUME NEW t \in Tables
  PROVE  /\ HeadOf(t) \in 0 .. MaxRevision
         /\ Releases(t) = {} => HeadOf(t) = 0
         /\ Releases(t) # {} => HeadOf(t) \in Releases(t)
<1>1. MaxRevision \in Nat
  BY ApplyAssumption
<1>2. Releases(t) \in SUBSET (0 .. MaxRevision)
  BY <1>1 DEF Releases, Present, Number
<1>3. CASE Releases(t) = {}
  BY <1>1, <1>3 DEF HeadOf
<1>4. CASE Releases(t) # {}
  <2>1. Max(Releases(t)) \in Releases(t)
    BY <1>1, <1>2, <1>4, MaxIsGreatest
  <2> QED BY <1>2, <1>4, <2>1 DEF HeadOf
<1> QED BY <1>3, <1>4

(* One table becomes another when a revision with the content is published. *)
Published(t, u, c) ==
  /\ HeadOf(t) < MaxRevision
  /\ \E side \in {"local", "worker"}, keep \in BOOLEAN : u = Publishes(t, side, c, keep)

(* The new revision lists what the newest one listed, and the content.      *)
AddedTo(t, u, c, n, listed) ==
  /\ n \in Number /\ u \in Tables
  /\ u.relation = t.relation \union {<<n, d>> : d \in listed}
  /\ \A d \in listed : d = c \/ <<HeadOf(t), d>> \in t.relation
  /\ u.manifest[n] = [status |-> "AVAILABLE", hash |-> listed]
  /\ \A r \in Number \ {n} :
       u.manifest[r] = IF r = HeadOf(t)
                       THEN [status |-> "SUPERSEDED", hash |-> t.manifest[r].hash]
                       ELSE t.manifest[r]
  /\ Objects(u) = Objects(t) \union {c}

(* What publishing a revision makes of the tables.                          *)
LEMMA PublishesEffect ==
  ASSUME NEW t \in Tables, NEW c \in Content, NEW u, Published(t, u, c),
         NEW n, n = HeadOf(t) + 1
  PROVE  \E listed \in SUBSET Content : AddedTo(t, u, c, n, listed)
<1> DEFINE h == HeadOf(t)
           old == IF h = 0 THEN {} ELSE ListingOf(t, h)
<1>0. PICK side \in {"local", "worker"}, keep \in BOOLEAN :
        HeadOf(t) < MaxRevision /\ u = Publishes(t, side, c, keep)
  BY DEF Published
<1>1. /\ h \in 0 .. MaxRevision /\ MaxRevision \in Nat /\ n \in Number /\ h # n
      /\ h # 0 => h \in Number /\ t.manifest[h] # NoSuchRow
  BY <1>0, HeadOfTable, ApplyAssumption DEF Number, Releases, Present
<1>2. PICK listed : listed = IF keep THEN old \union {c} ELSE {c}
  OBVIOUS
<1>3. /\ listed \in SUBSET Content
      /\ \A d \in listed : d = c \/ <<h, d>> \in t.relation
  BY <1>2 DEF ListingOf
<1>4. PICK closed : closed = IF h = 0 THEN t.manifest
                             ELSE [t.manifest EXCEPT ![h].status = "SUPERSEDED"]
  OBVIOUS
<1>5. t.manifest \in [Number -> ManifestRows \union {NoSuchRow}]
      /\ t.relation \in SUBSET (Number \X Content)
      /\ t.object \in [Content -> {"local", "worker", NoSuchRow}]
  BY DEF Tables, ManifestRows
<1>6. /\ closed \in [Number -> ManifestRows \union {NoSuchRow}]
      /\ \A r \in Number :
           closed[r] = IF r = h THEN [status |-> "SUPERSEDED", hash |-> t.manifest[r].hash]
                       ELSE t.manifest[r]
  <2>1. CASE h = 0
    BY <1>4, <1>5, <2>1 DEF Number
  <2>2. CASE h # 0
    <3>1. t.manifest[h] \in ManifestRows
      BY <1>1, <1>5, <2>2
    <3>2. PICK row : row = [t.manifest[h] EXCEPT !.status = "SUPERSEDED"]
      OBVIOUS
    <3>3. row \in ManifestRows /\ row = [status |-> "SUPERSEDED", hash |-> t.manifest[h].hash]
      BY <3>1, <3>2 DEF ManifestRows
    <3>4. closed = [t.manifest EXCEPT ![h] = row]
      BY <1>1, <1>4, <1>5, <2>2, <3>2
    <3> QED BY <1>1, <1>5, <2>2, <3>3, <3>4
  <2> QED BY <2>1, <2>2
<1>7. PICK row : row = [status |-> "AVAILABLE", hash |-> listed]
  OBVIOUS
<1>8. row \in ManifestRows
  BY <1>3, <1>7 DEF ManifestRows
<1>9. PICK object : object = [t.object EXCEPT ![c] = IF @ = NoSuchRow THEN side ELSE @]
  OBVIOUS
<1>10. u = [manifest |-> [closed EXCEPT ![n] = row],
            relation |-> t.relation \union {<<n, d>> : d \in listed},
            object |-> object]
  BY <1>0, <1>2, <1>4, <1>7, <1>9 DEF Publishes
<1>11. /\ u.manifest = [closed EXCEPT ![n] = row]
       /\ u.relation = t.relation \union {<<n, d>> : d \in listed}
       /\ u.object = object
  BY <1>10
<1>12. object \in [Content -> {"local", "worker", NoSuchRow}]
       /\ \A d \in Content : object[d] # NoSuchRow <=> d = c \/ t.object[d] # NoSuchRow
  BY <1>5, <1>9, ApplyAssumption
<1>13. u.manifest \in [Number -> ManifestRows \union {NoSuchRow}]
       /\ u.relation \in SUBSET (Number \X Content)
  BY <1>1, <1>3, <1>5, <1>6, <1>8, <1>11
<1>14. u \in Tables
  BY <1>10, <1>11, <1>12, <1>13 DEF Tables, ManifestRows
<1>15. Objects(u) = Objects(t) \union {c}
  BY <1>11, <1>12 DEF Objects
<1>16. /\ u.manifest[n] = row
       /\ \A r \in Number \ {n} : u.manifest[r] = closed[r]
  BY <1>1, <1>6, <1>11
<1>17. \A r \in Number \ {n} :
         u.manifest[r] = IF r = HeadOf(t)
                         THEN [status |-> "SUPERSEDED", hash |-> t.manifest[r].hash]
                         ELSE t.manifest[r]
  BY <1>6, <1>16
<1> QED BY <1>1, <1>3, <1>7, <1>11, <1>14, <1>15, <1>16, <1>17 DEF AddedTo

(* A sound table stays sound, and nothing of it is lost.                    *)
LEMMA PublishesKeeps ==
  ASSUME NEW t \in Tables, NEW c \in Content, NEW u, Published(t, u, c), TableSound(t)
  PROVE  /\ TableSound(u) /\ Follows(t, u)
         /\ \A r \in Present(t) : ListingOf(u, r) = ListingOf(t, r)
<1>1. PICK n : n = HeadOf(t) + 1
  OBVIOUS
<1>2. PICK listed \in SUBSET Content : AddedTo(t, u, c, n, listed)
  BY <1>1, PublishesEffect
<1> USE DEF AddedTo
<1>3. /\ HeadOf(t) \in 0 .. MaxRevision /\ (Releases(t) # {} => HeadOf(t) \in Releases(t))
      /\ (Releases(t) = {} => HeadOf(t) = 0) /\ MaxRevision \in Nat
  BY HeadOfTable, ApplyAssumption
<1>4. \A r \in Present(t) : r \in Number /\ r <= HeadOf(t) /\ r # n
  BY <1>1, <1>3 DEF TableSound, Present, Number
<1>5. /\ t.manifest \in [Number -> ManifestRows \union {NoSuchRow}]
      /\ u.manifest \in [Number -> ManifestRows \union {NoSuchRow}]
      /\ NoSuchRow \notin ManifestRows
  BY <1>2, ApplyAssumption DEF Tables, ManifestRows
<1>6. \A r \in Present(t) : /\ u.manifest[r] \in ManifestRows
                            /\ u.manifest[r].hash = t.manifest[r].hash
                            /\ u.manifest[r].status = IF r = HeadOf(t) THEN "SUPERSEDED"
                                                      ELSE t.manifest[r].status
  <2> SUFFICES ASSUME NEW r \in Present(t)
               PROVE  /\ u.manifest[r] \in ManifestRows
                      /\ u.manifest[r].hash = t.manifest[r].hash
                      /\ u.manifest[r].status = IF r = HeadOf(t) THEN "SUPERSEDED"
                                                ELSE t.manifest[r].status
    OBVIOUS
  <2>1. t.manifest[r] \in ManifestRows
    BY <1>5 DEF Present
  <2>2. u.manifest[r] = IF r = HeadOf(t)
                        THEN [status |-> "SUPERSEDED", hash |-> t.manifest[r].hash]
                        ELSE t.manifest[r]
    BY <1>2, <1>4
  <2> QED BY <2>1, <2>2 DEF ManifestRows
<1>7. u.manifest[n] \in ManifestRows /\ u.manifest[n].status = "AVAILABLE"
      /\ u.manifest[n].hash = listed
  BY <1>2 DEF ManifestRows
<1>8. Present(u) = Present(t) \union {n}
  <2>1. \A r \in Number \ {n} : r \notin Present(t) => u.manifest[r] = NoSuchRow
    <3>1. \A r \in Number : r \notin Present(t) => r # HeadOf(t)
      <4>1. 0 \notin Number
        BY DEF Number
      <4> QED BY <1>3, <4>1 DEF Releases
    <3>2. \A r \in Number : r \notin Present(t) => t.manifest[r] = NoSuchRow
      BY DEF Present
    <3> QED BY <1>2, <3>1, <3>2
  <2> QED BY <1>2, <1>4, <1>5, <1>6, <1>7, <2>1 DEF Present
<1>9. Releases(u) = {n}
  <2>1. \A r \in Present(t) : u.manifest[r].status # "AVAILABLE"
    BY <1>3, <1>6 DEF Releases, TableSound
  <2> QED BY <1>7, <1>8, <2>1 DEF Releases
<1>10. \A r \in Present(t) : ListingOf(u, r) = ListingOf(t, r)
  BY <1>2, <1>4 DEF ListingOf
<1>11. ListingOf(u, n) = listed
  BY <1>2, <1>4 DEF ListingOf, TableSound
<1>12. \A d \in listed : d \in Objects(u)
  <2>1. \A d \in Content : <<HeadOf(t), d>> \in t.relation => d \in Objects(t)
    BY DEF TableSound, ListingOf
  <2> QED BY <1>2, <2>1
<1>13. \A p \in u.relation : p[1] \in Present(u)
  BY <1>2, <1>8 DEF TableSound
<1>14. \A r \in Present(u) :
         u.manifest[r].hash = ListingOf(u, r) /\ ListingOf(u, r) \subseteq Objects(u)
  BY <1>2, <1>6, <1>7, <1>8, <1>10, <1>11, <1>12 DEF TableSound
<1>15. \A r \in Present(u) : r <= n
  BY <1>1, <1>3, <1>4, <1>8 DEF Number
<1>16. TableSound(u)
  BY <1>9, <1>13, <1>14, <1>15 DEF TableSound
<1>17. Follows(t, u)
  BY <1>2, <1>8 DEF Follows
<1> QED BY <1>10, <1>16, <1>17

(* Rows that were read stay so while the catalog publishes.                 *)
LEMMA ReadSoundKept ==
  ASSUME NEW t, NEW phase, NEW full, NEW u, ReadSound(t, phase, full), Follows(full, u),
         \A r \in Present(full) : ListingOf(u, r) = ListingOf(full, r)
  PROVE  ReadSound(t, phase, u)
<1>1. \A r \in Present(t) : r \in Present(u) /\ ListingOf(u, r) = ListingOf(full, r)
  BY DEF ReadSound, Follows
<1>2. Objects(t) \subseteq Objects(u) /\ t.relation \subseteq u.relation
  BY DEF ReadSound, Follows
<1> QED BY <1>1, <1>2 DEF ReadSound

(* The tables one by one: manifests, objects, relations.                    *)
LEMMA ReadSteps ==
  ASSUME NEW full \in Tables, TableSound(full)
  PROVE  /\ ReadSound([NoTables EXCEPT !.manifest = full.manifest], "objects", full)
         /\ \A t \in Tables : ReadSound(t, "objects", full)
               => ReadSound([t EXCEPT !.object = full.object], "relations", full)
         /\ \A t \in Tables : ReadSound(t, "relations", full)
               => ReadSound([t EXCEPT !.relation = full.relation], "rights", full)
         /\ \A t : ReadSound(t, "rights", full) => ReadSound(t, "writing", full)
<1>1. ReadSound([NoTables EXCEPT !.manifest = full.manifest], "objects", full)
  <2>1. PICK u : u = [NoTables EXCEPT !.manifest = full.manifest]
    OBVIOUS
  <2>2. u.manifest = full.manifest /\ u.relation = {} /\ u.object = NoTables.object
    BY <2>1 DEF NoTables
  <2>3. Present(u) = Present(full) /\ Releases(u) = Releases(full)
    BY <2>2 DEF Present, Releases
  <2>4. Objects(u) = {}
    BY <2>2 DEF Objects, NoTables
  <2>5. ReadSound(u, "objects", full)
    BY <2>2, <2>3, <2>4 DEF ReadSound, TableSound, Later, AllRead
  <2> QED BY <2>1, <2>5
<1>2. ASSUME NEW t \in Tables, ReadSound(t, "objects", full)
      PROVE  ReadSound([t EXCEPT !.object = full.object], "relations", full)
  <2>1. PICK u : u = [t EXCEPT !.object = full.object]
    OBVIOUS
  <2>2. u.manifest = t.manifest /\ u.relation = t.relation /\ u.object = full.object
    BY <2>1 DEF Tables
  <2>3. Present(u) = Present(t) /\ Releases(u) = Releases(t) /\ Objects(u) = Objects(full)
    BY <2>2 DEF Present, Releases, Objects
  <2>4. \A r \in Present(t) : ListingOf(full, r) \subseteq Objects(full)
    BY <1>2 DEF ReadSound, TableSound
  <2>5. ReadSound(u, "relations", full)
    BY <1>2, <2>2, <2>3, <2>4 DEF ReadSound, AllRead
  <2> QED BY <2>1, <2>5
<1>3. ASSUME NEW t \in Tables, ReadSound(t, "relations", full)
      PROVE  ReadSound([t EXCEPT !.relation = full.relation], "rights", full)
  <2>1. PICK u : u = [t EXCEPT !.relation = full.relation]
    OBVIOUS
  <2>2. u.manifest = t.manifest /\ u.relation = full.relation /\ u.object = t.object
    BY <2>1 DEF Tables
  <2>3. Present(u) = Present(t) /\ Releases(u) = Releases(t) /\ Objects(u) = Objects(t)
    BY <2>2 DEF Present, Releases, Objects
  <2>4. \A r \in Present(t) : ListingOf(u, r) = ListingOf(full, r)
    BY <2>2 DEF ListingOf
  <2>5. ReadSound(u, "rights", full)
    BY <1>3, <2>2, <2>3, <2>4 DEF ReadSound, Later
  <2> QED BY <2>1, <2>5
<1>4. ASSUME NEW t, ReadSound(t, "rights", full) PROVE ReadSound(t, "writing", full)
  BY <1>4 DEF ReadSound, Later, AllRead
<1> QED BY <1>1, <1>2, <1>3, <1>4

(* Rows that were read whole, with the parents of every relation, are sound *)
(* tables.                                                                  *)
LEMMA ReadWhole ==
  ASSUME NEW t, NEW full, ReadSound(t, "writing", full), ParentsThere(t)
  PROVE  TableSound(t)
<1>1. /\ \A r, s \in Releases(t) : r = s
      /\ \A r \in Present(t) : \E h \in Releases(t) : r <= h
  BY DEF ReadSound
<1>2. \A r \in Present(t) :
        t.manifest[r].hash = ListingOf(t, r) /\ ListingOf(t, r) \subseteq Objects(t)
  BY DEF ReadSound, Later, AllRead
<1> QED BY <1>1, <1>2 DEF TableSound, ParentsThere

(* Empty tables are sound, and behind any others.                           *)
LEMMA NoTablesSound ==
  /\ NoTables \in Tables /\ TableSound(NoTables)
  /\ \A t : Follows(NoTables, t) /\ ReadSound(NoTables, "idle", t)
  /\ NoPlan.rows = NoTables /\ NoPlan.phase = "idle" /\ NoPlan.provider = Unreviewed
<1>1. NoTables.relation = {} /\ \A r \in Number : NoTables.manifest[r] = NoSuchRow
  BY DEF NoTables
<1>2. \A c \in Content : NoTables.object[c] = NoSuchRow
  BY DEF NoTables
<1>3. NoTables \in Tables
  BY DEF NoTables, Tables
<1>4. Present(NoTables) = {} /\ Releases(NoTables) = {} /\ Objects(NoTables) = {}
  BY <1>1, <1>2 DEF Present, Releases, Objects
<1>5. TableSound(NoTables)
  BY <1>1, <1>4 DEF TableSound
<1>6. \A t : Follows(NoTables, t) /\ ReadSound(NoTables, "idle", t)
  BY <1>1, <1>4 DEF Follows, ReadSound
<1>7. NoPlan.rows = NoTables /\ NoPlan.phase = "idle" /\ NoPlan.provider = Unreviewed
  BY DEF NoPlan
<1> QED BY <1>3, <1>5, <1>6, <1>7

(* Replaying tables that hold all the database has leaves those tables.     *)
LEMMA ReplayedTables ==
  ASSUME NEW t \in Tables, base.tables \in Tables
  PROVE  /\ Replayed(t) \in Tables
         /\ Follows(base.tables, t) => Replayed(t) = t
<1> DEFINE b == base.tables
<1>1. /\ t.manifest \in [Number -> ManifestRows \union {NoSuchRow}]
      /\ t.relation \in SUBSET (Number \X Content)
      /\ t.object \in [Content -> {"local", "worker", NoSuchRow}]
      /\ t = [manifest |-> t.manifest, relation |-> t.relation, object |-> t.object]
  BY DEF Tables, ManifestRows
<1>2. /\ b.manifest \in [Number -> ManifestRows \union {NoSuchRow}]
      /\ b.relation \in SUBSET (Number \X Content)
      /\ b.object \in [Content -> {"local", "worker", NoSuchRow}]
  BY DEF Tables, ManifestRows
<1> DEFINE m == [r \in Number |-> MergedManifest(t, r)]
           o == [c \in Content |-> IF t.object[c] # NoSuchRow THEN t.object[c] ELSE b.object[c]]
<1>3. Replayed(t) = [manifest |-> m, relation |-> b.relation \union t.relation, object |-> o]
  BY DEF Replayed
<1>4. m \in [Number -> ManifestRows \union {NoSuchRow}]
      /\ o \in [Content -> {"local", "worker", NoSuchRow}]
  BY <1>1, <1>2 DEF MergedManifest
<1>5. Replayed(t) \in Tables
  BY <1>1, <1>2, <1>3, <1>4 DEF Tables, ManifestRows
<1>6. ASSUME Follows(b, t) PROVE Replayed(t) = t
  <2>1. \A r \in Number : t.manifest[r] = NoSuchRow => b.manifest[r] = NoSuchRow
    BY <1>6 DEF Follows, Present
  <2>2. \A c \in Content : t.object[c] = NoSuchRow => b.object[c] = NoSuchRow
    BY <1>6 DEF Follows, Objects
  <2>3. m = t.manifest
    BY <1>1, <2>1 DEF MergedManifest
  <2>4. o = t.object
    BY <1>1, <2>2
  <2>5. b.relation \union t.relation = t.relation
    BY <1>6 DEF Follows
  <2> HIDE DEF m, o
  <2> QED BY <1>1, <1>3, <2>3, <2>4, <2>5
<1> QED BY <1>5, <1>6

(* Every step of apply, and of what moves beside it, keeps the replay's     *)
(* part.                                                                    *)
LEMMA ReplayInvStep ==
  ASSUME ReplayInv, RightsInv, [ApplyNext]_applyVars PROVE ReplayInv'
<1>1. /\ home \in Tables /\ base.tables \in Tables /\ plan.rows \in Tables /\ worked \in Nat
      /\ TableSound(home) /\ ReadSound(plan.rows, plan.phase, home)
      /\ worked = 0 =>
           /\ TableSound(base.tables) /\ Follows(base.tables, home)
           /\ ReadFollows(base.tables, plan.rows, plan.phase)
  BY DEF ReplayInv
<1>2. \A s, t, u : Follows(s, t) /\ Follows(t, u) => Follows(s, u)
  BY DEF Follows
<1>3. plan \in PlanRows
  BY DEF RightsInv
<1>4. ASSUME UNCHANGED <<home, base, plan, worked>> PROVE ReplayInv'
  BY <1>1, <1>4 DEF ReplayInv
<1>5. ASSUME NEW c \in Content, NEW keep \in BOOLEAN, LocalPublishes(c, keep) PROVE ReplayInv'
  <2>1. Published(home, home', c) /\ UNCHANGED <<base, plan, worked>>
    BY <1>5 DEF LocalPublishes, Published
  <2>2. PICK u : u = home'
    OBVIOUS
  <2>3. PICK n : n = HeadOf(home) + 1
    OBVIOUS
  <2>4. PICK listed \in SUBSET Content : AddedTo(home, u, c, n, listed)
    BY <1>1, <2>1, <2>2, <2>3, PublishesEffect
  <2>5. u \in Tables
    BY <2>4 DEF AddedTo
  <2>6. /\ TableSound(u) /\ Follows(home, u)
        /\ \A r \in Present(home) : ListingOf(u, r) = ListingOf(home, r)
    BY <1>1, <2>1, <2>2, PublishesKeeps
  <2>7. ReadSound(plan.rows, plan.phase, u)
    BY <1>1, <2>6, ReadSoundKept
  <2> QED BY <1>1, <1>2, <2>1, <2>2, <2>5, <2>6, <2>7 DEF ReplayInv
<1>6. ASSUME NEW c \in Content, NEW keep \in BOOLEAN, WorkerPublishes(c, keep) PROVE ReplayInv'
  <2>1. PICK u : u = Publishes(base.tables, "worker", c, keep)
    OBVIOUS
  <2>2. /\ Published(base.tables, u, c) /\ worked' = worked + 1
        /\ base' = [base EXCEPT !.tables = u] /\ UNCHANGED <<home, plan>>
    BY <1>6, <2>1 DEF WorkerPublishes, Published
  <2>3. PICK n : n = HeadOf(base.tables) + 1
    OBVIOUS
  <2>4. PICK listed \in SUBSET Content : AddedTo(base.tables, u, c, n, listed)
    BY <1>1, <2>2, <2>3, PublishesEffect
  <2>5. u \in Tables
    BY <2>4 DEF AddedTo
  <2>6. base'.tables = u
    BY <2>2 DEF RightsInv
  <2>7. worked' \in Nat /\ worked' # 0
    BY <1>1, <2>2
  <2> QED BY <1>1, <2>2, <2>5, <2>6, <2>7 DEF ReplayInv
<1>7. ASSUME NEW row \in {Approved, Suspended}, ReviewsRights(row) PROVE ReplayInv'
  <2>1. base'.tables = base.tables /\ UNCHANGED <<home, plan, worked>>
    BY <1>7 DEF ReviewsRights, RightsInv
  <2> QED BY <1>1, <2>1 DEF ReplayInv
<1>8. ASSUME ReadManifests PROVE ReplayInv'
  <2>1. PICK u : u = [NoTables EXCEPT !.manifest = home.manifest]
    OBVIOUS
  <2>2. plan'.rows = u /\ plan'.phase = "objects" /\ UNCHANGED <<home, base, worked>>
    BY <1>8, <2>1 DEF ReadManifests
  <2>3. u \in Tables /\ u.manifest = home.manifest
    BY <1>1, <2>1, NoTablesSound DEF Tables
  <2>4. ReadSound(u, "objects", home)
    BY <1>1, <2>1, ReadSteps
  <2>5. worked = 0 => ReadFollows(base.tables, u, "objects")
    <3>1. Present(u) = Present(home)
      BY <2>3 DEF Present
    <3> QED BY <1>1, <3>1 DEF ReadFollows, Follows, Later, AllRead
  <2> QED BY <1>1, <2>2, <2>3, <2>4, <2>5 DEF ReplayInv
<1>14. ASSUME ReadObjects PROVE ReplayInv'
  <2>1. PICK u : u = [plan.rows EXCEPT !.object = home.object]
    OBVIOUS
  <2>2. plan.phase = "objects" /\ UNCHANGED <<home, base, worked>>
        /\ plan' = [plan EXCEPT !.phase = "relations", !.rows.object = home.object]
    BY <1>14 DEF ReadObjects
  <2>3. plan'.rows = u /\ plan'.phase = "relations"
    BY <1>3, <2>1, <2>2 DEF PlanRows
  <2>4. /\ u \in Tables /\ u.manifest = plan.rows.manifest
        /\ u.object = home.object /\ u.relation = plan.rows.relation
    BY <1>1, <2>1 DEF Tables
  <2>5. ReadSound(u, "relations", home)
    BY <1>1, <2>1, <2>2, ReadSteps
  <2>6. worked = 0 => ReadFollows(base.tables, u, "relations")
    <3>1. Present(u) = Present(plan.rows) /\ Objects(u) = Objects(home)
      BY <2>4 DEF Present, Objects
    <3> QED BY <1>1, <2>2, <3>1 DEF ReadFollows, Follows, AllRead
  <2> QED BY <1>1, <2>2, <2>3, <2>4, <2>5, <2>6 DEF ReplayInv
<1>9. ASSUME plan' = NoPlan, UNCHANGED <<home, base, worked>> PROVE ReplayInv'
  <2>1. \A b : ReadFollows(b, NoTables, "idle")
    BY DEF ReadFollows, Later, AllRead
  <2> QED BY <1>1, <1>9, <2>1, NoTablesSound DEF ReplayInv
<1>15. ASSUME ReadRelations PROVE ReplayInv'
  <2>1. PICK u : u = [plan.rows EXCEPT !.relation = home.relation]
    OBVIOUS
  <2>2. plan.phase = "relations" /\ UNCHANGED <<home, base, worked>>
        /\ \/ plan' = NoPlan
           \/ plan' = [plan EXCEPT !.phase = "rights", !.rows.relation = home.relation]
    BY <1>15 DEF ReadRelations
  <2>3. CASE plan' = NoPlan
    BY <1>9, <2>2, <2>3
  <2>4. CASE plan' = [plan EXCEPT !.phase = "rights", !.rows.relation = home.relation]
    <3>1. plan'.rows = u /\ plan'.phase = "rights"
      BY <1>3, <2>1, <2>4 DEF PlanRows
    <3>2. /\ u \in Tables /\ u.manifest = plan.rows.manifest
          /\ u.object = plan.rows.object /\ u.relation = home.relation
      BY <1>1, <2>1 DEF Tables
    <3>3. ReadSound(u, "rights", home)
      BY <1>1, <2>1, <2>2, ReadSteps
    <3>4. worked = 0 => ReadFollows(base.tables, u, "rights")
      <4>1. Present(u) = Present(plan.rows) /\ Objects(u) = Objects(plan.rows)
        BY <3>2 DEF Present, Objects
      <4> QED BY <1>1, <2>2, <3>2, <4>1 DEF ReadFollows, Follows, Later
    <3> QED BY <1>1, <2>2, <3>1, <3>2, <3>3, <3>4 DEF ReplayInv
  <2> QED BY <2>2, <2>3, <2>4
<1>10. ASSUME NEW preserve \in BOOLEAN, ResolveRights(preserve) PROVE ReplayInv'
  <2>1. CASE plan' = NoPlan
    BY <1>9, <1>10, <2>1 DEF ResolveRights
  <2>2. CASE plan' # NoPlan
    <3>1. /\ plan'.rows = plan.rows /\ plan.phase = "rights" /\ plan'.phase = "writing"
          /\ UNCHANGED <<home, base, worked>>
      BY <1>3, <1>10, <2>2 DEF ResolveRights, PlanRows
    <3>2. ReadSound(plan.rows, "writing", home)
      BY <1>1, <3>1, ReadSteps
    <3>3. worked = 0 => ReadFollows(base.tables, plan.rows, "writing")
      BY <1>1, <3>1 DEF ReadFollows, Later, AllRead
    <3> QED BY <1>1, <3>1, <3>2, <3>3 DEF ReplayInv
  <2> QED BY <2>1, <2>2
<1>11. ASSUME Commit PROVE ReplayInv'
  <2>1. /\ plan' = NoPlan /\ UNCHANGED <<home, worked>> /\ plan.phase = "writing"
        /\ \/ base' = base
           \/ /\ base' = [tables |-> Replayed(plan.rows), provider |-> plan.provider]
              /\ ParentsThere(Replayed(plan.rows))
    BY <1>11 DEF Commit
  <2>2. CASE base' = base
    BY <1>9, <2>1, <2>2
  <2>3. CASE base' # base
    <3>1. base'.tables \in Tables
      BY <1>1, <2>1, <2>3, ReplayedTables
    <3>2. ASSUME worked = 0 PROVE TableSound(base'.tables) /\ Follows(base'.tables, home)
      <4>1. Follows(base.tables, plan.rows)
        BY <1>1, <2>1, <3>2 DEF ReadFollows, Follows, Later, AllRead
      <4>2. Replayed(plan.rows) = plan.rows
        BY <1>1, <4>1, ReplayedTables
      <4>3. TableSound(plan.rows)
        BY <1>1, <2>1, <2>3, <4>2, ReadWhole
      <4>4. Follows(plan.rows, home)
        BY <1>1 DEF ReadSound, Follows
      <4>5. base'.tables = plan.rows
        BY <2>1, <2>3, <4>2
      <4> QED BY <4>3, <4>4, <4>5
    <3>3. \A b : ReadFollows(b, NoTables, "idle")
      BY DEF ReadFollows, Later, AllRead
    <3> QED BY <1>1, <2>1, <3>1, <3>2, <3>3, NoTablesSound DEF ReplayInv
  <2> QED BY <2>2, <2>3
<1>12. ASSUME ApplyDies PROVE ReplayInv'
  BY <1>9, <1>12 DEF ApplyDies
<1>13. ASSUME \/ UNCHANGED applyVars \/ (\E c \in Content : Damage(c)) \/ Validate
              \/ StartUpload \/ PutObject
              \/ CopyManifests \/ CopyObjects \/ CopyRelations \/ UploadDies
       PROVE  ReplayInv'
  <2>1. UNCHANGED <<home, base, plan, worked>>
    BY <1>13 DEF applyVars, Damage, Validate, StartUpload, PutObject,
       CopyManifests, CopyObjects, CopyRelations, UploadDies
  <2> QED BY <1>4, <2>1
<1> QED BY <1>5, <1>6, <1>7, <1>8, <1>10, <1>11, <1>12, <1>13, <1>14, <1>15 DEF ApplyNext

(* Every step keeps the part on the rights of the provider.                 *)
LEMMA RightsInvStep ==
  ASSUME RightsInv, ReplayInv', [ApplyNext]_applyVars PROVE RightsInv'
<1>1. /\ base \in [tables : Tables, provider : {NoSuchRow, Approved, Suspended}]
      /\ plan \in PlanRows
      /\ plan.phase = "writing" => plan.provider = Approved
  BY DEF RightsInv
<1>2. home' \in Tables /\ base'.tables \in Tables /\ plan'.rows \in Tables
  BY DEF ReplayInv
<1>3. NoPlan \in PlanRows /\ NoPlan.phase = "idle"
  BY NoTablesSound DEF NoPlan, PlanRows
<1>4. ASSUME UNCHANGED <<base, plan>> PROVE RightsInv'
  BY <1>1, <1>4 DEF RightsInv
<1>5. ASSUME NEW c \in Content, NEW keep \in BOOLEAN, WorkerPublishes(c, keep) PROVE RightsInv'
  <2>1. PICK t : t = Publishes(base.tables, "worker", c, keep)
    OBVIOUS
  <2>2. base' = [base EXCEPT !.tables = t] /\ UNCHANGED plan
    BY <1>5, <2>1 DEF WorkerPublishes
  <2>3. t \in Tables
    BY <1>1, <1>2, <2>2
  <2>4. base' \in [tables : Tables, provider : {NoSuchRow, Approved, Suspended}]
    BY <1>1, <2>2, <2>3
  <2> QED BY <1>1, <2>2, <2>4 DEF RightsInv
<1>6. ASSUME NEW row \in {Approved, Suspended}, ReviewsRights(row) PROVE RightsInv'
  BY <1>1, <1>6 DEF RightsInv, ReviewsRights
<1>7. ASSUME ReadManifests \/ ReadObjects \/ (ReadRelations /\ plan' # NoPlan) PROVE RightsInv'
  <2>1. PICK u : u = plan'.rows
    OBVIOUS
  <2>2. u \in Tables /\ UNCHANGED base
    BY <1>2, <1>7, <2>1 DEF ReadManifests, ReadObjects, ReadRelations
  <2>3. CASE ReadManifests
    BY <1>1, <1>2, <2>2, <2>3 DEF RightsInv, PlanRows, ReadManifests
  <2>4. CASE ~ReadManifests
    <3>1. PICK phase \in {"relations", "rights"} :
            plan' = [phase |-> phase, rows |-> u, provider |-> plan.provider]
      BY <1>1, <1>7, <2>1, <2>4 DEF PlanRows, ReadObjects, ReadRelations
    <3>2. plan' \in PlanRows /\ plan'.phase # "writing"
      BY <1>1, <2>2, <3>1 DEF PlanRows
    <3> QED BY <1>1, <2>2, <3>2 DEF RightsInv
  <2> QED BY <2>3, <2>4
<1>8. ASSUME plan' = NoPlan, UNCHANGED base PROVE RightsInv'
  BY <1>1, <1>3, <1>8 DEF RightsInv
<1>9. ASSUME NEW preserve \in BOOLEAN, ResolveRights(preserve) PROVE RightsInv'
  <2>1. \A row \in Resolved(preserve) : row = Approved
    BY ApplyAssumption DEF Resolved
  <2>2. CASE plan' = NoPlan
    BY <1>8, <1>9, <2>2 DEF ResolveRights
  <2>3. CASE plan' # NoPlan
    <3>1. PICK row \in Resolved(preserve) :
            plan' = [plan EXCEPT !.phase = "writing", !.provider = row] /\ UNCHANGED base
      BY <1>9, <2>3 DEF ResolveRights
    <3>2. plan' \in PlanRows /\ plan'.provider = Approved
      BY <1>1, <2>1, <3>1 DEF PlanRows
    <3> QED BY <1>1, <3>1, <3>2 DEF RightsInv
  <2> QED BY <2>2, <2>3
<1>10. ASSUME Commit PROVE RightsInv'
  <2>1. /\ plan' = NoPlan /\ plan.phase = "writing"
        /\ \/ base' = base
           \/ base' = [tables |-> Replayed(plan.rows), provider |-> plan.provider]
    BY <1>10 DEF Commit
  <2>2. CASE base' = base
    BY <1>8, <2>1, <2>2
  <2>3. CASE base' = [tables |-> Replayed(plan.rows), provider |-> plan.provider]
    <3>1. base' \in [tables : Tables, provider : {NoSuchRow, Approved, Suspended}]
      BY <1>1, <1>2, <2>1, <2>3 DEF PlanRows
    <3> QED BY <1>3, <2>1, <3>1 DEF RightsInv
  <2> QED BY <2>1, <2>2, <2>3
<1>11. ASSUME ApplyDies \/ (ReadRelations /\ plan' = NoPlan) PROVE RightsInv'
  BY <1>8, <1>11 DEF ApplyDies, ReadRelations
<1>12. ASSUME \/ UNCHANGED applyVars \/ (\E c \in Content : Damage(c)) \/ Validate
              \/ (\E c \in Content, keep \in BOOLEAN : LocalPublishes(c, keep))
              \/ StartUpload \/ PutObject
              \/ CopyManifests \/ CopyObjects \/ CopyRelations \/ UploadDies
       PROVE  RightsInv'
  <2>1. UNCHANGED <<base, plan>>
    BY <1>12 DEF applyVars, Damage, Validate, LocalPublishes, StartUpload, PutObject,
       CopyManifests, CopyObjects, CopyRelations, UploadDies
  <2> QED BY <1>4, <2>1
<1> QED BY <1>5, <1>6, <1>7, <1>9, <1>10, <1>11, <1>12 DEF ApplyNext

(* What the relations of the catalog become when it publishes.              *)
LEMMA LocalListing ==
  ASSUME ReplayInv, NEW c \in Content, NEW keep \in BOOLEAN, LocalPublishes(c, keep)
  PROVE  /\ \A p \in home'.relation : p[2] = c \/ \E q \in home.relation : q[2] = p[2]
         /\ \A p \in home'.relation : p[1] \in Present(home')
<1>1. Published(home, home', c) /\ home \in Tables /\ TableSound(home)
  BY DEF LocalPublishes, Published, ReplayInv
<1>2. PICK u : u = home'
  OBVIOUS
<1>3. PICK n : n = HeadOf(home) + 1
  OBVIOUS
<1>4. PICK listed \in SUBSET Content : AddedTo(home, u, c, n, listed)
  BY <1>1, <1>2, <1>3, PublishesEffect
<1>5. /\ u.relation = home.relation \union {<<n, d>> : d \in listed}
      /\ \A d \in listed : d = c \/ <<HeadOf(home), d>> \in home.relation
  BY <1>4 DEF AddedTo
<1>6. ASSUME NEW p \in u.relation PROVE p[2] = c \/ \E q \in home.relation : q[2] = p[2]
  <2>1. CASE p \in home.relation
    BY <2>1
  <2>2. CASE p \notin home.relation
    <3>1. PICK d \in listed : p = <<n, d>>
      BY <1>5, <1>6, <2>2
    <3>2. CASE d = c
      BY <3>1, <3>2
    <3>3. CASE d # c
      <4>1. PICK q : q = <<HeadOf(home), d>>
        OBVIOUS
      <4> QED BY <1>5, <3>1, <3>3, <4>1
    <3> QED BY <3>2, <3>3
  <2> QED BY <2>1, <2>2
<1>7. TableSound(u)
  BY <1>1, <1>2, PublishesKeeps
<1> QED BY <1>2, <1>6, <1>7 DEF TableSound

(* Every step keeps the part on what validate found.                        *)
LEMMA DamageInvStep ==
  ASSUME ReplayInv, DamageInv, ReplayInv', [ApplyNext]_applyVars PROVE DamageInv'
<1>1. /\ home' \in Tables /\ (\A p \in home.relation : p[1] \in Present(home))
      /\ damaged \subseteq Content
      /\ validated.over \subseteq damaged /\ validated.incidents \subseteq damaged
      /\ validated.passed => \A p \in home.relation : p[2] \notin validated.over
      /\ \A p \in home.relation : p[2] \in validated.over => p[2] \in validated.incidents
  BY DEF DamageInv, ReplayInv
<1>2. ASSUME UNCHANGED <<home, damaged, validated>> PROVE DamageInv'
  BY <1>1, <1>2 DEF DamageInv
<1>3. ASSUME NEW c \in Content, NEW keep \in BOOLEAN, LocalPublishes(c, keep) PROVE DamageInv'
  <2>1. c \notin damaged /\ UNCHANGED <<damaged, validated>>
    BY <1>3 DEF LocalPublishes
  <2>2. /\ \A p \in home'.relation : p[2] = c \/ \E q \in home.relation : q[2] = p[2]
        /\ \A p \in home'.relation : p[1] \in Present(home')
    BY <1>3, LocalListing
  <2>3. validated.passed => \A p \in home'.relation : p[2] \notin validated.over
    BY <1>1, <2>1, <2>2
  <2>4. \A p \in home'.relation : p[2] \in validated.over => p[2] \in validated.incidents
    BY <1>1, <2>1, <2>2
  <2> QED BY <1>1, <2>1, <2>2, <2>3, <2>4 DEF DamageInv
<1>4. ASSUME NEW c \in Content, Damage(c) PROVE DamageInv'
  <2>1. damaged' = damaged \union {c} /\ UNCHANGED <<home, validated>>
    BY <1>4 DEF Damage
  <2> QED BY <1>1, <2>1 DEF DamageInv
<1>5. ASSUME Validate PROVE DamageInv'
  <2>1. /\ validated'.passed = (\A r \in Present(home) : ~Broken(r))
        /\ validated'.incidents = validated.incidents \union Recorded
        /\ validated'.over = damaged /\ UNCHANGED <<home, damaged>>
    BY <1>5 DEF Validate
  <2>2. Recorded \subseteq damaged
    BY DEF Recorded, Mismatched
  <2>3. ASSUME validated'.passed, NEW p \in home.relation PROVE p[2] \notin damaged
    <3>1. p[1] \in Number /\ p[2] \in Content /\ p = <<p[1], p[2]>>
      BY DEF ReplayInv, Tables
    <3>2. Mismatched(p[1]) = {}
      BY <1>1, <2>1, <2>3 DEF Broken
    <3> QED BY <3>1, <3>2 DEF Mismatched, ListingOf
  <2>4. ASSUME NEW p \in home.relation, p[2] \in damaged PROVE p[2] \in Recorded
    <3>1. p[1] \in Present(home) /\ p[2] \in Content /\ p = <<p[1], p[2]>>
      BY <1>1, <2>4 DEF ReplayInv, Tables
    <3>2. p[2] \in Mismatched(p[1])
      BY <2>4, <3>1 DEF Mismatched, ListingOf
    <3> QED BY <3>1, <3>2 DEF Recorded
  <2> QED BY <1>1, <2>1, <2>2, <2>3, <2>4 DEF DamageInv
<1>6. ASSUME \/ UNCHANGED applyVars
             \/ (\E c \in Content, keep \in BOOLEAN : WorkerPublishes(c, keep))
             \/ (\E row \in {Approved, Suspended} : ReviewsRights(row))
             \/ ReadManifests \/ ReadObjects \/ ReadRelations
             \/ (\E preserve \in BOOLEAN : ResolveRights(preserve))
             \/ Commit \/ ApplyDies \/ StartUpload \/ PutObject
             \/ CopyManifests \/ CopyObjects \/ CopyRelations \/ UploadDies
      PROVE  DamageInv'
  <2>1. UNCHANGED <<home, damaged, validated>>
    BY <1>6 DEF applyVars, WorkerPublishes, ReviewsRights, ReadManifests,
       ReadObjects, ReadRelations, ResolveRights, Commit,
       ApplyDies, StartUpload, PutObject, CopyManifests, CopyObjects,
       CopyRelations, UploadDies
  <2> QED BY <1>2, <2>1
<1> QED BY <1>3, <1>4, <1>5, <1>6 DEF ApplyNext

(* Every step keeps the part on what an upload has read and put.            *)
LEMMA UploadInvStep ==
  ASSUME UploadInv, ReplayInv', [ApplyNext]_applyVars PROVE UploadInv'
<1>1. /\ home' \in Tables /\ remote \subseteq Content /\ upload \in UploadRows
      /\ copy \in CopyRows /\ home \in Tables
      /\ upload.done \subseteq upload.listed
      /\ upload.phase \in {"objects", "relations"} => upload.done = upload.listed
      /\ upload.done \subseteq remote /\ copy.object \subseteq remote
  BY DEF UploadInv, ReplayInv
<1>2. ASSUME UNCHANGED <<remote, upload, copy>> PROVE UploadInv'
  BY <1>1, <1>2 DEF UploadInv
<1>3. ASSUME upload' = NoUpload, UNCHANGED remote, copy' \in CopyRows,
             copy'.object = copy.object
      PROVE  UploadInv'
  BY <1>1, <1>3 DEF UploadInv, UploadRows, NoUpload
<1>4. ASSUME StartUpload PROVE UploadInv'
  <2>1. /\ upload' = [phase |-> "manifests", listed |-> Objects(home), done |-> {}]
        /\ UNCHANGED <<remote, copy>>
    BY <1>4 DEF StartUpload
  <2>2. Objects(home) \subseteq Content
    BY DEF Objects
  <2> QED BY <1>1, <2>1, <2>2 DEF UploadInv, UploadRows
<1>5. ASSUME PutObject PROVE UploadInv'
  <2>1. PICK c : c = CHOOSE d \in upload.listed \ upload.done : TRUE
    OBVIOUS
  <2>2. c \in upload.listed /\ upload.phase = "manifests" /\ UNCHANGED copy
    BY <1>1, <1>5, <2>1 DEF PutObject
  <2>3. CASE upload' = NoUpload /\ UNCHANGED remote
    BY <1>1, <1>3, <2>2, <2>3
  <2>4. CASE ~(upload' = NoUpload /\ UNCHANGED remote)
    <3>1. /\ upload' = [upload EXCEPT !.done = upload.done \union {c}]
          /\ remote' = remote \union {c}
      BY <1>5, <2>1, <2>4 DEF PutObject
    <3>2. /\ upload' \in UploadRows /\ upload'.phase = "manifests"
          /\ upload'.done = upload.done \union {c} /\ upload'.listed = upload.listed
      BY <1>1, <2>2, <3>1 DEF UploadRows
    <3>3. c \in Content
      BY <1>1, <2>2 DEF UploadRows
    <3> QED BY <1>1, <2>2, <3>1, <3>2, <3>3 DEF UploadInv
  <2> QED BY <2>3, <2>4
<1>6. ASSUME CopyManifests PROVE UploadInv'
  <2>1. /\ upload' = [upload EXCEPT !.phase = "objects"] /\ UNCHANGED remote
        /\ upload.done = upload.listed
        /\ copy' = [copy EXCEPT !.manifest = copy.manifest \union Present(home)]
    BY <1>6 DEF CopyManifests, AllPut
  <2>2. /\ upload' \in UploadRows /\ upload'.done = upload.done
        /\ upload'.listed = upload.listed
    BY <1>1, <2>1 DEF UploadRows
  <2>3. copy' \in CopyRows /\ copy'.object = copy.object
    BY <1>1, <2>1 DEF CopyRows, Present
  <2> QED BY <1>1, <2>1, <2>2, <2>3 DEF UploadInv
<1>9. ASSUME CopyObjects PROVE UploadInv'
  <2>1. /\ upload' = [upload EXCEPT !.phase = "relations"] /\ UNCHANGED remote
        /\ upload.phase = "objects"
        /\ copy' = [copy EXCEPT !.object = copy.object \union upload.listed]
    BY <1>9 DEF CopyObjects
  <2>2. upload' \in UploadRows /\ upload'.done = upload.done /\ upload'.listed = upload.listed
    BY <1>1, <2>1 DEF UploadRows
  <2>3. upload.listed \subseteq remote /\ upload.listed \subseteq Content
    BY <1>1, <2>1 DEF UploadRows
  <2>4. copy' \in CopyRows /\ copy'.object \subseteq remote
    BY <1>1, <2>1, <2>3 DEF CopyRows
  <2> QED BY <1>1, <2>1, <2>2, <2>4 DEF UploadInv
<1>10. ASSUME CopyRelations PROVE UploadInv'
  <2>1. upload' = NoUpload /\ UNCHANGED remote
        /\ copy' = [copy EXCEPT !.relation = copy.relation \union home.relation]
    BY <1>10 DEF CopyRelations
  <2>2. copy' \in CopyRows /\ copy'.object = copy.object
    BY <1>1, <2>1 DEF CopyRows, Tables
  <2> QED BY <1>3, <2>1, <2>2
<1>7. ASSUME UploadDies PROVE UploadInv'
  BY <1>1, <1>3, <1>7 DEF UploadDies
<1>8. ASSUME \/ UNCHANGED applyVars
             \/ (\E c \in Content, keep \in BOOLEAN :
                   LocalPublishes(c, keep) \/ WorkerPublishes(c, keep))
             \/ (\E row \in {Approved, Suspended} : ReviewsRights(row))
             \/ (\E c \in Content : Damage(c)) \/ Validate
             \/ ReadManifests \/ ReadObjects \/ ReadRelations
             \/ (\E preserve \in BOOLEAN : ResolveRights(preserve))
             \/ Commit \/ ApplyDies
      PROVE  UploadInv'
  <2>1. UNCHANGED <<remote, upload, copy>>
    BY <1>8 DEF applyVars, LocalPublishes, WorkerPublishes, ReviewsRights, Damage, Validate,
       ReadManifests, ReadObjects, ReadRelations, ResolveRights, Commit, ApplyDies
  <2> QED BY <1>2, <2>1
<1> QED BY <1>4, <1>5, <1>6, <1>7, <1>8, <1>9, <1>10 DEF ApplyNext

(* The four parts hold before any command has run.                          *)
LEMMA ApplyInvInit == ApplyInit => ApplyInv
<1> SUFFICES ASSUME ApplyInit PROVE ApplyInv
  OBVIOUS
<1>1. base.tables = NoTables /\ base \in [tables : Tables, provider : {NoSuchRow, Approved}]
  BY NoTablesSound DEF ApplyInit
<1>2. ReplayInv
  <2>1. \A b : ReadFollows(b, NoTables, "idle")
    BY DEF ReadFollows, Later, AllRead
  <2> QED BY <1>1, <2>1, NoTablesSound DEF ApplyInit, ReplayInv
<1>3. plan \in PlanRows
  BY NoTablesSound DEF ApplyInit, NoPlan, PlanRows
<1>4. RightsInv
  BY <1>1, <1>3, NoTablesSound DEF ApplyInit, RightsInv
<1>5. DamageInv
  BY NoTablesSound DEF ApplyInit, DamageInv, NoTables
<1>6. UploadInv
  BY NoTablesSound DEF ApplyInit, UploadInv, UploadRows, CopyRows, NoUpload
<1> QED BY <1>2, <1>4, <1>5, <1>6 DEF ApplyInv

(* The four parts together are kept by every step.                          *)
LEMMA ApplyInvStep == ApplyInv /\ [ApplyNext]_applyVars => ApplyInv'
BY ReplayInvStep, RightsInvStep, DamageInvStep, UploadInvStep DEF ApplyInv

(* The invariant says what the commands promise.                            *)
LEMMA ApplyInvMeans == ApplyInv => ApplyTypeOK /\ ApplySound
<1> SUFFICES ASSUME ApplyInv PROVE ApplyTypeOK /\ ApplySound
  OBVIOUS
<1>1. ReplayInv /\ RightsInv /\ DamageInv /\ UploadInv
  BY DEF ApplyInv
<1>2. ApplyTypeOK
  BY <1>1 DEF ApplyTypeOK, ReplayInv, RightsInv, DamageInv, UploadInv
<1>3. ReplayIsWhole
  <2>1. ASSUME worked = 0 PROVE Cardinality(Releases(base.tables)) <= 1
    <3>1. \A r, s \in Releases(base.tables) : r = s
      BY <1>1, <2>1 DEF ReplayInv, TableSound
    <3>2. CASE Releases(base.tables) = {}
      BY <3>2, FS_EmptySet
    <3>3. CASE Releases(base.tables) # {}
      <4>1. PICK r : Releases(base.tables) = {r}
        BY <3>1, <3>3
      <4>2. Cardinality({r}) = 1
        BY FS_Singleton
      <4> QED BY <4>1, <4>2
    <3> QED BY <3>2, <3>3
  <2> QED BY <1>1, <2>1 DEF ReplayIsWhole, ReplayInv, TableSound
<1>4. RightsReviewed
  BY <1>1, ApplyAssumption DEF RightsReviewed, RightsInv
<1>5. DamageIsRecorded
  <2>1. ASSUME validated.passed, NEW r \in Present(home), NEW c \in ListingOf(home, r)
        PROVE  c \notin validated.over
    <3>1. PICK p : p = <<r, c>>
      OBVIOUS
    <3>2. p \in home.relation /\ p[2] = c
      BY <2>1, <3>1 DEF ListingOf
    <3> QED BY <1>1, <2>1, <3>2 DEF DamageInv
  <2>2. ASSUME NEW r \in Present(home), NEW c \in ListingOf(home, r), c \in validated.over
        PROVE  c \in validated.incidents
    <3>1. PICK p : p = <<r, c>>
      OBVIOUS
    <3>2. p \in home.relation /\ p[2] = c
      BY <2>2, <3>1 DEF ListingOf
    <3> QED BY <1>1, <2>2, <3>2 DEF DamageInv
  <2> QED BY <1>1, <2>1, <2>2 DEF DamageIsRecorded, DamageInv, Listed
<1>6. DestinationIsBacked
  BY <1>1 DEF DestinationIsBacked, UploadInv
<1> QED BY <1>2, <1>3, <1>4, <1>5, <1>6 DEF ApplySound

(* operations.py: every table and every row of the catalogs keeps its type, *)
(* for every number of contents, revisions and reviews.                     *)
THEOREM ApplyTypeCorrect == ApplySpec => []ApplyTypeOK
<1> QED BY ApplyInvInit, ApplyInvStep, ApplyInvMeans, PTL DEF ApplySpec

(* operations.py: a replay, read table by table, leaves whole revisions and *)
(* one release while nobody else writes the dataset, the rights placeholder *)
(* never reaches the database, a validation that passed saw no damage and   *)
(* the damage it saw has an incident, and an object row of the destination  *)
(* has its bytes in the remote store.                                       *)
THEOREM CommandsSound == ApplySpec => []ApplySound
<1> QED BY ApplyInvInit, ApplyInvStep, ApplyInvMeans, PTL DEF ApplySpec

-----------------------------------------------------------------------------
(* Local catalog: a transaction over files.                                 *)

LocalRow == [status : {"ABSENT", "BUILDING", "AVAILABLE", "QUARANTINED", "SUPERSEDED"},
             hash : SUBSET Part]
LocalFiles == [manifests : [LocalRevision -> LocalRow],
               storage : SUBSET (LocalRevision \X Part),
               objects : SUBSET (LocalRevision \X Part)]

LocalWrites == [table : {"manifests"}, rev : LocalRevision, row : LocalRow]
               \cup [table : {"storage", "objects"}, rows : SUBSET (LocalRevision \X Part)]

(* What the files should be between transactions, of any files.             *)
WholeFiles(f) ==
  /\ Cardinality(Availables(f)) <= 1
  /\ \A r \in LocalRevision :
       /\ f.manifests[r].hash \subseteq {o[2] : o \in {p \in f.objects : p[1] = r}}
       /\ f.manifests[r].status # "BUILDING"
       /\ f.manifests[r] = NoManifest =>
            \A o \in f.objects \cup f.storage : o[1] # r

(* The block begun over the files s: the revision it follows, what it       *)
(* lists, its writes by number and how many there are.                      *)
PrevOf(s) == IF Availables(s) = {} THEN 0 ELSE Max(Availables(s))
RevOf(s) == PrevOf(s) + 1
Carried(s, parts) ==
  IF PrevOf(s) = 0 THEN {} ELSE {o \in s.objects : o[1] = PrevOf(s) /\ o[2] \notin parts}
AllOf(s, parts) == {o[2] : o \in Carried(s, parts)} \cup parts
FinalRow(s, parts, sound) ==
  [status |-> IF sound THEN "AVAILABLE" ELSE "QUARANTINED", hash |-> AllOf(s, parts)]
WritesOf(s, sound) == IF sound /\ PrevOf(s) # 0 THEN 5 ELSE 4

BlockWrite(s, parts, sound, j) ==
  IF j = 1 THEN UpsertManifest(RevOf(s), "BUILDING", {})
  ELSE IF j = 2 THEN Stage("storage", {RevOf(s)} \X parts)
  ELSE IF j = 3 THEN Stage("objects", {RevOf(s)} \X AllOf(s, parts))
  ELSE IF j = 4 THEN UpsertManifest(RevOf(s), FinalRow(s, parts, sound).status, AllOf(s, parts))
  ELSE UpsertManifest(PrevOf(s), "SUPERSEDED", s.manifests[PrevOf(s)].hash)

(* The files after the first k writes.                                      *)
RowAfter(s, parts, sound, k, r) ==
  IF r = RevOf(s) /\ k >= 4 THEN FinalRow(s, parts, sound)
  ELSE IF r = RevOf(s) /\ k >= 1 THEN [status |-> "BUILDING", hash |-> {}]
  ELSE IF r = PrevOf(s) /\ k >= 5 THEN [status |-> "SUPERSEDED", hash |-> s.manifests[r].hash]
  ELSE s.manifests[r]
WrittenSoFar(f, s, parts, sound, k) ==
  /\ \A r \in LocalRevision : f.manifests[r] = RowAfter(s, parts, sound, k, r)
  /\ f.storage = s.storage \cup (IF k >= 2 THEN {RevOf(s)} \X parts ELSE {})
  /\ f.objects = s.objects \cup (IF k >= 3 THEN {RevOf(s)} \X AllOf(s, parts) ELSE {})

Ahead(todo, s, parts, sound, k) ==
  /\ Len(todo) = WritesOf(s, sound) - k
  /\ \A i \in 1 .. Len(todo) : todo[i] = BlockWrite(s, parts, sound, k + i)

Opened(f, b) ==
  \E parts \in SUBSET Part \ {{}}, sound \in BOOLEAN, k \in 0 .. 5 :
    /\ RevOf(b.snapshot) \in LocalRevision /\ b.todo \in Seq(LocalWrites)
    /\ Ahead(b.todo, b.snapshot, parts, sound, k)
    /\ WrittenSoFar(f, b.snapshot, parts, sound, k)

(* The tables that were put back are those of the snapshot.                 *)
TableAt(j) == IF j = 1 THEN "manifests" ELSE IF j = 2 THEN "storage" ELSE "objects"
Restored(f, b) ==
  \E k \in 0 .. 3 :
    /\ b.todo \in Seq(Table) /\ Len(b.todo) = 3 - k
    /\ \A i \in 1 .. Len(b.todo) : b.todo[i] = TableAt(k + i)
    /\ k >= 1 => f.manifests = b.snapshot.manifests
    /\ k >= 2 => f.storage = b.snapshot.storage
    /\ k >= 3 => f.objects = b.snapshot.objects

LocalBlocks == [phase : {"closed", "open", "restoring"}, todo : Seq(LocalWrites) \cup Seq(Table),
                snapshot : LocalFiles, rev : Nat]

(* A transaction's files are its snapshot and the writes so far; put back,  *)
(* they are the snapshot; and the snapshot was whole.                       *)
LocalInv ==
  /\ files \in LocalFiles /\ deaths \in Nat /\ block \in LocalBlocks
  /\ block.phase = "closed" => block = Closed /\ (deaths = 0 => WholeFiles(files))
  /\ block.phase # "closed" => (deaths = 0 => WholeFiles(block.snapshot))
  /\ block.phase = "open" => Opened(files, block)
  /\ block.phase = "restoring" => Restored(files, block)

(* Files without rows are whole.                                            *)
LEMMA LocalFilesEmpty ==
  /\ Empty \in LocalFiles /\ WholeFiles(Empty) /\ Closed \in LocalBlocks
  /\ Closed.phase = "closed"
<1>1. Empty = [manifests |-> [r \in LocalRevision |-> NoManifest], storage |-> {}, objects |-> {}]
  BY DEF Empty
<1>2. NoManifest \in LocalRow /\ NoManifest.status = "ABSENT" /\ NoManifest.hash = {}
  BY DEF NoManifest, LocalRow
<1>3. Empty \in LocalFiles
  BY <1>1, <1>2 DEF LocalFiles
<1>4. Availables(Empty) = {}
  BY <1>1, <1>2 DEF Availables
<1>5. Cardinality(Availables(Empty)) <= 1
  BY <1>4, FS_EmptySet
<1>6. WholeFiles(Empty)
  BY <1>1, <1>2, <1>5 DEF WholeFiles
<1>7. Closed \in LocalBlocks /\ Closed.phase = "closed"
  BY <1>3 DEF Closed, LocalBlocks
<1> QED BY <1>3, <1>6, <1>7

(* The revision a block follows is one of the table, and its own is not.    *)
LEMMA BlockRevisions ==
  ASSUME NEW s \in LocalFiles
  PROVE  /\ PrevOf(s) \in 0 .. MaxLocalRevision /\ RevOf(s) \in Nat /\ RevOf(s) # PrevOf(s)
         /\ PrevOf(s) # 0 => PrevOf(s) \in LocalRevision
<1>1. MaxLocalRevision \in Nat
  BY LocalAssumption
<1>2. Availables(s) \in SUBSET (0 .. MaxLocalRevision) /\ Availables(s) \in SUBSET LocalRevision
  BY <1>1 DEF Availables, LocalRevision
<1>3. CASE Availables(s) = {}
  BY <1>1, <1>3 DEF PrevOf, RevOf
<1>4. CASE Availables(s) # {}
  <2>1. Max(Availables(s)) \in Availables(s)
    BY <1>1, <1>2, <1>4, MaxIsGreatest
  <2>2. PrevOf(s) \in LocalRevision
    BY <1>2, <1>4, <2>1 DEF PrevOf
  <2> QED BY <1>1, <2>2 DEF RevOf, LocalRevision
<1> QED BY <1>3, <1>4

(* Every write of a block is a write.                                       *)
LEMMA BlockWrites ==
  ASSUME NEW s \in LocalFiles, RevOf(s) \in LocalRevision, NEW parts \in SUBSET Part,
         NEW sound \in BOOLEAN
  PROVE  /\ AllOf(s, parts) \in SUBSET Part /\ FinalRow(s, parts, sound) \in LocalRow
         /\ FinalRow(s, parts, sound).hash = AllOf(s, parts)
         /\ FinalRow(s, parts, sound).status \in {"AVAILABLE", "QUARANTINED"}
         /\ \A j \in 1 .. WritesOf(s, sound) : BlockWrite(s, parts, sound, j) \in LocalWrites
<1>1. \A o \in s.objects : o[2] \in Part
  BY DEF LocalFiles
<1>2. AllOf(s, parts) \in SUBSET Part
  BY <1>1 DEF AllOf, Carried
<1>3. /\ FinalRow(s, parts, sound) \in LocalRow
      /\ FinalRow(s, parts, sound).hash = AllOf(s, parts)
      /\ FinalRow(s, parts, sound).status \in {"AVAILABLE", "QUARANTINED"}
  BY <1>2 DEF FinalRow, LocalRow
<1>4. \A status \in {"BUILDING", "AVAILABLE", "QUARANTINED", "SUPERSEDED"},
         r \in LocalRevision, hash \in SUBSET Part :
        UpsertManifest(r, status, hash) \in LocalWrites
  BY DEF UpsertManifest, LocalWrites, LocalRow
<1>5. \A table \in {"storage", "objects"}, set \in SUBSET (LocalRevision \X Part) :
        Stage(table, set) \in LocalWrites
  BY DEF Stage, LocalWrites
<1>6. ASSUME NEW j \in 1 .. WritesOf(s, sound)
      PROVE  BlockWrite(s, parts, sound, j) \in LocalWrites
  <2>1. CASE j = 1
    BY <1>4, <2>1 DEF BlockWrite
  <2>2. CASE j = 2
    <3>1. {RevOf(s)} \X parts \in SUBSET (LocalRevision \X Part)
      OBVIOUS
    <3> QED BY <1>5, <2>2, <3>1 DEF BlockWrite
  <2>3. CASE j = 3
    <3>1. {RevOf(s)} \X AllOf(s, parts) \in SUBSET (LocalRevision \X Part)
      BY <1>2
    <3> QED BY <1>5, <2>3, <3>1 DEF BlockWrite
  <2>4. CASE j = 4
    BY <1>2, <1>3, <1>4, <2>4 DEF BlockWrite
  <2>5. CASE j = 5
    <3>1. PrevOf(s) \in LocalRevision
      BY <2>5, BlockRevisions DEF WritesOf
    <3>2. s.manifests[PrevOf(s)].hash \in SUBSET Part
      BY <3>1 DEF LocalFiles, LocalRow
    <3> QED BY <1>4, <2>5, <3>1, <3>2 DEF BlockWrite
  <2> QED BY <2>1, <2>2, <2>3, <2>4, <2>5 DEF WritesOf
<1> QED BY <1>2, <1>3, <1>6

(* One write more.                                                          *)
LEMMA WriteAdvances ==
  ASSUME NEW f \in LocalFiles, NEW s \in LocalFiles, RevOf(s) \in LocalRevision,
         NEW parts \in SUBSET Part, NEW sound \in BOOLEAN, NEW k \in 0 .. 4,
         k + 1 <= WritesOf(s, sound), WrittenSoFar(f, s, parts, sound, k),
         NEW g, g = Written(f, BlockWrite(s, parts, sound, k + 1))
  PROVE  g \in LocalFiles /\ WrittenSoFar(g, s, parts, sound, k + 1)
<1> DEFINE rev == RevOf(s)
           prev == PrevOf(s)
           all == AllOf(s, parts)
<1>1. /\ rev \in LocalRevision /\ rev # prev
      /\ all \in SUBSET Part /\ FinalRow(s, parts, sound) \in LocalRow
      /\ FinalRow(s, parts, sound) = [status |-> FinalRow(s, parts, sound).status, hash |-> all]
  BY BlockRevisions, BlockWrites DEF FinalRow
<1>2. /\ f.manifests \in [LocalRevision -> LocalRow]
      /\ f.storage \in SUBSET (LocalRevision \X Part)
      /\ f.objects \in SUBSET (LocalRevision \X Part)
      /\ f = [manifests |-> f.manifests, storage |-> f.storage, objects |-> f.objects]
  BY DEF LocalFiles
<1>3. ASSUME NEW r \in LocalRevision, NEW row \in LocalRow,
             BlockWrite(s, parts, sound, k + 1) = [table |-> "manifests", rev |-> r, row |-> row]
      PROVE  /\ g \in LocalFiles /\ g.storage = f.storage /\ g.objects = f.objects
             /\ \A q \in LocalRevision : g.manifests[q] = IF q = r THEN row ELSE f.manifests[q]
  <2>1. PICK m : m = [f.manifests EXCEPT ![r] = row]
    OBVIOUS
  <2>2. m \in [LocalRevision -> LocalRow]
        /\ \A q \in LocalRevision : m[q] = IF q = r THEN row ELSE f.manifests[q]
    BY <1>2, <2>1
  <2>3. g = [f EXCEPT !.manifests = m]
    BY <1>2, <1>3, <2>1 DEF Written
  <2> QED BY <1>2, <2>2, <2>3 DEF LocalFiles
<1>4. CASE k = 0
  <2>1. BlockWrite(s, parts, sound, k + 1)
        = [table |-> "manifests", rev |-> rev, row |-> [status |-> "BUILDING", hash |-> {}]]
    BY <1>4 DEF BlockWrite, UpsertManifest
  <2>2. PICK row : row = [status |-> "BUILDING", hash |-> {}]
    OBVIOUS
  <2>3. row \in LocalRow
    BY <2>2 DEF LocalRow
  <2>4. /\ g \in LocalFiles /\ g.storage = f.storage /\ g.objects = f.objects
        /\ \A q \in LocalRevision : g.manifests[q] = IF q = rev THEN row ELSE f.manifests[q]
    BY <1>1, <1>3, <2>1, <2>2, <2>3
  <2> QED BY <1>1, <1>4, <2>2, <2>4 DEF WrittenSoFar, RowAfter
<1>5. CASE k = 1
  <2>1. PICK new : new = {rev} \X parts
    OBVIOUS
  <2>2. new \in SUBSET (LocalRevision \X Part)
    BY <1>1, <2>1
  <2>3. BlockWrite(s, parts, sound, k + 1) = [table |-> "storage", rows |-> new]
    BY <1>5, <2>1 DEF BlockWrite, Stage
  <2>4. g = [f EXCEPT !.storage = f.storage \cup new]
    <3>1. PICK w : w = BlockWrite(s, parts, sound, k + 1)
      OBVIOUS
    <3>2. w.table = "storage" /\ w.rows = new
      BY <2>3, <3>1
    <3>3. g = [f EXCEPT !["storage"] = @ \cup new]
      BY <3>1, <3>2 DEF Written
    <3> QED BY <1>2, <3>3
  <2>5. g \in LocalFiles /\ g.manifests = f.manifests /\ g.storage = f.storage \cup new
        /\ g.objects = f.objects
    BY <1>2, <2>2, <2>4 DEF LocalFiles
  <2> QED BY <1>5, <2>1, <2>5 DEF WrittenSoFar, RowAfter
<1>6. CASE k = 2
  <2>1. PICK new : new = {rev} \X all
    OBVIOUS
  <2>2. new \in SUBSET (LocalRevision \X Part)
    BY <1>1, <2>1
  <2>3. BlockWrite(s, parts, sound, k + 1) = [table |-> "objects", rows |-> new]
    BY <1>6, <2>1 DEF BlockWrite, Stage
  <2>4. g = [f EXCEPT !.objects = f.objects \cup new]
    <3>1. PICK w : w = BlockWrite(s, parts, sound, k + 1)
      OBVIOUS
    <3>2. w.table = "objects" /\ w.rows = new
      BY <2>3, <3>1
    <3>3. g = [f EXCEPT !["objects"] = @ \cup new]
      BY <3>1, <3>2 DEF Written
    <3> QED BY <1>2, <3>3
  <2>5. g \in LocalFiles /\ g.manifests = f.manifests /\ g.storage = f.storage
        /\ g.objects = f.objects \cup new
    BY <1>2, <2>2, <2>4 DEF LocalFiles
  <2> QED BY <1>6, <2>1, <2>5 DEF WrittenSoFar, RowAfter
<1>7. CASE k = 3
  <2>1. BlockWrite(s, parts, sound, k + 1)
        = [table |-> "manifests", rev |-> rev, row |-> FinalRow(s, parts, sound)]
    BY <1>1, <1>7 DEF BlockWrite, UpsertManifest
  <2> QED BY <1>1, <1>3, <1>7, <2>1 DEF WrittenSoFar, RowAfter
<1>8. CASE k = 4
  <2>1. prev \in LocalRevision
    BY <1>8, BlockRevisions DEF WritesOf
  <2>2. PICK row : row = [status |-> "SUPERSEDED", hash |-> s.manifests[prev].hash]
    OBVIOUS
  <2>3. row \in LocalRow
    BY <2>1, <2>2 DEF LocalFiles, LocalRow
  <2>4. BlockWrite(s, parts, sound, k + 1) = [table |-> "manifests", rev |-> prev, row |-> row]
    BY <1>8, <2>2 DEF BlockWrite, UpsertManifest
  <2>5. /\ g \in LocalFiles /\ g.storage = f.storage /\ g.objects = f.objects
        /\ \A q \in LocalRevision : g.manifests[q] = IF q = prev THEN row ELSE f.manifests[q]
    BY <1>3, <2>1, <2>3, <2>4
  <2> QED BY <1>1, <1>8, <2>2, <2>5 DEF WrittenSoFar, RowAfter
<1> QED BY <1>4, <1>5, <1>6, <1>7, <1>8

(* All writes of a block over whole files leave whole files, if only one    *)
(* manifest is AVAILABLE.                                                   *)
LEMMA WholeAtEnd ==
  ASSUME NEW f \in LocalFiles, NEW s \in LocalFiles, RevOf(s) \in LocalRevision,
         NEW parts \in SUBSET Part, NEW sound \in BOOLEAN, WholeFiles(s),
         WrittenSoFar(f, s, parts, sound, WritesOf(s, sound)), Cardinality(Availables(f)) <= 1
  PROVE  WholeFiles(f)
<1> DEFINE rev == RevOf(s)
           prev == PrevOf(s)
           all == AllOf(s, parts)
<1>0. PICK last : last = WritesOf(s, sound)
  OBVIOUS
<1>1. /\ rev # prev /\ (prev # 0 => prev \in LocalRevision)
      /\ all \in SUBSET Part /\ FinalRow(s, parts, sound).hash = all
      /\ FinalRow(s, parts, sound).status \in {"AVAILABLE", "QUARANTINED"}
      /\ last \in {4, 5} /\ NoManifest.status = "ABSENT"
  BY <1>0, BlockRevisions, BlockWrites DEF WritesOf, NoManifest
<1>9. PICK final : final = FinalRow(s, parts, sound)
  OBVIOUS
<1>2. /\ \A r \in LocalRevision :
           f.manifests[r] = IF r = rev THEN final
                            ELSE IF r = prev /\ last >= 5
                              THEN [status |-> "SUPERSEDED", hash |-> s.manifests[r].hash]
                            ELSE s.manifests[r]
      /\ f.storage = s.storage \cup ({rev} \X parts)
      /\ f.objects = s.objects \cup ({rev} \X all)
  BY <1>0, <1>1, <1>9 DEF WrittenSoFar, RowAfter
<1>3. ASSUME NEW r \in LocalRevision
      PROVE  /\ f.manifests[r].hash \subseteq {o[2] : o \in {p \in f.objects : p[1] = r}}
             /\ f.manifests[r].status # "BUILDING"
             /\ f.manifests[r] = NoManifest => \A o \in f.objects \cup f.storage : o[1] # r
  <2>1. /\ s.manifests[r].hash \subseteq {o[2] : o \in {p \in s.objects : p[1] = r}}
        /\ s.manifests[r].status # "BUILDING"
        /\ s.manifests[r] = NoManifest => \A o \in s.objects \cup s.storage : o[1] # r
    BY DEF WholeFiles
  <2>2. CASE r = rev
    <3>1. f.manifests[r] = final
      BY <1>2, <2>2
    <3>2. ASSUME NEW c \in all PROVE c \in {o[2] : o \in {p \in f.objects : p[1] = r}}
      <4>1. PICK o : o = <<rev, c>>
        OBVIOUS
      <4>2. o \in f.objects /\ o[1] = r /\ o[2] = c
        BY <1>2, <2>2, <4>1
      <4> QED BY <4>2
    <3> QED BY <1>1, <1>9, <3>1, <3>2
  <2>3. CASE r # rev
    <3>1. /\ f.manifests[r].hash = s.manifests[r].hash
          /\ f.manifests[r].status \in {s.manifests[r].status, "SUPERSEDED"}
          /\ f.manifests[r] = NoManifest => s.manifests[r] = NoManifest
      <4>1. CASE r = prev /\ last >= 5
        <5>1. f.manifests[r] = [status |-> "SUPERSEDED", hash |-> s.manifests[r].hash]
          BY <1>2, <2>3, <4>1
        <5> QED BY <1>1, <5>1
      <4>2. CASE ~(r = prev /\ last >= 5)
        BY <1>2, <2>3, <4>2
      <4> QED BY <4>1, <4>2
    <3>2. \A o \in f.objects \cup f.storage : o[1] = r => o \in s.objects \cup s.storage
      BY <1>2, <2>3
    <3>3. \A o \in s.objects : o \in f.objects
      BY <1>2
    <3> QED BY <2>1, <3>1, <3>2, <3>3
  <2> QED BY <2>2, <2>3
<1> QED BY <1>3 DEF WholeFiles

(* Begin lines up the writes of its block.                                  *)
LEMMA BlockOpens ==
  ASSUME files \in LocalFiles, NEW parts \in SUBSET Part \ {{}}, NEW sound \in BOOLEAN,
         Begin(parts, sound)
  PROVE  /\ RevOf(files) \in LocalRevision /\ block'.snapshot = files /\ block'.phase = "open"
         /\ block' \in LocalBlocks /\ block'.todo \in Seq(LocalWrites)
         /\ Ahead(block'.todo, files, parts, sound, 0)
<1> DEFINE prev == PrevOf(files)
           rev == RevOf(files)
           all == AllOf(files, parts)
           final == FinalRow(files, parts, sound)
<1>1. prev = LatestLocal /\ rev = LatestLocal + 1
  BY DEF PrevOf, RevOf, LatestLocal
<1>2. rev \in LocalRevision
  BY <1>1 DEF Begin
<1>3. PICK kept : kept = IF prev = 0 THEN {} ELSE {o \in ObjectsOf(prev) : o[2] \notin parts}
  OBVIOUS
<1>4. kept = Carried(files, parts)
  BY <1>3 DEF Carried, ObjectsOf
<1>5. all = {o[2] : o \in kept} \cup parts
  BY <1>4 DEF AllOf
<1>6. PICK a, b, c, d, e :
        /\ a = UpsertManifest(rev, "BUILDING", {})
        /\ b = Stage("storage", {rev} \X parts)
        /\ c = Stage("objects", {rev} \X all)
        /\ d = UpsertManifest(rev, IF sound THEN "AVAILABLE" ELSE "QUARANTINED", all)
        /\ e = UpsertManifest(prev, "SUPERSEDED", files.manifests[prev].hash)
  OBVIOUS
<1>7. PICK rest : rest = IF sound /\ prev # 0 THEN <<e>> ELSE <<>>
  OBVIOUS
<1>8. block' = [phase |-> "open", rev |-> rev, snapshot |-> files,
                todo |-> <<a, b, c, d>> \o rest]
  BY <1>1, <1>3, <1>5, <1>6, <1>7 DEF Begin
<1>9. \A j \in 1 .. WritesOf(files, sound) :
        BlockWrite(files, parts, sound, j)
        = IF j = 1 THEN a ELSE IF j = 2 THEN b ELSE IF j = 3 THEN c ELSE IF j = 4 THEN d ELSE e
  <2>1. final.status = IF sound THEN "AVAILABLE" ELSE "QUARANTINED"
    BY DEF FinalRow
  <2> QED BY <1>6, <2>1 DEF BlockWrite
<1>10. \A j \in 1 .. WritesOf(files, sound) :
         BlockWrite(files, parts, sound, j) \in LocalWrites
  BY <1>2, BlockWrites
<1>11. WritesOf(files, sound) = IF sound /\ prev # 0 THEN 5 ELSE 4
  BY DEF WritesOf
<1>12. <<a, b, c, d>> \in Seq(LocalWrites)
  BY <1>9, <1>10, <1>11
<1>13. rest \in Seq(LocalWrites) /\ Len(rest) = WritesOf(files, sound) - 4
       /\ \A i \in 1 .. Len(rest) : i = 1 /\ rest[i] = e
  <2>1. CASE sound /\ prev # 0
    <3>1. e \in LocalWrites
      <4>1. 5 \in 1 .. WritesOf(files, sound)
        BY <1>11, <2>1
      <4>2. BlockWrite(files, parts, sound, 5) = e
        BY <1>9, <4>1
      <4> QED BY <1>10, <4>1, <4>2
    <3> QED BY <1>7, <1>11, <2>1, <3>1
  <2>2. CASE ~(sound /\ prev # 0)
    BY <1>7, <1>11, <2>2
  <2> QED BY <2>1, <2>2
<1>14. PICK first : first = <<a, b, c, d>>
  OBVIOUS
<1>15. first \in Seq(LocalWrites) /\ Len(first) = 4
       /\ first[1] = a /\ first[2] = b /\ first[3] = c /\ first[4] = d
  BY <1>12, <1>14
<1>16. PICK todo : todo = first \o rest
  OBVIOUS
<1>17. /\ todo \in Seq(LocalWrites) /\ Len(todo) = Len(first) + Len(rest)
       /\ \A i \in 1 .. Len(first) : todo[i] = first[i]
       /\ \A i \in 1 .. Len(rest) : todo[Len(first) + i] = rest[i]
  <2>1. rest \in Seq(LocalWrites)
    BY <1>13
  <2>2. first \in Seq(LocalWrites)
    BY <1>15
  <2> HIDE <1>13, <1>15
  <2> QED BY <1>16, <2>1, <2>2, InARow
<1>18. Len(todo) = WritesOf(files, sound)
  BY <1>11, <1>13, <1>15, <1>17
<1>19. ASSUME NEW i \in 1 .. Len(todo)
       PROVE  todo[i] = BlockWrite(files, parts, sound, i)
  <2>1. i \in 1 .. WritesOf(files, sound)
    BY <1>18, <1>19
  <2>2. todo[i] = IF i = 1 THEN a ELSE IF i = 2 THEN b ELSE IF i = 3 THEN c
                  ELSE IF i = 4 THEN d ELSE e
    <3>1. CASE i \in 1 .. 4
      BY <1>15, <1>17, <3>1
    <3>2. CASE i = 5
      <4>1. Len(rest) = 1
        BY <1>11, <1>13, <2>1, <3>2
      <4> QED BY <1>13, <1>15, <1>17, <3>2, <4>1
    <3> QED BY <1>11, <2>1, <3>1, <3>2
  <2> QED BY <1>9, <2>1, <2>2
<1>20. Ahead(todo, files, parts, sound, 0)
  <2>1. WritesOf(files, sound) \in Nat
    BY <1>11
  <2>2. \A i \in 1 .. Len(todo) : todo[i] = BlockWrite(files, parts, sound, 0 + i)
    BY <1>19
  <2> QED BY <1>18, <2>1, <2>2 DEF Ahead
<1>21. block'.todo = todo /\ block'.snapshot = files /\ block'.phase = "open" /\ block'.rev = rev
       /\ block' = [phase |-> "open", rev |-> rev, snapshot |-> files, todo |-> todo]
  BY <1>8, <1>14, <1>16
<1>22. rev \in Nat
  BY BlockRevisions
<1>23. block' \in LocalBlocks
  BY <1>17, <1>21, <1>22 DEF LocalBlocks
<1> QED BY <1>2, <1>17, <1>20, <1>21, <1>23

(* Taking the first of what is left to do.                                  *)
LEMMA OneLess ==
  ASSUME NEW S, NEW todo \in Seq(S), todo # <<>>
  PROVE  /\ Tail(todo) \in Seq(S) /\ Len(Tail(todo)) = Len(todo) - 1 /\ Len(todo) \in Nat \ {0}
         /\ Head(todo) = todo[1]
         /\ \A i \in 1 .. Len(Tail(todo)) : Tail(todo)[i] = todo[i + 1]
BY HeadTailProperties, LenProperties, EmptySeq

(* Empty files with no block open satisfy the invariant.                    *)
LEMMA LocalInvInit == LocalInit => LocalInv
<1> SUFFICES ASSUME LocalInit PROVE LocalInv
  OBVIOUS
<1>1. files = Empty /\ block = Closed /\ deaths = 0
  BY DEF LocalInit
<1> QED BY <1>1, LocalFilesEmpty DEF LocalInv

(* A write of the block's, and its end.                                     *)
LEMMA LocalWriteKeeps == ASSUME LocalInv, WriteTable PROVE LocalInv'
<1>1. PICK todo, s : todo = block.todo /\ s = block.snapshot
  OBVIOUS
<1>2. /\ block.phase = "open" /\ todo # <<>> /\ files' = Written(files, Head(todo))
      /\ block' = [block EXCEPT !.todo = Tail(todo)] /\ UNCHANGED deaths
  BY <1>1 DEF WriteTable
<1>3. /\ files \in LocalFiles /\ deaths \in Nat /\ block \in LocalBlocks /\ s \in LocalFiles
      /\ deaths = 0 => WholeFiles(s)
      /\ Opened(files, block)
  BY <1>1, <1>2 DEF LocalInv, LocalBlocks
<1>4. PICK parts \in SUBSET Part \ {{}}, sound \in BOOLEAN, k \in 0 .. 5 :
        /\ RevOf(s) \in LocalRevision /\ todo \in Seq(LocalWrites)
        /\ Ahead(todo, s, parts, sound, k)
        /\ WrittenSoFar(files, s, parts, sound, k)
  BY <1>1, <1>3 DEF Opened
<1>5. PICK rest : rest = Tail(todo)
  OBVIOUS
<1>6. /\ rest \in Seq(LocalWrites) /\ Len(rest) = Len(todo) - 1 /\ Len(todo) \in Nat \ {0}
      /\ Head(todo) = todo[1]
      /\ \A i \in 1 .. Len(rest) : rest[i] = todo[i + 1]
  BY <1>2, <1>4, <1>5, OneLess
<1>7. /\ Len(todo) = WritesOf(s, sound) - k /\ WritesOf(s, sound) \in {4, 5}
      /\ \A i \in 1 .. Len(todo) : todo[i] = BlockWrite(s, parts, sound, k + i)
  BY <1>4 DEF Ahead, WritesOf
<1>8. k \in 0 .. 4 /\ k + 1 <= WritesOf(s, sound) /\ k + 1 \in 0 .. 5
  BY <1>6, <1>7
<1>9. Head(todo) = BlockWrite(s, parts, sound, k + 1)
  BY <1>6, <1>7
<1>10. PICK g : g = files'
  OBVIOUS
<1>11. g \in LocalFiles /\ WrittenSoFar(g, s, parts, sound, k + 1)
  BY <1>2, <1>3, <1>4, <1>8, <1>9, <1>10, WriteAdvances
<1>12. Ahead(rest, s, parts, sound, k + 1)
  <2>1. Len(rest) = WritesOf(s, sound) - (k + 1)
    BY <1>6, <1>7
  <2>2. ASSUME NEW i \in 1 .. Len(rest)
        PROVE  rest[i] = BlockWrite(s, parts, sound, (k + 1) + i)
    <3>1. i + 1 \in 1 .. Len(todo) /\ k + (i + 1) = (k + 1) + i
      BY <1>6
    <3>2. rest[i] = todo[i + 1] /\ todo[i + 1] = BlockWrite(s, parts, sound, k + (i + 1))
      BY <1>6, <1>7, <3>1
    <3> QED BY <3>1, <3>2
  <2> QED BY <2>1, <2>2 DEF Ahead
<1>13. PICK b : b = block'
  OBVIOUS
<1>14. b.phase = "open" /\ b.todo = rest /\ b.snapshot = s /\ b \in LocalBlocks
  BY <1>1, <1>2, <1>3, <1>5, <1>6, <1>13 DEF LocalBlocks
<1>15. Opened(g, b)
  BY <1>4, <1>6, <1>8, <1>11, <1>12, <1>14 DEF Opened
<1> QED BY <1>2, <1>3, <1>10, <1>11, <1>13, <1>14, <1>15 DEF LocalInv

(* A block that ends leaves the rows of a whole revision.                   *)
LEMMA LocalCommitKeeps == ASSUME LocalInv, LocalCommit PROVE LocalInv'
<1>1. /\ block.phase = "open" /\ block.todo = <<>> /\ Cardinality(Availables(files)) <= 1
      /\ block' = Closed /\ UNCHANGED <<files, deaths>>
  BY DEF LocalCommit
<1>2. PICK s : s = block.snapshot
  OBVIOUS
<1>3. /\ files \in LocalFiles /\ deaths \in Nat /\ s \in LocalFiles
      /\ deaths = 0 => WholeFiles(s)
      /\ Opened(files, block)
  BY <1>1, <1>2 DEF LocalInv, LocalBlocks
<1>4. PICK parts \in SUBSET Part \ {{}}, sound \in BOOLEAN, k \in 0 .. 5 :
        /\ RevOf(s) \in LocalRevision
        /\ Ahead(<<>>, s, parts, sound, k)
        /\ WrittenSoFar(files, s, parts, sound, k)
  BY <1>1, <1>2, <1>3 DEF Opened
<1>5. k = WritesOf(s, sound)
  BY <1>4 DEF Ahead, WritesOf
<1>6. WrittenSoFar(files, s, parts, sound, WritesOf(s, sound))
  BY <1>4, <1>5
<1>7. deaths = 0 => WholeFiles(files)
  BY <1>1, <1>3, <1>4, <1>6, WholeAtEnd
<1> QED BY <1>1, <1>3, <1>7, LocalFilesEmpty DEF LocalInv

(* One table put back, and the end of it.                                   *)
LEMMA RestoreKeeps == ASSUME LocalInv, Restore PROVE LocalInv'
<1>1. PICK todo, s, b : todo = block.todo /\ s = block.snapshot /\ b = block'
  OBVIOUS
<1>2. block.phase = "restoring" /\ UNCHANGED deaths
  BY DEF Restore
<1>3. /\ files \in LocalFiles /\ deaths \in Nat /\ block \in LocalBlocks /\ s \in LocalFiles
      /\ deaths = 0 => WholeFiles(s)
      /\ Restored(files, block)
  BY <1>1, <1>2 DEF LocalInv, LocalBlocks
<1>4. PICK k \in 0 .. 3 :
        /\ todo \in Seq(Table) /\ Len(todo) = 3 - k
        /\ \A i \in 1 .. Len(todo) : todo[i] = TableAt(k + i)
        /\ k >= 1 => files.manifests = s.manifests
        /\ k >= 2 => files.storage = s.storage
        /\ k >= 3 => files.objects = s.objects
  BY <1>1, <1>3 DEF Restored
<1>5. CASE todo = <<>>
  <2>1. k = 3 /\ UNCHANGED files /\ b = Closed
    BY <1>1, <1>4, <1>5 DEF Restore
  <2>2. files = [manifests |-> files.manifests, storage |-> files.storage,
                 objects |-> files.objects]
    BY <1>3 DEF LocalFiles
  <2>3. s = [manifests |-> s.manifests, storage |-> s.storage, objects |-> s.objects]
    BY <1>3 DEF LocalFiles
  <2>4. files = s
    BY <1>4, <2>1, <2>2, <2>3
  <2> QED BY <1>1, <1>2, <1>3, <2>1, <2>4, LocalFilesEmpty DEF LocalInv
<1>6. CASE todo # <<>>
  <2>1. PICK rest : rest = Tail(todo)
    OBVIOUS
  <2>2. /\ rest \in Seq(Table) /\ Len(rest) = Len(todo) - 1 /\ Len(todo) \in Nat \ {0}
        /\ Head(todo) = todo[1]
        /\ \A i \in 1 .. Len(rest) : rest[i] = todo[i + 1]
    BY <1>4, <1>6, <2>1, OneLess
  <2>3. /\ files' = [files EXCEPT ![Head(todo)] = s[Head(todo)]]
        /\ block' = [block EXCEPT !.todo = rest]
    BY <1>1, <1>6, <2>1 DEF Restore
  <2>4. k \in 0 .. 2 /\ Head(todo) = TableAt(k + 1) /\ k + 1 \in 0 .. 3
    BY <1>4, <2>2
  <2>5. PICK g : g = files'
    OBVIOUS
  <2>6. /\ g \in LocalFiles
        /\ k + 1 >= 1 => g.manifests = s.manifests
        /\ k + 1 >= 2 => g.storage = s.storage
        /\ k + 1 >= 3 => g.objects = s.objects
    <3>0. /\ k = 0 => Head(todo) = "manifests"
          /\ k = 1 => Head(todo) = "storage"
          /\ k = 2 => Head(todo) = "objects"
      BY <2>4 DEF TableAt
    <3>1. CASE k = 0
      <4>1. g = [files EXCEPT !["manifests"] = s["manifests"]]
        BY <2>3, <2>5, <3>0, <3>1
      <4> QED BY <1>3, <3>1, <4>1 DEF LocalFiles
    <3>2. CASE k = 1
      <4>1. g = [files EXCEPT !["storage"] = s["storage"]]
        BY <2>3, <2>5, <3>0, <3>2
      <4> QED BY <1>3, <1>4, <3>2, <4>1 DEF LocalFiles
    <3>3. CASE k = 2
      <4>1. g = [files EXCEPT !["objects"] = s["objects"]]
        BY <2>3, <2>5, <3>0, <3>3
      <4> QED BY <1>3, <1>4, <3>3, <4>1 DEF LocalFiles
    <3> QED BY <2>4, <3>1, <3>2, <3>3
  <2>7. \A i \in 1 .. Len(rest) : rest[i] = TableAt((k + 1) + i)
    <3> SUFFICES ASSUME NEW i \in 1 .. Len(rest) PROVE rest[i] = TableAt((k + 1) + i)
      OBVIOUS
    <3>1. i + 1 \in 1 .. Len(todo) /\ k + (i + 1) = (k + 1) + i
      BY <2>2
    <3>2. rest[i] = todo[i + 1] /\ todo[i + 1] = TableAt(k + (i + 1))
      BY <1>4, <2>2, <3>1
    <3> QED BY <3>1, <3>2
  <2>8. b.phase = "restoring" /\ b.todo = rest /\ b.snapshot = s /\ b \in LocalBlocks
    BY <1>1, <1>2, <1>3, <2>2, <2>3 DEF LocalBlocks
  <2>9. Len(rest) = 3 - (k + 1)
    BY <1>4, <2>2
  <2>10. Restored(g, b)
    BY <2>2, <2>4, <2>6, <2>7, <2>8, <2>9 DEF Restored
  <2> QED BY <1>1, <1>2, <1>3, <2>5, <2>6, <2>8, <2>10 DEF LocalInv
<1> QED BY <1>5, <1>6

(* Every step of a block, its raise, its restoration and a death keep it.   *)
LEMMA LocalInvStep == LocalInv /\ [LocalNext]_localVars => LocalInv'
<1> SUFFICES ASSUME LocalInv, [LocalNext]_localVars PROVE LocalInv'
  OBVIOUS
<1>1. files \in LocalFiles /\ deaths \in Nat /\ block \in LocalBlocks
  BY DEF LocalInv
<1>2. CASE UNCHANGED localVars
  <2>1. PICK f, b : f = files /\ b = block /\ f = files' /\ b = block'
    BY <1>2 DEF localVars
  <2>2. (Opened(f, b) <=> Opened(files, block)) /\ (Restored(f, b) <=> Restored(files, block))
    BY <2>1
  <2>3. (Opened(f, b) <=> Opened(files', block')) /\ (Restored(f, b) <=> Restored(files', block'))
    BY <2>1
  <2>4. deaths' = deaths
    BY <1>2 DEF localVars
  <2> QED BY <2>1, <2>2, <2>3, <2>4 DEF LocalInv
<1>3. ASSUME NEW parts \in SUBSET Part \ {{}}, NEW sound \in BOOLEAN, Begin(parts, sound)
      PROVE  LocalInv'
  <2>1. block = Closed /\ UNCHANGED <<files, deaths>>
    BY <1>3 DEF Begin
  <2>2. deaths = 0 => WholeFiles(files)
    BY <2>1, LocalFilesEmpty DEF LocalInv
  <2>3. PICK b, s : b = block' /\ s = files
    OBVIOUS
  <2>4. /\ RevOf(s) \in LocalRevision /\ b.snapshot = s /\ b.phase = "open"
        /\ b \in LocalBlocks /\ b.todo \in Seq(LocalWrites) /\ Ahead(b.todo, s, parts, sound, 0)
    BY <1>1, <1>3, <2>3, BlockOpens
  <2>5. WrittenSoFar(s, s, parts, sound, 0)
    BY DEF WrittenSoFar, RowAfter
  <2>6. Opened(s, b)
    <3>1. PICK k \in 0 .. 5 : k = 0
      OBVIOUS
    <3>2. /\ RevOf(b.snapshot) \in LocalRevision /\ b.todo \in Seq(LocalWrites)
          /\ Ahead(b.todo, b.snapshot, parts, sound, k)
          /\ WrittenSoFar(s, b.snapshot, parts, sound, k)
      BY <2>4, <2>5, <3>1
    <3> QED BY <3>2, Zenon DEF Opened
  <2> QED BY <1>1, <2>1, <2>2, <2>3, <2>4, <2>6 DEF LocalInv
<1>4. ASSUME LocalRaise PROVE LocalInv'
  <2>1. PICK b, s : b = block' /\ s = files
    OBVIOUS
  <2>2. /\ block.phase = "open" /\ UNCHANGED <<files, deaths>>
        /\ b = [block EXCEPT !.phase = "restoring", !.todo = <<"manifests", "storage", "objects">>]
    BY <1>4, <2>1 DEF LocalRaise
  <2>3. PICK todo : todo = <<"manifests", "storage", "objects">>
    OBVIOUS
  <2>4. todo \in Seq(Table) /\ Len(todo) = 3
    BY <2>3 DEF Table
  <2>5. \A i \in 1 .. Len(todo) : todo[i] = TableAt(0 + i)
    BY <2>3 DEF TableAt
  <2>6. b.phase = "restoring" /\ b.todo = todo /\ b.snapshot = block.snapshot /\ b \in LocalBlocks
    BY <1>1, <2>2, <2>3, <2>4 DEF LocalBlocks
  <2>7. Restored(s, b)
    <3>1. PICK k \in 0 .. 3 : k = 0
      OBVIOUS
    <3>2. b.todo \in Seq(Table) /\ Len(b.todo) = 3 - k
      BY <2>4, <2>6, <3>1
    <3>3. \A i \in 1 .. Len(b.todo) : b.todo[i] = TableAt(k + i)
      BY <2>5, <2>6, <3>1
    <3>4. ~(k >= 1) /\ ~(k >= 2) /\ ~(k >= 3)
      BY <3>1
    <3> QED BY <3>2, <3>3, <3>4 DEF Restored
  <2> QED BY <1>1, <2>1, <2>2, <2>6, <2>7 DEF LocalInv
<1>5. ASSUME LocalDies PROVE LocalInv'
  <2>1. block' = Closed /\ UNCHANGED files /\ deaths' = deaths + 1
    BY <1>5 DEF LocalDies
  <2>2. deaths' \in Nat /\ deaths' # 0
    BY <1>1, <2>1
  <2> QED BY <1>1, <2>1, <2>2, LocalFilesEmpty DEF LocalInv
<1> QED BY <1>2, <1>3, <1>4, <1>5, LocalWriteKeeps, LocalCommitKeeps, RestoreKeeps DEF LocalNext

(* The invariant gives the types and whole files at rest.                   *)
LEMMA LocalInvMeans == LocalInv => LocalTypeOK /\ RaisesLeaveNothing
<1> SUFFICES ASSUME LocalInv PROVE LocalTypeOK /\ RaisesLeaveNothing
  OBVIOUS
<1>1. LocalTypeOK
  BY DEF LocalInv, LocalFiles, LocalRow, LocalBlocks, LocalTypeOK
<1>2. ASSUME WholeFiles(files) PROVE Whole
  BY <1>2 DEF WholeFiles, Whole, ObjectsOf
<1> QED BY <1>1, <1>2, LocalFilesEmpty DEF LocalInv, RaisesLeaveNothing, AtRest

(* LocalCatalog.transaction: every variable keeps its type.                 *)
THEOREM LocalTypeCorrect == LocalSpec => []LocalTypeOK
<1> QED BY LocalInvInit, LocalInvStep, LocalInvMeans, PTL DEF LocalSpec

(* While no process dies in a block, the files at rest are whole: a block   *)
(* that raised, wherever it did, left nothing, and one that ended left      *)
(* every row, for any number of revisions and parts.                        *)
THEOREM BlocksLeaveWholeFiles == LocalSpec => []RaisesLeaveNothing
<1> QED BY LocalInvInit, LocalInvStep, LocalInvMeans, PTL DEF LocalSpec

-----------------------------------------------------------------------------
(* The warm-up bundle                                                       *)

Best == [bars : SUBSET MarketEvent, conflict : BOOLEAN]
NoBest == [bars |-> {}, conflict |-> FALSE]

(* One more event of the list.                                              *)
LEMMA SelectTyped ==
  ASSUME NEW best \in Best, NEW e \in MarketEvent
  PROVE  Select(best, e) \in Best
BY DEF Best, Select

(* The events of a list are selected one by one.                            *)
LEMMA SelectedStepwise ==
  ASSUME NEW events \in Seq(MarketEvent)
  PROVE  \E g \in [0 .. Len(events) -> Best] :
           /\ g[0] = NoBest /\ g[Len(events)] = Selected(events)
           /\ \A k \in 1 .. Len(events) : g[k] = Select(g[k - 1], events[k])
<1> DEFINE n == Len(events)
<1> DEFINE F == [p \in (1 .. n) \X Best |-> Select(p[2], events[p[1]])]
<1> DEFINE body(it) ==
      [t \in SUBSET DOMAIN events |->
         IF t = {} THEN NoBest ELSE Select(it[t \ {Max(t)}], events[Max(t)])]
<1>1. n \in Nat /\ DOMAIN events = 1 .. n /\ NoBest \in Best
  BY DEF NoBest, Best
<1>2. F \in [(1 .. n) \X Best -> Best]
  <2>1. ASSUME NEW p \in (1 .. n) \X Best PROVE Select(p[2], events[p[1]]) \in Best
    BY <1>1, SelectTyped
  <2> QED BY <2>1
<1>3. \A k \in 1 .. n, x \in Best : F[<<k, x>>] = Select(x, events[k])
  OBVIOUS
<1> HIDE DEF F
<1>4. PICK it \in [SUBSET (1 .. n) -> Best] : IsIterated(it, n, NoBest, F)
  BY <1>1, <1>2, IterationExists
<1>5. ASSUME NEW t \in SUBSET (1 .. n), t # {}
      PROVE  Max(t) \in 1 .. n /\ t \ {Max(t)} \in SUBSET (1 .. n)
  <2>1. t \in SUBSET (0 .. n)
    OBVIOUS
  <2> QED BY <1>1, <1>5, <2>1, MaxIsGreatest
<1>6. it = body(it)
  <2>1. ASSUME NEW t \in SUBSET (1 .. n)
        PROVE  it[t] = IF t = {} THEN NoBest ELSE Select(it[t \ {Max(t)}], events[Max(t)])
    <3>1. CASE t = {}
      BY <3>1, <1>4 DEF IsIterated
    <3>2. CASE t # {}
      <4>1. Max(t) \in 1 .. n /\ it[t \ {Max(t)}] \in Best
        BY <3>2, <1>4, <1>5
      <4>2. it[t] = F[<<Max(t), it[t \ {Max(t)}]>>]
        BY <3>2, <1>4 DEF IsIterated
      <4> QED BY <3>2, <4>1, <4>2, <1>3
    <3> QED BY <3>1, <3>2
  <2> QED BY <2>1, <1>1
<1> DEFINE chosen == CHOOSE x : x = body(x)
<1>7. chosen = body(chosen)
  BY <1>6
<1>8. Selected(events) = chosen[1 .. n]
  BY <1>1 DEF Selected, FoldLeft, MapThenFoldSet, NoBest
<1> HIDE DEF chosen
<1>9. \A t \in SUBSET (1 .. n) :
        chosen[t] = IF t = {} THEN NoBest ELSE Select(chosen[t \ {Max(t)}], events[Max(t)])
  BY <1>1, <1>7
<1>10. chosen[{}] = NoBest
  BY <1>9
<1>11. ASSUME NEW k \in 1 .. n
       PROVE  chosen[1 .. k] = Select(chosen[1 .. k - 1], events[k])
  BY <1>1, <1>9, FirstPositions
<1>12. PICK g \in [0 .. n -> Best] :
         /\ g[0] = NoBest /\ g[n] = chosen[1 .. n]
         /\ \A k \in 1 .. n : g[k] = F[<<k, g[k - 1]>>]
  <2>1. \A k \in 1 .. n : chosen[1 .. k - 1] \in Best =>
          chosen[1 .. k] = F[<<k, chosen[1 .. k - 1]>>]
    BY <1>3, <1>11
  <2> HIDE DEF n
  <2>2. StepsFollow(chosen, n, Best, NoBest, F)
    BY <1>1, <1>2, <1>10, <2>1 DEF StepsFollow
  <2>3. StepsListed(chosen, n, Best, NoBest, F)
    BY <2>2, IterationSteps
  <2> QED BY <2>3 DEF StepsListed
<1>13. ASSUME NEW k \in 1 .. n PROVE g[k] = Select(g[k - 1], events[k])
  <2>1. g[k - 1] \in Best
    BY <1>1
  <2> QED BY <1>3, <1>12, <2>1
<1>14. g[n] = Selected(events)
  BY <1>8, <1>12
<1> QED BY <1>12, <1>13, <1>14

(* Of the events looked at so far one per id is selected; without a         *)
(* conflict it is newer than every other of its id.                         *)
SelectedFrom(best, E) ==
  /\ best.bars \subseteq E
  /\ \A e \in E : \E c \in best.bars : c.id = e.id
  /\ \A c, d \in best.bars : c.id = d.id => c = d
  /\ ~best.conflict =>
       \A c \in best.bars, e \in E : c.id = e.id => c = e \/ Newer(c, e)

(* Newer is a strict order of the events.                                   *)
LEMMA NewerIsStrict ==
  ASSUME NEW c \in MarketEvent, NEW d \in MarketEvent, NEW e \in MarketEvent
  PROVE  /\ Newer(c, d) /\ Newer(d, e) => Newer(c, e)
         /\ ~(Newer(c, d) /\ Newer(d, c))
         /\ ~Newer(c, d) /\ c.rev # d.rev => Newer(d, c)
BY BundleAssumption DEF Newer

(* One more event keeps the selection that of the events looked at.         *)
LEMMA SelectKeeps ==
  ASSUME NEW best \in Best, NEW E \in SUBSET MarketEvent, NEW e \in MarketEvent,
         SelectedFrom(best, E)
  PROVE  SelectedFrom(Select(best, e), E \cup {e})
<1> DEFINE known == {f \in best.bars : f.id = e.id}
<1> DEFINE after == Select(best, e)
<1>1. best.bars \subseteq MarketEvent
  BY DEF Best
<1>2. CASE \A f \in known : Newer(e, f)
  <2>1. after.bars = (best.bars \ known) \cup {e} /\ after.conflict = best.conflict
    BY <1>2 DEF Select, Best
  <2>2. \A f \in best.bars \ known : f.id # e.id
    OBVIOUS
  <2>3. /\ after.bars \subseteq E \cup {e}
        /\ \A c, d \in after.bars : c.id = d.id => c = d
    BY <2>1, <2>2 DEF SelectedFrom
  <2>4. ASSUME NEW f \in E \cup {e} PROVE \E c \in after.bars : c.id = f.id
    <3>1. CASE f.id = e.id
      BY <3>1, <2>1
    <3>2. CASE f.id # e.id
      <4>1. PICK c \in best.bars : c.id = f.id
        BY <3>2 DEF SelectedFrom
      <4>2. c \in after.bars
        BY <3>2, <4>1, <2>1
      <4> QED BY <4>1, <4>2
    <3> QED BY <3>1, <3>2
  <2>5. ASSUME ~after.conflict, NEW c \in after.bars, NEW f \in E \cup {e}, c.id = f.id
        PROVE  c = f \/ Newer(c, f)
    <3> HIDE DEF after
    <3>1. CASE c = e
      <4>1. SUFFICES ASSUME f \in E, f # e PROVE Newer(e, f)
        BY <3>1
      <4>2. PICK d \in best.bars : d.id = f.id
        BY <4>1 DEF SelectedFrom
      <4>3. d \in known /\ (d = f \/ Newer(d, f))
        BY <2>1, <2>5, <3>1, <4>1, <4>2 DEF SelectedFrom
      <4>4. Newer(e, d)
        BY <1>2, <4>3
      <4> QED BY <1>1, <4>1, <4>2, <4>3, <4>4, NewerIsStrict
    <3>2. CASE c # e
      <4>1. c \in best.bars /\ c.id # e.id /\ f \in E
        BY <2>1, <2>2, <2>5, <3>2
      <4> QED BY <2>1, <2>5, <4>1 DEF SelectedFrom
    <3> QED BY <3>1, <3>2
  <2> HIDE DEF after
  <2>6. SelectedFrom(after, E \cup {e})
    BY <2>3, <2>4, <2>5 DEF SelectedFrom
  <2> QED BY <2>6 DEF after
<1>3. CASE ~(\A f \in known : Newer(e, f))
  <2>1. /\ after.bars = best.bars
        /\ after.conflict = (best.conflict \/ \E f \in known : f # e /\ f.rev = e.rev)
    BY <1>3 DEF Select, Best
  <2>2. PICK b \in known : ~Newer(e, b)
    BY <1>3
  <2>3. \A f \in known : f = b
    BY <2>2 DEF SelectedFrom
  <2>4. ASSUME ~after.conflict PROVE b = e \/ Newer(b, e)
    <3>1. b = e \/ b.rev # e.rev
      BY <2>1, <2>4
    <3> QED BY <1>1, <2>2, <3>1, NewerIsStrict
  <2>5. /\ after.bars \subseteq E \cup {e}
        /\ \A f \in E \cup {e} : \E c \in after.bars : c.id = f.id
        /\ \A c, d \in after.bars : c.id = d.id => c = d
    BY <2>1, <2>2 DEF SelectedFrom
  <2>6. ASSUME ~after.conflict, NEW c \in after.bars, NEW f \in E \cup {e}, c.id = f.id
        PROVE  c = f \/ Newer(c, f)
    <3>1. CASE f \in E
      BY <2>1, <2>6, <3>1 DEF SelectedFrom
    <3>2. CASE f = e
      BY <2>1, <2>3, <2>4, <2>6, <3>2
    <3> QED BY <3>1, <3>2
  <2> HIDE DEF after
  <2>7. SelectedFrom(after, E \cup {e})
    BY <2>5, <2>6 DEF SelectedFrom
  <2> QED BY <2>7 DEF after
<1> QED BY <1>2, <1>3

(* So a list is reduced to events selected from all of it.                  *)
LEMMA SelectedFromAll ==
  ASSUME NEW events \in Seq(MarketEvent)
  PROVE  Selected(events) \in Best /\ SelectedFrom(Selected(events), Range(events))
<1> DEFINE n == Len(events)
<1> DEFINE Seen(k) == {events[i] : i \in 1 .. k}
<1>1. n \in Nat /\ DOMAIN events = 1 .. n /\ \A i \in 1 .. n : events[i] \in MarketEvent
  OBVIOUS
<1>2. PICK g \in [0 .. n -> Best] :
        /\ g[0] = NoBest /\ g[n] = Selected(events)
        /\ \A k \in 1 .. n : g[k] = Select(g[k - 1], events[k])
  BY SelectedStepwise
<1> DEFINE Bad == {k \in 0 .. n : ~SelectedFrom(g[k], Seen(k))}
<1>3. SelectedFrom(g[0], Seen(0))
  <2>1. Seen(0) = {}
    OBVIOUS
  <2> QED BY <1>2, <2>1 DEF SelectedFrom, NoBest
<1>4. ASSUME NEW k \in 1 .. n, SelectedFrom(g[k - 1], Seen(k - 1))
      PROVE  SelectedFrom(g[k], Seen(k))
  <2>1. Seen(k) = Seen(k - 1) \cup {events[k]}
    <3>1. 1 .. k = (1 .. k - 1) \cup {k}
      BY <1>1
    <3> QED BY <3>1
  <2>2. g[k - 1] \in Best /\ Seen(k - 1) \in SUBSET MarketEvent /\ events[k] \in MarketEvent
    BY <1>1
  <2> HIDE DEF Seen
  <2> QED BY <1>2, <1>4, <2>1, <2>2, SelectKeeps
<1> HIDE DEF Seen
<1>5. Bad = {}
  <2>1. Bad \in SUBSET Nat
    BY <1>1
  <2> SUFFICES ASSUME Bad # {} PROVE FALSE
    OBVIOUS
  <2>2. PICK m \in Bad : \A k \in Bad : m <= k
    BY <2>1, MinIsLeast
  <2>3. m \in 0 .. n /\ ~SelectedFrom(g[m], Seen(m)) /\ m # 0
    BY <1>3, <2>2
  <2>4. m \in 1 .. n /\ m - 1 \in 0 .. n /\ m - 1 \notin Bad
    BY <1>1, <2>2, <2>3
  <2> QED BY <1>4, <2>3, <2>4
<1>6. SelectedFrom(g[n], Seen(n)) /\ g[n] \in Best
  BY <1>1, <1>5
<1>7. Seen(n) = Range(events)
  BY <1>1 DEF Seen, Range
<1> QED BY <1>2, <1>6, <1>7

(* A list without a conflict is reduced to the newest revision of each of   *)
(* its events.                                                              *)
LEMMA ValidBarsAreNewest ==
  ASSUME NEW events \in Seq(MarketEvent), ~Selected(events).conflict
  PROVE  Bars(events) = NewestOf(events)
<1> DEFINE best == Selected(events)
<1>1. SelectedFrom(best, Range(events)) /\ best.bars \subseteq Range(events)
  BY SelectedFromAll DEF SelectedFrom
<1>2. Range(events) \subseteq MarketEvent
  BY DEF Range
<1>3. ASSUME NEW c \in best.bars, NEW f \in Range(events), f.id = c.id PROVE ~Newer(f, c)
  <2>1. c = f \/ Newer(c, f)
    BY <1>1, <1>3 DEF SelectedFrom
  <2> QED BY <1>1, <1>2, <2>1, NewerIsStrict
<1>4. ASSUME NEW e \in Range(events), \A f \in Range(events) : f.id = e.id => ~Newer(f, e)
      PROVE  e \in best.bars
  <2>1. PICK c \in best.bars : c.id = e.id
    BY <1>1 DEF SelectedFrom
  <2>2. c = e \/ Newer(c, e)
    BY <1>1, <2>1 DEF SelectedFrom
  <2> QED BY <1>1, <1>4, <2>1, <2>2
<1>5. Bars(events) = {e \in best.bars : e.type = WantedType}
  BY DEF Bars
<1> HIDE DEF best
<1> QED BY <1>1, <1>3, <1>4, <1>5 DEF NewestOf

(* Nothing is reduced to nothing.                                           *)
LEMMA NoEventsNoBars == Bars(<<>>) = {} /\ NewestOf(<<>>) = {}
<1>1. <<>> \in Seq(MarketEvent) /\ Range(<<>>) = {}
  BY DEF Range
<1>2. Selected(<<>>).bars \subseteq {}
  BY <1>1, SelectedFromAll DEF SelectedFrom
<1> QED BY <1>1, <1>2 DEF Bars, NewestOf

(* What an exporter has at each step of its work.                           *)
ExporterPhase == {"idle", "draining", "checking", "writing", "certifying", "moving"}
ExporterRecord ==
  [phase : ExporterPhase, receipt : BOOLEAN, input : BundleInput, bars : SUBSET MarketEvent,
   files : SUBSET {"events", "features", "manifest", "receipt"}]
ExporterGood(w) ==
  /\ w \in ExporterRecord
  /\ w.phase = "idle" => w = Off
  /\ w.phase \in {"draining", "checking"} => w.files = {}
  /\ w.phase \in {"writing", "certifying", "moving"} => w.bars = NewestOf(w.input.events)
  /\ w.phase = "writing" => w.files \subseteq Range(Files(w.input))
  /\ w.phase = "certifying" => w.receipt /\ w.files = Range(Files(w.input))
  /\ w.phase = "moving" => w.files = WholeOutput(w.input, w.receipt)

OutputGood ==
  /\ output \in [files : SUBSET {"events", "features", "manifest", "receipt"},
                 bars : SUBSET MarketEvent, input : BundleInput]
  /\ output = Nothing \/ output.files \in {WholeOutput(output.input, r) : r \in BOOLEAN}
  /\ output.bars = NewestOf(output.input.events)

AnswersGood ==
  \A a \in answers :
    /\ a.input \in BundleInput /\ a.report \in {"PUBLISHED", "ALREADY_APPLIED", "REFUSED"}
    /\ a.report # "REFUSED" => a.input = output.input /\ "receipt" \in output.files

BundleInv ==
  /\ inbox \subseteq MarketEvent /\ exports \in Nat
  /\ exporter = [x \in Exporter |-> exporter[x]] /\ \A x \in Exporter : ExporterGood(exporter[x])
  /\ OutputGood /\ AnswersGood

(* The inputs, and the files a bundle of them has.                          *)
LEMMA InputsTyped ==
  ASSUME NEW in \in BundleInput
  PROVE  /\ in.state \in {"READY", "BLOCKED"} /\ in.events \in Seq(MarketEvent)
         /\ in = [state |-> in.state, events |-> in.events]
         /\ in = Blocked => in.events = <<>>
         /\ in # Blocked => in = ReadyInput(in.events)
<1>1. <<>> \in Seq(MarketEvent)
  OBVIOUS
<1>2. CASE in = Blocked
  BY <1>1, <1>2 DEF Blocked
<1>3. CASE in # Blocked
  <2>1. PICK d \in Seq(MarketEvent) : in = ReadyInput(d)
    BY <1>3 DEF BundleInput
  <2> QED BY <2>1, <1>3 DEF ReadyInput
<1> QED BY <1>2, <1>3

(* The files of a bundle, in the order they are written.                    *)
LEMMA BundleFiles ==
  ASSUME NEW in
  PROVE  /\ Files(in) \in {<<"manifest">>, <<"events", "features", "manifest">>}
         /\ "manifest" \in Range(Files(in)) /\ "receipt" \notin Range(Files(in))
         /\ Range(Files(in)) \subseteq {"events", "features", "manifest"}
         /\ \A k \in DOMAIN Files(in) : Files(in)[k] \in Range(Files(in))
         /\ DOMAIN Files(in) \in SUBSET Nat
         /\ Range(Files(in)) = {Files(in)[k] : k \in DOMAIN Files(in)}
<1>1. Files(in) = <<"manifest">> \/ Files(in) = <<"events", "features", "manifest">>
  BY DEF Files
<1>2. CASE Files(in) = <<"manifest">>
  <2>1. DOMAIN Files(in) = {1} /\ Range(Files(in)) = {"manifest"}
    BY <1>2 DEF Range
  <2> QED BY <1>2, <2>1 DEF Range
<1>3. CASE Files(in) = <<"events", "features", "manifest">>
  <2>1. DOMAIN Files(in) = {1, 2, 3} /\ Range(Files(in)) = {"events", "features", "manifest"}
    BY <1>3 DEF Range
  <2> QED BY <1>3, <2>1 DEF Range
<1> QED BY <1>1, <1>2, <1>3

(* An exporter that rests has nothing.                                      *)
LEMMA OffGood == ExporterGood(Off)
<1>1. Blocked \in BundleInput
  BY DEF BundleInput
<1>2. Off \in ExporterRecord
  BY <1>1 DEF Off, ExporterRecord, ExporterPhase
<1> QED BY <1>2 DEF ExporterGood, Off

(* No bundle yet: nothing is published and every exporter rests.            *)
LEMMA BundleInvInit == BundleInit => BundleInv
<1> SUFFICES ASSUME BundleInit PROVE BundleInv
  OBVIOUS
<1>1. exporter = [x \in Exporter |-> exporter[x]] /\ \A x \in Exporter : ExporterGood(exporter[x])
  BY OffGood DEF BundleInit
<1>2. OutputGood
  <2>1. Blocked \in BundleInput /\ Blocked.events = <<>>
    BY DEF BundleInput, Blocked
  <2> QED BY <2>1, NoEventsNoBars DEF BundleInit, OutputGood, Nothing
<1>3. inbox \subseteq MarketEvent /\ exports \in Nat
  BY BundleAssumption DEF BundleInit
<1> QED BY <1>1, <1>2, <1>3 DEF BundleInit, BundleInv, AnswersGood

(* One exporter moves on, nothing else changes.                             *)
LEMMA ExporterMoves ==
  ASSUME BundleInv, NEW x \in Exporter, NEW w, ExporterGood(w), Change(x, w)
  PROVE  /\ exporter' = [y \in Exporter |-> exporter'[y]]
         /\ \A y \in Exporter : ExporterGood(exporter'[y])
BY DEF BundleInv, Change

(* A step of one exporter leaves the others as they were.                   *)
LEMMA ExporterAlone ==
  ASSUME BundleInv, NEW x \in Exporter, NEW w, ExporterGood(w), Change(x, w),
         inbox' \subseteq MarketEvent, exports' \in Nat, UNCHANGED <<output, answers>>
  PROVE  BundleInv'
<1>1. OutputGood' /\ AnswersGood'
  BY DEF BundleInv, OutputGood, AnswersGood
<1>2. /\ exporter' = [y \in Exporter |-> exporter'[y]]
      /\ \A y \in Exporter : ExporterGood(exporter'[y])
  BY ExporterMoves
<1>3. \A y \in Exporter : ExporterGood(exporter[y])'
  BY <1>2 DEF ExporterGood
<1> QED BY <1>1, <1>2, <1>3 DEF BundleInv

(* The steps before the bundle is made.                                     *)
LEMMA CollectingKeeps ==
  ASSUME BundleInv, NEW x \in Exporter,
         \/ \E in \in {Blocked} \cup {ReadyInput(d) : d \in Documents} : BeginExport(x, in)
         \/ \E e \in inbox : Drain(x, e)
         \/ Silent(x) \/ Fails(x)
  PROVE  BundleInv'
<1>0. ExporterGood(exporter[x]) /\ inbox \subseteq MarketEvent /\ exports \in Nat
  BY DEF BundleInv
<1>1. ASSUME NEW in \in {Blocked} \cup {ReadyInput(d) : d \in Documents}, BeginExport(x, in)
      PROVE  BundleInv'
  <2> DEFINE w == [Off EXCEPT !.phase = "checking", !.receipt = TRUE, !.input = in]
  <2>1. in \in BundleInput
    BY BundleAssumption DEF BundleInput
  <2>2. ExporterGood(w)
    BY <2>1 DEF ExporterGood, ExporterRecord, ExporterPhase, Off
  <2>3. Change(x, w) /\ UNCHANGED <<inbox, output, answers>> /\ exports' = exports + 1
    BY <1>1 DEF BeginExport
  <2> HIDE DEF w
  <2> QED BY <1>0, <2>2, <2>3, ExporterAlone
<1>2. ASSUME NEW e \in inbox, Drain(x, e) PROVE BundleInv'
  <2> DEFINE d == Append(exporter[x].input.events, e)
  <2> DEFINE w == [Off EXCEPT !.phase = "draining", !.input = ReadyInput(d)]
  <2>1. exporter[x].input \in BundleInput
    BY <1>0 DEF ExporterGood, ExporterRecord
  <2>2. d \in Seq(MarketEvent)
    BY <1>0, <2>1, InputsTyped
  <2> HIDE DEF d
  <2>3. ReadyInput(d) \in BundleInput
    BY <2>2 DEF BundleInput
  <2>4. ExporterGood(w)
    BY <2>3 DEF ExporterGood, ExporterRecord, ExporterPhase, Off
  <2>5. Change(x, w) /\ UNCHANGED <<output, answers, exports>> /\ inbox' \subseteq inbox
    BY <1>2 DEF Drain, d
  <2> HIDE DEF w
  <2> QED BY <1>0, <2>4, <2>5, ExporterAlone
<1>3. CASE Silent(x)
  <2> DEFINE w == [exporter[x] EXCEPT !.phase = "checking"]
  <2>1. exporter[x].phase = "draining" /\ exporter[x] \in ExporterRecord /\ exporter[x].files = {}
    BY <1>0, <1>3 DEF Silent, ExporterGood
  <2>2. ExporterGood(w)
    BY <2>1 DEF ExporterGood, ExporterRecord, ExporterPhase
  <2>3. Change(x, w) /\ UNCHANGED <<inbox, output, answers>> /\ exports' = exports + 1
    BY <1>3 DEF Silent
  <2> HIDE DEF w
  <2> QED BY <1>0, <2>2, <2>3, ExporterAlone
<1>4. CASE Fails(x)
  <2>1. Change(x, Off) /\ UNCHANGED <<inbox, output, answers, exports>>
    BY <1>4 DEF Fails, Stay
  <2> QED BY <1>0, <2>1, OffGood, ExporterAlone
<1> QED BY <1>1, <1>2, <1>3, <1>4

(* The check: what is written next are the newest revisions of its input.   *)
LEMMA CheckKeeps ==
  ASSUME BundleInv, NEW x \in Exporter, Check(x)
  PROVE  BundleInv'
<1> DEFINE in == exporter[x].input
<1> DEFINE w == [exporter[x] EXCEPT !.phase = "writing", !.bars = Bars(in.events)]
<1>1. /\ exporter[x] \in ExporterRecord /\ in \in BundleInput /\ exporter[x].files = {}
      /\ inbox \subseteq MarketEvent /\ exports \in Nat
  BY DEF BundleInv, Check, ExporterGood, ExporterRecord
<1>2. Stay /\ (Change(x, Off) \/ (Change(x, w) /\ (in = Blocked \/ Valid(in.events))))
  BY DEF Check
<1>3. CASE Change(x, Off)
  BY <1>1, <1>2, <1>3, OffGood, ExporterAlone DEF Stay
<1>4. CASE Change(x, w) /\ (in = Blocked \/ Valid(in.events))
  <2>1. in.events \in Seq(MarketEvent) /\ (in = Blocked => in.events = <<>>)
    BY <1>1, InputsTyped
  <2>2. Bars(in.events) = NewestOf(in.events)
    <3>1. CASE in = Blocked
      BY <2>1, <3>1, NoEventsNoBars
    <3>2. CASE Valid(in.events)
      BY <2>1, <3>2, ValidBarsAreNewest DEF Valid
    <3> QED BY <1>4, <3>1, <3>2
  <2>3. NewestOf(in.events) \subseteq MarketEvent
    BY <2>1 DEF NewestOf, Range
  <2> DEFINE made == Bars(in.events)
  <2> HIDE DEF made
  <2>4. /\ w.phase = "writing" /\ w.bars = made /\ w.input = in /\ w.files = {}
        /\ w \in ExporterRecord
    BY <1>1, <2>2, <2>3 DEF ExporterRecord, ExporterPhase, made
  <2>5. ExporterGood(w)
    BY <2>2, <2>4 DEF ExporterGood, made
  <2> HIDE DEF w
  <2> QED BY <1>1, <1>2, <1>4, <2>5, ExporterAlone DEF Stay
<1> QED BY <1>2, <1>3, <1>4

(* The files are written one by one until all are there.                    *)
LEMMA WriteFileKeeps ==
  ASSUME BundleInv, NEW x \in Exporter, WriteFile(x)
  PROVE  BundleInv'
<1> DEFINE all == Files(exporter[x].input)
<1> DEFINE rest == {k \in DOMAIN all : all[k] \notin exporter[x].files}
<1> DEFINE w1 == [exporter[x] EXCEPT !.files = @ \cup {all[Min(rest)]}]
<1> DEFINE w2 == [exporter[x] EXCEPT !.phase = IF exporter[x].receipt THEN "certifying" ELSE "moving"]
<1>1. /\ exporter[x] \in ExporterRecord /\ exporter[x].phase = "writing"
      /\ exporter[x].bars = NewestOf(exporter[x].input.events)
      /\ exporter[x].files \subseteq Range(all)
      /\ inbox \subseteq MarketEvent /\ exports \in Nat
  BY DEF BundleInv, WriteFile, ExporterGood
<1>2. Stay /\ IF rest # {} THEN Change(x, w1) ELSE Change(x, w2)
  BY DEF WriteFile
<1>3. CASE rest # {}
  <2>1. rest \in SUBSET Nat
    BY BundleFiles
  <2>2. Min(rest) \in DOMAIN all
    BY <1>3, <2>1, MinIsLeast
  <2>3. all[Min(rest)] \in Range(all) /\ Range(all) \subseteq {"events", "features", "manifest"}
    BY <2>2, BundleFiles
  <2> HIDE DEF rest, all
  <2>4. /\ w1.phase = "writing" /\ w1.bars = exporter[x].bars /\ w1.input = exporter[x].input
        /\ w1.files \subseteq Range(all) /\ w1 \in ExporterRecord
    BY <1>1, <2>3 DEF ExporterRecord
  <2>5. ExporterGood(w1)
    BY <1>1, <2>4 DEF ExporterGood, all
  <2> HIDE DEF w1
  <2> QED BY <1>1, <1>2, <1>3, <2>5, ExporterAlone DEF Stay
<1>4. CASE rest = {}
  <2>1. \A k \in DOMAIN all : all[k] \in exporter[x].files
    BY <1>4
  <2>2. Range(all) = exporter[x].files
    BY <1>1, <2>1, BundleFiles
  <2> HIDE DEF rest, all
  <2>3. /\ w2.bars = exporter[x].bars /\ w2.input = exporter[x].input
        /\ w2.files = Range(all) /\ w2 \in ExporterRecord /\ w2.receipt = exporter[x].receipt
        /\ w2.phase = IF w2.receipt THEN "certifying" ELSE "moving"
    BY <1>1, <2>2 DEF ExporterRecord, ExporterPhase
  <2> HIDE DEF w2
  <2>4. ExporterGood(w2)
    BY <1>1, <2>3 DEF ExporterGood, WholeOutput, all
  <2> QED BY <1>1, <1>2, <1>4, <2>4, ExporterAlone DEF Stay
<1> QED BY <1>3, <1>4

(* The receipt joins the files.                                             *)
LEMMA CertifyKeeps ==
  ASSUME BundleInv, NEW x \in Exporter, Certify(x)
  PROVE  BundleInv'
<1> DEFINE w == [exporter[x] EXCEPT !.phase = "moving", !.files = @ \cup {"receipt"}]
<1>1. /\ exporter[x] \in ExporterRecord /\ exporter[x].phase = "certifying" /\ exporter[x].receipt
      /\ exporter[x].bars = NewestOf(exporter[x].input.events)
      /\ exporter[x].files = Range(Files(exporter[x].input))
      /\ inbox \subseteq MarketEvent /\ exports \in Nat
  BY DEF BundleInv, Certify, ExporterGood
<1>2. /\ w.phase = "moving" /\ w.bars = exporter[x].bars /\ w.input = exporter[x].input
      /\ w.files = exporter[x].files \cup {"receipt"} /\ w.receipt /\ w \in ExporterRecord
  BY <1>1 DEF ExporterRecord, ExporterPhase
<1>3. Change(x, w) /\ Stay
  BY DEF Certify
<1> HIDE DEF w
<1>4. ExporterGood(w)
  BY <1>1, <1>2 DEF ExporterGood, WholeOutput
<1> QED BY <1>1, <1>3, <1>4, ExporterAlone DEF Stay

(* The bundle moves to its path, if nothing is there.                       *)
LEMMA MoveKeeps ==
  ASSUME BundleInv, NEW x \in Exporter, Move(x)
  PROVE  BundleInv'
<1> DEFINE w == exporter[x]
<1>1. /\ w \in ExporterRecord /\ w.bars = NewestOf(w.input.events)
      /\ w.files = WholeOutput(w.input, w.receipt)
  BY DEF BundleInv, Move, ExporterGood
<1>2. UNCHANGED <<inbox, exports>> /\ Change(x, Off)
  BY DEF Move
<1>3. CASE Exists
  <2>1. UNCHANGED <<output, answers>>
    BY <1>3 DEF Move, MayMove
  <2> QED BY <1>2, <2>1, OffGood, ExporterAlone DEF BundleInv
<1>4. CASE ~Exists
  <2>1. /\ output' = [files |-> w.files, bars |-> w.bars, input |-> w.input]
        /\ answers' = IF w.receipt
                      THEN answers \cup {[input |-> w.input, report |-> "PUBLISHED"]} ELSE answers
    BY <1>4 DEF Move, MayMove, Answer
  <2>2. OutputGood'
    BY <1>1, <2>1 DEF OutputGood, ExporterRecord
  <2>3. output.files = {}
    BY <1>4 DEF Exists, Nothing
  <2>4. \A a \in answers : a.input \in BundleInput /\ a.report = "REFUSED"
    BY <2>3 DEF BundleInv, AnswersGood
  <2>5. w.receipt => "receipt" \in w.files
    BY <1>1 DEF WholeOutput
  <2>6. w.input \in BundleInput /\ output'.input = w.input /\ output'.files = w.files
    BY <1>1, <2>1 DEF ExporterRecord
  <2> HIDE DEF w
  <2>7. AnswersGood'
    BY <2>1, <2>4, <2>5, <2>6 DEF AnswersGood
  <2>8. /\ exporter' = [y \in Exporter |-> exporter'[y]]
        /\ \A y \in Exporter : ExporterGood(exporter'[y])
    BY <1>2, OffGood, ExporterMoves
  <2>9. \A y \in Exporter : ExporterGood(exporter[y])'
    BY <2>8 DEF ExporterGood
  <2> QED BY <1>2, <2>2, <2>7, <2>8, <2>9 DEF BundleInv
<1> QED BY <1>3, <1>4

(* A replay answers for what lies at the path.                              *)
LEMMA ReplayKeeps ==
  ASSUME BundleInv, NEW x \in Exporter,
         NEW in \in {Blocked} \cup {ReadyInput(d) : d \in Documents}, Replay(x, in)
  PROVE  BundleInv'
<1>1. in \in BundleInput
  BY BundleAssumption DEF BundleInput
<1>2. /\ UNCHANGED <<inbox, output, exporter>> /\ exports' = exports + 1
      /\ answers' = answers \cup
           {[input |-> in, report |-> IF "receipt" \in output.files /\ in = output.input
                                      THEN "ALREADY_APPLIED" ELSE "REFUSED"]}
  BY DEF Replay, Answer, SameInputs
<1>3. AnswersGood'
  BY <1>1, <1>2 DEF BundleInv, AnswersGood
<1>4. OutputGood' /\ \A y \in Exporter : ExporterGood(exporter[y])'
  BY <1>2 DEF BundleInv, OutputGood, ExporterGood
<1> QED BY <1>2, <1>3, <1>4 DEF BundleInv

(* Every step of an exporter, a death and a replay keep it.                 *)
LEMMA BundleInvStep == BundleInv /\ [BundleNext]_bundleVars => BundleInv'
<1> SUFFICES ASSUME BundleInv, [BundleNext]_bundleVars PROVE BundleInv'
  OBVIOUS
<1>1. CASE UNCHANGED bundleVars
  BY <1>1 DEF bundleVars, BundleInv, OutputGood, AnswersGood, ExporterGood
<1>2. CASE BundleNext
  BY <1>2, CollectingKeeps, CheckKeeps, WriteFileKeeps, CertifyKeeps, MoveKeeps, ReplayKeeps
     DEF BundleNext
<1> QED BY <1>1, <1>2

(* The invariant gives the types and the promise of a bundle.               *)
LEMMA BundleInvMeans == BundleInv => BundleTypeOK /\ BundleSound
<1> SUFFICES ASSUME BundleInv PROVE BundleTypeOK /\ BundleSound
  OBVIOUS
<1>1. ASSUME NEW in \in BundleInput PROVE Typed(in)
  <2>1. in.state \in {"READY", "BLOCKED"} /\ in.events \in Seq(MarketEvent)
    BY InputsTyped
  <2> QED BY <2>1 DEF Typed, Range
<1>2. BundleTypeOK
  BY <1>1 DEF BundleInv, BundleTypeOK, OutputGood, AnswersGood, ExporterGood, ExporterRecord
<1>3. BundleSound
  BY DEF BundleInv, BundleSound, OutputGood, AnswersGood, Exists
<1> QED BY <1>2, <1>3

(* The bundle's files, its exporters and their answers keep their types.    *)
THEOREM BundleTypeCorrect == BundleSpec => []BundleTypeOK
<1> QED BY BundleInvInit, BundleInvStep, BundleInvMeans, PTL DEF BundleSpec

(* What lies at the output path is whole and holds the newest revision of   *)
(* each event of its input, for any lists, exporters, races and deaths; an  *)
(* answer that claims a publication names the input that lies there         *)
(* (realtime_warmup.py, runtime_warmup_export.py).                          *)
THEOREM BundleIsSound == BundleSpec => []BundleSound
<1> QED BY BundleInvInit, BundleInvStep, BundleInvMeans, PTL DEF BundleSpec

-----------------------------------------------------------------------------
(* The runtime export                                                       *)

(* The periods of a selection are finitely many, with dates for ends.       *)
LEMMA PeriodsFinite ==
  ASSUME catalog \in Catalogs, NEW S \in SUBSET Periods
  PROVE  /\ IsFiniteSet(S) /\ Cardinality(S) \in Nat
         /\ \A m \in S : m.start \in Int /\ m.end \in Int /\ m = [start |-> m.start, end |-> m.end]
<1> DEFINE f == [m \in SelectedManifests |-> [start |-> m.start, end |-> m.end]]
<1>1. SelectedManifests \subseteq catalog
  BY DEF SelectedManifests, CandidateManifests
<1>2. IsFiniteSet(SelectedManifests)
  BY <1>1, FS_Subset, ExportAssumption
<1>3. f \in Surjection(SelectedManifests, Periods)
  BY DEF Surjection, Periods
<1> HIDE DEF f
<1>4. IsFiniteSet(Periods)
  BY <1>2, <1>3, FS_Surjection
<1>5. IsFiniteSet(S)
  BY <1>4, FS_Subset
<1>6. \A m \in S : m.start \in Int /\ m.end \in Int /\ m = [start |-> m.start, end |-> m.end]
  BY <1>1, ExportAssumption DEF Periods
<1> QED BY <1>5, <1>6, FS_CardinalityType

PeriodsBefore(m) == {n \in Periods : StartsBefore(n, m)}

(* Of two periods the first one has fewer before it.                        *)
LEMMA FewerBefore ==
  ASSUME catalog \in Catalogs, NEW m \in Periods
  PROVE  /\ Cardinality(PeriodsBefore(m)) \in 0 .. Cardinality(Periods) - 1
         /\ \A n \in Periods : StartsBefore(m, n) =>
              Cardinality(PeriodsBefore(m)) < Cardinality(PeriodsBefore(n))
<1>1. \A n \in Periods : n.start \in Int /\ n.end \in Int
  BY PeriodsFinite
<1>2. ASSUME NEW T \in SUBSET Periods, NEW U \in SUBSET T, m \in T, m \notin U
      PROVE  Cardinality(U) < Cardinality(T)
  <2>1. IsFiniteSet(T) /\ IsFiniteSet(U) /\ Cardinality(T) \in Nat /\ Cardinality(U) \in Nat
    BY PeriodsFinite
  <2>2. Cardinality(U) <= Cardinality(T) /\ (Cardinality(T) = Cardinality(U) => T = U)
    BY <2>1, FS_Subset
  <2> QED BY <1>2, <2>1, <2>2
<1>3. m \notin PeriodsBefore(m) /\ PeriodsBefore(m) \in SUBSET Periods
  BY <1>1 DEF PeriodsBefore, StartsBefore
<1>4. Cardinality(PeriodsBefore(m)) < Cardinality(Periods)
  BY <1>2, <1>3
<1>5. Cardinality(PeriodsBefore(m)) \in Nat /\ Cardinality(Periods) \in Nat
  BY <1>3, PeriodsFinite
<1>6. ASSUME NEW n \in Periods, StartsBefore(m, n)
      PROVE  Cardinality(PeriodsBefore(m)) < Cardinality(PeriodsBefore(n))
  <2>1. \A o \in Periods : StartsBefore(o, m) => StartsBefore(o, n)
    BY <1>1, <1>6 DEF StartsBefore
  <2>2. /\ PeriodsBefore(n) \in SUBSET Periods
        /\ PeriodsBefore(m) \in SUBSET PeriodsBefore(n)
        /\ m \in PeriodsBefore(n)
    BY <1>6, <2>1 DEF PeriodsBefore
  <2> QED BY <1>2, <1>3, <2>2
<1> QED BY <1>4, <1>5, <1>6

(* So each place of the sorted list is taken by a period.                   *)
LEMMA SortedPeriodsArePeriods ==
  ASSUME catalog \in Catalogs
  PROVE  SortedPeriods \in Seq(Periods)
<1> DEFINE n == Cardinality(Periods)
<1> DEFINE place == [m \in Periods |-> Cardinality(PeriodsBefore(m))]
<1>1. IsFiniteSet(Periods) /\ n \in Nat
  BY PeriodsFinite
<1>2. IsFiniteSet(0 .. n - 1) /\ Cardinality(0 .. n - 1) = n
  <2>1. 0 \in Int /\ n - 1 \in Int
    BY <1>1
  <2>2. IsFiniteSet(0 .. n - 1)
        /\ Cardinality(0 .. n - 1) = IF 0 > n - 1 THEN 0 ELSE (n - 1) - 0 + 1
    BY <2>1, FS_Interval
  <2> HIDE DEF n
  <2> QED BY <1>1, <2>2
<1>3. place \in [Periods -> 0 .. n - 1]
  BY FewerBefore
<1>4. ASSUME NEW l \in Periods, NEW m \in Periods,
             Cardinality(PeriodsBefore(l)) = Cardinality(PeriodsBefore(m))
      PROVE  l = m
  <2>1. /\ StartsBefore(l, m) => Cardinality(PeriodsBefore(l)) < Cardinality(PeriodsBefore(m))
        /\ StartsBefore(m, l) => Cardinality(PeriodsBefore(m)) < Cardinality(PeriodsBefore(l))
        /\ Cardinality(PeriodsBefore(l)) \in 0 .. n - 1
        /\ Cardinality(PeriodsBefore(m)) \in 0 .. n - 1
    BY FewerBefore
  <2>2. /\ l.start \in Int /\ l.end \in Int /\ l = [start |-> l.start, end |-> l.end]
        /\ m.start \in Int /\ m.end \in Int /\ m = [start |-> m.start, end |-> m.end]
    BY PeriodsFinite
  <2>3. StartsBefore(l, m) \/ StartsBefore(m, l) \/ (l.start = m.start /\ l.end = m.end)
    BY <2>2 DEF StartsBefore
  <2> QED BY <1>1, <1>4, <2>1, <2>2, <2>3
<1>5. \A l, m \in Periods : place[l] = place[m] => l = m
  BY <1>4
<1> HIDE DEF place
<1>6. place \in Injection(Periods, 0 .. n - 1)
  BY <1>3, <1>5 DEF Injection, IsInjective
<1>7. place \in Surjection(Periods, 0 .. n - 1)
  BY <1>1, <1>2, <1>6, FS_Injection
<1>8. ASSUME NEW k \in 1 .. n PROVE \E m \in Periods : place[m] = k - 1
  <2>1. k - 1 \in 0 .. n - 1
    BY <1>1
  <2> QED BY <1>7, <2>1 DEF Surjection
<1>9. \A k \in 1 .. n : \E m \in Periods : Cardinality({o \in Periods : StartsBefore(o, m)}) = k - 1
  BY <1>8 DEF place, PeriodsBefore
<1>10. \A k \in 1 .. n :
         (CHOOSE m \in Periods : Cardinality({o \in Periods : StartsBefore(o, m)}) = k - 1) \in Periods
  BY <1>9
<1> DEFINE At(k) == CHOOSE m \in Periods : Cardinality({o \in Periods : StartsBefore(o, m)}) = k - 1
<1>11. SortedPeriods = [k \in 1 .. n |-> At(k)] /\ \A k \in 1 .. n : At(k) \in Periods
  BY <1>10 DEF SortedPeriods
<1> HIDE DEF At, n
<1> QED BY <1>1, <1>11

Cursor == [day : Int, gap : BOOLEAN]
AtStart == [day |-> ExportStart, gap |-> FALSE]

(* The periods are scanned one by one.                                      *)
LEMMA ScannedStepwise ==
  ASSUME catalog \in Catalogs
  PROVE  \E g \in [0 .. Len(SortedPeriods) -> Cursor] :
           /\ g[0] = AtStart /\ g[Len(SortedPeriods)] = CoverScan
           /\ \A k \in 1 .. Len(SortedPeriods) : g[k] = CoverStep(g[k - 1], SortedPeriods[k])
<1> DEFINE list == SortedPeriods
<1> DEFINE n == Len(list)
<1> DEFINE F == [p \in (1 .. n) \X Cursor |-> CoverStep(p[2], list[p[1]])]
<1> DEFINE body(it) ==
      [t \in SUBSET DOMAIN list |->
         IF t = {} THEN AtStart ELSE CoverStep(it[t \ {Max(t)}], list[Max(t)])]
<1>0. list \in Seq(Periods)
  BY SortedPeriodsArePeriods
<1> HIDE DEF list
<1>1. n \in Nat /\ DOMAIN list = 1 .. n /\ AtStart \in Cursor
  BY <1>0, ExportAssumption DEF AtStart, Cursor
<1>2. F \in [(1 .. n) \X Cursor -> Cursor]
  <2>1. ASSUME NEW c \in Cursor, NEW k \in 1 .. n PROVE CoverStep(c, list[k]) \in Cursor
    <3>1. list[k] \in Periods
      BY <1>0
    <3>2. list[k].start \in Int /\ list[k].end \in Int
      BY <3>1, PeriodsFinite
    <3> QED BY <3>2 DEF Cursor, CoverStep
  <2>2. ASSUME NEW p \in (1 .. n) \X Cursor PROVE CoverStep(p[2], list[p[1]]) \in Cursor
    BY <2>1
  <2> QED BY <2>2
<1>3. \A k \in 1 .. n, x \in Cursor : F[<<k, x>>] = CoverStep(x, list[k])
  OBVIOUS
<1> HIDE DEF F
<1>4. PICK it \in [SUBSET (1 .. n) -> Cursor] : IsIterated(it, n, AtStart, F)
  BY <1>1, <1>2, IterationExists
<1>5. ASSUME NEW t \in SUBSET (1 .. n), t # {}
      PROVE  Max(t) \in 1 .. n /\ t \ {Max(t)} \in SUBSET (1 .. n)
  <2>1. t \in SUBSET (0 .. n)
    OBVIOUS
  <2> QED BY <1>1, <1>5, <2>1, MaxIsGreatest
<1>6. it = body(it)
  <2>1. ASSUME NEW t \in SUBSET (1 .. n)
        PROVE  it[t] = IF t = {} THEN AtStart ELSE CoverStep(it[t \ {Max(t)}], list[Max(t)])
    <3>1. CASE t = {}
      BY <3>1, <1>4 DEF IsIterated
    <3>2. CASE t # {}
      <4>1. Max(t) \in 1 .. n /\ it[t \ {Max(t)}] \in Cursor
        BY <3>2, <1>4, <1>5
      <4>2. it[t] = F[<<Max(t), it[t \ {Max(t)}]>>]
        BY <3>2, <1>4 DEF IsIterated
      <4> QED BY <3>2, <4>1, <4>2, <1>3
    <3> QED BY <3>1, <3>2
  <2> QED BY <2>1, <1>1
<1> DEFINE chosen == CHOOSE x : x = body(x)
<1>7. chosen = body(chosen)
  BY <1>6
<1>8. CoverScan = chosen[1 .. n]
  BY <1>1 DEF CoverScan, FoldLeft, MapThenFoldSet, AtStart, list
<1> HIDE DEF chosen
<1>9. \A t \in SUBSET (1 .. n) :
        chosen[t] = IF t = {} THEN AtStart ELSE CoverStep(chosen[t \ {Max(t)}], list[Max(t)])
  BY <1>1, <1>7
<1>10. chosen[{}] = AtStart
  BY <1>9
<1>11. ASSUME NEW k \in 1 .. n
       PROVE  chosen[1 .. k] = CoverStep(chosen[1 .. k - 1], list[k])
  BY <1>1, <1>9, FirstPositions
<1>12. PICK g \in [0 .. n -> Cursor] :
         /\ g[0] = AtStart /\ g[n] = chosen[1 .. n]
         /\ \A k \in 1 .. n : g[k] = F[<<k, g[k - 1]>>]
  <2>1. \A k \in 1 .. n : chosen[1 .. k - 1] \in Cursor =>
          chosen[1 .. k] = F[<<k, chosen[1 .. k - 1]>>]
    BY <1>3, <1>11
  <2>2. StepsFollow(chosen, n, Cursor, AtStart, F)
    BY <1>1, <1>2, <1>10, <2>1 DEF StepsFollow
  <2>3. StepsListed(chosen, n, Cursor, AtStart, F)
    BY <2>2, IterationSteps
  <2> QED BY <2>3 DEF StepsListed
<1>13. ASSUME NEW k \in 1 .. n PROVE g[k] = CoverStep(g[k - 1], list[k])
  <2>1. g[k - 1] \in Cursor
    BY <1>1
  <2> QED BY <1>3, <1>12, <2>1
<1>14. g[n] = CoverScan
  BY <1>8, <1>12
<1> QED BY <1>12, <1>13, <1>14 DEF list

(* The days behind the cursor lie in periods of the selection.              *)
DaysCovered(c) ==
  /\ ExportStart <= c.day
  /\ \A d \in ExportStart .. c.day - 1 :
       \E m \in SelectedManifests : m.start <= d /\ d < m.end

(* A scan that ends without a gap at the end of the selection has passed    *)
(* every day of it.                                                         *)
LEMMA CoverageIsComplete ==
  ASSUME catalog \in Catalogs, CoverageComplete
  PROVE  \A d \in ExportStart .. ExportEnd - 1 :
           \E m \in SelectedManifests : m.start <= d /\ d < m.end
<1> DEFINE n == Len(SortedPeriods)
<1>1. n \in Nat /\ \A k \in 1 .. n : SortedPeriods[k] \in Periods
  BY SortedPeriodsArePeriods
<1>2. PICK g \in [0 .. n -> Cursor] :
        /\ g[0] = AtStart /\ g[n] = CoverScan
        /\ \A k \in 1 .. n : g[k] = CoverStep(g[k - 1], SortedPeriods[k])
  BY ScannedStepwise
<1>3. DaysCovered(g[0])
  BY <1>2, ExportAssumption DEF DaysCovered, AtStart
<1>4. ASSUME NEW k \in 1 .. n, DaysCovered(g[k - 1])
      PROVE  DaysCovered(g[k])
  <2> DEFINE p == SortedPeriods[k]
  <2>1. PICK m \in SelectedManifests : p = [start |-> m.start, end |-> m.end]
    BY <1>1 DEF Periods
  <2>2. p.start = m.start /\ p.end = m.end /\ p.start \in Int /\ p.end \in Int
    BY <1>1, <2>1, PeriodsFinite
  <2>3. g[k - 1] \in Cursor /\ g[k] = CoverStep(g[k - 1], p)
    BY <1>1, <1>2
  <2> HIDE DEF p
  <2>4. \/ g[k].day = g[k - 1].day
        \/ g[k].day = p.end /\ p.start <= g[k - 1].day /\ g[k - 1].day < p.end
    BY <2>2, <2>3 DEF CoverStep, Cursor
  <2>5. CASE g[k].day = g[k - 1].day
    BY <1>4, <2>5 DEF DaysCovered
  <2>6. CASE g[k].day = p.end /\ p.start <= g[k - 1].day /\ g[k - 1].day < p.end
    <3>1. g[k - 1].day \in Int
      BY <2>3 DEF Cursor
    <3>2. ASSUME NEW d \in ExportStart .. g[k].day - 1
          PROVE  \E o \in SelectedManifests : o.start <= d /\ d < o.end
      <4>1. CASE d \in ExportStart .. g[k - 1].day - 1
        BY <1>4, <4>1 DEF DaysCovered
      <4>2. CASE d \notin ExportStart .. g[k - 1].day - 1
        <5>1. p.start <= d /\ d < p.end
          BY <2>2, <2>6, <3>1, <3>2, <4>2, ExportAssumption
        <5> QED BY <2>2, <5>1
      <4> QED BY <4>1, <4>2
    <3>3. ExportStart <= g[k].day
      BY <1>4, <2>2, <2>6, <3>1, ExportAssumption DEF DaysCovered
    <3> QED BY <3>2, <3>3 DEF DaysCovered
  <2> QED BY <2>4, <2>5, <2>6
<1> DEFINE Bad == {k \in 0 .. n : ~DaysCovered(g[k])}
<1>5. Bad = {}
  <2> HIDE DEF n
  <2>1. Bad \in SUBSET Nat
    BY <1>1
  <2> SUFFICES ASSUME Bad # {} PROVE FALSE
    OBVIOUS
  <2>2. PICK m \in Bad : \A k \in Bad : m <= k
    BY <2>1, MinIsLeast
  <2>3. m \in 0 .. n /\ ~DaysCovered(g[m]) /\ m # 0
    BY <1>3, <2>2
  <2>4. m \in 1 .. n /\ m - 1 \in 0 .. n /\ m - 1 \notin Bad
    BY <1>1, <2>2, <2>3
  <2> QED BY <1>4, <2>3, <2>4
<1>6. DaysCovered(CoverScan) /\ CoverScan \in Cursor
  <2> HIDE DEF n
  <2>1. n \in 0 .. n
    BY <1>1
  <2> QED BY <1>2, <1>5, <2>1
<1>7. CoverScan.day \in Int /\ CoverScan.day >= ExportEnd
  BY <1>6 DEF CoverageComplete, Cursor
<1>8. ExportStart .. ExportEnd - 1 \subseteq ExportStart .. CoverScan.day - 1
  BY <1>7, ExportAssumption
<1> QED BY <1>6, <1>8 DEF DaysCovered

(* Of the candidates of a period one is the latest.                         *)
LEMMA LatestOfPeriod ==
  ASSUME catalog \in Catalogs, NEW n \in CandidateManifests
  PROVE  \E m \in SelectedManifests : m.start = n.start /\ m.end = n.end /\ m.rev >= n.rev
<1> DEFINE C == {m \in CandidateManifests : m.start = n.start /\ m.end = n.end /\ m.rev >= n.rev}
           Above(m) == {x \in C : x.rev > m.rev}
           K == {Cardinality(Above(m)) : m \in C}
<1>1. IsFiniteSet(C) /\ \A m \in CandidateManifests : m.rev \in Nat
  <2>1. C \in SUBSET catalog /\ CandidateManifests \subseteq catalog
    BY DEF CandidateManifests
  <2> HIDE DEF C
  <2> QED BY <2>1, FS_Subset, ExportAssumption
<1>2. n \in C
  BY <1>1
<1>3. \A m \in C : IsFiniteSet(Above(m)) /\ Cardinality(Above(m)) \in Nat
  <2>1. \A m \in C : Above(m) \in SUBSET C
    OBVIOUS
  <2> HIDE DEF C, Above
  <2> QED BY <1>1, <2>1, FS_Subset, FS_CardinalityType
<1>4. K \in SUBSET Nat /\ K # {}
  BY <1>2, <1>3
<1>5. PICK k \in K : \A l \in K : k <= l
  BY <1>4, MinIsLeast
<1>6. PICK m \in C : k = Cardinality(Above(m))
  OBVIOUS
<1>7. ASSUME NEW x \in C, x.rev > m.rev PROVE FALSE
  <2>1. x.rev \in Nat /\ m.rev \in Nat /\ \A y \in C : y.rev \in Nat
    BY <1>1
  <2>2. Above(x) \in SUBSET Above(m) /\ x \in Above(m) /\ x \notin Above(x)
    BY <1>7, <2>1
  <2>3. Cardinality(Above(x)) < Cardinality(Above(m))
    <3> HIDE DEF Above, C
    <3>1. Cardinality(Above(x)) <= Cardinality(Above(m)) /\ Cardinality(Above(x)) # Cardinality(Above(m))
      BY <1>3, <2>2, FS_Subset
    <3> QED BY <1>3, <3>1
  <2>4. Cardinality(Above(x)) \in K
    BY <1>7
  <2> HIDE DEF K, Above, C
  <2> QED BY <1>3, <1>5, <1>6, <2>3, <2>4, <1>7
<1>8. m \in CandidateManifests /\ m.start = n.start /\ m.end = n.end /\ m.rev >= n.rev
  BY <1>6
<1>9. ASSUME NEW y \in CandidateManifests, y.start = m.start, y.end = m.end PROVE y.rev <= m.rev
  <2>1. y.rev \in Nat /\ m.rev \in Nat /\ n.rev \in Nat
    BY <1>1, <1>8
  <2>2. CASE y.rev >= n.rev
    <3>1. y \in C
      BY <1>8, <1>9, <2>2
    <3> HIDE DEF C
    <3> QED BY <1>7, <2>1, <3>1
  <2> QED BY <1>8, <2>1, <2>2
<1>10. m \in SelectedManifests
  BY <1>8, <1>9 DEF SelectedManifests
<1> HIDE DEF C, Above, K
<1> QED BY <1>8, <1>10

(* The manifests named, beside the rows they were chosen from.              *)
FromRows(source, chosenFrom) ==
  /\ \A m \in source : m \in chosenFrom /\ m.status = "AVAILABLE"
  /\ \A n \in chosenFrom : n.status = "AVAILABLE" /\ n.start < ExportEnd /\ n.end > ExportStart =>
       \E m \in source : m.start = n.start /\ m.end = n.end /\ m.rev >= n.rev
  /\ LatestPerPeriod =>
       \A m, n \in source : m.start = n.start /\ m.end = n.end => m.rev >= n.rev

(* A selection is from the rows it was made on.                             *)
LEMMA SelectionIsLatest ==
  ASSUME catalog \in Catalogs
  PROVE  FromRows(SelectedManifests, catalog)
<1>1. \A m \in SelectedManifests : m \in CandidateManifests
  BY DEF SelectedManifests
<1>2. \A m \in CandidateManifests : m \in catalog /\ m.status = "AVAILABLE" /\ m.rev \in Nat
  BY ExportAssumption DEF CandidateManifests
<1>3. \A n \in catalog : n.status = "AVAILABLE" /\ n.start < ExportEnd /\ n.end > ExportStart =>
        \E m \in SelectedManifests : m.start = n.start /\ m.end = n.end /\ m.rev >= n.rev
  BY LatestOfPeriod DEF CandidateManifests
<1>4. ASSUME LatestPerPeriod, NEW m \in SelectedManifests, NEW n \in SelectedManifests,
             m.start = n.start, m.end = n.end
      PROVE  m.rev >= n.rev
  <2>1. n.rev <= m.rev
    BY <1>1, <1>4 DEF SelectedManifests
  <2> QED BY <1>1, <1>2, <2>1
<1> QED BY <1>1, <1>2, <1>3, <1>4 DEF FromRows

(* What an export computed: a mapping that is one to one, and manifests     *)
(* that cover the selection.                                                *)
DocumentGood(doc) ==
  /\ doc = [mapping |-> doc.mapping, source |-> doc.source]
  /\ doc.mapping # {}
  /\ \A d \in ExportStart .. ExportEnd - 1 : \E m \in doc.source : m.start <= d /\ d < m.end
  /\ \A p, q \in doc.mapping : p[1] = q[1] <=> p[2] = q[2]

ExportInv ==
  /\ catalog \in Catalogs /\ listing \in Listings /\ exportRuns \in Nat
  /\ exporting = [phase |-> exporting.phase, doc |-> exporting.doc, from |-> exporting.from]
  /\ exporting.phase \in {"idle", "mapping", "evidence"}
  /\ exporting.phase = "idle" => exporting = NotExporting
  /\ exporting.phase # "idle" =>
       DocumentGood(exporting.doc) /\ FromRows(exporting.doc.source, exporting.from)
  /\ exporting.phase = "evidence" => mappingFile = [exporting.doc EXCEPT !.source = {}]
  /\ mappingFile = [mapping |-> mappingFile.mapping, source |-> {}]
  /\ evidenceFile # NoFile =>
       /\ DocumentGood(evidenceFile) /\ mappingFile.mapping = evidenceFile.mapping
       /\ FromRows(evidenceFile.source, evidenceFrom)

(* No export yet: both files are absent.                                    *)
LEMMA ExportInvInit == ExportInit => ExportInv
BY ExportAssumption DEF ExportInit, ExportInv, NotExporting, NoFile

(* An export that goes on has good documents.                               *)
LEMMA ComputeKeeps == ExportInv /\ Compute => ExportInv'
<1> SUFFICES ASSUME ExportInv, Compute PROVE ExportInv'
  OBVIOUS
<1>1. UNCHANGED <<catalog, listing, mappingFile, evidenceFile, evidenceFrom>> /\ exportRuns' \in Nat
  BY DEF Compute, ExportInv
<1>2. CASE UNCHANGED exporting
  BY <1>1, <1>2 DEF ExportInv, DocumentGood, FromRows
<1>3. CASE exporting' # exporting
  <2> DEFINE doc == [mapping |-> Mapping, source |-> SelectedManifests]
  <2>1. CoverageComplete /\ Mappable /\ exporting' = [phase |-> "mapping", from |-> catalog, doc |-> doc]
    BY <1>3 DEF Compute
  <2>2. Mapping # {}
    BY <2>1 DEF Mappable, Mapping
  <2>3. ASSUME NEW p \in Mapping, NEW q \in Mapping PROVE p[1] = q[1] <=> p[2] = q[2]
    <3>1. p[1] = q[1] => p = q
      BY <2>1 DEF Mappable
    <3>2. PICK i \in Intersection : p = <<CHOOSE s \in listing[i] : TRUE, i>>
      BY DEF Mapping
    <3>3. PICK j \in Intersection : q = <<CHOOSE s \in listing[j] : TRUE, j>>
      BY DEF Mapping
    <3>4. p[2] = i /\ q[2] = j
      BY <3>2, <3>3
    <3>5. i = j => p = q
      BY <3>2, <3>3
    <3> QED BY <3>1, <3>4, <3>5
  <2>4. DocumentGood(doc)
    BY <2>1, <2>2, <2>3, CoverageIsComplete DEF ExportInv, DocumentGood
  <2>5. FromRows(doc.source, catalog)
    BY SelectionIsLatest DEF ExportInv
  <2> HIDE DEF doc
  <2>6. exporting'.phase = "mapping" /\ exporting'.doc = doc /\ exporting'.from = catalog
    BY <2>1
  <2> QED BY <1>1, <2>1, <2>4, <2>5, <2>6 DEF ExportInv, DocumentGood, FromRows
<1> QED BY <1>2, <1>3

(* Each file is written only if it is absent or the same.                   *)
LEMMA WriteMappingKeeps == ExportInv /\ WriteMapping => ExportInv'
<1> SUFFICES ASSUME ExportInv, WriteMapping PROVE ExportInv'
  OBVIOUS
<1> DEFINE doc == [exporting.doc EXCEPT !.source = {}]
<1>1. UNCHANGED <<catalog, listing, evidenceFile, evidenceFrom, exportRuns>> /\ exporting.phase = "mapping"
  BY DEF WriteMapping
<1>2. DocumentGood(exporting.doc)
  BY <1>1 DEF ExportInv
<1>3. doc = [mapping |-> exporting.doc.mapping, source |-> {}]
  <2>1. PICK e : e = exporting.doc
    OBVIOUS
  <2>2. e = [mapping |-> e.mapping, source |-> e.source]
    BY <1>2, <2>1 DEF DocumentGood
  <2>3. [e EXCEPT !.source = {}] = [mapping |-> e.mapping, source |-> {}]
    BY <2>2
  <2> QED BY <2>1, <2>3
<1>4. CASE WritesExactly(mappingFile, doc)
  <2>1. mappingFile' = doc /\ exporting' = [exporting EXCEPT !.phase = "evidence"]
    BY <1>4 DEF WriteMapping
  <2>2. exporting' = [phase |-> "evidence", doc |-> exporting.doc, from |-> exporting.from]
    BY <2>1 DEF ExportInv
  <2>3. evidenceFile # NoFile => mappingFile = doc
    <3>1. mappingFile = NoFile => mappingFile.mapping = {}
      BY DEF NoFile
    <3>2. evidenceFile # NoFile => mappingFile.mapping # {}
      BY DEF ExportInv, DocumentGood, FromRows
    <3> QED BY <1>4, <3>1, <3>2 DEF WritesExactly
  <2>4. mappingFile' = [mapping |-> mappingFile'.mapping, source |-> {}]
    BY <1>3, <2>1
  <2>5. /\ exporting'.phase = "evidence" /\ exporting'.doc = exporting.doc
        /\ exporting'.from = exporting.from
        /\ exporting' = [phase |-> exporting'.phase, doc |-> exporting'.doc, from |-> exporting'.from]
    BY <2>2
  <2>6. /\ exporting'.phase = "evidence" => mappingFile' = [exporting'.doc EXCEPT !.source = {}]
        /\ evidenceFile # NoFile =>
             DocumentGood(evidenceFile) /\ mappingFile'.mapping = evidenceFile.mapping
    BY <2>1, <2>3, <2>5 DEF ExportInv
  <2> HIDE DEF doc
  <2> QED BY <1>1, <1>2, <2>4, <2>5, <2>6 DEF ExportInv, DocumentGood, FromRows
<1>5. CASE ~WritesExactly(mappingFile, doc)
  <2>1. UNCHANGED mappingFile /\ exporting' = NotExporting
    BY <1>5 DEF WriteMapping
  <2> QED BY <1>1, <2>1 DEF ExportInv, DocumentGood, FromRows, NotExporting
<1> QED BY <1>4, <1>5

(* The evidence is written after the mapping it is about.                   *)
LEMMA WriteEvidenceKeeps == ExportInv /\ WriteEvidence => ExportInv'
<1> SUFFICES ASSUME ExportInv, WriteEvidence PROVE ExportInv'
  OBVIOUS
<1>1. /\ UNCHANGED <<catalog, listing, mappingFile, exportRuns>> /\ exporting.phase = "evidence"
      /\ exporting' = NotExporting
      /\ \/ evidenceFile' = exporting.doc /\ evidenceFrom' = exporting.from
         \/ UNCHANGED <<evidenceFile, evidenceFrom>>
  BY DEF WriteEvidence
<1>2. /\ DocumentGood(exporting.doc) /\ FromRows(exporting.doc.source, exporting.from)
      /\ mappingFile = [exporting.doc EXCEPT !.source = {}]
  BY <1>1 DEF ExportInv
<1>3. mappingFile.mapping = exporting.doc.mapping
  BY <1>2 DEF DocumentGood
<1>4. evidenceFile' # NoFile =>
        /\ DocumentGood(evidenceFile') /\ mappingFile.mapping = evidenceFile'.mapping
        /\ FromRows(evidenceFile'.source, evidenceFrom')
  BY <1>1, <1>2, <1>3 DEF ExportInv
<1> QED BY <1>1, <1>4 DEF ExportInv, DocumentGood, FromRows, NotExporting

(* Every step keeps it, a move of the catalog and a death among them.       *)
LEMMA ExportInvStep == ExportInv /\ [ExportNext]_exportVars => ExportInv'
<1> SUFFICES ASSUME ExportInv, [ExportNext]_exportVars PROVE ExportInv'
  OBVIOUS
<1>1. ASSUME /\ catalog' \in Catalogs /\ listing' \in Listings /\ exportRuns' \in Nat
             /\ exporting' = exporting \/ exporting' = NotExporting
             /\ UNCHANGED <<mappingFile, evidenceFile, evidenceFrom>>
      PROVE  ExportInv'
  BY <1>1 DEF ExportInv, DocumentGood, FromRows, NotExporting
<1>2. CASE CatalogMoves
  BY <1>1, <1>2 DEF CatalogMoves, ExportInv
<1>3. CASE ObjectUnreadable
  <2>1. exportRuns' \in Nat
    BY <1>3 DEF ObjectUnreadable, ExportInv
  <2> QED BY <1>1, <1>3, <2>1 DEF ObjectUnreadable, ExportInv
<1>4. CASE ExportDies
  BY <1>1, <1>4 DEF ExportDies, ExportInv
<1>5. CASE UNCHANGED exportVars
  BY <1>1, <1>5 DEF exportVars, ExportInv
<1> QED BY <1>2, <1>3, <1>4, <1>5, ComputeKeeps, WriteMappingKeeps, WriteEvidenceKeeps
        DEF ExportNext

(* The invariant gives the types and the evidence of a mapping.             *)
LEMMA ExportInvMeans == ExportInv => ExportTypeOK /\ EvidenceBacksMapping
<1>1. ExportInv => mappingFile.source = {}
  BY DEF ExportInv
<1> QED BY <1>1 DEF ExportInv, ExportTypeOK, EvidenceBacksMapping, DocumentGood, FromRows

(* The catalog, the export under way and its files keep their types.        *)
THEOREM ExportTypeCorrect == ExportSpec => []ExportTypeOK
<1> QED BY ExportInvInit, ExportInvStep, ExportInvMeans, PTL DEF ExportSpec

(* The evidence beside a mapping is the evidence of that mapping, and the   *)
(* manifests it names cover every day of the selection, are the AVAILABLE   *)
(* ones of when it was computed and the latest of their periods, for any    *)
(* states of the catalog, however it moves between exports and wherever one *)
(* dies (runtime_export.py).                                                *)
THEOREM EvidenceAlwaysBacks == ExportSpec => []EvidenceBacksMapping
<1> QED BY ExportInvInit, ExportInvStep, ExportInvMeans, PTL DEF ExportSpec

-----------------------------------------------------------------------------
(* The legacy bootstrap                                                     *)

KeysOf(wanted) == {KeyOf(r) : r \in wanted}

(* A source row is one of an object, of a manifest or of a relation.        *)
LEMMA SourceRowIs ==
  \A row \in SourceRows :
    \/ \E o \in ListedObjects : row = ObjectRow(o)
    \/ \E m \in Manifests : row = ManifestRow(m)
    \/ \E r \in legacy.relations : row = RelationRow(r)
BY DEF SourceRows

(* What the rows of each table are keyed by.                                *)
LEMMA RowFields ==
  /\ \A o \in ListedObjects :
       ObjectRow(o).table = "object" /\ ObjectRow(o).key = <<o>> /\ ObjectRow(o).parents = {}
  /\ \A m \in Manifests :
       /\ ManifestRow(m).table = "manifest" /\ ManifestRow(m).key = <<m>>
       /\ ManifestRow(m).columns[2] = Cardinality(Linked(m))
       /\ ManifestRow(m).parents =
            IF legacy.parent[m] = NoParent THEN {} ELSE {<<"manifest", <<legacy.parent[m]>>>>}
  /\ \A r \in legacy.relations :
       /\ RelationRow(r).table = "relation" /\ RelationRow(r).key = r
       /\ RelationRow(r).parents = {<<"manifest", <<r[1]>>>>, <<"object", <<r[2]>>>>}
BY DEF ObjectRow, ManifestRow, RelationRow, Row

(* No two source rows have one id.                                          *)
LEMMA SourceKeysUnique ==
  ASSUME NEW r \in SourceRows, NEW s \in SourceRows, KeyOf(r) = KeyOf(s)
  PROVE  r = s
<1>0. r.table = s.table /\ r.key = s.key
  BY DEF KeyOf
<1>y. \/ \E o \in ListedObjects : s = ObjectRow(o)
      \/ \E m \in Manifests : s = ManifestRow(m)
      \/ \E q \in legacy.relations : s = RelationRow(q)
  BY SourceRowIs
<1>x. \A x, y : <<x>> = <<y>> => x = y
  OBVIOUS
<1>1. CASE \E o \in ListedObjects : r = ObjectRow(o)
  <2>1. PICK o \in ListedObjects : r = ObjectRow(o)
    BY <1>1
  <2>2. r.table = "object" /\ r.key = <<o>>
    BY <2>1, RowFields
  <2>3. PICK p \in ListedObjects : s = ObjectRow(p)
    BY <1>0, <1>y, <2>2, RowFields
  <2>4. s.key = <<p>>
    BY <2>3, RowFields
  <2>5. o = p
    BY <1>0, <1>x, <2>2, <2>4
  <2> QED BY <2>1, <2>3, <2>5
<1>2. CASE \E m \in Manifests : r = ManifestRow(m)
  <2>1. PICK m \in Manifests : r = ManifestRow(m)
    BY <1>2
  <2>2. r.table = "manifest" /\ r.key = <<m>>
    BY <2>1, RowFields
  <2>3. PICK n \in Manifests : s = ManifestRow(n)
    BY <1>0, <1>y, <2>2, RowFields
  <2>4. s.key = <<n>>
    BY <2>3, RowFields
  <2>5. m = n
    BY <1>0, <1>x, <2>2, <2>4
  <2> QED BY <2>1, <2>3, <2>5
<1>3. CASE \E q \in legacy.relations : r = RelationRow(q)
  <2>1. PICK q \in legacy.relations : r = RelationRow(q)
    BY <1>3
  <2>2. r.table = "relation" /\ r.key = q
    BY <2>1, RowFields
  <2>3. PICK p \in legacy.relations : s = RelationRow(p)
    BY <1>0, <1>y, <2>2, RowFields
  <2> QED BY <1>0, <2>1, <2>2, <2>3, RowFields
<1> QED BY <1>1, <1>2, <1>3, SourceRowIs

(* The parents of a source row are source rows of the tables before.        *)
LEMMA SourceParents ==
  ASSUME legacy \in LegacySnapshots, NEW row \in SourceRows
  PROVE  /\ row.table \in {"object", "manifest", "relation"}
         /\ row.table = "object" => row.parents = {}
         /\ row.table = "manifest" =>
              \A p \in row.parents : p \in KeysOf(OfTable(SourceRows, "manifest"))
         /\ row.table = "relation" =>
              \A p \in row.parents : p \in KeysOf(OfTable(SourceRows, "manifest"))
                                           \cup KeysOf(OfTable(SourceRows, "object"))
<1>0. /\ legacy.parent \in [Manifest -> Manifest \cup {NoParent, NotThere}]
      /\ legacy.relations \subseteq Manifest \X StoredObject
      /\ \A m \in Manifest : legacy.parent[m] \in Manifest => legacy.parent[legacy.parent[m]] # NotThere
      /\ \A r \in legacy.relations : legacy.parent[r[1]] # NotThere /\ legacy.format[r[2]] # NotThere
  BY DEF LegacySnapshots
<1>1. ASSUME NEW m \in Manifests PROVE <<"manifest", <<m>>>> \in KeysOf(OfTable(SourceRows, "manifest"))
  <2>1. ManifestRow(m) \in SourceRows
    BY DEF SourceRows
  <2>2. KeyOf(ManifestRow(m)) = <<"manifest", <<m>>>>
    BY RowFields DEF KeyOf
  <2>3. ManifestRow(m) \in OfTable(SourceRows, "manifest")
    BY <2>1, RowFields DEF OfTable
  <2> QED BY <2>2, <2>3 DEF KeysOf
<1>2. ASSUME NEW o \in ListedObjects PROVE <<"object", <<o>>>> \in KeysOf(OfTable(SourceRows, "object"))
  <2>1. ObjectRow(o) \in SourceRows
    BY DEF SourceRows
  <2>2. KeyOf(ObjectRow(o)) = <<"object", <<o>>>>
    BY RowFields DEF KeyOf
  <2>3. ObjectRow(o) \in OfTable(SourceRows, "object")
    BY <2>1, RowFields DEF OfTable
  <2> QED BY <2>2, <2>3 DEF KeysOf
<1>3. CASE \E o \in ListedObjects : row = ObjectRow(o)
  BY <1>3, RowFields
<1>4. CASE \E m \in Manifests : row = ManifestRow(m)
  <2>1. PICK m \in Manifests : row = ManifestRow(m)
    BY <1>4
  <2>2. row.table = "manifest"
    BY <2>1, RowFields
  <2>3. m \in Manifest /\ legacy.parent[m] # NotThere
    BY DEF Manifests
  <2>4. ASSUME NEW p \in row.parents PROVE p \in KeysOf(OfTable(SourceRows, "manifest"))
    <3>1. legacy.parent[m] # NoParent /\ p = <<"manifest", <<legacy.parent[m]>>>>
      <4>1. p \in IF legacy.parent[m] = NoParent THEN {}
                  ELSE {<<"manifest", <<legacy.parent[m]>>>>}
        BY <2>1, RowFields
      <4> QED BY <4>1
    <3>2. legacy.parent[m] \in Manifest
      BY <1>0, <2>3, <3>1
    <3>3. legacy.parent[m] \in Manifests
      BY <1>0, <2>3, <3>2 DEF Manifests
    <3> QED BY <1>1, <3>1, <3>3
  <2> QED BY <2>2, <2>4
<1>5. CASE \E r \in legacy.relations : row = RelationRow(r)
  <2>1. PICK r \in legacy.relations : row = RelationRow(r)
    BY <1>5
  <2>2. row.table = "relation" /\ row.parents = {<<"manifest", <<r[1]>>>>, <<"object", <<r[2]>>>>}
    BY <2>1, RowFields
  <2>3. r[1] \in Manifests /\ r[2] \in ListedObjects
    BY <1>0 DEF Manifests, ListedObjects
  <2> QED BY <1>1, <1>2, <2>2, <2>3
<1> QED BY <1>3, <1>4, <1>5, SourceRowIs

(* There are finitely many source rows.                                     *)
LEMMA SourceFinite ==
  ASSUME legacy \in LegacySnapshots, NEW S \in SUBSET SourceRows
  PROVE  IsFiniteSet(S) /\ IsFiniteSet(legacy.relations)
<1>0. IsFiniteSet(Manifest) /\ IsFiniteSet(StoredObject)
  BY BootstrapAssumption
<1>1. IsFiniteSet(Manifests) /\ IsFiniteSet(ListedObjects)
  <2>1. Manifests \in SUBSET Manifest /\ ListedObjects \in SUBSET StoredObject
    BY DEF Manifests, ListedObjects
  <2> QED BY <1>0, <2>1, FS_Subset
<1>2. IsFiniteSet(legacy.relations)
  <2>1. legacy.relations \in SUBSET (Manifest \X StoredObject)
    BY DEF LegacySnapshots
  <2>2. IsFiniteSet(Manifest \X StoredObject)
    BY <1>0, FS_Product
  <2> QED BY <2>1, <2>2, FS_Subset
<1> DEFINE A == {ObjectRow(o) : o \in ListedObjects}
<1> DEFINE B == {ManifestRow(m) : m \in Manifests}
<1> DEFINE C == {RelationRow(r) : r \in legacy.relations}
<1>3. IsFiniteSet(A)
  <2> DEFINE f == [o \in ListedObjects |-> ObjectRow(o)]
  <2>1. f \in Surjection(ListedObjects, A)
    BY DEF Surjection
  <2> HIDE DEF f, A
  <2> QED BY <1>1, <2>1, FS_Surjection
<1>4. IsFiniteSet(B)
  <2> DEFINE f == [m \in Manifests |-> ManifestRow(m)]
  <2>1. f \in Surjection(Manifests, B)
    BY DEF Surjection
  <2> HIDE DEF f, B
  <2> QED BY <1>1, <2>1, FS_Surjection
<1>5. IsFiniteSet(C)
  <2> DEFINE f == [r \in legacy.relations |-> RelationRow(r)]
  <2>1. f \in Surjection(legacy.relations, C)
    BY DEF Surjection
  <2> HIDE DEF f, C
  <2> QED BY <1>2, <2>1, FS_Surjection
<1>6. SourceRows = (A \cup B) \cup C
  BY DEF SourceRows
<1> HIDE DEF A, B, C
<1>7. IsFiniteSet(A \cup B)
  BY <1>3, <1>4, FS_Union
<1>8. IsFiniteSet(SourceRows)
  BY <1>5, <1>6, <1>7, FS_Union
<1> QED BY <1>2, <1>8, FS_Subset

(* The rounds add to each other the rows that are ready.                    *)
LEMMA RoundsStepwise ==
  ASSUME NEW wanted, Cardinality(wanted) \in Nat
  PROVE  /\ Rounds(wanted) \in [0 .. Cardinality(wanted) -> SUBSET wanted]
         /\ Rounds(wanted)[0] = {}
         /\ \A n \in 1 .. Cardinality(wanted) :
              Rounds(wanted)[n] = Rounds(wanted)[n - 1] \cup Ready(wanted, Rounds(wanted)[n - 1])
<1> DEFINE N == Cardinality(wanted)
<1> DEFINE F == [p \in (1 .. N) \X SUBSET wanted |-> p[2] \cup Ready(wanted, p[2])]
<1> DEFINE body(f) == [n \in 0 .. N |-> IF n = 0 THEN {} ELSE f[n - 1] \cup Ready(wanted, f[n - 1])]
<1>1. \A x : Ready(wanted, x) \in SUBSET wanted
  BY DEF Ready
<1>2. F \in [(1 .. N) \X SUBSET wanted -> SUBSET wanted]
  BY <1>1
<1>3. \A k \in 1 .. N, x \in SUBSET wanted : F[<<k, x>>] = x \cup Ready(wanted, x)
  OBVIOUS
<1> HIDE DEF F
<1>4. PICK g \in [0 .. N -> SUBSET wanted] :
        g[0] = {} /\ \A k \in 1 .. N : g[k] = F[<<k, g[k - 1]>>]
  <2> DEFINE B == SUBSET wanted
  <2>1. N \in Nat /\ {} \in B /\ F \in [(1 .. N) \X B -> B]
    BY <1>2
  <2> HIDE DEF N, B
  <2>2. ListOf(N, B, {}, F)
    BY <2>1, ListExists DEF StepOn
  <2> QED BY <2>2 DEF ListOf, B
<1>5. g = body(g)
  <2>1. ASSUME NEW n \in 0 .. N
        PROVE  g[n] = IF n = 0 THEN {} ELSE g[n - 1] \cup Ready(wanted, g[n - 1])
    <3>1. CASE n = 0
      BY <1>4, <3>1
    <3>2. CASE n # 0
      <4>1. n \in 1 .. N /\ g[n - 1] \in SUBSET wanted
        BY <3>2
      <4> QED BY <1>3, <1>4, <3>2, <4>1
    <3> QED BY <3>1, <3>2
  <2> QED BY <2>1
<1> DEFINE chosen == CHOOSE f : f = body(f)
<1>6. chosen = body(chosen)
  BY <1>5
<1>7. Rounds(wanted) = chosen
  BY DEF Rounds
<1> HIDE DEF chosen
<1>8. /\ chosen[0] = {}
      /\ \A n \in 1 .. N : chosen[n] = chosen[n - 1] \cup Ready(wanted, chosen[n - 1])
  <2> HIDE DEF N
  <2>1. 0 \in 0 .. N /\ \A n \in 1 .. N : n \in 0 .. N /\ n # 0
    BY DEF N
  <2>2. chosen = [n \in 0 .. N |-> IF n = 0 THEN {} ELSE chosen[n - 1] \cup Ready(wanted, chosen[n - 1])]
    BY <1>6
  <2> QED BY <2>1, <2>2
<1> DEFINE Bad == {n \in 0 .. N : ~(chosen[n] \in SUBSET wanted)}
<1>9. Bad = {}
  <2>1. Bad \in SUBSET Nat
    OBVIOUS
  <2> SUFFICES ASSUME Bad # {} PROVE FALSE
    OBVIOUS
  <2>2. PICK m \in Bad : \A k \in Bad : m <= k
    BY <2>1, MinIsLeast
  <2> HIDE DEF N
  <2>3. m \in 0 .. N /\ ~(chosen[m] \in SUBSET wanted) /\ m # 0
    BY <1>8, <2>2
  <2>4. m \in 1 .. N /\ m - 1 \in 0 .. N /\ m - 1 \notin Bad
    <3>1. N \in Nat
      BY DEF N
    <3>2. m \in 1 .. N /\ m - 1 \in 0 .. N /\ ~(m <= m - 1)
      BY <2>3, <3>1
    <3> QED BY <2>2, <3>2
  <2>5. chosen[m - 1] \in SUBSET wanted
    BY <2>4
  <2>6. chosen[m] = chosen[m - 1] \cup Ready(wanted, chosen[m - 1])
    BY <1>8, <2>4
  <2> QED BY <1>1, <2>3, <2>5, <2>6
<1>10. chosen \in [0 .. N -> SUBSET wanted]
  <2>1. \A n \in 0 .. N : chosen[n] \in SUBSET wanted
    BY <1>9
  <2>2. chosen = [n \in 0 .. N |-> chosen[n]]
    BY <1>6
  <2> HIDE DEF N
  <2> QED BY <2>1, <2>2
<1> QED BY <1>7, <1>8, <1>10

(* In what order rows are inserted: a row's parents are known, or come in   *)
(* a batch before.                                                          *)
InOrder(todo, known) ==
  \A k \in 1 .. Len(todo) : \A row \in todo[k] : \A p \in row.parents :
    p \in known \/ \E j \in 1 .. k - 1 : p \in KeysOf(todo[j])
AllKeys(todo) == UNION {KeysOf(todo[j]) : j \in 1 .. Len(todo)}

(* The rows of a table, parents first: a row whose parent is of the table   *)
(* comes after it, and every row comes unless there is a cycle.             *)
LEMMA ParentsComeFirst ==
  ASSUME NEW S, NEW wanted \in SUBSET S, IsFiniteSet(wanted)
  PROVE  /\ ParentFirst(wanted) \in Seq(SUBSET S)
         /\ \A known : (\A row \in wanted : \A p \in row.parents :
                          p \in known \/ p \in KeysOf(wanted)) =>
                       InOrder(ParentFirst(wanted), known)
         /\ Acyclic(wanted) => AllKeys(ParentFirst(wanted)) = KeysOf(wanted)
         /\ (\A row \in wanted : row.parents = {}) => Acyclic(wanted)
<1> DEFINE N == Cardinality(wanted)
<1> DEFINE round == Rounds(wanted)
<1> DEFINE todo == ParentFirst(wanted)
<1>1. N \in Nat
  BY FS_CardinalityType
<1>2. /\ round \in [0 .. N -> SUBSET wanted] /\ round[0] = {}
      /\ \A n \in 1 .. N : round[n] = round[n - 1] \cup Ready(wanted, round[n - 1])
  BY <1>1, RoundsStepwise
<1>3. todo = [n \in 1 .. N |-> round[n] \ round[n - 1]]
  BY DEF ParentFirst
<1>4. Acyclic(wanted) <=> round[N] = wanted
  BY DEF Acyclic
<1>5. N = 0 => wanted = {}
  BY FS_EmptySet
<1> HIDE DEF N, round, todo
<1>6. \A n \in 1 .. N : todo[n] = round[n] \ round[n - 1] /\ todo[n] \in SUBSET wanted
  BY <1>1, <1>2, <1>3
<1>7. todo \in Seq(SUBSET S) /\ Len(todo) = N
  <2>1. \A n \in 1 .. N : round[n] \ round[n - 1] \in SUBSET S
    BY <1>2
  <2> QED BY <1>1, <1>3, <2>1
<1>8. ASSUME NEW n \in 0 .. N, NEW row \in round[n]
      PROVE  \E j \in 1 .. n : row \in todo[j]
  <2> DEFINE Had == {j \in 0 .. N : row \in round[j]}
  <2>1. Had \in SUBSET Nat /\ n \in Had
    BY <1>1, <1>8
  <2>2. PICK m \in Had : \A j \in Had : m <= j
    BY <2>1, MinIsLeast
  <2>3. m \in 0 .. N /\ row \in round[m] /\ m # 0 /\ m <= n
    BY <1>2, <2>1, <2>2
  <2>4. m \in 1 .. n /\ m \in 1 .. N /\ m - 1 \in 0 .. N /\ ~(m <= m - 1)
    BY <1>1, <2>3
  <2>5. row \notin round[m - 1]
    BY <2>2, <2>4
  <2> QED BY <1>6, <2>3, <2>4, <2>5
<1>9. ASSUME NEW known,
             \A row \in wanted : \A p \in row.parents : p \in known \/ p \in KeysOf(wanted)
      PROVE  InOrder(todo, known)
  <2> SUFFICES ASSUME NEW k \in 1 .. N, NEW row \in todo[k], NEW p \in row.parents,
                      p \notin known
               PROVE  \E j \in 1 .. k - 1 : p \in KeysOf(todo[j])
    BY <1>7 DEF InOrder
  <2>1. k - 1 \in 0 .. N /\ k \in 0 .. N
    BY <1>1
  <2>2. row \in wanted /\ row \in Ready(wanted, round[k - 1])
    BY <1>2, <1>6
  <2>3. p \in KeysOf(wanted)
    BY <1>9, <2>2
  <2>4. p \in {KeyOf(d) : d \in round[k - 1]}
    BY <2>2, <2>3 DEF Ready, KeysOf
  <2>5. PICK d \in round[k - 1] : p = KeyOf(d)
    BY <2>4
  <2>6. PICK j \in 1 .. k - 1 : d \in todo[j]
    BY <1>8, <2>1
  <2> QED BY <2>5, <2>6 DEF KeysOf
<1>10. ASSUME Acyclic(wanted) PROVE AllKeys(todo) = KeysOf(wanted)
  <2>1. ASSUME NEW p \in KeysOf(wanted) PROVE p \in AllKeys(todo)
    <3>1. PICK row \in wanted : p = KeyOf(row)
      BY DEF KeysOf
    <3>2. row \in round[N] /\ N \in 0 .. N
      BY <1>1, <1>4, <1>10
    <3>3. PICK j \in 1 .. N : row \in todo[j]
      BY <1>8, <3>2
    <3> QED BY <1>7, <3>1, <3>3 DEF AllKeys, KeysOf
  <2>2. ASSUME NEW p \in AllKeys(todo) PROVE p \in KeysOf(wanted)
    <3>1. PICK j \in 1 .. N : p \in KeysOf(todo[j])
      BY <1>7 DEF AllKeys
    <3> QED BY <1>6, <3>1 DEF KeysOf
  <2> QED BY <2>1, <2>2
<1>11. ASSUME \A row \in wanted : row.parents = {} PROVE Acyclic(wanted)
  <2>1. \A x : Ready(wanted, x) = wanted \ x
    BY <1>11 DEF Ready
  <2>2. CASE N = 0
    BY <1>2, <1>4, <1>5, <2>2
  <2>3. CASE N # 0
    <3>1. N \in 1 .. N /\ N - 1 \in 0 .. N
      BY <1>1, <2>3
    <3>2. round[N] = round[N - 1] \cup (wanted \ round[N - 1]) /\ round[N - 1] \subseteq wanted
      BY <1>2, <2>1, <3>1
    <3> QED BY <1>4, <3>2
  <2> QED BY <2>2, <2>3
<1> QED BY <1>7, <1>9, <1>10, <1>11 DEF todo

(* One list of batches after another.                                       *)
LEMMA OrderedAfter ==
  ASSUME NEW S, NEW s \in Seq(S), NEW t \in Seq(S), NEW known,
         InOrder(s, known), InOrder(t, known \cup AllKeys(s))
  PROVE  s \o t \in Seq(S) /\ InOrder(s \o t, known)
<1>1. /\ s \o t \in Seq(S) /\ Len(s \o t) = Len(s) + Len(t)
      /\ \A i \in 1 .. Len(s) + Len(t) :
           (s \o t)[i] = IF i <= Len(s) THEN s[i] ELSE t[i - Len(s)]
  BY ConcatProperties
<1>2. PICK u, a, b : u = s \o t /\ a = Len(s) /\ b = Len(t)
  OBVIOUS
<1>3. a \in Nat /\ b \in Nat
  BY <1>2, LenProperties
<1>4. /\ Len(u) = a + b
      /\ \A i \in 1 .. a : i \in 1 .. a + b /\ u[i] = s[i]
      /\ \A i \in 1 .. b : a + i \in 1 .. a + b /\ u[a + i] = t[i]
  <2>1. Len(u) = a + b /\ \A i \in 1 .. a + b : u[i] = IF i <= a THEN s[i] ELSE t[i - a]
    BY <1>1, <1>2
  <2>2. \A i \in 1 .. a : i \in 1 .. a + b /\ i <= a
    BY <1>3
  <2>3. \A i \in 1 .. b : a + i \in 1 .. a + b /\ ~(a + i <= a) /\ (a + i) - a = i
    BY <1>3
  <2> QED BY <2>1, <2>2, <2>3
<1>5. ASSUME NEW k \in 1 .. a + b, NEW row \in u[k], NEW p \in row.parents, p \notin known
      PROVE  \E j \in 1 .. k - 1 : p \in KeysOf(u[j])
  <2>1. CASE k <= a
    <3>1. k \in 1 .. a /\ row \in s[k]
      BY <1>3, <1>4, <2>1
    <3>2. PICK j \in 1 .. k - 1 : p \in KeysOf(s[j])
      BY <1>2, <1>5, <3>1 DEF InOrder
    <3>3. u[j] = s[j]
      BY <1>3, <1>4, <3>1
    <3> QED BY <3>2, <3>3
  <2>2. CASE ~(k <= a)
    <3>1. PICK i \in 1 .. b : k = a + i
      <4>1. k - a \in 1 .. b /\ k = a + (k - a)
        BY <1>3, <2>2
      <4> QED BY <4>1
    <3>2. row \in t[i]
      BY <1>4, <3>1
    <3>3. p \in AllKeys(s) \/ \E j \in 1 .. i - 1 : p \in KeysOf(t[j])
      BY <1>2, <1>5, <3>2 DEF InOrder
    <3>4. CASE p \in AllKeys(s)
      <4>1. PICK j \in 1 .. a : p \in KeysOf(s[j])
        BY <1>2, <3>4 DEF AllKeys
      <4>2. j \in 1 .. k - 1 /\ u[j] = s[j]
        BY <1>3, <1>4, <3>1
      <4> QED BY <4>1, <4>2
    <3>5. CASE \E j \in 1 .. i - 1 : p \in KeysOf(t[j])
      <4>1. PICK j \in 1 .. i - 1 : p \in KeysOf(t[j])
        BY <3>5
      <4>2. a + j \in 1 .. k - 1 /\ u[a + j] = t[j]
        BY <1>3, <1>4, <3>1
      <4> QED BY <4>1, <4>2
    <3> QED BY <3>3, <3>4, <3>5
  <2> QED BY <2>1, <2>2
<1>6. InOrder(u, known)
  BY <1>4, <1>5 DEF InOrder
<1> QED BY <1>1, <1>2, <1>6

(* The keys of both lists.                                                  *)
LEMMA KeysOfBoth ==
  ASSUME NEW S, NEW s \in Seq(S), NEW t \in Seq(S)
  PROVE  AllKeys(s) \cup AllKeys(t) \subseteq AllKeys(s \o t)
<1>1. /\ Len(s \o t) = Len(s) + Len(t)
      /\ \A i \in 1 .. Len(s) + Len(t) :
           (s \o t)[i] = IF i <= Len(s) THEN s[i] ELSE t[i - Len(s)]
  BY ConcatProperties
<1>2. PICK u, a, b : u = s \o t /\ a = Len(s) /\ b = Len(t)
  OBVIOUS
<1>3. a \in Nat /\ b \in Nat
  BY <1>2, LenProperties
<1>4. Len(u) = a + b /\ \A i \in 1 .. a + b : u[i] = IF i <= a THEN s[i] ELSE t[i - a]
  BY <1>1, <1>2
<1>5. \A i \in 1 .. a : i \in 1 .. a + b /\ u[i] = s[i]
  BY <1>3, <1>4
<1>6. \A i \in 1 .. b : a + i \in 1 .. a + b /\ u[a + i] = t[i]
  <2>1. \A i \in 1 .. b : a + i \in 1 .. a + b /\ ~(a + i <= a) /\ (a + i) - a = i
    BY <1>3
  <2> QED BY <1>4, <2>1
<1>7. ASSUME NEW p, p \in AllKeys(s) PROVE p \in AllKeys(u)
  <2>1. PICK j \in 1 .. a : p \in KeysOf(s[j])
    BY <1>2, <1>7 DEF AllKeys
  <2>2. j \in 1 .. Len(u) /\ p \in KeysOf(u[j])
    BY <1>4, <1>5, <2>1
  <2> QED BY <2>2 DEF AllKeys
<1>8. ASSUME NEW p, p \in AllKeys(t) PROVE p \in AllKeys(u)
  <2>1. PICK j \in 1 .. b : p \in KeysOf(t[j])
    BY <1>2, <1>8 DEF AllKeys
  <2>2. a + j \in 1 .. Len(u) /\ p \in KeysOf(u[a + j])
    BY <1>4, <1>6, <2>1
  <2> QED BY <2>2 DEF AllKeys
<1> QED BY <1>2, <1>7, <1>8

(* What is left after the first batch, its keys being known.                *)
LEMMA OrderedRest ==
  ASSUME NEW S, NEW todo \in Seq(SUBSET S), todo # <<>>, NEW known, InOrder(todo, known)
  PROVE  /\ Tail(todo) \in Seq(SUBSET S) /\ Head(todo) \in SUBSET S
         /\ \A row \in Head(todo) : row.parents \subseteq known
         /\ InOrder(Tail(todo), known \cup KeysOf(Head(todo)))
<1>1. /\ Tail(todo) \in Seq(SUBSET S) /\ Len(Tail(todo)) = Len(todo) - 1 /\ Len(todo) \in Nat \ {0}
      /\ Head(todo) = todo[1]
      /\ \A i \in 1 .. Len(Tail(todo)) : Tail(todo)[i] = todo[i + 1]
  BY OneLess
<1>2. PICK rest, n, first : rest = Tail(todo) /\ n = Len(todo) /\ first = Head(todo)
  OBVIOUS
<1>3. /\ n \in Nat \ {0} /\ Len(rest) = n - 1 /\ first = todo[1]
      /\ \A i \in 1 .. n - 1 : rest[i] = todo[i + 1]
  BY <1>1, <1>2
<1>4. \A k \in 1 .. n : \A row \in todo[k] : \A p \in row.parents :
        p \in known \/ \E j \in 1 .. k - 1 : p \in KeysOf(todo[j])
  BY <1>2 DEF InOrder
<1>5. \A row \in first : row.parents \subseteq known
  BY <1>3, <1>4
<1>6. first \in SUBSET S
  BY <1>1, <1>2, <1>3
<1>7. ASSUME NEW k \in 1 .. n - 1, NEW row \in rest[k], NEW p \in row.parents,
             p \notin known \cup KeysOf(first)
      PROVE  \E j \in 1 .. k - 1 : p \in KeysOf(rest[j])
  <2>1. k + 1 \in 1 .. n /\ row \in todo[k + 1]
    BY <1>3
  <2>2. PICK j \in 1 .. (k + 1) - 1 : p \in KeysOf(todo[j])
    BY <1>4, <1>7, <2>1
  <2>3. j # 1
    BY <1>3, <1>7, <2>2
  <2>4. j - 1 \in 1 .. k - 1 /\ j - 1 \in 1 .. n - 1 /\ (j - 1) + 1 = j
    BY <1>3, <2>2, <2>3
  <2>5. rest[j - 1] = todo[j]
    BY <1>3, <2>4
  <2> QED BY <2>2, <2>4, <2>5
<1>8. InOrder(rest, known \cup KeysOf(first))
  BY <1>3, <1>7 DEF InOrder
<1> QED BY <1>1, <1>2, <1>5, <1>6, <1>8

(* A source row is there or missing.                                        *)
LEMMA ThereOrMissing ==
  ASSUME NEW held, NEW table, NEW p \in KeysOf(OfTable(SourceRows, table))
  PROVE  p \in KeysOf(held) \/ p \in KeysOf(OfTable(MissingRows(held), table))
<1>1. PICK s \in SourceRows : s.table = table /\ KeyOf(s) = p
  BY DEF KeysOf, OfTable
<1>2. CASE \E t \in held : KeyOf(t) = p
  BY <1>2 DEF KeysOf
<1>3. CASE ~\E t \in held : KeyOf(t) = p
  <2>1. s \in MissingRows(held)
    BY <1>1, <1>3 DEF MissingRows
  <2> QED BY <1>1, <2>1 DEF KeysOf, OfTable
<1> QED BY <1>2, <1>3

(* The missing rows are planned parents first: objects, manifests by their  *)
(* rounds, relations.                                                       *)
LEMMA PlanInOrder ==
  ASSUME legacy \in LegacySnapshots, NEW held,
         Acyclic(OfTable(MissingRows(held), "manifest"))
  PROVE  /\ InsertionOrder(MissingRows(held)) \in Seq(SUBSET SourceRows)
         /\ InOrder(InsertionOrder(MissingRows(held)), KeysOf(held))
<1> DEFINE Of(table) == OfTable(MissingRows(held), table)
<1> DEFINE K == KeysOf(held)
<1>1. ASSUME NEW table
      PROVE  Of(table) \in SUBSET SourceRows /\ IsFiniteSet(Of(table))
  <2>1. Of(table) \in SUBSET SourceRows
    BY DEF OfTable, MissingRows
  <2> QED BY <2>1, SourceFinite
<1>2. \A table : \A row \in Of(table) : row \in SourceRows /\ row.table = table
  BY <1>1 DEF OfTable
<1>3. \A table : \A p \in KeysOf(OfTable(SourceRows, table)) : p \in K \/ p \in KeysOf(Of(table))
  BY ThereOrMissing
<1>4. PICK O, M, R : O = Of("object") /\ M = Of("manifest") /\ R = Of("relation")
  OBVIOUS
<1>5. PICK A, B, C : A = ParentFirst(O) /\ B = ParentFirst(M) /\ C = ParentFirst(R)
  OBVIOUS
<1>6. InsertionOrder(MissingRows(held)) = (A \o B) \o C
  BY <1>4, <1>5 DEF InsertionOrder
<1>7. \A row \in O : row.parents = {}
  BY <1>2, <1>4, SourceParents
<1>8. \A row \in M : \A p \in row.parents : p \in K \/ p \in KeysOf(M)
  <2>1. \A row \in M : \A p \in row.parents : p \in KeysOf(OfTable(SourceRows, "manifest"))
    BY <1>2, <1>4, SourceParents
  <2> QED BY <1>3, <1>4, <2>1
<1>9. \A row \in R : \A p \in row.parents : p \in K \cup KeysOf(O) \cup KeysOf(M)
  <2>1. \A row \in R : \A p \in row.parents :
          p \in KeysOf(OfTable(SourceRows, "manifest")) \cup KeysOf(OfTable(SourceRows, "object"))
    BY <1>2, <1>4, SourceParents
  <2> QED BY <1>3, <1>4, <2>1
<1>10. Acyclic(M)
  BY <1>4
<1>11. /\ O \in SUBSET SourceRows /\ IsFiniteSet(O)
       /\ M \in SUBSET SourceRows /\ IsFiniteSet(M)
       /\ R \in SUBSET SourceRows /\ IsFiniteSet(R)
  BY <1>1, <1>4
<1> HIDE DEF Of, K
<1>12. A \in Seq(SUBSET SourceRows) /\ InOrder(A, K) /\ AllKeys(A) = KeysOf(O)
  <2>1. Acyclic(O)
    BY <1>7, <1>11, ParentsComeFirst
  <2>2. \A row \in O : \A p \in row.parents : p \in K \/ p \in KeysOf(O)
    BY <1>7
  <2> QED BY <1>5, <1>11, <2>1, <2>2, ParentsComeFirst
<1>13. /\ B \in Seq(SUBSET SourceRows) /\ InOrder(B, K \cup AllKeys(A))
       /\ AllKeys(B) = KeysOf(M)
  <2>1. \A row \in M : \A p \in row.parents : p \in K \cup AllKeys(A) \/ p \in KeysOf(M)
    BY <1>8
  <2> QED BY <1>5, <1>10, <1>11, <2>1, ParentsComeFirst
<1>14. A \o B \in Seq(SUBSET SourceRows) /\ InOrder(A \o B, K)
  BY <1>12, <1>13, OrderedAfter
<1>15. KeysOf(O) \cup KeysOf(M) \subseteq AllKeys(A \o B)
  BY <1>12, <1>13, KeysOfBoth
<1>16. C \in Seq(SUBSET SourceRows) /\ InOrder(C, K \cup AllKeys(A \o B))
  <2>1. \A row \in R : \A p \in row.parents : p \in K \cup AllKeys(A \o B) \/ p \in KeysOf(R)
    BY <1>9, <1>15
  <2> QED BY <1>5, <1>11, <2>1, ParentsComeFirst
<1>17. (A \o B) \o C \in Seq(SUBSET SourceRows) /\ InOrder((A \o B) \o C, K)
  BY <1>14, <1>16, OrderedAfter
<1> QED BY <1>6, <1>17 DEF K

(* The rows of a comparable set that lacks no source row hold them all.     *)
LEMMA NoneMissing ==
  ASSUME legacy \in LegacySnapshots, NEW held, Comparable(held), MissingRows(held) = {}
  PROVE  SourceRows \subseteq held
<1> SUFFICES ASSUME NEW row \in SourceRows PROVE row \in held
  OBVIOUS
<1>1. PICK t \in held : KeyOf(t) = KeyOf(row)
  BY DEF MissingRows
<1>2. t.table = row.table
  BY <1>1 DEF KeyOf
<1>3. row.table # "event"
  BY SourceParents
<1>4. t \in SourceRows
  BY <1>2, <1>3 DEF Comparable, TargetOnly
<1> QED BY <1>1, <1>4, SourceKeysUnique

-----------------------------------------------------------------------------
(* What holds of a bootstrap: every row has its parents, those to come find *)
(* theirs, and a row of the source is there only with all others.           *)
Verified == Translatable /\ ListedObjects \subseteq intact
RowsWhole == (\E row \in target : FromSource(row)) =>
               ListedObjects \subseteq intact /\ SourceRows \subseteq target
BootstrapInv ==
  /\ legacy \in LegacySnapshots /\ intact \subseteq ListedObjects
  /\ bootstrap \in {"idle", "inserting", "applied", "refused"}
  /\ writes \in 0 .. MaxWrites
  /\ \A r, s \in target \cup unit : KeyOf(r) = KeyOf(s) => r = s
  /\ unit \subseteq SourceRows /\ target \subseteq SourceRows \cup ForeignRow
  /\ \A row \in target : row.parents \subseteq KeysOf(target)
  /\ \A row \in unit : row.parents \subseteq KeysOf(target \cup unit)
  /\ bootstrap # "inserting" => unit = {}
  /\ bootstrap = "inserting" =>
       /\ Verified
       /\ planned \in Seq(SUBSET SourceRows) /\ InOrder(planned, KeysOf(target \cup unit))
  /\ RowsWhole
  /\ bootstrap = "applied" => Translatable /\ SourceRows \subseteq target

(* Before the first run there is nothing in the target.                     *)
LEMMA BootstrapInvInit == BootstrapInit => BootstrapInv
BY BootstrapAssumption DEF BootstrapInit, BootstrapInv, RowsWhole

(* What the source says stays while it and the objects do.                  *)
LEMMA SourceStays ==
  ASSUME UNCHANGED <<legacy, intact>>
  PROVE  /\ ListedObjects' = ListedObjects /\ SourceRows' = SourceRows
         /\ Translatable' = Translatable /\ Verified' = Verified
BY DEF ListedObjects, SourceRows, Translatable, Verified, ObjectRow, ManifestRow, RelationRow, Row,
       Manifests, FormatsOf, Linked, OneRelation

(* A plan is made only for a source that was verified, parents first.       *)
LEMMA PlanKeeps == BootstrapInv /\ Plan => BootstrapInv'
<1> SUFFICES ASSUME BootstrapInv, Plan PROVE BootstrapInv'
  OBVIOUS
<1>1. bootstrap = "idle" /\ UNCHANGED <<legacy, intact, target, unit, writes>>
  BY DEF Plan
<1>2. /\ ListedObjects' = ListedObjects /\ SourceRows' = SourceRows
      /\ Translatable' = Translatable /\ Verified' = Verified
  BY <1>1, SourceStays
<1>3. unit = {} /\ legacy \in LegacySnapshots
  BY <1>1 DEF BootstrapInv
<1>4. bootstrap' \in {"applied", "inserting", "refused"}
  BY DEF Plan
<1>5. bootstrap' = "inserting" =>
        /\ Verified
        /\ planned' \in Seq(SUBSET SourceRows) /\ InOrder(planned', KeysOf(target \cup unit))
  <2> SUFFICES ASSUME bootstrap' = "inserting"
               PROVE  /\ Verified
                      /\ planned' \in Seq(SUBSET SourceRows)
                      /\ InOrder(planned', KeysOf(target))
    BY <1>3
  <2>1. /\ Translatable /\ ListedObjects \subseteq intact
        /\ Acyclic(OfTable(MissingRows(target), "manifest"))
        /\ planned' = InsertionOrder(MissingRows(target))
    BY DEF Plan
  <2> QED BY <1>3, <2>1, PlanInOrder DEF Verified
<1>6. bootstrap' = "applied" => Translatable /\ SourceRows \subseteq target
  BY <1>3, NoneMissing DEF Plan
<1>7. RowsWhole' = RowsWhole
  BY <1>1, <1>2 DEF RowsWhole, FromSource
<1> QED BY <1>1, <1>2, <1>3, <1>4, <1>5, <1>6, <1>7 DEF BootstrapInv

(* A batch is inserted when the parents of its rows are there.              *)
LEMMA InsertNextKeeps == BootstrapInv /\ InsertNext => BootstrapInv'
<1> SUFFICES ASSUME BootstrapInv, InsertNext PROVE BootstrapInv'
  OBVIOUS
<1> DEFINE new == {row \in Head(planned) : \A t \in target : KeyOf(t) # KeyOf(row)}
<1>1. /\ bootstrap = "inserting" /\ planned # <<>> /\ UNCHANGED <<legacy, intact, target, bootstrap, writes>>
      /\ unit' = unit \cup new /\ planned' = Tail(planned)
  BY DEF InsertNext
<1>2. /\ ListedObjects' = ListedObjects /\ SourceRows' = SourceRows
      /\ Translatable' = Translatable /\ Verified' = Verified
  BY <1>1, SourceStays
<1>3. planned \in Seq(SUBSET SourceRows) /\ InOrder(planned, KeysOf(target \cup unit)) /\ Verified
  BY <1>1 DEF BootstrapInv
<1>4. /\ Tail(planned) \in Seq(SUBSET SourceRows) /\ Head(planned) \in SUBSET SourceRows
      /\ \A row \in Head(planned) : row.parents \subseteq KeysOf(target \cup unit)
      /\ InOrder(Tail(planned), KeysOf(target \cup unit) \cup KeysOf(Head(planned)))
  BY <1>1, <1>3, OrderedRest
<1>5. KeysOf(target \cup unit) \cup KeysOf(Head(planned)) = KeysOf(target' \cup unit')
  <2>1. \A row \in Head(planned) : KeyOf(row) \in KeysOf(target' \cup unit')
    BY <1>1 DEF KeysOf
  <2> QED BY <1>1, <2>1 DEF KeysOf
<1>6. new \subseteq SourceRows /\ new \subseteq Head(planned)
  BY <1>4
<1>7. \A r, s \in target' \cup unit' : KeyOf(r) = KeyOf(s) => r = s
  <2>1. \A r \in new, s \in target : KeyOf(r) # KeyOf(s)
    OBVIOUS
  <2>2. \A r, s \in unit \cup new : KeyOf(r) = KeyOf(s) => r = s
    BY <1>6, SourceKeysUnique DEF BootstrapInv
  <2>3. \A r, s \in target \cup unit : KeyOf(r) = KeyOf(s) => r = s
    BY DEF BootstrapInv
  <2> HIDE DEF new
  <2> QED BY <1>1, <2>1, <2>2, <2>3
<1>8. \A row \in unit' : row.parents \subseteq KeysOf(target' \cup unit')
  <2>1. \A row \in unit : row.parents \subseteq KeysOf(target \cup unit)
    BY DEF BootstrapInv
  <2> HIDE DEF new
  <2> QED BY <1>1, <1>4, <1>5, <1>6, <2>1
<1>9. RowsWhole' = RowsWhole
  BY <1>1, <1>2 DEF RowsWhole, FromSource
<1> HIDE DEF new
<1>10. planned' \in Seq(SUBSET SourceRows) /\ InOrder(planned', KeysOf(target' \cup unit'))
  BY <1>1, <1>4, <1>5
<1> QED BY <1>1, <1>2, <1>3, <1>6, <1>7, <1>8, <1>9, <1>10 DEF BootstrapInv

(* A transaction is committed only if no source row is missing.             *)
LEMMA FinishKeeps == BootstrapInv /\ Finish => BootstrapInv'
<1> SUFFICES ASSUME BootstrapInv, Finish PROVE BootstrapInv'
  OBVIOUS
<1>1. bootstrap = "inserting" /\ unit' = {} /\ UNCHANGED <<legacy, intact, planned, writes>>
  BY DEF Finish
<1>2. /\ ListedObjects' = ListedObjects /\ SourceRows' = SourceRows
      /\ Translatable' = Translatable /\ Verified' = Verified
  BY <1>1, SourceStays
<1>3. Verified /\ legacy \in LegacySnapshots
  BY <1>1 DEF BootstrapInv
<1>4. CASE Confirmed(target \cup unit)
  <2>1. bootstrap' = "applied" /\ target' = target \cup unit
    BY <1>4 DEF Finish
  <2>2. SourceRows \subseteq target'
    BY <1>3, <1>4, <2>1, NoneMissing DEF Confirmed
  <2>3. RowsWhole'
    BY <1>2, <1>3, <1>1, <2>2 DEF RowsWhole, Verified
  <2>4. \A row \in target' : row.parents \subseteq KeysOf(target')
    <3>1. \A row \in target : row.parents \subseteq KeysOf(target \cup unit)
      BY DEF BootstrapInv, KeysOf
    <3> QED BY <2>1, <3>1 DEF BootstrapInv
  <2> QED BY <1>1, <1>2, <1>3, <2>1, <2>2, <2>3, <2>4 DEF BootstrapInv, Verified
<1>5. CASE ~Confirmed(target \cup unit)
  <2>1. bootstrap' = "refused" /\ target' = target
    BY <1>5 DEF Finish
  <2>2. RowsWhole' = RowsWhole
    BY <1>1, <1>2, <2>1 DEF RowsWhole, FromSource
  <2> QED BY <1>1, <1>2, <2>1, <2>2 DEF BootstrapInv
<1> QED BY <1>4, <1>5

(* A row of another writer takes no id that is taken.                       *)
LEMMA OtherWritesKeeps ==
  ASSUME BootstrapInv, NEW row \in ForeignRow, OtherWrites(row) PROVE BootstrapInv'
<1>1. /\ writes < MaxWrites /\ writes' = writes + 1 /\ target' = target \cup {row}
      /\ \A t \in target \cup unit : KeyOf(t) # KeyOf(row)
      /\ row.parents \subseteq KeysOf(target)
      /\ UNCHANGED <<legacy, intact, planned, unit, bootstrap>>
  BY DEF OtherWrites, KeysOf
<1>2. /\ ListedObjects' = ListedObjects /\ SourceRows' = SourceRows
      /\ Translatable' = Translatable /\ Verified' = Verified
  BY <1>1, SourceStays
<1>3. KeysOf(target) \subseteq KeysOf(target') /\ KeysOf(target \cup unit) \subseteq KeysOf(target' \cup unit')
  BY <1>1 DEF KeysOf
<1>4. \A r, s \in target' \cup unit' : KeyOf(r) = KeyOf(s) => r = s
  <2>1. \A r, s \in target \cup unit : KeyOf(r) = KeyOf(s) => r = s
    BY DEF BootstrapInv
  <2> QED BY <1>1, <2>1
<1>5. RowsWhole'
  <2>1. ~FromSource(row)
    BY DEF FromSource
  <2>2. RowsWhole
    BY DEF BootstrapInv
  <2> QED BY <1>1, <1>2, <2>1, <2>2 DEF RowsWhole, FromSource
<1>6. bootstrap' = "inserting" => InOrder(planned', KeysOf(target' \cup unit'))
  BY <1>1, <1>3 DEF BootstrapInv, InOrder
<1>7. \A r \in target' : r.parents \subseteq KeysOf(target')
  BY <1>1, <1>3 DEF BootstrapInv
<1>8. \A r \in unit' : r.parents \subseteq KeysOf(target' \cup unit')
  BY <1>1, <1>3 DEF BootstrapInv
<1>9. writes' \in 0 .. MaxWrites
  BY <1>1, BootstrapAssumption DEF BootstrapInv
<1> QED BY <1>1, <1>2, <1>4, <1>5, <1>6, <1>7, <1>8, <1>9 DEF BootstrapInv

(* Every step keeps it, the writes of others and a death among them.        *)
LEMMA BootstrapInvStep == BootstrapInv /\ [BootstrapNext]_bootstrapVars => BootstrapInv'
<1> SUFFICES ASSUME BootstrapInv, [BootstrapNext]_bootstrapVars PROVE BootstrapInv'
  OBVIOUS
<1>1. CASE UNCHANGED bootstrapVars
  <2>1. UNCHANGED <<legacy, intact, target, planned, unit, bootstrap, writes>>
    BY <1>1 DEF bootstrapVars
  <2>2. /\ ListedObjects' = ListedObjects /\ SourceRows' = SourceRows
        /\ Translatable' = Translatable /\ Verified' = Verified
    BY <2>1, SourceStays
  <2>3. RowsWhole' = RowsWhole
    BY <2>1, <2>2 DEF RowsWhole, FromSource
  <2> QED BY <2>1, <2>2, <2>3 DEF BootstrapInv
<1>2. CASE ProcessDies \/ RunAgain
  <2>1. /\ UNCHANGED <<legacy, intact, target>> /\ unit' = {} /\ bootstrap' = "idle"
        /\ writes' \in 0 .. MaxWrites
    BY <1>2, BootstrapAssumption DEF ProcessDies, RunAgain, BootstrapInv
  <2>2. /\ ListedObjects' = ListedObjects /\ SourceRows' = SourceRows
    BY <2>1, SourceStays
  <2>3. RowsWhole' = RowsWhole
    BY <2>1, <2>2 DEF RowsWhole, FromSource
  <2> QED BY <2>1, <2>2, <2>3 DEF BootstrapInv
<1> QED BY <1>1, <1>2, PlanKeeps, InsertNextKeeps, FinishKeeps, OtherWritesKeeps
        DEF BootstrapNext

(* Other writers link objects and manifests of their own: none of their     *)
(* relations names a legacy object or manifest.                             *)
OwnRelations ==
  \A row \in ForeignRow : row.table = "relation" =>
    row.key[2] \notin StoredObject /\ \A m \in Manifest : <<"manifest", <<m>>>> \notin row.parents

(* An applied bootstrap has the relations of the source and no other of its *)
(* objects and manifests.                                                   *)
LEMMA RelationsThere ==
  ASSUME BootstrapInv, OwnRelations, SourceRows \subseteq target
  PROVE  /\ \A r \in target : r.table = "relation" =>
              \/ \E q \in legacy.relations : r = RelationRow(q)
              \/ r \in ForeignRow
         /\ \A q \in legacy.relations : RelationRow(q) \in target
<1>1. target \subseteq SourceRows \cup ForeignRow
  BY DEF BootstrapInv
<1>2. \A q \in legacy.relations : RelationRow(q) \in SourceRows
  BY DEF SourceRows
<1>3. ASSUME NEW r \in SourceRows, r.table = "relation"
      PROVE  \E q \in legacy.relations : r = RelationRow(q)
  BY <1>3, SourceRowIs, RowFields
<1> QED BY <1>1, <1>2, <1>3

(* An object of the source is linked by the one relation it had.            *)
LEMMA LinkedOnce ==
  ASSUME BootstrapInv, OwnRelations, SourceRows \subseteq target, Translatable,
         NEW o \in ListedObjects
  PROVE  Cardinality({r \in target : r.table = "relation" /\ r.key[2] = o}) = 1
<1>1. legacy \in LegacySnapshots /\ IsFiniteSet(legacy.relations) /\ o \in StoredObject
  BY SourceFinite DEF BootstrapInv, ListedObjects
<1> DEFINE Q == {r \in legacy.relations : r[2] = o}
<1> DEFINE T == {r \in target : r.table = "relation" /\ r.key[2] = o}
<1>2. PICK q : Q = {q}
  <2>1. IsFiniteSet(Q)
    BY <1>1, FS_Subset
  <2>2. Cardinality(Q) = 1
    BY DEF Translatable, OneRelation
  <2> QED BY <2>1, <2>2, FS_Singleton
<1>3. T = {RelationRow(q)}
  <2>1. q \in legacy.relations /\ q[2] = o
    BY <1>2
  <2>2. RelationRow(q) \in T
    BY <2>1, RelationsThere, RowFields
  <2>3. ASSUME NEW r \in T PROVE r = RelationRow(q)
    <3>1. r \in target /\ r.table = "relation" /\ r.key[2] = o
      OBVIOUS
    <3>2. r \notin ForeignRow
      BY <1>1, <3>1 DEF OwnRelations
    <3>3. PICK p \in legacy.relations : r = RelationRow(p)
      BY <3>1, <3>2, RelationsThere
    <3>4. p[2] = o
      BY <3>1, <3>3, RowFields
    <3> QED BY <1>2, <3>3, <3>4
  <2> QED BY <2>2, <2>3
<1> HIDE DEF T
<1>4. Cardinality(T) = 1
  BY <1>3, FS_Singleton
<1> QED BY <1>4 DEF T

(* A manifest has as many relations as it counts objects.                   *)
LEMMA CountedRight ==
  ASSUME BootstrapInv, OwnRelations, SourceRows \subseteq target,
         NEW r \in OfTable(target, "manifest"), FromSource(r)
  PROVE  r.columns[2] = Cardinality(
           {q \in target : q.table = "relation" /\ <<"manifest", r.key>> \in q.parents})
<1>1. legacy \in LegacySnapshots /\ IsFiniteSet(legacy.relations)
  BY SourceFinite DEF BootstrapInv
<1>2. r \in SourceRows /\ r.table = "manifest"
  BY DEF BootstrapInv, OfTable, FromSource
<1>3. PICK m \in Manifests : r = ManifestRow(m)
  BY <1>2, SourceRowIs, RowFields
<1>4. r.key = <<m>> /\ r.columns[2] = Cardinality(Linked(m)) /\ m \in Manifest
  BY <1>3, RowFields DEF Manifests
<1> DEFINE Q == {q \in legacy.relations : q[1] = m}
<1> DEFINE T == {q \in target : q.table = "relation" /\ <<"manifest", <<m>>>> \in q.parents}
<1> DEFINE f == [q \in Q |-> q[2]]
<1> DEFINE g == [q \in Q |-> RelationRow(q)]
<1>5. IsFiniteSet(Q)
  BY <1>1, FS_Subset
<1>6. \A q \in legacy.relations : q = <<q[1], q[2]>>
  BY <1>1 DEF LegacySnapshots
<1>7. f \in Bijection(Q, Linked(m))
  <2>1. Linked(m) = {q[2] : q \in Q}
    BY DEF Linked
  <2>2. f \in [Q -> Linked(m)] /\ \A o \in Linked(m) : \E q \in Q : f[q] = o
    BY <2>1
  <2>3. \A p, q \in Q : f[p] = f[q] => p = q
    BY <1>6
  <2> HIDE DEF f, Q
  <2> QED BY <2>2, <2>3 DEF Bijection, Injection, Surjection, IsInjective
<1>8. g \in Bijection(Q, T)
  <2>1. ASSUME NEW q \in Q PROVE RelationRow(q) \in T
    <3>1. q \in legacy.relations /\ q[1] = m
      OBVIOUS
    <3>2. /\ RelationRow(q) \in target /\ RelationRow(q).table = "relation"
          /\ RelationRow(q).parents = {<<"manifest", <<q[1]>>>>, <<"object", <<q[2]>>>>}
      BY <3>1, RelationsThere, RowFields
    <3> QED BY <3>1, <3>2
  <2>2. ASSUME NEW t \in T PROVE \E q \in Q : RelationRow(q) = t
    <3>1. t \in target /\ t.table = "relation" /\ <<"manifest", <<m>>>> \in t.parents
      OBVIOUS
    <3>2. t \notin ForeignRow
      BY <1>4, <3>1 DEF OwnRelations
    <3>3. PICK q \in legacy.relations : t = RelationRow(q)
      BY <3>1, <3>2, RelationsThere
    <3>4. t.parents = {<<"manifest", <<q[1]>>>>, <<"object", <<q[2]>>>>}
      BY <3>3, RowFields
    <3>5. q[1] = m
      <4>1. <<"manifest", <<m>>>> = <<"manifest", <<q[1]>>>> \/ <<"manifest", <<m>>>> = <<"object", <<q[2]>>>>
        BY <3>1, <3>4
      <4>2. <<"manifest", <<m>>>>[1] = "manifest" /\ <<"object", <<q[2]>>>>[1] = "object"
        OBVIOUS
      <4>3. <<"manifest", <<m>>>>[2] = <<m>> /\ <<"manifest", <<q[1]>>>>[2] = <<q[1]>>
        OBVIOUS
      <4>4. <<m>>[1] = m /\ <<q[1]>>[1] = q[1]
        OBVIOUS
      <4>5. <<m>> = <<q[1]>>
        BY <4>1, <4>2, <4>3
      <4> QED BY <4>4, <4>5
    <3> QED BY <3>3, <3>5
  <2>3. \A p, q \in Q : RelationRow(p) = RelationRow(q) => p = q
    BY RowFields
  <2>4. g \in [Q -> T] /\ \A t \in T : \E q \in Q : g[q] = t
    BY <2>1, <2>2
  <2>5. \A p, q \in Q : g[p] = g[q] => p = q
    BY <2>3
  <2> HIDE DEF g, Q, T
  <2> QED BY <2>4, <2>5 DEF Bijection, Injection, Surjection, IsInjective
<1> HIDE DEF Q, T, f, g
<1>9. ExistsBijection(Q, Linked(m)) /\ ExistsBijection(Q, T)
  BY <1>7, <1>8 DEF ExistsBijection
<1>10. Cardinality(Linked(m)) = Cardinality(T)
  BY <1>5, <1>9, FS_Bijection
<1> QED BY <1>4, <1>10 DEF T

(* The invariant gives the types and the promise.                           *)
LEMMA BootstrapInvMeans == BootstrapInv => BootstrapTypeOK
BY DEF BootstrapInv, BootstrapTypeOK

(* The invariant is the promise, where other writers keep to their own.     *)
LEMMA BootstrapInvExact == ASSUME OwnRelations, BootstrapInv PROVE BootstrapExact
<1>1. \A row \in target \cup unit : row.parents \subseteq {KeyOf(t) : t \in target \cup unit}
  BY DEF BootstrapInv, KeysOf
<1>2. (\E row \in target : FromSource(row)) =>
        ListedObjects \subseteq intact /\ SourceRows \subseteq target
  BY DEF BootstrapInv, RowsWhole
<1>3. bootstrap = "applied" => SourceRows \subseteq target /\ Translatable
  BY DEF BootstrapInv
<1> QED BY <1>1, <1>2, <1>3, LinkedOnce, CountedRight DEF BootstrapExact

(* The rows of the bootstrap keep their types, one per id.                  *)
THEOREM BootstrapTypeCorrect == BootstrapSpec => []BootstrapTypeOK
<1> QED BY BootstrapInvInit, BootstrapInvStep, BootstrapInvMeans, PTL DEF BootstrapSpec

(* legacy_bootstrap.py, for any retired catalog its foreign keys allow: no  *)
(* statement misses a parent row, the database holds all legacy rows or     *)
(* none, and an applied bootstrap is the whole snapshot - as long as other  *)
(* writers link only objects and manifests of their own.                    *)
THEOREM BootstrapIsExact ==
  ASSUME OwnRelations
  PROVE  BootstrapSpec => []BootstrapExact
<1> QED BY BootstrapInvInit, BootstrapInvStep, BootstrapInvExact, PTL DEF BootstrapSpec

-----------------------------------------------------------------------------
(* The registry's tables, with any number of writers                        *)

(* A row written over its former version.                                   *)
LEMMA UpsertTyped ==
  ASSUME NEW table \in SUBSET Assignments, NEW a \in Assignments, Keyed(table)
  PROVE  Upserted(table, a) \in SUBSET Assignments /\ Keyed(Upserted(table, a))
BY DEF Upserted, Keyed

(* Every step keeps the types and one row per id.                           *)
LEMMA RegistryTypeStep == RegistryTypeOK /\ [RegistryNext]_registryVars => RegistryTypeOK'
<1> SUFFICES ASSUME RegistryTypeOK, [RegistryNext]_registryVars PROVE RegistryTypeOK'
  OBVIOUS
<1>1. /\ periods \in SUBSET Assignments /\ writing \in SUBSET Assignments /\ Keyed(periods)
      /\ instruments \in [Instrument -> [identity : Identity, fact : Fact] \cup {Absent}]
      /\ calendar \in [CalendarSession -> SessionType \cup {Absent}]
  BY DEF RegistryTypeOK, Keyed
<1>2. CASE UNCHANGED registryVars
  BY <1>2 DEF registryVars, RegistryTypeOK
<1>3. ASSUME NEW i \in Instrument, NEW identity \in Identity, NEW fact \in Fact,
             Register(i, identity, fact)
      PROVE  RegistryTypeOK'
  <2>1. /\ instruments' = [instruments EXCEPT ![i] = [identity |-> identity, fact |-> fact]]
        /\ UNCHANGED <<periods, calendar, writing>>
    BY <1>3 DEF Register
  <2>2. instruments' \in [Instrument -> [identity : Identity, fact : Fact] \cup {Absent}]
    BY <1>1, <2>1
  <2> QED BY <1>1, <2>1, <2>2 DEF RegistryTypeOK, Keyed
<1>4. ASSUME NEW a \in Assignments, CheckAssignment(a) PROVE RegistryTypeOK'
  BY <1>1, <1>4 DEF CheckAssignment, RegistryTypeOK, Keyed
<1>5. ASSUME NEW a \in Assignments, WriteAssignment(a) PROVE RegistryTypeOK'
  <2>1. /\ writing' = writing \ {a} /\ periods' = Upserted(periods, a)
        /\ UNCHANGED <<instruments, calendar>>
    BY <1>5 DEF WriteAssignment
  <2>2. periods' \in SUBSET Assignments /\ Keyed(periods')
    BY <1>1, <2>1, UpsertTyped
  <2> QED BY <1>1, <2>1, <2>2 DEF RegistryTypeOK, Keyed
<1>6. ASSUME NEW a \in OpenEnded, NEW b \in OpenEnded, NEW identity \in Identity,
             NEW fact \in Fact, NEW sessions \in SUBSET CalendarSession,
             NEW type \in SessionType,
             LoadReferenceData({a, b}, identity, fact, sessions, type)
      PROVE  RegistryTypeOK'
  <2>1. PICK row, table : row = [identity |-> identity, fact |-> fact] /\ table = {a, b}
    OBVIOUS
  <2>2. row \in [identity : Identity, fact : Fact]
    BY <2>1
  <2>3. table \in SUBSET Assignments /\ Keyed(table)
    BY <2>1, OpenEndedKeyed DEF OpenEnded, Keyed
  <2>4. /\ instruments' = [i \in Instrument |-> IF \E x \in table : x.instrument = i
                                                THEN row ELSE instruments[i]]
        /\ periods' = {r \in periods : \A x \in table : RowIdOf(r) # RowIdOf(x)} \cup table
        /\ calendar' = [s \in CalendarSession |-> IF s \in sessions THEN type ELSE calendar[s]]
        /\ UNCHANGED writing
    BY <1>6, <2>1 DEF LoadReferenceData
  <2>5. instruments' \in [Instrument -> [identity : Identity, fact : Fact] \cup {Absent}]
    BY <1>1, <2>2, <2>4
  <2>6. calendar' \in [CalendarSession -> SessionType \cup {Absent}]
    BY <1>1, <2>4
  <2>7. periods' \in SUBSET Assignments /\ Keyed(periods')
    BY <1>1, <2>3, <2>4 DEF Keyed
  <2> QED BY <1>1, <2>4, <2>5, <2>6, <2>7 DEF RegistryTypeOK, Keyed
<1>7. ASSUME NEW i \in Instrument, NEW venue \in Venue, NEW ticker \in Ticker,
             NEW moment \in 1 .. MaxInstant, NEW transaction \in BOOLEAN,
             Rename(i, venue, ticker, moment, transaction)
      PROVE  RegistryTypeOK'
  <2>1. PICK current \in OpenRows(i, venue) :
          /\ current.from < moment
          /\ LET closed == Upserted(periods, ClosesAt(current, moment))
                 next == [instrument |-> i, venue |-> venue, ticker |-> ticker,
                          from |-> moment, to |-> Open]
                 held == {r \in closed : r.venue = venue
                                         /\ (r.ticker = ticker \/ r.instrument = i)}
             IN periods' = IF \A r \in held : RowIdOf(r) = RowIdOf(next)
                                              \/ ~PeriodsOverlap(r, next)
                           THEN Upserted(closed, next)
                           ELSE IF transaction THEN periods ELSE closed
    BY <1>7 DEF Rename
  <2>2. UNCHANGED <<instruments, calendar, writing>>
    BY <1>7 DEF Rename
  <2>3. PICK c, next : /\ c = ClosesAt(current, moment)
                       /\ next = [instrument |-> i, venue |-> venue, ticker |-> ticker,
                                  from |-> moment, to |-> Open]
    OBVIOUS
  <2>4. c \in Assignments
    BY <1>1, <2>1, <2>3, ClosedIsAssignment DEF OpenRows
  <2>5. next \in Assignments
    BY <2>3 DEF Assignments
  <2>6. PICK closed : closed = Upserted(periods, c)
    OBVIOUS
  <2>7. closed \in SUBSET Assignments /\ Keyed(closed)
    BY <1>1, <2>4, <2>6, UpsertTyped
  <2>8. periods' = Upserted(closed, next) \/ periods' = periods \/ periods' = closed
    BY <2>1, <2>3, <2>6
  <2>9. periods' \in SUBSET Assignments /\ Keyed(periods')
    BY <1>1, <2>5, <2>7, <2>8, UpsertTyped
  <2> QED BY <1>1, <2>2, <2>9 DEF RegistryTypeOK, Keyed
<1> QED BY <1>2, <1>3, <1>4, <1>5, <1>6, <1>7 DEF RegistryNext

(* An empty registry has its types.                                         *)
LEMMA RegistryTypeStart == RegistryInit => RegistryTypeOK
BY DEF RegistryInit, RegistryTypeOK

(* The registry keeps its types, however many writers there are.            *)
LEMMA RegistryTypeCorrect == RegistrySpec => []RegistryTypeOK
<1> QED BY RegistryTypeStart, RegistryTypeStep, PTL DEF RegistrySpec

-----------------------------------------------------------------------------
(* The components beside each other.                                        *)

(* A step of the whole is a step of one component and of no other.          *)
LEMMA OneMoves ==
  ASSUME [BatchNext]_batchVars
  PROVE  /\ [FeatureNext]_featureVars /\ [CalculatorNext]_calculatorVars
         /\ [WarmupNext]_warmupVars /\ [BundleNext]_bundleVars /\ [ExportNext]_exportVars
         /\ [StoreNext]_storeVars /\ [LocalNext]_localVars /\ [BootstrapNext]_bootstrapVars
         /\ [QualityNext]_qualityVars /\ [RegistryNext]_registryVars /\ [ApplyNext]_applyVars
<1>1. CASE UNCHANGED batchVars
  BY <1>1 DEF batchVars
<1>2. CASE BatchNext
  <2>1. OthersRest
    BY <1>2 DEF BatchNext, FeatureMoves, CalculatorMoves, GateMoves, BundleMoves, ExportMoves,
       StoreMoves, LocalMoves, BootstrapMoves, QualityMoves, RegistryMoves, ApplyMoves
  <2>2. /\ subject = "feature" \/ UNCHANGED featureVars
        /\ subject = "calculator" \/ UNCHANGED calculatorVars
        /\ subject = "gate" \/ UNCHANGED warmupVars
        /\ subject = "bundle" \/ UNCHANGED bundleVars
        /\ subject = "export" \/ UNCHANGED exportVars
        /\ subject = "store" \/ UNCHANGED storeVars
        /\ subject = "local" \/ UNCHANGED localVars
        /\ subject = "bootstrap" \/ UNCHANGED bootstrapVars
        /\ subject = "quality" \/ UNCHANGED qualityVars
        /\ subject = "registry" \/ UNCHANGED registryVars
        /\ subject = "apply" \/ UNCHANGED applyVars
    BY <2>1 DEF OthersRest, Rests
  <2>3. /\ subject = "feature" => FeatureNext
        /\ subject = "calculator" => CalculatorNext
        /\ subject = "gate" => WarmupNext
        /\ subject = "bundle" => BundleNext
        /\ subject = "export" => ExportNext
        /\ subject = "store" => StoreNext
        /\ subject = "local" => LocalNext
        /\ subject = "bootstrap" => BootstrapNext
        /\ subject = "quality" => QualityNext
        /\ subject = "registry" => RegistryNext
        /\ subject = "apply" => ApplyNext
    BY <1>2 DEF BatchNext, FeatureMoves, CalculatorMoves, GateMoves, BundleMoves, ExportMoves,
       StoreMoves, LocalMoves, BootstrapMoves, QualityMoves, RegistryMoves, ApplyMoves
  <2> QED BY <2>2, <2>3
<1> QED BY <1>1, <1>2

(* MCBatchTools runs each component as its own specification has it: what   *)
(* the theorems above say of a component holds beside the others.           *)
THEOREM EachRunsItsOwn ==
  BatchSpec => /\ FeatureSpec /\ CalculatorSpec /\ WarmupSpec /\ BundleSpec /\ ExportSpec
               /\ StoreSpec /\ LocalSpec /\ BootstrapSpec /\ QualitySpec /\ RegistrySpec
               /\ ApplySpec
<1>1. BatchInit => /\ FeatureInit /\ CalculatorInit /\ WarmupInit /\ BundleInit /\ ExportInit
                   /\ StoreInit /\ LocalInit /\ BootstrapInit /\ QualityInit /\ RegistryInit
                   /\ ApplyInit
  BY DEF BatchInit
<1> QED BY <1>1, OneMoves, PTL DEF BatchSpec, FeatureSpec, CalculatorSpec, WarmupSpec,
        BundleSpec, ExportSpec, StoreSpec, LocalSpec, BootstrapSpec, QualitySpec, RegistrySpec,
        ApplySpec

(* Beside the others the series stay intact for one executor, the registry  *)
(* answers once for one writer, the gate, the store, the local catalog and  *)
(* the catalog's commands keep what they promise, and exports are fresh.    *)
THEOREM PromisesKeptTogether ==
  ASSUME OneExecutor, OneWriter
  PROVE  BatchSpec => [](SeriesIntact /\ WritesSound) /\ ExportIsFresh
<1>1. GateSound /\ StoreImmutable /\ RaisesLeaveNothing /\ OneAnswer /\ ApplySound => WritesSound
  BY DEF WritesSound
<1> QED BY <1>1, EachRunsItsOwn, SeriesStayIntact, GateIsSound, StoreStaysImmutable,
        BlocksLeaveWholeFiles, OneAnswerAlways, CommandsSound, ExportsAreFresh, PTL

(* The subject of a behaviour is one of the components.                     *)
LEMMA SubjectStays == BatchSpec => [](subject \in Subject)
<1>1. BatchInit => subject \in Subject
  BY DEF BatchInit
<1>2. subject \in Subject /\ [BatchNext]_batchVars => (subject \in Subject)'
  BY DEF BatchNext, batchVars, OthersRest, FeatureMoves, CalculatorMoves, GateMoves, BundleMoves,
     ExportMoves, StoreMoves, LocalMoves, BootstrapMoves, QualityMoves, RegistryMoves, ApplyMoves
<1> QED BY <1>1, <1>2, PTL DEF BatchSpec

(* Every component of MCBatchTools keeps the types of its variables, for    *)
(* every value of the constants: BatchTypeOK.                               *)
THEOREM BatchToolsTyped == BatchSpec => []BatchTypeOK
<1>1. /\ subject \in Subject /\ FeatureTypeOK /\ CalculatorTypeOK /\ WarmupTypeOK
      /\ BundleTypeOK /\ ExportTypeOK /\ StoreTypeOK /\ LocalTypeOK /\ BootstrapTypeOK
      /\ QualityTypeOK /\ RegistryTypeOK /\ ApplyTypeOK
      => BatchTypeOK
  BY DEF BatchTypeOK, Subject
<1> QED BY <1>1, SubjectStays, EachRunsItsOwn, FeatureTypeCorrect, CalculatorTypeCorrect,
        WarmupTypeCorrect, BundleTypeCorrect, ExportTypeCorrect, StoreTypeCorrect,
        LocalTypeCorrect, BootstrapTypeCorrect, QualityTypeCorrect, RegistryTypeCorrect,
        ApplyTypeCorrect, PTL

(* What is handed over is what the documents it is taken from hold: a warm- *)
(* up bundle, a runtime export and a bootstrapped catalog, beside the       *)
(* others, for every value of the constants (HandedOverSound).              *)
THEOREM HandedOverIsSound ==
  ASSUME OwnRelations
  PROVE  BatchSpec => []HandedOverSound
<1>1. BundleSound /\ EvidenceBacksMapping /\ BootstrapExact => HandedOverSound
  BY DEF HandedOverSound
<1> QED BY <1>1, EachRunsItsOwn, BundleIsSound, EvidenceAlwaysBacks, BootstrapIsExact, PTL

(* What is computed stands: values are final and near the exact ones, and a *)
(* partition's gaps, errors, scopes, derived bars and split are right,      *)
(* beside the others, for every value of the constants (ComputedSound).     *)
THEOREM ComputedIsSound == BatchSpec => []ComputedSound
<1>1. ValuesAreFinal /\ QualitySound => ComputedSound
  BY DEF ComputedSound
<1> QED BY <1>1, EachRunsItsOwn, ValuesStayFinal, QualityStaysSound, PTL
=============================================================================
