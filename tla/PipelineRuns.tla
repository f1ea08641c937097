---------------------------- MODULE PipelineRuns ----------------------------
(***************************************************************************)
(* The commands of MarketPipelineEngine (market_pipeline_lib/engine.py)     *)
(* around publish_dataset: backfill, migrate, incremental with its          *)
(* correction of adjusted prices, derive and compact.  One engine process   *)
(* of one price type, which may die between any two of its steps.           *)
(*                                                                          *)
(* A command                                                                *)
(*   1. detects a revision of the adjusted prices (incremental only), and   *)
(*      then runs a backfill of every retained year first,                  *)
(*   2. starts the run of its idempotency key, or reuses it if SUCCEEDED,   *)
(*   3. fetches its chunks and stages one fragment per chunk and year,      *)
(*   4. publishes its datasets one after the other,                         *)
(*   5. records the run SUCCEEDED or FAILED and answers.                    *)
(* A publication is one step here; DatasetPublication has what happens      *)
(* inside it.  A bar is a day with the vintage of its prices: adjusted      *)
(* prices of every day change when the provider revises them.               *)
(***************************************************************************)
EXTENDS Integers, Sequences, FiniteSets, SequencesExt

CONSTANTS
  Instrument,   \* instruments, each on a shard of its own
  Day, YearOf,  \* trading sessions, in order, and the year of each
  Chunk,        \* the days one provider request spans
  Period,       \* Period[g]: the sets of days that are a WEEK, MONTH or YEAR
  Lookback,     \* sessions compared before an incremental run
  Job,          \* the commands asked for
  Gaps,         \* the sets of sessions an answer of the provider may lack
  Resume,       \* --resume
  MaxVintage, MaxRevision, MaxCommands, MaxFaults  \* bounds

Contract == {"native", "derived"}
Year == {YearOf[d] : d \in Day}
Granularity == {"DAY", "WEEK", "MONTH", "YEAR"}
Rank == [g \in Granularity |-> CASE g = "DAY" -> 0 [] g = "WEEK" -> 1
                                 [] g = "MONTH" -> 2 [] g = "YEAR" -> 3]
Revision == 1 .. MaxRevision
Vintage == 0 .. MaxVintage
Fetching == {"backfill", "migrate", "incremental"}

(* contract and gran matter to compact only; revision is the forced one.    *)
Request == [kind : Fetching \cup {"derive", "compact"}, days : SUBSET Day,
            instruments : SUBSET Instrument, contract : Contract,
            gran : Granularity, revision : Revision \cup {0}]

ASSUME PipelineRunsAssumption ==
  /\ Day \subseteq Nat /\ IsFiniteSet(Day)
  /\ IsFiniteSet(Instrument)
  /\ YearOf \in [Day -> Nat]
  /\ Chunk \subseteq SUBSET Day /\ Day \subseteq UNION Chunk
  /\ Period \in [{"WEEK", "MONTH", "YEAR"} -> SUBSET SUBSET Day]
  /\ Lookback \in Nat /\ MaxVintage \in Nat /\ MaxFaults \in Nat
  /\ MaxCommands \in Nat
  /\ MaxRevision \in Nat \ {0}
  /\ Resume \in BOOLEAN
  /\ Job \subseteq Request
  /\ Gaps \subseteq SUBSET Day

VARIABLES
  vintage,   \* the vintage the provider serves
  run,       \* rows of pipeline_runs, by idempotency key
  staged,    \* fragments in each run's staging directory
  lacking,   \* history: the sessions that answers to each run had no bar of
  manifest,  \* the revisions of each dataset year
  proc,      \* the engine process
  commands,  \* bound: the commands asked so far
  faults     \* bound: deaths, failed fetches and quality errors so far

vars == <<vintage, run, staged, lacking, manifest, proc, commands, faults>>

Bar == Day \X Vintage
Object == [gran : Granularity, days : SUBSET Day, instrument : Instrument,
           bars : SUBSET Bar, rev : Revision]
Dataset == Contract \X Year
Status == {"ABSENT", "AVAILABLE", "QUARANTINED", "SUPERSEDED"}
NoManifest == [status |-> "ABSENT", objects |-> {}]
Frame == [source : Contract, instrument : Instrument, chunk : SUBSET Day,
          vintage : Vintage]
Fragment == [source : Contract, instrument : Instrument, chunk : SUBSET Day,
             year : Year, held : SUBSET Day, vintage : Vintage]
Lack == [source : Contract, instrument : Instrument, chunk : SUBSET Day, day : Day]
NoFrame == [source |-> "native", instrument |-> "none", chunk |-> {}, vintage |-> 0]

(* The key of a run names the span of days, never the instruments.          *)
Key(j) == [j EXCEPT !.instruments = {}]
(* The key of a correction: all days of the retained years, one revision.   *)
DaysIn(years) == {d \in Day : YearOf[d] \in years}
Correction(years, r) ==
  [kind |-> "backfill", days |-> DaysIn(years), instruments |-> Instrument,
   contract |-> "native", gran |-> "YEAR", revision |-> r]
Asked == Job \cup {Correction(ys, r) : ys \in SUBSET Year, r \in Revision}
RunKey == {Key(j) : j \in Asked}

(* A month lies in a year and shares no day with another; compact is asked  *)
(* for one period with a session, never for a DAY.                          *)
ASSUME CalendarAssumption ==
  /\ Period["YEAR"] = {DaysIn({y}) : y \in Year}
  /\ \A m \in Period["MONTH"] : \E y \in Year : m \subseteq DaysIn({y})
  /\ \A m, n \in Period["MONTH"] : m = n \/ m \cap n = {}
  /\ \A j \in Job : j.kind = "compact" =>
       /\ j.gran # "DAY" /\ j.days \in Period[j.gran] \ {{}}
       /\ j.revision = 0

NoJob == [kind |-> "none"]
Process ==
  [phase : {"idle", "asked", "ready", "running"}, job : Asked \cup {NoJob},
   outer : Job \cup {NoJob}, todo : Seq(Frame), frame : Frame \cup {NoFrame},
   held : SUBSET Day, unwritten : SUBSET Year, failed : SUBSET Year,
   plan : Seq(Dataset), ok : BOOLEAN]
Idle == [phase |-> "idle", job |-> NoJob, outer |-> NoJob, todo |-> <<>>,
         frame |-> NoFrame, held |-> {}, unwritten |-> {}, failed |-> {},
         plan |-> <<>>, ok |-> TRUE]

Init ==
  /\ vintage = 0
  /\ run = [k \in RunKey |-> "ABSENT"]
  /\ staged = [k \in RunKey |-> {}]
  /\ lacking = [k \in RunKey |-> {}]
  /\ manifest = [d \in Dataset |-> [r \in Revision |-> NoManifest]]
  /\ proc = Idle
  /\ commands = 0
  /\ faults = 0

-----------------------------------------------------------------------------
(* The catalog's view of a dataset year.                                    *)
Available(m) == {r \in Revision : m[r].status = "AVAILABLE"}
Newest(m) ==
  IF Available(m) = {} THEN 0 ELSE CHOOSE r \in Available(m) : \A q \in Available(m) : q <= r
Listed(m) == IF Newest(m) = 0 THEN {} ELSE m[Newest(m)].objects
Stored(m) == UNION {m[r].objects : r \in Revision}
BarsOf(objects) ==
  UNION {{<<o.instrument, b[1], b[2]>> : b \in o.bars} : o \in objects}
Published(c, y) == BarsOf(Listed(manifest[<<c, y>>]))
Overlapping(objects, days) == {o \in objects : o.days \cap days # {}}

(* publish_dataset: a new object whose key holds other bytes is refused,    *)
(* objects no replace period overlaps are carried forward, and the previous *)
(* revision is superseded last.                                             *)
NextRevision(m, forced) == IF forced # 0 THEN forced ELSE Newest(m) + 1
Clashes(m, o) ==
  \E x \in Stored(m) : /\ x.rev = o.rev /\ x.days = o.days
                       /\ x.instrument = o.instrument /\ x.bars # o.bars
New(m, groups, forced) == {[gran |-> g.gran, days |-> g.days, bars |-> g.bars,
  instrument |-> g.instrument, rev |-> NextRevision(m, forced)] : g \in groups}
Outcome(m, groups, replaced, forced, failed) ==
  LET new == New(m, groups, forced)
      retained == Listed(m) \ Overlapping(Listed(m), replaced)
      put == {o \in new : ~Clashes(m, o)}
  IN [objects |-> retained \cup put,
      status  |-> IF retained \cup put # {} /\ put = new /\ ~failed
                  THEN "AVAILABLE" ELSE "QUARANTINED"]
AfterPublication(m, forced, out) ==
  [r \in Revision |->
     IF r = Newest(m) /\ out.status = "AVAILABLE" THEN [m[r] EXCEPT !.status = "SUPERSEDED"]
     ELSE IF r = NextRevision(m, forced)
       THEN [status |-> out.status, objects |-> m[r].objects \cup out.objects]
     ELSE m[r]]

-----------------------------------------------------------------------------
(* What a command fetches and what it publishes.                            *)
YearsOf(j) == {YearOf[d] : d \in j.days}
Sources(j) == IF j.kind = "migrate" THEN Contract ELSE {"native"}
Requests(j) ==
  IF j.kind \notin Fetching THEN {}
  ELSE {[source |-> s, instrument |-> i, chunk |-> c \cap j.days, vintage |-> 0] :
          s \in Sources(j), i \in j.instruments,
          c \in {x \in Chunk : x \cap j.days # {}}}
YearList(j) ==
  [k \in 1 .. Cardinality(YearsOf(j)) |->
     CHOOSE y \in YearsOf(j) : Cardinality({z \in YearsOf(j) : z < y}) = k - 1]
Plan(j) ==
  LET ys == YearList(j)
      n == Len(ys)
  IN CASE j.kind = "backfill" ->
            [k \in 1 .. 2 * n |-> <<IF k % 2 = 1 THEN "native" ELSE "derived",
                                    ys[(k + 1) \div 2]>>]
       [] j.kind \in {"migrate", "incremental"} ->
            [k \in 1 .. 2 * n |-> <<IF k <= n THEN "native" ELSE "derived",
                                    ys[((k - 1) % n) + 1]>>]
       [] j.kind = "derive" -> [k \in 1 .. n |-> <<"derived", ys[k]>>]
       [] OTHER -> <<<<j.contract, ys[1]>>>>

SourceOf(j, c) == IF j.kind = "migrate" THEN c ELSE "native"
StagedFor(k, c, y) == {f \in staged[k] : f.year = y /\ f.source = SourceOf(k, c)}
StagedBars(k, c, y, i) ==
  UNION {{<<d, f.vintage>> : d \in {x \in f.held : YearOf[x] = y}} :
           f \in {x \in StagedFor(k, c, y) : x.instrument = i}}

Group(g, days, i, bars) == [gran |-> g, days |-> days, instrument |-> i, bars |-> bars]
NonEmpty(groups) == {g \in groups : g.bars # {}}
AnnualGroups(k, c, y) ==
  NonEmpty({Group("YEAR", DaysIn({y}), i, StagedBars(k, c, y, i)) : i \in Instrument})
DailyGroups(k, c, y) ==
  NonEmpty({Group("DAY", {d}, i, {b \in StagedBars(k, c, y, i) : b[1] = d}) :
              d \in {x \in k.days : YearOf[x] = y}, i \in Instrument})
BarsListed(objects, i) == UNION {o.bars : o \in {x \in objects : x.instrument = i}}
DerivedGroups(y) ==
  NonEmpty({Group("YEAR", DaysIn({y}), i, BarsListed(Listed(manifest[<<"native", y>>]), i)) :
              i \in Instrument})

(* A compaction works on one dataset year.                                  *)
Target(j) == manifest[<<j.contract, YearOf[CHOOSE d \in j.days : TRUE]>>]
Inputs(j) ==
  {o \in Overlapping(Listed(Target(j)), j.days) :
     Rank[o.gran] < Rank[j.gran]}
(* Mutant: the end of the period is taken as its last day, exclusive.       *)
CompactGroupsShort(j) ==
  NonEmpty({Group(j.gran, j.days, i,
                  {b \in BarsListed(Inputs(j), i) : \E d \in j.days : b[1] < d}) :
              i \in Instrument})
CompactGroups(j) ==
  NonEmpty({Group(j.gran, j.days, i,
                  {b \in BarsListed(Inputs(j), i) : b[1] \in j.days}) : i \in Instrument})

Groups(j, c, y) ==
  CASE j.kind \in {"backfill", "migrate"} -> AnnualGroups(Key(j), c, y)
    [] j.kind = "incremental" -> DailyGroups(Key(j), c, y)
    [] j.kind = "derive" -> DerivedGroups(y)
    [] j.kind = "compact" -> CompactGroups(j)
Replaced(j, y) ==
  IF j.kind \in {"incremental", "compact"} THEN {d \in j.days : YearOf[d] = y}
  ELSE DaysIn({y})

-----------------------------------------------------------------------------
(* A compaction looks at the newest manifest before it starts a run.        *)
CrossesMonth(j) ==
  j.gran = "WEEK" /\ ~\E mth \in Period["MONTH"] : j.days \subseteq mth
AlreadyCompact(j) ==
  \E o \in Listed(Target(j)) :
    o.gran = j.gran /\ o.days = j.days
Covered(j) == j.days \subseteq UNION {o.days : o \in Inputs(j)}

(* _detect_adjusted_revision compares the published bars of the sessions    *)
(* before the first one with what the provider serves now; a fetch that     *)
(* fails is passed over.                                                    *)
Before(j) == {d \in Day : \E e \in j.days : /\ \A f \in j.days : e <= f
                                            /\ d < e /\ d >= e - Lookback}
Revised(j) ==
  \E d \in Before(j) : \E b \in Published("native", YearOf[d]) :
    b[1] \in j.instruments /\ b[2] = d /\ b[3] # vintage
Retained == {y \in Year : Newest(manifest[<<"native", y>>]) # 0}
NextForced ==
  1 + (CHOOSE r \in Revision : \E y \in Retained :
         /\ r = Newest(manifest[<<"native", y>>])
         /\ \A z \in Retained : Newest(manifest[<<"native", z>>]) <= r)

Start(j) ==
  /\ proc.phase = "idle" /\ commands < MaxCommands
  /\ commands' = commands + 1
  /\ proc' = [Idle EXCEPT !.job = j, !.phase =
                IF j.kind \in {"incremental", "compact"} THEN "asked" ELSE "ready"]
  /\ UNCHANGED <<vintage, run, staged, lacking, manifest, faults>>

(* incremental: the correction runs first, as a backfill of its own.        *)
Detect ==
  /\ proc.phase = "asked" /\ proc.job.kind = "incremental"
  /\ \/ /\ Revised(proc.job) /\ NextForced \in Revision
        /\ proc' = [proc EXCEPT !.phase = "ready", !.outer = proc.job,
                                !.job = Correction(Retained, NextForced)]
        /\ UNCHANGED faults
     \/ /\ ~Revised(proc.job)
        /\ proc' = [proc EXCEPT !.phase = "ready"]
        /\ UNCHANGED faults
     \/ /\ Revised(proc.job) /\ faults < MaxFaults
        /\ proc' = [proc EXCEPT !.phase = "ready"]
        /\ faults' = faults + 1
  /\ UNCHANGED <<vintage, run, staged, lacking, manifest, commands>>

(* Skipped, nothing AVAILABLE to compact, already compact, or quarantined   *)
(* for a missing session: the command ends without a run.                   *)
NotCompactable(j) ==
  CrossesMonth(j) \/ Newest(Target(j)) = 0 \/ AlreadyCompact(j) \/ ~Covered(j)
CheckCompaction ==
  /\ proc.phase = "asked" /\ proc.job.kind = "compact"
  /\ proc' = IF NotCompactable(proc.job) THEN Idle ELSE [proc EXCEPT !.phase = "ready"]
  /\ UNCHANGED <<vintage, run, staged, lacking, manifest, faults, commands>>

(* A finished correction hands over to the command that asked for it, a     *)
(* failed one ends it.                                                      *)
Conclude(succeeded) ==
  proc' = IF succeeded /\ proc.outer # NoJob
          THEN [Idle EXCEPT !.phase = "ready", !.job = proc.outer] ELSE Idle

(* _run_record: a SUCCEEDED run is reused, any other one starts over.       *)
ReuseRun ==
  /\ proc.phase = "ready" /\ run[Key(proc.job)] = "SUCCEEDED"
  /\ Conclude(TRUE)
  /\ UNCHANGED <<vintage, run, staged, lacking, manifest, faults, commands>>
(* Mutant: the run is recorded only when it ends.                           *)
BeginRunUnrecorded ==
  /\ proc.phase = "ready" /\ run[Key(proc.job)] # "SUCCEEDED"
  /\ proc' = [proc EXCEPT !.phase = "running", !.todo = SetToSeq(Requests(proc.job)),
                          !.plan = Plan(proc.job)]
  /\ UNCHANGED <<vintage, run, staged, lacking, manifest, faults, commands>>
BeginRun ==
  /\ proc.phase = "ready" /\ run[Key(proc.job)] # "SUCCEEDED"
  /\ run' = [run EXCEPT ![Key(proc.job)] = "RUNNING"]
  /\ proc' = [proc EXCEPT !.phase = "running", !.todo = SetToSeq(Requests(proc.job)),
                          !.plan = Plan(proc.job)]
  /\ UNCHANGED <<vintage, staged, lacking, manifest, faults, commands>>

-----------------------------------------------------------------------------
(* collect_staging and the file loop of migrate_legacy.                     *)
OfRequest(f, q) == f.source = q.source /\ f.instrument = q.instrument /\ f.chunk = q.chunk
(* Mutant: a fragment of any instrument counts.                             *)
OnDiskAny(q) == \E f \in staged[Key(proc.job)] : f.source = q.source /\ f.chunk = q.chunk
OnDisk(q) == \E f \in staged[Key(proc.job)] : OfRequest(f, q)

(* What answers to a run lack, once a request is answered again.            *)
Relearned(lacks, q, gap) ==
  {a \in lacks : ~OfRequest(a, q)}
    \cup {[source |-> q.source, instrument |-> q.instrument, chunk |-> q.chunk, day |-> d] :
            d \in q.chunk \cap gap}

(* Mutant: a failed fetch is forgotten, as if its answer were empty.        *)
MissedYearsNone(q) == {}
MissedYears(q) == {YearOf[d] : d \in q.chunk}

(* A request is taken over from disk, answered, or fails.  An answer        *)
(* without a bar of a year stages nothing for it, and an empty one stages   *)
(* nothing at all: neither is a failure.  An instrument the incremental run *)
(* passes over as inactive is like one without bars.                        *)
Collect ==
  /\ proc.phase = "running" /\ proc.unwritten = {} /\ proc.todo # <<>>
  /\ LET q == Head(proc.todo)
         taken == Resume /\ OnDisk(q)
     IN \/ /\ taken
           /\ proc' = [proc EXCEPT !.todo = Tail(@)]
           /\ UNCHANGED <<lacking, faults>>
        \/ /\ ~taken
           /\ \E gap \in Gaps :
                /\ proc' = [proc EXCEPT !.todo = Tail(@),
                                        !.frame = [q EXCEPT !.vintage = vintage],
                                        !.held = q.chunk \ gap,
                                        !.unwritten = {YearOf[d] : d \in q.chunk \ gap}]
                /\ lacking' = [lacking EXCEPT ![Key(proc.job)] = Relearned(@, q, gap)]
           /\ UNCHANGED faults
        \/ /\ ~taken /\ faults < MaxFaults
           /\ proc' = [proc EXCEPT !.todo = Tail(@),
                                   !.failed = @ \cup MissedYears(q)]
           /\ faults' = faults + 1
           /\ UNCHANGED lacking
  /\ UNCHANGED <<vintage, run, staged, manifest, commands>>

(* The fragments of one chunk are written year by year.                     *)
SameFile(f, g) == /\ f.source = g.source /\ f.instrument = g.instrument
                  /\ f.chunk = g.chunk /\ f.year = g.year
WriteFragment ==
  /\ proc.phase = "running"
  /\ \E y \in proc.unwritten :
       LET f == [source |-> proc.frame.source, instrument |-> proc.frame.instrument,
                 chunk |-> proc.frame.chunk, year |-> y, held |-> proc.held,
                 vintage |-> proc.frame.vintage]
       IN /\ \A z \in proc.unwritten : y <= z
          /\ staged' = [staged EXCEPT ![Key(proc.job)] =
                          {g \in @ : ~SameFile(f, g)} \cup {f}]
          /\ proc' = [proc EXCEPT !.unwritten = @ \ {y}]
  /\ UNCHANGED <<vintage, run, lacking, manifest, faults, commands>>

(* What is left to publish, once everything is staged.                      *)
Publishing == proc.phase = "running" /\ proc.todo = <<>> /\ proc.unwritten = {}

-----------------------------------------------------------------------------
NoSource(c, y) == c = "derived" /\ Newest(manifest[<<"native", y>>]) = 0

(* One dataset of the plan.  A derive without a native manifest, and a      *)
(* migrated derived dataset without one, count as failed; bad is an ERROR   *)
(* the quality rules find in the new tables.  Failed fetches are incidents  *)
(* of the publications of their years; the files a migration fails to read  *)
(* are not, they only fail its run.                                         *)
PublishNext(bad) ==
  /\ Publishing /\ proc.plan # <<>>
  /\ LET j == proc.job
         c == Head(proc.plan)[1]
         y == Head(proc.plan)[2]
         m == manifest[<<c, y>>]
         failed == \/ bad
                   \/ j.kind # "migrate" /\ y \in proc.failed
                   \/ j.kind = "migrate" /\ NoSource(c, y)
         out == Outcome(m, Groups(j, c, y), Replaced(j, y), j.revision, failed)
     IN /\ ~(j.kind = "derive" /\ NoSource(c, y))
        /\ NextRevision(m, j.revision) \in Revision
        /\ j.revision # 0 => j.revision >= Newest(m)
        /\ manifest' = [manifest EXCEPT ![<<c, y>>] = AfterPublication(m, j.revision, out)]
        /\ proc' = [proc EXCEPT !.plan = Tail(@), !.ok = @ /\ out.status = "AVAILABLE"]
  /\ UNCHANGED <<vintage, run, staged, lacking, commands>>

Publication ==
  \/ PublishNext(FALSE) /\ UNCHANGED faults
  \/ faults < MaxFaults /\ PublishNext(TRUE) /\ faults' = faults + 1

DeriveWithoutSource ==
  /\ Publishing /\ proc.plan # <<>> /\ proc.job.kind = "derive"
  /\ NoSource(Head(proc.plan)[1], Head(proc.plan)[2])
  /\ proc' = [proc EXCEPT !.plan = Tail(@), !.ok = FALSE]
  /\ UNCHANGED <<vintage, run, staged, lacking, manifest, faults, commands>>

(* A forced revision older than the newest one raises out of the command:   *)
(* the run stays RUNNING.                                                   *)
RefuseRevision ==
  /\ Publishing /\ proc.plan # <<>>
  /\ proc.job.revision # 0 /\ proc.job.revision < Newest(manifest[Head(proc.plan)])
  /\ proc' = Idle
  /\ UNCHANGED <<vintage, run, staged, lacking, manifest, faults, commands>>

Succeeded == proc.ok /\ proc.failed = {}
Finish ==
  /\ Publishing /\ proc.plan = <<>>
  /\ run' = [run EXCEPT ![Key(proc.job)] = IF Succeeded THEN "SUCCEEDED" ELSE "FAILED"]
  /\ Conclude(Succeeded)
  /\ UNCHANGED <<vintage, staged, lacking, manifest, faults, commands>>

(* cleanup-staging --execute removes the fragments of a SUCCEEDED run.      *)
CleanStaging(k) ==
  /\ run[k] = "SUCCEEDED" /\ staged[k] # {} /\ proc.phase = "idle"
  /\ staged' = [staged EXCEPT ![k] = {}]
  /\ UNCHANGED <<vintage, run, lacking, manifest, proc, faults, commands>>

Crash ==
  /\ faults < MaxFaults /\ proc.phase # "idle"
  /\ proc' = Idle
  /\ faults' = faults + 1
  /\ UNCHANGED <<vintage, run, staged, lacking, manifest, commands>>

ProviderRevises ==
  /\ vintage < MaxVintage
  /\ vintage' = vintage + 1
  /\ UNCHANGED <<run, staged, lacking, manifest, proc, faults, commands>>

Next ==
  \/ \E j \in Job : Start(j)
  \/ Detect \/ CheckCompaction \/ ReuseRun \/ BeginRun
  \/ Collect \/ WriteFragment
  \/ Publication \/ DeriveWithoutSource \/ RefuseRevision \/ Finish
  \/ \E k \in RunKey : CleanStaging(k)
  \/ Crash \/ ProviderRevises

Spec == Init /\ [][Next]_vars

-----------------------------------------------------------------------------
(* Every variable holds values of its type, a run at work is recorded       *)
(* RUNNING and only a recorded run has fragments.                           *)
TypeOK ==
  /\ vintage \in Vintage
  /\ run \in [RunKey -> {"ABSENT", "RUNNING", "SUCCEEDED", "FAILED"}]
  /\ staged \in [RunKey -> SUBSET Fragment]
  /\ lacking \in [RunKey -> SUBSET Lack]
  /\ manifest \in [Dataset -> [Revision -> [status : Status, objects : SUBSET Object]]]
  /\ proc \in Process
  /\ proc.phase # "idle" => proc.job # NoJob
  /\ proc.phase = "running" => run[Key(proc.job)] = "RUNNING"
  /\ \A k \in RunKey : staged[k] # {} => run[k] # "ABSENT"
  /\ commands \in 0 .. MaxCommands /\ faults \in 0 .. MaxFaults

(* A collecting run that is recorded SUCCEEDED has published, in every      *)
(* dataset of its plan, a bar of every instrument and session it was asked  *)
(* for, except those the answer to its request had no bar of, whatever      *)
(* attempts of the same run staged before.  A correction, whose revision is *)
(* forced, does not promise it (KeepsRevision).                             *)
Lacked(j, c, i, d) ==
  \E a \in lacking[Key(j)] : a.source = SourceOf(j, c) /\ a.instrument = i /\ a.day = d
RunComplete ==
  [][Finish /\ Succeeded /\ proc.job.kind \in Fetching /\ proc.job.revision = 0 =>
       \A c \in Contract, i \in proc.job.instruments, d \in proc.job.days :
         \/ Lacked(proc.job, c, i, d)
         \/ \E b \in Published(c, YearOf[d]) : b[1] = i /\ b[2] = d]_vars

(* A compaction changes no bar of its dataset, if no QUARANTINED attempt    *)
(* left rows under the revision it reads (objects of two granularities meet *)
(* there) or under the one it publishes.                                    *)
Overlap(objects) ==
  \E o, x \in objects : o.gran # x.gran /\ o.days \cap x.days # {}
Clean(m) == ~Overlap(Listed(m)) /\ m[NextRevision(m, 0)].objects = {}
CompactionPreserves ==
  [][Publication /\ proc.job.kind = "compact" /\ Clean(Target(proc.job)) =>
       \A c \in Contract, y \in Year : Published(c, y)' = Published(c, y)]_vars

(* An incremental publication takes from a dataset only bars of its own     *)
(* sessions (publish_dataset: "carry every object the new revision does not *)
(* replace forward").                                                       *)
DailyKeepsOtherDays ==
  [][Publication /\ proc.job.kind = "incremental" =>
       \A c \in Contract, y \in Year : \A b \in Published(c, y) :
         b[2] \in proc.job.days \/ b \in Published(c, y)']_vars

(* A command answered SUCCEEDED has left bars of every instrument and day   *)
(* it named in the native dataset.                                          *)
RequestServed ==
  [][(ReuseRun \/ (Finish /\ Succeeded)) /\ proc.job.kind \in Fetching =>
         \A i \in proc.job.instruments, d \in proc.job.days :
           \E b \in Published("native", YearOf[d]) : b[1] = i /\ b[2] = d]_vars

(* A dataset year with an AVAILABLE revision has one from then on.          *)
KeepsRevision ==
  [][\A d \in Dataset : Newest(manifest[d]) # 0 => Newest(manifest'[d]) # 0]_vars
=============================================================================
