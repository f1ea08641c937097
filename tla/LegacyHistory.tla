---------------------------- MODULE LegacyHistory ----------------------------
(***************************************************************************)
(* The legacy long-term collector: daily_pipeline.run_collection over one   *)
(* symbol's adjusted files (collect_sip_long_term.update_symbol_data), with *)
(* the checkpoint of pipeline_state, the inactive-symbol cache and the      *)
(* report status.  A file holds sessions: every fetch starts at a session   *)
(* open, so the bars of a session are replaced together.                    *)
(* The provider adjusts all earlier prices when an ex-date's session closes *)
(* and answers a range in chunks, one request each.  A crash loses the run, *)
(* never a file: each is replaced atomically.                               *)
(***************************************************************************)
EXTENDS Integers, FiniteSets, Sequences, FiniteSetsExt

CONSTANTS
  OutputIntervals,   \* OUTPUT_INTERVALS, a sequence
  WindowSessions,    \* HISTORY_YEARS
  RefreshSessions,   \* ADJUSTED_REFRESH_SESSIONS
  ChunkSessions,     \* DEFAULT_CHUNK_DAYS
  StaleSessions,     \* STALE_SYMBOL_DAYS
  CacheSessions,     \* INACTIVE_CACHE_TTL_DAYS
  MaxSymbolAttempts, \* MAX_SYMBOL_ATTEMPTS
  MaxSession, MaxExDates, MaxLegacyFaults  \* bounds

Interval == DOMAIN OutputIntervals
LegacySession == 1 .. MaxSession
ASSUME LegacyAssumption ==
  /\ OutputIntervals \in Seq(STRING) \ {<<>>}
  /\ {WindowSessions, RefreshSessions, ChunkSessions, StaleSessions, MaxSymbolAttempts,
      MaxSession} \subseteq Nat \ {0}
  /\ {CacheSessions, MaxExDates, MaxLegacyFaults} \subseteq Nat

VARIABLES
  now,        \* the latest completed session
  listed,     \* the provider's asset status
  traded, exdates,  \* sessions with bars; sessions at which history was adjusted
  outputs,    \* [interval -> [session -> price seen there, 0 is none]]
  checkpoint, \* the symbol's checkpoint
  inactive,   \* the inactive-symbol cache entry
  collecting, \* the run
  report,     \* last_run.status
  torn,       \* some fetched range saw an adjustment between two of its chunks
  failures

provider == <<now, listed, traded, exdates>>
legacyVars == <<provider, outputs, checkpoint, inactive, collecting, report, torn, failures>>

NoBars == [s \in LegacySession |-> 0]
NotMarked == [status |-> "none", target |-> 0, inactive |-> FALSE]
NotCached == [last |-> 0, checked |-> 0]
NotRunning == [phase |-> "idle", attempt |-> 0, target |-> 0, from |-> 0, at |-> 0,
               known |-> 0, got |-> NoBars, todo |-> 0]

LegacyInit ==
  /\ now = 1 /\ listed = TRUE /\ traded = {1} /\ exdates = {}
  /\ outputs = [i \in Interval |-> NoBars]
  /\ checkpoint = NotMarked /\ inactive = NotCached /\ collecting = NotRunning
  /\ report = "none" /\ torn = FALSE /\ failures = 0

(* What a session's bars cost once the ex-dates up to n are applied.        *)
PriceSeen(s, n) == 1 + Cardinality({e \in exdates : s < e /\ e <= n})
Offered(s) == IF s \in traded THEN PriceSeen(s, now) ELSE 0

SessionCloses(ex) ==
  /\ now < MaxSession /\ now' = now + 1
  /\ traded' = IF listed THEN traded \cup {now + 1} ELSE traded
  /\ ex => Cardinality(exdates) < MaxExDates
  /\ exdates' = IF ex THEN exdates \cup {now + 1} ELSE exdates
  /\ UNCHANGED <<listed, outputs, checkpoint, inactive, collecting, report, torn, failures>>

ListingChanges ==
  /\ listed' = ~listed
  /\ UNCHANGED <<now, traded, exdates, outputs, checkpoint, inactive, collecting, report, torn, failures>>

LegacyFault == failures < MaxLegacyFaults /\ failures' = failures + 1
Doing(p) == collecting.phase = p
Phase(p) == collecting' = [collecting EXCEPT !.phase = p]

-----------------------------------------------------------------------------
(* What an update works with: the files trimmed to the window.              *)
WindowStart(t) == Max({1, t - WindowSessions + 1})
Trimmed(f, t) == [s \in LegacySession |-> IF s \in WindowStart(t) .. t THEN f[s] ELSE 0]
Stored(f) == {s \in LegacySession : f[s] # 0}
Existing(i) == Trimmed(outputs[i], collecting.target)
LatestStored(i) == Max(Stored(Existing(i)))

(* Mutant: the fetch starts at the newest file instead of the oldest.       *)
IncrementalFromNewest ==
  IF \E i \in Interval : Stored(Existing(i)) = {} THEN WindowStart(collecting.target)
  ELSE Max({LatestStored(i) : i \in Interval})

IncrementalFetchStart ==
  IF \E i \in Interval : Stored(Existing(i)) = {} THEN WindowStart(collecting.target)
  ELSE Min({LatestStored(i) : i \in Interval})

FetchStart ==
  Max({WindowStart(collecting.target),
       Min({IncrementalFetchStart, collecting.target - RefreshSessions + 1})})

(* earliest_changed_timestamp over the price columns of one interval.       *)
PriceChanged(i) ==
  \E s \in Stored(Existing(i)) \cap Stored(collecting.got) : Existing(i)[s] # collecting.got[s]

(* Mutant: only the first interval's prices are compared.                   *)
FirstRevised == PriceChanged(1)

AdjustedRevision == \E i \in Interval : PriceChanged(i)

Merged(i) ==
  Trimmed([s \in LegacySession |-> IF collecting.got[s] # 0 THEN collecting.got[s] ELSE outputs[i][s]],
          collecting.target)

-----------------------------------------------------------------------------
(* is_complete_outputs: the checkpoint of this target, and every file.      *)
Complete(t) ==
  /\ \A i \in Interval : Stored(outputs[i]) # {}
  /\ checkpoint.status = "success" /\ checkpoint.target = t

StartCollecting ==
  /\ Doing("idle")
  /\ collecting' = [NotRunning EXCEPT !.phase = "checking", !.attempt = 1, !.target = now]
  /\ report' = "running"
  /\ UNCHANGED <<provider, outputs, checkpoint, inactive, torn, failures>>

SkipComplete ==
  /\ Doing("checking") /\ Complete(collecting.target)
  /\ Phase("validating")
  /\ UNCHANGED <<provider, outputs, checkpoint, inactive, report, torn, failures>>

(* should_skip_inactive_symbol                                              *)
LatestBar == Max({LatestStored(i) : i \in {j \in Interval : Stored(Existing(j)) # {}}})
Stale ==
  /\ \E i \in Interval : Stored(Existing(i)) # {}
  /\ collecting.target - LatestBar >= StaleSessions
FreshInactive ==
  /\ inactive # NotCached /\ LatestBar <= inactive.last
  /\ collecting.target - inactive.checked \in 0 .. CacheSessions

MarkStage(status, skipped) ==
  checkpoint' = [status |-> status, target |-> collecting.target, inactive |-> skipped]

SkipInactive ==
  /\ Doing("checking") /\ ~Complete(collecting.target) /\ Stale
  /\ \/ FreshInactive /\ UNCHANGED inactive
     \/ ~FreshInactive /\ ~listed
        /\ inactive' = [last |-> LatestBar, checked |-> collecting.target]
  /\ MarkStage("success", TRUE)
  /\ Phase("validating")
  /\ UNCHANGED <<provider, outputs, report, torn, failures>>

(* The asset is active, its status is unknown, or nothing looks stale.      *)
BeginFetch(from) ==
  collecting' = [collecting EXCEPT !.phase = "fetching", !.from = from, !.at = from, !.got = NoBars]

FetchSymbol ==
  /\ Doing("checking") /\ ~Complete(collecting.target)
  /\ IF Stale THEN /\ ~FreshInactive
                   /\ inactive' \in {inactive} \cup (IF listed THEN {NotCached} ELSE {})
     ELSE UNCHANGED inactive
  /\ BeginFetch(FetchStart)
  /\ UNCHANGED <<provider, outputs, checkpoint, report, torn, failures>>

(* One request of fetch_range.                                              *)
FetchChunk ==
  LET last == Min({collecting.at + ChunkSessions - 1, collecting.target})
      seen == IF collecting.at = collecting.from THEN Cardinality(exdates) ELSE collecting.known
  IN /\ Doing("fetching") /\ collecting.at <= collecting.target
     /\ collecting' = [collecting EXCEPT !.at = last + 1, !.known = seen,
          !.got = [s \in LegacySession |-> IF s \in collecting.at .. last THEN Offered(s) ELSE @[s]]]
     /\ torn' = (torn \/ seen # Cardinality(exdates))
     /\ UNCHANGED <<provider, outputs, checkpoint, inactive, report, failures>>

(* The symbol's update failed: the next round of run_collection, or none.   *)
UpdateFails ==
  /\ MarkStage("failed", FALSE)
  /\ IF collecting.attempt < MaxSymbolAttempts
     THEN collecting' = [collecting EXCEPT !.phase = "checking", !.attempt = @ + 1]
     ELSE Phase("validating")

RequestFails ==
  /\ Doing("fetching") /\ collecting.at <= collecting.target /\ LegacyFault
  /\ UpdateFails
  /\ UNCHANGED <<provider, outputs, inactive, report, torn>>

(* Nothing fetched and nothing stored fails; a changed price in the overlap *)
(* fetches the whole window once more.                                      *)
Compare ==
  /\ Doing("fetching") /\ collecting.at > collecting.target
  /\ LET nothing == Stored(collecting.got) = {}
         start == WindowStart(collecting.target)
     IN IF \/ nothing /\ \A i \in Interval : Stored(Existing(i)) = {}
           \/ \E i \in Interval : Stored(Merged(i)) = {} THEN UpdateFails
        ELSE /\ IF AdjustedRevision /\ collecting.from > start THEN BeginFetch(start)
                ELSE collecting' = [collecting EXCEPT !.phase = "saving", !.todo = 1]
             /\ UNCHANGED checkpoint
  /\ UNCHANGED <<provider, outputs, inactive, report, torn, failures>>

SaveInterval ==
  /\ Doing("saving") /\ collecting.todo \in Interval
  /\ outputs' = [outputs EXCEPT ![collecting.todo] = Merged(collecting.todo)]
  /\ collecting' = [collecting EXCEPT !.todo = @ + 1]
  /\ UNCHANGED <<provider, checkpoint, inactive, report, torn, failures>>

UpdateSucceeds ==
  /\ Doing("saving") /\ collecting.todo \notin Interval
  /\ MarkStage("success", FALSE)
  /\ Phase("validating")
  /\ UNCHANGED <<provider, outputs, inactive, report, torn, failures>>

(* run_validation and finish_run                                            *)
FinishRun ==
  /\ Doing("validating")
  /\ report' = IF checkpoint.status = "success" /\ \A i \in Interval : Stored(outputs[i]) # {}
               THEN "success" ELSE "failed"
  /\ collecting' = NotRunning
  /\ UNCHANGED <<provider, outputs, checkpoint, inactive, torn, failures>>

CollectorDies ==
  /\ ~Doing("idle") /\ LegacyFault
  /\ collecting' = NotRunning
  /\ UNCHANGED <<provider, outputs, checkpoint, inactive, report, torn>>

LegacyNext ==
  \/ \E ex \in BOOLEAN : SessionCloses(ex)
  \/ ListingChanges \/ StartCollecting \/ SkipComplete \/ SkipInactive \/ FetchSymbol
  \/ FetchChunk \/ RequestFails \/ Compare \/ SaveInterval \/ UpdateSucceeds \/ FinishRun
  \/ CollectorDies
LegacySpec == LegacyInit /\ [][LegacyNext]_legacyVars

-----------------------------------------------------------------------------
(* Every variable holds values of its type.                                 *)
LegacyTypeOK ==
  /\ now \in LegacySession /\ {listed, torn} \subseteq BOOLEAN /\ traded \cup exdates \subseteq LegacySession
  /\ outputs \in [Interval -> [LegacySession -> Nat]]
  /\ checkpoint.status \in {"none", "success", "failed"} /\ checkpoint.target \in 0 .. MaxSession
  /\ inactive.last \in 0 .. MaxSession
  /\ collecting.phase \in {"idle", "checking", "fetching", "saving", "validating"}
  /\ report \in {"none", "running", "success", "failed"} /\ failures \in Nat

(* The checkpoint tells the truth: once it says success for a session, and  *)
(* the symbol was not skipped as inactive, every file of the symbol holds   *)
(* every traded session still in the window, all adjusted as of one moment  *)
(* no earlier than that session -- through request failures, crashes        *)
(* between two files, adjustments between runs, delistings and relistings.  *)
(* The one exception is an adjustment between two chunks of one range.      *)
AsOf(i, n) ==
  \A s \in Stored(outputs[i]) : s <= checkpoint.target => outputs[i][s] = PriceSeen(s, n)
HistoryCurrent ==
  checkpoint.status = "success" /\ ~checkpoint.inactive /\ ~torn /\ Doing("idle") =>
    \A i \in Interval :
      /\ traded \cap (WindowStart(now) .. checkpoint.target) \subseteq Stored(outputs[i])
      /\ \E n \in checkpoint.target .. now : AsOf(i, n)
=============================================================================
