--------------------------- MODULE MCPipelineRuns ---------------------------
(* Small instances of PipelineRuns.                                         *)
EXTENDS PipelineRuns, TLC

(* Three sessions of one year and one of the next; the first week crosses  *)
(* a month.                                                                 *)
MCDay == 1 .. 4
MCYearOf == [d \in MCDay |-> IF d = 4 THEN 2 ELSE 1]
MCPeriod == [g \in {"WEEK", "MONTH", "YEAR"} |->
               CASE g = "WEEK" -> {{1, 2}, {3}, {4}}
                 [] g = "MONTH" -> {{1}, {2, 3}, {4}}
                 [] g = "YEAR" -> {{1, 2, 3}, {4}}]

Ask(kind, days, instruments) ==
  [kind |-> kind, days |-> days, instruments |-> instruments,
   contract |-> "native", gran |-> "YEAR", revision |-> 0]
Compact(c, g, days) ==
  [kind |-> "compact", days |-> days, instruments |-> Instrument,
   contract |-> c, gran |-> g, revision |-> 0]

Everything ==
  {Ask("backfill", {1, 2, 3}, Instrument), Ask("migrate", {4}, Instrument),
   Ask("incremental", {2, 3}, Instrument), Ask("derive", {1, 2, 3}, {}),
   [Ask("backfill", {1, 2, 3}, {"A"}) EXCEPT !.revision = 1],
   Compact("native", "MONTH", {2, 3}), Compact("native", "WEEK", {1, 2}),
   Compact("derived", "YEAR", {1, 2, 3})}
Sampled == {Ask("backfill", {4}, Instrument), Ask("backfill", {4}, {"A"})}
Corrected == {Ask("backfill", {1, 2, 3}, {"A"}), Ask("incremental", {3}, {"A"})}
=============================================================================
