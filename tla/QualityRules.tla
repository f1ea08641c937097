----------------------------- MODULE QualityRules -----------------------------
(***************************************************************************)
(* The quality detectors (quality.py, processing.py) over one instrument's  *)
(* bars of a partition, delivered row by row: what they report, the scope   *)
(* an incident gets, the derived bars and their own checks, the split of a  *)
(* large table.  Time is a bar index; a day has DaySlots of them and a      *)
(* session, when it has one, runs from SessionOpen to SessionClose.  What   *)
(* makes a price or a volume wrong is a property of the row; thresholds are *)
(* left out.                                                                *)
(***************************************************************************)
EXTENDS Integers, FiniteSets, Sequences, FiniteSetsExt, SequencesExt

CONSTANTS
  DaySlots, SessionOpen,
  SessionClose,                  \* [day -> close, 0 on a day without session]
  PartitionFrom, PartitionTo,    \* days, the second exclusive
  BarRow,                        \* the rows a provider may deliver
  BinSlots,                      \* base bars in a derived bar
  MaxPartRows,                   \* max_rows
  MaxBarRows                     \* bound

ASSUME QualityAssumption ==
  /\ {DaySlots, BinSlots, MaxPartRows} \subseteq Nat \ {0}
  /\ {SessionOpen, PartitionFrom, PartitionTo, MaxBarRows} \subseteq Nat
  /\ PartitionFrom < PartitionTo
  /\ BarRow \subseteq [at : Nat, date : Nat, kind : {"ok", "invalid", "unusual"}]
  /\ DOMAIN SessionClose \subseteq Nat \ {0}
  /\ \A d \in DOMAIN SessionClose : SessionClose[d] \in 0 .. DaySlots

VARIABLES barRows   \* the table, in delivery order
qualityVars == <<barRows>>

QualityInit == barRows = <<>>
Deliver(r) == Len(barRows) < MaxBarRows /\ barRows' = Append(barRows, r)
QualityNext == \E r \in BarRow : Deliver(r)
QualitySpec == QualityInit /\ [][QualityNext]_qualityVars

-----------------------------------------------------------------------------
(* The session calendar.                                                    *)
DayOf(t) == t \div DaySlots + 1
DayStart(d) == (d - 1) * DaySlots
SessionBars(d) ==
  IF d \in DOMAIN SessionClose
  THEN (DayStart(d) + SessionOpen) .. (DayStart(d) + SessionClose[d] - 1) ELSE {}

Positions == DOMAIN barRows
Stamps(I) == {barRows[k].at : k \in I}
Ascending(T) ==
  [k \in 1 .. Cardinality(T) |-> CHOOSE t \in T : Cardinality({u \in T : u < t}) = k - 1]

Observed == Stamps(Positions)
ExpectedBars ==
  LET first == Min(Observed) last == Max(Observed)
  IN {t \in UNION {SessionBars(d) : d \in DayOf(first) .. DayOf(last)} : first <= t /\ t <= last}
MissingBars == IF Cardinality(Observed) < 2 THEN {} ELSE ExpectedBars \ Observed

(* Mutant: a gap runs on over delivered bars and into the next session.     *)
JoinedAcross(prev, t) == TRUE

(* _gap_boundaries: adjacent missing bars of one session.                   *)
Joined(prev, t) == DayOf(prev) = DayOf(t) /\ t - prev = 1

(* A scan in time order; a run is its first bar and its exclusive end.      *)
ScanStep(runs, t, joins) ==
  IF joins THEN [runs EXCEPT ![Len(runs)].to = t + 1]
  ELSE Append(runs, [from |-> t, to |-> t + 1])
Gaps(T) ==
  FoldLeft(LAMBDA runs, t : ScanStep(runs, t, runs # <<>> /\ Joined(Last(runs).to - 1, t)),
           <<>>, Ascending(T))

(* _contiguous_spans: equal or one bar apart, whatever the session.         *)
Adjacent(prev, t) == t - prev = 1
Spans(T) ==
  FoldLeft(LAMBDA runs, t : ScanStep(runs, t, runs # <<>> /\ Adjacent(Last(runs).to - 1, t)),
           <<>>, Ascending(T))

-----------------------------------------------------------------------------
(* The findings, each with the period and the rows it is about.             *)
BarFinding(code, run, I) ==
  [code |-> code, breadth |-> "BAR_RANGE", from |-> run.from, to |-> run.to,
   count |-> Cardinality({k \in I : barRows[k].at \in run.from .. run.to - 1})]
RowFindings(code, I) ==
  LET runs == Spans(Stamps(I)) IN {BarFinding(code, runs[k], I) : k \in DOMAIN runs}

Duplicates == {k \in Positions : \E j \in Positions \ {k} : barRows[j].at = barRows[k].at}
Invalid == {k \in Positions : barRows[k].kind = "invalid"}
Unusual == {k \in Positions : barRows[k].kind = "unusual"}
Misdated == {k \in Positions : barRows[k].date # DayOf(barRows[k].at)}
Outside == {k \in Positions : barRows[k].date \notin PartitionFrom .. PartitionTo - 1}

OutOfOrder ==
  {[code |-> "OUT_OF_ORDER_BARS", breadth |-> "BAR_RANGE", from |-> barRows[k].at,
    to |-> barRows[k - 1].at + 1, count |-> 2] : k \in {j \in 2 .. Len(barRows) : barRows[j].at < barRows[j - 1].at}}

Missing == LET gaps == Gaps(MissingBars)
           IN {[code |-> "MISSING_BARS", breadth |-> "BAR_RANGE", from |-> gaps[k].from,
                to |-> gaps[k].to, count |-> gaps[k].to - gaps[k].from] : k \in DOMAIN gaps}

NoPeriod == [from |-> -1, to |-> -1]
Boundary ==
  IF Outside = {} THEN {}
  ELSE {[code |-> "PARTITION_BOUNDARY_VIOLATION", breadth |-> "PARTITION",
         from |-> -1, to |-> -1, count |-> Cardinality(Outside)]}

QualityFindings ==
  RowFindings("DUPLICATE_BAR", Duplicates) \cup OutOfOrder \cup RowFindings("INVALID_PRICE", Invalid)
  \cup RowFindings("UNUSUAL", Unusual) \cup RowFindings("SESSION_DATE_ET_MISMATCH", Misdated)
  \cup Boundary \cup Missing

-----------------------------------------------------------------------------
(* Finding.with_scope: the period is clamped to the partition.              *)
Lower == DayStart(PartitionFrom)
Upper == DayStart(PartitionTo)

(* Mutant: the end of the period is not clamped.                            *)
ClampedToStart(f) == [from |-> Max({f.from, Lower}), to |-> f.to]

Clamped(f) == [from |-> Max({f.from, Lower}), to |-> Min({f.to, Upper})]
WithScope(f) ==
  LET whole == [from |-> Lower, to |-> Upper]
      c == IF f.from = -1 THEN whole ELSE Clamped(f)
      p == IF c.to <= c.from THEN whole ELSE c
      b == IF c.to <= c.from THEN "PARTITION" ELSE f.breadth
  IN [code |-> f.code, breadth |-> b, from |-> p.from, to |-> p.to,
      instrument |-> b = "BAR_RANGE",
      count |-> IF b = "BAR_RANGE" THEN Max({1, f.count}) ELSE f.count]

(* What ImpactScope.__post_init__ accepts.                                  *)
ScopeAccepted(s) ==
  /\ s.from < s.to /\ s.count >= 0
  /\ s.breadth = "BAR_RANGE" => s.instrument /\ s.count >= 1
  /\ s.breadth = "PARTITION" => ~s.instrument
  /\ Lower <= s.from /\ s.to <= Upper

(* row_id: the dimensions an upsert merges on.                              *)
RowId(s) == <<s.code, s.breadth, s.instrument, s.from, s.to>>

-----------------------------------------------------------------------------
(* derive_regular_bars on one session, and the checks of a derived bar; its *)
(* source has no duplicates, normalize_provider_frame drops them.  A daily  *)
(* bar has one bucket, the session, which its maximum never cuts.           *)
BinOf(t, daily) ==
  IF daily THEN 0 ELSE (t - (DayStart(DayOf(t)) + SessionOpen)) \div BinSlots
Regular(d) == Observed \cap SessionBars(d)
DerivedBars ==
  UNION {{LET bucket == {t \in Regular(d) : BinOf(t, daily) = b}
          IN [daily |-> daily, day |-> d, bin |-> b, at |-> Min(bucket),
              source |-> Cardinality(bucket)]
            : b \in {BinOf(t, daily) : t \in Regular(d)}} :
           d \in DOMAIN SessionClose, daily \in BOOLEAN}

SessionEnd(d) == DayStart(d) + SessionClose[d]
InvalidSource(b) ==
  LET session == Cardinality(SessionBars(b.day))
  IN b.source <= 0 \/ b.source > IF b.daily THEN session ELSE Min({BinSlots, session})

(* Mutant: a daily bar, too, is expected to hold what remains of the session.*)
RemainingOnly(b) == b.source < SessionEnd(b.day) - b.at /\ (b.daily \/ b.source < BinSlots)

(* A daily bar needs the whole session, another what remains of it.         *)
MissingSource(b) ==
  b.source < IF b.daily THEN Cardinality(SessionBars(b.day))
             ELSE Min({BinSlots, SessionEnd(b.day) - b.at})

-----------------------------------------------------------------------------
(* split_table_by_time: parts of whole timestamps, in time order.           *)
RowsAt(t) == {k \in Positions : barRows[k].at = t}
SplitStep(parts, t) ==
  LET part == Last(parts)
  IN IF part # {} /\ Cardinality(part) + Cardinality(RowsAt(t)) > MaxPartRows
     THEN Append(parts, RowsAt(t))
     ELSE [parts EXCEPT ![Len(parts)] = part \cup RowsAt(t)]
SplitByTime ==
  IF Len(barRows) <= MaxPartRows THEN <<Positions>>
  ELSE FoldLeft(SplitStep, <<{}>>, Ascending(Observed))

-----------------------------------------------------------------------------
(* Every variable holds values of its type.                                 *)
QualityTypeOK == barRows \in Seq(BarRow) /\ Len(barRows) <= MaxBarRows

(* Every missing bar of a session between the first and the last delivered  *)
(* one is reported, once; nothing delivered is; no gap spans two sessions.  *)
GapsExact ==
  /\ \A f \in Missing : (f.from .. f.to - 1) \subseteq SessionBars(DayOf(f.from))
  /\ UNION {f.from .. f.to - 1 : f \in Missing} = MissingBars
  /\ \A f, g \in Missing : f # g => f.to < g.from \/ g.to < f.from
                                    \/ DayOf(f.from) # DayOf(g.from)

(* Rows in error are covered by findings that cover no other delivered      *)
(* rows than theirs, counted row by row.                                    *)
RunsExact ==
  \A I \in {Duplicates, Invalid, Unusual, Misdated} :
    LET found == RowFindings("", I)
    IN /\ UNION {f.from .. f.to - 1 : f \in found} = Stamps(I)
       /\ FoldSet(LAMBDA f, n : n + f.count, 0, found) = Cardinality(I)

(* No finding of any table fails to become an incident, none claims more    *)
(* than its own period unless that lies outside the partition, and two      *)
(* findings that differ in code or in place never merge into one row.       *)
ScopesSound ==
  \A f \in QualityFindings :
    LET s == WithScope(f)
    IN /\ ScopeAccepted(s)
       /\ s.breadth = "BAR_RANGE" => f.from <= s.from /\ s.to <= f.to
       /\ \A g \in QualityFindings : RowId(WithScope(g)) = RowId(s) =>
            g.code = f.code /\ (s.breadth = "BAR_RANGE" => Clamped(f) = Clamped(g))

(* A derived bar never counts more source bars than it may, and one whose   *)
(* bucket is short of its session's bars is reported, unless only the head  *)
(* of the session's last bucket is missing and the bar is not daily.        *)
DerivedSound ==
  \A b \in DerivedBars :
    LET full == {t \in SessionBars(b.day) : BinOf(t, b.daily) = b.bin}
    IN /\ ~InvalidSource(b) /\ b.source <= Cardinality(full)
       /\ (b.source < Cardinality(full)
           /\ (b.daily \/ b.at = Min(full) \/ SessionEnd(b.day) - 1 \notin full))
            => MissingSource(b)
       /\ b.source = Cardinality(full) => ~MissingSource(b)

(* The parts are the table, no timestamp is in two of them, and a part too  *)
(* large holds one timestamp.                                               *)
SplitSound ==
  LET parts == SplitByTime
  IN /\ UNION {parts[k] : k \in DOMAIN parts} = Positions
     /\ \A j, k \in DOMAIN parts : j < k =>
          \A s \in Stamps(parts[j]), t \in Stamps(parts[k]) : s < t
     /\ \A k \in DOMAIN parts :
          Cardinality(parts[k]) > MaxPartRows => Cardinality(Stamps(parts[k])) = 1

(* The reports of a partition: its gaps, its rows in error, the scopes they *)
(* are recorded with, its derived bars and its split.                       *)
QualitySound == GapsExact /\ RunsExact /\ ScopesSound /\ DerivedSound /\ SplitSound
=============================================================================
