--------------------------- MODULE LegacyDerivation ---------------------------
(***************************************************************************)
(* The incremental derivations of the legacy files: the one-minute file of  *)
(* a symbol, its gap repair (quality_control.py), the regular-session file  *)
(* (filter_regular_session.py) and the bars resampled from it               *)
(* (resample_sip_5min.py).  A derivation keeps what precedes a session and  *)
(* recomputes the rest; its caller hands it the earliest change.  Time is a *)
(* minute; a day has DayMinutes of them, the session OpenMinute up to       *)
(* CloseMinute.  A resampled bar's columns stand as the rows they           *)
(* aggregate.                                                               *)
(***************************************************************************)
EXTENDS Integers, FiniteSets, FiniteSetsExt

CONSTANTS
  DayMinutes, OpenMinute, CloseMinute,
  BarMinutes,       \* of a resampled bar
  RowValue, Zero,   \* what a row says; Zero is a row without volume
  MaxMinute, MaxCorrections   \* bounds

ASSUME DerivationAssumption ==
  /\ {DayMinutes, BarMinutes, MaxMinute} \subseteq Nat \ {0}
  /\ {OpenMinute, MaxCorrections} \subseteq Nat
  /\ CloseMinute \in OpenMinute + 1 .. DayMinutes
  /\ Zero \in RowValue

VARIABLES
  source,           \* the one-minute file
  minute,           \* the first minute not collected yet
  from,             \* the start of the collection window
  filtered, resampled,   \* the derived files
  changedSource, changedFiltered,   \* the earliest change each derivation is still to be told of
  unreported,       \* a repair replaced a row and told of later sessions only
  corrections

derivationVars == <<source, minute, from, filtered, resampled, changedSource, changedFiltered,
                    unreported, corrections>>

Unchanged == MaxMinute   \* no change to tell of: recompute_from is None
Rows == [at : 0 .. MaxMinute - 1, value : RowValue]
Times(file) == {r.at : r \in file}
Earliest(T) == Min(T \cup {Unchanged})

DerivationInit ==
  /\ source = {} /\ minute = 0 /\ from = 0
  /\ filtered = {} /\ resampled = {}
  /\ changedSource = Unchanged /\ changedFiltered = Unchanged
  /\ unreported = FALSE /\ corrections = 0

-----------------------------------------------------------------------------
(* The exchange calendar.                                                   *)
OpenOf(t) == t - (t % DayMinutes) + OpenMinute
InSession(t) == OpenOf(t) <= t /\ t < OpenOf(t) - OpenMinute + CloseMinute

Sliced(file) == {r \in file : r.at >= from}

(* filter_regular_session: rows inside a session that traded.               *)
FilterRegularSession(file) == {r \in file : InSession(r.at) /\ r.value # Zero}

(* resample_sip_bars: buckets from the session's open, labelled at their    *)
(* left edge; a bucket without rows has no bar.                             *)
BarOf(t) == OpenOf(t) + ((t - OpenOf(t)) \div BarMinutes) * BarMinutes
ResampleBars(file) ==
  {[at |-> b, value |-> {r \in file : BarOf(r.at) = b}] : b \in {BarOf(r.at) : r \in file}}

(* Mutant: the earliest change is not looked at.                            *)
LastSessionOnly(existing, changed) == OpenOf(Max(Times(existing)))

(* The last session of the existing output, or the session of the change.   *)
RecomputeStart(existing, changed) ==
  LET last == OpenOf(Max(Times(existing)))
  IN IF changed = Unchanged THEN last ELSE Min({last, OpenOf(changed)})

(* The rows of the existing output that stay, and those of the input that   *)
(* are derived again.                                                       *)
Retained(existing, changed) == {r \in existing : r.at < RecomputeStart(existing, changed)}
Due(input, existing, changed) ==
  {r \in Sliced(input) : existing = {} \/ r.at >= RecomputeStart(existing, changed)}

Refiltered ==
  LET existing == Sliced(filtered)
  IN Sliced(Retained(existing, changedSource)
            \cup FilterRegularSession(Due(source, existing, changedSource)))
Resampled ==
  LET existing == Sliced(resampled)
  IN Sliced(Retained(existing, changedFiltered)
            \cup ResampleBars(Due(filtered, existing, changedFiltered)))

ProcessFile ==
  /\ filtered' = Refiltered
  /\ changedFiltered' = Min({changedFiltered, changedSource})
  /\ changedSource' = Unchanged
  /\ UNCHANGED <<source, minute, from, resampled, unreported, corrections>>

ProcessResampleFile ==
  /\ resampled' = Resampled
  /\ changedFiltered' = Unchanged
  /\ UNCHANGED <<source, minute, from, filtered, changedSource, unreported, corrections>>

(* process_source, process_resample_source: the whole file again.           *)
ProcessSource ==
  /\ filtered' = FilterRegularSession(source)
  /\ changedFiltered' = Min({changedFiltered, changedSource})
  /\ changedSource' = Unchanged
  /\ UNCHANGED <<source, minute, from, resampled, unreported, corrections>>
ProcessResampleSource ==
  /\ resampled' = ResampleBars(filtered)
  /\ changedFiltered' = Unchanged
  /\ UNCHANGED <<source, minute, from, filtered, changedSource, unreported, corrections>>

-----------------------------------------------------------------------------
(* The one-minute file: new minutes, corrected ones, repaired gaps.         *)
FileGrows ==
  /\ minute < MaxMinute
  /\ minute' = minute + 1
  /\ \/ UNCHANGED source
     \/ \E v \in RowValue : source' = source \cup {[at |-> minute, value |-> v]}
  /\ UNCHANGED <<from, filtered, resampled, changedSource, changedFiltered, unreported,
                 corrections>>

Corrected ==
  /\ corrections < MaxCorrections
  /\ corrections' = corrections + 1
  /\ \E r \in source, v \in RowValue :
       /\ v # r.value
       /\ source' = (source \ {r}) \cup {[r EXCEPT !.value = v]}
       /\ changedSource' = Min({changedSource, r.at})
  /\ UNCHANGED <<minute, from, filtered, resampled, changedFiltered, unreported>>

WindowMoves ==
  /\ from < minute /\ from' = from + 1
  /\ source' = {r \in source : r.at >= from'}
  /\ UNCHANGED <<minute, filtered, resampled, changedSource, changedFiltered, unreported,
                 corrections>>

(* audit_dataframe: session minutes between the first and the last row that *)
(* have none.                                                               *)
MissingMinutes ==
  {t \in Min(Times(source)) .. Max(Times(source)) : InSession(t)} \ Times(source)

(* Mutant: one window from the first missing minute to the last.            *)
OneWindow(start) ==
  LET due == {t \in MissingMinutes : t >= start}
  IN IF due = {} THEN {} ELSE {Min(due) .. Max(due)}

(* repair_windows: one request per session with a minute missing since      *)
(* start, from its first such minute to its last.                           *)
RepairWindows(start) ==
  LET due == {t \in MissingMinutes : t >= start}
  IN {Min({t \in due : OpenOf(t) = o}) .. Max({t \in due : OpenOf(t) = o}) :
        o \in {OpenOf(t) : t \in due}}

(* repair_symbol_file: the provider answers with rows of the windows, some  *)
(* of which are missing in the file; they take the place of the rows that   *)
(* are there, and the earliest one that is new is reported.  An answer      *)
(* without a new row is not saved.                                          *)
Repaired(answer) ==
  {r \in source : r.at \notin DOMAIN answer} \cup {[at |-> t, value |-> answer[t]] : t \in DOMAIN answer}
Added(answer) == DOMAIN answer \cap MissingMinutes

RepairSymbolFile ==
  /\ source # {} /\ corrections < MaxCorrections
  /\ corrections' = corrections + 1
  /\ \E start \in from .. minute - 1 :
     \E fetched \in SUBSET UNION RepairWindows(start) :
     \E answer \in [fetched -> RowValue] :
       /\ Added(answer) # {}
       /\ source' = Repaired(answer)
       /\ changedSource' = Earliest(Added(answer) \cup {changedSource})
       /\ unreported' = (unreported \/ \E r \in source \ Repaired(answer) :
                                         r.at < OpenOf(Earliest(Added(answer) \cup {changedSource})))
  /\ UNCHANGED <<minute, from, filtered, resampled, changedFiltered>>

DerivationNext ==
  \/ FileGrows \/ Corrected \/ WindowMoves \/ RepairSymbolFile
  \/ ProcessFile \/ ProcessResampleFile \/ ProcessSource \/ ProcessResampleSource

DerivationSpec == DerivationInit /\ [][DerivationNext]_derivationVars

-----------------------------------------------------------------------------
(* Every variable holds values of its type, one row per minute.             *)
DerivationTypeOK ==
  /\ source \subseteq Rows /\ filtered \subseteq Rows
  /\ \A r, s \in source : r.at = s.at => r = s
  /\ \A b \in resampled : b.value \subseteq Rows
  /\ {minute, from, changedSource, changedFiltered} \subseteq 0 .. MaxMinute
  /\ unreported \in BOOLEAN /\ corrections \in 0 .. MaxCorrections

(* A run of either derivation leaves the file a run from nothing would      *)
(* write.                                                                   *)
FullFiltered == Sliced(FilterRegularSession(Sliced(source)))
FullResampled == Sliced(ResampleBars(Sliced(filtered)))
AlwaysFull ==
  /\ Refiltered = FullFiltered
  /\ Resampled = FullResampled

(* It does so whatever was appended, corrected, repaired or dropped since   *)
(* the last one, as long as no repair replaced a row of a session before    *)
(* the first row it added: repair_symbol_file reports only what it added.   *)
DerivedIsFull == unreported \/ AlwaysFull

(* The repair asks for every missing minute since its start, once, and no   *)
(* request leaves a session.                                                *)
RepairCovers ==
  source # {} => \A start \in from .. minute - 1 :
    LET windows == RepairWindows(start)
    IN /\ {t \in MissingMinutes : t >= start} \subseteq UNION windows
       /\ \A w \in windows : \A t \in w : t >= start /\ InSession(t)
       /\ \A v, w \in windows : v # w => v \cap w = {}

(* What the legacy derivations promise.                                     *)
DerivationSound == DerivedIsFull /\ RepairCovers
=============================================================================
