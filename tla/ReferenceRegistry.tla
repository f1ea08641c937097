-------------------------- MODULE ReferenceRegistry --------------------------
(***************************************************************************)
(* The reference catalog (reference/*.py): instruments, the periods over    *)
(* which they carried a symbol on a venue, and trading sessions.  The       *)
(* database keeps no two rows of one id and no rule about periods that      *)
(* overlap: InstrumentRegistry checks that before it writes.  A writer      *)
(* reads, checks and writes in separate steps; MaxWriters of them run at    *)
(* once.  An instant is a number.                                           *)
(***************************************************************************)
EXTENDS Integers, FiniteSets

CONSTANTS
  Instrument, Venue, Ticker,
  Identity, Fact,       \* asset type, venue and currency; the facts that change
  Absent, Open,         \* no row; effective_to is None
  CalendarSession, SessionType, \* <<date, calendar version>>, what the calendar says
  MaxInstant, MaxWriters   \* bounds

ASSUME RegistryAssumption ==
  /\ MaxInstant \in Nat \ {0} /\ MaxWriters \in Nat \ {0}
  /\ Open \notin 1 .. MaxInstant
  /\ Absent \notin SessionType \cup [identity : Identity, fact : Fact]

VARIABLES
  instruments,   \* [instrument -> [identity, fact] or Absent]
  periods,       \* the rows of instrument_symbols
  calendar,      \* [session -> its type or Absent]
  writing        \* rows that were checked and are not written yet

registryVars == <<instruments, periods, calendar, writing>>

RegistryInit ==
  /\ instruments = [i \in Instrument |-> Absent]
  /\ periods = {}
  /\ calendar = [s \in CalendarSession |-> Absent]
  /\ writing = {}

Assignments ==
  {a \in [instrument : Instrument, venue : Venue, ticker : Ticker,
          from : 1 .. MaxInstant, to : (2 .. MaxInstant) \cup {Open}] :
     a.to = Open \/ a.from < a.to}
(* The rows of the symbol map.                                              *)
OpenEnded == {a \in Assignments : a.to = Open}
RowIdOf(a) == <<a.instrument, a.venue, a.ticker, a.from>>
Upserted(rows, a) == {r \in rows : RowIdOf(r) # RowIdOf(a)} \cup {a}
Registered(i) == instruments[i] # Absent

-----------------------------------------------------------------------------
(* register: the identity of a stored row may not change, its facts may.    *)
Register(i, identity, fact) ==
  /\ Registered(i) => instruments[i].identity = identity
  /\ instruments' = [instruments EXCEPT ![i] = [identity |-> identity, fact |-> fact]]
  /\ UNCHANGED <<periods, calendar, writing>>

(* _periods_overlap: half-open periods.                                     *)
PeriodsOverlap(a, b) ==
  /\ a.to = Open \/ b.from < a.to
  /\ b.to = Open \/ a.from < b.to

(* Mutant: only the rows of the same ticker are looked at.                  *)
SameTickerOnly(a) == {r \in periods : r.venue = a.venue /\ r.ticker = a.ticker}

(* The rows an assignment may not overlap: of its ticker and of its         *)
(* instrument, on its venue.                                                *)
Candidates(a) ==
  {r \in periods : r.venue = a.venue /\ (r.ticker = a.ticker \/ r.instrument = a.instrument)}

Assignable(rows, a) ==
  Registered(a.instrument) /\ \A r \in rows : RowIdOf(r) = RowIdOf(a) \/ ~PeriodsOverlap(r, a)

(* assign_symbol in one writer, its check and its write.                    *)
CheckAssignment(a) ==
  /\ Cardinality(writing) < MaxWriters
  /\ Assignable(Candidates(a), a)
  /\ writing' = writing \cup {a}
  /\ UNCHANGED <<instruments, periods, calendar>>

WriteAssignment(a) ==
  /\ a \in writing
  /\ writing' = writing \ {a}
  /\ periods' = Upserted(periods, a)
  /\ UNCHANGED <<instruments, calendar>>

(* load_reference_data: the map's rows in one transaction, with its         *)
(* calendar; a row that is refused takes the whole load back.               *)
LoadReferenceData(rows, identity, fact, sessions, type) ==
  /\ Cardinality(writing) < MaxWriters
  /\ \A a \in rows :
       /\ Registered(a.instrument) => instruments[a.instrument].identity = identity
       /\ \A r \in Candidates(a) \cup (rows \ {a}) :
            RowIdOf(r) = RowIdOf(a) \/ r.venue # a.venue
            \/ (r.ticker # a.ticker /\ r.instrument # a.instrument) \/ ~PeriodsOverlap(r, a)
  /\ instruments' = [i \in Instrument |-> IF \E a \in rows : a.instrument = i
                                          THEN [identity |-> identity, fact |-> fact]
                                          ELSE instruments[i]]
  /\ periods' = {r \in periods : \A a \in rows : RowIdOf(r) # RowIdOf(a)} \cup rows
  /\ calendar' = [s \in CalendarSession |-> IF s \in sessions THEN type ELSE calendar[s]]
  /\ UNCHANGED writing

-----------------------------------------------------------------------------
ClosesAt(row, moment) == [row EXCEPT !.to = moment]

(* open_symbol_row: the period in force on a venue.                         *)
OpenRows(i, venue) == {r \in periods : r.instrument = i /\ r.venue = venue /\ r.to = Open}

(* rename: the ticker in force is closed, then the new one is assigned; in  *)
(* a transaction a refusal undoes the first write, without one it stays.    *)
Rename(i, venue, ticker, moment, transaction) ==
  /\ Cardinality(writing) < MaxWriters
  /\ \E current \in OpenRows(i, venue) :
       /\ \A r \in OpenRows(i, venue) : r.from <= current.from
       /\ current.from < moment /\ current.ticker # ticker
       /\ LET closed == Upserted(periods, ClosesAt(current, moment))
              next == [instrument |-> i, venue |-> venue, ticker |-> ticker,
                       from |-> moment, to |-> Open]
              held == {r \in closed : r.venue = venue /\ (r.ticker = ticker \/ r.instrument = i)}
          IN periods' = IF \A r \in held : RowIdOf(r) = RowIdOf(next) \/ ~PeriodsOverlap(r, next)
                        THEN Upserted(closed, next)
                        ELSE IF transaction THEN periods ELSE closed
  /\ UNCHANGED <<instruments, calendar, writing>>

RegistryNext ==
  \/ \E i \in Instrument, identity \in Identity, fact \in Fact : Register(i, identity, fact)
  \/ \E a \in Assignments : CheckAssignment(a) \/ WriteAssignment(a)
  \/ \E a, b \in OpenEnded, identity \in Identity, fact \in Fact :
     \E sessions \in SUBSET CalendarSession, type \in SessionType :
       LoadReferenceData({a, b}, identity, fact, sessions, type)
  \/ \E i \in Instrument, venue \in Venue, ticker \in Ticker, moment \in 1 .. MaxInstant :
     \E transaction \in BOOLEAN : Rename(i, venue, ticker, moment, transaction)

RegistrySpec == RegistryInit /\ [][RegistryNext]_registryVars

-----------------------------------------------------------------------------
(* Every variable holds values of its type, one row per id.                 *)
RegistryTypeOK ==
  /\ instruments \in [Instrument -> [identity : Identity, fact : Fact] \cup {Absent}]
  /\ periods \subseteq Assignments /\ writing \subseteq Assignments
  /\ calendar \in [CalendarSession -> SessionType \cup {Absent}]
  /\ \A r, s \in periods : RowIdOf(r) = RowIdOf(s) => r = s

InForce(moment) ==
  {r \in periods : r.from <= moment /\ (r.to = Open \/ moment < r.to)}

(* symbol_at on a venue and instrument_for_symbol have one answer at every  *)
(* instant, whatever was assigned, renamed, loaded again or refused halfway,*)
(* and it is of a registered instrument.                                    *)
OneAnswer ==
  \A moment \in 1 .. MaxInstant :
    /\ \A r, s \in InForce(moment) :
         r.venue = s.venue /\ (r.ticker = s.ticker \/ r.instrument = s.instrument) => r = s
    /\ \A r \in InForce(moment) : Registered(r.instrument)
=============================================================================
