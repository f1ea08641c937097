----------------------------- MODULE RuntimeExport -----------------------------
(***************************************************************************)
(* The one-shot export of the gateway's symbol mapping (runtime_export.py): *)
(* AVAILABLE manifests that cover a range of days without a gap, the        *)
(* instruments all of them hold, their symbols at a cutoff, and two files   *)
(* written one after the other, each only if it is absent or identical.     *)
(* The catalog moves on between two exports and an export dies anywhere.    *)
(* One resolution; downloading and hashing an object either succeeds or     *)
(* stops the export.                                                        *)
(***************************************************************************)
EXTENDS Integers, FiniteSets, Sequences, SequencesExt, FiniteSetsExt

CONSTANTS
  ExportStart, ExportEnd,  \* selection: days from, up to and excluding
  LatestPerPeriod,         \* latest_revision_policy
  Catalogs,                \* states of the manifest rows
  Listings,                \* states of the instruments: [id -> its symbols at the cutoff]
  MaxRuns                  \* bound

ASSUME ExportAssumption ==
  ExportStart \in Nat /\ ExportEnd \in Nat /\ ExportStart < ExportEnd
  /\ LatestPerPeriod \in BOOLEAN /\ MaxRuns \in Nat
  /\ \A c \in Catalogs : IsFiniteSet(c) /\ \A m \in c : m.start \in Int /\ m.end \in Int /\ m.rev \in Nat

VARIABLES
  catalog,   \* manifest rows: [start, end, rev, status, holds]
  listing,   \* the symbols of each instrument
  exporting, \* the export under way: what it computed, from which rows
  mappingFile, evidenceFile,
  evidenceFrom,   \* the manifest rows the evidence was computed from
  exportRuns

exportVars ==
  <<catalog, listing, exporting, mappingFile, evidenceFile, evidenceFrom, exportRuns>>

NoFile == [mapping |-> {}, source |-> {}]
NotExporting == [phase |-> "idle", doc |-> NoFile, from |-> {}]

-----------------------------------------------------------------------------
CandidateManifests ==
  {m \in catalog : m.status = "AVAILABLE" /\ m.start < ExportEnd /\ m.end > ExportStart}

(* Mutant: the first revision of a period is kept.                          *)
FirstRevisions ==
  {m \in CandidateManifests : \A n \in CandidateManifests :
     <<n.start, n.end>> = <<m.start, m.end>> => m.rev <= n.rev}

SelectedManifests ==
  IF LatestPerPeriod
    THEN {m \in CandidateManifests : \A n \in CandidateManifests :
            <<n.start, n.end>> = <<m.start, m.end>> => n.rev <= m.rev}
  ELSE CandidateManifests

(* Mutant: a gap before an interval goes unnoticed.                         *)
CoverStepLoose(cursor, m) ==
  IF m.end <= cursor.day \/ cursor.gap THEN cursor
  ELSE [day |-> m.end, gap |-> FALSE]

(* One interval of the scan: behind the cursor, leaving a gap, or a step.   *)
CoverStep(cursor, m) ==
  IF m.end <= cursor.day \/ cursor.gap \/ cursor.day >= ExportEnd THEN cursor
  ELSE IF m.start > cursor.day THEN [cursor EXCEPT !.gap = TRUE]
  ELSE [cursor EXCEPT !.day = m.end]

(* The periods in order: a second manifest of one would be behind the cursor.*)
Periods == {[start |-> m.start, end |-> m.end] : m \in SelectedManifests}
StartsBefore(m, n) == m.start < n.start \/ (m.start = n.start /\ m.end < n.end)
SortedPeriods ==
  [k \in 1 .. Cardinality(Periods) |->
     CHOOSE m \in Periods : Cardinality({n \in Periods : StartsBefore(n, m)}) = k - 1]
CoverScan == FoldLeft(CoverStep, [day |-> ExportStart, gap |-> FALSE], SortedPeriods)
CoverageComplete == ~CoverScan.gap /\ CoverScan.day >= ExportEnd

Intersection ==
  {i \in UNION {m.holds : m \in SelectedManifests} : \A m \in SelectedManifests : i \in m.holds}
Mapping == {<<CHOOSE s \in listing[i] : TRUE, i>> : i \in Intersection}

(* Every instrument is known, with one primary symbol, and no two share it. *)
Mappable ==
  /\ \A m \in SelectedManifests : m.holds # {}
  /\ Intersection # {}
  /\ \A i \in Intersection : i \in DOMAIN listing /\ Cardinality(listing[i]) = 1
  /\ \A p, q \in Mapping : p[1] = q[1] => p = q

-----------------------------------------------------------------------------
ExportInit ==
  /\ catalog \in Catalogs /\ listing \in Listings
  /\ exporting = NotExporting /\ exportRuns = 0
  /\ mappingFile = NoFile /\ evidenceFile = NoFile /\ evidenceFrom = {}

CatalogMoves ==
  /\ exporting = NotExporting
  /\ catalog' \in Catalogs /\ listing' \in Listings
  /\ UNCHANGED <<exporting, mappingFile, evidenceFile, evidenceFrom, exportRuns>>

(* export_trading_instruments up to its first write; anything that cannot   *)
(* be proven raises and writes nothing.                                     *)
Compute ==
  /\ exporting = NotExporting /\ exportRuns < MaxRuns
  /\ exportRuns' = exportRuns + 1
  /\ IF CoverageComplete /\ Mappable
       THEN exporting' = [phase |-> "mapping", from |-> catalog,
                          doc |-> [mapping |-> Mapping, source |-> SelectedManifests]]
     ELSE UNCHANGED exporting
  /\ UNCHANGED <<catalog, listing, mappingFile, evidenceFile, evidenceFrom>>

(* A manifest without objects, an object without a version, a download that *)
(* is not the version asked for or differs from its receipt: the export     *)
(* stops before it writes.                                                  *)
ObjectUnreadable ==
  /\ exporting = NotExporting /\ exportRuns < MaxRuns
  /\ exportRuns' = exportRuns + 1
  /\ UNCHANGED <<catalog, listing, exporting, mappingFile, evidenceFile, evidenceFrom>>

(* _write_exact: absent, identical, or refused.                             *)
WritesExactly(file, doc) == file = NoFile \/ file = doc

(* Mutant: the mapping file takes whatever is current.                      *)
WriteMappingAlways ==
  /\ exporting.phase = "mapping"
  /\ mappingFile' = [exporting.doc EXCEPT !.source = {}]
  /\ exporting' = [exporting EXCEPT !.phase = "evidence"]
  /\ UNCHANGED <<catalog, listing, evidenceFile, evidenceFrom, exportRuns>>

WriteMapping ==
  /\ exporting.phase = "mapping"
  /\ LET doc == [exporting.doc EXCEPT !.source = {}]
     IN IF WritesExactly(mappingFile, doc)
          THEN mappingFile' = doc /\ exporting' = [exporting EXCEPT !.phase = "evidence"]
        ELSE UNCHANGED mappingFile /\ exporting' = NotExporting
  /\ UNCHANGED <<catalog, listing, evidenceFile, evidenceFrom, exportRuns>>

WriteEvidence ==
  /\ exporting.phase = "evidence"
  /\ IF evidenceFile = NoFile
       THEN evidenceFile' = exporting.doc /\ evidenceFrom' = exporting.from
     ELSE UNCHANGED <<evidenceFile, evidenceFrom>>
  /\ exporting' = NotExporting
  /\ UNCHANGED <<catalog, listing, mappingFile, exportRuns>>

ExportDies ==
  /\ exporting # NotExporting /\ exporting' = NotExporting
  /\ UNCHANGED <<catalog, listing, mappingFile, evidenceFile, evidenceFrom, exportRuns>>

ExportNext ==
  CatalogMoves \/ Compute \/ ObjectUnreadable \/ WriteMapping \/ WriteEvidence \/ ExportDies
ExportSpec == ExportInit /\ [][ExportNext]_exportVars

-----------------------------------------------------------------------------
(* Every variable holds values of its type.                                 *)
ExportTypeOK ==
  /\ catalog \in Catalogs /\ listing \in Listings
  /\ exporting.phase \in {"idle", "mapping", "evidence"}
  /\ mappingFile.source = {} /\ exportRuns \in Nat

(* The evidence beside a mapping is the evidence of that mapping, whatever  *)
(* the catalog became between two exports; the manifests it names cover     *)
(* every day of the selection and were AVAILABLE when it was computed, none *)
(* of that moment in the range is left out for an older one, and by the     *)
(* latest revision of a period none of them is outranked by another one; a  *)
(* symbol stands for one instrument.                                        *)
EvidenceBacksMapping ==
  LET source == evidenceFile.source
  IN evidenceFile # NoFile =>
       /\ evidenceFile.mapping = mappingFile.mapping
       /\ \A d \in ExportStart .. ExportEnd - 1 : \E m \in source : m.start <= d /\ d < m.end
       /\ \A m \in source : m \in evidenceFrom /\ m.status = "AVAILABLE"
       /\ \A n \in evidenceFrom :
            n.status = "AVAILABLE" /\ n.start < ExportEnd /\ n.end > ExportStart =>
              \E m \in source : m.start = n.start /\ m.end = n.end /\ m.rev >= n.rev
       /\ LatestPerPeriod =>
            \A m, n \in source : m.start = n.start /\ m.end = n.end => m.rev >= n.rev
       /\ \A p, q \in mappingFile.mapping : p[1] = q[1] <=> p[2] = q[2]
=============================================================================
