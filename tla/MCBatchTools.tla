----------------------------- MODULE MCBatchTools -----------------------------
(* Small instances of the components that run beside the worker, each on    *)
(* state of its own: the feature executor and its calculators, the warm-up  *)
(* gate and bundle, the runtime export, the object store, the local         *)
(* catalog, the legacy bootstrap, the quality rules, the instrument         *)
(* registry and the catalog's commands.  One run checks them side by side:  *)
(* subject says which of them a behaviour is about, and the others stay as  *)
(* they began.                                                              *)
EXTENDS FeatureMaterialization, FeatureCalculators, WarmupGate, WarmupBundle,
        RuntimeExport, ImmutableStore, LocalCatalog, LegacyBootstrap,
        QualityRules, ReferenceRegistry, CatalogApply

CONSTANTS m1, m2, o1, o2, ga  \* manifests, objects and a format of the legacy catalog

VARIABLE subject

batchVars == <<subject, featureVars, calculatorVars, warmupVars, bundleVars, exportVars,
               storeVars, localVars, bootstrapVars, qualityVars, registryVars, applyVars>>

Subject == {"feature", "calculator", "gate", "bundle", "export", "store", "local",
            "bootstrap", "quality", "registry", "apply"}

MCYearOfSegment == <<1, 1, 2>>

EventOf(i, r, t, n) ==
  [id |-> i, eventId |-> n, instrument |-> IF i = 1 THEN "A" ELSE "B", session |-> 1,
   rev |-> r, received |-> t, type |-> "bar"]
MCMarketEvent ==
  {EventOf(1, 0, 1, 1), EventOf(1, 0, 3, 1), EventOf(1, 0, 3, 2), EventOf(1, 1, 2, 1),
   EventOf(2, 0, 1, 1)}
MCDocuments ==
  LET original == EventOf(1, 0, 1, 1)   replayed == EventOf(1, 0, 3, 1)
      renamed == EventOf(1, 0, 3, 2)    corrected == EventOf(1, 1, 2, 1)
      other == EventOf(2, 0, 1, 1)
  IN {<<corrected, original, other>>, <<other, original>>, <<original>>,
      <<other, original, replayed>>, <<other, replayed, original>>,
      <<other, replayed, renamed>>, <<other, renamed, replayed>>}
MCDelivered == MCMarketEvent \ {EventOf(1, 0, 3, 1)}
MCNeeded == [i \in {"A", "B"} |-> 1]

ReleasedFor(first, after, number, held) ==
  [start |-> first, end |-> after, rev |-> number, status |-> "AVAILABLE", holds |-> held]
MCCatalogs ==
  SUBSET {ReleasedFor(1, 3, 1, {"a", "b"}),
          ReleasedFor(2, 4, 1, {"a", "b"}), ReleasedFor(3, 5, 1, {"a", "b"}),
          ReleasedFor(2, 4, 2, {"b"}),
          [ReleasedFor(2, 5, 2, {"b"}) EXCEPT !.status = "QUARANTINED"]}
MCListings ==
  {[i \in {"a", "b"} |-> IF i = "a" THEN {"A"} ELSE other] : other \in {{"A"}, {"B"}, {}}}
  \cup {[i \in {"b"} |-> {"B"}]}

MCPayload == [u \in {"u1", "u2", "u3"} |-> IF u = "u3" THEN "c2" ELSE "c1"]

Foreign(table, key, column) ==
  [table |-> table, key |-> <<key>>, parents |-> {}, columns |-> <<ga, column>>]
MCForeignRow ==
  {Foreign("object", o1, 0), Foreign("object", o1, 1), Foreign("event", m1, 1),
   Foreign("manifest", ga, 0)}

BarAt(t, date, kind) == [at |-> t, date |-> date, kind |-> kind]
MCBarRow ==
  {BarAt(t, DayOf(t), "ok") : t \in {1, 4, 6, 8, 9}}
  \cup {BarAt(2, 1, "invalid"), BarAt(9, 2, "unusual"),
        BarAt(6, 3, "ok"), BarAt(10, 3, "ok"), BarAt(15, 3, "invalid")}
MCSessionClose == <<5, 4, 0>>

EmptyLegacy ==
  [parent |-> [m \in Manifest |-> NotThere], format |-> [o \in StoredObject |-> NotThere],
   relations |-> {}]

-----------------------------------------------------------------------------
(* Where a component may begin in several ways, only the behaviours about   *)
(* it take more than one of them.                                           *)
BatchInit ==
  /\ subject \in Subject
  /\ FeatureInit /\ CalculatorInit /\ WarmupInit /\ BundleInit /\ StoreInit /\ LocalInit
  /\ QualityInit /\ RegistryInit
  /\ ExportInit /\ (subject # "export" => catalog = {} /\ listing = CHOOSE l \in Listings : TRUE)
  /\ BootstrapInit /\ (subject # "bootstrap" => legacy = EmptyLegacy)
  /\ ApplyInit /\ (subject # "apply" => base.provider = NoSuchRow)

Rests(s, v) == IF subject = s THEN TRUE ELSE UNCHANGED v
OthersRest ==
  /\ UNCHANGED subject
  /\ Rests("feature", featureVars) /\ Rests("calculator", calculatorVars)
  /\ Rests("gate", warmupVars) /\ Rests("bundle", bundleVars)
  /\ Rests("export", exportVars) /\ Rests("store", storeVars)
  /\ Rests("local", localVars) /\ Rests("bootstrap", bootstrapVars)
  /\ Rests("quality", qualityVars) /\ Rests("registry", registryVars)
  /\ Rests("apply", applyVars)

(* A bound: apply and upload are not both under way; they write nothing in  *)
(* common.                                                                  *)
OneCommand == plan'.phase = "idle" \/ upload'.phase = "idle"

FeatureMoves == subject = "feature" /\ FeatureNext /\ OthersRest
CalculatorMoves == subject = "calculator" /\ CalculatorNext /\ OthersRest
GateMoves == subject = "gate" /\ WarmupNext /\ OthersRest
BundleMoves == subject = "bundle" /\ BundleNext /\ OthersRest
ExportMoves == subject = "export" /\ ExportNext /\ OthersRest
StoreMoves == subject = "store" /\ StoreNext /\ OthersRest
LocalMoves == subject = "local" /\ LocalNext /\ OthersRest
BootstrapMoves == subject = "bootstrap" /\ BootstrapNext /\ OthersRest
QualityMoves == subject = "quality" /\ QualityNext /\ OthersRest
RegistryMoves == subject = "registry" /\ RegistryNext /\ OthersRest
ApplyMoves == subject = "apply" /\ ApplyNext /\ OneCommand /\ OthersRest

BatchNext ==
  \/ FeatureMoves \/ CalculatorMoves \/ GateMoves \/ BundleMoves \/ ExportMoves
  \/ StoreMoves \/ LocalMoves \/ BootstrapMoves \/ QualityMoves \/ RegistryMoves
  \/ ApplyMoves

BatchSpec == BatchInit /\ [][BatchNext]_batchVars

-----------------------------------------------------------------------------
(* Every variable of these components has its type.                         *)
BatchTypeOK ==
  CASE subject = "feature" -> FeatureTypeOK [] subject = "calculator" -> CalculatorTypeOK
    [] subject = "gate" -> WarmupTypeOK [] subject = "bundle" -> BundleTypeOK
    [] subject = "export" -> ExportTypeOK [] subject = "store" -> StoreTypeOK
    [] subject = "local" -> LocalTypeOK [] subject = "bootstrap" -> BootstrapTypeOK
    [] subject = "quality" -> QualityTypeOK [] subject = "registry" -> RegistryTypeOK
    [] subject = "apply" -> ApplyTypeOK

(* A feature number, and a quality finding, is what its definition says:    *)
(* FeatureCalculators!ValuesAreFinal and QualityRules!QualitySound.         *)
ComputedSound ==
  /\ subject = "calculator" => ValuesAreFinal
  /\ subject = "quality" => QualitySound

(* What is handed over is what the documents it is taken from hold:         *)
(* WarmupBundle!BundleSound, RuntimeExport!EvidenceBacksMapping and         *)
(* LegacyBootstrap!BootstrapExact.                                          *)
HandedOverSound ==
  /\ subject = "bundle" => BundleSound
  /\ subject = "export" => EvidenceBacksMapping
  /\ subject = "bootstrap" => BootstrapExact

(* What is written beside other writers stands, and a write that fails      *)
(* leaves nothing behind: WarmupGate!GateSound, ImmutableStore!             *)
(* StoreImmutable, LocalCatalog!RaisesLeaveNothing, ReferenceRegistry!      *)
(* OneAnswer and CatalogApply!ApplySound.                                   *)
WritesSound ==
  /\ subject = "gate" => GateSound
  /\ subject = "store" => StoreImmutable
  /\ subject = "local" => RaisesLeaveNothing
  /\ subject = "registry" => OneAnswer
  /\ subject = "apply" => ApplySound
=============================================================================
