--------------------------- MODULE MCDataEntrances ---------------------------
(* Small instances of the ways by which data enters, beside the queue of    *)
(* PipelineWorker: the Redis stream source, the port of                     *)
(* INGEST_REALTIME_BARS, the market-history sync, the provider client and   *)
(* the legacy collection with its derivations.  They share no state, so one *)
(* run checks them side by side: subject says which of them a behaviour is  *)
(* about, and the others stay in their initial state.                       *)
EXTENDS RedisStream, HistorySync, RealtimePort, ProviderClient, LegacyHistory,
        LegacyDerivation

CONSTANTS c1, c2, c3, b1, b2, b3, b4,  \* commands of the port and the bars they carry
          i1, i2                   \* instruments of the sync

VARIABLE subject

entranceVars ==
  <<subject, streamVars, syncVars, portVars, clientVars, legacyVars, derivationVars>>

MCEntryKind == <<"poison", "good">>
MCTimeframes == <<"30m", "1h", "1d">>
MCListed == <<i1, i2>>
MCEvents == c1 :> <<b1>> @@ c2 :> <<b2, b3>> @@ c3 :> <<b4, BadEvent>>
MCOutputIntervals == <<"1hour", "1day">>
MCBarSession == b1 :> 1 @@ b2 :> 2 @@ b3 :> 3 @@ b4 :> 3
MCBarYear == b1 :> 1 @@ b2 :> 1 @@ b3 :> 2 @@ b4 :> 2
MCFlushes == c1 :> FALSE @@ c2 :> TRUE @@ c3 :> TRUE

EntranceInit ==
  /\ subject \in {"stream", "sync", "port", "client", "legacy", "derivation"}
  /\ StreamInit /\ SyncInit /\ PortInit /\ LegacyInit /\ DerivationInit
  /\ ClientInit /\ (subject # "client" => nextOf = [p \in Page |-> NoPage])

OfStream ==
  /\ subject = "stream"
  /\ UNCHANGED <<subject, syncVars, portVars, clientVars, legacyVars, derivationVars>>
StreamMoves == OfStream /\ StreamNext
SyncMoves ==
  /\ subject = "sync" /\ SyncNext
  /\ UNCHANGED <<subject, streamVars, portVars, clientVars, legacyVars, derivationVars>>
PortMoves ==
  /\ subject = "port" /\ PortNext
  /\ UNCHANGED <<subject, streamVars, syncVars, clientVars, legacyVars, derivationVars>>
ClientMoves ==
  /\ subject = "client" /\ ClientNext
  /\ UNCHANGED <<subject, streamVars, syncVars, portVars, legacyVars, derivationVars>>
LegacyMoves ==
  /\ subject = "legacy" /\ LegacyNext
  /\ UNCHANGED <<subject, streamVars, syncVars, portVars, clientVars, derivationVars>>
DerivationMoves ==
  /\ subject = "derivation" /\ DerivationNext
  /\ UNCHANGED <<subject, streamVars, syncVars, portVars, clientVars, legacyVars>>
EntranceNext ==
  \/ StreamMoves \/ SyncMoves \/ PortMoves
  \/ ClientMoves \/ LegacyMoves \/ DerivationMoves

(* StreamFairness, for the behaviours that are about the stream.            *)
EntranceFairness ==
  /\ \A c \in Reader : WF_entranceVars(OfStream /\ ReaderNext(c))
  /\ \A e \in StreamEntry : WF_entranceVars(OfStream /\ Idles(e))

EntranceSpec == EntranceInit /\ [][EntranceNext]_entranceVars /\ EntranceFairness

-----------------------------------------------------------------------------
(* Every variable of these entrances has its type.                          *)
EntranceTypeOK ==
  /\ StreamTypeOK /\ SyncTypeOK /\ PortTypeOK
  /\ ClientTypeOK /\ LegacyTypeOK /\ DerivationTypeOK

(* What the sync projects and what the port answers is what was published:  *)
(* HistorySync!SyncSound and RealtimePort!PortSound.                        *)
EntrancesSound == SyncSound /\ PortSound

(* What is collected is what the provider serves, whichever request or file *)
(* was cut short: ProviderClient!ClientSound, LegacyHistory!HistoryCurrent  *)
(* and LegacyDerivation!DerivationSound.                                    *)
CollectedSound ==
  /\ subject = "client" => ClientSound
  /\ subject = "legacy" => HistoryCurrent
  /\ subject = "derivation" => DerivationSound
=============================================================================
