------------------------------ MODULE RealtimePort ------------------------------
(***************************************************************************)
(* The INGEST_REALTIME_BARS port (apps/pipeline_worker/realtime.py): a      *)
(* worker hands it one command at a time, it submits the command's events   *)
(* to an ingestor that lives as long as the process, and flushes.  Commands *)
(* that fail or are cancelled come again, those refused as malformed do     *)
(* not; an answered command may come again too, when its acknowledgement    *)
(* was lost.  An event is the bar it carries or BadEvent.  A flush publishes*)
(* dataset year by year, and raises before, between or after them.  The     *)
(* judgement of corrections and of lateness, and the watermark, are         *)
(* RealtimeIngest's.                                                        *)
(***************************************************************************)
EXTENDS Integers, FiniteSets, Sequences, SequencesExt

CONSTANTS
  CommandId, Events, Flushes,   \* [command -> its events], [command -> its flush flag]
  BadEvent,
  BarSession, BarYear,          \* session and dataset year of each bar
  RetainedSessions,             \* DEDUP_SESSION_RETENTION
  MaxLives, MaxTrouble          \* bounds: process lives, failures and repeats

BarsOf(c) == ToSet(Events[c]) \ {BadEvent}
Bar == UNION {BarsOf(c) : c \in CommandId}
ASSUME PortAssumption ==
  /\ DOMAIN Events = CommandId /\ \A c \in CommandId : Events[c] \in Seq(ToSet(Events[c]))
  /\ Flushes \in [CommandId -> BOOLEAN]
  /\ BarSession \in [Bar -> Nat] /\ BarYear \in [Bar -> Nat]
  /\ RetainedSessions \in Nat
  /\ {MaxLives, MaxTrouble} \subseteq Nat

(* published: the years the flush at hand is done with.                     *)
NoCommand == [id |-> "none", next |-> 1, flushing |-> FALSE, published |-> {}]

VARIABLES
  port,         \* the ingestor: buffered bars, bars it remembers, the stop flag
  executing,    \* the command in execution, its next event, and its flush
  outcome,      \* [command -> new, failed, refused or done]
  catalog,      \* bars a publication released
  quarantined,  \* bars whose publication was quarantined
  life, trouble

portVars == <<port, executing, outcome, catalog, quarantined, life, trouble>>

(* accepted, cleared: history of the bars it ever took, and of those it took*)
(* out of its buffer when a flush went through.                             *)
NewIngestor ==
  [buffer |-> {}, seen |-> {}, accepted |-> {}, cleared |-> {}, stopping |-> FALSE]

PortInit ==
  /\ port = NewIngestor /\ executing = NoCommand
  /\ outcome = [c \in CommandId |-> "new"]
  /\ catalog = {} /\ quarantined = {}
  /\ life = 1 /\ trouble = 0

Troubled == trouble < MaxTrouble /\ trouble' = trouble + 1
Answer(c, o) == outcome' = [outcome EXCEPT ![c] = o] /\ executing' = NoCommand
Cmd == executing.id

Deliver(c) ==
  /\ executing = NoCommand
  /\ \/ outcome[c] \in {"new", "failed"} /\ UNCHANGED trouble
     \/ outcome[c] = "done" /\ Troubled
  /\ executing' = [NoCommand EXCEPT !.id = c]
  /\ UNCHANGED <<port, outcome, catalog, quarantined, life>>

Submitting(e) ==
  /\ executing # NoCommand /\ ~port.stopping
  /\ executing.next <= Len(Events[Cmd]) /\ e = Events[Cmd][executing.next]

(* Mutant: only what is still buffered counts as seen.                      *)
SeenIfBuffered(b) == b \in port.buffer

Seen(b) == b \in port.seen

(* _retain: the newest sessions of what it remembers and of the bar at hand.*)
Sessions(bars) == {BarSession[x] : x \in bars}
Later(sessions, b) == {t \in sessions : t > BarSession[b]}
StillKnown(b) ==
  {x \in port.seen : Cardinality(Later(Sessions(port.seen \cup {b}), x)) < RetainedSessions}

(* submit_batch([event]): a bar it remembers is skipped.                    *)
Submit(b) ==
  /\ Submitting(b) /\ b # BadEvent
  /\ port' = IF Seen(b) THEN port
             ELSE [port EXCEPT !.buffer = @ \cup {b}, !.seen = StillKnown(b) \cup {b},
                               !.accepted = @ \cup {b}]
  /\ executing' = [executing EXCEPT !.next = @ + 1]
  /\ UNCHANGED <<outcome, catalog, quarantined, life, trouble>>

(* RealtimeIngestError becomes MalformedEventError: the worker parks it.    *)
Refuse ==
  /\ Submitting(BadEvent)
  /\ Answer(Cmd, "refused")
  /\ UNCHANGED <<port, catalog, quarantined, life, trouble>>

AllSubmitted ==
  /\ executing # NoCommand /\ ~executing.flushing
  /\ executing.next > Len(Events[Cmd])

Buffered ==
  /\ AllSubmitted /\ ~Flushes[Cmd]
  /\ Answer(Cmd, "done")
  /\ UNCHANGED <<port, catalog, quarantined, life, trouble>>

(* ingestor.flush publishes what is buffered year by year, in order; a year *)
(* that is published, AVAILABLE or QUARANTINED, stays so whatever follows.  *)
BeginFlush ==
  /\ AllSubmitted /\ Flushes[Cmd] /\ ~port.stopping
  /\ executing' = [executing EXCEPT !.flushing = TRUE]
  /\ UNCHANGED <<port, outcome, catalog, quarantined, life, trouble>>

YearsLeft == {BarYear[b] : b \in port.buffer} \ executing.published

PublishYear(y) ==
  LET bars == {b \in port.buffer : BarYear[b] = y}
  IN /\ executing.flushing /\ y \in YearsLeft /\ \A z \in YearsLeft : y <= z
     /\ \/ catalog' = catalog \cup bars /\ UNCHANGED <<quarantined, trouble>>
        \/ Troubled /\ quarantined' = quarantined \cup bars /\ UNCHANGED catalog
     /\ executing' = [executing EXCEPT !.published = @ \cup {y}]
     /\ UNCHANGED <<port, outcome, life>>

(* Mutant: a publication that raises leaves the buffer empty.               *)
KeptNone == {}

Kept == port.buffer

(* A publication raises, before its commit or after it; the next delivery   *)
(* finds the buffer as it was, and publishes every year of it again.        *)
FlushRaises ==
  /\ executing.flushing /\ port.buffer # {} /\ Troubled
  /\ port' = [port EXCEPT !.buffer = Kept]
  /\ Answer(Cmd, "failed")
  /\ UNCHANGED <<catalog, quarantined, life>>

(* The buffer is cleared, and then the watermark checkpointed, which raises *)
(* too: the next delivery has nothing left to flush.                        *)
FlushEnds ==
  /\ executing.flushing /\ YearsLeft = {}
  /\ port' = [port EXCEPT !.buffer = {}, !.cleared = @ \cup port.buffer]
  /\ \/ Answer(Cmd, "done") /\ UNCHANGED trouble
     \/ Answer(Cmd, "failed") /\ Troubled
  /\ UNCHANGED <<catalog, quarantined, life>>

RequestStop ==
  /\ ~port.stopping /\ life < MaxLives
  /\ port' = [port EXCEPT !.stopping = TRUE]
  /\ UNCHANGED <<executing, outcome, catalog, quarantined, life, trouble>>

(* _raise_if_stopped, before an event or the flush.                         *)
Cancelled ==
  /\ executing # NoCommand /\ port.stopping /\ ~executing.flushing
  /\ ~AllSubmitted \/ Flushes[Cmd]
  /\ Answer(Cmd, "failed")
  /\ UNCHANGED <<port, catalog, quarantined, life, trouble>>

(* The process ends, stopped or killed: buffer and memory end with it.      *)
Restart ==
  /\ life < MaxLives /\ life' = life + 1
  /\ port' = NewIngestor
  /\ executing' = NoCommand
  /\ outcome' = [c \in CommandId |-> IF c = Cmd /\ outcome[c] # "done" THEN "failed" ELSE outcome[c]]
  /\ UNCHANGED <<catalog, quarantined, trouble>>

PortNext ==
  \/ \E c \in CommandId : Deliver(c)
  \/ \E b \in Bar : Submit(b) \/ PublishYear(BarYear[b])
  \/ Refuse \/ Buffered \/ BeginFlush \/ FlushRaises \/ FlushEnds
  \/ RequestStop \/ Cancelled \/ Restart

PortSpec == PortInit /\ [][PortNext]_portVars

-----------------------------------------------------------------------------
(* Every variable holds values of its type.                                 *)
PortTypeOK ==
  /\ port.buffer \cup port.seen \cup port.cleared \subseteq port.accepted
  /\ port.accepted \subseteq Bar
  /\ executing = NoCommand \/ executing.id \in CommandId
  /\ outcome \in [CommandId -> {"new", "failed", "refused", "done"}]
  /\ catalog \cup quarantined \subseteq Bar

(* A command that asked for a flush and was answered has had its bars       *)
(* released or quarantined, by this flush or an earlier one, through        *)
(* publications that raise before, between or after their commits,          *)
(* cancellations and restarts (realtime.py:177-191).  Whether a later flush *)
(* of the session keeps them is RealtimeIngest!KeepsEveryBar.               *)
AnsweredIsPublished ==
  \A c \in CommandId :
    outcome[c] = "done" /\ Flushes[c] => BarsOf(c) \subseteq catalog \cup quarantined

(* A process buffers a bar again, after a flush that went through took it   *)
(* out, only when it has since accepted bars of as many later sessions as   *)
(* it remembers: "two sessions covers an overnight redelivery and a         *)
(* next-morning correction" (realtime_ingest.py:142-149).  A flush that     *)
(* raised keeps its bars, and the next one publishes them again.            *)
ReplayRecognised ==
  \A b \in port.buffer \cap port.cleared :
    Cardinality(Later(Sessions(port.accepted), b)) >= RetainedSessions

(* Both.                                                                    *)
PortSound == AnsweredIsPublished /\ ReplayRecognised

(* "the first refusal leaves this ingestor exactly as it was": a message is *)
(* acknowledged, retried or parked as a unit (realtime_ingest.py:622-628).  *)
(* A bar only refused commands carry is not published; the port hands over  *)
(* one event at a time, so it is.                                           *)
RefusedLeavesNothing ==
  \A b \in catalog : \E c \in CommandId : b \in BarsOf(c) /\ outcome[c] # "refused"
=============================================================================
