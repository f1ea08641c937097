--------------------------- MODULE RealtimeIngest ---------------------------
(***************************************************************************)
(* The realtime consumer (market_pipeline_lib/realtime_ingest.py): messages *)
(* of bar events are taken from a queue with leases, judged as a whole,     *)
(* buffered, acknowledged, and published when enough bars are buffered or   *)
(* on a stop; each publication checkpoints the feed's watermark             *)
(* (watermarks.py).                                                         *)
(*                                                                         *)
(* A row is the event it was built from.  One consumer runs at a time; it   *)
(* may die and be started again, with nothing but the catalog, the          *)
(* watermark and the queue left.  A publication is one step here: its own   *)
(* steps are those of DatasetPublication.                                   *)
(***************************************************************************)
EXTENDS Naturals, Sequences, FiniteSets

CONSTANTS
  Message,          \* messages on the queue
  Event,            \* event ids, which are hashes of the events
  EventsOf,         \* the events of each message, <<>> if it has no such body
  KindOf,           \* what each event is, see Kind
  Bar,              \* an instrument and the start of a bar
  BarOf,            \* the bar an event states
  RevisionOf,       \* which version of the bar it states
  PositionOf,       \* its position in the stream
  Shard,            \* the declared shards
  ShardOf,          \* the shard of a bar
  DayOf,            \* the session of a bar
  Retention,        \* DEDUP_SESSION_RETENTION
  BatchSize,        \* max_messages_per_poll
  FlushEvery,       \* flush_every
  MaxReceiveCount,  \* max_receive_count
  Faults,           \* the faults that may happen, see Fault
  MaxFaults,        \* bound: how many of them in a behaviour
  MaxDeliveries     \* bound: how often the queue delivers a message

(* A bar; a quote or another event type the stream carries; an event that   *)
(* is refused; an event on which anything else raises.                      *)
Kind == {"bar", "other", "refused", "failing"}

(* The process dies, of a signal or of a failing queue, catalog or store    *)
(* call, none of which is caught; it is asked to stop; it takes longer than *)
(* a lease; the quality checks quarantine what it publishes.                *)
Fault == {"crash", "stop", "slow", "quarantine"}

ASSUME IngestAssumption ==
  /\ EventsOf \in [Message -> Seq(Event)]
  /\ KindOf \in [Event -> Kind]
  /\ BarOf \in [Event -> Bar]
  /\ RevisionOf \in [Event -> Nat]
  /\ PositionOf \in [Event -> Nat \ {0}]
  /\ Shard # {}
  /\ ShardOf \in [Bar -> Shard]
  /\ DayOf \in [Bar -> Nat]
  /\ Retention \in Nat \ {0}
  /\ BatchSize \in Nat \ {0}
  /\ FlushEvery \in Nat \ {0}
  /\ MaxReceiveCount \in Nat \ {0}
  /\ Faults \subseteq Fault
  /\ MaxFaults \in Nat
  /\ MaxDeliveries \in Nat

VARIABLES
  queue,      \* each message's state and ApproximateReceiveCount
  dead,       \* messages on the dead-letter queue
  mem,        \* the consumer's memory
  listed,     \* rows of the dataset's AVAILABLE manifest
  watermark,  \* the feed's stream_watermarks row, 0 for none
  published,  \* history: rows that were listed at some time
  missed,     \* history: rows that died with a consumer or were quarantined
  faults      \* how many faults have happened

vars == <<queue, dead, mem, listed, watermark, published, missed, faults>>

Envelope == [state : {"visible", "leased", "gone"}, receives : Nat]
Delivery == [msg : Message, receipt : Nat]
NoDelivery == [msg |-> "none", receipt |-> 0]

PC == {"off", "polling", "handling", "committing", "parking", "parked",
       "flushing", "checkpointing", "stopped"}

Memory == [pc      : PC,
           stop    : BOOLEAN,                     \* should_stop()
           closing : BOOLEAN,                     \* in shutdown()
           batch   : SUBSET Delivery,
           cur     : Delivery \cup {NoDelivery},
           todo    : SUBSET Nat,                  \* prepared events to commit
           buffer  : SUBSET Event,
           slots   : SUBSET Event,
           seen    : SUBSET Event,
           heads   : [Shard -> Nat],              \* 0 for none
           since   : Nat]                         \* _since_flush

Started(resumed) ==
  [pc |-> "polling", stop |-> FALSE, closing |-> FALSE, batch |-> {},
   cur |-> NoDelivery, todo |-> {}, buffer |-> {}, slots |-> {}, seen |-> {},
   heads |-> [s \in Shard |-> resumed], since |-> 0]
Off == [Started(0) EXCEPT !.pc = "off"]

Up == mem.pc \notin {"off", "stopped"}

(* A fault of a kind happens only within the budget.                        *)
Happens(kind) ==
  /\ kind \in Faults
  /\ faults < MaxFaults
  /\ faults' = faults + 1

DayOfEvent(e) == DayOf[BarOf[e]]
SameBar(e, x) == BarOf[e] = BarOf[x]
EventsIn(m) == {EventsOf[m][i] : i \in 1 .. Len(EventsOf[m])}
BarsIn(m) == {e \in EventsIn(m) : KindOf[e] = "bar"}

-----------------------------------------------------------------------------
(* The queue.  A call with a receipt that is not current does not touch the *)
(* message, except that delete may delete it; a call that raises ends the   *)
(* consumer, see Crash.                                                     *)
Held(d) == queue[d.msg] = [state |-> "leased", receives |-> d.receipt]

MadeVisible(d) ==
  IF Held(d) THEN [queue EXCEPT ![d.msg].state = "visible"] ELSE queue

Delete(d) ==
  \/ queue' = [queue EXCEPT ![d.msg].state = "gone"]
  \/ queue[d.msg].receives # d.receipt /\ UNCHANGED queue

(* Nothing renews a lease in this consumer: it may expire while its message *)
(* is being handled.                                                        *)
LeaseExpires(m) ==
  /\ queue[m].state = "leased"
  /\ IF \E d \in mem.batch : d.msg = m /\ Held(d) THEN Happens("slow")
     ELSE UNCHANGED faults
  /\ queue' = [queue EXCEPT ![m].state = "visible"]
  /\ UNCHANGED <<dead, mem, listed, watermark, published, missed>>

-----------------------------------------------------------------------------
(* Judging a message: nothing is changed until every event is acceptable.   *)

(* Mutant: the batch overlay is not consulted.                              *)
RivalsBuffered(m, i) == {x \in mem.slots : SameBar(x, EventsOf[m][i])}
(* What is held for the bar of the i-th event: the slot, and the effect of  *)
(* the events before it in the same message.                                *)
Rivals(m, i) ==
  {x \in mem.slots \cup {EventsOf[m][j] : j \in {k \in 1 .. i - 1 :
                                                   KindOf[EventsOf[m][k]] = "bar"}} :
     SameBar(x, EventsOf[m][i])}

Repeated(m, i) ==
  \/ EventsOf[m][i] \in mem.seen
  \/ \E j \in 1 .. i - 1 : EventsOf[m][j] = EventsOf[m][i]

(* Mutant: the revision is not compared, the last writer wins.              *)
SupersededNever(m, i) == FALSE
Superseded(m, i) ==
  \E x \in Rivals(m, i) : RevisionOf[x] > RevisionOf[EventsOf[m][i]]
Conflicts(m, i) ==
  /\ ~Superseded(m, i)
  /\ \E x \in Rivals(m, i) : RevisionOf[x] = RevisionOf[EventsOf[m][i]]

New(m, i) ==
  KindOf[EventsOf[m][i]] \in {"bar", "failing"} /\ ~Repeated(m, i) /\ ~Superseded(m, i)
Raises(m, i) ==
  \/ KindOf[EventsOf[m][i]] = "refused"
  \/ New(m, i) /\ (Conflicts(m, i) \/ KindOf[EventsOf[m][i]] = "failing")
(* The first event that raises decides what becomes of the message.         *)
RaisesFirst(m, i) == Raises(m, i) /\ \A j \in 1 .. i - 1 : ~Raises(m, j)
Index(m) == 1 .. Len(EventsOf[m])

Refused(m) ==
  \/ EventsOf[m] = <<>>
  \/ \E i \in Index(m) : /\ RaisesFirst(m, i)
                         /\ KindOf[EventsOf[m][i]] = "refused" \/ Conflicts(m, i)
Acceptable(m) == EventsOf[m] # <<>> /\ \A i \in Index(m) : ~Raises(m, i)
Fails(m) == ~Refused(m) /\ ~Acceptable(m)

-----------------------------------------------------------------------------
Init ==
  /\ queue = [m \in Message |-> [state |-> "visible", receives |-> 0]]
  /\ dead = {}
  /\ mem = Off
  /\ listed = {}
  /\ watermark = 0
  /\ published = {}
  /\ missed = {}
  /\ faults = 0

(* A new ledger has no heads, or resumes every shard from the stored row.   *)
Boot ==
  /\ ~Up
  /\ \E resumed \in {0, watermark} : mem' = Started(resumed)
  /\ UNCHANGED <<queue, dead, listed, watermark, published, missed, faults>>

RequestStop ==
  /\ Up
  /\ ~mem.stop
  /\ Happens("stop")
  /\ mem' = [mem EXCEPT !.stop = TRUE]
  /\ UNCHANGED <<queue, dead, listed, watermark, published, missed>>

Receivable ==
  {batch \in SUBSET {m \in Message : /\ queue[m].state = "visible"
                                     /\ queue[m].receives < MaxDeliveries} :
     batch # {} /\ Cardinality(batch) <= BatchSize}

(* An empty receive ends the cycle before the flush threshold is looked at. *)
Poll ==
  /\ mem.pc = "polling"
  /\ ~mem.stop
  /\ \/ \E batch \in Receivable :
          /\ queue' = [m \in Message |-> IF m \in batch
               THEN [state |-> "leased", receives |-> queue[m].receives + 1] ELSE queue[m]]
          /\ mem' = [mem EXCEPT !.pc = "handling",
               !.batch = {[msg |-> m, receipt |-> queue[m].receives + 1] : m \in batch}]
     \/ UNCHANGED <<queue, mem>>
  /\ UNCHANGED <<dead, listed, watermark, published, missed, faults>>

(* Mutant: a stop leaves without the last flush.                            *)
LeaveLoopUnflushed ==
  /\ mem.pc = "polling"
  /\ mem.stop
  /\ mem' = [mem EXCEPT !.pc = "stopped"]
  /\ UNCHANGED <<queue, dead, listed, watermark, published, missed, faults>>

(* should_stop() is asked between cycles only; shutdown() flushes.          *)
LeaveLoop ==
  /\ mem.pc = "polling"
  /\ mem.stop
  /\ mem' = [mem EXCEPT !.pc = "flushing", !.closing = TRUE]
  /\ UNCHANGED <<queue, dead, listed, watermark, published, missed, faults>>

-----------------------------------------------------------------------------
Done(d) == [mem EXCEPT !.pc = "handling", !.cur = NoDelivery, !.batch = @ \ {d}]

Exhausted(d) == d.receipt >= MaxReceiveCount

(* MALFORMED_EVENT, UNSUPPORTED_EVENT_VERSION or MAX_RECEIVES_EXCEEDED.     *)
Park(d) ==
  /\ mem.pc = "handling"
  /\ Refused(d.msg) \/ (Fails(d.msg) /\ Exhausted(d))
  /\ mem' = [mem EXCEPT !.pc = "parking", !.cur = d]
  /\ UNCHANGED <<queue, dead, listed, watermark, published, missed, faults>>

(* Mutant: the deliveries are never used up.                                *)
RetryAlways(d) ==
  /\ mem.pc = "handling"
  /\ Fails(d.msg)
  /\ queue' = MadeVisible(d)
  /\ mem' = Done(d)
  /\ UNCHANGED <<dead, listed, watermark, published, missed, faults>>

Retry(d) ==
  /\ mem.pc = "handling"
  /\ Fails(d.msg)
  /\ ~Exhausted(d)
  /\ queue' = MadeVisible(d)
  /\ mem' = Done(d)
  /\ UNCHANGED <<dead, listed, watermark, published, missed, faults>>

(* What submit_batch prepared: the new events, in the order of the message. *)
Accept(d) ==
  /\ mem.pc = "handling"
  /\ Acceptable(d.msg)
  /\ LET new == {i \in Index(d.msg) : New(d.msg, i)}
     IN mem' = [mem EXCEPT !.pc = "committing", !.cur = d, !.todo = new,
                           !.since = @ + Cardinality(new)]
  /\ UNCHANGED <<queue, dead, listed, watermark, published, missed, faults>>

(* _retain: the newest sessions of the de-duplication state.                *)
Newest(days) == {x \in days : Cardinality({y \in days : y > x}) < Retention}
Kept(e) == Newest({DayOfEvent(x) : x \in {e} \cup mem.seen \cup mem.slots})

(* Mutant: rows are keyed by event, not by bar.                             *)
PutBeside(S, e) == S \cup {e}
(* The row of a bar replaces the one there was.                             *)
Put(S, e) == {x \in S : ~SameBar(x, e)} \cup {e}

CommitEvent ==
  /\ mem.pc = "committing"
  /\ \E i \in mem.todo :
       /\ \A j \in mem.todo : i <= j
       /\ LET e == EventsOf[mem.cur.msg][i]
              shard == ShardOf[BarOf[e]]
              retained(S) == {x \in S : DayOfEvent(x) \in Kept(e)}
          IN mem' = [mem EXCEPT
               !.todo = @ \ {i},
               !.heads[shard] = IF PositionOf[e] > @ THEN PositionOf[e] ELSE @,
               !.buffer = Put(@, e),
               !.slots = Put(retained(@), e),
               !.seen = retained(@) \cup {e}]
  /\ UNCHANGED <<queue, dead, listed, watermark, published, missed, faults>>

Acknowledge ==
  /\ mem.pc = "committing"
  /\ mem.todo = {}
  /\ Delete(mem.cur)
  /\ mem' = Done(mem.cur)
  /\ UNCHANGED <<dead, listed, watermark, published, missed, faults>>

(* dead_letter: send, then delete.                                          *)
ParkSend ==
  /\ mem.pc = "parking"
  /\ dead' = dead \cup {mem.cur.msg}
  /\ mem' = [mem EXCEPT !.pc = "parked"]
  /\ UNCHANGED <<queue, listed, watermark, published, missed, faults>>

ParkDelete ==
  /\ mem.pc = "parked"
  /\ Delete(mem.cur)
  /\ mem' = Done(mem.cur)
  /\ UNCHANGED <<dead, listed, watermark, published, missed, faults>>

(* Mutant: the checkpoint is written before anything is published.          *)
EndCycleCheckpoints ==
  /\ mem.pc = "handling"
  /\ mem.batch = {}
  /\ mem' = [mem EXCEPT !.pc = IF mem.since >= FlushEvery THEN "checkpointing"
                               ELSE "polling"]
  /\ UNCHANGED <<queue, dead, listed, watermark, published, missed, faults>>

EndCycle ==
  /\ mem.pc = "handling"
  /\ mem.batch = {}
  /\ mem' = [mem EXCEPT !.pc = IF mem.since >= FlushEvery THEN "flushing"
                               ELSE "polling"]
  /\ UNCHANGED <<queue, dead, listed, watermark, published, missed, faults>>

-----------------------------------------------------------------------------
(* flush: the buffered groups, then the checkpoint.                         *)

(* Mutant: the objects of other days are not carried forward.               *)
RepublishedAlone == mem.buffer

(* replace_periods are the days of the buffered groups, for every shard:    *)
(* the objects of other days are carried forward, those of these are not.   *)
Republished ==
  {x \in listed : \A e \in mem.buffer : DayOfEvent(e) # DayOfEvent(x)} \cup mem.buffer

(* Mutant: only the groups of the newest day are published.                 *)
PublishLatestDay ==
  /\ mem.pc = "flushing"
  /\ LET latest == {e \in mem.buffer : \A x \in mem.buffer : DayOfEvent(x) <= DayOfEvent(e)}
     IN listed' = Republished \cap latest /\ published' = published \cup latest
  /\ mem' = [mem EXCEPT !.pc = "checkpointing", !.buffer = {}]
  /\ UNCHANGED <<queue, dead, watermark, missed, faults>>

Publish ==
  /\ mem.pc = "flushing"
  /\ \/ /\ listed' = Republished
        /\ published' = published \cup mem.buffer
        /\ UNCHANGED <<missed, faults>>
     \/ /\ mem.buffer # {}
        /\ Happens("quarantine")
        /\ missed' = missed \cup mem.buffer
        /\ UNCHANGED <<listed, published>>
  /\ mem' = [mem EXCEPT !.pc = "checkpointing", !.buffer = {}]
  /\ UNCHANGED <<queue, dead, watermark>>

(* Mutant: a shard without a head does not hold the floor back.             *)
FloorOfHeads ==
  LET known == {mem.heads[s] : s \in Shard} \ {0}
  IN IF known = {} THEN 0 ELSE CHOOSE n \in known : \A k \in known : n <= k
(* The position every declared shard has passed; the repository keeps the   *)
(* later one.                                                               *)
CompletionFloor ==
  CHOOSE n \in {mem.heads[s] : s \in Shard} : \A s \in Shard : n <= mem.heads[s]

Checkpoint ==
  /\ mem.pc = "checkpointing"
  /\ watermark' = IF CompletionFloor > watermark THEN CompletionFloor ELSE watermark
  /\ mem' = [mem EXCEPT !.pc = IF mem.closing THEN "stopped" ELSE "polling",
                        !.since = 0]
  /\ UNCHANGED <<queue, dead, listed, published, missed, faults>>

-----------------------------------------------------------------------------
(* Rows that are still to come, or that an operator can replay.             *)
Pending == UNION {BarsIn(m) : m \in {x \in Message : queue[x].state # "gone" \/ x \in dead}}

Crash ==
  /\ Up
  /\ Happens("crash")
  /\ missed' = missed \cup (mem.buffer \ Pending)
  /\ mem' = Off
  /\ UNCHANGED <<queue, dead, listed, watermark, published>>

Advance ==
  \/ Poll
  \/ LeaveLoop
  \/ \E d \in mem.batch : Park(d) \/ Retry(d) \/ Accept(d)
  \/ CommitEvent
  \/ Acknowledge
  \/ ParkSend
  \/ ParkDelete
  \/ EndCycle
  \/ Publish
  \/ Checkpoint

Next == Boot \/ Advance \/ RequestStop \/ Crash \/ \E m \in Message : LeaseExpires(m)

Spec == Init /\ [][Next]_vars

(* The consumer is restarted and runs, and a lease nobody works under       *)
(* expires.  Faults are never fair.                                         *)
InHand(m) == \E d \in mem.batch : d.msg = m /\ Held(d)
FairSpec ==
  /\ Spec
  /\ WF_vars(Boot) /\ WF_vars(Advance)
  /\ \A m \in Message : WF_vars(~InHand(m) /\ LeaseExpires(m))

-----------------------------------------------------------------------------
(* Every variable holds values of its type, and the buffer and the slots    *)
(* one row of a bar.                                                        *)
OneRowPerBar(S) == \A x, y \in S : SameBar(x, y) => x = y
TypeOK ==
  /\ queue \in [Message -> Envelope]
  /\ dead \subseteq Message
  /\ mem \in Memory
  /\ OneRowPerBar(mem.buffer) /\ OneRowPerBar(mem.slots)
  /\ listed \subseteq Event
  /\ watermark \in Nat
  /\ published \subseteq Event
  /\ missed \subseteq Event
  /\ faults \in Nat

(* A row stands for an event if it states the same bar, no earlier version. *)
StandsFor(x, e) == SameBar(x, e) /\ RevisionOf[x] >= RevisionOf[e]

(* Every bar of an acknowledged message is accounted for: some row at least *)
(* as new is buffered, has been published once, or is still to come; or it  *)
(* died with a consumer's buffer or was quarantined, which missed names.    *)
(* Published once is not listed for good, see SessionsStand.                *)
Accounted ==
  \A m \in Message : queue[m].state = "gone" /\ m \notin dead =>
    \A e \in BarsIn(m) :
      \E x \in mem.buffer \cup published \cup missed \cup Pending : StandsFor(x, e)

(* The watermark moves over a bar only when the bar has left the buffer:    *)
(* what a checkpoint calls complete is in the catalog, not in memory.       *)
WatermarkAfterPublication ==
  [][watermark' # watermark =>
       \A e \in mem.buffer : PositionOf[e] > watermark']_vars

(* The watermark is a position every declared shard has reached, restarts   *)
(* and late events included.                                                *)
EveryShardPassed ==
  watermark > 0 =>
    \A s \in Shard : \E m \in Message : \E e \in BarsIn(m) :
      queue[m].receives > 0 /\ ShardOf[BarOf[e]] = s /\ PositionOf[e] >= watermark

(* What has been published leaves the dataset only by a flush of its own    *)
(* session: no session that was published is without rows, whichever        *)
(* sessions are flushed, quarantined or replayed later.  A bar of a session *)
(* that is flushed twice may be lost (KeepsEveryBar).                       *)
SessionsStand ==
  \A e \in published : \E x \in listed : DayOfEvent(x) = DayOfEvent(e)

(* What an acknowledgement and the watermark are worth: an acknowledged bar *)
(* was published once or its loss is named, its session stays listed, and   *)
(* every shard has come as far as the watermark.                            *)
NothingSkipped == Accounted /\ SessionsStand /\ EveryShardPassed

(* A consumer never puts an older version of a bar over one it holds, be it *)
(* still buffered or already published.                                     *)
NewerOnly ==
  [][\A x \in mem.buffer \cup mem.seen, y \in mem'.buffer \ mem.buffer :
       SameBar(x, y) => RevisionOf[y] > RevisionOf[x]]_vars

(* A message leaves the queue once faults cease.                            *)
Settled == \A m \in Message : <>(queue[m].state = "gone")

(* A requested stop ends the consumer with nothing left in its buffer.      *)
StopsFlushed == mem.stop ~> ~Up /\ mem.buffer = {}

(* A publication takes no bar out of the dataset.                           *)
KeepsEveryBar == [][\A x \in listed : \E y \in listed' : SameBar(x, y)]_vars
=============================================================================
