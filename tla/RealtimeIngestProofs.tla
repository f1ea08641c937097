------------------------ MODULE RealtimeIngestProofs ------------------------
(***************************************************************************)
(* Proofs about RealtimeIngest for any messages, events, shards, sessions,  *)
(* batch and flush sizes and faults.                                        *)
(***************************************************************************)
EXTENDS RealtimeIngest, FiniteSetTheorems, WellFoundedInduction, TLAPS

-----------------------------------------------------------------------------
(* What the invariant consists of                                           *)

(* A bar of the shard at the position or behind it has been received.       *)
Reached(s, n) ==
  \E m \in Message : \E e \in BarsIn(m) :
    queue[m].receives > 0 /\ ShardOf[BarOf[e]] = s /\ PositionOf[e] >= n

(* What is worked on has been received, only bars are committed, a message  *)
(* is parked before it is deleted, and a checkpoint finds an empty buffer.  *)
Working ==
  /\ \A d \in mem.batch : queue[d.msg].receives > 0
  /\ mem.pc \in {"committing", "parking", "parked"} => mem.cur \in mem.batch
  /\ mem.pc = "committing" =>
       \A i \in mem.todo : i \in Index(mem.cur.msg) /\ KindOf[EventsOf[mem.cur.msg][i]] = "bar"
  /\ mem.pc = "parked" => mem.cur.msg \in dead
  /\ mem.pc = "checkpointing" => mem.buffer = {}

HeadsReached == \A s \in Shard : mem.heads[s] > 0 => Reached(s, mem.heads[s])

IngestInv == TypeOK /\ Working /\ HeadsReached /\ EveryShardPassed

-----------------------------------------------------------------------------
(* Numbers and sequences                                                    *)

(* A set of numbers that is not empty has a least one.                      *)
LEMMA LeastNumber ==
  ASSUME NEW S \in SUBSET Nat, S # {}
  PROVE  \E n \in S : \A k \in S : n <= k
<1> DEFINE R == OpToRel(<, Nat)
<1>1. \E n \in S : \A k \in S : ~(<<k, n>> \in R)
  <2>1. IsWellFoundedOn(R, Nat)
    BY NatLessThanWellFounded
  <2> HIDE DEF R
  <2> QED BY <2>1, WFMin
<1>2. \A n, k \in S : ~(<<k, n>> \in R) => n <= k
  BY DEF OpToRel
<1> QED BY <1>1, <1>2

(* The completion floor is the head of a shard and behind no head.          *)
LEMMA FloorIsLeast ==
  ASSUME mem.heads \in [Shard -> Nat]
  PROVE  /\ \E s \in Shard : CompletionFloor = mem.heads[s]
         /\ CompletionFloor \in Nat
         /\ \A s \in Shard : CompletionFloor <= mem.heads[s]
<1> DEFINE H == {mem.heads[s] : s \in Shard}
<1>1. H # {} /\ H \subseteq Nat
  BY IngestAssumption
<1>2. \E n \in H : \A k \in H : n <= k
  BY <1>1, LeastNumber
<1>3. \E n \in H : \A s \in Shard : n <= mem.heads[s]
  BY <1>2
<1>4. CompletionFloor \in H /\ \A s \in Shard : CompletionFloor <= mem.heads[s]
  BY <1>3 DEF CompletionFloor
<1> QED BY <1>1, <1>4

(* The events of a message are events, at the places of its index.          *)
LEMMA EventsTyped ==
  ASSUME NEW m \in Message
  PROVE  /\ Len(EventsOf[m]) \in Nat
         /\ Index(m) \subseteq Nat
         /\ \A i \in Index(m) : EventsOf[m][i] \in Event
         /\ BarsIn(m) \subseteq Event
         /\ BarsIn(m) = {EventsOf[m][i] : i \in {j \in Index(m) : KindOf[EventsOf[m][j]] = "bar"}}
<1>1. EventsOf[m] \in Seq(Event)
  BY IngestAssumption
<1>2. Len(EventsOf[m]) \in Nat /\ \A i \in Index(m) : EventsOf[m][i] \in Event
  BY <1>1 DEF Index
<1>3. \A e : e \in BarsIn(m) <=>
             \E i \in Index(m) : e = EventsOf[m][i] /\ KindOf[EventsOf[m][i]] = "bar"
  BY DEF BarsIn, EventsIn, Index
<1> QED BY <1>2, <1>3 DEF Index

(* What an event states is of its type.                                     *)
LEMMA EventTyped ==
  ASSUME NEW e \in Event
  PROVE  /\ BarOf[e] \in Bar /\ ShardOf[BarOf[e]] \in Shard
         /\ RevisionOf[e] \in Nat /\ PositionOf[e] \in Nat /\ PositionOf[e] > 0
         /\ DayOfEvent(e) \in Nat
  BY IngestAssumption DEF DayOfEvent

(* The new events of an acceptable message are bars.                        *)
LEMMA NewIsBar ==
  ASSUME NEW m \in Message, Acceptable(m), NEW i \in Index(m), New(m, i)
  PROVE  KindOf[EventsOf[m][i]] = "bar"
  BY DEF Acceptable, New, Raises

(* A row put into a set of rows leaves one row of a bar.                    *)
LEMMA PutOneRow ==
  ASSUME NEW S, OneRowPerBar(S), NEW T \in SUBSET S, NEW e
  PROVE  OneRowPerBar(Put(T, e))
  BY DEF OneRowPerBar, Put, SameBar

(* Putting a row in replaces rows of its bar and no others.                 *)
LEMMA PutRows ==
  ASSUME NEW S, NEW e, NEW x
  PROVE  x \in Put(S, e) <=> x = e \/ (x \in S /\ ~SameBar(x, e))
  BY DEF Put

-----------------------------------------------------------------------------
(* What each step does to the consumer's memory                             *)

(* A started consumer has a clean memory.                                   *)
LEMMA StartedMemory ==
  ASSUME NEW n \in Nat
  PROVE  /\ Started(n) \in Memory
         /\ Off \in Memory
         /\ Started(n).pc = "polling" /\ Off.pc = "off"
         /\ \A r \in {Started(n), Off} :
              r.batch = {} /\ r.buffer = {} /\ r.slots = {} /\ r.seen = {} /\ r.todo = {}
         /\ \A s \in Shard : Started(n).heads[s] = n /\ Off.heads[s] = 0
<1>1. /\ Started(n) \in Memory /\ Started(0) \in Memory
      /\ \A k \in {n, 0} : \A s \in Shard : Started(k).heads[s] = k
  BY DEF Started, Memory, PC
<1>2. \A k : /\ Started(k).pc = "polling" /\ Started(k).batch = {} /\ Started(k).buffer = {}
             /\ Started(k).slots = {} /\ Started(k).seen = {} /\ Started(k).todo = {}
  BY DEF Started
<1>3. PICK r \in Memory : r = Started(0)
  BY <1>1
<1>4. [r EXCEPT !.pc = "off"] \in Memory
  BY DEF Memory, PC
<1>5. LET o == [r EXCEPT !.pc = "off"]
      IN /\ o.pc = "off" /\ o.batch = r.batch /\ o.buffer = r.buffer /\ o.slots = r.slots
         /\ o.seen = r.seen /\ o.todo = r.todo /\ o.heads = r.heads
  BY DEF Memory
<1>6. Off = [r EXCEPT !.pc = "off"]
  BY <1>3 DEF Off
<1>7. /\ Off \in Memory /\ Off.pc = "off" /\ Off.batch = {} /\ Off.buffer = {}
      /\ Off.slots = {} /\ Off.seen = {} /\ Off.todo = {} /\ \A s \in Shard : Off.heads[s] = 0
  BY <1>1, <1>2, <1>3, <1>4, <1>5, <1>6
<1> QED BY <1>1, <1>2, <1>7

(* Done with a delivery, the consumer turns to the rest of the batch.       *)
LEMMA DoneMemory ==
  ASSUME mem \in Memory, NEW d, mem' = Done(d)
  PROVE  /\ mem' \in Memory
         /\ mem'.pc = "handling" /\ mem'.batch = mem.batch \ {d}
         /\ mem'.buffer = mem.buffer /\ mem'.slots = mem.slots /\ mem'.seen = mem.seen
         /\ mem'.heads = mem.heads
  BY DEF Done, Memory, PC

(* A step that only moves on, or also notes a stop or clears the counter.   *)
LEMMA PhaseMemory ==
  ASSUME mem \in Memory, NEW p \in PC, NEW b \in BOOLEAN, NEW c \in BOOLEAN, NEW n \in Nat,
         \/ mem' = [mem EXCEPT !.pc = p]
         \/ mem' = [mem EXCEPT !.pc = p, !.closing = c]
         \/ mem' = [mem EXCEPT !.pc = p, !.since = n]
         \/ mem' = [mem EXCEPT !.stop = b] /\ p = mem.pc
  PROVE  /\ mem' \in Memory
         /\ mem'.pc = p /\ mem'.batch = mem.batch /\ mem'.cur = mem.cur
         /\ mem'.todo = mem.todo
         /\ mem'.buffer = mem.buffer /\ mem'.slots = mem.slots /\ mem'.seen = mem.seen
         /\ mem'.heads = mem.heads
  BY DEF Memory

(* A receive takes a batch and nothing else.                                *)
LEMMA PollMemory ==
  ASSUME mem \in Memory, NEW B \in SUBSET Delivery,
         mem' = [mem EXCEPT !.pc = "handling", !.batch = B]
  PROVE  /\ mem' \in Memory
         /\ mem'.pc = "handling" /\ mem'.batch = B
         /\ mem'.buffer = mem.buffer /\ mem'.slots = mem.slots /\ mem'.seen = mem.seen
         /\ mem'.heads = mem.heads
  BY DEF Memory, PC

(* A message that is refused is named before it is parked.                  *)
LEMMA ParkMemory ==
  ASSUME mem \in Memory, NEW d \in mem.batch,
         mem' = [mem EXCEPT !.pc = "parking", !.cur = d]
  PROVE  /\ mem' \in Memory
         /\ mem'.pc = "parking" /\ mem'.batch = mem.batch /\ mem'.cur = d
         /\ mem'.buffer = mem.buffer /\ mem'.slots = mem.slots /\ mem'.seen = mem.seen
         /\ mem'.heads = mem.heads
  BY DEF Memory, PC

(* An accepted message is prepared, its new events counted.                 *)
LEMMA AcceptMemory ==
  ASSUME mem \in Memory, NEW d \in mem.batch, Accept(d)
  PROVE  /\ mem' \in Memory
         /\ mem'.pc = "committing" /\ mem'.batch = mem.batch /\ mem'.cur = d
         /\ mem'.todo = {i \in Index(d.msg) : New(d.msg, i)}
         /\ mem'.buffer = mem.buffer /\ mem'.slots = mem.slots /\ mem'.seen = mem.seen
         /\ mem'.heads = mem.heads
<1> DEFINE new == {i \in Index(d.msg) : New(d.msg, i)}
<1>1. d.msg \in Message /\ d \in Delivery
  BY DEF Memory, Delivery
<1>2. Len(EventsOf[d.msg]) \in Nat /\ new \subseteq 1 .. Len(EventsOf[d.msg])
  BY <1>1, EventsTyped DEF Index
<1>3. IsFiniteSet(1 .. Len(EventsOf[d.msg]))
  BY <1>2, FS_Interval
<1>4. Cardinality(new) \in Nat
  BY <1>2, <1>3, FS_Subset, FS_CardinalityType
<1>5. new \in SUBSET Nat
  BY <1>2
<1>6. mem' = [mem EXCEPT !.pc = "committing", !.cur = d, !.todo = new,
                         !.since = @ + Cardinality(new)]
  BY DEF Accept
<1> HIDE DEF new
<1>7. PICK n \in Nat : n = mem.since + Cardinality(new)
  BY <1>4 DEF Memory
<1>8. mem' = [mem EXCEPT !.pc = "committing", !.cur = d, !.todo = new, !.since = n]
  BY <1>6, <1>7
<1>9. /\ mem' \in Memory
      /\ mem'.pc = "committing" /\ mem'.batch = mem.batch /\ mem'.cur = d
      /\ mem'.todo = new
      /\ mem'.buffer = mem.buffer /\ mem'.slots = mem.slots /\ mem'.seen = mem.seen
      /\ mem'.heads = mem.heads
  BY <1>1, <1>5, <1>8 DEF Memory, PC
<1> QED BY <1>9 DEF new

(* A commit puts the least prepared event where its bar belongs.            *)
LEMMA CommitMemory ==
  ASSUME mem \in Memory, Working, CommitEvent
  PROVE  \E m \in Message, i \in mem.todo :
           LET e == EventsOf[m][i]
               kept(S) == {x \in S : DayOfEvent(x) \in Kept(e)}
           IN /\ m = mem.cur.msg /\ i \in Index(m) /\ \A j \in mem.todo : i <= j
              /\ e \in BarsIn(m)
              /\ mem' \in Memory
              /\ mem'.pc = "committing" /\ mem'.batch = mem.batch /\ mem'.cur = mem.cur
              /\ mem'.todo = mem.todo \ {i}
              /\ \A s \in Shard : mem'.heads[s] =
                   IF s = ShardOf[BarOf[e]] /\ PositionOf[e] > mem.heads[s] THEN PositionOf[e]
                   ELSE mem.heads[s]
              /\ mem'.buffer = Put(mem.buffer, e)
              /\ mem'.slots = Put(kept(mem.slots), e)
              /\ mem'.seen = kept(mem.seen) \cup {e}
<1>1. mem.cur \in mem.batch /\ mem.pc = "committing"
  BY DEF Working, CommitEvent
<1>2. PICK m \in Message : m = mem.cur.msg
  BY <1>1 DEF Memory, Delivery
<1>3. PICK i \in mem.todo :
        /\ \A j \in mem.todo : i <= j
        /\ LET e == EventsOf[m][i]
               shard == ShardOf[BarOf[e]]
               retained(S) == {x \in S : DayOfEvent(x) \in Kept(e)}
           IN mem' = [mem EXCEPT
                !.todo = @ \ {i},
                !.heads[shard] = IF PositionOf[e] > @ THEN PositionOf[e] ELSE @,
                !.buffer = Put(@, e),
                !.slots = Put(retained(@), e),
                !.seen = retained(@) \cup {e}]
  BY <1>2 DEF CommitEvent
<1>4. i \in Index(m) /\ KindOf[EventsOf[m][i]] = "bar"
  BY <1>1, <1>2 DEF Working
<1>5. PICK e : e = EventsOf[m][i]
  OBVIOUS
<1>6. e \in BarsIn(m) /\ e \in Event
  BY <1>4, <1>5, EventsTyped
<1> DEFINE kept(S) == {x \in S : DayOfEvent(x) \in Kept(e)}
<1>7. PICK s : s = ShardOf[BarOf[e]]
  OBVIOUS
<1>8. s \in Shard /\ PositionOf[e] \in Nat
  BY <1>6, <1>7, EventTyped
<1>9. PICK h \in Nat : h = IF PositionOf[e] > mem.heads[s] THEN PositionOf[e] ELSE mem.heads[s]
  BY <1>8 DEF Memory
<1>10. PICK H \in [Shard -> Nat] : H = [mem.heads EXCEPT ![s] = h]
  BY <1>8, <1>9 DEF Memory
<1>11. PICK B \in SUBSET Event : B = Put(mem.buffer, e)
  BY <1>6 DEF Memory, Put
<1>12. PICK L \in SUBSET Event : L = Put(kept(mem.slots), e)
  BY <1>6 DEF Memory, Put
<1>13. PICK Z \in SUBSET Event : Z = kept(mem.seen) \cup {e}
  BY <1>6 DEF Memory
<1>14. PICK T \in SUBSET Nat : T = mem.todo \ {i}
  BY DEF Memory
<1>15. mem' = [mem EXCEPT !.todo = T, !.heads[s] = h, !.buffer = B, !.slots = L, !.seen = Z]
  BY <1>3, <1>5, <1>7, <1>9, <1>11, <1>12, <1>13, <1>14
<1>16. mem' = [mem EXCEPT !.todo = T, !.heads = H, !.buffer = B, !.slots = L, !.seen = Z]
  BY <1>10, <1>15
<1>17. /\ mem' \in Memory
       /\ mem'.pc = mem.pc /\ mem'.batch = mem.batch /\ mem'.cur = mem.cur
       /\ mem'.todo = T /\ mem'.heads = H
       /\ mem'.buffer = B /\ mem'.slots = L /\ mem'.seen = Z
  BY <1>16 DEF Memory
<1>18. \A t \in Shard : H[t] =
         IF t = ShardOf[BarOf[e]] /\ PositionOf[e] > mem.heads[t] THEN PositionOf[e]
         ELSE mem.heads[t]
  BY <1>7, <1>9, <1>10 DEF Memory
<1>19. /\ \A j \in mem.todo : i <= j
       /\ mem'.pc = "committing" /\ mem'.todo = mem.todo \ {i}
       /\ mem'.buffer = Put(mem.buffer, e)
       /\ mem'.slots = Put(kept(mem.slots), e)
       /\ mem'.seen = kept(mem.seen) \cup {e}
       /\ \A t \in Shard : mem'.heads[t] =
            IF t = ShardOf[BarOf[e]] /\ PositionOf[e] > mem.heads[t] THEN PositionOf[e]
            ELSE mem.heads[t]
  BY <1>1, <1>3, <1>11, <1>12, <1>13, <1>14, <1>17, <1>18
<1> WITNESS m \in Message, i \in mem.todo
<1> QED BY <1>2, <1>4, <1>5, <1>6, <1>17, <1>19

(* A publication empties the buffer.                                        *)
LEMMA PublishMemory ==
  ASSUME mem \in Memory, Publish
  PROVE  /\ mem' \in Memory
         /\ mem'.pc = "checkpointing" /\ mem'.batch = mem.batch
         /\ mem'.buffer = {} /\ mem'.slots = mem.slots /\ mem'.seen = mem.seen
         /\ mem'.heads = mem.heads
<1>1. mem' = [mem EXCEPT !.pc = "checkpointing", !.buffer = {}]
  BY DEF Publish
<1> QED BY <1>1 DEF Memory, PC

-----------------------------------------------------------------------------
(* What a step does to the queue                                            *)

(* The message of a delivery in hand is a message.                          *)
LEMMA InHandIsMessage ==
  ASSUME mem \in Memory, NEW d \in mem.batch
  PROVE  d.msg \in Message /\ d.receipt \in Nat /\ d \in Delivery
  BY DEF Memory, Delivery

(* A delete removes at most its message, a release none.                    *)
LEMMA DeleteQueue ==
  ASSUME queue \in [Message -> Envelope], NEW d, d.msg \in Message, Delete(d)
  PROVE  /\ queue' \in [Message -> Envelope]
         /\ \A m \in Message : queue'[m].receives = queue[m].receives
         /\ \A m \in Message : queue[m].state = "gone" => queue'[m].state = "gone"
         /\ \A m \in Message : m # d.msg => queue'[m] = queue[m]
<1>1. CASE UNCHANGED queue
  BY <1>1
<1>2. CASE queue' = [queue EXCEPT ![d.msg].state = "gone"]
  <2>1. \A q \in Envelope : /\ [q EXCEPT !.state = "gone"] \in Envelope
                            /\ [q EXCEPT !.state = "gone"].receives = q.receives
                            /\ [q EXCEPT !.state = "gone"].state = "gone"
    BY DEF Envelope
  <2>2. PICK r : r = [queue[d.msg] EXCEPT !.state = "gone"]
    OBVIOUS
  <2>3. r \in Envelope /\ r.receives = queue[d.msg].receives /\ r.state = "gone"
    BY <2>1, <2>2
  <2>4. queue' = [queue EXCEPT ![d.msg] = r]
    BY <1>2, <2>2
  <2> QED BY <2>3, <2>4
<1> QED BY <1>1, <1>2 DEF Delete

(* Making a message visible takes none from the queue and counts nothing.   *)
LEMMA ReleaseQueue ==
  ASSUME queue \in [Message -> Envelope], NEW d, d.msg \in Message, queue' = MadeVisible(d)
  PROVE  /\ queue' \in [Message -> Envelope]
         /\ \A m \in Message : /\ queue'[m].receives = queue[m].receives
                               /\ queue'[m].state = "gone" <=> queue[m].state = "gone"
<1>1. CASE ~Held(d)
  BY <1>1 DEF MadeVisible
<1>2. CASE Held(d)
  <2>1. \A q \in Envelope : /\ [q EXCEPT !.state = "visible"] \in Envelope
                            /\ [q EXCEPT !.state = "visible"].receives = q.receives
                            /\ [q EXCEPT !.state = "visible"].state = "visible"
    BY DEF Envelope
  <2>2. PICK r : r = [queue[d.msg] EXCEPT !.state = "visible"]
    OBVIOUS
  <2>3. r \in Envelope /\ r.receives = queue[d.msg].receives /\ r.state = "visible"
    BY <2>1, <2>2
  <2>4. queue' = [queue EXCEPT ![d.msg] = r]
    BY <1>2, <2>2 DEF MadeVisible
  <2>5. queue[d.msg].state = "leased"
    BY <1>2 DEF Held
  <2> QED BY <2>3, <2>4, <2>5
<1> QED BY <1>1, <1>2

(* A lease that expires makes its message visible.                          *)
LEMMA ExpiryQueue ==
  ASSUME queue \in [Message -> Envelope], NEW m \in Message, LeaseExpires(m)
  PROVE  /\ queue' \in [Message -> Envelope]
         /\ \A x \in Message : /\ queue'[x].receives = queue[x].receives
                               /\ queue'[x].state = "gone" <=> queue[x].state = "gone"
<1>1. \A q \in Envelope : /\ [q EXCEPT !.state = "visible"] \in Envelope
                          /\ [q EXCEPT !.state = "visible"].receives = q.receives
                          /\ [q EXCEPT !.state = "visible"].state = "visible"
  BY DEF Envelope
<1>2. PICK r : r = [queue[m] EXCEPT !.state = "visible"]
  OBVIOUS
<1>3. r \in Envelope /\ r.receives = queue[m].receives /\ r.state = "visible"
  BY <1>1, <1>2
<1>4. queue' = [queue EXCEPT ![m] = r] /\ queue[m].state = "leased"
  BY <1>2 DEF LeaseExpires
<1> QED BY <1>3, <1>4

(* A receive leases what was visible, once more.                            *)
LEMMA ReceiveQueue ==
  ASSUME queue \in [Message -> Envelope], NEW B \in Receivable,
         queue' = [m \in Message |-> IF m \in B
                     THEN [state |-> "leased", receives |-> queue[m].receives + 1] ELSE queue[m]]
  PROVE  /\ queue' \in [Message -> Envelope]
         /\ B \subseteq Message
         /\ \A m \in Message : /\ queue'[m].receives >= queue[m].receives
                               /\ m \in B => queue'[m].receives > 0
                               /\ queue'[m].state = "gone" <=> queue[m].state = "gone"
<1>1. \A m \in B : m \in Message /\ queue[m].state = "visible"
  BY DEF Receivable
<1>2. \A m \in Message : queue[m].receives \in Nat
  BY DEF Envelope
<1>3. \A n \in Nat : [state |-> "leased", receives |-> n + 1] \in Envelope
  BY DEF Envelope
<1>4. \A m \in Message : queue'[m] \in Envelope
  BY <1>2, <1>3
<1> QED BY <1>1, <1>2, <1>4

(* Messages are never received less often, and one that is gone stays gone; *)
(* only an acknowledgement or the end of a parking takes one away.          *)
LEMMA QueueStep ==
  ASSUME TypeOK, Working, [Next]_vars
  PROVE  /\ queue' \in [Message -> Envelope]
         /\ \A m \in Message : /\ queue'[m].receives >= queue[m].receives
                               /\ queue[m].state = "gone" => queue'[m].state = "gone"
         /\ \A m \in Message : queue'[m].state = "gone" /\ queue[m].state # "gone"
                                 => (Acknowledge \/ ParkDelete) /\ m = mem.cur.msg
<1>1. queue \in [Message -> Envelope] /\ mem \in Memory
  BY DEF TypeOK
<1>2. \A m \in Message : queue[m].receives \in Nat
  BY <1>1 DEF Envelope
<1>3. CASE UNCHANGED queue
  BY <1>1, <1>2, <1>3
<1>4. CASE Poll
  BY <1>1, <1>3, <1>4, ReceiveQueue DEF Poll
<1>5. ASSUME NEW d \in mem.batch, Retry(d) PROVE queue' = MadeVisible(d)
  BY <1>5 DEF Retry
<1>6. ASSUME NEW d \in mem.batch, Retry(d)
      PROVE  /\ queue' \in [Message -> Envelope]
             /\ \A m \in Message : /\ queue'[m].receives = queue[m].receives
                                   /\ queue'[m].state = "gone" <=> queue[m].state = "gone"
  BY <1>1, <1>5, <1>6, ReleaseQueue, InHandIsMessage
<1>7. CASE Acknowledge \/ ParkDelete
  <2>1. mem.cur.msg \in Message /\ Delete(mem.cur)
    BY <1>1, <1>7, InHandIsMessage DEF Acknowledge, ParkDelete, Working
  <2> QED BY <1>1, <1>2, <1>7, <2>1, DeleteQueue
<1>8. ASSUME NEW m \in Message, LeaseExpires(m)
      PROVE  /\ queue' \in [Message -> Envelope]
             /\ \A x \in Message : /\ queue'[x].receives = queue[x].receives
                                   /\ queue'[x].state = "gone" <=> queue[x].state = "gone"
  BY <1>1, <1>8, ExpiryQueue
<1>9. UNCHANGED queue \/ Poll \/ (\E d \in mem.batch : Retry(d)) \/ Acknowledge \/ ParkDelete
      \/ \E m \in Message : LeaseExpires(m)
  BY DEF Next, Advance, vars, Boot, RequestStop, Crash, LeaveLoop, Park, Accept, CommitEvent,
         ParkSend, EndCycle, Publish, Checkpoint
<1> QED BY <1>2, <1>3, <1>4, <1>6, <1>7, <1>8, <1>9

-----------------------------------------------------------------------------
(* The types, and what is worked on                                         *)

(* What a receive puts into the batch are deliveries of received messages.  *)
LEMMA BatchReceived ==
  ASSUME TypeOK, NEW B \in Receivable,
         queue' = [m \in Message |-> IF m \in B
                     THEN [state |-> "leased", receives |-> queue[m].receives + 1] ELSE queue[m]],
         mem' = [mem EXCEPT !.pc = "handling",
               !.batch = {[msg |-> m, receipt |-> queue[m].receives + 1] : m \in B}]
  PROVE  /\ mem' \in Memory
         /\ mem'.pc = "handling"
         /\ \A d \in mem'.batch : d.msg \in Message /\ queue'[d.msg].receives > 0
         /\ mem'.buffer = mem.buffer /\ mem'.slots = mem.slots /\ mem'.seen = mem.seen
         /\ mem'.heads = mem.heads
<1>1. mem \in Memory /\ queue \in [Message -> Envelope]
  BY DEF TypeOK
<1>2. \A m \in B : m \in Message /\ queue[m].receives + 1 \in Nat /\ queue'[m].receives > 0
  BY <1>1, ReceiveQueue DEF Envelope
<1> DEFINE D == {[msg |-> m, receipt |-> queue[m].receives + 1] : m \in B}
<1>3. \A d \in D : d \in Delivery /\ d.msg \in B
  BY <1>2 DEF Delivery
<1>4. D \in SUBSET Delivery
  BY <1>3
<1>5. mem' = [mem EXCEPT !.pc = "handling", !.batch = D]
  OBVIOUS
<1> HIDE DEF D
<1>6. /\ mem' \in Memory
      /\ mem'.pc = "handling" /\ mem'.batch = D
      /\ mem'.buffer = mem.buffer /\ mem'.slots = mem.slots /\ mem'.seen = mem.seen
      /\ mem'.heads = mem.heads
  BY <1>1, <1>4, <1>5, PollMemory
<1> QED BY <1>2, <1>3, <1>6

(* What a step that commits or publishes nothing leaves of the memory: the  *)
(* rows and the heads, or nothing at all.                                   *)
QuietStep ==
  /\ mem' \in Memory
  /\ \/ /\ mem'.buffer = mem.buffer /\ mem'.slots = mem.slots /\ mem'.seen = mem.seen
        /\ mem'.heads = mem.heads
     \/ /\ Boot \/ Crash
        /\ mem'.buffer = {} /\ mem'.slots = {} /\ mem'.seen = {} /\ mem'.batch = {}
        /\ mem'.pc \in {"off", "polling"}
        /\ \A s \in Shard : mem'.heads[s] \in {0, watermark}

(* Every step is quiet, commits an event, or publishes.                     *)
LEMMA EveryStep ==
  ASSUME TypeOK, Working, [Next]_vars
  PROVE  QuietStep \/ CommitEvent \/ Publish
<1>1. mem \in Memory /\ watermark \in Nat
  BY DEF TypeOK
<1>2. CASE UNCHANGED mem
  BY <1>1, <1>2 DEF QuietStep
<1>3. CASE Boot
  <2>1. PICK n \in Nat : n \in {0, watermark} /\ mem' = Started(n)
    BY <1>1, <1>3 DEF Boot
  <2> QED BY <1>3, <2>1, StartedMemory DEF QuietStep
<1>4. CASE Crash
  <2>1. mem' = Off
    BY <1>4 DEF Crash
  <2>2. mem' \in Memory /\ mem'.pc = "off" /\ \A s \in Shard : mem'.heads[s] = 0
    BY <2>1, StartedMemory
  <2>3. mem'.batch = {} /\ mem'.buffer = {} /\ mem'.slots = {} /\ mem'.seen = {}
    BY <2>1, StartedMemory
  <2> QED BY <1>4, <2>2, <2>3 DEF QuietStep
<1>5. CASE Poll
  BY <1>2, <1>5, BatchReceived DEF Poll, QuietStep
<1>6. ASSUME NEW d, mem' = Done(d) PROVE QuietStep
  BY <1>1, <1>6, DoneMemory DEF QuietStep
<1>7. ASSUME NEW p \in PC, NEW b \in BOOLEAN, NEW c \in BOOLEAN, NEW n \in Nat,
             \/ mem' = [mem EXCEPT !.pc = p]
             \/ mem' = [mem EXCEPT !.pc = p, !.closing = c]
             \/ mem' = [mem EXCEPT !.pc = p, !.since = n]
             \/ mem' = [mem EXCEPT !.stop = b] /\ p = mem.pc
      PROVE QuietStep
  BY <1>1, <1>7, PhaseMemory DEF QuietStep
<1>8. \A p \in PC : mem' = [mem EXCEPT !.pc = p] => QuietStep
  BY <1>7
<1>9. CASE RequestStop
  <2>1. mem' = [mem EXCEPT !.stop = TRUE] /\ mem.pc \in PC
    BY <1>1, <1>9 DEF RequestStop, Memory
  <2> QED BY <1>7, <2>1
<1>10. CASE LeaveLoop
  <2>1. mem' = [mem EXCEPT !.pc = "flushing", !.closing = TRUE] /\ "flushing" \in PC
    BY <1>10 DEF LeaveLoop, PC
  <2> QED BY <1>7, <2>1
<1>11. ASSUME NEW d \in mem.batch, Park(d) PROVE QuietStep
  BY <1>1, <1>11, ParkMemory DEF Park, QuietStep
<1>12. ASSUME NEW d \in mem.batch, Retry(d) PROVE QuietStep
  BY <1>6, <1>12 DEF Retry
<1>13. ASSUME NEW d \in mem.batch, Accept(d) PROVE QuietStep
  BY <1>1, <1>13, AcceptMemory DEF QuietStep
<1>14. CASE Acknowledge \/ ParkDelete
  BY <1>6, <1>14 DEF Acknowledge, ParkDelete
<1>15. CASE ParkSend
  <2>1. "parked" \in PC
    BY DEF PC
  <2> QED BY <1>8, <1>15, <2>1 DEF ParkSend
<1>16. CASE EndCycle
  <2>1. (IF mem.since >= FlushEvery THEN "flushing" ELSE "polling") \in PC
    BY DEF PC
  <2> QED BY <1>8, <1>16, <2>1 DEF EndCycle
<1>17. CASE Checkpoint
  <2>1. PICK p \in PC : p = IF mem.closing THEN "stopped" ELSE "polling"
    BY DEF PC
  <2>2. mem' = [mem EXCEPT !.pc = p, !.since = 0]
    BY <1>17, <2>1 DEF Checkpoint
  <2> QED BY <1>7, <2>2
<1>18. ASSUME NEW m \in Message, LeaseExpires(m) PROVE QuietStep
  <2>1. UNCHANGED mem
    BY <1>18 DEF LeaseExpires
  <2> QED BY <1>1, <2>1 DEF QuietStep
<1> QED
  BY <1>2, <1>3, <1>4, <1>5, <1>9, <1>10, <1>11, <1>12, <1>13, <1>14, <1>15, <1>16, <1>17, <1>18
     DEF Next, Advance, vars

(* Every variable keeps its type, and a bar its one row.                    *)
LEMMA TypesKept ==
  ASSUME TypeOK, Working, [Next]_vars
  PROVE  TypeOK'
<1>1. mem \in Memory /\ watermark \in Nat
  BY DEF TypeOK
<1>2. queue' \in [Message -> Envelope]
  BY QueueStep
<1>3. mem' \in Memory /\ OneRowPerBar(mem'.buffer) /\ OneRowPerBar(mem'.slots)
  <2>1. CASE QuietStep
    BY <2>1 DEF QuietStep, TypeOK, OneRowPerBar
  <2>2. CASE CommitEvent
    <3>1. PICK m \in Message, i \in mem.todo :
            LET e == EventsOf[m][i]
                kept(S) == {x \in S : DayOfEvent(x) \in Kept(e)}
            IN /\ mem' \in Memory
               /\ mem'.buffer = Put(mem.buffer, e)
               /\ mem'.slots = Put(kept(mem.slots), e)
      BY <1>1, <2>2, CommitMemory
    <3>2. {x \in mem.slots : DayOfEvent(x) \in Kept(EventsOf[m][i])} \in SUBSET mem.slots
      OBVIOUS
    <3> QED BY <3>1, <3>2, PutOneRow DEF TypeOK
  <2>3. CASE Publish
    BY <1>1, <2>3, PublishMemory DEF OneRowPerBar, TypeOK
  <2> QED BY <2>1, <2>2, <2>3, EveryStep
<1>4. dead' \subseteq Message
  <2>1. CASE ParkSend
    <3>1. mem.cur.msg \in Message
      BY <1>1, <2>1, InHandIsMessage DEF ParkSend, Working
    <3> QED BY <2>1, <3>1 DEF ParkSend, TypeOK
  <2>2. CASE UNCHANGED dead
    BY <2>2 DEF TypeOK
  <2> QED BY <2>1, <2>2 DEF Next, Advance, vars, Boot, RequestStop, Crash, Poll, LeaveLoop, Park,
             Retry, Accept, CommitEvent, Acknowledge, ParkDelete, EndCycle, Publish, Checkpoint,
             LeaseExpires
<1>5. mem.buffer \subseteq Event /\ mem.heads \in [Shard -> Nat]
  BY <1>1 DEF Memory
<1>6. listed' \subseteq Event /\ published' \subseteq Event /\ missed' \subseteq Event
  <2>1. CASE Publish
    BY <1>5, <2>1 DEF Publish, Republished, TypeOK
  <2>2. CASE Crash
    BY <1>5, <2>2 DEF Crash, TypeOK
  <2>3. CASE UNCHANGED <<listed, published, missed>>
    BY <2>3 DEF TypeOK
  <2> QED BY <2>1, <2>2, <2>3 DEF Next, Advance, vars, Boot, RequestStop, Poll, LeaveLoop, Park,
             Retry, Accept, CommitEvent, Acknowledge, ParkSend, ParkDelete, EndCycle, Checkpoint,
             LeaseExpires
<1>7. watermark' \in Nat
  <2>1. CASE Checkpoint
    BY <1>1, <1>5, <2>1, FloorIsLeast DEF Checkpoint
  <2>2. CASE UNCHANGED watermark
    BY <1>1, <2>2
  <2> QED BY <2>1, <2>2 DEF Next, Advance, vars, Boot, RequestStop, Crash, Poll, LeaveLoop, Park,
             Retry, Accept, CommitEvent, Acknowledge, ParkSend, ParkDelete, EndCycle, Publish,
             LeaseExpires
<1>8. faults' \in Nat
  <2>1. faults \in Nat
    BY DEF TypeOK
  <2>2. \A k : Happens(k) => faults' \in Nat
    BY <2>1 DEF Happens
  <2> QED BY <2>1, <2>2 DEF Next, Advance, vars, Boot, RequestStop, Crash, Poll, LeaveLoop, Park,
             Retry, Accept, CommitEvent, Acknowledge, ParkSend, ParkDelete, EndCycle, Publish,
             Checkpoint, LeaseExpires
<1> QED BY <1>2, <1>3, <1>4, <1>6, <1>7, <1>8 DEF TypeOK

(* Deliveries in hand stay deliveries of received messages, whatever of     *)
(* them is done with.                                                       *)
LEMMA StillReceived ==
  ASSUME TypeOK, Working, [Next]_vars, mem'.batch \subseteq mem.batch
  PROVE  \A d \in mem'.batch : queue'[d.msg].receives > 0
<1>1. \A d \in mem'.batch : d.msg \in Message /\ queue[d.msg].receives > 0
  BY InHandIsMessage DEF TypeOK, Working
<1>2. \A m \in Message : queue'[m].receives >= queue[m].receives
                         /\ queue'[m].receives \in Nat /\ queue[m].receives \in Nat
  BY QueueStep DEF TypeOK, Envelope
<1> QED BY <1>1, <1>2

(* What is worked on stays as the phase says.                               *)
LEMMA WorkingKept ==
  ASSUME TypeOK, Working, [Next]_vars
  PROVE  Working'
<1>1. mem \in Memory /\ watermark \in Nat
  BY DEF TypeOK
<1>2. CASE UNCHANGED <<mem, dead>>
  <2>1. \A d \in mem'.batch : queue'[d.msg].receives > 0
    BY <1>2, StillReceived
  <2> QED BY <1>2, <2>1 DEF Working, Index
<1>3. ASSUME mem'.batch \subseteq mem.batch,
             mem'.pc \in {"off", "polling", "handling", "flushing", "stopped"}
      PROVE  Working'
  <2>1. \A d \in mem'.batch : queue'[d.msg].receives > 0
    BY <1>3, StillReceived
  <2> QED BY <1>3, <2>1 DEF Working
<1>4. CASE Boot
  <2>1. PICK n \in Nat : mem' = Started(n)
    BY <1>1, <1>4 DEF Boot
  <2> QED BY <1>3, <2>1, StartedMemory
<1>5. CASE Crash
  BY <1>3, <1>5, StartedMemory DEF Crash
<1>6. CASE Poll
  <2>1. CASE UNCHANGED <<mem, dead>>
    BY <1>2, <2>1
  <2>2. CASE mem' # mem
    <3>1. mem'.pc = "handling" /\ \A d \in mem'.batch : queue'[d.msg].receives > 0
      BY <1>6, <2>2, BatchReceived DEF Poll
    <3> QED BY <3>1 DEF Working
  <2> QED BY <1>6, <2>1, <2>2 DEF Poll
<1>7. CASE RequestStop
  <2>1. mem' = [mem EXCEPT !.stop = TRUE] /\ UNCHANGED dead
    BY <1>7 DEF RequestStop
  <2>2. /\ mem'.pc = mem.pc /\ mem'.batch = mem.batch /\ mem'.cur = mem.cur
        /\ mem'.todo = mem.todo /\ mem'.buffer = mem.buffer
    BY <1>1, <2>1 DEF Memory
  <2>3. \A d \in mem'.batch : queue'[d.msg].receives > 0
    BY <2>2, StillReceived
  <2> QED BY <2>1, <2>2, <2>3 DEF Working, Index
<1>8. CASE LeaveLoop
  <2>1. mem' = [mem EXCEPT !.pc = "flushing", !.closing = TRUE]
    BY <1>8 DEF LeaveLoop
  <2>2. mem'.pc = "flushing" /\ mem'.batch = mem.batch
    BY <1>1, <2>1 DEF Memory
  <2> QED BY <1>3, <2>2
<1>9. ASSUME NEW d \in mem.batch, Park(d) PROVE Working'
  <2>1. mem'.pc = "parking" /\ mem'.batch = mem.batch /\ mem'.cur = d
    BY <1>1, <1>9, ParkMemory DEF Park
  <2>2. \A x \in mem'.batch : queue'[x.msg].receives > 0
    BY <2>1, StillReceived
  <2> QED BY <2>1, <2>2 DEF Working
<1>10. ASSUME NEW d, mem' = Done(d) PROVE Working'
  <2>1. mem'.pc = "handling" /\ mem'.batch = mem.batch \ {d}
    BY <1>1, <1>10, DoneMemory
  <2> QED BY <1>3, <2>1
<1>11. ASSUME NEW d \in mem.batch, Accept(d) PROVE Working'
  <2>1. /\ mem'.pc = "committing" /\ mem'.batch = mem.batch /\ mem'.cur = d
        /\ mem'.todo = {i \in Index(d.msg) : New(d.msg, i)}
    BY <1>1, <1>11, AcceptMemory
  <2>2. \A x \in mem'.batch : queue'[x.msg].receives > 0
    BY <2>1, StillReceived
  <2>3. d.msg \in Message /\ Acceptable(d.msg)
    BY <1>1, <1>11, InHandIsMessage DEF Accept
  <2>4. PICK m \in Message : m = d.msg
    BY <2>3
  <2>5. \A i \in mem'.todo : i \in Index(m) /\ KindOf[EventsOf[m][i]] = "bar"
    BY <2>1, <2>3, <2>4, NewIsBar
  <2> QED BY <2>1, <2>2, <2>4, <2>5 DEF Working, Index
<1>12. CASE CommitEvent
  <2>1. PICK i \in mem.todo :
          /\ mem'.pc = "committing" /\ mem'.batch = mem.batch /\ mem'.cur = mem.cur
          /\ mem'.todo = mem.todo \ {i}
    BY <1>1, <1>12, CommitMemory
  <2>2. \A x \in mem'.batch : queue'[x.msg].receives > 0
    BY <2>1, StillReceived
  <2> QED BY <1>12, <2>1, <2>2 DEF Working, Index, CommitEvent
<1>13. CASE Acknowledge \/ ParkDelete
  BY <1>10, <1>13 DEF Acknowledge, ParkDelete
<1>14. CASE ParkSend
  <2>1. mem' = [mem EXCEPT !.pc = "parked"] /\ mem.cur.msg \in dead' /\ mem.pc = "parking"
    BY <1>14 DEF ParkSend
  <2>2. mem'.pc = "parked" /\ mem'.batch = mem.batch /\ mem'.cur = mem.cur
    BY <1>1, <2>1 DEF Memory
  <2>3. \A x \in mem'.batch : queue'[x.msg].receives > 0
    BY <2>2, StillReceived
  <2> QED BY <2>1, <2>2, <2>3 DEF Working
<1>15. CASE EndCycle
  <2>1. PICK p \in PC : p \in {"flushing", "polling"} /\ mem' = [mem EXCEPT !.pc = p]
    BY <1>15 DEF EndCycle, PC
  <2>2. mem'.pc = p /\ mem'.batch = mem.batch
    BY <1>1, <2>1 DEF Memory
  <2> QED BY <1>3, <2>1, <2>2
<1>16. CASE Publish
  <2>1. mem'.pc = "checkpointing" /\ mem'.batch = mem.batch /\ mem'.buffer = {}
    BY <1>1, <1>16, PublishMemory
  <2>2. \A x \in mem'.batch : queue'[x.msg].receives > 0
    BY <2>1, StillReceived
  <2> QED BY <2>1, <2>2 DEF Working
<1>17. CASE Checkpoint
  <2>1. PICK p \in PC : p \in {"stopped", "polling"}
                        /\ mem' = [mem EXCEPT !.pc = p, !.since = 0]
    BY <1>17 DEF Checkpoint, PC
  <2>2. mem'.pc = p /\ mem'.batch = mem.batch
    BY <1>1, <2>1 DEF Memory
  <2> QED BY <1>3, <2>1, <2>2
<1>18. ASSUME NEW m \in Message, LeaseExpires(m) PROVE Working'
  <2>1. UNCHANGED <<mem, dead>>
    BY <1>18 DEF LeaseExpires
  <2> QED BY <1>2, <2>1
<1> QED
  BY <1>2, <1>4, <1>5, <1>6, <1>7, <1>8, <1>9, <1>10, <1>11, <1>12, <1>13, <1>14, <1>15, <1>16,
     <1>17, <1>18 DEF Next, Advance, vars, Retry

(* What a shard has reached it does not lose.                               *)
LEMMA ReachedStays ==
  ASSUME TypeOK, Working, [Next]_vars, NEW s, NEW n, Reached(s, n)
  PROVE  Reached(s, n)'
<1>1. PICK m \in Message : \E e \in BarsIn(m) :
        queue[m].receives > 0 /\ ShardOf[BarOf[e]] = s /\ PositionOf[e] >= n
  BY DEF Reached
<1>2. queue'[m].receives > 0
  <2>1. queue'[m].receives >= queue[m].receives
        /\ queue'[m].receives \in Nat /\ queue[m].receives \in Nat
    BY QueueStep DEF TypeOK, Envelope
  <2> QED BY <1>1, <2>1
<1> QED BY <1>1, <1>2 DEF Reached, BarsIn, EventsIn

(* A head is the position of a received bar of its shard or a watermark,    *)
(* which every shard has passed.                                            *)
LEMMA HeadsStayReached ==
  ASSUME IngestInv, [Next]_vars
  PROVE  HeadsReached'
<1>1. mem \in Memory /\ watermark \in Nat /\ mem.heads \in [Shard -> Nat]
  BY DEF IngestInv, TypeOK, Memory
<1> SUFFICES ASSUME NEW s \in Shard, mem'.heads[s] > 0 PROVE Reached(s, mem.heads[s])'
  BY DEF HeadsReached
<1>2. PICK n : n = mem'.heads[s]
  OBVIOUS
<1>3. CASE mem'.heads[s] = mem.heads[s]
  <2>1. Reached(s, n)
    BY <1>2, <1>3 DEF IngestInv, HeadsReached
  <2>2. Reached(s, n)'
    BY <2>1, ReachedStays DEF IngestInv
  <2> QED BY <1>2, <2>2 DEF Reached, BarsIn, EventsIn
<1>4. CASE mem'.heads[s] = watermark
  <2>1. Reached(s, n)
    BY <1>2, <1>4 DEF IngestInv, EveryShardPassed, Reached
  <2>2. Reached(s, n)'
    BY <2>1, ReachedStays DEF IngestInv
  <2> QED BY <1>2, <2>2 DEF Reached, BarsIn, EventsIn
<1>5. CASE CommitEvent
  <2>1. PICK m \in Message, i \in mem.todo :
          LET e == EventsOf[m][i] IN
          /\ m = mem.cur.msg /\ e \in BarsIn(m)
          /\ mem'.heads[s] =
               IF s = ShardOf[BarOf[e]] /\ PositionOf[e] > mem.heads[s] THEN PositionOf[e]
               ELSE mem.heads[s]
    BY <1>1, <1>5, CommitMemory DEF IngestInv
  <2>2. PICK e \in BarsIn(m) : e = EventsOf[m][i]
    BY <2>1
  <2>3. queue[m].receives > 0
    BY <1>5, <2>1 DEF IngestInv, Working, CommitEvent
  <2>4. CASE s = ShardOf[BarOf[e]] /\ PositionOf[e] > mem.heads[s]
    <3>1. n = PositionOf[e] /\ n \in Nat
      BY <1>2, <2>1, <2>2, <2>4, EventsTyped, EventTyped
    <3>2. Reached(s, n)
      BY <2>2, <2>3, <2>4, <3>1 DEF Reached
    <3>3. Reached(s, n)'
      BY <3>2, ReachedStays DEF IngestInv
    <3> QED BY <1>2, <3>3 DEF Reached, BarsIn, EventsIn
  <2> QED BY <1>3, <2>1, <2>2, <2>4
<1>6. mem'.heads[s] = mem.heads[s] \/ mem'.heads[s] = watermark \/ CommitEvent
  <2>1. CASE QuietStep
    BY <2>1 DEF QuietStep
  <2>2. CASE Publish
    BY <1>1, <2>2, PublishMemory
  <2> QED BY <2>1, <2>2, EveryStep DEF IngestInv
<1> QED BY <1>3, <1>4, <1>5, <1>6

(* The watermark is moved to the completion floor, or not at all.           *)
LEMMA WatermarkMoves ==
  ASSUME TypeOK, [Next]_vars, watermark' # watermark
  PROVE  Checkpoint /\ watermark' = CompletionFloor
  BY DEF Next, Advance, vars, Boot, RequestStop, Crash, Poll, LeaveLoop, Park,
         Retry, Accept, CommitEvent, Acknowledge, ParkSend, ParkDelete, EndCycle, Publish,
         LeaseExpires, Checkpoint

(* Every declared shard has passed the watermark.                           *)
LEMMA ShardsStayPassed ==
  ASSUME IngestInv, [Next]_vars
  PROVE  EveryShardPassed'
<1>1. mem.heads \in [Shard -> Nat] /\ watermark \in Nat
  BY DEF IngestInv, TypeOK, Memory
<1> SUFFICES ASSUME watermark' > 0, NEW s \in Shard
             PROVE  Reached(s, watermark)'
  BY DEF EveryShardPassed, Reached
<1>2. PICK n : n = watermark'
  OBVIOUS
<1>3. Reached(s, n)
  <2>1. CASE watermark' = watermark
    BY <1>2, <2>1 DEF IngestInv, EveryShardPassed, Reached
  <2>2. CASE watermark' # watermark
    <3>1. n = CompletionFloor /\ n \in Nat /\ n <= mem.heads[s] /\ n > 0
      BY <1>1, <1>2, <2>2, WatermarkMoves, FloorIsLeast DEF IngestInv
    <3>2. mem.heads[s] \in Nat /\ Reached(s, mem.heads[s])
      BY <1>1, <3>1 DEF IngestInv, HeadsReached
    <3>3. PICK m \in Message : \E e \in BarsIn(m) :
            queue[m].receives > 0 /\ ShardOf[BarOf[e]] = s /\ PositionOf[e] >= mem.heads[s]
      BY <3>2 DEF Reached
    <3>4. \A e \in BarsIn(m) : PositionOf[e] \in Nat
      BY EventsTyped, EventTyped
    <3> QED BY <3>1, <3>2, <3>3, <3>4 DEF Reached
  <2> QED BY <2>1, <2>2
<1>4. Reached(s, n)'
  BY <1>3, ReachedStays DEF IngestInv
<1> QED BY <1>2, <1>4 DEF Reached, BarsIn, EventsIn

(* At first nothing has been received, and no shard has passed anything.    *)
LEMMA IngestInvStarts ==
  ASSUME Init
  PROVE  IngestInv
<1>1. queue \in [Message -> Envelope]
  <2>1. [state |-> "visible", receives |-> 0] \in Envelope
    BY DEF Envelope
  <2> QED BY <2>1 DEF Init
<1>2. /\ mem \in Memory /\ mem.pc = "off" /\ mem.batch = {} /\ mem.buffer = {}
      /\ mem.slots = {} /\ \A s \in Shard : mem.heads[s] = 0
  BY StartedMemory DEF Init
<1>3. TypeOK
  BY <1>1, <1>2 DEF Init, TypeOK, OneRowPerBar
<1>4. Working
  BY <1>2 DEF Working
<1>5. HeadsReached /\ EveryShardPassed
  BY <1>2 DEF HeadsReached, EveryShardPassed, Init
<1> QED BY <1>3, <1>4, <1>5 DEF IngestInv

(* The invariant holds in every state of every behaviour.                   *)
THEOREM IngestInvariant == Spec => []IngestInv
<1>1. ASSUME IngestInv, [Next]_vars PROVE IngestInv'
  <2>1. TypeOK' /\ Working'
    BY <1>1, TypesKept, WorkingKept DEF IngestInv
  <2>2. HeadsReached' /\ EveryShardPassed'
    BY <1>1, HeadsStayReached, ShardsStayPassed
  <2> QED BY <2>1, <2>2 DEF IngestInv
<1> QED BY <1>1, IngestInvStarts, PTL DEF Spec

(* Every variable of the consumer holds values of its type, and a bar has   *)
(* one row in the buffer and one slot.                                      *)
THEOREM IngestTypeCorrect == Spec => []TypeOK
<1>1. IngestInv => TypeOK
  BY DEF IngestInv
<1> QED BY <1>1, IngestInvariant, PTL

(* The watermark is a position that a received bar of every declared shard  *)
(* has reached, whatever is delivered late or twice and however often the   *)
(* consumer dies and resumes (watermarks.py, completion_floor).             *)
THEOREM ShardsPassed == Spec => []EveryShardPassed
<1>1. IngestInv => EveryShardPassed
  BY DEF IngestInv
<1> QED BY <1>1, IngestInvariant, PTL

(* A checkpoint never moves the watermark over a bar that is only in the    *)
(* buffer: what is called complete has been handed to a publication.        *)
THEOREM PublishedBeforeWatermark == Spec => WatermarkAfterPublication
<1>1. ASSUME IngestInv, [Next]_vars
      PROVE  [watermark' # watermark =>
                \A e \in mem.buffer : PositionOf[e] > watermark']_vars
  <2>1. watermark' # watermark => mem.buffer = {}
    BY <1>1, WatermarkMoves DEF IngestInv, Working, Checkpoint
  <2> QED BY <2>1
<1> QED BY <1>1, IngestInvariant, PTL DEF Spec, WatermarkAfterPublication

-----------------------------------------------------------------------------
(* What a consumer remembers of the bars it has seen, and where their rows  *)
(* are                                                                      *)

At(i) == EventsOf[mem.cur.msg][i]
Rows == mem.buffer \cup published \cup missed

(* The slots are events seen, and for each event seen there is a slot of    *)
(* its bar with no earlier version: _retain drops both by the session.      *)
SlotsNewest ==
  /\ mem.slots \subseteq mem.seen
  /\ \A e \in mem.seen : \E x \in mem.slots : StandsFor(x, e)

(* What is still to be committed is newer than the slot of its bar and than *)
(* what is committed before it.                                             *)
TodoNewer ==
  mem.pc = "committing" => \A i \in mem.todo :
    /\ \A x \in mem.slots : SameBar(x, At(i)) => RevisionOf[At(i)] > RevisionOf[x]
    /\ \A j \in mem.todo : j < i /\ SameBar(At(j), At(i)) => RevisionOf[At(i)] > RevisionOf[At(j)]

(* An event seen has a row; so has each bar of the message being committed, *)
(* or it will have.                                                         *)
SeenHeld == \A e \in mem.seen : \E x \in Rows : StandsFor(x, e)
CommitHeld ==
  mem.pc = "committing" => \A e \in BarsIn(mem.cur.msg) :
    \E x \in Rows \cup {At(i) : i \in mem.todo} : StandsFor(x, e)

HeldInv ==
  /\ ~Up => mem.buffer = {}
  /\ SlotsNewest /\ TodoNewer /\ SeenHeld /\ CommitHeld /\ Accounted

(* The consumer remembers what it buffers: no session is forgotten whose    *)
(* bars have not been published yet.                                        *)
Remembered == mem.buffer \subseteq mem.slots

(* What stands for a row stands for what the row stands for.                *)
LEMMA StandsForChain ==
  ASSUME NEW x \in Event, NEW y \in Event, NEW z \in Event, StandsFor(x, y), StandsFor(y, z)
  PROVE  StandsFor(x, z)
<1>1. RevisionOf[x] \in Nat /\ RevisionOf[y] \in Nat /\ RevisionOf[z] \in Nat
  BY EventTyped
<1> QED BY <1>1 DEF StandsFor, SameBar

(* An event stands for itself.                                              *)
LEMMA StandsForItself ==
  ASSUME NEW x \in Event
  PROVE  StandsFor(x, x)
  BY EventTyped DEF StandsFor, SameBar

(* All rows, slots and events seen are events.                              *)
LEMMA RowsTyped ==
  ASSUME TypeOK
  PROVE  /\ mem \in Memory
         /\ mem.buffer \subseteq Event /\ mem.slots \subseteq Event /\ mem.seen \subseteq Event
         /\ Rows \subseteq Event /\ Pending \subseteq Event
<1>1. Pending \subseteq Event
  BY EventsTyped DEF Pending
<1> QED BY <1>1 DEF TypeOK, Memory, Rows

(* A new event of an acceptable message is newer than every rival.          *)
LEMMA NewBeatsRivals ==
  ASSUME TypeOK, NEW m \in Message, Acceptable(m), NEW i \in Index(m), New(m, i)
  PROVE  \A x \in Rivals(m, i) : RevisionOf[EventsOf[m][i]] > RevisionOf[x]
<1>1. ~Superseded(m, i) /\ ~Conflicts(m, i)
  BY DEF New, Acceptable, Raises
<1>2. EventsOf[m][i] \in Event /\ RevisionOf[EventsOf[m][i]] \in Nat
  BY EventsTyped, EventTyped
<1>3. Rivals(m, i) \subseteq Event
  <2>1. \A k \in 1 .. i - 1 : EventsOf[m][k] \in Event
    BY EventsTyped DEF Index
  <2> QED BY <2>1, RowsTyped DEF Rivals
<1>4. \A x \in Rivals(m, i) : RevisionOf[x] \in Nat
  BY <1>3, EventTyped
<1> QED BY <1>1, <1>2, <1>4 DEF Superseded, Conflicts

(* Every bar of an acceptable message has a slot or an event seen that      *)
(* stands for it, or is stood for by a new event of the message.            *)
LEMMA AcceptableCovered ==
  ASSUME TypeOK, NEW m \in Message, Acceptable(m), NEW e \in BarsIn(m)
  PROVE  \E x \in mem.slots \cup mem.seen \cup {EventsOf[m][i] : i \in {k \in Index(m) : New(m, k)}} :
           StandsFor(x, e)
<1> DEFINE ev(i) == EventsOf[m][i]
<1> DEFINE bars == {i \in Index(m) : KindOf[ev(i)] = "bar"}
<1> DEFINE C == mem.slots \cup mem.seen \cup {ev(i) : i \in {k \in Index(m) : New(m, k)}}
<1> DEFINE bad == {i \in bars : ~\E x \in C : StandsFor(x, ev(i))}
<1>1. Index(m) \subseteq Nat /\ \A i \in Index(m) : ev(i) \in Event
  BY EventsTyped
<1>2. C \subseteq Event
  BY <1>1, RowsTyped
<1>3. ASSUME bad # {} PROVE FALSE
  <2>1. bad \in SUBSET Nat
    BY <1>1
  <2>2. PICK i \in bad : \A k \in bad : i <= k
    BY <1>3, <2>1, LeastNumber
  <2>3. i \in Index(m) /\ i \in Nat /\ KindOf[ev(i)] = "bar" /\ ev(i) \in Event
    BY <1>1
  <2>4. ASSUME NEW j \in 1 .. i - 1, KindOf[ev(j)] = "bar", StandsFor(ev(j), ev(i)) PROVE FALSE
    <3>1. j \in Index(m) /\ j < i /\ j \in Nat
      BY <2>3, EventsTyped DEF Index
    <3>2. j \in bars /\ j \notin bad
      BY <2>1, <2>2, <2>3, <2>4, <3>1
    <3>3. PICK x \in C : StandsFor(x, ev(j))
      BY <3>2
    <3>4. x \in Event /\ ev(j) \in Event
      BY <1>1, <1>2, <3>1
    <3> HIDE DEF C, ev
    <3>5. StandsFor(x, ev(i))
      BY <2>3, <2>4, <3>3, <3>4, StandsForChain
    <3> QED BY <2>2, <3>5 DEF C
  <2>5. ~New(m, i)
    <3>1. ASSUME New(m, i) PROVE ev(i) \in C
      BY <2>3, <3>1
    <3>2. StandsFor(ev(i), ev(i))
      BY <2>3, StandsForItself
    <3> QED BY <2>2, <3>1, <3>2
  <2>6. CASE Repeated(m, i)
    <3>1. CASE ev(i) \in mem.seen
      BY <2>2, <2>3, <3>1, StandsForItself
    <3>2. CASE \E j \in 1 .. i - 1 : ev(j) = ev(i)
      <4>1. PICK j \in 1 .. i - 1 : ev(j) = ev(i)
        BY <3>2
      <4>2. KindOf[ev(j)] = "bar" /\ StandsFor(ev(j), ev(i))
        BY <2>3, <4>1, StandsForItself
      <4> QED BY <2>4, <4>2
    <3> QED BY <2>6, <3>1, <3>2 DEF Repeated
  <2>7. CASE Superseded(m, i)
    <3>1. PICK x \in Rivals(m, i) : RevisionOf[x] > RevisionOf[ev(i)]
      BY <2>7 DEF Superseded
    <3>2. /\ SameBar(x, ev(i))
          /\ x \in mem.slots \/ \E j \in 1 .. i - 1 : KindOf[ev(j)] = "bar" /\ x = ev(j)
      BY DEF Rivals
    <3>3. x \in Event
      <4>1. \A j \in 1 .. i - 1 : ev(j) \in Event
        BY <1>1, <2>3, EventsTyped DEF Index
      <4> QED BY <3>2, <4>1, RowsTyped
    <3>4. RevisionOf[x] \in Nat /\ RevisionOf[ev(i)] \in Nat
      BY <2>3, <3>3, EventTyped
    <3>5. StandsFor(x, ev(i))
      BY <3>1, <3>2, <3>4 DEF StandsFor
    <3>6. x \notin mem.slots
      BY <2>2, <3>5
    <3> QED BY <2>4, <3>2, <3>5, <3>6
  <2> QED BY <2>3, <2>5, <2>6, <2>7 DEF New
<1>4. \E i \in bars : e = ev(i)
  BY EventsTyped
<1> QED BY <1>3, <1>4

(* How a step comes to commit, to rest, or to move the rows.                *)
SameRows ==
  mem'.buffer = mem.buffer /\ mem'.slots = mem.slots /\ mem'.seen = mem.seen
    /\ published' = published /\ missed' = missed

(* The rows change by an acceptance, a commit, a publication or a restart,  *)
(* and the phase of a process by one of the steps below.                    *)
LEMMA PhaseStep ==
  ASSUME TypeOK, Working, [Next]_vars
  PROVE  \/ /\ SameRows
            /\ mem'.pc = mem.pc /\ mem'.cur = mem.cur /\ mem'.todo = mem.todo
         \/ SameRows /\ mem'.pc \notin {"committing", "off", "stopped"}
         \/ SameRows /\ \E d \in mem.batch : Accept(d)
         \/ SameRows /\ Checkpoint /\ mem.pc = "checkpointing"
         \/ CommitEvent
         \/ Publish
         \/ Boot
         \/ Crash
<1>1. mem \in Memory
  BY DEF TypeOK
<1>2. CASE UNCHANGED <<mem, published, missed>>
  BY <1>2 DEF SameRows
<1>3. CASE Poll
  <2>1. CASE UNCHANGED <<mem, published, missed>>
    BY <2>1 DEF SameRows
  <2>2. CASE mem' # mem
    BY <1>3, <2>2, BatchReceived DEF Poll, SameRows
  <2> QED BY <1>3, <2>1, <2>2 DEF Poll
<1>4. CASE RequestStop
  <2>1. mem' = [mem EXCEPT !.stop = TRUE] /\ UNCHANGED <<published, missed>>
    BY <1>4 DEF RequestStop
  <2>2. /\ mem'.pc = mem.pc /\ mem'.cur = mem.cur /\ mem'.todo = mem.todo
        /\ mem'.buffer = mem.buffer /\ mem'.slots = mem.slots /\ mem'.seen = mem.seen
    BY <1>1, <2>1 DEF Memory
  <2> QED BY <2>1, <2>2 DEF SameRows
<1>5. CASE LeaveLoop
  <2>1. /\ mem' = [mem EXCEPT !.pc = "flushing", !.closing = TRUE]
        /\ UNCHANGED <<published, missed>>
    BY <1>5 DEF LeaveLoop
  <2>2. /\ mem'.pc = "flushing"
        /\ mem'.buffer = mem.buffer /\ mem'.slots = mem.slots /\ mem'.seen = mem.seen
    BY <1>1, <2>1 DEF Memory
  <2> QED BY <2>1, <2>2 DEF SameRows
<1>6. ASSUME NEW d \in mem.batch, Park(d)
      PROVE  SameRows /\ mem'.pc = "parking"
  BY <1>1, <1>6, ParkMemory DEF Park, SameRows
<1>7. ASSUME NEW d, mem' = Done(d), UNCHANGED <<published, missed>>
      PROVE  SameRows /\ mem'.pc = "handling"
  BY <1>1, <1>7, DoneMemory DEF SameRows
<1>8. ASSUME NEW d \in mem.batch, Retry(d)
      PROVE  SameRows /\ mem'.pc = "handling"
  BY <1>7, <1>8 DEF Retry
<1>9. ASSUME NEW d \in mem.batch, Accept(d) PROVE SameRows
  BY <1>1, <1>9, AcceptMemory DEF Accept, SameRows
<1>10. CASE Acknowledge \/ ParkDelete
  BY <1>7, <1>10 DEF Acknowledge, ParkDelete
<1>11. ASSUME NEW p \in PC, mem' = [mem EXCEPT !.pc = p], UNCHANGED <<published, missed>>
       PROVE  SameRows /\ mem'.pc = p
  <2>1. /\ mem'.pc = p
        /\ mem'.buffer = mem.buffer /\ mem'.slots = mem.slots /\ mem'.seen = mem.seen
    BY <1>1, <1>11 DEF Memory
  <2> QED BY <1>11, <2>1 DEF SameRows
<1>12. CASE ParkSend
  <2>1. "parked" \in PC
    BY DEF PC
  <2> QED BY <1>11, <1>12, <2>1 DEF ParkSend
<1>13. CASE EndCycle
  <2>1. PICK p \in PC : p \in {"flushing", "polling"} /\ mem' = [mem EXCEPT !.pc = p]
    BY <1>13 DEF EndCycle, PC
  <2> QED BY <1>11, <1>13, <2>1 DEF EndCycle
<1>14. CASE Checkpoint
  <2>1. PICK p \in PC : mem' = [mem EXCEPT !.pc = p, !.since = 0]
    BY <1>14 DEF Checkpoint, PC
  <2>2. mem'.buffer = mem.buffer /\ mem'.slots = mem.slots /\ mem'.seen = mem.seen
    BY <1>1, <2>1 DEF Memory
  <2>3. UNCHANGED <<published, missed>> /\ mem.pc = "checkpointing"
    BY <1>14 DEF Checkpoint
  <2> QED BY <1>14, <2>2, <2>3 DEF SameRows
<1>15. ASSUME NEW m \in Message, LeaseExpires(m)
       PROVE UNCHANGED mem /\ UNCHANGED published /\ UNCHANGED missed
  BY <1>15 DEF LeaseExpires
<1> QED BY <1>2, <1>3, <1>4, <1>5, <1>6, <1>8, <1>9, <1>10, <1>12, <1>13, <1>14, <1>15
        DEF Next, Advance, vars

(* A consumer that rests has nothing in its buffer.                         *)
LEMMA RestsEmpty ==
  ASSUME IngestInv, ~Up => mem.buffer = {}, [Next]_vars
  PROVE  (~Up => mem.buffer = {})'
<1>1. TypeOK /\ Working /\ mem \in Memory
  BY DEF IngestInv, TypeOK
<1>2. CASE Checkpoint /\ SameRows /\ mem.pc = "checkpointing"
  BY <1>1, <1>2 DEF Working, SameRows
<1>3. CASE CommitEvent
  <2>1. mem'.pc = "committing"
    BY <1>1, <1>3, CommitMemory
  <2> QED BY <2>1 DEF Up
<1>4. CASE Publish
  BY <1>1, <1>4, PublishMemory
<1>5. CASE Boot \/ Crash
  <2>1. PICK n \in Nat : mem' = Started(n) \/ mem' = Off
    BY <1>1, <1>5 DEF Boot, Crash, IngestInv, TypeOK
  <2> QED BY <2>1, StartedMemory
<1>6. ASSUME NEW d \in mem.batch, Accept(d) PROVE mem'.pc = "committing"
  BY <1>1, <1>6, AcceptMemory
<1>7. CASE SameRows /\ mem'.pc = mem.pc
  BY <1>7 DEF SameRows, Up
<1> QED BY <1>1, <1>2, <1>3, <1>4, <1>5, <1>6, <1>7, PhaseStep DEF Up

(* A started or dead consumer has seen nothing.                             *)
LEMMA FreshMemory ==
  ASSUME TypeOK, Boot \/ Crash
  PROVE  /\ mem'.buffer = {} /\ mem'.slots = {} /\ mem'.seen = {}
         /\ mem'.pc \in {"polling", "off"}
<1>1. PICK n \in Nat : mem' = Started(n) \/ mem' = Off
  BY DEF Boot, Crash, TypeOK
<1> QED BY <1>1, StartedMemory

(* The slots follow the events seen.                                        *)
LEMMA SlotsStayNewest ==
  ASSUME TypeOK, Working, SlotsNewest, TodoNewer, [Next]_vars
  PROVE  SlotsNewest'
<1>1. CASE SameRows
  BY <1>1 DEF SameRows, SlotsNewest
<1>2. CASE Boot \/ Crash
  BY <1>2, FreshMemory DEF SlotsNewest
<1>3. CASE Publish
  BY <1>3, PublishMemory DEF SlotsNewest, TypeOK
<1>4. CASE CommitEvent
  <2>1. PICK m \in Message, i \in mem.todo :
          LET e == EventsOf[m][i]
              kept(S) == {x \in S : DayOfEvent(x) \in Kept(e)}
          IN /\ m = mem.cur.msg /\ e \in BarsIn(m)
             /\ mem'.slots = Put(kept(mem.slots), e)
             /\ mem'.seen = kept(mem.seen) \cup {e}
    BY <1>4, CommitMemory DEF TypeOK
  <2>2. PICK e \in Event : e = EventsOf[m][i]
    BY <2>1, EventsTyped
  <2>3. PICK K : K = Kept(e)
    OBVIOUS
  <2>4. /\ \A x : x \in mem'.slots <=>
               x = e \/ (x \in mem.slots /\ DayOfEvent(x) \in K /\ ~SameBar(x, e))
        /\ \A x : x \in mem'.seen <=> x = e \/ (x \in mem.seen /\ DayOfEvent(x) \in K)
    BY <2>1, <2>2, <2>3, PutRows
  <2>5. \A x \in mem.slots : SameBar(x, e) => RevisionOf[e] > RevisionOf[x]
    BY <1>4, <2>1, <2>2 DEF TodoNewer, At, CommitEvent
  <2>6. mem'.slots \subseteq mem'.seen
    BY <2>4 DEF SlotsNewest
  <2>7. ASSUME NEW z \in mem'.seen PROVE \E x \in mem'.slots : StandsFor(x, z)
    <3>1. CASE z = e
      BY <2>4, <3>1, StandsForItself
    <3>2. CASE z # e
      <4>1. z \in mem.seen /\ DayOfEvent(z) \in K
        BY <2>4, <3>2
      <4>2. PICK x \in mem.slots : StandsFor(x, z)
        BY <4>1 DEF SlotsNewest
      <4>3. x \in Event /\ z \in Event
        BY <4>1, RowsTyped
      <4>4. DayOfEvent(x) \in K
        BY <4>1, <4>2 DEF StandsFor, SameBar, DayOfEvent
      <4>5. CASE ~SameBar(x, e)
        BY <2>4, <4>2, <4>4, <4>5
      <4>6. CASE SameBar(x, e)
        <5>1. RevisionOf[e] > RevisionOf[x] /\ RevisionOf[e] \in Nat /\ RevisionOf[x] \in Nat
          BY <2>5, <4>3, <4>6, EventTyped
        <5>2. StandsFor(e, x)
          BY <4>6, <5>1 DEF StandsFor, SameBar
        <5>3. StandsFor(e, z)
          BY <4>2, <4>3, <5>2, StandsForChain
        <5> QED BY <2>4, <5>3
      <4> QED BY <4>5, <4>6
    <3> QED BY <3>1, <3>2
  <2>8. \A z \in mem'.seen : \E x \in mem'.slots : StandsFor(x, z)
    BY <2>7
  <2> QED BY <2>6, <2>8 DEF SlotsNewest, StandsFor, SameBar
<1> QED BY <1>1, <1>2, <1>3, <1>4, PhaseStep

(* What is still to be committed stays newer.                               *)
LEMMA TodoStaysNewer ==
  ASSUME TypeOK, Working, TodoNewer, [Next]_vars
  PROVE  TodoNewer'
<1>1. CASE SameRows /\ mem'.pc = mem.pc /\ mem'.cur = mem.cur /\ mem'.todo = mem.todo
  BY <1>1 DEF SameRows, TodoNewer, At, SameBar
<1>2. CASE mem'.pc # "committing"
  BY <1>2 DEF TodoNewer
<1>3. ASSUME NEW d \in mem.batch, Accept(d) PROVE TodoNewer'
  <2>1. PICK m : m = d.msg
    OBVIOUS
  <2>2. m \in Message /\ Acceptable(m)
    BY <1>3, <2>1, InHandIsMessage DEF TypeOK, Accept
  <2>3. /\ mem'.cur = d /\ mem'.slots = mem.slots
        /\ mem'.todo = {i \in Index(m) : New(m, i)}
    BY <1>3, <2>1, AcceptMemory DEF TypeOK
  <2>4. ASSUME NEW i \in Index(m), New(m, i)
        PROVE  /\ \A x \in mem.slots : SameBar(x, EventsOf[m][i])
                                         => RevisionOf[EventsOf[m][i]] > RevisionOf[x]
               /\ \A j \in Index(m) :
                    New(m, j) /\ j < i /\ SameBar(EventsOf[m][j], EventsOf[m][i])
                      => RevisionOf[EventsOf[m][i]] > RevisionOf[EventsOf[m][j]]
    <3>1. \A x \in Rivals(m, i) : RevisionOf[EventsOf[m][i]] > RevisionOf[x]
      BY <2>2, <2>4, NewBeatsRivals
    <3>2. \A x \in mem.slots : SameBar(x, EventsOf[m][i]) => x \in Rivals(m, i)
      BY DEF Rivals
    <3>3. \A j \in Index(m) : New(m, j) /\ j < i => j \in 1 .. i - 1
      BY <2>2, EventsTyped DEF Index
    <3>4. \A j \in Index(m) :
            New(m, j) /\ j < i /\ SameBar(EventsOf[m][j], EventsOf[m][i])
              => EventsOf[m][j] \in Rivals(m, i)
      BY <2>2, <3>3, NewIsBar DEF Rivals
    <3> QED BY <3>1, <3>2, <3>4
  <2> QED BY <2>1, <2>3, <2>4 DEF TodoNewer, At, SameBar
<1>4. CASE CommitEvent
  <2>1. PICK m \in Message, i \in mem.todo :
          LET e == EventsOf[m][i]
              kept(S) == {x \in S : DayOfEvent(x) \in Kept(e)}
          IN /\ m = mem.cur.msg /\ mem'.cur = mem.cur
             /\ mem'.todo = mem.todo \ {i} /\ \A j \in mem.todo : i <= j
             /\ mem'.slots = Put(kept(mem.slots), e)
    BY <1>4, CommitMemory DEF TypeOK
  <2>2. PICK e : e = EventsOf[m][i]
    OBVIOUS
  <2>3. \A x \in mem'.slots : x = e \/ x \in mem.slots
    BY <2>1, <2>2, PutRows
  <2>4. mem.todo \subseteq Nat /\ mem.pc = "committing"
    BY <1>4 DEF TypeOK, Memory, CommitEvent
  <2>5. \A j \in mem.todo \ {i} : i < j
    BY <2>1, <2>4
  <2> QED BY <2>1, <2>2, <2>3, <2>4, <2>5 DEF TodoNewer, At, SameBar
<1>5. CASE Publish \/ Boot \/ Crash
  BY <1>2, <1>5, FreshMemory, PublishMemory DEF TypeOK
<1>6. CASE Checkpoint
  <2>1. PICK p \in PC : p # "committing" /\ mem' = [mem EXCEPT !.pc = p, !.since = 0]
    BY <1>6 DEF Checkpoint, PC
  <2>2. mem'.pc = p
    BY <2>1 DEF TypeOK, Memory
  <2> QED BY <1>2, <2>1, <2>2
<1> QED BY <1>1, <1>2, <1>3, <1>4, <1>5, <1>6, PhaseStep

(* A commit replaces rows of the buffer by newer ones, as long as what is   *)
(* buffered is remembered.                                                  *)
LEMMA CommitRows ==
  ASSUME TypeOK, Working, TodoNewer, Remembered, CommitEvent
  PROVE  \E m \in Message, i \in mem.todo : \E e \in Event :
           /\ m = mem.cur.msg /\ e = EventsOf[m][i]
           /\ mem'.pc = "committing" /\ mem'.cur = mem.cur /\ mem'.todo = mem.todo \ {i}
           /\ mem'.seen \subseteq mem.seen \cup {e}
           /\ e \in mem'.buffer
           /\ \A y \in mem'.buffer : y = e \/ y \in mem.buffer
           /\ \A x \in mem.slots : SameBar(x, e) => RevisionOf[e] > RevisionOf[x]
           /\ \A x \in Rows : \E y \in Rows' : StandsFor(y, x)
<1>1. PICK m \in Message, i \in mem.todo :
        LET e == EventsOf[m][i]
            kept(S) == {x \in S : DayOfEvent(x) \in Kept(e)}
        IN /\ m = mem.cur.msg /\ e \in BarsIn(m)
           /\ mem'.pc = "committing" /\ mem'.cur = mem.cur /\ mem'.todo = mem.todo \ {i}
           /\ mem'.buffer = Put(mem.buffer, e)
           /\ mem'.seen = kept(mem.seen) \cup {e}
  BY CommitMemory DEF TypeOK
<1>2. PICK e \in Event : e = EventsOf[m][i]
  BY <1>1, EventsTyped
<1>3. \A x : x \in mem'.buffer <=> x = e \/ (x \in mem.buffer /\ ~SameBar(x, e))
  BY <1>1, <1>2, PutRows
<1>4. \A x \in mem.slots : SameBar(x, e) => RevisionOf[e] > RevisionOf[x]
  BY <1>1, <1>2 DEF TodoNewer, At, CommitEvent
<1>5. ASSUME NEW x \in Rows PROVE \E y \in Rows' : StandsFor(y, x)
  <2>1. x \in Event
    BY RowsTyped
  <2>2. published' = published /\ missed' = missed
    BY DEF CommitEvent
  <2>3. CASE x \in published \cup missed \/ ~SameBar(x, e)
    <3>1. x \in Rows'
      BY <1>3, <2>2, <2>3 DEF Rows
    <3> QED BY <2>1, <3>1, StandsForItself
  <2>4. CASE x \in mem.buffer /\ SameBar(x, e)
    <3>1. RevisionOf[e] > RevisionOf[x] /\ RevisionOf[e] \in Nat /\ RevisionOf[x] \in Nat
      BY <1>4, <2>1, <2>4, EventTyped DEF Remembered
    <3>2. StandsFor(e, x) /\ e \in Rows'
      BY <1>3, <2>4, <3>1 DEF StandsFor, SameBar, Rows
    <3> QED BY <3>2
  <2> QED BY <2>3, <2>4 DEF Rows
<1>6. mem'.seen \subseteq mem.seen \cup {e}
  BY <1>1, <1>2
<1>7. /\ e \in mem'.buffer
      /\ \A y \in mem'.buffer : y = e \/ y \in mem.buffer
  BY <1>3
<1>8. \A x \in Rows : \E y \in Rows' : StandsFor(y, x)
  BY <1>5
<1> WITNESS m \in Message, i \in mem.todo
<1> WITNESS e \in Event
<1> QED BY <1>1, <1>2, <1>4, <1>6, <1>7, <1>8

(* A step that neither commits nor ends the consumer keeps every row.       *)
LEMMA RowsStay ==
  ASSUME TypeOK, Working, ~Up => mem.buffer = {}, [Next]_vars, ~CommitEvent, ~Crash
  PROVE  Rows \subseteq Rows'
<1>1. CASE SameRows
  BY <1>1 DEF SameRows, Rows
<1>2. CASE Publish
  BY <1>2 DEF Publish, Rows
<1>3. CASE Boot
  BY <1>3 DEF Boot, Rows
<1> QED BY <1>1, <1>2, <1>3, PhaseStep

(* What has been seen keeps a row.                                          *)
LEMMA SeenStaysHeld ==
  ASSUME TypeOK, Working, TodoNewer, Remembered, SeenHeld, ~Up => mem.buffer = {}, [Next]_vars
  PROVE  SeenHeld'
<1>1. CASE Boot \/ Crash
  BY <1>1, FreshMemory DEF SeenHeld
<1>2. CASE CommitEvent
  <2>1. PICK e \in Event :
           /\ mem'.seen \subseteq mem.seen \cup {e} /\ e \in mem'.buffer
           /\ \A x \in Rows : \E y \in Rows' : StandsFor(y, x)
    BY <1>2, CommitRows
  <2>2. ASSUME NEW z \in mem'.seen PROVE \E y \in Rows' : StandsFor(y, z)
    <3>1. CASE z = e
      BY <2>1, <3>1, StandsForItself DEF Rows
    <3>2. CASE z # e
      <4>1. z \in mem.seen
        BY <2>1, <3>2
      <4>2. PICK x \in Rows : StandsFor(x, z)
        BY <4>1 DEF SeenHeld
      <4>3. PICK y \in Rows' : StandsFor(y, x)
        BY <2>1
      <4>4. x \in Event /\ z \in Event /\ y \in Event
        <5>1. TypeOK'
          BY TypesKept
        <5>2. mem'.buffer \subseteq Event /\ published' \subseteq Event /\ missed' \subseteq Event
          BY <5>1 DEF TypeOK, Memory
        <5> QED BY <4>1, <5>2, RowsTyped DEF Rows
      <4> QED BY <4>2, <4>3, <4>4, StandsForChain
    <3> QED BY <3>1, <3>2
  <2> QED BY <2>2 DEF SeenHeld, StandsFor, SameBar
<1>3. CASE mem'.seen = mem.seen /\ ~CommitEvent /\ ~Crash
  BY <1>3, RowsStay DEF SeenHeld, StandsFor, SameBar
<1>4. Publish => mem'.seen = mem.seen
  BY PublishMemory DEF TypeOK
<1>5. CASE Publish /\ ~CommitEvent /\ ~Crash
  BY <1>3, <1>4, <1>5
<1>6. CASE SameRows /\ ~CommitEvent /\ ~Crash
  BY <1>3, <1>6 DEF SameRows
<1> QED BY <1>1, <1>2, <1>5, <1>6, PhaseStep

(* A message being committed has a row for each of its bars, or will have.  *)
LEMMA CommitStaysHeld ==
  ASSUME TypeOK, Working, TodoNewer, Remembered, SlotsNewest, SeenHeld, CommitHeld, [Next]_vars
  PROVE  CommitHeld'
<1>1. CASE SameRows /\ mem'.pc = mem.pc /\ mem'.cur = mem.cur /\ mem'.todo = mem.todo
  BY <1>1 DEF SameRows, CommitHeld, Rows, At, StandsFor, SameBar, BarsIn, EventsIn
<1>2. CASE mem'.pc # "committing"
  BY <1>2 DEF CommitHeld
<1>3. ASSUME NEW d \in mem.batch, Accept(d), SameRows PROVE CommitHeld'
  <2>1. PICK m : m = d.msg
    OBVIOUS
  <2>2. m \in Message /\ Acceptable(m)
    BY <1>3, <2>1, InHandIsMessage DEF TypeOK, Accept
  <2>3. mem'.cur = d /\ mem'.todo = {i \in Index(m) : New(m, i)} /\ Rows' = Rows
    BY <1>3, <2>1, AcceptMemory DEF TypeOK, SameRows, Rows
  <2>4. ASSUME NEW e \in BarsIn(m)
        PROVE  \E x \in Rows \cup {EventsOf[m][i] : i \in {k \in Index(m) : New(m, k)}} :
                 StandsFor(x, e)
    <3>1. e \in Event
      BY <2>2, EventsTyped
    <3>2. PICK x \in mem.slots \cup mem.seen
                       \cup {EventsOf[m][i] : i \in {k \in Index(m) : New(m, k)}} :
            StandsFor(x, e)
      BY <2>2, AcceptableCovered
    <3>3. CASE x \in mem.slots \cup mem.seen
      <4>1. x \in mem.seen
        BY <3>3 DEF SlotsNewest
      <4>2. PICK y \in Rows : StandsFor(y, x)
        BY <4>1 DEF SeenHeld
      <4>3. x \in Event /\ y \in Event
        BY <4>1, RowsTyped
      <4> QED BY <3>1, <3>2, <4>2, <4>3, StandsForChain
    <3> QED BY <3>2, <3>3
  <2>5. \A i : At(i)' = EventsOf[m][i]
    BY <2>1, <2>3 DEF At
  <2>6. BarsIn(mem.cur.msg)' = BarsIn(m)
    BY <2>1, <2>3 DEF BarsIn, EventsIn
  <2> QED BY <2>3, <2>4, <2>5, <2>6 DEF CommitHeld, StandsFor, SameBar
<1>4. CASE CommitEvent
  <2>1. PICK m \in Message, i \in mem.todo : \E e \in Event :
           /\ m = mem.cur.msg /\ e = EventsOf[m][i]
           /\ mem'.cur = mem.cur /\ mem'.todo = mem.todo \ {i}
           /\ e \in mem'.buffer
           /\ \A x \in Rows : \E y \in Rows' : StandsFor(y, x)
    BY <1>4, CommitRows
  <2>2. Rows' \subseteq Event
    BY TypesKept DEF Rows, TypeOK, Memory
  <2>3. ASSUME NEW z \in BarsIn(m)
        PROVE  \E y \in Rows' \cup {EventsOf[m][j] : j \in mem'.todo} : StandsFor(y, z)
    <3>1. z \in Event
      BY EventsTyped
    <3>2. PICK x \in Rows \cup {EventsOf[m][j] : j \in mem.todo} : StandsFor(x, z)
      <4>1. mem.pc = "committing" /\ mem.cur.msg = m
        BY <1>4, <2>1 DEF CommitEvent
      <4>2. \E x \in Rows \cup {At(j) : j \in mem.todo} : StandsFor(x, z)
        BY <4>1 DEF CommitHeld
      <4>3. \A j : At(j) = EventsOf[m][j]
        BY <4>1 DEF At
      <4> QED BY <4>2, <4>3
    <3>3. CASE x \in Rows
      <4>1. PICK y \in Rows' : StandsFor(y, x)
        BY <2>1, <3>3
      <4>2. x \in Event /\ y \in Event
        BY <2>2, <3>3, RowsTyped
      <4> QED BY <3>1, <3>2, <4>1, <4>2, StandsForChain
    <3>4. CASE x = EventsOf[m][i]
      <4>1. x \in Rows'
        BY <2>1, <3>4 DEF Rows
      <4> QED BY <3>2, <4>1
    <3> QED BY <2>1, <3>2, <3>3, <3>4
  <2>4. \A j : At(j)' = EventsOf[m][j]
    BY <2>1 DEF At
  <2>5. BarsIn(mem.cur.msg)' = BarsIn(m)
    BY <2>1 DEF BarsIn, EventsIn
  <2> QED BY <2>3, <2>4, <2>5 DEF CommitHeld, StandsFor, SameBar
<1>5. CASE Publish \/ Boot \/ Crash
  BY <1>2, <1>5, FreshMemory, PublishMemory DEF TypeOK
<1>6. CASE Checkpoint
  <2>1. PICK p \in PC : p # "committing" /\ mem' = [mem EXCEPT !.pc = p, !.since = 0]
    BY <1>6 DEF Checkpoint, PC
  <2>2. mem'.pc = p
    BY <2>1 DEF TypeOK, Memory
  <2> QED BY <1>2, <2>1, <2>2
<1> QED BY <1>1, <1>2, <1>3, <1>4, <1>5, <1>6, PhaseStep

(* A row that is to come still comes, unless its message is acknowledged.   *)
LEMMA PendingStays ==
  ASSUME TypeOK, Working, [Next]_vars, NEW x \in Pending
  PROVE  x \in Pending' \/ (Acknowledge /\ x \in BarsIn(mem.cur.msg))
<1>1. PICK m \in Message : (queue[m].state # "gone" \/ m \in dead) /\ x \in BarsIn(m)
  BY DEF Pending
<1>2. dead \subseteq dead'
  BY DEF Next, Advance, vars, Boot, RequestStop, Crash, Poll, LeaveLoop, Park, Retry, Accept,
         CommitEvent, Acknowledge, ParkSend, ParkDelete, EndCycle, Publish, Checkpoint,
         LeaseExpires
<1>3. CASE queue'[m].state # "gone" \/ m \in dead'
  <2>1. x \in BarsIn(m)'
    BY <1>1 DEF BarsIn, EventsIn
  <2> QED BY <1>3, <2>1 DEF Pending, BarsIn, EventsIn
<1>4. CASE queue'[m].state = "gone" /\ m \notin dead'
  <2>1. (Acknowledge \/ ParkDelete) /\ m = mem.cur.msg
    BY <1>1, <1>2, <1>4, QueueStep
  <2>2. ~ParkDelete
    BY <1>2, <1>4, <2>1 DEF ParkDelete, Working
  <2> QED BY <1>1, <2>1, <2>2
<1> QED BY <1>3, <1>4

(* A row that is held or to come is so after the step, or one that stands   *)
(* for it is.                                                               *)
LEMMA HeldStays ==
  ASSUME IngestInv, HeldInv, Remembered, [Next]_vars, NEW x \in Rows \cup Pending
  PROVE  \E y \in Rows' \cup Pending' : StandsFor(y, x)
<1>1. TypeOK /\ Working /\ TodoNewer /\ (~Up => mem.buffer = {}) /\ x \in Event
  BY RowsTyped DEF IngestInv, HeldInv
<1>2. CASE CommitEvent
  <2>1. \A z \in Rows : \E y \in Rows' : StandsFor(y, z)
    BY <1>1, <1>2, CommitRows
  <2>2. Pending' = Pending
    BY <1>2 DEF CommitEvent, Pending, BarsIn, EventsIn
  <2> QED BY <1>1, <2>1, <2>2, StandsForItself
<1>3. CASE Crash
  <2>1. Pending' = Pending
    BY <1>3 DEF Crash, Pending, BarsIn, EventsIn
  <2>2. Rows \subseteq Rows' \cup Pending'
    BY <1>3, <2>1 DEF Crash, Rows
  <2> QED BY <1>1, <2>1, <2>2, StandsForItself
<1>4. CASE ~CommitEvent /\ ~Crash
  <2>1. Rows \subseteq Rows'
    BY <1>1, <1>4, RowsStay
  <2>2. CASE x \in Rows' \cup Pending'
    BY <1>1, <2>2, StandsForItself
  <2>3. CASE x \notin Rows' \cup Pending'
    <3>1. Acknowledge /\ x \in BarsIn(mem.cur.msg)
      BY <1>1, <2>1, <2>3, PendingStays
    <3>2. \E y \in Rows : StandsFor(y, x)
      BY <3>1 DEF Acknowledge, HeldInv, CommitHeld
    <3> QED BY <2>1, <3>2
  <2> QED BY <2>2, <2>3
<1> QED BY <1>2, <1>3, <1>4

(* Every bar of an acknowledged message stays accounted for.                *)
LEMMA StaysAccounted ==
  ASSUME IngestInv, HeldInv, Remembered, [Next]_vars
  PROVE  Accounted'
<1>1. TypeOK /\ Working /\ TypeOK'
  BY TypesKept DEF IngestInv
<1>2. Rows' \cup Pending' \subseteq Event
  <2>1. Pending' \subseteq Event
    BY EventsTyped DEF Pending, BarsIn, EventsIn, Index
  <2> QED BY <1>1, <2>1 DEF Rows, TypeOK, Memory
<1> SUFFICES ASSUME NEW m \in Message, queue'[m].state = "gone", m \notin dead', NEW e \in BarsIn(m)
             PROVE  \E x \in Rows' \cup Pending' : StandsFor(x, e)
  BY DEF Accounted, Rows, BarsIn, EventsIn, StandsFor, SameBar
<1>3. e \in Event
  BY EventsTyped
<1>4. dead \subseteq dead'
  BY DEF Next, Advance, vars, Boot, RequestStop, Crash, Poll, LeaveLoop, Park, Retry, Accept,
         CommitEvent, Acknowledge, ParkSend, ParkDelete, EndCycle, Publish, Checkpoint,
         LeaseExpires
<1>5. \E x \in Rows \cup Pending : StandsFor(x, e)
  <2>1. CASE queue[m].state = "gone"
    BY <1>4, <2>1 DEF HeldInv, Accounted, Rows
  <2>2. CASE queue[m].state # "gone"
    <3>1. (Acknowledge \/ ParkDelete) /\ m = mem.cur.msg
      BY <1>1, <2>2, QueueStep
    <3>2. ~ParkDelete
      BY <1>1, <1>4, <3>1 DEF ParkDelete, Working
    <3> QED BY <3>1, <3>2 DEF Acknowledge, HeldInv, CommitHeld
  <2> QED BY <2>1, <2>2
<1>6. PICK x \in Rows \cup Pending : StandsFor(x, e)
  BY <1>5
<1>7. PICK y \in Rows' \cup Pending' : StandsFor(y, x)
  BY <1>6, HeldStays
<1>8. x \in Event /\ y \in Event
  BY <1>1, <1>2, RowsTyped
<1> QED BY <1>3, <1>6, <1>7, <1>8, StandsForChain

(* At first nothing is gone, and nothing has been seen.                     *)
LEMMA HeldInvStarts ==
  ASSUME Init
  PROVE  HeldInv
<1>1. mem.pc = "off" /\ mem.buffer = {} /\ mem.slots = {} /\ mem.seen = {}
  BY StartedMemory DEF Init
<1>2. Accounted
  BY DEF Init, Accounted
<1> QED BY <1>1, <1>2 DEF HeldInv, SlotsNewest, TodoNewer, SeenHeld, CommitHeld

(* As long as a consumer remembers what it buffers, rows are where the      *)
(* invariant says.                                                          *)
THEOREM HeldInvariant == Spec /\ []Remembered => []HeldInv
<1>1. ASSUME IngestInv, HeldInv, Remembered, [Next]_vars PROVE HeldInv'
  <2>1. TypeOK /\ Working
    BY <1>1 DEF IngestInv
  <2>2. (~Up => mem.buffer = {})'
    BY <1>1, RestsEmpty DEF HeldInv
  <2>3. SlotsNewest' /\ TodoNewer'
    BY <1>1, <2>1, SlotsStayNewest, TodoStaysNewer DEF HeldInv
  <2>4. SeenHeld' /\ CommitHeld'
    BY <1>1, <2>1, SeenStaysHeld, CommitStaysHeld DEF HeldInv
  <2>5. Accounted'
    BY <1>1, StaysAccounted
  <2> QED BY <2>2, <2>3, <2>4, <2>5 DEF HeldInv
<1> QED BY <1>1, HeldInvStarts, IngestInvariant, PTL DEF Spec

(* No flush empties a session it does not publish again.                    *)
THEOREM SessionsStay == Spec => []SessionsStand
<1>1. Init => SessionsStand
  BY DEF Init, SessionsStand
<1>2. ASSUME SessionsStand, UNCHANGED <<listed, published>> PROVE SessionsStand'
  BY <1>2 DEF SessionsStand
<1>3. ASSUME SessionsStand, Publish PROVE SessionsStand'
  <2>1. CASE UNCHANGED <<listed, published>>
    BY <1>2, <1>3, <2>1
  <2>2. CASE listed' = Republished /\ published' = published \cup mem.buffer
    <3> SUFFICES ASSUME NEW e \in published \cup mem.buffer
                 PROVE  \E x \in Republished : DayOfEvent(x) = DayOfEvent(e)
      BY <2>2 DEF SessionsStand, DayOfEvent
    <3>1. CASE e \in mem.buffer
      BY <3>1 DEF Republished
    <3>2. CASE e \in published
      <4>1. PICK x \in listed : DayOfEvent(x) = DayOfEvent(e)
        BY <1>3, <3>2 DEF SessionsStand
      <4>2. CASE x \in Republished
        BY <4>1, <4>2
      <4>3. CASE x \notin Republished
        <5>1. PICK y \in mem.buffer : DayOfEvent(y) = DayOfEvent(x)
          BY <4>3 DEF Republished
        <5> QED BY <4>1, <5>1 DEF Republished
      <4> QED BY <4>2, <4>3
    <3> QED BY <3>1, <3>2
  <2> QED BY <1>3, <2>1, <2>2 DEF Publish
<1>4. ASSUME SessionsStand, [Next]_vars, ~Publish PROVE SessionsStand'
  <2>1. UNCHANGED <<listed, published>>
    BY <1>4 DEF Next, Advance, vars, Boot, RequestStop, Crash, Poll, LeaveLoop, Park, Retry,
       Accept, CommitEvent, Acknowledge, ParkSend, ParkDelete, EndCycle, Checkpoint, LeaseExpires
  <2> QED BY <1>2, <1>4, <2>1
<1> QED BY <1>1, <1>3, <1>4, PTL DEF Spec

(* Every bar of an acknowledged message is held, was published once, or is  *)
(* named as dead with its consumer or quarantined; a published session      *)
(* stays listed; and the watermark is passed by every shard: as long as the *)
(* consumer remembers what it buffers.                                      *)
THEOREM NothingIsSkipped == Spec /\ []Remembered => []NothingSkipped
<1>1. HeldInv /\ SessionsStand /\ EveryShardPassed => NothingSkipped
  BY DEF HeldInv, NothingSkipped
<1> QED BY <1>1, HeldInvariant, SessionsStay, ShardsPassed, PTL

(* A commit puts no older version of a bar over one that is buffered or has *)
(* been seen.                                                               *)
LEMMA CommitsNewer ==
  ASSUME IngestInv, HeldInv, Remembered, [Next]_vars
  PROVE  \A x \in mem.buffer \cup mem.seen, y \in mem'.buffer \ mem.buffer :
           SameBar(x, y) => RevisionOf[y] > RevisionOf[x]
<1>1. TypeOK /\ Working /\ TodoNewer /\ SlotsNewest
  BY DEF IngestInv, HeldInv
<1>2. CASE CommitEvent
  <2>1. PICK e \in Event :
          /\ \A y \in mem'.buffer : y = e \/ y \in mem.buffer
          /\ \A x \in mem.slots : SameBar(x, e) => RevisionOf[e] > RevisionOf[x]
    BY <1>1, <1>2, CommitRows
  <2>2. ASSUME NEW x \in mem.buffer \cup mem.seen, SameBar(x, e)
        PROVE  RevisionOf[e] > RevisionOf[x]
    <3>1. CASE x \in mem.buffer
      BY <2>1, <2>2, <3>1 DEF Remembered
    <3>2. CASE x \in mem.seen
      <4>1. PICK z \in mem.slots : StandsFor(z, x)
        BY <1>1, <3>2 DEF SlotsNewest
      <4>2. RevisionOf[e] > RevisionOf[z]
        BY <2>1, <2>2, <4>1 DEF StandsFor, SameBar
      <4>3. /\ RevisionOf[e] \in Nat /\ RevisionOf[z] \in Nat /\ RevisionOf[x] \in Nat
        BY <1>1, <3>2, RowsTyped, EventTyped
      <4> QED BY <4>1, <4>2, <4>3 DEF StandsFor
    <3> QED BY <3>1, <3>2
  <2> QED BY <2>1, <2>2
<1>3. CASE ~CommitEvent
  <2>1. mem'.buffer \ mem.buffer = {}
    BY <1>1, <1>3, PhaseStep, FreshMemory, PublishMemory DEF SameRows, TypeOK
  <2> QED BY <2>1
<1> QED BY <1>2, <1>3

(* As long as the consumer remembers what it buffers, a version of a bar is *)
(* never put over a newer one.                                              *)
THEOREM NewerStays == Spec /\ []Remembered => NewerOnly
<1>1. ASSUME IngestInv, HeldInv, Remembered, [Next]_vars
      PROVE  [\A x \in mem.buffer \cup mem.seen, y \in mem'.buffer \ mem.buffer :
                SameBar(x, y) => RevisionOf[y] > RevisionOf[x]]_vars
  BY <1>1, CommitsNewer
<1> QED BY <1>1, HeldInvariant, IngestInvariant, PTL DEF Spec, NewerOnly

-----------------------------------------------------------------------------
(* The retention window                                                     *)

(* The sessions of the bars of a stream.                                    *)
Sessions == {DayOf[b] : b \in Bar}

(* If the window holds every session, no session is dropped.                *)
LEMMA EverySessionKept ==
  ASSUME IsFiniteSet(Sessions), Cardinality(Sessions) <= Retention,
         TypeOK, NEW e \in Event, NEW x \in mem.seen \cup mem.slots
  PROVE  DayOfEvent(x) \in Kept(e)
<1> DEFINE days == {DayOfEvent(z) : z \in {e} \cup mem.seen \cup mem.slots}
<1>1. \A z \in Event : DayOfEvent(z) \in Sessions
  BY EventTyped DEF Sessions, DayOfEvent
<1>2. days \subseteq Sessions /\ DayOfEvent(x) \in days /\ Sessions \subseteq Nat
  BY <1>1, RowsTyped, IngestAssumption DEF Sessions
<1> DEFINE newer == {y \in days : y > DayOfEvent(x)}
<1>3. newer \subseteq Sessions \ {DayOfEvent(x)} /\ DayOfEvent(x) \in Sessions
  <2>1. \A y \in newer : y # DayOfEvent(x)
    BY <1>2
  <2> QED BY <1>2, <2>1
<1> HIDE DEF newer
<1>4. Cardinality(newer) < Cardinality(Sessions) /\ Cardinality(newer) \in Nat
      /\ Cardinality(Sessions) \in Nat
  <2>1. /\ IsFiniteSet(newer) /\ newer \subseteq Sessions
        /\ Cardinality(newer) <= Cardinality(Sessions)
        /\ Cardinality(newer) = Cardinality(Sessions) => newer = Sessions
    <3>1. newer \in SUBSET Sessions
      BY <1>3
    <3> QED BY <3>1, FS_Subset
  <2>2. Cardinality(newer) \in Nat /\ Cardinality(Sessions) \in Nat
    BY <2>1, FS_CardinalityType
  <2> QED BY <1>3, <2>1, <2>2
<1>5. Retention \in Nat
  BY IngestAssumption
<1>6. Cardinality(newer) < Retention
  BY <1>4, <1>5
<1> QED BY <1>2, <1>6 DEF Kept, Newest, newer

(* A stream with no more sessions than DEDUP_SESSION_RETENTION never makes  *)
(* the consumer forget what it buffers.                                     *)
THEOREM WindowRemembers ==
  ASSUME IsFiniteSet(Sessions), Cardinality(Sessions) <= Retention
  PROVE  Spec => []Remembered
<1>1. Init => Remembered
  BY StartedMemory DEF Init, Remembered
<1>2. ASSUME IngestInv, Remembered, [Next]_vars PROVE Remembered'
  <2>1. TypeOK /\ Working
    BY <1>2 DEF IngestInv
  <2>2. CASE CommitEvent
    <3>1. PICK m \in Message, i \in mem.todo :
            LET e == EventsOf[m][i]
                kept(S) == {x \in S : DayOfEvent(x) \in Kept(e)}
            IN /\ e \in BarsIn(m)
               /\ mem'.buffer = Put(mem.buffer, e)
               /\ mem'.slots = Put(kept(mem.slots), e)
      BY <2>1, <2>2, CommitMemory DEF TypeOK
    <3>2. PICK e \in Event : e = EventsOf[m][i]
      BY <3>1, EventsTyped
    <3>3. \A x \in mem.slots : DayOfEvent(x) \in Kept(e)
      BY <2>1, EverySessionKept
    <3>4. {x \in mem.slots : DayOfEvent(x) \in Kept(e)} = mem.slots
      BY <3>3
    <3> QED BY <1>2, <3>1, <3>2, <3>4 DEF Remembered, Put
  <2>3. CASE SameRows
    BY <1>2, <2>3 DEF SameRows, Remembered
  <2>4. CASE Publish \/ Boot \/ Crash
    BY <2>1, <2>4, FreshMemory, PublishMemory DEF Remembered, TypeOK
  <2> QED BY <2>1, <2>2, <2>3, <2>4, <1>2, PhaseStep
<1> QED BY <1>1, <1>2, IngestInvariant, PTL DEF Spec

(* So within the window an acknowledgement and the watermark are worth what *)
(* NothingSkipped says.                                                     *)
COROLLARY NothingSkippedInWindow ==
  ASSUME IsFiniteSet(Sessions), Cardinality(Sessions) <= Retention
  PROVE  Spec => []NothingSkipped
BY WindowRemembers, NothingIsSkipped, PTL

(* And within the window no older version of a bar is put over a newer one. *)
COROLLARY NewerOnlyInWindow ==
  ASSUME IsFiniteSet(Sessions), Cardinality(Sessions) <= Retention
  PROVE  Spec => NewerOnly
BY WindowRemembers, NewerStays, PTL
=============================================================================
