--------------------------- MODULE PipelineWorker ---------------------------
(***************************************************************************)
(* The pipeline-worker consumer loop (apps/pipeline_worker/worker.py) on a  *)
(* durable queue with leases and a dead-letter queue (messaging.py).        *)
(*                                                                          *)
(* A worker receives a batch, renews the lease of every message of it from  *)
(* heartbeat threads, and handles the messages one by one: validate, claim  *)
(* the command id, execute, acknowledge.  A failure is retried until the    *)
(* message's deliveries are used up, then parked.  A stop request, a crash, *)
(* a lost lease or a failing queue call may come between any two steps.     *)
(***************************************************************************)
EXTENDS Naturals, Sequences, FiniteSets

CONSTANTS
  Process,          \* worker processes
  Message,          \* messages on the queue
  Command,          \* command ids
  CommandOf,        \* the command id each message carries
  KindOf,           \* what each message is, see Kind
  BatchSize,        \* max_messages_per_poll
  MaxReceiveCount,  \* max_receive_count
  CacheSize,        \* idempotency_cache_size
  Faults,           \* the faults that may happen, see Fault
  MaxFaults,        \* bound: how many of them in a behaviour
  MaxDeliveries     \* bound: how often the queue delivers a message

(* Malformed messages do not parse, or parse and the executor refuses their *)
(* payload; approvals stand for the commands that keep their own durable    *)
(* idempotency.                                                             *)
Kind == {"plain", "malformed", "approval"}

(* A process dies, is asked to stop, cannot prepare, cannot renew a lease,  *)
(* cannot reach the queue, or is stalled for longer than a lease.           *)
Fault == {"crash", "stop", "prepare", "heartbeat", "broker", "stall"}

ASSUME WorkerAssumption ==
  /\ CommandOf \in [Message -> Command]
  /\ KindOf \in [Message -> Kind]
  /\ BatchSize \in Nat \ {0}
  /\ MaxReceiveCount \in Nat \ {0}
  /\ CacheSize \in Nat \ {0}
  /\ Faults \subseteq Fault
  /\ MaxFaults \in Nat
  /\ MaxDeliveries \in Nat

VARIABLES
  queue,     \* each message's state and ApproximateReceiveCount
  dead,      \* messages on the dead-letter queue
  executed,  \* commands whose effect has been applied
  proc,      \* what each process has in memory
  faults     \* how many faults have happened

vars == <<queue, dead, executed, proc, faults>>

Envelope == [state : {"visible", "leased", "gone"}, receives : Nat]
Delivery == [msg : Message, receipt : Nat]
NoDelivery == [msg |-> "none", receipt |-> 0]

Outcome == {"SUCCEEDED", "DUPLICATE", "REJECTED", "FAILED", "DEAD_LETTERED"}
PC == {"off", "starting", "polling", "batch", "executing", "finishing",
       "parking", "parked", "unparked", "closing", "stopped"}

Memory == [pc      : PC,
           stop    : BOOLEAN,
           drain   : BOOLEAN,
           status  : {"STARTING", "READY", "DRAINING", "STOPPED", "FAILED"},
           batch   : SUBSET Delivery,
           cur     : Delivery \cup {NoDelivery},
           lapsed  : SUBSET Message,
           claims  : Seq(Command),
           results : [Message -> Outcome \cup {"none"}],
           verdict : {"REJECTED", "DEAD_LETTERED"}]

Fresh == [pc |-> "starting", stop |-> FALSE, drain |-> FALSE,
          status |-> "STARTING", batch |-> {}, cur |-> NoDelivery, lapsed |-> {},
          claims |-> <<>>, results |-> [m \in Message |-> "none"],
          verdict |-> "REJECTED"]
Off == [Fresh EXCEPT !.pc = "off"]

Alive(p) == proc[p].pc \notin {"off", "stopped"}

(* A fault of a kind happens only within the budget.                        *)
Happens(kind) ==
  /\ kind \in Faults
  /\ faults < MaxFaults
  /\ faults' = faults + 1

-----------------------------------------------------------------------------
(* The queue                                                                *)

(* The lease of a delivery is the current one.                              *)
Held(d) == queue[d.msg] = [state |-> "leased", receives |-> d.receipt]

Receive(batch) ==
  [m \in Message |-> IF m \in batch
     THEN [state |-> "leased", receives |-> queue[m].receives + 1] ELSE queue[m]]

Receivable ==
  {batch \in SUBSET {m \in Message : /\ queue[m].state = "visible"
                                     /\ queue[m].receives < MaxDeliveries} :
     Cardinality(batch) <= BatchSize}

(* change_message_visibility with a receipt that is not current does not    *)
(* touch the message.                                                       *)
MadeVisible(d) ==
  IF Held(d) THEN [queue EXCEPT ![d.msg].state = "visible"] ELSE queue

(* delete_message with an old receipt may or may not delete.                *)
Delete(d) ==
  \/ queue' = [queue EXCEPT ![d.msg].state = "gone"]
  \/ queue[d.msg].receives # d.receipt /\ UNCHANGED queue

(* A call on a receipt that is not current may raise; any call raises when  *)
(* the queue cannot be reached, and then may have taken effect or not.      *)
CallRaises(d) ==
  \/ ~Held(d) /\ UNCHANGED faults
  \/ Happens("broker")

(* A live process renews the lease of every delivery of its batch, until a  *)
(* renewal fails.                                                           *)
Renewed(m) ==
  \E p \in Process :
    /\ m \notin proc[p].lapsed
    /\ \E d \in proc[p].batch : d.msg = m /\ Held(d)

LeaseExpires(m) ==
  /\ queue[m].state = "leased"
  /\ IF Renewed(m) THEN Happens("stall") ELSE UNCHANGED faults
  /\ queue' = [queue EXCEPT ![m].state = "visible"]
  /\ UNCHANGED <<dead, executed, proc>>

(* extend_visibility raises: the thread keeps the error and ends.           *)
HeartbeatFails(p, m) ==
  /\ \E d \in proc[p].batch : d.msg = m
  /\ m \notin proc[p].lapsed
  /\ proc[p].pc \in {"batch", "executing"}
  /\ Happens("heartbeat")
  /\ proc' = [proc EXCEPT ![p].lapsed = @ \cup {m}]
  /\ UNCHANGED <<queue, dead, executed>>

-----------------------------------------------------------------------------
(* Command ids this process has claimed: a bounded LRU.                     *)
Index(c, s) == {i \in 1 .. Len(s) : s[i] = c}
Claimed(c, s) == Index(c, s) # {}
Forget(c, s) ==
  IF ~Claimed(c, s) THEN s
  ELSE LET at == CHOOSE i \in Index(c, s) : TRUE
       IN [i \in 1 .. Len(s) - 1 |-> IF i < at THEN s[i] ELSE s[i + 1]]
(* Mutant: the cache is not bounded.                                        *)
ClaimUnbounded(c, s) == Append(Forget(c, s), c)
Claim(c, s) ==
  LET longer == Append(Forget(c, s), c)
  IN IF Len(longer) > CacheSize THEN Tail(longer) ELSE longer

(* Approvals carry their own durable idempotency and bypass the claims.     *)
Durable(m) == KindOf[m] = "approval"
(* Mutant: the claim outlives the failure.                                  *)
AfterFailureKept(p, m) == proc[p].claims
AfterFailure(p, m) ==
  IF Durable(m) THEN proc[p].claims ELSE Forget(CommandOf[m], proc[p].claims)

(* The worker is done with a delivery, whose last outcome it records.       *)
Dropped(p, d) == {x \in proc[p].batch : x # d}
NextMessage(p, d, claims, outcome) ==
  [proc[p] EXCEPT !.pc = "batch", !.batch = Dropped(p, d), !.cur = NoDelivery,
                  !.lapsed = @ \ {d.msg}, !.claims = claims,
                  !.results[d.msg] = outcome]

Ended(status) == IF status = "FAILED" THEN "FAILED" ELSE "STOPPED"
Draining(status) == IF status = "FAILED" THEN "FAILED" ELSE "DRAINING"

(* An exception nobody catches: out of the loop into the shutdown, out of   *)
(* the drain to the end.  What is left of the batch stays leased.           *)
Raised(memory) ==
  [memory EXCEPT !.pc = IF memory.drain THEN "stopped" ELSE "closing",
                 !.status = IF memory.drain THEN Ended(@) ELSE Draining(@),
                 !.batch = {}, !.cur = NoDelivery, !.lapsed = {}]

-----------------------------------------------------------------------------
(* Life of a process                                                        *)
Init ==
  /\ queue = [m \in Message |-> [state |-> "visible", receives |-> 0]]
  /\ dead = {}
  /\ executed = {}
  /\ proc = [p \in Process |-> Off]
  /\ faults = 0

Boot(p) ==
  /\ ~Alive(p)
  /\ proc' = [proc EXCEPT ![p] = Fresh]
  /\ UNCHANGED <<queue, dead, executed, faults>>

(* Mutant: run() clears the stop flag before the loop.                      *)
StartCleared(p) ==
  /\ proc[p].pc = "starting"
  /\ proc' = [proc EXCEPT ![p].pc = "polling", ![p].status = "READY", ![p].stop = FALSE]
  /\ UNCHANGED <<queue, dead, executed, faults>>

(* prepare() returned; the status becomes READY whatever happened since.    *)
Start(p) ==
  /\ proc[p].pc = "starting"
  /\ proc' = [proc EXCEPT ![p].pc = "polling", ![p].status = "READY"]
  /\ UNCHANGED <<queue, dead, executed, faults>>

(* prepare() raised; only an application error marks the worker FAILED.     *)
StartFails(p) ==
  /\ proc[p].pc = "starting"
  /\ Happens("prepare")
  /\ \E status \in {"FAILED", "DRAINING"} :
       proc' = [proc EXCEPT ![p].pc = "closing", ![p].status = status]
  /\ UNCHANGED <<queue, dead, executed>>

(* A signal, or the limit of idle polls.                                    *)
RequestStop(p) ==
  /\ Alive(p)
  /\ ~proc[p].stop
  /\ Happens("stop")
  /\ proc' = [proc EXCEPT ![p].stop = TRUE, ![p].status = Draining(@)]
  /\ UNCHANGED <<queue, dead, executed>>

Crash(p) ==
  /\ Alive(p)
  /\ Happens("crash")
  /\ proc' = [proc EXCEPT ![p] = Off]
  /\ UNCHANGED <<queue, dead, executed>>

Deliveries(batch) == {[msg |-> m, receipt |-> queue[m].receives + 1] : m \in batch}

Poll(p) ==
  /\ proc[p].pc = "polling"
  /\ ~proc[p].stop
  /\ \/ \E batch \in Receivable \ {{}} :
          /\ queue' = Receive(batch)
          /\ proc' = [proc EXCEPT ![p].pc = "batch", ![p].batch = Deliveries(batch)]
          /\ UNCHANGED faults
     \/ UNCHANGED <<queue, proc, faults>>  \* an empty receive: poll again
     \/ /\ Happens("broker")
        /\ \E batch \in Receivable : queue' = Receive(batch)
        /\ proc' = [proc EXCEPT ![p] = Raised(@)]
  /\ UNCHANGED <<dead, executed>>

LeaveLoop(p) ==
  /\ proc[p].pc = "polling"
  /\ proc[p].stop
  /\ proc' = [proc EXCEPT ![p].pc = "closing", ![p].status = Draining(@)]
  /\ UNCHANGED <<queue, dead, executed, faults>>

(* _shutdown: one more poll, whose batch is handled under the deadline.     *)
Drain(p) ==
  /\ proc[p].pc = "closing"
  /\ \/ \E batch \in Receivable \ {{}} :
          /\ queue' = Receive(batch)
          /\ proc' = [proc EXCEPT ![p].pc = "batch", ![p].drain = TRUE,
                                  ![p].batch = Deliveries(batch)]
     \/ /\ proc' = [proc EXCEPT ![p].pc = "stopped", ![p].status = Ended(@)]
        /\ UNCHANGED queue
  /\ UNCHANGED <<dead, executed, faults>>

EndBatch(p) ==
  /\ proc[p].pc = "batch"
  /\ proc[p].batch = {}
  /\ proc' = IF proc[p].drain
             THEN [proc EXCEPT ![p].pc = "stopped", ![p].status = Ended(@)]
             ELSE [proc EXCEPT ![p].pc = "polling"]
  /\ UNCHANGED <<queue, dead, executed, faults>>

-----------------------------------------------------------------------------
(* Handling one message                                                     *)
MustRequeue(p, d) == proc[p].stop \/ d.msg \in proc[p].lapsed

(* Mutant: the rest of the batch is left to its leases.                     *)
RequeueForgotten(p, d) ==
  /\ proc[p].pc = "batch"
  /\ MustRequeue(p, d) \/ proc[p].drain
  /\ proc' = [proc EXCEPT ![p] = NextMessage(p, d, @.claims, @.results[d.msg])]
  /\ UNCHANGED <<queue, dead, executed, faults>>

(* Stopping, past the drain deadline or without its lease: hand it back.    *)
Requeue(p, d) ==
  /\ proc[p].pc = "batch"
  /\ MustRequeue(p, d) \/ proc[p].drain
  /\ \/ /\ queue' = MadeVisible(d)
        /\ proc' = [proc EXCEPT ![p] = NextMessage(p, d, @.claims, @.results[d.msg])]
        /\ UNCHANGED faults
     \/ /\ CallRaises(d)
        /\ queue' \in {queue, MadeVisible(d)}
        /\ proc' = [proc EXCEPT ![p] = Raised(@)]
  /\ UNCHANGED <<dead, executed>>

Handles(p, d) == proc[p].pc = "batch" /\ ~MustRequeue(p, d)
KnownCommand(p, m) == ~Durable(m) /\ Claimed(CommandOf[m], proc[p].claims)

RejectBody(p, d) ==
  /\ Handles(p, d)
  /\ KindOf[d.msg] = "malformed"
  /\ proc' = [proc EXCEPT ![p].pc = "parking", ![p].cur = d,
                          ![p].verdict = "REJECTED"]
  /\ UNCHANGED <<queue, dead, executed, faults>>

(* A claimed command id: acknowledged without executing again.              *)
SkipDuplicate(p, d) ==
  /\ Handles(p, d)
  /\ KnownCommand(p, d.msg)
  /\ LET after == NextMessage(p, d, Claim(CommandOf[d.msg], proc[p].claims), "DUPLICATE")
     IN \/ /\ Delete(d)
           /\ proc' = [proc EXCEPT ![p] = after]
           /\ UNCHANGED faults
        \/ /\ Happens("broker")
           /\ Delete(d) \/ UNCHANGED queue
           /\ proc' = [proc EXCEPT ![p] = Raised(after)]
  /\ UNCHANGED <<dead, executed>>

Begin(p, d) ==
  /\ Handles(p, d)
  /\ ~KnownCommand(p, d.msg)
  /\ proc' = [proc EXCEPT ![p].pc = "executing", ![p].cur = d,
       ![p].claims = IF Durable(d.msg) THEN @ ELSE Claim(CommandOf[d.msg], @)]
  /\ UNCHANGED <<queue, dead, executed, faults>>

Succeed(p) ==
  /\ proc[p].pc = "executing"
  /\ KindOf[proc[p].cur.msg] # "malformed"
  /\ executed' = executed \cup {CommandOf[proc[p].cur.msg]}
  /\ proc' = [proc EXCEPT ![p].pc = "finishing"]
  /\ UNCHANGED <<queue, dead, faults>>

(* MalformedEventError from the executor, or ApprovalRefusedError.          *)
RejectCommand(p) ==
  /\ proc[p].pc = "executing"
  /\ KindOf[proc[p].cur.msg] \in {"malformed", "approval"}
  /\ proc' = [proc EXCEPT ![p].pc = "parking", ![p].verdict = "REJECTED",
                          ![p].claims = AfterFailure(p, proc[p].cur.msg)]
  /\ UNCHANGED <<queue, dead, executed, faults>>

(* Mutant: the deliveries are never used up.                                *)
ExhaustedNever(d) == FALSE
Exhausted(d) == d.receipt >= MaxReceiveCount

(* Any other exception: parked when the deliveries are used up.             *)
FailForGood(p) ==
  /\ proc[p].pc = "executing"
  /\ KindOf[proc[p].cur.msg] # "malformed"
  /\ Exhausted(proc[p].cur)
  /\ proc' = [proc EXCEPT ![p].pc = "parking", ![p].verdict = "DEAD_LETTERED",
                          ![p].claims = AfterFailure(p, proc[p].cur.msg)]
  /\ UNCHANGED <<queue, dead, executed, faults>>

Fail(p) ==
  /\ proc[p].pc = "executing"
  /\ KindOf[proc[p].cur.msg] # "malformed"
  /\ ~Exhausted(proc[p].cur)
  /\ LET d == proc[p].cur
         after == NextMessage(p, d, AfterFailure(p, d.msg), "FAILED")
     IN \/ /\ queue' = MadeVisible(d)
           /\ proc' = [proc EXCEPT ![p] = after]
           /\ UNCHANGED faults
        \/ /\ CallRaises(d)
           /\ queue' \in {queue, MadeVisible(d)}
           /\ proc' = [proc EXCEPT ![p] = Raised(after)]
  /\ UNCHANGED <<dead, executed>>

(* The heartbeat failed while the command ran: the result is not trusted.   *)
(* A failing retry_later is only logged.                                    *)
FinishLapsed(p) ==
  /\ proc[p].pc = "finishing"
  /\ proc[p].cur.msg \in proc[p].lapsed
  /\ LET d == proc[p].cur
     IN /\ queue' \in {queue, MadeVisible(d)}
        /\ proc' = [proc EXCEPT ![p] =
             NextMessage(p, d, AfterFailure(p, d.msg), "FAILED")]
  /\ UNCHANGED <<dead, executed, faults>>

(* Mutant: the claim is released once the command is done.                  *)
FinishReleased(p) ==
  /\ proc[p].pc = "finishing"
  /\ proc[p].cur.msg \notin proc[p].lapsed
  /\ LET d == proc[p].cur
     IN /\ Delete(d)
        /\ proc' = [proc EXCEPT ![p] =
             NextMessage(p, d, AfterFailure(p, d.msg), "SUCCEEDED")]
  /\ UNCHANGED <<dead, executed, faults>>

(* Mutant: the error of the heartbeat is not looked at.                     *)
FinishUnchecked(p) ==
  /\ proc[p].pc = "finishing"
  /\ LET d == proc[p].cur
     IN /\ Delete(d)
        /\ proc' = [proc EXCEPT ![p] = NextMessage(p, d, proc[p].claims, "SUCCEEDED")]
  /\ UNCHANGED <<dead, executed, faults>>

Finish(p) ==
  /\ proc[p].pc = "finishing"
  /\ proc[p].cur.msg \notin proc[p].lapsed
  /\ LET d == proc[p].cur
         after == NextMessage(p, d, proc[p].claims, "SUCCEEDED")
     IN \/ /\ Delete(d)
           /\ proc' = [proc EXCEPT ![p] = after]
           /\ UNCHANGED faults
        \/ /\ Happens("broker")
           /\ Delete(d) \/ UNCHANGED queue
           /\ proc' = [proc EXCEPT ![p] = Raised(after)]
  /\ UNCHANGED <<dead, executed>>

-----------------------------------------------------------------------------
(* _park: the dead-letter queue first, then the delete; if either fails the *)
(* message is made visible again, and if that fails its lease expires.      *)
ParkSend(p) ==
  /\ proc[p].pc = "parking"
  /\ \/ /\ dead' = dead \cup {proc[p].cur.msg}
        /\ proc' = [proc EXCEPT ![p].pc = "parked"]
        /\ UNCHANGED faults
     \/ /\ Happens("broker")
        /\ dead' \in {dead, dead \cup {proc[p].cur.msg}}
        /\ proc' = [proc EXCEPT ![p].pc = "unparked"]
  /\ UNCHANGED <<queue, executed>>

ParkDelete(p) ==
  /\ proc[p].pc = "parked"
  /\ LET d == proc[p].cur
     IN \/ /\ Delete(d)
           /\ proc' = [proc EXCEPT ![p] =
                NextMessage(p, d, proc[p].claims, proc[p].verdict)]
           /\ UNCHANGED faults
        \/ /\ Happens("broker")
           /\ Delete(d) \/ UNCHANGED queue
           /\ proc' = [proc EXCEPT ![p].pc = "unparked"]
  /\ UNCHANGED <<dead, executed>>

(* Mutant: the outcome is recorded as if the message had been parked.       *)
UnparkAsParked(p) ==
  /\ proc[p].pc = "unparked"
  /\ LET d == proc[p].cur
     IN /\ queue' \in {queue, MadeVisible(d)}
        /\ proc' = [proc EXCEPT ![p] =
             NextMessage(p, d, proc[p].claims, proc[p].verdict)]
  /\ UNCHANGED <<dead, executed, faults>>

Unpark(p) ==
  /\ proc[p].pc = "unparked"
  /\ LET d == proc[p].cur
     IN /\ queue' \in {queue, MadeVisible(d)}
        /\ proc' = [proc EXCEPT ![p] = NextMessage(p, d, proc[p].claims, "FAILED")]
  /\ UNCHANGED <<dead, executed, faults>>

-----------------------------------------------------------------------------
Handle(p) ==
  \/ \E d \in proc[p].batch :
       Requeue(p, d) \/ RejectBody(p, d) \/ SkipDuplicate(p, d) \/ Begin(p, d)
  \/ Succeed(p)
  \/ RejectCommand(p)
  \/ FailForGood(p)
  \/ Fail(p)
  \/ FinishLapsed(p)
  \/ Finish(p)
  \/ ParkSend(p)
  \/ ParkDelete(p)
  \/ Unpark(p)

(* What a live process does of itself.                                      *)
Advance(p) ==
  Start(p) \/ Poll(p) \/ LeaveLoop(p) \/ Drain(p) \/ EndBatch(p) \/ Handle(p)

Disturb(p) ==
  \/ StartFails(p)
  \/ RequestStop(p)
  \/ Crash(p)
  \/ \E m \in Message : HeartbeatFails(p, m)

Next ==
  \/ \E p \in Process : Boot(p) \/ Advance(p) \/ Disturb(p)
  \/ \E m \in Message : LeaseExpires(m)

Spec == Init /\ [][Next]_vars

(* The supervisor restarts a process, a process runs, a lease nobody renews *)
(* expires.  Faults are never fair.                                         *)
FairSpec ==
  /\ Spec
  /\ \A p \in Process : WF_vars(Boot(p)) /\ WF_vars(Advance(p))
  /\ \A m \in Message : WF_vars(~Renewed(m) /\ LeaseExpires(m))

-----------------------------------------------------------------------------
(* Every variable holds values of its type, the cache of claims within its  *)
(* bound.                                                                   *)
TypeOK ==
  /\ queue \in [Message -> Envelope]
  /\ dead \subseteq Message
  /\ executed \subseteq Command
  /\ proc \in [Process -> Memory]
  /\ \A p \in Process : Len(proc[p].claims) <= CacheSize
  /\ faults \in Nat

(* A message leaves the queue only if its command was executed or the       *)
(* message was parked: crashes, stale receipts, failing queue calls and     *)
(* suppressed duplicates included.                                          *)
NothingLost ==
  \A m \in Message : queue[m].state = "gone" =>
    CommandOf[m] \in executed \/ m \in dead

(* What a worker reports of a message is true: a rejected or dead-lettered  *)
(* one is on the dead-letter queue, a successful or duplicate one executed. *)
HonestResults ==
  \A p \in Process, m \in Message :
    /\ proc[p].results[m] \in {"REJECTED", "DEAD_LETTERED"} => m \in dead
    /\ proc[p].results[m] \in {"SUCCEEDED", "DUPLICATE"} => CommandOf[m] \in executed

(* While its cache holds every command id, a process that reported a        *)
(* command as SUCCEEDED does not execute it again, whatever message brings  *)
(* it and however often.                                                    *)
NotRepeated ==
  [][\A p \in Process :
       proc[p].pc = "batch" /\ proc'[p].pc = "executing" /\ ~Durable(proc'[p].cur.msg) =>
         \A m \in Message : proc[p].results[m] = "SUCCEEDED" /\ ~Durable(m) =>
           CommandOf[m] # CommandOf[proc'[p].cur.msg]]_vars

(* A worker deletes a message it executed only while it holds the lease, so *)
(* no other worker is executing a later delivery of it.                     *)
AcksOwnLease ==
  [][\A p \in Process, m \in Message :
       /\ proc[p].pc = "finishing" /\ proc[p].cur.msg = m /\ proc'[p].pc # "finishing"
       /\ queue[m].state # "gone" /\ queue'[m].state = "gone"
       => Held(proc[p].cur)]_vars

(* A worker that is done with a delivery and goes on has deleted it or made *)
(* it visible again: nothing of its batch waits for a lease to expire.  The *)
(* exceptions are the failures that are only logged.                        *)
HandsBack ==
  [][\A p \in Process : \A d \in proc[p].batch :
       /\ proc'[p].pc = "batch" /\ d \notin proc'[p].batch
       /\ proc[p].pc # "unparked"
       /\ proc[p].pc = "finishing" => d.msg \notin proc[p].lapsed
       => queue'[d.msg] # queue[d.msg] \/ ~Held(d)]_vars

(* Leases are kept: nothing is deleted without one, and none is dropped.    *)
LeasesKept == AcksOwnLease /\ HandsBack

(* A requested stop ends the process, whatever is on the queue.             *)
StopsEventually == \A p \in Process : proc[p].stop ~> ~Alive(p)

(* Every message leaves the queue once faults cease.                        *)
Settled == \A m \in Message : <>(queue[m].state = "gone")

(* No message is delivered more often than max_receive_count.               *)
NotRetriedForever == \A m \in Message : queue[m].receives <= MaxReceiveCount
=============================================================================
