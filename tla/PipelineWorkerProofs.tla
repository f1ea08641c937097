------------------------ MODULE PipelineWorkerProofs ------------------------
(***************************************************************************)
(* Proofs about PipelineWorker for any number of processes, messages,       *)
(* deliveries and faults.                                                   *)
(***************************************************************************)
EXTENDS PipelineWorker, FiniteSetTheorems, TLAPS

-----------------------------------------------------------------------------
(* The cache of claims                                                      *)

Ids(s) == {s[i] : i \in 1 .. Len(s)}
Distinct(s) == \A i, j \in 1 .. Len(s) : s[i] = s[j] => i = j

(* Forgetting an id removes its one entry and keeps the others.             *)
LEMMA ForgetProperties ==
  ASSUME NEW c \in Command, NEW s \in Seq(Command), Distinct(s)
  PROVE  /\ Forget(c, s) \in Seq(Command)
         /\ Len(Forget(c, s)) <= Len(s)
         /\ Ids(Forget(c, s)) \subseteq Ids(s) \ {c}
         /\ Distinct(Forget(c, s))
<1>1. CASE ~Claimed(c, s)
  BY <1>1 DEF Claimed, Index, Forget, Ids
<1>2. CASE Claimed(c, s)
  <2> DEFINE at == CHOOSE i \in Index(c, s) : TRUE
  <2> DEFINE f == [i \in 1 .. Len(s) - 1 |-> IF i < at THEN s[i] ELSE s[i + 1]]
  <2>1. at \in 1 .. Len(s) /\ s[at] = c
    <3>1. at \in Index(c, s)
      BY <1>2 DEF Claimed
    <3> QED BY <3>1 DEF Index
  <2>2. Forget(c, s) = f
    BY <1>2 DEF Forget
  <2> HIDE DEF at
  <2>3. Len(s) \in Nat /\ Len(s) - 1 \in Nat /\ \A i \in 1 .. Len(s) : s[i] \in Command
    BY <2>1
  <2>4. f \in [1 .. Len(s) - 1 -> Command]
    BY <2>1, <2>3
  <2>5. f \in Seq(Command) /\ Len(f) = Len(s) - 1
    BY <2>3, <2>4
  <2>6. \A i \in 1 .. Len(s) - 1 : f[i] = IF i < at THEN s[i] ELSE s[i + 1]
    OBVIOUS
  <2> HIDE DEF f
  <2>7. \A i \in 1 .. Len(f) : \E k \in 1 .. Len(s) :
          k # at /\ f[i] = s[k] /\ k = IF i < at THEN i ELSE i + 1
    BY <2>1, <2>3, <2>5, <2>6
  <2>8. \A i, j \in 1 .. Len(f) : f[i] = f[j] => i = j
    BY <2>1, <2>3, <2>5, <2>7 DEF Distinct
  <2>9. \A i \in 1 .. Len(f) : f[i] \in Ids(s) /\ f[i] # c
    BY <2>1, <2>7 DEF Ids, Distinct
  <2> QED BY <2>2, <2>3, <2>5, <2>8, <2>9 DEF Ids, Distinct
<1> QED BY <1>1, <1>2

(* Claiming adds one id, keeps the entries distinct and the cache bounded.  *)
LEMMA ClaimProperties ==
  ASSUME NEW c \in Command, NEW s \in Seq(Command), Distinct(s), Len(s) <= CacheSize
  PROVE  /\ Claim(c, s) \in Seq(Command)
         /\ Len(Claim(c, s)) <= CacheSize
         /\ Ids(Claim(c, s)) \subseteq Ids(s) \cup {c}
         /\ Distinct(Claim(c, s))
<1> DEFINE f == Forget(c, s)
<1> DEFINE longer == Append(f, c)
<1>1. /\ f \in Seq(Command)
      /\ Len(f) <= Len(s)
      /\ Ids(f) \subseteq Ids(s) \ {c}
      /\ Distinct(f)
  BY ForgetProperties
<1>2. Claim(c, s) = IF Len(longer) > CacheSize THEN Tail(longer) ELSE longer
  BY DEF Claim
<1> HIDE DEF f
<1>3. /\ longer \in Seq(Command)
      /\ Len(longer) = Len(f) + 1
      /\ \A i \in 1 .. Len(longer) : longer[i] = IF i = Len(f) + 1 THEN c ELSE f[i]
  BY <1>1
<1>4. CacheSize \in Nat /\ CacheSize >= 1 /\ Len(f) \in Nat /\ Len(s) \in Nat
  BY <1>1, WorkerAssumption
<1> HIDE DEF longer
<1>5. Ids(longer) \subseteq Ids(s) \cup {c} /\ Distinct(longer)
  <2>1. \A i \in 1 .. Len(longer) :
          \/ i = Len(f) + 1 /\ longer[i] = c
          \/ i \in 1 .. Len(f) /\ longer[i] = f[i] /\ f[i] \in Ids(f)
    BY <1>3, <1>4 DEF Ids
  <2>2. c \notin Ids(f)
    BY <1>1
  <2>3. Ids(longer) \subseteq Ids(s) \cup {c}
    BY <1>1, <2>1 DEF Ids
  <2>4. Distinct(longer)
    BY <1>1, <2>1, <2>2 DEF Distinct
  <2> QED BY <2>3, <2>4
<1>6. CASE Len(longer) > CacheSize
  <2>1. /\ Tail(longer) \in Seq(Command)
        /\ Len(Tail(longer)) = Len(f)
        /\ \A i \in 1 .. Len(f) : Tail(longer)[i] = longer[i + 1] /\ i + 1 \in 1 .. Len(longer)
    BY <1>3, <1>4
  <2>2. Distinct(Tail(longer))
    <3> SUFFICES ASSUME NEW i \in 1 .. Len(f), NEW j \in 1 .. Len(f),
                        Tail(longer)[i] = Tail(longer)[j]
                 PROVE  i = j
      BY <2>1 DEF Distinct
    <3>1. i + 1 = j + 1
      BY <1>5, <2>1 DEF Distinct
    <3> QED BY <3>1, <1>4
  <2>3. Ids(Tail(longer)) \subseteq Ids(longer)
    BY <2>1 DEF Ids
  <2> QED BY <1>1, <1>2, <1>4, <1>5, <1>6, <2>1, <2>2, <2>3
<1>7. CASE ~(Len(longer) > CacheSize)
  BY <1>2, <1>3, <1>4, <1>5, <1>7
<1> QED BY <1>6, <1>7

-----------------------------------------------------------------------------
(* The inductive invariant                                                  *)

Busy == {"executing", "finishing", "parking", "parked", "unparked"}

(* The memory of a process is well-formed: a busy one has a delivery.       *)
Sound(w) ==
  /\ w \in Memory
  /\ Len(w.claims) <= CacheSize
  /\ Distinct(w.claims)
  /\ w.pc \in Busy => w.cur \in Delivery

(* What a process remembers or is about to do is covered by the effects and *)
(* the dead-letter queue: a claim other than that of the command it is      *)
(* executing was executed.                                                  *)
Truthful(w, effects, letters) ==
  /\ \A c \in Ids(w.claims) :
       \/ c \in effects
       \/ w.pc = "executing" /\ ~Durable(w.cur.msg) /\ c = CommandOf[w.cur.msg]
  /\ w.pc = "finishing" => CommandOf[w.cur.msg] \in effects
  /\ w.pc = "parked" => w.cur.msg \in letters
  /\ \A m \in Message :
       /\ w.results[m] \in {"REJECTED", "DEAD_LETTERED"} => m \in letters
       /\ w.results[m] \in {"SUCCEEDED", "DUPLICATE"} => CommandOf[m] \in effects

QueueTyped == queue \in [Message -> Envelope]
SetsTyped == dead \subseteq Message /\ executed \subseteq Command /\ faults \in Nat
ProcessesGood ==
  /\ DOMAIN proc = Process
  /\ proc = [p \in Process |-> proc[p]]
  /\ \A p \in Process : Sound(proc[p]) /\ Truthful(proc[p], executed, dead)

Inv == QueueTyped /\ SetsTyped /\ ProcessesGood /\ NothingLost

(* A step of one process, seen from outside.                                *)
LEMMA ProcessStep ==
  ASSUME Inv, NEW p \in Process, NEW w,
         proc' = [proc EXCEPT ![p] = w],
         Sound(w), Truthful(w, executed', dead'),
         executed \subseteq executed', dead \subseteq dead',
         executed' \subseteq Command, dead' \subseteq Message, faults' \in Nat,
         queue' \in [Message -> Envelope],
         \A m \in Message : queue'[m].state = "gone" =>
           queue[m].state = "gone" \/ CommandOf[m] \in executed' \/ m \in dead'
  PROVE  Inv'
<1>1. \A q \in Process : proc'[q] = IF q = p THEN w ELSE proc[q]
  BY DEF Inv, ProcessesGood
<1>2. ASSUME NEW q \in Process
      PROVE  Sound(proc'[q]) /\ Truthful(proc'[q], executed', dead')
  <2>1. CASE q = p
    BY <1>1, <2>1
  <2>2. CASE q # p
    <3>1. Sound(proc[q]) /\ Truthful(proc[q], executed, dead)
      BY DEF Inv, ProcessesGood
    <3>2. Truthful(proc[q], executed', dead')
      BY <3>1 DEF Truthful
    <3> QED BY <1>1, <2>2, <3>1, <3>2
  <2> QED BY <2>1, <2>2
<1>3. (DOMAIN proc = Process)' /\ (proc = [q \in Process |-> proc[q]])'
  BY DEF Inv, ProcessesGood
<1>4. ProcessesGood'
  BY <1>2, <1>3 DEF ProcessesGood, Sound, Truthful, Ids, Distinct, Busy, Memory, Delivery,
     Durable, Outcome, PC, NoDelivery
<1>5. NothingLost'
  BY DEF Inv, NothingLost
<1> QED BY <1>4, <1>5 DEF Inv, QueueTyped, SetsTyped

-----------------------------------------------------------------------------
(* Steps on the memory of one process                                       *)

(* An orderly end of a delivery: the claims and the outcome are the caller's. *)
LEMMA NextMessageGood ==
  ASSUME NEW p \in Process, NEW d \in Delivery, NEW claims \in Seq(Command),
         NEW outcome \in Outcome \cup {"none"},
         Sound(proc[p]), Len(claims) <= CacheSize, Distinct(claims)
  PROVE  LET w == NextMessage(p, d, claims, outcome)
         IN /\ Sound(w)
            /\ w.pc = "batch" /\ w.claims = claims
            /\ w.results = [proc[p].results EXCEPT ![d.msg] = outcome]
<1> DEFINE w == [proc[p] EXCEPT !.pc = "batch", !.batch = Dropped(p, d), !.cur = NoDelivery,
                  !.lapsed = proc[p].lapsed \ {d.msg}, !.claims = claims,
                  !.results = [proc[p].results EXCEPT ![d.msg] = outcome]]
<1>1. proc[p] \in Memory /\ d.msg \in Message
  BY DEF Sound, Delivery
<1>2. NextMessage(p, d, claims, outcome) = w
  BY <1>1 DEF NextMessage, Memory
<1>3. Dropped(p, d) \in SUBSET Delivery
  BY <1>1 DEF Dropped, Memory
<1>4. [proc[p].results EXCEPT ![d.msg] = outcome] \in [Message -> Outcome \cup {"none"}]
  BY <1>1 DEF Memory
<1>5. /\ w \in Memory
      /\ w.pc = "batch" /\ w.claims = claims
      /\ w.results = [proc[p].results EXCEPT ![d.msg] = outcome]
  BY <1>1, <1>3, <1>4 DEF Memory, PC
<1> HIDE DEF w
<1> QED BY <1>2, <1>5 DEF Sound, Busy

(* An exception out of a memory that executes nothing.                      *)
LEMMA RaisedGood ==
  ASSUME NEW w, Sound(w)
  PROVE  /\ Sound(Raised(w))
         /\ Raised(w).pc \in {"stopped", "closing"}
         /\ Raised(w).claims = w.claims
         /\ Raised(w).results = w.results
<1> DEFINE pc == IF w.drain THEN "stopped" ELSE "closing"
<1> DEFINE status == IF w.drain THEN Ended(w.status) ELSE Draining(w.status)
<1> DEFINE v == [w EXCEPT !.pc = pc, !.status = status, !.batch = {},
                          !.cur = NoDelivery, !.lapsed = {}]
<1>1. w \in Memory
  BY DEF Sound
<1>2. Raised(w) = v
  BY <1>1 DEF Raised, Memory
<1>3. pc \in {"stopped", "closing"}
  OBVIOUS
<1>4. status \in {"FAILED", "STOPPED", "DRAINING"}
  BY DEF Ended, Draining
<1> HIDE DEF pc, status
<1>5. v \in Memory /\ v.pc = pc /\ v.claims = w.claims /\ v.results = w.results
  BY <1>1, <1>3, <1>4 DEF Memory, PC
<1> HIDE DEF v
<1> QED BY <1>2, <1>3, <1>5 DEF Sound, Busy

(* The claims after a failure or a refusal are those before, at most.       *)
LEMMA AfterFailureGood ==
  ASSUME NEW p \in Process, NEW m \in Message, Sound(proc[p])
  PROVE  /\ AfterFailure(p, m) \in Seq(Command)
         /\ Len(AfterFailure(p, m)) <= CacheSize
         /\ Distinct(AfterFailure(p, m))
         /\ Ids(AfterFailure(p, m)) \subseteq
              IF Durable(m) THEN Ids(proc[p].claims)
              ELSE Ids(proc[p].claims) \ {CommandOf[m]}
<1>1. /\ proc[p].claims \in Seq(Command)
      /\ Len(proc[p].claims) <= CacheSize
      /\ Distinct(proc[p].claims)
      /\ CommandOf[m] \in Command
  BY WorkerAssumption DEF Sound, Memory
<1>2. CASE Durable(m)
  BY <1>1, <1>2 DEF AfterFailure
<1>3. CASE ~Durable(m)
  <2> DEFINE f == Forget(CommandOf[m], proc[p].claims)
  <2>1. /\ f \in Seq(Command)
        /\ Len(f) <= Len(proc[p].claims)
        /\ Ids(f) \subseteq Ids(proc[p].claims) \ {CommandOf[m]}
        /\ Distinct(f)
    BY <1>1, ForgetProperties
  <2>2. AfterFailure(p, m) = f
    BY <1>3 DEF AfterFailure
  <2> HIDE DEF f
  <2>3. Len(f) \in Nat /\ Len(proc[p].claims) \in Nat /\ CacheSize \in Nat
    BY <1>1, <2>1, WorkerAssumption
  <2> QED BY <1>1, <1>3, <2>1, <2>2, <2>3
<1> QED BY <1>2, <1>3

(* What a call on a lease does to the queue.                                *)
LEMMA MadeVisibleKeeps ==
  ASSUME QueueTyped, NEW d \in Delivery
  PROVE  /\ MadeVisible(d) \in [Message -> Envelope]
         /\ \A m \in Message : MadeVisible(d)[m].state = "gone" => queue[m].state = "gone"
BY DEF MadeVisible, QueueTyped, Envelope, Delivery

(* A delete removes no message but its own.                                 *)
LEMMA DeleteKeeps ==
  ASSUME QueueTyped, NEW d \in Delivery, Delete(d)
  PROVE  /\ queue' \in [Message -> Envelope]
         /\ \A m \in Message : queue'[m].state = "gone" => queue[m].state = "gone" \/ m = d.msg
BY DEF Delete, QueueTyped, Envelope, Delivery

(* A receive removes no message and returns deliveries.                     *)
LEMMA ReceiveKeeps ==
  ASSUME QueueTyped, NEW batch \in SUBSET Message
  PROVE  /\ Receive(batch) \in [Message -> Envelope]
         /\ \A m \in Message : Receive(batch)[m].state = "gone" => queue[m].state = "gone"
         /\ Deliveries(batch) \in SUBSET Delivery
BY DEF Receive, QueueTyped, Envelope, Delivery, Deliveries

(* A fault counts as a natural number.                                      *)
LEMMA HappensCounts ==
  ASSUME faults \in Nat, NEW kind, Happens(kind)
  PROVE  faults' \in Nat
BY DEF Happens

-----------------------------------------------------------------------------
(* The life of a process                                                    *)

(* A process that has just started, or is off, knows nothing untrue.        *)
LEMMA FreshGood ==
  /\ Sound(Fresh) /\ Sound(Off)
  /\ \A effects, letters : Truthful(Fresh, effects, letters) /\ Truthful(Off, effects, letters)
<1>1. Fresh \in Memory /\ Off \in Memory
  <2>1. <<>> \in Seq(Command)
    OBVIOUS
  <2>2. [m \in Message |-> "none"] \in [Message -> Outcome \cup {"none"}]
    OBVIOUS
  <2>3. Fresh \in Memory
    BY <2>1, <2>2 DEF Fresh, Memory, PC
  <2> QED BY <2>3 DEF Off, Memory, PC
<1>2. Fresh.claims = <<>> /\ Off.claims = <<>> /\ Len(<<>>) = 0
  BY DEF Fresh, Off
<1>3. Ids(<<>>) = {} /\ Distinct(<<>>) /\ 0 <= CacheSize
  BY WorkerAssumption DEF Ids, Distinct
<1>4. Fresh.pc = "starting" /\ Off.pc = "off"
  BY DEF Fresh, Off
<1>5. \A m \in Message : Fresh.results[m] = "none" /\ Off.results[m] = "none"
  BY DEF Fresh, Off
<1> QED BY <1>1, <1>2, <1>3, <1>4, <1>5 DEF Sound, Truthful, Busy

(* Starting and crashing keep the invariant: what is lost is only memory.   *)
LEMMA BootCrashKeeps ==
  ASSUME Inv, NEW p \in Process, Boot(p) \/ Crash(p)
  PROVE  Inv'
<1>1. proc' \in {[proc EXCEPT ![p] = Fresh], [proc EXCEPT ![p] = Off]}
  BY DEF Boot, Crash
<1>2. /\ faults' \in Nat /\ UNCHANGED <<queue, dead, executed>>
  BY DEF Boot, Crash, Happens, Inv, SetsTyped
<1>3. /\ Truthful(Fresh, executed', dead') /\ Truthful(Off, executed', dead')
      /\ Sound(Fresh) /\ Sound(Off)
  BY FreshGood
<1>4. /\ queue' \in [Message -> Envelope]
      /\ executed' \subseteq Command /\ dead' \subseteq Message
      /\ executed \subseteq executed' /\ dead \subseteq dead'
      /\ \A m \in Message : queue'[m].state = "gone" => queue[m].state = "gone"
  BY <1>2 DEF Inv, QueueTyped, SetsTyped
<1> QED BY <1>1, <1>2, <1>3, <1>4, ProcessStep

(* A step that changes only the place, the stop flag, the status, the batch *)
(* or the lapsed leases of a process that is neither done nor executing.    *)
LEMMA PlaceStep ==
  ASSUME Inv, NEW p \in Process, NEW w,
         proc' = [proc EXCEPT ![p] = w], w \in Memory,
         w.claims = proc[p].claims, w.results = proc[p].results, w.cur = proc[p].cur,
         \/ w.pc = proc[p].pc
         \/ w.pc \notin Busy /\ proc[p].pc # "executing",
         UNCHANGED <<dead, executed>>, faults' \in Nat,
         queue' \in [Message -> Envelope],
         \A m \in Message : queue'[m].state = "gone" => queue[m].state = "gone"
  PROVE  Inv'
<1>1. Sound(proc[p]) /\ Truthful(proc[p], executed, dead)
  BY DEF Inv, ProcessesGood
<1>2. Sound(w)
  BY <1>1 DEF Sound
<1>3. Truthful(w, executed', dead')
  BY <1>1 DEF Truthful, Busy
<1>4. executed' \subseteq Command /\ dead' \subseteq Message
  BY DEF Inv, SetsTyped
<1> QED BY <1>2, <1>3, <1>4, ProcessStep

(* The steps of a process outside its messages keep the invariant.          *)
LEMMA LifeKeeps ==
  ASSUME Inv, NEW p \in Process,
         \/ Start(p) \/ StartFails(p) \/ RequestStop(p) \/ LeaveLoop(p) \/ EndBatch(p)
         \/ \E m \in Message : HeartbeatFails(p, m)
  PROVE  Inv'
<1>1. proc[p] \in Memory /\ proc = [q \in Process |-> proc[q]]
  BY DEF Inv, ProcessesGood, Sound
<1>2. /\ queue' \in [Message -> Envelope]
      /\ \A m \in Message : queue'[m].state = "gone" => queue[m].state = "gone"
      /\ UNCHANGED <<dead, executed>>
      /\ faults' \in Nat
  BY DEF Start, StartFails, RequestStop, LeaveLoop, EndBatch, HeartbeatFails, Happens,
         Inv, QueueTyped, SetsTyped
<1>3. CASE Start(p)
  <2> DEFINE w == [proc[p] EXCEPT !.pc = "polling", !.status = "READY"]
  <2>1. proc' = [proc EXCEPT ![p] = w]
    BY <1>1, <1>3 DEF Start
  <2>2. /\ w \in Memory /\ w.pc = "polling" /\ w.claims = proc[p].claims
        /\ w.results = proc[p].results /\ w.cur = proc[p].cur /\ proc[p].pc = "starting"
    BY <1>1, <1>3 DEF Memory, PC, Start
  <2> HIDE DEF w
  <2> QED BY <1>2, <2>1, <2>2, PlaceStep DEF Busy
<1>4. CASE StartFails(p)
  <2>1. PICK status \in {"FAILED", "DRAINING"} :
          proc' = [proc EXCEPT ![p].pc = "closing", ![p].status = status]
    BY <1>4 DEF StartFails
  <2> DEFINE w == [proc[p] EXCEPT !.pc = "closing", !.status = status]
  <2>2. proc' = [proc EXCEPT ![p] = w]
    BY <1>1, <2>1
  <2>3. /\ w \in Memory /\ w.pc = "closing" /\ w.claims = proc[p].claims
        /\ w.results = proc[p].results /\ w.cur = proc[p].cur /\ proc[p].pc = "starting"
    BY <1>1, <1>4 DEF Memory, PC, StartFails
  <2> HIDE DEF w
  <2> QED BY <1>2, <2>2, <2>3, PlaceStep DEF Busy
<1>5. CASE RequestStop(p)
  <2> DEFINE status == Draining(proc[p].status)
  <2> DEFINE w == [proc[p] EXCEPT !.stop = TRUE, !.status = status]
  <2>1. proc' = [proc EXCEPT ![p] = w]
    BY <1>1, <1>5 DEF RequestStop
  <2>2. status \in {"FAILED", "DRAINING"}
    BY DEF Draining
  <2> HIDE DEF status
  <2>3. /\ w \in Memory /\ w.pc = proc[p].pc /\ w.claims = proc[p].claims
        /\ w.results = proc[p].results /\ w.cur = proc[p].cur
    BY <1>1, <2>2 DEF Memory
  <2> HIDE DEF w
  <2> QED BY <1>2, <2>1, <2>3, PlaceStep
<1>6. CASE LeaveLoop(p)
  <2> DEFINE status == Draining(proc[p].status)
  <2> DEFINE w == [proc[p] EXCEPT !.pc = "closing", !.status = status]
  <2>1. proc' = [proc EXCEPT ![p] = w]
    BY <1>1, <1>6 DEF LeaveLoop
  <2>2. status \in {"FAILED", "DRAINING"}
    BY DEF Draining
  <2> HIDE DEF status
  <2>3. /\ w \in Memory /\ w.pc = "closing" /\ w.claims = proc[p].claims
        /\ w.results = proc[p].results /\ w.cur = proc[p].cur /\ proc[p].pc = "polling"
    BY <1>1, <1>6, <2>2 DEF Memory, PC, LeaveLoop
  <2> HIDE DEF w
  <2> QED BY <1>2, <2>1, <2>3, PlaceStep DEF Busy
<1>7. CASE EndBatch(p)
  <2> DEFINE pc == IF proc[p].drain THEN "stopped" ELSE "polling"
  <2> DEFINE status == IF proc[p].drain THEN Ended(proc[p].status) ELSE proc[p].status
  <2> DEFINE w == [proc[p] EXCEPT !.pc = pc, !.status = status]
  <2>1. proc' = [proc EXCEPT ![p] = w]
    <3>1. CASE proc[p].drain
      BY <1>1, <1>7, <3>1 DEF EndBatch, Memory
    <3>2. CASE ~proc[p].drain
      <4>1. proc' = [proc EXCEPT ![p] = [proc[p] EXCEPT !.pc = "polling"]]
        BY <1>1, <1>7, <3>2 DEF EndBatch
      <4>2. [proc[p] EXCEPT !.pc = "polling"] = w
        BY <1>1, <3>2 DEF Memory
      <4> QED BY <4>1, <4>2
    <3> QED BY <3>1, <3>2
  <2>2. pc \in {"stopped", "polling"} /\ status \in {"FAILED", "STOPPED", proc[p].status}
    BY DEF Ended
  <2> HIDE DEF pc, status
  <2>3. /\ w \in Memory /\ w.pc \in {"stopped", "polling"} /\ w.claims = proc[p].claims
        /\ w.results = proc[p].results /\ w.cur = proc[p].cur /\ proc[p].pc = "batch"
    BY <1>1, <1>7, <2>2 DEF Memory, PC, EndBatch
  <2> HIDE DEF w
  <2> QED BY <1>2, <2>1, <2>3, PlaceStep DEF Busy
<1>8. ASSUME NEW m \in Message, HeartbeatFails(p, m) PROVE Inv'
  <2> DEFINE w == [proc[p] EXCEPT !.lapsed = proc[p].lapsed \cup {m}]
  <2>1. proc' = [proc EXCEPT ![p] = w]
    BY <1>1, <1>8 DEF HeartbeatFails
  <2>2. /\ w \in Memory /\ w.pc = proc[p].pc /\ w.claims = proc[p].claims
        /\ w.results = proc[p].results /\ w.cur = proc[p].cur
    BY <1>1 DEF Memory
  <2> HIDE DEF w
  <2> QED BY <1>2, <2>1, <2>2, PlaceStep
<1> QED BY <1>3, <1>4, <1>5, <1>6, <1>7, <1>8

(* An uncaught exception while no command is executing.                     *)
LEMMA RaisedTruthful ==
  ASSUME NEW w, Sound(w), w.pc # "executing", NEW effects, NEW letters,
         Truthful(w, effects, letters)
  PROVE  Truthful(Raised(w), effects, letters)
BY RaisedGood DEF Truthful

(* Receiving a batch, in the loop or in the shutdown, keeps the invariant.  *)
LEMMA PollDrainKeeps ==
  ASSUME Inv, NEW p \in Process, Poll(p) \/ Drain(p)
  PROVE  Inv'
<1>1. /\ proc[p] \in Memory /\ proc = [q \in Process |-> proc[q]] /\ Sound(proc[p])
      /\ Truthful(proc[p], executed, dead)
      /\ proc[p].pc \in {"polling", "closing"}
      /\ faults' \in Nat /\ UNCHANGED <<dead, executed>>
      /\ executed' \subseteq Command /\ dead' \subseteq Message
  <2>1. /\ proc[p] \in Memory /\ proc = [q \in Process |-> proc[q]] /\ Sound(proc[p])
        /\ Truthful(proc[p], executed, dead)
    BY DEF Inv, ProcessesGood, Sound
  <2>2. proc[p].pc \in {"polling", "closing"} /\ UNCHANGED <<dead, executed>>
    BY DEF Poll, Drain
  <2>3. faults' = faults \/ faults' = faults + 1
    BY DEF Poll, Drain, Happens
  <2> QED BY <2>1, <2>2, <2>3 DEF Inv, SetsTyped
<1>2. \A batch \in Receivable : batch \in SUBSET Message
  BY DEF Receivable
<1>3. /\ queue' \in [Message -> Envelope]
      /\ \A m \in Message : queue'[m].state = "gone" => queue[m].state = "gone"
  <2>1. UNCHANGED queue \/ \E batch \in Receivable : queue' = Receive(batch)
    BY DEF Poll, Drain
  <2>2. QueueTyped
    BY DEF Inv
  <2> QED BY <1>2, <2>1, <2>2, ReceiveKeeps DEF QueueTyped
<1>4. ASSUME NEW drain \in BOOLEAN, NEW batch \in SUBSET Message,
             proc' = [proc EXCEPT ![p] = [proc[p] EXCEPT !.pc = "batch", !.drain = drain,
                                                         !.batch = Deliveries(batch)]]
      PROVE  Inv'
  <2> DEFINE w == [proc[p] EXCEPT !.pc = "batch", !.drain = drain, !.batch = Deliveries(batch)]
  <2>1. Deliveries(batch) \in SUBSET Delivery
    BY ReceiveKeeps DEF Inv
  <2>2. /\ w \in Memory /\ w.pc = "batch" /\ w.claims = proc[p].claims
        /\ w.results = proc[p].results /\ w.cur = proc[p].cur
    BY <1>1, <2>1 DEF Memory, PC
  <2>3. proc' = [proc EXCEPT ![p] = w]
    BY <1>4
  <2> HIDE DEF w
  <2> QED BY <1>1, <1>3, <2>2, <2>3, PlaceStep DEF Busy
<1>5. CASE Poll(p)
  <2>1. CASE proc' = [proc EXCEPT ![p] = Raised(@)]
    <3>1. Sound(Raised(proc[p])) /\ Truthful(Raised(proc[p]), executed', dead')
      BY <1>1, RaisedGood, RaisedTruthful
    <3> QED BY <1>1, <1>3, <2>1, <3>1, ProcessStep
  <2>2. ASSUME NEW batch \in Receivable,
               proc' = [proc EXCEPT ![p].pc = "batch", ![p].batch = Deliveries(batch)]
        PROVE  Inv'
    <3>1. proc' = [proc EXCEPT ![p] = [proc[p] EXCEPT !.pc = "batch", !.drain = proc[p].drain,
                                                      !.batch = Deliveries(batch)]]
      BY <1>1, <2>2 DEF Memory
    <3>2. proc[p].drain \in BOOLEAN
      BY <1>1 DEF Memory
    <3> QED BY <1>2, <1>4, <3>1, <3>2
  <2>3. CASE UNCHANGED <<queue, proc, faults>>
    <3>1. proc' = [proc EXCEPT ![p] = proc[p]]
      BY <1>1, <2>3
    <3> QED BY <1>1, <1>3, <3>1, ProcessStep
  <2> QED BY <1>5, <2>1, <2>2, <2>3 DEF Poll
<1>6. CASE Drain(p)
  <2>1. CASE proc' = [proc EXCEPT ![p].pc = "stopped", ![p].status = Ended(@)]
    <3> DEFINE status == Ended(proc[p].status)
    <3> DEFINE w == [proc[p] EXCEPT !.pc = "stopped", !.status = status]
    <3>1. proc' = [proc EXCEPT ![p] = w]
      BY <1>1, <2>1
    <3>2. status \in {"FAILED", "STOPPED"}
      BY DEF Ended
    <3> HIDE DEF status
    <3>3. /\ w \in Memory /\ w.pc = "stopped" /\ w.claims = proc[p].claims
          /\ w.results = proc[p].results /\ w.cur = proc[p].cur
      BY <1>1, <3>2 DEF Memory, PC
    <3> HIDE DEF w
    <3> QED BY <1>1, <1>3, <3>1, <3>3, PlaceStep DEF Busy
  <2>2. ASSUME NEW batch \in Receivable,
               proc' = [proc EXCEPT ![p].pc = "batch", ![p].drain = TRUE,
                                    ![p].batch = Deliveries(batch)]
        PROVE  Inv'
    <3>1. proc' = [proc EXCEPT ![p] = [proc[p] EXCEPT !.pc = "batch", !.drain = TRUE,
                                                      !.batch = Deliveries(batch)]]
      BY <1>1, <2>2
    <3> QED BY <1>2, <1>4, <3>1
  <2> QED BY <1>6, <2>1, <2>2 DEF Drain
<1> QED BY <1>5, <1>6

-----------------------------------------------------------------------------
(* Handling a message                                                       *)

(* A delivery ends in order or by an exception, with an outcome that is     *)
(* true and claims that are covered.                                        *)
LEMMA EndOfDelivery ==
  ASSUME Inv, NEW p \in Process, NEW d \in Delivery, NEW claims \in Seq(Command),
         NEW outcome \in Outcome \cup {"none"},
         Len(claims) <= CacheSize, Distinct(claims),
         \A c \in Ids(claims) : c \in executed,
         \/ outcome = "FAILED"
         \/ outcome = proc[p].results[d.msg]
         \/ outcome \in {"REJECTED", "DEAD_LETTERED"} /\ d.msg \in dead
         \/ outcome \in {"SUCCEEDED", "DUPLICATE"} /\ CommandOf[d.msg] \in executed
  PROVE  LET w == NextMessage(p, d, claims, outcome)
         IN /\ Sound(w) /\ Truthful(w, executed, dead)
            /\ Sound(Raised(w)) /\ Truthful(Raised(w), executed, dead)
<1> DEFINE w == NextMessage(p, d, claims, outcome)
<1>1. Sound(proc[p]) /\ Truthful(proc[p], executed, dead) /\ proc[p] \in Memory
  BY DEF Inv, ProcessesGood, Sound
<1>2. /\ Sound(w) /\ w.pc = "batch" /\ w.claims = claims
      /\ w.results = [proc[p].results EXCEPT ![d.msg] = outcome]
  BY <1>1, NextMessageGood
<1> HIDE DEF w
<1>3. \A m \in Message : w.results[m] = IF m = d.msg THEN outcome ELSE proc[p].results[m]
  BY <1>1, <1>2 DEF Memory, Delivery
<1>4. Truthful(w, executed, dead)
  BY <1>1, <1>2, <1>3 DEF Truthful
<1>5. Sound(Raised(w)) /\ Truthful(Raised(w), executed, dead)
  BY <1>2, <1>4, RaisedGood, RaisedTruthful
<1> QED BY <1>2, <1>4, <1>5 DEF w

(* The step that ends a delivery keeps the invariant.                       *)
LEMMA EndOfDeliveryKeeps ==
  ASSUME Inv, NEW p \in Process, NEW d \in Delivery, NEW claims \in Seq(Command),
         NEW outcome \in Outcome \cup {"none"},
         Len(claims) <= CacheSize, Distinct(claims),
         \A c \in Ids(claims) : c \in executed,
         \/ outcome = "FAILED"
         \/ outcome = proc[p].results[d.msg]
         \/ outcome \in {"REJECTED", "DEAD_LETTERED"} /\ d.msg \in dead
         \/ outcome \in {"SUCCEEDED", "DUPLICATE"} /\ CommandOf[d.msg] \in executed,
         \/ proc' = [proc EXCEPT ![p] = NextMessage(p, d, claims, outcome)]
         \/ proc' = [proc EXCEPT ![p] = Raised(NextMessage(p, d, claims, outcome))],
         UNCHANGED <<dead, executed>>, faults' \in Nat,
         queue' \in [Message -> Envelope],
         \A m \in Message : queue'[m].state = "gone" =>
           queue[m].state = "gone" \/ CommandOf[m] \in executed \/ m \in dead
  PROVE  Inv'
<1> DEFINE w == NextMessage(p, d, claims, outcome)
<1>1. /\ Sound(w) /\ Truthful(w, executed, dead)
      /\ Sound(Raised(w)) /\ Truthful(Raised(w), executed, dead)
  BY EndOfDelivery
<1>2. proc' = [proc EXCEPT ![p] = w] \/ proc' = [proc EXCEPT ![p] = Raised(w)]
  OBVIOUS
<1> HIDE DEF w
<1>3. executed' \subseteq Command /\ dead' \subseteq Message
  BY DEF Inv, SetsTyped
<1>4. /\ Truthful(w, executed', dead') /\ Truthful(Raised(w), executed', dead')
      /\ \A m \in Message : queue'[m].state = "gone" =>
           queue[m].state = "gone" \/ CommandOf[m] \in executed' \/ m \in dead'
  BY <1>1
<1> QED BY <1>1, <1>2, <1>3, <1>4, ProcessStep

(* What is known of a process at any step.                                  *)
LEMMA ProcessFacts ==
  ASSUME Inv, NEW p \in Process
  PROVE  /\ proc[p] \in Memory /\ proc = [q \in Process |-> proc[q]]
         /\ Sound(proc[p]) /\ Truthful(proc[p], executed, dead)
         /\ QueueTyped
         /\ proc[p].claims \in Seq(Command) /\ Len(proc[p].claims) <= CacheSize
         /\ Distinct(proc[p].claims)
         /\ \A d \in proc[p].batch : d \in Delivery
         /\ proc[p].results \in [Message -> Outcome \cup {"none"}]
         /\ proc[p].pc \in Busy => proc[p].cur \in Delivery /\ proc[p].cur.msg \in Message
         /\ proc[p].pc # "executing" => \A c \in Ids(proc[p].claims) : c \in executed
         /\ proc[p].verdict \in {"REJECTED", "DEAD_LETTERED"}
<1>1. Sound(proc[p]) /\ Truthful(proc[p], executed, dead) /\ QueueTyped
      /\ proc = [q \in Process |-> proc[q]]
  BY DEF Inv, ProcessesGood
<1>2. proc[p] \in Memory
  BY <1>1 DEF Sound
<1>3. /\ proc[p].claims \in Seq(Command) /\ \A d \in proc[p].batch : d \in Delivery
      /\ proc[p].results \in [Message -> Outcome \cup {"none"}]
      /\ proc[p].verdict \in {"REJECTED", "DEAD_LETTERED"}
  BY <1>2 DEF Memory
<1>4. proc[p].pc \in Busy => proc[p].cur \in Delivery /\ proc[p].cur.msg \in Message
  BY <1>1 DEF Sound, Delivery
<1>5. Len(proc[p].claims) <= CacheSize /\ Distinct(proc[p].claims)
  BY <1>1 DEF Sound
<1>6. proc[p].pc # "executing" => \A c \in Ids(proc[p].claims) : c \in executed
  BY <1>1 DEF Truthful
<1> QED BY <1>1, <1>2, <1>3, <1>4, <1>5, <1>6

(* Handing a message back keeps the invariant.                              *)
LEMMA RequeueKeeps ==
  ASSUME Inv, NEW p \in Process, NEW d \in proc[p].batch, Requeue(p, d)
  PROVE  Inv'
<1> DEFINE after == NextMessage(p, d, proc[p].claims, proc[p].results[d.msg])
<1>1. d \in Delivery /\ d.msg \in Message /\ proc[p].pc # "executing"
  <2>1. d \in Delivery
    BY ProcessFacts
  <2> QED BY <2>1 DEF Delivery, Requeue
<1>2. UNCHANGED <<dead, executed>> /\ queue' \in {queue, MadeVisible(d)}
  BY DEF Requeue
<1>3. faults' \in Nat
  <2>1. faults' = faults \/ faults' = faults + 1
    BY DEF Requeue, CallRaises, Happens
  <2> QED BY <2>1 DEF Inv, SetsTyped
<1>4. proc' = [proc EXCEPT ![p] = after] \/ proc' = [proc EXCEPT ![p] = Raised(proc[p])]
  BY DEF Requeue
<1>5. /\ queue' \in [Message -> Envelope]
      /\ \A m \in Message : queue'[m].state = "gone" => queue[m].state = "gone"
  <2>1. QueueTyped
    BY ProcessFacts
  <2> QED BY <1>1, <1>2, <2>1, MadeVisibleKeeps DEF QueueTyped
<1>6. proc[p].results[d.msg] \in Outcome \cup {"none"}
  BY <1>1, ProcessFacts
<1>7. CASE proc' = [proc EXCEPT ![p] = after]
  <2>1. \A c \in Ids(proc[p].claims) : c \in executed
    BY <1>1, ProcessFacts
  <2>2. /\ proc[p].claims \in Seq(Command) /\ Len(proc[p].claims) <= CacheSize
        /\ Distinct(proc[p].claims)
    BY ProcessFacts
  <2> QED BY <1>1, <1>2, <1>3, <1>5, <1>6, <1>7, <2>1, <2>2, EndOfDeliveryKeeps
<1>8. CASE proc' = [proc EXCEPT ![p] = Raised(proc[p])]
  <2>1. Sound(proc[p]) /\ Truthful(proc[p], executed, dead)
    BY ProcessFacts
  <2>2. Sound(Raised(proc[p])) /\ Truthful(Raised(proc[p]), executed', dead')
    BY <1>1, <1>2, <2>1, RaisedGood, RaisedTruthful
  <2>3. executed' \subseteq Command /\ dead' \subseteq Message
    BY <1>2 DEF Inv, SetsTyped
  <2> QED BY <1>2, <1>3, <1>5, <1>8, <2>2, <2>3, ProcessStep
<1> QED BY <1>4, <1>7, <1>8

(* Acknowledging a delivery whose command was executed, or which is parked. *)
LEMMA AcknowledgeKeeps ==
  ASSUME Inv, NEW p \in Process, NEW d \in Delivery, NEW claims \in Seq(Command),
         NEW outcome \in Outcome,
         Len(claims) <= CacheSize, Distinct(claims),
         \A c \in Ids(claims) : c \in executed,
         \/ outcome \in {"REJECTED", "DEAD_LETTERED"} /\ d.msg \in dead
         \/ outcome \in {"SUCCEEDED", "DUPLICATE"} /\ CommandOf[d.msg] \in executed,
         \/ proc' = [proc EXCEPT ![p] = NextMessage(p, d, claims, outcome)]
         \/ proc' = [proc EXCEPT ![p] = Raised(NextMessage(p, d, claims, outcome))],
         UNCHANGED <<dead, executed>>, faults' \in Nat,
         Delete(d) \/ UNCHANGED queue
  PROVE  Inv'
<1>1. QueueTyped
  BY DEF Inv
<1>2. /\ queue' \in [Message -> Envelope]
      /\ \A m \in Message : queue'[m].state = "gone" => queue[m].state = "gone" \/ m = d.msg
  <2>1. CASE Delete(d)
    BY <1>1, <2>1, DeleteKeeps
  <2>2. CASE UNCHANGED queue
    BY <1>1, <2>2 DEF QueueTyped
  <2> QED BY <2>1, <2>2
<1>3. CommandOf[d.msg] \in executed \/ d.msg \in dead
  OBVIOUS
<1>4. outcome \in Outcome \cup {"none"}
  OBVIOUS
<1> QED BY <1>2, <1>3, <1>4, EndOfDeliveryKeeps

(* A suppressed duplicate was executed: its command is claimed and not      *)
(* running.                                                                 *)
LEMMA SkipDuplicateKeeps ==
  ASSUME Inv, NEW p \in Process, NEW d \in proc[p].batch, SkipDuplicate(p, d)
  PROVE  Inv'
<1> DEFINE c == CommandOf[d.msg]
<1> DEFINE claims == Claim(c, proc[p].claims)
<1>1. d \in Delivery /\ d.msg \in Message /\ proc[p].pc # "executing"
  <2>1. d \in Delivery
    BY ProcessFacts
  <2> QED BY <2>1 DEF Delivery, SkipDuplicate, Handles
<1>2. c \in Ids(proc[p].claims) /\ c \in Command
  BY <1>1, WorkerAssumption DEF SkipDuplicate, KnownCommand, Claimed, Index, Ids
<1>3. \A x \in Ids(proc[p].claims) : x \in executed
  BY <1>1, ProcessFacts
<1>4. /\ proc[p].claims \in Seq(Command) /\ Len(proc[p].claims) <= CacheSize
      /\ Distinct(proc[p].claims)
  BY ProcessFacts
<1>5. UNCHANGED <<dead, executed>> /\ (Delete(d) \/ UNCHANGED queue)
  BY DEF SkipDuplicate
<1>6. faults' \in Nat
  <2>1. faults' = faults \/ faults' = faults + 1
    BY DEF SkipDuplicate, Happens
  <2> QED BY <2>1 DEF Inv, SetsTyped
<1>7. \/ proc' = [proc EXCEPT ![p] = NextMessage(p, d, claims, "DUPLICATE")]
      \/ proc' = [proc EXCEPT ![p] = Raised(NextMessage(p, d, claims, "DUPLICATE"))]
  BY DEF SkipDuplicate
<1>8. c = CommandOf[d.msg]
  OBVIOUS
<1> HIDE DEF c
<1>9. /\ claims \in Seq(Command) /\ Len(claims) <= CacheSize /\ Distinct(claims)
      /\ Ids(claims) \subseteq Ids(proc[p].claims) \cup {c}
  BY <1>2, <1>4, ClaimProperties
<1> HIDE DEF claims
<1>10. /\ \A x \in Ids(claims) : x \in executed
       /\ CommandOf[d.msg] \in executed
  BY <1>2, <1>3, <1>8, <1>9
<1>11. "DUPLICATE" \in Outcome
  BY DEF Outcome
<1> QED BY <1>1, <1>5, <1>6, <1>7, <1>9, <1>10, <1>11, AcknowledgeKeeps

(* A message that does not parse goes to parking with the memory as it was. *)
LEMMA RejectBodyKeeps ==
  ASSUME Inv, NEW p \in Process, NEW d \in proc[p].batch, RejectBody(p, d)
  PROVE  Inv'
<1> DEFINE w == [proc[p] EXCEPT !.pc = "parking", !.cur = d, !.verdict = "REJECTED"]
<1>1. /\ proc[p] \in Memory /\ Sound(proc[p]) /\ Truthful(proc[p], executed, dead)
      /\ d \in Delivery /\ proc[p].pc = "batch"
  BY ProcessFacts DEF RejectBody, Handles
<1>2. /\ w \in Memory /\ w.pc = "parking" /\ w.cur = d
      /\ w.claims = proc[p].claims /\ w.results = proc[p].results
  BY <1>1 DEF Memory, PC
<1>3. proc' = [proc EXCEPT ![p] = w] /\ UNCHANGED <<queue, dead, executed, faults>>
  BY ProcessFacts DEF RejectBody
<1> HIDE DEF w
<1>4. Sound(w) /\ Truthful(w, executed', dead')
  BY <1>1, <1>2, <1>3 DEF Sound, Truthful
<1>5. /\ executed' \subseteq Command /\ dead' \subseteq Message /\ faults' \in Nat
      /\ queue' \in [Message -> Envelope]
  BY <1>3 DEF Inv, SetsTyped, QueueTyped
<1> QED BY <1>3, <1>4, <1>5, ProcessStep

(* Claiming and starting a command adds the one claim that is not executed  *)
(* yet.                                                                     *)
LEMMA BeginKeeps ==
  ASSUME Inv, NEW p \in Process, NEW d \in proc[p].batch, Begin(p, d)
  PROVE  Inv'
<1> DEFINE c == CommandOf[d.msg]
<1> DEFINE claims == IF Durable(d.msg) THEN proc[p].claims ELSE Claim(c, proc[p].claims)
<1> DEFINE w == [proc[p] EXCEPT !.pc = "executing", !.cur = d, !.claims = claims]
<1>1. /\ proc[p] \in Memory /\ Sound(proc[p]) /\ Truthful(proc[p], executed, dead)
      /\ d \in Delivery /\ proc[p].pc = "batch"
  BY ProcessFacts DEF Begin, Handles
<1>2. d.msg \in Message /\ c \in Command
  BY <1>1, WorkerAssumption DEF Delivery
<1>3. /\ proc[p].claims \in Seq(Command) /\ Len(proc[p].claims) <= CacheSize
      /\ Distinct(proc[p].claims) /\ \A x \in Ids(proc[p].claims) : x \in executed
  BY <1>1, ProcessFacts
<1>4. /\ claims \in Seq(Command) /\ Len(claims) <= CacheSize /\ Distinct(claims)
      /\ \A x \in Ids(claims) : x \in executed \/ (~Durable(d.msg) /\ x = c)
  <2>1. CASE Durable(d.msg)
    BY <1>3, <2>1
  <2>2. CASE ~Durable(d.msg)
    <3>1. /\ Claim(c, proc[p].claims) \in Seq(Command)
          /\ Len(Claim(c, proc[p].claims)) <= CacheSize
          /\ Distinct(Claim(c, proc[p].claims))
          /\ Ids(Claim(c, proc[p].claims)) \subseteq Ids(proc[p].claims) \cup {c}
      BY <1>2, <1>3, ClaimProperties
    <3>2. claims = Claim(c, proc[p].claims)
      BY <2>2
    <3> HIDE DEF claims
    <3> QED BY <1>3, <2>2, <3>1, <3>2
  <2> QED BY <2>1, <2>2
<1>5. proc' = [proc EXCEPT ![p] = w] /\ UNCHANGED <<queue, dead, executed, faults>>
  BY ProcessFacts DEF Begin
<1> HIDE DEF claims
<1>6. /\ w \in Memory /\ w.pc = "executing" /\ w.cur = d
      /\ w.claims = claims /\ w.results = proc[p].results
  BY <1>1, <1>4 DEF Memory, PC
<1> HIDE DEF w
<1>7. Sound(w)
  BY <1>1, <1>4, <1>6 DEF Sound
<1>8. Truthful(w, executed', dead')
  BY <1>1, <1>4, <1>5, <1>6 DEF Truthful
<1>9. /\ executed' \subseteq Command /\ dead' \subseteq Message /\ faults' \in Nat
      /\ queue' \in [Message -> Envelope]
  BY <1>5 DEF Inv, SetsTyped, QueueTyped
<1> QED BY <1>5, <1>7, <1>8, <1>9, ProcessStep

(* Once the effect is applied every claim of the process was executed.      *)
LEMMA SucceedKeeps ==
  ASSUME Inv, NEW p \in Process, Succeed(p)
  PROVE  Inv'
<1> DEFINE w == [proc[p] EXCEPT !.pc = "finishing"]
<1>1. /\ proc[p] \in Memory /\ Sound(proc[p]) /\ Truthful(proc[p], executed, dead)
      /\ proc[p].pc = "executing" /\ proc[p].cur \in Delivery /\ proc[p].cur.msg \in Message
  BY ProcessFacts DEF Succeed, Busy
<1>2. /\ w \in Memory /\ w.pc = "finishing" /\ w.cur = proc[p].cur
      /\ w.claims = proc[p].claims /\ w.results = proc[p].results
  BY <1>1 DEF Memory, PC
<1>3. /\ proc' = [proc EXCEPT ![p] = w] /\ UNCHANGED <<queue, dead, faults>>
      /\ executed' = executed \cup {CommandOf[proc[p].cur.msg]}
  BY ProcessFacts DEF Succeed
<1> HIDE DEF w
<1>4. Sound(w)
  BY <1>1, <1>2 DEF Sound
<1>5. Truthful(w, executed', dead')
  BY <1>1, <1>2, <1>3 DEF Truthful
<1>6. CommandOf[proc[p].cur.msg] \in Command
  BY <1>1, WorkerAssumption
<1>7. /\ executed' \subseteq Command /\ dead' \subseteq Message /\ faults' \in Nat
      /\ queue' \in [Message -> Envelope]
  BY <1>3, <1>6 DEF Inv, SetsTyped, QueueTyped
<1> QED BY <1>3, <1>4, <1>5, <1>7, ProcessStep

(* What a process has claimed once its command failed was executed.         *)
LEMMA FailureClaims ==
  ASSUME Inv, NEW p \in Process, proc[p].pc = "executing" \/ proc[p].pc = "finishing"
  PROVE  LET claims == AfterFailure(p, proc[p].cur.msg)
         IN /\ claims \in Seq(Command) /\ Len(claims) <= CacheSize /\ Distinct(claims)
            /\ \A c \in Ids(claims) : c \in executed
<1> DEFINE m == proc[p].cur.msg
<1> DEFINE claims == AfterFailure(p, m)
<1>1. /\ Sound(proc[p]) /\ Truthful(proc[p], executed, dead) /\ m \in Message
  BY ProcessFacts DEF Busy
<1>2. /\ claims \in Seq(Command) /\ Len(claims) <= CacheSize /\ Distinct(claims)
      /\ Ids(claims) \subseteq
           IF Durable(m) THEN Ids(proc[p].claims) ELSE Ids(proc[p].claims) \ {CommandOf[m]}
  BY <1>1, AfterFailureGood
<1>3. \A c \in Ids(proc[p].claims) : c \in executed \/ (~Durable(m) /\ c = CommandOf[m])
  BY <1>1 DEF Truthful
<1> HIDE DEF claims, m
<1>4. \A c \in Ids(claims) : c \in executed
  BY <1>2, <1>3
<1> QED BY <1>2, <1>4 DEF claims, m

(* A refused command, or one that failed for the last time.                 *)
LEMMA ToParkingKeeps ==
  ASSUME Inv, NEW p \in Process, RejectCommand(p) \/ FailForGood(p)
  PROVE  Inv'
<1> DEFINE claims == AfterFailure(p, proc[p].cur.msg)
<1>1. /\ proc[p] \in Memory /\ Sound(proc[p]) /\ Truthful(proc[p], executed, dead)
      /\ proc = [q \in Process |-> proc[q]]
      /\ proc[p].pc = "executing" /\ proc[p].cur \in Delivery
  <2>1. proc[p].pc = "executing"
    BY DEF RejectCommand, FailForGood
  <2> QED BY <2>1, ProcessFacts DEF Busy
<1>2. /\ claims \in Seq(Command) /\ Len(claims) <= CacheSize /\ Distinct(claims)
      /\ \A c \in Ids(claims) : c \in executed
  BY <1>1, FailureClaims
<1>3. PICK verdict \in {"REJECTED", "DEAD_LETTERED"} :
        proc' = [proc EXCEPT ![p].pc = "parking", ![p].verdict = verdict, ![p].claims = claims]
  BY DEF RejectCommand, FailForGood
<1>4. UNCHANGED <<queue, dead, executed, faults>>
  BY DEF RejectCommand, FailForGood
<1> HIDE DEF claims
<1> DEFINE w == [proc[p] EXCEPT !.pc = "parking", !.verdict = verdict, !.claims = claims]
<1>5. proc' = [proc EXCEPT ![p] = w]
  BY <1>1, <1>3
<1>6. /\ w \in Memory /\ w.pc = "parking" /\ w.cur = proc[p].cur
      /\ w.claims = claims /\ w.results = proc[p].results
  BY <1>1, <1>2 DEF Memory, PC
<1> HIDE DEF w
<1>7. Sound(w)
  BY <1>1, <1>2, <1>6 DEF Sound
<1>8. Truthful(w, executed', dead')
  BY <1>1, <1>2, <1>4, <1>6 DEF Truthful
<1>9. /\ executed' \subseteq Command /\ dead' \subseteq Message /\ faults' \in Nat
      /\ queue' \in [Message -> Envelope]
  BY <1>4 DEF Inv, SetsTyped, QueueTyped
<1> QED BY <1>4, <1>5, <1>7, <1>8, <1>9, ProcessStep

(* A failure to be retried, or one whose lease lapsed.                      *)
LEMMA FailKeeps ==
  ASSUME Inv, NEW p \in Process, Fail(p) \/ FinishLapsed(p)
  PROVE  Inv'
<1> DEFINE d == proc[p].cur
<1> DEFINE claims == AfterFailure(p, d.msg)
<1>1. proc[p].pc \in {"executing", "finishing"}
  BY DEF Fail, FinishLapsed
<1>2. d \in Delivery /\ QueueTyped
  BY <1>1, ProcessFacts DEF Busy
<1>3. /\ claims \in Seq(Command) /\ Len(claims) <= CacheSize /\ Distinct(claims)
      /\ \A c \in Ids(claims) : c \in executed
  BY <1>1, FailureClaims
<1>4. /\ \/ proc' = [proc EXCEPT ![p] = NextMessage(p, d, claims, "FAILED")]
         \/ proc' = [proc EXCEPT ![p] = Raised(NextMessage(p, d, claims, "FAILED"))]
      /\ UNCHANGED <<dead, executed>>
      /\ queue' \in {queue, MadeVisible(d)}
  BY DEF Fail, FinishLapsed
<1>5. faults' \in Nat
  <2>1. faults' = faults \/ faults' = faults + 1
    BY DEF Fail, FinishLapsed, CallRaises, Happens
  <2> QED BY <2>1 DEF Inv, SetsTyped
<1> HIDE DEF claims, d
<1>6. /\ queue' \in [Message -> Envelope]
      /\ \A m \in Message : queue'[m].state = "gone" => queue[m].state = "gone"
  BY <1>2, <1>4, MadeVisibleKeeps DEF QueueTyped
<1>7. "FAILED" \in Outcome \cup {"none"}
  BY DEF Outcome
<1> QED BY <1>2, <1>3, <1>4, <1>5, <1>6, <1>7, EndOfDeliveryKeeps

(* Acknowledging an executed command keeps the invariant.                   *)
LEMMA FinishKeeps ==
  ASSUME Inv, NEW p \in Process, Finish(p)
  PROVE  Inv'
<1> DEFINE d == proc[p].cur
<1>1. proc[p].pc = "finishing"
  BY DEF Finish
<1>2. /\ d \in Delivery /\ proc[p].claims \in Seq(Command) /\ Len(proc[p].claims) <= CacheSize
      /\ Distinct(proc[p].claims) /\ \A c \in Ids(proc[p].claims) : c \in executed
  BY <1>1, ProcessFacts DEF Busy
<1>3. CommandOf[d.msg] \in executed
  BY <1>1, ProcessFacts DEF Truthful
<1>4. /\ \/ proc' = [proc EXCEPT ![p] = NextMessage(p, d, proc[p].claims, "SUCCEEDED")]
         \/ proc' = [proc EXCEPT ![p] = Raised(NextMessage(p, d, proc[p].claims, "SUCCEEDED"))]
      /\ UNCHANGED <<dead, executed>>
      /\ Delete(d) \/ UNCHANGED queue
  BY DEF Finish
<1>5. faults' \in Nat
  <2>1. faults' = faults \/ faults' = faults + 1
    BY DEF Finish, Happens
  <2> QED BY <2>1 DEF Inv, SetsTyped
<1>6. "SUCCEEDED" \in Outcome
  BY DEF Outcome
<1> HIDE DEF d
<1> QED BY <1>2, <1>3, <1>4, <1>5, <1>6, AcknowledgeKeeps

(* A message is marked as parked only once it is on the dead-letter queue.  *)
LEMMA ParkSendKeeps ==
  ASSUME Inv, NEW p \in Process, ParkSend(p)
  PROVE  Inv'
<1> DEFINE m == proc[p].cur.msg
<1>1. /\ proc[p] \in Memory /\ Sound(proc[p]) /\ Truthful(proc[p], executed, dead)
      /\ proc = [q \in Process |-> proc[q]]
      /\ proc[p].pc = "parking" /\ m \in Message
  <2>1. proc[p].pc = "parking"
    BY DEF ParkSend
  <2> QED BY <2>1, ProcessFacts DEF Busy
<1>2. PICK pc \in {"parked", "unparked"} :
        /\ proc' = [proc EXCEPT ![p].pc = pc]
        /\ pc = "parked" => dead' = dead \cup {m}
  BY DEF ParkSend
<1>3. dead' \in {dead, dead \cup {m}} /\ UNCHANGED <<queue, executed>>
  BY DEF ParkSend
<1>4. faults' \in Nat
  <2>1. faults' = faults \/ faults' = faults + 1
    BY DEF ParkSend, Happens
  <2> QED BY <2>1 DEF Inv, SetsTyped
<1> DEFINE w == [proc[p] EXCEPT !.pc = pc]
<1>5. proc' = [proc EXCEPT ![p] = w]
  BY <1>1, <1>2
<1>6. /\ w \in Memory /\ w.pc = pc /\ w.cur = proc[p].cur
      /\ w.claims = proc[p].claims /\ w.results = proc[p].results
  BY <1>1 DEF Memory, PC
<1> HIDE DEF w
<1>7. Sound(w)
  BY <1>1, <1>6 DEF Sound, Busy
<1>8. Truthful(w, executed', dead')
  BY <1>1, <1>2, <1>3, <1>6 DEF Truthful
<1>9. /\ executed' \subseteq Command /\ dead' \subseteq Message
      /\ executed \subseteq executed' /\ dead \subseteq dead'
      /\ queue' \in [Message -> Envelope]
  BY <1>1, <1>3 DEF Inv, SetsTyped, QueueTyped
<1> HIDE DEF m
<1> QED BY <1>3, <1>4, <1>5, <1>7, <1>8, <1>9, ProcessStep

(* A parked message may be deleted.                                         *)
LEMMA ParkDeleteKeeps ==
  ASSUME Inv, NEW p \in Process, ParkDelete(p)
  PROVE  Inv'
<1> DEFINE d == proc[p].cur
<1>1. proc[p].pc = "parked"
  BY DEF ParkDelete
<1>2. /\ proc[p] \in Memory /\ Sound(proc[p]) /\ Truthful(proc[p], executed, dead)
      /\ proc = [q \in Process |-> proc[q]] /\ QueueTyped
      /\ d \in Delivery /\ proc[p].claims \in Seq(Command) /\ Len(proc[p].claims) <= CacheSize
      /\ Distinct(proc[p].claims) /\ \A c \in Ids(proc[p].claims) : c \in executed
      /\ proc[p].verdict \in {"REJECTED", "DEAD_LETTERED"}
  BY <1>1, ProcessFacts DEF Busy
<1>3. d.msg \in dead
  BY <1>1, <1>2 DEF Truthful
<1>4. UNCHANGED <<dead, executed>> /\ (Delete(d) \/ UNCHANGED queue)
  BY DEF ParkDelete
<1>5. faults' \in Nat
  <2>1. faults' = faults \/ faults' = faults + 1
    BY DEF ParkDelete, Happens
  <2> QED BY <2>1 DEF Inv, SetsTyped
<1>6. CASE proc' = [proc EXCEPT ![p] = NextMessage(p, d, proc[p].claims, proc[p].verdict)]
  <2>1. proc[p].verdict \in Outcome
    BY <1>2 DEF Outcome
  <2> HIDE DEF d
  <2> QED BY <1>2, <1>3, <1>4, <1>5, <1>6, <2>1, AcknowledgeKeeps
<1>7. CASE proc' = [proc EXCEPT ![p].pc = "unparked"]
  <2> DEFINE w == [proc[p] EXCEPT !.pc = "unparked"]
  <2>1. proc' = [proc EXCEPT ![p] = w]
    BY <1>2, <1>7
  <2>2. /\ w \in Memory /\ w.pc = "unparked" /\ w.cur = proc[p].cur
        /\ w.claims = proc[p].claims /\ w.results = proc[p].results
    BY <1>2 DEF Memory, PC
  <2> HIDE DEF w
  <2>3. Sound(w) /\ Truthful(w, executed', dead')
    BY <1>1, <1>2, <1>4, <2>2 DEF Sound, Truthful
  <2>4. /\ queue' \in [Message -> Envelope]
        /\ \A m \in Message : queue'[m].state = "gone" =>
             queue[m].state = "gone" \/ m \in dead
    <3>1. CASE Delete(d)
      BY <1>2, <1>3, <3>1, DeleteKeeps
    <3>2. CASE UNCHANGED queue
      BY <1>2, <3>2 DEF QueueTyped
    <3> QED BY <1>4, <3>1, <3>2
  <2>5. executed' \subseteq Command /\ dead' \subseteq Message
    BY <1>4 DEF Inv, SetsTyped
  <2> QED BY <1>4, <1>5, <2>1, <2>3, <2>4, <2>5, ProcessStep
<1> QED BY <1>6, <1>7 DEF ParkDelete

(* A failed parking ends as a failure, with the message still on the queue. *)
LEMMA UnparkKeeps ==
  ASSUME Inv, NEW p \in Process, Unpark(p)
  PROVE  Inv'
<1> DEFINE d == proc[p].cur
<1>1. proc[p].pc = "unparked"
  BY DEF Unpark
<1>2. /\ QueueTyped /\ d \in Delivery
      /\ proc[p].claims \in Seq(Command) /\ Len(proc[p].claims) <= CacheSize
      /\ Distinct(proc[p].claims) /\ \A c \in Ids(proc[p].claims) : c \in executed
  BY <1>1, ProcessFacts DEF Busy
<1>3. /\ proc' = [proc EXCEPT ![p] = NextMessage(p, d, proc[p].claims, "FAILED")]
      /\ UNCHANGED <<dead, executed, faults>>
      /\ queue' \in {queue, MadeVisible(d)}
  BY DEF Unpark
<1>4. faults' \in Nat
  BY <1>3 DEF Inv, SetsTyped
<1> HIDE DEF d
<1>5. /\ queue' \in [Message -> Envelope]
      /\ \A m \in Message : queue'[m].state = "gone" => queue[m].state = "gone"
  BY <1>2, <1>3, MadeVisibleKeeps DEF QueueTyped
<1>6. "FAILED" \in Outcome \cup {"none"}
  BY DEF Outcome
<1> QED BY <1>2, <1>3, <1>4, <1>5, <1>6, EndOfDeliveryKeeps

-----------------------------------------------------------------------------
(* The whole specification                                                  *)

(* A step that touches the queue only.                                      *)
LEMMA LeaseExpiresKeeps ==
  ASSUME Inv, NEW m \in Message, LeaseExpires(m)
  PROVE  Inv'
<1>1. UNCHANGED <<dead, executed, proc>> /\ queue' = [queue EXCEPT ![m].state = "visible"]
  BY DEF LeaseExpires
<1>2. faults' \in Nat
  <2>1. faults' = faults \/ faults' = faults + 1
    BY DEF LeaseExpires, Happens
  <2> QED BY <2>1 DEF Inv, SetsTyped
<1>3. QueueTyped'
  BY <1>1 DEF Inv, QueueTyped, Envelope
<1>4. \A n \in Message : queue'[n].state = "gone" => queue[n].state = "gone"
  BY <1>1 DEF Inv, QueueTyped, Envelope
<1>5. NothingLost'
  BY <1>1, <1>4 DEF Inv, NothingLost
<1>6. SetsTyped'
  BY <1>1, <1>2 DEF Inv, SetsTyped
<1>7. ProcessesGood'
  BY <1>1 DEF Inv, ProcessesGood, Sound, Truthful
<1> QED BY <1>3, <1>5, <1>6, <1>7 DEF Inv

(* The invariant holds initially.                                           *)
LEMMA InitGood == Init => Inv
<1> SUFFICES ASSUME Init PROVE Inv
  OBVIOUS
<1>1. QueueTyped /\ NothingLost
  BY DEF Init, QueueTyped, Envelope, NothingLost
<1>2. SetsTyped
  BY DEF Init, SetsTyped
<1>3. \A p \in Process : proc[p] = Off
  BY DEF Init
<1>4. DOMAIN proc = Process /\ proc = [p \in Process |-> proc[p]]
  BY DEF Init
<1>5. ProcessesGood
  BY <1>3, <1>4, FreshGood DEF ProcessesGood
<1> QED BY <1>1, <1>2, <1>5 DEF Inv

(* Every step keeps the invariant.                                          *)
LEMMA StepKeeps == Inv /\ [Next]_vars => Inv'
<1> SUFFICES ASSUME Inv, [Next]_vars PROVE Inv'
  OBVIOUS
<1>1. ASSUME NEW p \in Process, Advance(p) PROVE Inv'
  <2>1. ASSUME Handle(p) PROVE Inv'
    <3>1. ASSUME NEW d \in proc[p].batch,
                 Requeue(p, d) \/ RejectBody(p, d) \/ SkipDuplicate(p, d) \/ Begin(p, d)
          PROVE  Inv'
      BY <3>1, RequeueKeeps, RejectBodyKeeps, SkipDuplicateKeeps, BeginKeeps
    <3>2. ASSUME Succeed(p) \/ RejectCommand(p) \/ FailForGood(p) \/ Fail(p)
                 \/ FinishLapsed(p) \/ Finish(p)
          PROVE  Inv'
      BY <3>2, SucceedKeeps, ToParkingKeeps, FailKeeps, FinishKeeps
    <3>3. ASSUME ParkSend(p) \/ ParkDelete(p) \/ Unpark(p)
          PROVE  Inv'
      BY <3>3, ParkSendKeeps, ParkDeleteKeeps, UnparkKeeps
    <3> QED BY <2>1, <3>1, <3>2, <3>3 DEF Handle
  <2> QED BY <1>1, <2>1, LifeKeeps, PollDrainKeeps DEF Advance
<1>2. ASSUME NEW p \in Process, Boot(p) \/ Disturb(p) PROVE Inv'
  BY <1>2, BootCrashKeeps, LifeKeeps DEF Disturb
<1>3. CASE UNCHANGED vars
  <2>1. UNCHANGED <<queue, dead, executed, proc, faults>>
    BY <1>3 DEF vars
  <2>2. QueueTyped' /\ NothingLost' /\ SetsTyped'
    BY <2>1 DEF Inv, QueueTyped, NothingLost, SetsTyped
  <2>3. ProcessesGood'
    BY <2>1 DEF Inv, ProcessesGood, Sound, Truthful
  <2> QED BY <2>2, <2>3 DEF Inv
<1> QED BY <1>1, <1>2, <1>3, LeaseExpiresKeeps DEF Next

(* The inductive invariant holds in every reachable state.                  *)
THEOREM Invariant == Spec => []Inv
BY InitGood, StepKeeps, PTL DEF Spec

(* Every variable holds values of its type, and no process claims more      *)
(* command ids than its cache holds.                                        *)
THEOREM TypeCorrect == Spec => []TypeOK
<1>1. Inv => TypeOK
  BY DEF Inv, QueueTyped, SetsTyped, ProcessesGood, Sound, TypeOK
<1> QED BY <1>1, Invariant, PTL

(* Whatever faults happen, in any number of processes, a message leaves the *)
(* queue only after its command was executed or the message was parked on   *)
(* the dead-letter queue.                                                   *)
THEOREM NoMessageLost == Spec => []NothingLost
<1>1. Inv => NothingLost
  BY DEF Inv
<1> QED BY <1>1, Invariant, PTL

(* No worker reports a message as executed or parked that is not: the       *)
(* duplicates it suppresses from its cache included.                        *)
THEOREM ResultsAreHonest == Spec => []HonestResults
<1>1. Inv => HonestResults
  BY DEF Inv, ProcessesGood, Truthful, HonestResults
<1> QED BY <1>1, Invariant, PTL

-----------------------------------------------------------------------------
(* The shapes a step of a process can have: v is its memory before the      *)
(* step, w after it.                                                        *)

(* It moves between places with its batch, its claims and its results; a    *)
(* heartbeat may have failed.                                               *)
Moves(v, w) ==
  /\ w.batch = v.batch /\ w.cur = v.cur /\ v.lapsed \subseteq w.lapsed
  /\ w.claims = v.claims /\ w.results = v.results
  /\ \/ w.pc = v.pc
     \/ /\ w.pc \in {"polling", "closing"} /\ v.pc \in {"starting", "polling", "batch"}
        /\ v.pc = "batch" => v.batch = {}
     \/ w.pc = "stopped" /\ v.pc \in {"closing", "batch"}
     \/ w.pc = "finishing" /\ v.pc = "executing"
     \/ w.pc \in {"parked", "unparked"} /\ v.pc \in {"parking", "parked"}

(* It takes a delivery of its batch, or gives up the one it was executing,  *)
(* with other claims.                                                       *)
Takes(v, w, d, claims) ==
  /\ d \in v.batch
  /\ w.batch = v.batch /\ w.cur = d /\ w.lapsed = v.lapsed
  /\ w.claims = claims /\ w.results = v.results
  /\ w.pc \in {"executing", "parking"}

(* It is done with a delivery, in order or by an exception.                 *)
Leaves(v, w, d, claims, outcome) ==
  /\ w.claims = claims /\ w.results = [v.results EXCEPT ![d.msg] = outcome]
  /\ \/ w.pc = "batch" /\ w.batch = v.batch \ {d} /\ w.lapsed = v.lapsed \ {d.msg}
     \/ w.pc \in {"stopped", "closing"} /\ w.batch = {}

(* It drops its batch by an exception.                                      *)
Drops(v, w) ==
  /\ w.claims = v.claims /\ w.results = v.results
  /\ w.pc \in {"stopped", "closing"} /\ w.batch = {}

(* It has received a batch.                                                 *)
Received(v, w, batch) ==
  /\ w.pc = "batch" /\ w.batch = Deliveries(batch)
  /\ w.cur = v.cur /\ w.lapsed = v.lapsed
  /\ w.claims = v.claims /\ w.results = v.results

(* No other process changes in a step of one.                               *)
LEMMA OthersKeep ==
  ASSUME Inv, NEW p \in Process, Boot(p) \/ Advance(p) \/ Disturb(p),
         NEW q \in Process, q # p
  PROVE  proc'[q] = proc[q]
<1>1. DOMAIN proc = Process
  BY DEF Inv, ProcessesGood
<1> QED BY <1>1 DEF Boot, Advance, Disturb, Start, Poll, LeaveLoop, Drain, EndBatch, Handle,
     StartFails, RequestStop, Crash, HeartbeatFails, Requeue, RejectBody, SkipDuplicate, Begin,
     Succeed, RejectCommand, FailForGood, Fail, FinishLapsed, Finish, ParkSend, ParkDelete, Unpark

(* The fields of the memory a process goes on with, in order.               *)
LEMMA NextMessageShape ==
  ASSUME NEW p \in Process, NEW d, proc[p] \in Memory, NEW claims, NEW outcome
  PROVE  LET w == NextMessage(p, d, claims, outcome)
         IN /\ Leaves(proc[p], w, d, claims, outcome)
            /\ w.pc = "batch"
            /\ Leaves(proc[p], Raised(w), d, claims, outcome)
            /\ Raised(w).pc # "batch"
<1> DEFINE w == NextMessage(p, d, claims, outcome)
<1>1. /\ w.pc = "batch" /\ w.batch = proc[p].batch \ {d} /\ w.lapsed = proc[p].lapsed \ {d.msg}
      /\ w.claims = claims /\ w.results = [proc[p].results EXCEPT ![d.msg] = outcome]
  BY DEF NextMessage, Dropped, Memory
<1>2. /\ Raised(w).pc \in {"stopped", "closing"} /\ Raised(w).batch = {}
      /\ Raised(w).claims = w.claims /\ Raised(w).results = w.results
  BY DEF Raised, NextMessage, Memory
<1> HIDE DEF w
<1>3. Leaves(proc[p], w, d, claims, outcome) /\ Leaves(proc[p], Raised(w), d, claims, outcome)
  BY <1>1, <1>2 DEF Leaves
<1> QED BY <1>1, <1>2, <1>3 DEF w

(* The fields after an exception.                                           *)
LEMMA RaisedShape ==
  ASSUME NEW w, w \in Memory
  PROVE  Drops(w, Raised(w))
BY DEF Drops, Raised, Memory

(* Outside its messages a process moves, or drops a batch it could not      *)
(* receive; what it starts with is fresh.                                   *)
LEMMA LifeShape ==
  ASSUME Inv, NEW p \in Process,
         \/ Boot(p) \/ Start(p) \/ LeaveLoop(p) \/ EndBatch(p) \/ Disturb(p)
  PROVE  /\ \/ Moves(proc[p], proc'[p])
            \/ proc'[p] \in {Fresh, Off}
         /\ UNCHANGED <<queue, dead, executed>>
<1>1. proc[p] \in Memory /\ DOMAIN proc = Process
  BY DEF Inv, ProcessesGood, Sound
<1>2. UNCHANGED <<queue, dead, executed>>
  BY DEF Boot, Start, LeaveLoop, EndBatch, Disturb, StartFails, RequestStop, Crash, HeartbeatFails
<1>3. CASE Boot(p) \/ Crash(p)
  BY <1>1, <1>2, <1>3 DEF Boot, Crash
<1>4. CASE Start(p) \/ LeaveLoop(p) \/ StartFails(p) \/ RequestStop(p)
  BY <1>1, <1>2, <1>4 DEF Start, LeaveLoop, StartFails, RequestStop, Moves, Memory
<1>5. CASE EndBatch(p)
  BY <1>1, <1>2, <1>5 DEF EndBatch, Moves, Memory
<1>6. CASE \E m \in Message : HeartbeatFails(p, m)
  BY <1>1, <1>2, <1>6 DEF HeartbeatFails, Moves, Memory
<1> QED BY <1>3, <1>4, <1>5, <1>6 DEF Disturb

(* A process that receives has received nothing, or holds the batch.        *)
LEMMA PollShape ==
  ASSUME Inv, NEW p \in Process, Poll(p) \/ Drain(p)
  PROVE  LET v == proc[p]  w == proc'[p]
         IN /\ v.pc \in {"polling", "closing"}
            /\ \/ Moves(v, w) /\ w.pc \in {"polling", "stopped"} /\ UNCHANGED queue
               \/ \E batch \in Receivable :
                    /\ queue' = Receive(batch)
                    /\ Drops(v, w) \/ Received(v, w, batch)
<1>1. proc[p] \in Memory /\ DOMAIN proc = Process
  BY DEF Inv, ProcessesGood, Sound
<1>2. CASE Poll(p)
  <2>1. Drops(proc[p], Raised(proc[p]))
    BY <1>1, RaisedShape
  <2>2. ASSUME NEW batch \in Receivable, queue' = Receive(batch),
               proc' = [proc EXCEPT ![p].pc = "batch", ![p].batch = Deliveries(batch)]
        PROVE  Received(proc[p], proc'[p], batch)
    BY <1>1, <2>2 DEF Received, Memory
  <2>3. CASE UNCHANGED <<queue, proc, faults>>
    BY <1>1, <1>2, <2>3 DEF Poll, Moves
  <2>4. CASE /\ \E batch \in Receivable : queue' = Receive(batch)
             /\ proc' = [proc EXCEPT ![p] = Raised(@)]
    BY <1>1, <1>2, <2>1, <2>4 DEF Poll
  <2>5. proc[p].pc = "polling"
    BY <1>2 DEF Poll
  <2> QED BY <1>2, <2>2, <2>3, <2>4, <2>5 DEF Poll
<1>3. CASE Drain(p)
  <2>1. ASSUME NEW batch \in Receivable, queue' = Receive(batch),
               proc' = [proc EXCEPT ![p].pc = "batch", ![p].drain = TRUE,
                                    ![p].batch = Deliveries(batch)]
        PROVE  Received(proc[p], proc'[p], batch)
    BY <1>1, <2>1 DEF Received, Memory
  <2>2. CASE proc' = [proc EXCEPT ![p].pc = "stopped", ![p].status = Ended(@)] /\ UNCHANGED queue
    BY <1>1, <1>3, <2>2 DEF Drain, Moves, Memory
  <2>3. proc[p].pc = "closing"
    BY <1>3 DEF Drain
  <2> QED BY <1>3, <2>1, <2>2, <2>3 DEF Drain
<1> QED BY <1>2, <1>3

(* A delivery that is handed back, suppressed, rejected or started.         *)
LEMMA BatchShape ==
  ASSUME Inv, NEW p \in Process, NEW d \in proc[p].batch,
         Requeue(p, d) \/ RejectBody(p, d) \/ SkipDuplicate(p, d) \/ Begin(p, d)
  PROVE  LET v == proc[p]  w == proc'[p]
         IN /\ v.pc = "batch"
            /\ \/ Drops(v, w) /\ queue' \in {queue, MadeVisible(d)}
               \/ /\ Leaves(v, w, d, v.claims, v.results[d.msg])
                  /\ queue' = MadeVisible(d)
               \/ /\ Leaves(v, w, d, Claim(CommandOf[d.msg], v.claims), "DUPLICATE")
                  /\ KnownCommand(p, d.msg)
                  /\ Delete(d) \/ (w.pc # "batch" /\ UNCHANGED queue)
               \/ Takes(v, w, d, v.claims) /\ w.pc = "parking" /\ UNCHANGED queue
               \/ /\ Takes(v, w, d, IF Durable(d.msg) THEN v.claims
                                    ELSE Claim(CommandOf[d.msg], v.claims))
                  /\ w.pc = "executing"
                  /\ ~KnownCommand(p, d.msg)
                  /\ UNCHANGED queue
<1>1. proc[p] \in Memory /\ DOMAIN proc = Process
  BY DEF Inv, ProcessesGood, Sound
<1>2. CASE Requeue(p, d)
  <2>1. CASE /\ queue' = MadeVisible(d)
             /\ proc' = [proc EXCEPT ![p] = NextMessage(p, d, @.claims, @.results[d.msg])]
    BY <1>1, <1>2, <2>1, NextMessageShape DEF Requeue
  <2>2. CASE proc' = [proc EXCEPT ![p] = Raised(@)] /\ queue' \in {queue, MadeVisible(d)}
    <3>1. Drops(proc[p], Raised(proc[p])) /\ proc'[p] = Raised(proc[p])
      BY <1>1, <2>2, RaisedShape
    <3> QED BY <1>2, <2>2, <3>1 DEF Requeue
  <2> QED BY <1>2, <2>1, <2>2 DEF Requeue
<1>3. CASE SkipDuplicate(p, d)
  <2> DEFINE after == NextMessage(p, d, Claim(CommandOf[d.msg], proc[p].claims), "DUPLICATE")
  <2>1. /\ Leaves(proc[p], after, d, Claim(CommandOf[d.msg], proc[p].claims), "DUPLICATE")
        /\ Leaves(proc[p], Raised(after), d, Claim(CommandOf[d.msg], proc[p].claims), "DUPLICATE")
        /\ Raised(after).pc # "batch"
    BY <1>1, NextMessageShape
  <2>2. /\ \/ Delete(d) /\ proc' = [proc EXCEPT ![p] = after]
           \/ (Delete(d) \/ UNCHANGED queue) /\ proc' = [proc EXCEPT ![p] = Raised(after)]
        /\ KnownCommand(p, d.msg) /\ proc[p].pc = "batch"
    BY <1>3 DEF SkipDuplicate, Handles
  <2> HIDE DEF after
  <2> QED BY <1>1, <2>1, <2>2
<1>4. CASE RejectBody(p, d)
  BY <1>1, <1>4 DEF RejectBody, Handles, Takes, Memory
<1>5. CASE Begin(p, d)
  <2> DEFINE claims == IF Durable(d.msg) THEN proc[p].claims
                       ELSE Claim(CommandOf[d.msg], proc[p].claims)
  <2>1. /\ proc' = [proc EXCEPT ![p].pc = "executing", ![p].cur = d, ![p].claims = claims]
        /\ ~KnownCommand(p, d.msg) /\ UNCHANGED queue /\ proc[p].pc = "batch"
    BY <1>5 DEF Begin, Handles
  <2> HIDE DEF claims
  <2>2. Takes(proc[p], proc'[p], d, claims) /\ proc'[p].pc = "executing"
    BY <1>1, <2>1 DEF Takes, Memory
  <2> QED BY <2>1, <2>2 DEF claims
<1> QED BY <1>2, <1>3, <1>4, <1>5

(* A delivery that is being executed, acknowledged or parked.               *)
LEMMA BusyShape ==
  ASSUME Inv, NEW p \in Process, proc[p].cur \in proc[p].batch,
         \/ Succeed(p) \/ RejectCommand(p) \/ FailForGood(p) \/ Fail(p) \/ FinishLapsed(p)
         \/ Finish(p) \/ ParkSend(p) \/ ParkDelete(p) \/ Unpark(p)
  PROVE  LET v == proc[p]  w == proc'[p]  d == proc[p].cur
         IN /\ v.pc \in Busy
            /\ \/ Moves(v, w) /\ w.pc \in Busy /\ w.pc # v.pc /\ v.pc # "finishing"
                  /\ (UNCHANGED queue \/ (v.pc = "parked" /\ Delete(d)))
               \/ Takes(v, w, d, AfterFailure(p, d.msg)) /\ v.pc = "executing"
                  /\ w.pc = "parking" /\ UNCHANGED queue
               \/ /\ Leaves(v, w, d, AfterFailure(p, d.msg), "FAILED")
                  /\ v.pc \in {"executing", "finishing"}
                  /\ queue' \in {queue, MadeVisible(d)}
                  /\ w.pc = "batch" =>
                       queue' = MadeVisible(d) \/ (v.pc = "finishing" /\ d.msg \in v.lapsed)
               \/ /\ Leaves(v, w, d, v.claims, "SUCCEEDED")
                  /\ v.pc = "finishing" /\ d.msg \notin v.lapsed
                  /\ Delete(d) \/ (w.pc # "batch" /\ UNCHANGED queue)
               \/ /\ Leaves(v, w, d, v.claims, v.verdict)
                  /\ v.pc = "parked" /\ Delete(d)
               \/ /\ Leaves(v, w, d, v.claims, "FAILED")
                  /\ v.pc = "unparked" /\ queue' \in {queue, MadeVisible(d)}
<1> DEFINE d == proc[p].cur
<1>1. proc[p] \in Memory /\ DOMAIN proc = Process
  BY DEF Inv, ProcessesGood, Sound
<1>2. CASE Succeed(p)
  BY <1>1, <1>2 DEF Succeed, Moves, Memory, Busy
<1>3. CASE RejectCommand(p) \/ FailForGood(p)
  <2> DEFINE claims == AfterFailure(p, d.msg)
  <2>1. /\ \E verdict : proc' = [proc EXCEPT ![p].pc = "parking", ![p].verdict = verdict,
                                             ![p].claims = claims]
        /\ UNCHANGED queue /\ proc[p].pc = "executing"
    BY <1>3 DEF RejectCommand, FailForGood
  <2> HIDE DEF claims
  <2>2. Takes(proc[p], proc'[p], d, claims) /\ proc'[p].pc = "parking"
    BY <1>1, <2>1 DEF Takes, Memory
  <2> QED BY <2>1, <2>2 DEF claims, Busy
<1>4. CASE Fail(p)
  <2> DEFINE claims == AfterFailure(p, d.msg)
  <2> DEFINE after == NextMessage(p, d, claims, "FAILED")
  <2>1. /\ Leaves(proc[p], after, d, claims, "FAILED")
        /\ Leaves(proc[p], Raised(after), d, claims, "FAILED")
        /\ Raised(after).pc # "batch"
    BY <1>1, NextMessageShape
  <2>2. /\ \/ queue' = MadeVisible(d) /\ proc' = [proc EXCEPT ![p] = after]
           \/ queue' \in {queue, MadeVisible(d)} /\ proc' = [proc EXCEPT ![p] = Raised(after)]
        /\ proc[p].pc = "executing"
    BY <1>4 DEF Fail
  <2> HIDE DEF after
  <2> QED BY <1>1, <2>1, <2>2 DEF Busy
<1>5. CASE FinishLapsed(p)
  <2> DEFINE after == NextMessage(p, d, AfterFailure(p, d.msg), "FAILED")
  <2>1. Leaves(proc[p], after, d, AfterFailure(p, d.msg), "FAILED")
    BY <1>1, NextMessageShape
  <2>2. /\ queue' \in {queue, MadeVisible(d)} /\ proc' = [proc EXCEPT ![p] = after]
        /\ proc[p].pc = "finishing" /\ d.msg \in proc[p].lapsed
    BY <1>5 DEF FinishLapsed
  <2> HIDE DEF after
  <2> QED BY <1>1, <2>1, <2>2 DEF Busy
<1>6. CASE Finish(p)
  <2> DEFINE after == NextMessage(p, d, proc[p].claims, "SUCCEEDED")
  <2>1. /\ Leaves(proc[p], after, d, proc[p].claims, "SUCCEEDED")
        /\ Leaves(proc[p], Raised(after), d, proc[p].claims, "SUCCEEDED")
        /\ Raised(after).pc # "batch"
    BY <1>1, NextMessageShape
  <2>2. /\ \/ Delete(d) /\ proc' = [proc EXCEPT ![p] = after]
           \/ (Delete(d) \/ UNCHANGED queue) /\ proc' = [proc EXCEPT ![p] = Raised(after)]
        /\ proc[p].pc = "finishing" /\ d.msg \notin proc[p].lapsed
    BY <1>6 DEF Finish
  <2> HIDE DEF after
  <2> QED BY <1>1, <2>1, <2>2 DEF Busy
<1>7. CASE ParkSend(p)
  BY <1>1, <1>7 DEF ParkSend, Moves, Memory, Busy
<1>8. CASE ParkDelete(p)
  <2> DEFINE after == NextMessage(p, d, proc[p].claims, proc[p].verdict)
  <2>1. Leaves(proc[p], after, d, proc[p].claims, proc[p].verdict)
    BY <1>1, NextMessageShape
  <2>2. /\ \/ Delete(d) /\ proc' = [proc EXCEPT ![p] = after]
           \/ (Delete(d) \/ UNCHANGED queue) /\ proc' = [proc EXCEPT ![p].pc = "unparked"]
        /\ proc[p].pc = "parked"
    BY <1>8 DEF ParkDelete
  <2>3. CASE proc' = [proc EXCEPT ![p].pc = "unparked"]
    <3>1. Moves(proc[p], proc'[p]) /\ proc'[p].pc = "unparked"
      BY <1>1, <2>2, <2>3 DEF Moves, Memory
    <3> QED BY <1>8, <2>2, <3>1 DEF Busy, ParkDelete
  <2> HIDE DEF after
  <2> QED BY <1>1, <2>1, <2>2, <2>3 DEF Busy
<1>9. CASE Unpark(p)
  <2> DEFINE after == NextMessage(p, d, proc[p].claims, "FAILED")
  <2>1. Leaves(proc[p], after, d, proc[p].claims, "FAILED")
    BY <1>1, NextMessageShape
  <2>2. /\ queue' \in {queue, MadeVisible(d)} /\ proc' = [proc EXCEPT ![p] = after]
        /\ proc[p].pc = "unparked"
    BY <1>9 DEF Unpark
  <2> HIDE DEF after
  <2> QED BY <1>1, <2>1, <2>2 DEF Busy
<1> QED BY <1>2, <1>3, <1>4, <1>5, <1>6, <1>7, <1>8, <1>9

-----------------------------------------------------------------------------
(* The deliveries a process holds                                           *)

(* A process that waits or ends holds no delivery, a busy one is at one of  *)
(* its batch; receipts are of the past, one to a message.                   *)
InHand(w, envelopes) ==
  /\ w.pc \in {"starting", "polling", "closing"} => w.batch = {}
  /\ w.pc \in Busy => w.cur \in w.batch
  /\ \A d \in w.batch : d.receipt <= envelopes[d.msg].receives
  /\ \A d, e \in w.batch : d.msg = e.msg => d = e

(* A delivery that is being renewed is the last one of its message.         *)
Current(w, envelopes) ==
  \A d \in w.batch : d.msg \notin w.lapsed =>
    /\ envelopes[d.msg].receives = d.receipt
    /\ envelopes[d.msg].state \in {"leased", "gone"}

LeaseInv ==
  /\ \A p \in Process : InHand(proc[p], queue)
  /\ \A p, q \in Process : p # q => proc[p].batch \cap proc[q].batch = {}
  /\ "stall" \notin Faults => \A p \in Process : Current(proc[p], queue)

(* Batches hold deliveries of messages.                                     *)
LEMMA BatchesTyped ==
  ASSUME Inv
  PROVE  /\ QueueTyped
         /\ \A q \in Process : \A d \in proc[q].batch : d \in Delivery /\ d.msg \in Message
<1>1. \A q \in Process : \A d \in proc[q].batch : d \in Delivery
  BY ProcessFacts
<1>2. \A d \in Delivery : d.msg \in Message
  BY DEF Delivery
<1> QED BY <1>1, <1>2 DEF Inv

(* What the calls on a lease do to an envelope.                             *)
LEMMA EnvelopeStep ==
  ASSUME QueueTyped, NEW d \in Delivery, queue' \in {queue, MadeVisible(d)} \/ Delete(d),
         NEW m \in Message
  PROVE  /\ queue'[m].receives = queue[m].receives
         /\ \/ queue'[m].state = queue[m].state
            \/ queue'[m].state = "gone" /\ m = d.msg
            \/ m = d.msg /\ Held(d) /\ queue' = MadeVisible(d)
<1>1. d.msg \in Message /\ queue \in [Message -> Envelope]
  BY DEF QueueTyped, Delivery
<1>2. CASE queue' = queue
  BY <1>2
<1>3. CASE queue' = MadeVisible(d)
  BY <1>1, <1>3 DEF MadeVisible, Envelope
<1>4. CASE Delete(d)
  BY <1>1, <1>4 DEF Delete, Envelope
<1> QED BY <1>2, <1>3, <1>4

(* A process gives up some of its deliveries and makes no message visible   *)
(* whose delivery it keeps.                                                 *)
LEMMA KeepsLeases ==
  ASSUME Inv, LeaseInv, NEW p \in Process,
         \A q \in Process : q # p => proc'[q] = proc[q],
         proc'[p].batch \subseteq proc[p].batch,
         proc'[p].pc \in {"starting", "polling", "closing"} => proc'[p].batch = {},
         proc'[p].pc \in Busy => proc'[p].cur \in proc'[p].batch,
         \A e \in proc'[p].batch : e.msg \in proc[p].lapsed => e.msg \in proc'[p].lapsed,
         \/ UNCHANGED queue
         \/ \E d \in proc[p].batch :
              Delete(d) \/ (queue' = MadeVisible(d) /\ d \notin proc'[p].batch)
  PROVE  LeaseInv'
<1>1. QueueTyped /\ \A q \in Process : \A d \in proc[q].batch : d \in Delivery /\ d.msg \in Message
  BY BatchesTyped
<1>2. \A q \in Process : \A e \in proc'[q].batch :
        /\ e \in proc[q].batch
        /\ queue'[e.msg].receives = queue[e.msg].receives
        /\ \/ queue'[e.msg].state = queue[e.msg].state
           \/ queue'[e.msg].state = "gone"
           \/ queue[e.msg].receives # e.receipt
  <2> SUFFICES ASSUME NEW q \in Process, NEW e \in proc'[q].batch
               PROVE  /\ e \in proc[q].batch
                      /\ queue'[e.msg].receives = queue[e.msg].receives
                      /\ \/ queue'[e.msg].state = queue[e.msg].state
                         \/ queue'[e.msg].state = "gone"
                         \/ queue[e.msg].receives # e.receipt
    OBVIOUS
  <2>1. e \in proc[q].batch
    BY DEF LeaseInv
  <2>2. CASE UNCHANGED queue
    BY <2>1, <2>2
  <2>3. ASSUME NEW d \in proc[p].batch,
               Delete(d) \/ (queue' = MadeVisible(d) /\ d \notin proc'[p].batch)
        PROVE  /\ queue'[e.msg].receives = queue[e.msg].receives
               /\ \/ queue'[e.msg].state = queue[e.msg].state
                  \/ queue'[e.msg].state = "gone"
                  \/ queue[e.msg].receives # e.receipt
    <3>1. /\ queue'[e.msg].receives = queue[e.msg].receives
          /\ \/ queue'[e.msg].state = queue[e.msg].state
             \/ queue'[e.msg].state = "gone" /\ e.msg = d.msg
             \/ e.msg = d.msg /\ Held(d) /\ queue' = MadeVisible(d)
      BY <1>1, <2>1, <2>3, EnvelopeStep
    <3>2. ASSUME e.msg = d.msg, Held(d), queue' = MadeVisible(d), queue[e.msg].receives = e.receipt
          PROVE  Delete(d)
      <4>1. queue[d.msg].receives = d.receipt
        BY <3>2 DEF Held
      <4>2. e = d
        BY <1>1, <2>1, <3>2, <4>1 DEF Delivery
      <4>3. q = p
        BY <2>1, <4>2 DEF LeaseInv
      <4> QED BY <2>3, <4>2, <4>3
    <3>3. ASSUME Delete(d)
          PROVE  queue'[e.msg].state = queue[e.msg].state \/ queue'[e.msg].state = "gone"
      BY <1>1, <2>1, <3>3 DEF Delete, QueueTyped, Envelope
    <3> QED BY <3>1, <3>2, <3>3
  <2> QED BY <2>1, <2>2, <2>3
<1>3. ASSUME NEW q \in Process PROVE InHand(proc'[q], queue')
  <2>1. InHand(proc[q], queue)
    BY DEF LeaseInv
  <2>2. \A e \in proc'[q].batch : e \in proc[q].batch /\ e.receipt <= queue'[e.msg].receives
    BY <1>2, <2>1 DEF InHand
  <2>3. CASE q = p
    BY <2>1, <2>2, <2>3 DEF InHand
  <2>4. CASE q # p
    BY <2>1, <2>2, <2>4 DEF InHand
  <2> QED BY <2>3, <2>4
<1>4. ASSUME "stall" \notin Faults, NEW q \in Process PROVE Current(proc'[q], queue')
  <2>1. Current(proc[q], queue)
    BY <1>4 DEF LeaseInv
  <2>2. \A e \in proc'[q].batch : e.msg \notin proc'[q].lapsed => e.msg \notin proc[q].lapsed
    OBVIOUS
  <2> QED BY <1>2, <2>1, <2>2 DEF Current
<1>5. \A q, r \in Process : q # r => proc'[q].batch \cap proc'[r].batch = {}
  BY <1>2 DEF LeaseInv
<1> QED BY <1>3, <1>4, <1>5 DEF LeaseInv, InHand, Current, Busy

(* A process that held nothing receives visible messages, each for the      *)
(* first time under its new receipt.                                        *)
LEMMA ReceivesLeases ==
  ASSUME Inv, LeaseInv, NEW p \in Process, NEW batch \in Receivable,
         \A q \in Process : q # p => proc'[q] = proc[q],
         queue' = Receive(batch),
         \/ proc'[p].batch = {} /\ proc'[p].pc \notin Busy
         \/ proc'[p].batch = Deliveries(batch) /\ proc'[p].pc = "batch"
  PROVE  LeaseInv'
<1>1. QueueTyped /\ \A q \in Process : \A d \in proc[q].batch : d \in Delivery /\ d.msg \in Message
  BY BatchesTyped
<1>2. /\ batch \subseteq Message
      /\ \A m \in batch : queue[m].state = "visible"
      /\ \A m \in Message : queue[m].receives \in Nat
  BY <1>1 DEF Receivable, QueueTyped, Envelope
<1>3. \A m \in Message :
        /\ m \in batch => /\ queue'[m].state = "leased"
                          /\ queue'[m].receives = queue[m].receives + 1
        /\ m \notin batch => queue'[m] = queue[m]
  BY <1>2 DEF Receive
<1>4. \A e \in Deliveries(batch) :
        /\ e.msg \in batch /\ e.receipt = queue[e.msg].receives + 1
        /\ e = [msg |-> e.msg, receipt |-> queue[e.msg].receives + 1]
        /\ e.receipt \in Nat /\ queue'[e.msg].receives = e.receipt
        /\ queue'[e.msg].state = "leased"
  <2> SUFFICES ASSUME NEW m \in batch,
                      NEW e, e = [msg |-> m, receipt |-> queue[m].receives + 1]
               PROVE  /\ e.msg = m /\ e.receipt = queue[m].receives + 1
                      /\ e.receipt \in Nat /\ queue'[m].receives = e.receipt
                      /\ queue'[m].state = "leased"
    BY DEF Deliveries
  <2> QED BY <1>2, <1>3
<1>5. ASSUME NEW q \in Process, q # p
      PROVE  /\ InHand(proc'[q], queue')
             /\ \A e \in proc[q].batch : e \notin Deliveries(batch)
             /\ "stall" \notin Faults => Current(proc'[q], queue')
  <2>1. InHand(proc[q], queue) /\ proc'[q] = proc[q]
    BY <1>5 DEF LeaseInv
  <2>2. \A e \in proc[q].batch :
          e.receipt \in Nat /\ e.receipt <= queue[e.msg].receives /\ queue[e.msg].receives \in Nat
    BY <1>1, <1>2, <2>1 DEF InHand, Delivery
  <2>3. \A e \in proc[q].batch : e.receipt <= queue'[e.msg].receives
    <3> SUFFICES ASSUME NEW e \in proc[q].batch PROVE e.receipt <= queue'[e.msg].receives
      OBVIOUS
    <3>1. e.msg \in Message
      BY <1>1
    <3>2. queue'[e.msg].receives \in {queue[e.msg].receives, queue[e.msg].receives + 1}
      <4>1. CASE e.msg \in batch
        BY <1>3, <3>1, <4>1
      <4>2. CASE e.msg \notin batch
        BY <1>3, <3>1, <4>2
      <4> QED BY <4>1, <4>2
    <3> QED BY <2>2, <3>2
  <2>4. \A e \in proc[q].batch : e \notin Deliveries(batch)
    <3> SUFFICES ASSUME NEW e \in proc[q].batch, e \in Deliveries(batch) PROVE FALSE
      OBVIOUS
    <3>1. e.receipt = queue[e.msg].receives + 1
      BY <1>4
    <3> QED BY <2>2, <3>1
  <2>5. InHand(proc'[q], queue')
    BY <2>1, <2>3 DEF InHand
  <2>6. ASSUME "stall" \notin Faults PROVE Current(proc'[q], queue')
    <3>1. Current(proc[q], queue)
      BY <2>6 DEF LeaseInv
    <3>2. \A e \in proc[q].batch : e.msg \notin proc[q].lapsed => e.msg \notin batch
      BY <1>2, <3>1 DEF Current
    <3> QED BY <1>1, <1>3, <2>1, <3>1, <3>2 DEF Current
  <2> QED BY <2>4, <2>5, <2>6
<1>6. InHand(proc'[p], queue') /\ Current(proc'[p], queue')
  <2>1. CASE proc'[p].batch = {} /\ proc'[p].pc \notin Busy
    BY <2>1 DEF InHand, Current
  <2>2. CASE proc'[p].batch = Deliveries(batch) /\ proc'[p].pc = "batch"
    <3>1. \A d, e \in Deliveries(batch) : d.msg = e.msg => d = e
      BY <1>4
    <3>2. \A d \in Deliveries(batch) : d.receipt <= queue'[d.msg].receives
      BY <1>4
    <3> QED BY <1>4, <2>2, <3>1, <3>2 DEF InHand, Current, Busy
  <2> QED BY <2>1, <2>2
<1>7. \A q, r \in Process : q # r => proc'[q].batch \cap proc'[r].batch = {}
  <2> SUFFICES ASSUME NEW q \in Process, NEW r \in Process, q # r, q # p
               PROVE  proc'[q].batch \cap proc'[r].batch = {}
    OBVIOUS
  <2>1. CASE r = p
    BY <1>5, <2>1
  <2>2. CASE r # p
    BY <2>2 DEF LeaseInv
  <2> QED BY <2>1, <2>2
<1> QED BY <1>5, <1>6, <1>7 DEF LeaseInv, InHand, Current, Busy

(* A lease that expires is one nobody renews, unless a process stalled.     *)
LEMMA ExpiryKeepsLeases ==
  ASSUME Inv, LeaseInv, NEW m \in Message, LeaseExpires(m)
  PROVE  LeaseInv'
<1>1. QueueTyped /\ \A q \in Process : \A d \in proc[q].batch : d \in Delivery /\ d.msg \in Message
  BY BatchesTyped
<1>2. /\ UNCHANGED proc /\ queue' = [queue EXCEPT ![m].state = "visible"]
      /\ queue[m].state = "leased"
      /\ Renewed(m) => "stall" \in Faults
  BY DEF LeaseExpires, Happens
<1>3. \A n \in Message : /\ queue'[n].receives = queue[n].receives
                         /\ n # m => queue'[n] = queue[n]
  BY <1>1, <1>2 DEF QueueTyped, Envelope
<1>4. ASSUME NEW q \in Process PROVE InHand(proc'[q], queue')
  <2>1. InHand(proc[q], queue)
    BY DEF LeaseInv
  <2> QED BY <1>1, <1>2, <1>3, <2>1 DEF InHand
<1>5. ASSUME "stall" \notin Faults, NEW q \in Process PROVE Current(proc'[q], queue')
  <2>1. Current(proc[q], queue) /\ ~Renewed(m)
    BY <1>2, <1>5 DEF LeaseInv
  <2>2. ASSUME NEW d \in proc[q].batch, d.msg \notin proc[q].lapsed PROVE d.msg # m
    <3>1. ASSUME d.msg = m PROVE Held(d)
      BY <1>1, <1>2, <2>1, <2>2, <3>1 DEF Current, Held, QueueTyped, Envelope
    <3> QED BY <2>1, <2>2, <3>1 DEF Renewed
  <2> QED BY <1>1, <1>2, <1>3, <2>1, <2>2 DEF Current
<1>6. \A q, r \in Process : q # r => proc'[q].batch \cap proc'[r].batch = {}
  BY <1>2 DEF LeaseInv
<1> QED BY <1>4, <1>5, <1>6 DEF LeaseInv, InHand, Current, Busy

(* Every step keeps what is known of the leases.                            *)
LEMMA LeasesStep ==
  ASSUME Inv, LeaseInv, [Next]_vars
  PROVE  LeaseInv'
<1>1. ASSUME NEW p \in Process, Boot(p) \/ Advance(p) \/ Disturb(p) PROVE LeaseInv'
  <2>1. \A q \in Process : q # p => proc'[q] = proc[q]
    BY <1>1, OthersKeep
  <2>2. InHand(proc[p], queue)
    BY DEF LeaseInv
  <2>3. CASE Boot(p) \/ Start(p) \/ LeaveLoop(p) \/ EndBatch(p) \/ Disturb(p)
    <3>1. UNCHANGED queue
      BY <2>3, LifeShape
    <3>2. CASE Moves(proc[p], proc'[p])
      BY <2>1, <2>2, <3>1, <3>2, KeepsLeases DEF Moves, InHand, Busy
    <3>3. CASE proc'[p] \in {Fresh, Off}
      <4>1. proc'[p].batch = {} /\ proc'[p].pc \notin Busy
        BY <3>3 DEF Fresh, Off, Busy
      <4> QED BY <2>1, <3>1, <4>1, KeepsLeases
    <3> QED BY <2>3, <3>2, <3>3, LifeShape
  <2>4. CASE Poll(p) \/ Drain(p)
    <3>1. CASE /\ Moves(proc[p], proc'[p]) /\ proc'[p].pc \in {"polling", "stopped"}
               /\ UNCHANGED queue /\ proc[p].pc \in {"polling", "closing"}
      BY <2>1, <2>2, <3>1, KeepsLeases DEF Moves, InHand, Busy
    <3>2. ASSUME NEW batch \in Receivable, queue' = Receive(batch),
                 Drops(proc[p], proc'[p]) \/ Received(proc[p], proc'[p], batch)
          PROVE  LeaseInv'
      BY <2>1, <3>2, ReceivesLeases DEF Drops, Received, Busy
    <3> QED BY <2>4, <3>1, <3>2, PollShape
  <2>5. ASSUME NEW d \in proc[p].batch,
               Requeue(p, d) \/ RejectBody(p, d) \/ SkipDuplicate(p, d) \/ Begin(p, d)
        PROVE  LeaseInv'
    <3>1. CASE Drops(proc[p], proc'[p]) /\ queue' \in {queue, MadeVisible(d)}
      BY <2>1, <3>1, KeepsLeases DEF Drops, Busy
    <3>2. ASSUME NEW claims, NEW outcome, Leaves(proc[p], proc'[p], d, claims, outcome),
                 queue' \in {queue, MadeVisible(d)} \/ Delete(d)
          PROVE  LeaseInv'
      BY <2>1, <2>2, <3>2, KeepsLeases DEF Leaves, InHand, Busy
    <3>3. ASSUME NEW claims, Takes(proc[p], proc'[p], d, claims), UNCHANGED queue
          PROVE  LeaseInv'
      BY <2>1, <2>2, <3>3, KeepsLeases DEF Takes, InHand, Busy
    <3> QED BY <2>5, <3>1, <3>2, <3>3, BatchShape
  <2>6. CASE \/ Succeed(p) \/ RejectCommand(p) \/ FailForGood(p) \/ Fail(p) \/ FinishLapsed(p)
             \/ Finish(p) \/ ParkSend(p) \/ ParkDelete(p) \/ Unpark(p)
    <3> DEFINE d == proc[p].cur
    <3>1. d \in proc[p].batch
      BY <2>2, <2>6 DEF InHand, Busy, Succeed, RejectCommand, FailForGood, Fail, FinishLapsed,
         Finish, ParkSend, ParkDelete, Unpark
    <3>2. ASSUME Moves(proc[p], proc'[p]), proc'[p].pc \in Busy, UNCHANGED queue \/ Delete(d)
          PROVE  LeaseInv'
      BY <2>1, <2>2, <3>1, <3>2, KeepsLeases DEF Moves, InHand, Busy
    <3>3. ASSUME NEW claims, NEW outcome, Leaves(proc[p], proc'[p], d, claims, outcome),
                 queue' \in {queue, MadeVisible(d)} \/ Delete(d)
          PROVE  LeaseInv'
      BY <2>1, <2>2, <3>1, <3>3, KeepsLeases DEF Leaves, InHand, Busy
    <3>4. ASSUME NEW claims, Takes(proc[p], proc'[p], d, claims), UNCHANGED queue
          PROVE  LeaseInv'
      BY <2>1, <2>2, <3>4, KeepsLeases DEF Takes, InHand, Busy
    <3> HIDE DEF d
    <3> QED BY <2>6, <3>1, <3>2, <3>3, <3>4, BusyShape DEF d
  <2> QED BY <1>1, <2>3, <2>4, <2>5, <2>6 DEF Advance, Handle
<1>2. CASE UNCHANGED vars
  BY <1>2 DEF vars, LeaseInv, InHand, Current
<1> QED BY <1>1, <1>2, ExpiryKeepsLeases DEF Next

(* Nothing is held at first.                                                *)
LEMMA LeasesInit == Init => LeaseInv
<1> SUFFICES ASSUME Init PROVE LeaseInv
  OBVIOUS
<1>1. \A p \in Process : proc[p].batch = {} /\ proc[p].pc = "off"
  BY DEF Init, Off, Fresh
<1> QED BY <1>1 DEF LeaseInv, InHand, Current, Busy

(* The invariant of the leases holds in every reachable state.              *)
THEOREM LeaseInvariant == Spec => []LeaseInv
BY LeasesInit, LeasesStep, Invariant, PTL DEF Spec

(* A message is held by one worker at most: of two processes that both have *)
(* a delivery of it in hand, one has lost its lease.                        *)
OneHolder ==
  \A p, q \in Process : \A d \in proc[p].batch, e \in proc[q].batch :
    d.msg = e.msg /\ Held(d) /\ Held(e) => p = q

(* Whatever stalls, crashes and failing renewals happen, no two workers     *)
(* hold the lease of one message.                                           *)
THEOREM LeasesAreExclusive == Spec => []OneHolder
<1>1. Inv /\ LeaseInv => OneHolder
  <2> SUFFICES ASSUME Inv, LeaseInv, NEW p \in Process, NEW q \in Process,
                      NEW d \in proc[p].batch, NEW e \in proc[q].batch,
                      d.msg = e.msg, Held(d), Held(e)
               PROVE  p = q
    BY DEF OneHolder
  <2>1. d \in Delivery /\ e \in Delivery
    BY BatchesTyped
  <2>2. d.receipt = e.receipt
    BY DEF Held
  <2>3. d = e
    BY <2>1, <2>2 DEF Delivery
  <2> QED BY <2>3 DEF LeaseInv
<1> QED BY <1>1, Invariant, LeaseInvariant, PTL

(* An executed message is deleted only under its lease: the acknowledging   *)
(* step is the end of an execution whose lease was renewed all along.       *)
LEMMA AcknowledgesHeld ==
  ASSUME Inv, LeaseInv, "stall" \notin Faults, [Next]_vars,
         NEW p \in Process, NEW m \in Message,
         proc[p].pc = "finishing", proc[p].cur.msg = m, proc'[p].pc # "finishing",
         queue[m].state # "gone", queue'[m].state = "gone"
  PROVE  Held(proc[p].cur)
<1> DEFINE d == proc[p].cur
<1>1. d \in proc[p].batch /\ Current(proc[p], queue) /\ d \in Delivery /\ QueueTyped
  <2>1. d \in proc[p].batch /\ Current(proc[p], queue)
    BY DEF LeaseInv, InHand, Busy
  <2> QED BY <2>1, BatchesTyped
<1>2. ASSUME d.msg \notin proc[p].lapsed PROVE Held(d)
  BY <1>1, <1>2 DEF Current, Held, QueueTyped, Envelope
<1>3. \A q \in Process : (Boot(q) \/ Advance(q) \/ Disturb(q)) => q = p
  BY OthersKeep
<1>4. ASSUME NEW n \in Message, LeaseExpires(n) PROVE FALSE
  BY <1>4 DEF LeaseExpires
<1>5. \/ Boot(p) \/ Advance(p) \/ Disturb(p)
  <2>1. ~UNCHANGED vars
    BY DEF vars
  <2> QED BY <1>3, <1>4, <2>1 DEF Next
<1>6. ~(Boot(p) \/ Start(p) \/ LeaveLoop(p) \/ EndBatch(p) \/ Disturb(p))
  <2>1. ~UNCHANGED queue
    OBVIOUS
  <2> QED BY <2>1, LifeShape
<1>7. ~(Poll(p) \/ Drain(p))
  BY DEF Poll, Drain
<1>8. \A e \in proc[p].batch : ~(Requeue(p, e) \/ RejectBody(p, e) \/ SkipDuplicate(p, e) \/ Begin(p, e))
  BY DEF Requeue, RejectBody, SkipDuplicate, Begin, Handles
<1>9. Succeed(p) \/ RejectCommand(p) \/ FailForGood(p) \/ Fail(p) \/ FinishLapsed(p)
      \/ Finish(p) \/ ParkSend(p) \/ ParkDelete(p) \/ Unpark(p)
  BY <1>5, <1>6, <1>7, <1>8 DEF Advance, Handle
<1>10. ~FinishLapsed(p)
  <2>1. MadeVisible(d)[m].state = "gone" => queue[m].state = "gone"
    BY <1>1, MadeVisibleKeeps
  <2> QED BY <2>1 DEF FinishLapsed
<1>11. Finish(p)
  BY <1>9, <1>10 DEF Succeed, RejectCommand, FailForGood, Fail, ParkSend, ParkDelete, Unpark
<1> QED BY <1>2, <1>11 DEF Finish

(* A delivery that a process is done with, when it goes on, was deleted or  *)
(* made visible again.                                                      *)
LEMMA HandsBackStep ==
  ASSUME Inv, LeaseInv, [Next]_vars, NEW p \in Process, NEW d \in proc[p].batch,
         proc'[p].pc = "batch", d \notin proc'[p].batch, proc[p].pc # "unparked",
         proc[p].pc = "finishing" => d.msg \notin proc[p].lapsed
  PROVE  queue'[d.msg] # queue[d.msg] \/ ~Held(d)
<1>1. /\ InHand(proc[p], queue) /\ d \in Delivery /\ d.msg \in Message /\ QueueTyped
  BY BatchesTyped DEF LeaseInv
<1>2. ASSUME queue' = MadeVisible(d) \/ Delete(d), Held(d) PROVE queue'[d.msg] # queue[d.msg]
  BY <1>1, <1>2 DEF MadeVisible, Delete, Held, QueueTyped, Envelope
<1>3. Boot(p) \/ Advance(p) \/ Disturb(p)
  <2>1. proc'[p] # proc[p]
    OBVIOUS
  <2>2. ~UNCHANGED vars /\ \A m \in Message : ~LeaseExpires(m)
    BY <2>1 DEF vars, LeaseExpires
  <2> QED BY <2>1, <2>2, OthersKeep DEF Next
<1>4. CASE Boot(p) \/ Start(p) \/ LeaveLoop(p) \/ EndBatch(p) \/ Disturb(p)
  <2>1. proc'[p] \notin {Fresh, Off} /\ ~Moves(proc[p], proc'[p])
    BY DEF Fresh, Off, Moves
  <2> QED BY <1>4, <2>1, LifeShape
<1>5. CASE Poll(p) \/ Drain(p)
  <2>1. proc[p].pc \in {"polling", "closing"}
    BY <1>5, PollShape
  <2> QED BY <1>1, <2>1 DEF InHand
<1>6. ASSUME NEW e \in proc[p].batch,
             Requeue(p, e) \/ RejectBody(p, e) \/ SkipDuplicate(p, e) \/ Begin(p, e)
      PROVE  queue'[d.msg] # queue[d.msg] \/ ~Held(d)
  <2>1. ~Drops(proc[p], proc'[p]) /\ \A claims : ~Takes(proc[p], proc'[p], e, claims)
    BY DEF Drops, Takes
  <2>2. (\E claims, outcome : Leaves(proc[p], proc'[p], e, claims, outcome)) => e = d
    BY DEF Leaves
  <2>3. (queue' = MadeVisible(e) \/ Delete(e)) /\ e = d
    BY <1>6, <2>1, <2>2, BatchShape
  <2> QED BY <1>2, <2>3
<1>7. CASE \/ Succeed(p) \/ RejectCommand(p) \/ FailForGood(p) \/ Fail(p) \/ FinishLapsed(p)
           \/ Finish(p) \/ ParkSend(p) \/ ParkDelete(p) \/ Unpark(p)
  <2> DEFINE e == proc[p].cur
  <2>1. e \in proc[p].batch
    BY <1>1, <1>7 DEF InHand, Busy, Succeed, RejectCommand, FailForGood, Fail, FinishLapsed,
       Finish, ParkSend, ParkDelete, Unpark
  <2>2. ~Moves(proc[p], proc'[p]) /\ \A claims : ~Takes(proc[p], proc'[p], e, claims)
    BY DEF Moves, Takes
  <2>3. (\E claims, outcome : Leaves(proc[p], proc'[p], e, claims, outcome)) => e = d
    BY DEF Leaves
  <2> HIDE DEF e
  <2>4. (queue' = MadeVisible(e) \/ Delete(e)) /\ e = d
    BY <1>7, <2>1, <2>2, <2>3, BusyShape DEF e
  <2> QED BY <1>2, <2>4
<1> QED BY <1>3, <1>4, <1>5, <1>6, <1>7 DEF Advance, Handle

(* What a worker that goes on is done with it has deleted or made visible   *)
(* again, whatever faults happen.                                           *)
THEOREM DeliveriesHandedBack == Spec => HandsBack
<1>1. Inv /\ LeaseInv /\ [Next]_vars =>
        [\A p \in Process : \A d \in proc[p].batch :
           /\ proc'[p].pc = "batch" /\ d \notin proc'[p].batch
           /\ proc[p].pc # "unparked"
           /\ proc[p].pc = "finishing" => d.msg \notin proc[p].lapsed
           => queue'[d.msg] # queue[d.msg] \/ ~Held(d)]_vars
  BY HandsBackStep
<1> QED BY <1>1, Invariant, LeaseInvariant, PTL DEF Spec, HandsBack

(* While no worker is stalled for longer than a lease, an executed message  *)
(* is deleted only by the worker that holds it; and a delivery a worker is  *)
(* done with is deleted or handed back at once.                             *)
THEOREM WorkersKeepLeases ==
  ASSUME "stall" \notin Faults
  PROVE  Spec => LeasesKept
<1>1. Inv /\ LeaseInv /\ [Next]_vars =>
        [\A p \in Process, m \in Message :
           /\ proc[p].pc = "finishing" /\ proc[p].cur.msg = m /\ proc'[p].pc # "finishing"
           /\ queue[m].state # "gone" /\ queue'[m].state = "gone"
           => Held(proc[p].cur)]_vars
  BY AcknowledgesHeld
<1>2. Spec => AcksOwnLease
  BY <1>1, Invariant, LeaseInvariant, PTL DEF Spec, AcksOwnLease
<1> QED BY <1>2, DeliveriesHandedBack, PTL DEF LeasesKept

-----------------------------------------------------------------------------
(* What a process remembers of the commands it executed                     *)

(* Forgetting an id keeps every other one.                                  *)
LEMMA ForgetKeepsOthers ==
  ASSUME NEW c \in Command, NEW s \in Seq(Command)
  PROVE  Ids(s) \ {c} \subseteq Ids(Forget(c, s))
<1>1. CASE ~Claimed(c, s)
  BY <1>1 DEF Forget
<1>2. CASE Claimed(c, s)
  <2> DEFINE at == CHOOSE i \in Index(c, s) : TRUE
  <2> DEFINE f == [i \in 1 .. Len(s) - 1 |-> IF i < at THEN s[i] ELSE s[i + 1]]
  <2>1. at \in 1 .. Len(s) /\ s[at] = c
    <3>1. at \in Index(c, s)
      BY <1>2 DEF Claimed
    <3> QED BY <3>1 DEF Index
  <2>2. Forget(c, s) = f
    BY <1>2 DEF Forget
  <2> HIDE DEF at
  <2>3. Len(s) \in Nat /\ f \in Seq(Command) /\ Len(f) = Len(s) - 1
    BY <2>1
  <2>4. \A i \in 1 .. Len(s) : s[i] # c =>
          LET k == IF i < at THEN i ELSE i - 1
          IN  k \in 1 .. Len(f) /\ f[k] = s[i]
    BY <2>1, <2>3
  <2> HIDE DEF f
  <2> QED BY <2>2, <2>4 DEF Ids
<1> QED BY <1>1, <1>2

(* A sequence of different command ids is no longer than there are ids.     *)
LEMMA DistinctIsShort ==
  ASSUME NEW s \in Seq(Command), Distinct(s), IsFiniteSet(Command)
  PROVE  Len(s) <= Cardinality(Command)
<1>1. Len(s) \in Nat /\ s \in [1 .. Len(s) -> Command]
  OBVIOUS
<1>2. s \in Injection(1 .. Len(s), Command)
  BY <1>1, Z3 DEF Distinct, Injection, IsInjective
<1>3. Cardinality(1 .. Len(s)) = Len(s)
  BY <1>1, FS_Interval
<1> QED BY <1>2, <1>3, FS_Injection

(* With room for every id, claiming one forgets none.                       *)
LEMMA ClaimKeepsAll ==
  ASSUME IsFiniteSet(Command), Cardinality(Command) <= CacheSize,
         NEW c \in Command, NEW s \in Seq(Command), Distinct(s)
  PROVE  Ids(s) \cup {c} \subseteq Ids(Claim(c, s))
<1> DEFINE f == Forget(c, s)
<1> DEFINE longer == Append(f, c)
<1>1. /\ f \in Seq(Command) /\ Ids(f) \subseteq Ids(s) \ {c} /\ Distinct(f)
      /\ Ids(s) \ {c} \subseteq Ids(f)
  BY ForgetProperties, ForgetKeepsOthers
<1>2. Claim(c, s) = IF Len(longer) > CacheSize THEN Tail(longer) ELSE longer
  BY DEF Claim
<1> HIDE DEF f
<1>3. /\ longer \in Seq(Command) /\ Len(longer) = Len(f) + 1 /\ Len(f) \in Nat
      /\ \A i \in 1 .. Len(f) : longer[i] = f[i]
      /\ longer[Len(f) + 1] = c
  BY <1>1
<1> HIDE DEF longer
<1>4. Distinct(longer)
  <2>1. \A i \in 1 .. Len(f) : f[i] # c
    BY <1>1 DEF Ids
  <2> QED BY <1>1, <1>3, <2>1 DEF Distinct
<1>5. Len(longer) <= CacheSize
  <2>1. Len(longer) <= Cardinality(Command) /\ Cardinality(Command) \in Nat
    BY <1>3, <1>4, DistinctIsShort, FS_CardinalityType
  <2> QED BY <1>3, <2>1, WorkerAssumption
<1>6. Claim(c, s) = longer
  BY <1>2, <1>3, <1>5, WorkerAssumption
<1>7. Ids(f) \cup {c} \subseteq Ids(longer)
  BY <1>3 DEF Ids
<1> QED BY <1>1, <1>6, <1>7

(* The results a process holds as SUCCEEDED are claimed; the command it is  *)
(* at is claimed too and none of them.                                      *)
Reported(w) == {CommandOf[m] : m \in {n \in Message : w.results[n] = "SUCCEEDED" /\ ~Durable(n)}}
Remembers(w) ==
  /\ Reported(w) \subseteq Ids(w.claims)
  /\ w.pc \in {"executing", "finishing"} /\ ~Durable(w.cur.msg) =>
       /\ CommandOf[w.cur.msg] \in Ids(w.claims)
       /\ CommandOf[w.cur.msg] \notin Reported(w)

MemoryInv == \A p \in Process : Remembers(proc[p])

(* Recording an outcome reports the command of that message at most.        *)
LEMMA RecordedOutcome ==
  ASSUME NEW v, NEW w, NEW d, NEW claims, NEW outcome, d.msg \in Message,
         v.results \in [Message -> Outcome \cup {"none"}],
         Leaves(v, w, d, claims, outcome)
  PROVE  /\ outcome # "SUCCEEDED" => Reported(w) \subseteq Reported(v)
         /\ outcome = v.results[d.msg] => Reported(w) = Reported(v)
         /\ Reported(w) \subseteq
              Reported(v) \cup (IF Durable(d.msg) THEN {} ELSE {CommandOf[d.msg]})
<1>1. \A m \in Message : w.results[m] = IF m = d.msg THEN outcome ELSE v.results[m]
  BY DEF Leaves
<1> QED BY <1>1 DEF Reported

(* A command id that is claimed is one of the cache.                        *)
LEMMA ClaimedIsId ==
  ASSUME NEW c, NEW s
  PROVE  Claimed(c, s) <=> c \in Ids(s)
BY DEF Claimed, Index, Ids

(* After a failure every claim is kept but that of the failed command.      *)
LEMMA FailureForgets ==
  ASSUME Inv, NEW p \in Process, NEW m \in Message
  PROVE  Ids(proc[p].claims) \ (IF Durable(m) THEN {} ELSE {CommandOf[m]})
           \subseteq Ids(AfterFailure(p, m))
<1>1. proc[p].claims \in Seq(Command) /\ CommandOf[m] \in Command
  BY ProcessFacts, WorkerAssumption
<1> QED BY <1>1, ForgetKeepsOthers DEF AfterFailure

(* Every step keeps the memory of the reported commands.                    *)
LEMMA MemoryStep ==
  ASSUME IsFiniteSet(Command), Cardinality(Command) <= CacheSize,
         Inv, LeaseInv, MemoryInv, [Next]_vars
  PROVE  MemoryInv'
<1>1. ASSUME NEW p \in Process, Boot(p) \/ Advance(p) \/ Disturb(p) PROVE Remembers(proc'[p])
  <2> DEFINE v == proc[p]
  <2> DEFINE w == proc'[p]
  <2>1. Remembers(v) /\ InHand(v, queue)
    BY DEF MemoryInv, LeaseInv
  <2>2. /\ v.claims \in Seq(Command) /\ Distinct(v.claims)
        /\ v.results \in [Message -> Outcome \cup {"none"}]
        /\ \A d \in v.batch : d \in Delivery /\ d.msg \in Message /\ CommandOf[d.msg] \in Command
    BY ProcessFacts, BatchesTyped, WorkerAssumption
  <2>3. ASSUME Moves(v, w) PROVE Remembers(w)
    BY <2>1, <2>3 DEF Moves, Remembers, Reported
  <2>4. ASSUME Drops(v, w) PROVE Remembers(w)
    BY <2>1, <2>4 DEF Drops, Remembers, Reported
  <2>5. CASE Boot(p) \/ Start(p) \/ LeaveLoop(p) \/ EndBatch(p) \/ Disturb(p)
    <3>1. CASE proc'[p] \in {Fresh, Off}
      <4>1. w.pc \in {"starting", "off"} /\ \A m \in Message : w.results[m] = "none"
        BY <3>1 DEF Fresh, Off
      <4> QED BY <4>1 DEF Remembers, Reported
    <3> QED BY <2>3, <2>5, <3>1, LifeShape
  <2>6. CASE Poll(p) \/ Drain(p)
    <3>1. ASSUME NEW batch, Received(v, w, batch) PROVE Remembers(w)
      BY <2>1, <3>1 DEF Received, Remembers, Reported
    <3> QED BY <2>3, <2>4, <2>6, <3>1, PollShape
  <2>7. ASSUME NEW d \in v.batch,
               Requeue(p, d) \/ RejectBody(p, d) \/ SkipDuplicate(p, d) \/ Begin(p, d)
        PROVE  Remembers(w)
    <3>1. CASE Leaves(v, w, d, v.claims, v.results[d.msg])
      <4>1. Reported(w) = Reported(v)
        BY <2>2, <3>1, RecordedOutcome
      <4> QED BY <2>1, <3>1, <4>1 DEF Leaves, Remembers
    <3>2. CASE Leaves(v, w, d, Claim(CommandOf[d.msg], v.claims), "DUPLICATE")
      <4>1. Reported(w) \subseteq Reported(v)
        BY <2>2, <3>2, RecordedOutcome
      <4>2. Ids(v.claims) \subseteq Ids(w.claims)
        BY <2>2, <3>2, ClaimKeepsAll DEF Leaves
      <4> QED BY <2>1, <3>2, <4>1, <4>2 DEF Leaves, Remembers
    <3>3. CASE Takes(v, w, d, v.claims) /\ w.pc = "parking"
      BY <2>1, <3>3 DEF Takes, Remembers, Reported
    <3>4. CASE /\ Takes(v, w, d, IF Durable(d.msg) THEN v.claims
                                 ELSE Claim(CommandOf[d.msg], v.claims))
               /\ w.pc = "executing" /\ ~KnownCommand(p, d.msg)
      <4>1. Reported(w) = Reported(v) /\ w.cur = d
        BY <3>4 DEF Takes, Reported
      <4>2. CASE Durable(d.msg)
        BY <2>1, <3>4, <4>1, <4>2 DEF Takes, Remembers
      <4>3. CASE ~Durable(d.msg)
        <5>1. w.claims = Claim(CommandOf[d.msg], v.claims)
          BY <3>4, <4>3 DEF Takes
        <5>2. Ids(v.claims) \cup {CommandOf[d.msg]} \subseteq Ids(w.claims)
          BY <2>2, <5>1, ClaimKeepsAll
        <5>3. CommandOf[d.msg] \notin Ids(v.claims)
          BY <3>4, <4>3, ClaimedIsId DEF KnownCommand
        <5> QED BY <2>1, <4>1, <5>2, <5>3 DEF Remembers
      <4> QED BY <4>2, <4>3
    <3> QED BY <2>4, <2>7, <3>1, <3>2, <3>3, <3>4, BatchShape
  <2>8. CASE \/ Succeed(p) \/ RejectCommand(p) \/ FailForGood(p) \/ Fail(p) \/ FinishLapsed(p)
             \/ Finish(p) \/ ParkSend(p) \/ ParkDelete(p) \/ Unpark(p)
    <3> DEFINE d == v.cur
    <3>1. d \in v.batch
      BY <2>1, <2>8 DEF InHand, Busy, Succeed, RejectCommand, FailForGood, Fail, FinishLapsed,
         Finish, ParkSend, ParkDelete, Unpark
    <3>2. d.msg \in Message /\ CommandOf[d.msg] \in Command
      BY <2>2, <3>1
    <3>3. ASSUME v.pc \in {"executing", "finishing"}, w.claims = AfterFailure(p, d.msg),
                 w.pc \notin {"executing", "finishing"}, Reported(w) \subseteq Reported(v)
          PROVE  Remembers(w)
      <4>1. Ids(v.claims) \ (IF Durable(d.msg) THEN {} ELSE {CommandOf[d.msg]})
              \subseteq Ids(w.claims)
        BY <3>2, <3>3, FailureForgets
      <4>2. Reported(v) \subseteq Ids(v.claims) \ (IF Durable(d.msg) THEN {} ELSE {CommandOf[d.msg]})
        BY <2>1, <3>3 DEF Remembers
      <4> QED BY <3>3, <4>1, <4>2 DEF Remembers
    <3>4. CASE Takes(v, w, d, AfterFailure(p, d.msg)) /\ v.pc = "executing" /\ w.pc = "parking"
      <4>1. Reported(w) = Reported(v)
        BY <3>4 DEF Takes, Reported
      <4> QED BY <3>3, <3>4, <4>1 DEF Takes
    <3>5. CASE Leaves(v, w, d, AfterFailure(p, d.msg), "FAILED") /\ v.pc \in {"executing", "finishing"}
      <4>1. Reported(w) \subseteq Reported(v)
        BY <2>2, <3>2, <3>5, RecordedOutcome
      <4> QED BY <3>3, <3>5, <4>1 DEF Leaves
    <3>6. CASE Leaves(v, w, d, v.claims, "SUCCEEDED") /\ v.pc = "finishing"
      <4>1. Reported(w) \subseteq Reported(v) \cup (IF Durable(d.msg) THEN {} ELSE {CommandOf[d.msg]})
        BY <2>2, <3>2, <3>6, RecordedOutcome
      <4>2. Reported(w) \subseteq Ids(v.claims)
        BY <2>1, <3>6, <4>1 DEF Remembers
      <4> QED BY <3>6, <4>2 DEF Leaves, Remembers
    <3>7. ASSUME NEW outcome \in {"FAILED", "REJECTED", "DEAD_LETTERED"},
                 Leaves(v, w, d, v.claims, outcome)
          PROVE  Remembers(w)
      <4>1. Reported(w) \subseteq Reported(v)
        BY <2>2, <3>2, <3>7, RecordedOutcome
      <4> QED BY <2>1, <3>7, <4>1 DEF Leaves, Remembers
    <3>8. v.verdict \in {"REJECTED", "DEAD_LETTERED"}
      BY ProcessFacts
    <3> HIDE DEF v, w, d
    <3> QED BY <2>3, <2>8, <3>1, <3>4, <3>5, <3>6, <3>7, <3>8, BusyShape DEF v, w, d
  <2> QED BY <1>1, <2>5, <2>6, <2>7, <2>8 DEF Advance, Handle
<1>2. ASSUME NEW p \in Process PROVE Remembers(proc'[p])
  <2>1. Remembers(proc[p])
    BY DEF MemoryInv
  <2>2. CASE proc'[p] = proc[p]
    BY <2>1, <2>2
  <2>3. CASE proc'[p] # proc[p]
    <3>1. ~UNCHANGED vars /\ \A m \in Message : ~LeaseExpires(m)
      BY <2>3 DEF vars, LeaseExpires
    <3>2. Boot(p) \/ Advance(p) \/ Disturb(p)
      BY <2>3, <3>1, OthersKeep DEF Next
    <3> QED BY <1>1, <3>2
  <2> QED BY <2>2, <2>3
<1> QED BY <1>2 DEF MemoryInv, Remembers, Reported, Ids, Durable

(* A process that starts a command has not reported it.                     *)
LEMMA StartsUnreported ==
  ASSUME Inv, LeaseInv, MemoryInv, [Next]_vars, NEW p \in Process, NEW m \in Message,
         proc[p].pc = "batch", proc'[p].pc = "executing", ~Durable(proc'[p].cur.msg),
         proc[p].results[m] = "SUCCEEDED", ~Durable(m)
  PROVE  CommandOf[m] # CommandOf[proc'[p].cur.msg]
<1>1. CommandOf[m] \in Ids(proc[p].claims)
  BY DEF MemoryInv, Remembers, Reported
<1>2. Boot(p) \/ Advance(p) \/ Disturb(p)
  <2>1. ~UNCHANGED vars /\ \A n \in Message : ~LeaseExpires(n)
    BY DEF vars, LeaseExpires
  <2> QED BY <2>1, OthersKeep DEF Next
<1>3. CASE Boot(p) \/ Start(p) \/ LeaveLoop(p) \/ EndBatch(p) \/ Disturb(p)
  <2>1. proc'[p] \notin {Fresh, Off} /\ ~Moves(proc[p], proc'[p])
    BY DEF Fresh, Off, Moves
  <2> QED BY <1>3, <2>1, LifeShape
<1>4. CASE Poll(p) \/ Drain(p)
  BY <1>4 DEF Poll, Drain
<1>5. ASSUME NEW d \in proc[p].batch,
             Requeue(p, d) \/ RejectBody(p, d) \/ SkipDuplicate(p, d) \/ Begin(p, d)
      PROVE  CommandOf[m] # CommandOf[proc'[p].cur.msg]
  <2>1. /\ ~Drops(proc[p], proc'[p])
        /\ \A claims, outcome : ~Leaves(proc[p], proc'[p], d, claims, outcome)
        /\ \A claims : Takes(proc[p], proc'[p], d, claims) => proc'[p].cur = d
    BY DEF Drops, Leaves, Takes
  <2>2. proc'[p].cur = d /\ ~KnownCommand(p, d.msg)
    BY <1>5, <2>1, BatchShape
  <2> QED BY <1>1, <2>2, ClaimedIsId DEF KnownCommand
<1>6. CASE \/ Succeed(p) \/ RejectCommand(p) \/ FailForGood(p) \/ Fail(p) \/ FinishLapsed(p)
           \/ Finish(p) \/ ParkSend(p) \/ ParkDelete(p) \/ Unpark(p)
  BY <1>6 DEF Succeed, RejectCommand, FailForGood, Fail, FinishLapsed, Finish, ParkSend,
     ParkDelete, Unpark
<1> QED BY <1>2, <1>3, <1>4, <1>5, <1>6 DEF Advance, Handle

(* A process whose cache has room for every command id never executes again *)
(* what it reported as SUCCEEDED, whichever message brings it, in whatever  *)
(* order and after however many failures, lost leases and redeliveries.     *)
THEOREM NothingRepeated ==
  ASSUME IsFiniteSet(Command), Cardinality(Command) <= CacheSize
  PROVE  Spec => NotRepeated
<1>1. Init => MemoryInv
  <2> SUFFICES ASSUME Init PROVE MemoryInv
    OBVIOUS
  <2>1. \A p \in Process : proc[p].pc = "off" /\ \A m \in Message : proc[p].results[m] = "none"
    BY DEF Init, Off, Fresh
  <2> QED BY <2>1 DEF MemoryInv, Remembers, Reported
<1>2. Inv /\ LeaseInv /\ MemoryInv /\ [Next]_vars => MemoryInv'
  BY MemoryStep
<1>3. Inv /\ LeaseInv /\ MemoryInv /\ [Next]_vars =>
        [\A p \in Process :
           proc[p].pc = "batch" /\ proc'[p].pc = "executing" /\ ~Durable(proc'[p].cur.msg) =>
             \A m \in Message : proc[p].results[m] = "SUCCEEDED" /\ ~Durable(m) =>
               CommandOf[m] # CommandOf[proc'[p].cur.msg]]_vars
  BY StartsUnreported
<1> QED BY <1>1, <1>2, <1>3, Invariant, LeaseInvariant, PTL DEF Spec, NotRepeated
=============================================================================
