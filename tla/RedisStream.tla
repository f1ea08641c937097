------------------------------ MODULE RedisStream ------------------------------
(***************************************************************************)
(* The market-event stream of the trading service read through a consumer   *)
(* group (redis_ingest.py) by the loop of realtime_ingest.py: the pending   *)
(* entries, reclaiming those that stayed idle too long, retrying, parking   *)
(* on a dead-letter stream.  XPENDING and XCLAIM, and XADD and XACK, are    *)
(* two calls each: another consumer, a trim by the producer or a crash      *)
(* comes between them.  Idle time is a flag that time sets.  The raw fields *)
(* a source holds are those of its batch and are left out; the retry delay  *)
(* is assumed no longer than the reclaim threshold, as retry_later demands. *)
(***************************************************************************)
EXTENDS Integers, Sequences, FiniteSets, FiniteSetsExt

CONSTANTS
  Reader,          \* consumers of the group
  EntryKind,       \* the entries the producer writes, in stream order, by kind
  MaxReceives,     \* max_receive_count
  PollSize,        \* max_messages_per_poll
  MaxStreamFaults  \* bound: crashes, trims and passing failures

StreamEntry == DOMAIN EntryKind
(* A good entry is acceptable, a poison one always raises, a malformed one  *)
(* cannot be decoded or is refused by the ingestor.                         *)
ASSUME RedisStreamAssumption ==
  /\ EntryKind \in Seq({"good", "poison", "malformed"})
  /\ {MaxReceives, PollSize} \subseteq Nat \ {0} /\ MaxStreamFaults \in Nat

VARIABLES
  appended, trimmed, \* the stream holds the entries trimmed + 1 .. appended
  cursor,          \* last entry handed out as new; -1 before the group exists
  pending,         \* the pending-entries list of the group
  delivered,       \* how often an entry was handed out
  accepted,        \* entries the ingestor accepted
  parkedAs,        \* the reasons an entry was parked for
  reader,
  streamFaults     \* bound

streamVars == <<appended, trimmed, cursor, pending, delivered, accepted, parkedAs, reader,
                streamFaults>>

NotPending == [owner |-> "none", idle |-> FALSE, times |-> 0]
Stopped == [phase |-> "starting", counts |-> <<>>, batch |-> <<>>]
(* Counters only matter up to the limit.                                    *)
Bump(n) == Min({n + 1, MaxReceives + 1})

StreamInit ==
  /\ appended = 0 /\ trimmed = 0 /\ cursor = -1
  /\ pending = [e \in StreamEntry |-> NotPending]
  /\ delivered = [e \in StreamEntry |-> 0]
  /\ accepted = {}
  /\ parkedAs = [e \in StreamEntry |-> {}]
  /\ reader = [c \in Reader |-> Stopped]
  /\ streamFaults = 0

-----------------------------------------------------------------------------
(* The producer writes whether or not anyone reads, and trims; time passes. *)
Appended ==
  /\ appended < Len(EntryKind)
  /\ appended' = appended + 1
  /\ UNCHANGED <<trimmed, cursor, pending, delivered, accepted, parkedAs, reader, streamFaults>>

Trim ==
  /\ trimmed < appended /\ streamFaults < MaxStreamFaults
  /\ trimmed' = trimmed + 1 /\ streamFaults' = streamFaults + 1
  /\ UNCHANGED <<appended, cursor, pending, delivered, accepted, parkedAs, reader>>

Idles(e) ==
  /\ pending[e] # NotPending /\ ~pending[e].idle
  /\ pending' = [pending EXCEPT ![e].idle = TRUE]
  /\ UNCHANGED <<appended, trimmed, cursor, delivered, accepted, parkedAs, reader, streamFaults>>

-----------------------------------------------------------------------------
(* Mutant: the group is created at the tail of the stream.                  *)
CreatedAtTail == IF cursor = -1 THEN appended ELSE cursor
(* A group is created at "0": what came before its consumers is read too.   *)
Created == IF cursor = -1 THEN 0 ELSE cursor
EnsureGroup(c) ==
  /\ reader[c].phase = "starting"
  /\ cursor' = Created
  /\ reader' = [reader EXCEPT ![c].phase = "ready"]
  /\ UNCHANGED <<appended, trimmed, pending, delivered, accepted, parkedAs, streamFaults>>

(* How many of a set of entries come before one, in stream order.           *)
Before(e, S) == Cardinality({o \in S : o < e})
First(n, S) == {e \in S : Before(e, S) < n}
Deliveries(S, count) == [i \in 1 .. Cardinality(S) |->
  LET e == CHOOSE x \in S : Before(x, S) = i - 1
  IN [entry |-> e, count |-> count[e], whole |-> e > trimmed]]

(* XPENDING: which entries to take over, and the counts they will have.     *)
Look(c) ==
  LET idle == First(PollSize, {e \in StreamEntry : pending[e].idle})
  IN /\ reader[c].phase = "ready"
     /\ reader' = [reader EXCEPT ![c] =
          [phase |-> IF idle = {} THEN "reading" ELSE "claiming",
           counts |-> [e \in idle |-> Bump(pending[e].times)], batch |-> <<>>]]
     /\ UNCHANGED <<appended, trimmed, cursor, pending, delivered, accepted, parkedAs,
                    streamFaults>>

HandOut(S, c) ==
  /\ pending' = [e \in StreamEntry |->
       IF e \in S THEN [owner |-> c, idle |-> FALSE, times |-> Bump(pending[e].times)]
       ELSE pending[e]]
  /\ delivered' = [e \in StreamEntry |-> IF e \in S THEN Bump(delivered[e]) ELSE delivered[e]]

(* XCLAIM takes those still idle.  One trimmed meanwhile comes empty.       *)
Claim(c) ==
  LET taken == {e \in DOMAIN reader[c].counts : pending[e].idle}
  IN /\ reader[c].phase = "claiming"
     /\ HandOut(taken, c)
     /\ reader' = [reader EXCEPT ![c] =
          [phase |-> IF Cardinality(taken) < PollSize THEN "reading" ELSE "handle",
           counts |-> <<>>, batch |-> Deliveries(taken, reader[c].counts)]]
     /\ UNCHANGED <<appended, trimmed, cursor, accepted, parkedAs, streamFaults>>

(* XREADGROUP: the rest of the batch, from entries nobody was given.        *)
Read(c) ==
  LET new == First(PollSize - Len(reader[c].batch),
                   {e \in StreamEntry : e > cursor /\ e > trimmed /\ e <= appended})
      batch == reader[c].batch \o Deliveries(new, [e \in new |-> 1])
  IN /\ reader[c].phase = "reading"
     /\ HandOut(new, c)
     /\ cursor' = Max(new \cup {cursor})
     /\ reader' = [reader EXCEPT ![c] =
          [phase |-> IF batch = <<>> THEN "ready" ELSE "handle", counts |-> <<>>,
           batch |-> batch]]
     /\ UNCHANGED <<appended, trimmed, accepted, parkedAs, streamFaults>>

-----------------------------------------------------------------------------
(* One delivery after the other.                                            *)
Delivery(c) == Head(reader[c].batch)
Handling(c) == reader[c].phase = "handle"
Malformed(d) == ~d.whole \/ EntryKind[d.entry] = "malformed"

Accept(c) ==
  /\ Handling(c) /\ ~Malformed(Delivery(c)) /\ EntryKind[Delivery(c).entry] = "good"
  /\ accepted' = accepted \cup {Delivery(c).entry}
  /\ reader' = [reader EXCEPT ![c].phase = "ack"]
  /\ UNCHANGED <<appended, trimmed, cursor, pending, delivered, parkedAs, streamFaults>>

(* XADD to the dead-letter stream; the XACK follows.                        *)
Park(c, reason) ==
  /\ parkedAs' = [parkedAs EXCEPT ![Delivery(c).entry] = @ \cup {reason}]
  /\ reader' = [reader EXCEPT ![c].phase = "ack"]
  /\ UNCHANGED <<appended, trimmed, cursor, pending, delivered, accepted>>

ParkMalformed(c) ==
  /\ Handling(c) /\ Malformed(Delivery(c))
  /\ Park(c, "MALFORMED_EVENT")
  /\ UNCHANGED streamFaults

(* Any other exception: a poison entry, or a passing failure.               *)
Raises(c) ==
  /\ Handling(c) /\ ~Malformed(Delivery(c))
  /\ IF EntryKind[Delivery(c).entry] = "poison" THEN UNCHANGED streamFaults
     ELSE streamFaults < MaxStreamFaults /\ streamFaults' = streamFaults + 1

ParkExhausted(c) ==
  /\ Raises(c) /\ Delivery(c).count >= MaxReceives
  /\ Park(c, "MAX_RECEIVES_EXCEEDED")

Done(c) == [reader EXCEPT ![c].batch = Tail(@),
                          ![c].phase = IF Len(reader[c].batch) = 1 THEN "ready" ELSE "handle"]
(* Mutant: the claim counts as a delivery.                                  *)
RetryCounts(e, c) ==
  IF pending[e] = NotPending THEN NotPending
  ELSE [owner |-> c, idle |-> FALSE, times |-> Bump(pending[e].times)]
(* XCLAIM with JUSTID: whoever has the entry by now, it is this consumer's  *)
(* again, its count as it was.  An acknowledged entry is not claimed.       *)
WoundBack(e, c) ==
  IF pending[e] = NotPending THEN NotPending
  ELSE [owner |-> c, idle |-> FALSE, times |-> pending[e].times]
RetryLater(c) ==
  /\ Raises(c) /\ Delivery(c).count < MaxReceives
  /\ pending' = [pending EXCEPT ![Delivery(c).entry] = WoundBack(Delivery(c).entry, c)]
  /\ reader' = Done(c)
  /\ UNCHANGED <<appended, trimmed, cursor, delivered, accepted, parkedAs>>

(* XACK, whoever has the entry by now.                                      *)
Acknowledge(c) ==
  /\ reader[c].phase = "ack"
  /\ pending' = [pending EXCEPT ![Delivery(c).entry] = NotPending]
  /\ reader' = Done(c)
  /\ UNCHANGED <<appended, trimmed, cursor, delivered, accepted, parkedAs, streamFaults>>

ReaderDies(c) ==
  /\ reader[c] # Stopped /\ streamFaults < MaxStreamFaults
  /\ streamFaults' = streamFaults + 1
  /\ reader' = [reader EXCEPT ![c] = Stopped]
  /\ UNCHANGED <<appended, trimmed, cursor, pending, delivered, accepted, parkedAs>>

-----------------------------------------------------------------------------
ReaderNext(c) ==
  \/ EnsureGroup(c) \/ Look(c) \/ Claim(c) \/ Read(c)
  \/ Accept(c) \/ ParkMalformed(c) \/ ParkExhausted(c) \/ RetryLater(c) \/ Acknowledge(c)
StreamNext ==
  \/ Appended \/ Trim \/ \E e \in StreamEntry : Idles(e)
  \/ \E c \in Reader : ReaderNext(c) \/ ReaderDies(c)
(* Consumers are restarted and keep polling; idle clocks run.               *)
StreamFairness ==
  /\ \A c \in Reader : WF_streamVars(ReaderNext(c))
  /\ \A e \in StreamEntry : WF_streamVars(Idles(e))
StreamSpec == StreamInit /\ [][StreamNext]_streamVars /\ StreamFairness

-----------------------------------------------------------------------------
(* The variables have their types, and nobody handles an empty batch.       *)
StreamTypeOK ==
  /\ appended \in 0 .. Len(EntryKind) /\ trimmed \in 0 .. appended
  /\ cursor \in -1 .. appended
  /\ pending \in [StreamEntry -> [owner : Reader \cup {"none"}, idle : BOOLEAN,
                                  times : 0 .. MaxReceives + 1]]
  /\ delivered \in [StreamEntry -> 0 .. MaxReceives + 1]
  /\ accepted \subseteq StreamEntry
  /\ parkedAs \in [StreamEntry -> SUBSET {"MALFORMED_EVENT", "MAX_RECEIVES_EXCEEDED"}]
  /\ \A c \in Reader :
       /\ reader[c].phase \in {"starting", "ready", "claiming", "reading", "handle", "ack"}
       /\ reader[c].phase \in {"handle", "ack"} => reader[c].batch # <<>>
  /\ streamFaults \in 0 .. MaxStreamFaults

(* An entry that was handed out and is no longer pending was ingested or    *)
(* parked, whichever consumers had it, were killed with it or took it over  *)
(* (redis_ingest.py, "at-least-once would degrade to at-most-once").  And   *)
(* none is parked as exhausted before it was handed out max_receive_count   *)
(* times: retrying is not counted as another delivery (retry_later).        *)
EntrySettled(e) == e \in accepted \/ parkedAs[e] # {}
NoEntryDropped ==
  \A e \in StreamEntry :
    /\ (delivered[e] > 0 /\ pending[e] = NotPending) => EntrySettled(e)
    /\ "MAX_RECEIVES_EXCEEDED" \in parkedAs[e] => delivered[e] >= MaxReceives

(* Every entry the producer leaves in the stream is ingested or parked.     *)
StreamSettles ==
  \A e \in StreamEntry : (appended >= e) ~> (EntrySettled(e) \/ trimmed >= e)
=============================================================================
