----------------------------- MODULE EntranceProofs -----------------------------
(***************************************************************************)
(* Proofs about the entrances of MCDataEntrances for every value of their   *)
(* constants: the legacy collection, which is the provider client           *)
(* (ProviderClient), the files derived from minute bars (LegacyDerivation)  *)
(* and the checkpoint over the adjusted files (LegacyHistory); the Redis    *)
(* stream source (RedisStream), the market-history sync (HistorySync) and   *)
(* the port of INGEST_REALTIME_BARS (RealtimePort); and what all six keep   *)
(* while they run side by side.                                             *)
(***************************************************************************)
EXTENDS MCDataEntrances, FiniteSetTheorems, WellFoundedInduction, TLAPS

-----------------------------------------------------------------------------
(* Least and greatest numbers                                               *)

(* A set of numbers that is not empty has a least one.                      *)
LEMMA LeastThere ==
  ASSUME NEW S \in SUBSET Nat, S # {}
  PROVE  \E n \in S : \A k \in S : n <= k
<1> DEFINE R == OpToRel(<, Nat)
<1>1. \E n \in S : \A k \in S : ~(<<k, n>> \in R)
  <2>1. IsWellFoundedOn(R, Nat)
    BY NatLessThanWellFounded
  <2> HIDE DEF R
  <2> QED BY <2>1, WFMin
<1>2. \A n, k \in S : ~(<<k, n>> \in R) => n <= k
  BY DEF OpToRel
<1> QED BY <1>1, <1>2

(* Some numbers from -1 to N have a largest one.                            *)
LEMMA MaximumThere ==
  ASSUME NEW N \in Nat, NEW S \in SUBSET (-1 .. N), S # {}
  PROVE  \E n \in S : \A m \in S : n >= m
<1> DEFINE D == {d \in Nat : N - d \in S}
<1> DEFINE R == OpToRel(<, Nat)
<1>1. D \subseteq Nat /\ \A m \in S : N - m \in D
  OBVIOUS
<1>2. D # {}
  BY <1>1
<1>3. PICK d \in D : \A e \in D : ~(<<e, d>> \in R)
  <2>1. IsWellFoundedOn(R, Nat)
    BY NatLessThanWellFounded
  <2> HIDE DEF D, R
  <2> QED BY <2>1, <1>1, <1>2, WFMin
<1>4. \A e \in D : ~(e < d)
  BY <1>3 DEF OpToRel
<1>5. ASSUME NEW m \in S PROVE N - d >= m
  <2>1. N - m \in D /\ m \in Int
    BY <1>1
  <2>2. ~(N - m < d) /\ d \in Nat
    BY <2>1, <1>1, <1>4
  <2> QED BY <2>1, <2>2
<1>6. N - d \in S
  OBVIOUS
<1> QED BY <1>5, <1>6


(* So their maximum is one of them.                                         *)
LEMMA MaxIsMember ==
  ASSUME NEW N \in Nat, NEW S \in SUBSET (-1 .. N), S # {}
  PROVE  Max(S) \in S
BY MaximumThere DEF Max

(* Min and Max of numbers up to a bound name the least and the greatest.    *)
LEMMA MinNamesLeast ==
  ASSUME NEW S \in SUBSET Nat, S # {}
  PROVE  Min(S) \in S /\ \A k \in S : Min(S) <= k
BY LeastThere DEF Min

LEMMA MaxNamesGreatest ==
  ASSUME NEW N \in Nat, NEW S \in SUBSET (0 .. N), S # {}
  PROVE  Max(S) \in S /\ \A k \in S : k <= Max(S)
<1>1. S \in SUBSET (-1 .. N)
  OBVIOUS
<1>2. \E n \in S : \A m \in S : n >= m
  BY <1>1, MaximumThere
<1>3. Max(S) \in S /\ \A m \in S : Max(S) >= m
  BY <1>2 DEF Max
<1> QED BY <1>3

-----------------------------------------------------------------------------
(* The provider client: the token bucket and the pages                      *)

(* A request of a fetch, whatever it waits for: its due time is a number of *)
(* the backoff and needs no type.                                           *)
IsFetch(r) ==
  r = [phase |-> r.phase, due |-> r.due, attempt |-> r.attempt, page |-> r.page,
       seen |-> r.seen, rows |-> r.rows, requests |-> r.requests]
FetchTyped(r) ==
  /\ IsFetch(r)
  /\ r.phase \in Phases /\ r.attempt \in 1 .. MaxAttempts /\ r.page \in Page
  /\ r.seen \subseteq Page /\ IsFiniteSet(r.seen) /\ r.rows \subseteq Page /\ r.requests \in Nat

(* What a fetch has read links up, and lies in every set of pages closed    *)
(* under the provider's tokens.                                             *)
Linked(r) ==
  /\ FirstPage \in r.rows \cup {r.page}
  /\ \A p \in r.rows : nextOf[p] \in r.rows \cup {r.page, NoPage}
  /\ \A S \in SUBSET Page : Reached(S) => r.rows \cup {r.page} \subseteq S
Whole(r) == r.phase = "done" => r.page \in r.rows /\ nextOf[r.page] = NoPage

(* The attempts a fetch has spent on its tokens so far.                     *)
Spent(phase, attempt) ==
  IF phase \in {"done", "failed"} THEN MaxAttempts
  ELSE IF phase = "sent" THEN attempt ELSE attempt - 1
InBudget(r) == r.requests <= MaxAttempts * Cardinality(r.seen) + Spent(r.phase, r.attempt)

FetchGood(r) == FetchTyped(r) /\ Linked(r) /\ Whole(r) /\ InBudget(r)

BucketTyped ==
  /\ tick \in 0 .. MaxTick /\ updated \in 0 .. MaxTick /\ updated <= tick
  /\ balance \in Int /\ balance <= Burst
  /\ admitted \in Seq(Nat)
  /\ nextOf \in [Page -> Page \cup {NoPage}]

(* Since a request was admitted the bucket has paid for it and every one    *)
(* after it: out of the burst, or out of the time that passed.              *)
Paid ==
  /\ \A j \in DOMAIN admitted :
       Len(admitted) - j + 1 <= Burst - balance + (updated - admitted[j])
  /\ \A k \in DOMAIN admitted : admitted[k] <= updated \/ admitted[k] <= updated - balance
  /\ \A j, k \in DOMAIN admitted :
       j <= k => admitted[j] <= admitted[k] /\ k - j + 1 <= Burst + admitted[k] - admitted[j]

ClientInv ==
  /\ BucketTyped /\ Paid
  /\ DOMAIN fetch = Fetcher /\ \A f \in Fetcher : FetchGood(fetch[f])

(* The rates, limits and backoff bounds are numbers.                        *)
LEMMA ClientConstants ==
  /\ RequestsPerMinute \in Nat \ {0} /\ Burst \in Nat \ {0} /\ MaxAttempts \in Nat \ {0}
  /\ MaxTick \in Nat /\ FirstPage \in Page /\ NoPage \notin Page
BY ClientAssumption

(* A new fetch has nothing, and the bucket is full.                         *)
LEMMA ClientInitGood == ClientInit => ClientInv
<1> SUFFICES ASSUME ClientInit PROVE ClientInv
  OBVIOUS
<1>1. BucketTyped /\ Paid
  BY ClientConstants DEF ClientInit, BucketTyped, Paid
<1>2. ASSUME NEW f \in Fetcher PROVE FetchGood(fetch[f])
  <2>1. fetch[f] = Fetching
    BY DEF ClientInit
  <2>2. FetchTyped(Fetching)
    BY ClientConstants, FS_EmptySet DEF FetchTyped, IsFetch, Fetching, Phases
  <2>3. Linked(Fetching) /\ Whole(Fetching)
    BY DEF Linked, Whole, Fetching, Reached
  <2>4. InBudget(Fetching)
    BY ClientConstants, FS_EmptySet DEF InBudget, Spent, Fetching
  <2> QED BY <2>1, <2>2, <2>3, <2>4 DEF FetchGood
<1> QED BY <1>1, <1>2 DEF ClientInv, ClientInit

(* One fetch moves, and the provider's pages stay as they are.              *)
LEMMA OneFetchMoves ==
  ASSUME ClientInv, NEW f \in Fetcher, NEW r, FetchGood(r),
         fetch' = [fetch EXCEPT ![f] = r], UNCHANGED nextOf
  PROVE  DOMAIN fetch' = Fetcher /\ \A g \in Fetcher : FetchGood(fetch[g])'
<1>1. \A g \in Fetcher : fetch'[g] = IF g = f THEN r ELSE fetch[g]
  BY DEF ClientInv
<1>2. ASSUME NEW g \in Fetcher PROVE FetchGood(fetch[g])'
  <2>1. FetchGood(fetch'[g])
    BY <1>1 DEF ClientInv
  <2> QED BY <2>1 DEF FetchGood, FetchTyped, IsFetch, Linked, Whole, InBudget, Spent, Reached
<1> QED BY <1>2 DEF ClientInv

(* A change of phase within the attempts that are counted.                  *)
LEMMA PhaseMoves ==
  ASSUME ClientInv, NEW r, FetchGood(r), NEW p \in Phases \ {"done"}, NEW d,
         NEW a \in 1 .. MaxAttempts, NEW n \in Nat,
         n <= MaxAttempts * Cardinality(r.seen) + Spent(p, a)
  PROVE  FetchGood([r EXCEPT !.phase = p, !.due = d, !.attempt = a, !.requests = n])
<1> DEFINE q == [phase |-> p, due |-> d, attempt |-> a, page |-> r.page,
                 seen |-> r.seen, rows |-> r.rows, requests |-> n]
<1>1. [r EXCEPT !.phase = p, !.due = d, !.attempt = a, !.requests = n] = q
  <2>1. PICK r1, r2, r3, r4, r5, r6, r7 :
          r = [phase |-> r1, due |-> r2, attempt |-> r3, page |-> r4, seen |-> r5,
               rows |-> r6, requests |-> r7]
    BY DEF FetchGood, FetchTyped, IsFetch
  <2>2. r.page = r4 /\ r.seen = r5 /\ r.rows = r6
    BY <2>1
  <2> DEFINE w0 == [phase |-> r1, due |-> r2, attempt |-> r3, page |-> r4, seen |-> r5, rows |-> r6, requests |-> r7]
             w1 == [phase |-> p, due |-> r2, attempt |-> r3, page |-> r4, seen |-> r5, rows |-> r6, requests |-> r7]
             w2 == [phase |-> p, due |-> d, attempt |-> r3, page |-> r4, seen |-> r5, rows |-> r6, requests |-> r7]
             w3 == [phase |-> p, due |-> d, attempt |-> a, page |-> r4, seen |-> r5, rows |-> r6, requests |-> r7]
             w4 == [phase |-> p, due |-> d, attempt |-> a, page |-> r4, seen |-> r5, rows |-> r6, requests |-> n]
  <2>3. [w0 EXCEPT !.phase = p] = w1
    BY Z3
  <2>4. [w1 EXCEPT !.due = d] = w2
    BY Z3
  <2>5. [w2 EXCEPT !.attempt = a] = w3
    BY Z3
  <2>6. [w3 EXCEPT !.requests = n] = w4
    BY Z3
  <2>7. r = w0 /\ q = w4
    BY <2>1, <2>2
  <2> HIDE DEF q, w0, w1, w2, w3, w4
  <2> QED BY <2>3, <2>4, <2>5, <2>6, <2>7, Zenon
<1>2. FetchTyped(q)
  BY DEF FetchGood, FetchTyped, IsFetch
<1>3. Linked(q) /\ Whole(q)
  BY DEF FetchGood, Linked, Whole
<1>5. InBudget(q)
  BY DEF InBudget
<1> QED BY <1>1, <1>2, <1>3, <1>5 DEF FetchGood

(* The bucket as an admission leaves it.                                    *)
LEMMA AcquirePays ==
  ASSUME ClientInv, NEW f \in Fetcher, Acquire(f)
  PROVE  BucketTyped' /\ Paid'
<1> USE ClientConstants
<1> DEFINE n == Len(admitted)
<1>0. /\ admitted \in Seq(Nat) /\ n \in Nat /\ DOMAIN admitted = 1 .. n
      /\ tick \in Nat /\ updated \in Nat /\ balance \in Int /\ updated <= tick
      /\ \A j \in 1 .. n : admitted[j] \in Nat
  BY DEF ClientInv, BucketTyped
<1>1. PICK R \in Int : R = Refilled
  <2>1. balance + (tick - updated) \in Int
    BY <1>0
  <2>2. Refilled \in Int
    BY <2>1 DEF Refilled, Least
  <2> QED BY <2>2
<1>2. PICK due \in Nat : due = tick + WaitFor(Refilled)
  <2>1. WaitFor(R) \in Nat
    BY DEF WaitFor
  <2> QED BY <1>0, <1>1, <2>1
<1>3. /\ R <= Burst /\ R <= balance + (tick - updated)
      /\ due >= tick /\ due >= tick + 1 - R
      /\ due <= tick \/ due <= tick + 1 - R
  BY <1>0, <1>1, <1>2 DEF Refilled, Least, WaitFor
<1>4. /\ admitted' = Append(admitted, due) /\ balance' = R - 1 /\ updated' = tick
      /\ tick' = tick /\ nextOf' = nextOf
  BY <1>1, <1>2 DEF Acquire, Take
<1>5. /\ admitted \in Seq(Nat) /\ n \in Nat /\ DOMAIN admitted = 1 .. n
      /\ tick \in Nat /\ updated \in Nat /\ balance \in Int /\ updated <= tick
  BY DEF ClientInv, BucketTyped
<1>6. /\ admitted' \in Seq(Nat) /\ Len(admitted') = n + 1 /\ DOMAIN admitted' = 1 .. (n + 1)
      /\ admitted'[n + 1] = due /\ \A k \in 1 .. n : admitted'[k] = admitted[k]
  BY <1>4, <1>5
<1>7. BucketTyped'
  BY <1>3, <1>4, <1>5, <1>6 DEF ClientInv, BucketTyped
<1>8. \A j \in 1 .. n : /\ admitted[j] \in Nat
                        /\ n - j + 1 <= Burst - balance + (updated - admitted[j])
                        /\ admitted[j] <= updated \/ admitted[j] <= updated - balance
  BY <1>5 DEF ClientInv, Paid
<1>9. \A j \in 1 .. (n + 1) :
        (n + 1) - j + 1 <= Burst - (R - 1) + (tick - admitted'[j])
  <2>1. ASSUME NEW j \in 1 .. n
        PROVE  (n + 1) - j + 1 <= Burst - (R - 1) + (tick - admitted'[j])
    <3>1. PICK a \in Nat : a = admitted[j]
      BY <1>0
    <3>2. n - j + 1 <= Burst - balance + (updated - a)
      BY <1>8, <3>1
    <3>3. (n + 1) - j + 1 <= Burst - (R - 1) + (tick - a)
      <4> HIDE DEF n
      <4> QED BY <1>0, <1>3, <3>2
    <3> QED BY <1>6, <3>1, <3>3
  <2>2. (n + 1) - (n + 1) + 1 <= Burst - (R - 1) + (tick - admitted'[n + 1])
    BY <1>3, <1>5, <1>6
  <2> QED BY <1>5, <2>1, <2>2
<1>10. \A j \in 1 .. n : admitted[j] <= due
  <2>1. ASSUME NEW j \in 1 .. n PROVE admitted[j] <= due
    <3>1. PICK a \in Nat : a = admitted[j]
      BY <1>0
    <3>2. a <= updated \/ a <= updated - balance
      BY <1>8, <3>1
    <3> HIDE DEF n
    <3>3. CASE a <= updated
      BY <1>0, <1>3, <3>1, <3>3
    <3>4. CASE a <= updated - balance
      <4>1. a <= tick - R
        BY <1>0, <1>3, <3>4
      <4> QED BY <1>0, <1>3, <3>1, <4>1
    <3> QED BY <3>2, <3>3, <3>4
  <2> QED BY <2>1
<1>11. \A j \in 1 .. (n + 1) : admitted'[j] <= tick \/ admitted'[j] <= tick - (R - 1)
  <2>1. ASSUME NEW j \in 1 .. n PROVE admitted'[j] <= tick \/ admitted'[j] <= tick - (R - 1)
    BY <1>3, <1>5, <1>6, <1>10
  <2>2. admitted'[n + 1] <= tick \/ admitted'[n + 1] <= tick - (R - 1)
    BY <1>3, <1>5, <1>6
  <2> QED BY <1>5, <2>1, <2>2
<1>12. \A j, k \in 1 .. (n + 1) :
         j <= k => /\ admitted'[j] <= admitted'[k]
                   /\ k - j + 1 <= Burst + admitted'[k] - admitted'[j]
  <2>1. ASSUME NEW j \in 1 .. n, NEW k \in 1 .. n, j <= k
        PROVE  /\ admitted'[j] <= admitted'[k]
               /\ k - j + 1 <= Burst + admitted'[k] - admitted'[j]
    BY <1>5, <1>6, <2>1 DEF ClientInv, Paid
  <2>2. ASSUME NEW j \in 1 .. n
        PROVE  /\ admitted'[j] <= admitted'[n + 1]
               /\ (n + 1) - j + 1 <= Burst + admitted'[n + 1] - admitted'[j]
    <3>1. admitted[j] \in Nat /\ admitted'[j] = admitted[j]
      BY <1>6, <1>8
    <3>2. PICK a \in Nat : a = admitted[j]
      BY <3>1
    <3>3. j \in 1 .. (n + 1)
      BY <1>5
    <3>4. (n + 1) - j + 1 <= Burst - (R - 1) + (tick - a)
      BY <1>9, <3>1, <3>2, <3>3
    <3>5. (n + 1) - j + 1 <= Burst + due - a
      <4> HIDE DEF n
      <4> QED BY <1>0, <1>3, <3>4
    <3> QED BY <3>1, <3>2, <3>5, <1>6, <1>10
  <2>3. (n + 1) - (n + 1) + 1 <= Burst + admitted'[n + 1] - admitted'[n + 1]
    BY <1>5, <1>6
  <2>4. \A j \in 1 .. (n + 1) : j \in 1 .. n \/ j = n + 1
    BY <1>5
  <2>5. \A k \in 1 .. n : ~(n + 1 <= k)
    BY <1>5
  <2>6. admitted'[n + 1] <= admitted'[n + 1]
    BY <1>6
  <2> HIDE DEF n
  <2>7. SUFFICES ASSUME NEW j \in 1 .. (n + 1), NEW k \in 1 .. (n + 1), j <= k
                 PROVE  /\ admitted'[j] <= admitted'[k]
                        /\ k - j + 1 <= Burst + admitted'[k] - admitted'[j]
    OBVIOUS
  <2>8. CASE k = n + 1
    BY <2>2, <2>3, <2>4, <2>6, <2>8
  <2>9. CASE k \in 1 .. n
    BY <2>1, <2>4, <2>5, <2>7, <2>9
  <2> QED BY <2>4, <2>8, <2>9
<1>13. Paid'
  BY <1>4, <1>6, <1>9, <1>11, <1>12 DEF Paid
<1> QED BY <1>7, <1>13

(* A request takes its token and leaves the limiter consistent.             *)
LEMMA AcquireKeeps ==
  ASSUME ClientInv, NEW f \in Fetcher, Acquire(f)
  PROVE  ClientInv'
<1>1. PICK r : r = fetch[f]
  OBVIOUS
<1>2. FetchGood(r) /\ r.phase \in {"new", "asleep"}
  BY <1>1 DEF ClientInv, Acquire
<1>3. PICK d : fetch' = [fetch EXCEPT ![f].phase = "limited", ![f].due = d]
  BY DEF Acquire
<1>4. fetch' = [fetch EXCEPT ![f] = [r EXCEPT !.phase = "limited", !.due = d]]
  BY <1>1, <1>3 DEF ClientInv
<1>5. [r EXCEPT !.phase = "limited", !.due = d]
        = [r EXCEPT !.phase = "limited", !.due = d, !.attempt = r.attempt, !.requests = r.requests]
  BY <1>2 DEF FetchGood, FetchTyped, IsFetch
<1>7. FetchGood([r EXCEPT !.phase = "limited", !.due = d])
  <2>1. r.requests <= MaxAttempts * Cardinality(r.seen)
                        + Spent("limited", r.attempt)
    BY <1>2 DEF FetchGood, InBudget, Spent
  <2>2. /\ "limited" \in Phases \ {"done"} /\ r.attempt \in 1 .. MaxAttempts
        /\ r.requests \in Nat
    BY <1>2 DEF FetchGood, FetchTyped, Phases
  <2>3. FetchGood([r EXCEPT !.phase = "limited", !.due = d, !.attempt = r.attempt,
                            !.requests = r.requests])
    BY <1>2, <2>1, <2>2, PhaseMoves
  <2> QED BY <2>3, <1>5
<1>8. UNCHANGED nextOf
  BY DEF Acquire
<1>9. DOMAIN fetch' = Fetcher /\ \A g \in Fetcher : FetchGood(fetch[g])'
  BY <1>4, <1>7, <1>8, OneFetchMoves
<1> QED BY <1>9, AcquirePays DEF ClientInv

(* The bucket is left alone.                                                *)
LEMMA BucketKept ==
  ASSUME ClientInv, UNCHANGED <<tick, balance, updated, admitted, nextOf>>
  PROVE  BucketTyped' /\ Paid'
BY DEF ClientInv, BucketTyped, Paid

(* A fetch that has its token leaves the limiter.                           *)
LEMMA LeaveKeeps ==
  ASSUME ClientInv, NEW f \in Fetcher, Leave(f)
  PROVE  ClientInv'
<1>1. PICK r : r = fetch[f]
  OBVIOUS
<1>2. FetchGood(r) /\ r.phase = "limited" /\ FetchTyped(r)
  BY <1>1 DEF ClientInv, Leave, FetchGood
<1>3. fetch' = [fetch EXCEPT ![f] = [r EXCEPT !.phase = "sent", !.requests = r.requests + 1]]
  BY <1>1 DEF Leave, ClientInv
<1>4. [r EXCEPT !.phase = "sent", !.requests = r.requests + 1]
        = [r EXCEPT !.phase = "sent", !.due = r.due, !.attempt = r.attempt,
                    !.requests = r.requests + 1]
  BY <1>2 DEF FetchTyped, IsFetch
<1>6. r.requests + 1 <= MaxAttempts * Cardinality(r.seen)
                          + Spent("sent", r.attempt)
  <2>1. Cardinality(r.seen) \in Nat
    BY <1>2, FS_CardinalityType DEF FetchTyped
  <2>2. MaxAttempts * Cardinality(r.seen) \in Nat
    BY <2>1, ClientConstants
  <2> QED BY <1>2, <2>2 DEF FetchGood, InBudget, Spent, FetchTyped
<1>7. /\ "sent" \in Phases \ {"done"} /\ r.attempt \in 1 .. MaxAttempts
      /\ r.requests + 1 \in Nat
  BY <1>2 DEF FetchTyped, Phases
<1>8. FetchGood([r EXCEPT !.phase = "sent", !.due = r.due, !.attempt = r.attempt,
                          !.requests = r.requests + 1])
  BY <1>2, <1>6, <1>7, PhaseMoves
<1>9. DOMAIN fetch' = Fetcher /\ \A g \in Fetcher : FetchGood(fetch[g])'
  <2>1. UNCHANGED nextOf
    BY DEF Leave
  <2> QED BY <1>3, <1>4, <1>8, <2>1, OneFetchMoves
<1> QED BY <1>9, BucketKept DEF ClientInv, Leave

(* A fetch that sleeps is one attempt further.                              *)
LEMMA SleepKeeps ==
  ASSUME ClientInv, NEW f \in Fetcher, NEW delay, fetch[f].phase = "sent",
         SleepThenRetry(f, delay), UNCHANGED nextOf
  PROVE  DOMAIN fetch' = Fetcher /\ \A g \in Fetcher : FetchGood(fetch[g])'
<1>1. PICK r : r = fetch[f]
  OBVIOUS
<1>2. FetchGood(r) /\ r.phase = "sent" /\ FetchTyped(r)
  BY <1>1 DEF ClientInv, FetchGood
<1>3. PICK p, a : /\ p = IF r.attempt = MaxAttempts THEN "failed" ELSE "asleep"
                  /\ a = IF r.attempt = MaxAttempts THEN r.attempt ELSE r.attempt + 1
  OBVIOUS
<1>4. fetch' = [fetch EXCEPT ![f] = [r EXCEPT !.phase = p, !.attempt = a, !.due = tick + delay]]
  BY <1>1, <1>3 DEF SleepThenRetry, ClientInv, AttemptsSpent
<1>5. [r EXCEPT !.phase = p, !.attempt = a, !.due = tick + delay]
        = [r EXCEPT !.phase = p, !.due = tick + delay, !.attempt = a, !.requests = r.requests]
  BY <1>2 DEF FetchTyped, IsFetch
<1>6. /\ p \in Phases \ {"done"} /\ a \in 1 .. MaxAttempts /\ r.requests \in Nat
      /\ p \in {"failed", "asleep"} /\ p = "failed" => r.attempt = MaxAttempts
      /\ p = "asleep" => a - 1 = r.attempt
  BY <1>2, <1>3, ClientConstants DEF FetchTyped, Phases
<1>8. Spent(p, a) = r.attempt /\ Spent(r.phase, r.attempt) = r.attempt
  BY <1>2, <1>3, ClientConstants DEF Spent, FetchTyped
<1>9. FetchGood([r EXCEPT !.phase = p, !.due = tick + delay, !.attempt = a,
                          !.requests = r.requests])
  <2>1. r.requests <= MaxAttempts * Cardinality(r.seen)
                        + Spent(p, a)
    BY <1>2, <1>8 DEF FetchGood, InBudget
  <2> QED BY <1>2, <1>6, <2>1, PhaseMoves
<1> QED BY <1>4, <1>5, <1>9, OneFetchMoves

(* A failed attempt is repeated later, or gives the fetch up.               *)
LEMMA AttemptFailsKeeps ==
  ASSUME ClientInv, NEW f \in Fetcher, AttemptFails(f)
  PROVE  ClientInv'
<1>1. fetch[f].phase = "sent" /\ UNCHANGED <<tick, balance, updated, admitted, nextOf>>
  BY DEF AttemptFails
<1>2. \E delay : SleepThenRetry(f, delay)
  BY DEF AttemptFails
<1>3. DOMAIN fetch' = Fetcher /\ \A g \in Fetcher : FetchGood(fetch[g])'
  BY <1>1, <1>2, SleepKeeps
<1> QED BY <1>1, <1>3, BucketKept DEF ClientInv

(* A refused attempt fails the fetch.                                       *)
LEMMA AttemptRefusedKeeps ==
  ASSUME ClientInv, NEW f \in Fetcher, AttemptRefused(f)
  PROVE  ClientInv'
<1>1. PICK r : r = fetch[f]
  OBVIOUS
<1>2. FetchGood(r) /\ r.phase = "sent" /\ FetchTyped(r)
  BY <1>1 DEF ClientInv, AttemptRefused, FetchGood
<1>3. fetch' = [fetch EXCEPT ![f] = [r EXCEPT !.phase = "failed"]]
  BY <1>1 DEF AttemptRefused, ClientInv
<1>4. [r EXCEPT !.phase = "failed"]
        = [r EXCEPT !.phase = "failed", !.due = r.due, !.attempt = r.attempt,
                    !.requests = r.requests]
  BY <1>2 DEF FetchTyped, IsFetch
<1>6. r.requests <= MaxAttempts * Cardinality(r.seen)
                      + Spent("failed", r.attempt)
  <2>1. MaxAttempts * Cardinality(r.seen) \in Nat
    BY <1>2, FS_CardinalityType, ClientConstants DEF FetchTyped
  <2> QED BY <1>2, <2>1, ClientConstants DEF FetchGood, InBudget, Spent, FetchTyped
<1>7. FetchGood([r EXCEPT !.phase = "failed", !.due = r.due, !.attempt = r.attempt,
                          !.requests = r.requests])
  <2>1. /\ "failed" \in Phases \ {"done"} /\ r.attempt \in 1 .. MaxAttempts
        /\ r.requests \in Nat
    BY <1>2 DEF FetchTyped, Phases
  <2> QED BY <1>2, <1>6, <2>1, PhaseMoves
<1>8. DOMAIN fetch' = Fetcher /\ \A g \in Fetcher : FetchGood(fetch[g])'
  <2>1. UNCHANGED nextOf
    BY DEF AttemptRefused
  <2> QED BY <1>3, <1>4, <1>7, <2>1, OneFetchMoves
<1> QED BY <1>8, BucketKept DEF ClientInv, AttemptRefused

(* A page arrives: the last one, one that leads back, or one that leads on. *)
LEMMA AttemptAnswersKeeps ==
  ASSUME ClientInv, NEW f \in Fetcher, AttemptAnswers(f)
  PROVE  ClientInv'
<1> USE ClientConstants
<1>1. PICK r : r = fetch[f]
  OBVIOUS
<1>2. /\ FetchGood(r) /\ r.phase = "sent" /\ FetchTyped(r) /\ Linked(r)
      /\ UNCHANGED <<tick, balance, updated, admitted, nextOf>>
  BY <1>1 DEF ClientInv, AttemptAnswers, FetchGood
<1>3. PICK next : next = nextOf[r.page]
  OBVIOUS
<1>4. next \in Page \cup {NoPage} /\ r.page \in Page
  BY <1>2, <1>3 DEF FetchTyped, ClientInv, BucketTyped
<1> DEFINE q == [phase |-> IF next = NoPage THEN "done" ELSE IF next \in r.seen THEN "failed" ELSE "new",
                 due |-> r.due, attempt |-> 1,
                 page |-> IF next = NoPage THEN r.page ELSE next,
                 seen |-> IF next = NoPage THEN r.seen ELSE r.seen \cup {next},
                 rows |-> r.rows \cup {r.page}, requests |-> r.requests]
<1>5. fetch' = [fetch EXCEPT ![f] = q]
  <2>1. NoPage \notin r.seen
    BY <1>2 DEF FetchTyped
  <2>2. PICK p, rs, pg, sn :
          /\ p = q.phase /\ rs = q.rows /\ pg = q.page /\ sn = q.seen
    OBVIOUS
  <2>3. fetch' = [fetch EXCEPT ![f].phase = p, ![f].rows = rs, ![f].attempt = 1,
                               ![f].page = pg, ![f].seen = sn]
    BY <1>1, <1>3, <2>1, <2>2 DEF AttemptAnswers, Repeats
  <2>4. fetch' = [fetch EXCEPT ![f] = [r EXCEPT !.phase = p, !.rows = rs, !.attempt = 1,
                                                !.page = pg, !.seen = sn]]
    BY <1>1, <2>3, Zenon DEF ClientInv
  <2>5. q = [phase |-> p, due |-> r.due, attempt |-> 1, page |-> pg, seen |-> sn,
             rows |-> rs, requests |-> r.requests]
    BY <2>2
  <2> HIDE DEF q
  <2>6. [r EXCEPT !.phase = p, !.rows = rs, !.attempt = 1, !.page = pg, !.seen = sn] = q
    <3>1. PICK r1, r2, r3, r4, r5, r6, r7 :
            r = [phase |-> r1, due |-> r2, attempt |-> r3, page |-> r4, seen |-> r5,
                 rows |-> r6, requests |-> r7]
      BY <1>2 DEF FetchTyped, IsFetch
    <3>2. r.due = r2 /\ r.requests = r7
      BY <3>1
    <3> DEFINE w0 == [phase |-> r1, due |-> r2, attempt |-> r3, page |-> r4, seen |-> r5, rows |-> r6, requests |-> r7]
               w1 == [phase |-> p, due |-> r2, attempt |-> r3, page |-> r4, seen |-> r5, rows |-> r6, requests |-> r7]
               w2 == [phase |-> p, due |-> r2, attempt |-> r3, page |-> r4, seen |-> r5, rows |-> rs, requests |-> r7]
               w3 == [phase |-> p, due |-> r2, attempt |-> 1, page |-> r4, seen |-> r5, rows |-> rs, requests |-> r7]
               w4 == [phase |-> p, due |-> r2, attempt |-> 1, page |-> pg, seen |-> r5, rows |-> rs, requests |-> r7]
               w5 == [phase |-> p, due |-> r2, attempt |-> 1, page |-> pg, seen |-> sn, rows |-> rs, requests |-> r7]
    <3>3. [w0 EXCEPT !.phase = p] = w1
      BY Z3
    <3>4. [w1 EXCEPT !.rows = rs] = w2
      BY Z3
    <3>5. [w2 EXCEPT !.attempt = 1] = w3
      BY Z3
    <3>6. [w3 EXCEPT !.page = pg] = w4
      BY Z3
    <3>7. [w4 EXCEPT !.seen = sn] = w5
      BY Z3
    <3>8. q = w5 /\ r = w0
      BY <2>5, <3>1, <3>2
    <3> HIDE DEF w0, w1, w2, w3, w4, w5
    <3> QED BY <3>3, <3>4, <3>5, <3>6, <3>7, <3>8, Zenon
  <2> QED BY <2>4, <2>6
<1>6. FetchTyped(q)
  <2>1. IsFiniteSet(q.seen)
    BY <1>2, FS_AddElement DEF FetchTyped
  <2> QED BY <1>2, <1>4, <2>1 DEF FetchTyped, IsFetch, Phases
<1>7. Linked(q)
  <2>1. FirstPage \in q.rows \cup {q.page}
    BY <1>2 DEF Linked
  <2>2. \A p \in q.rows : nextOf[p] \in q.rows \cup {q.page, NoPage}
    BY <1>2, <1>3 DEF Linked
  <2>3. ASSUME NEW S \in SUBSET Page, Reached(S) PROVE q.rows \cup {q.page} \subseteq S
    <3>1. r.rows \cup {r.page} \subseteq S
      BY <1>2, <2>3 DEF Linked
    <3>2. next \in S \cup {NoPage}
      BY <1>3, <2>3, <3>1 DEF Reached
    <3> QED BY <3>1, <3>2
  <2> QED BY <2>1, <2>2, <2>3 DEF Linked
<1>8. Whole(q)
  BY <1>3 DEF Whole
<1>9. InBudget(q)
  <2>1. PICK n \in Nat : n = Cardinality(r.seen)
    BY <1>2, FS_CardinalityType DEF FetchTyped
  <2>2. /\ MaxAttempts * n \in Nat /\ MaxAttempts * (n + 1) = MaxAttempts * n + MaxAttempts
    BY <2>1
  <2>3. r.requests \in Nat /\ r.requests <= MaxAttempts * n + MaxAttempts
    BY <1>2, <2>1, <2>2 DEF FetchGood, InBudget, Spent, FetchTyped
  <2>4. CASE next = NoPage
    BY <2>1, <2>3, <2>4 DEF InBudget, Spent
  <2>5. CASE next # NoPage /\ next \in r.seen
    <3>1. r.seen \cup {next} = r.seen
      BY <2>5
    <3> QED BY <2>1, <2>3, <2>5, <3>1 DEF InBudget, Spent
  <2>6. CASE next # NoPage /\ next \notin r.seen
    <3>1. Cardinality(r.seen \cup {next}) = n + 1
      BY <1>2, <2>1, <2>6, FS_AddElement DEF FetchTyped
    <3> QED BY <2>2, <2>3, <2>6, <3>1 DEF InBudget, Spent
  <2> QED BY <2>4, <2>5, <2>6
<1>10. FetchGood(q)
  BY <1>6, <1>7, <1>8, <1>9 DEF FetchGood
<1> HIDE DEF q
<1>11. DOMAIN fetch' = Fetcher /\ \A g \in Fetcher : FetchGood(fetch[g])'
  BY <1>2, <1>5, <1>10, OneFetchMoves
<1> QED BY <1>2, <1>11, BucketKept DEF ClientInv

(* Every step of the client keeps the invariant.                            *)
LEMMA ClientStepKeeps == ClientInv /\ [ClientNext]_clientVars => ClientInv'
<1> SUFFICES ASSUME ClientInv, [ClientNext]_clientVars PROVE ClientInv'
  OBVIOUS
<1>1. ASSUME UNCHANGED <<nextOf, fetch>>
      PROVE  DOMAIN fetch' = Fetcher /\ \A g \in Fetcher : FetchGood(fetch[g])'
  BY <1>1 DEF ClientInv, FetchGood, FetchTyped, IsFetch, Linked, Whole, InBudget, Spent, Reached
<1>2. CASE Tick
  <2>1. BucketTyped' /\ Paid'
    BY <1>2, ClientConstants DEF Tick, ClientInv, BucketTyped, Paid
  <2> QED BY <1>1, <1>2, <2>1 DEF Tick, ClientInv
<1>3. CASE UNCHANGED clientVars
  BY <1>1, <1>3, BucketKept DEF clientVars, ClientInv
<1>4. ASSUME NEW f \in Fetcher,
             Acquire(f) \/ Leave(f) \/ AttemptFails(f) \/ AttemptRefused(f) \/ AttemptAnswers(f)
      PROVE  ClientInv'
  BY <1>4, AcquireKeeps, LeaveKeeps, AttemptFailsKeeps, AttemptRefusedKeeps, AttemptAnswersKeeps
<1> QED BY <1>2, <1>3, <1>4 DEF ClientNext

(* Requests that may leave within a minute lie between the first and the    *)
(* last of them, and the bucket has paid for all of those.                  *)
LEMMA MinuteBounded ==
  ASSUME ClientInv, NEW t \in Nat
  PROVE  Cardinality(InMinuteFrom(t)) <= Burst + RequestsPerMinute - 1
<1> USE ClientConstants
<1> DEFINE n == Len(admitted)
           I == InMinuteFrom(t)
<1>1. n \in Nat /\ DOMAIN admitted = 1 .. n /\ \A k \in 1 .. n : admitted[k] \in Nat
  BY DEF ClientInv, BucketTyped
<1>2. I \subseteq 1 .. n
  BY <1>1 DEF InMinuteFrom
<1>3. CASE I = {}
  BY <1>3, FS_EmptySet
<1>4. CASE I # {}
  <2>1. PICK j \in I : \A k \in I : j <= k
    <3>1. I \in SUBSET Nat
      BY <1>1, <1>2
    <3> QED BY <1>4, <3>1, LeastThere
  <2>2. PICK l \in I : \A k \in I : k <= l
    <3>1. I \in SUBSET (-1 .. n)
      BY <1>1, <1>2
    <3>2. \E m \in I : \A k \in I : m >= k
      BY <1>1, <1>4, <3>1, MaximumThere
    <3> QED BY <1>1, <1>2, <3>2
  <2>3. j \in 1 .. n /\ l \in 1 .. n /\ j <= l /\ I \subseteq j .. l
    BY <1>1, <1>2, <2>1, <2>2
  <2>4. l - j + 1 <= Burst + admitted[l] - admitted[j]
    BY <1>1, <2>3 DEF ClientInv, Paid
  <2>5. admitted[l] < t + RequestsPerMinute /\ t <= admitted[j]
    BY DEF InMinuteFrom
  <2>6. IsFiniteSet(j .. l) /\ Cardinality(j .. l) = l - j + 1
    BY <1>1, <2>3, FS_Interval
  <2>7. IsFiniteSet(I) /\ Cardinality(I) <= l - j + 1
    BY <2>3, <2>6, FS_Subset
  <2>8. Cardinality(I) \in Nat
    BY <2>7, FS_CardinalityType
  <2> QED BY <1>1, <2>3, <2>4, <2>5, <2>7, <2>8
<1> QED BY <1>3, <1>4

(* What a fetch that returns has read is the pages reached, no more and no  *)
(* fewer.                                                                   *)
LEMMA DoneIsChain ==
  ASSUME ClientInv, NEW f \in Fetcher, fetch[f].phase = "done"
  PROVE  Ends /\ fetch[f].rows = Chain
<1>1. PICK r : r = fetch[f]
  OBVIOUS
<1>2. FetchTyped(r) /\ Linked(r) /\ r.page \in r.rows /\ nextOf[r.page] = NoPage
  BY <1>1 DEF ClientInv, FetchGood, Whole
<1>3. r.rows \in SUBSET Page /\ Reached(r.rows)
  BY <1>2 DEF FetchTyped, Linked, Reached
<1>4. \A T \in SUBSET Page : Reached(T) => r.rows \subseteq T
  BY <1>2 DEF Linked
<1>5. Chain \in SUBSET Page /\ Reached(Chain) /\ \A T \in SUBSET Page : Reached(T) => Chain \subseteq T
  BY <1>3, <1>4 DEF Chain
<1>6. Chain = r.rows
  BY <1>3, <1>4, <1>5
<1> QED BY <1>1, <1>2, <1>6 DEF Ends

(* The invariant gives the types and what a fetch may return.               *)
LEMMA ClientInvSound == ClientInv => ClientTypeOK /\ ClientSound
<1> SUFFICES ASSUME ClientInv PROVE ClientTypeOK /\ ClientSound
  OBVIOUS
<1>1. ClientTypeOK
  BY DEF ClientInv, ClientTypeOK, BucketTyped, FetchGood, FetchTyped
<1>2. RateBounded
  <2>1. \A k \in DOMAIN admitted : admitted[k] \in Nat
    BY DEF ClientInv, BucketTyped
  <2>2. DOMAIN admitted \subseteq Nat
    BY DEF ClientInv, BucketTyped
  <2> QED BY <2>1, <2>2, MinuteBounded DEF RateBounded, ClientInv, Paid
<1>3. FetchWhole
  <2>1. ASSUME NEW f \in Fetcher
        PROVE  fetch[f].requests <= MaxAttempts * (Cardinality(fetch[f].seen) + 1)
    <3>1. FetchTyped(fetch[f]) /\ InBudget(fetch[f])
      BY DEF ClientInv, FetchGood
    <3>2. PICK n \in Nat : n = Cardinality(fetch[f].seen)
      BY <3>1, FS_CardinalityType DEF FetchTyped
    <3>3. MaxAttempts * n \in Nat /\ MaxAttempts * (n + 1) = MaxAttempts * n + MaxAttempts
      BY <3>2, ClientConstants
    <3>4. PICK s \in Int : s = Spent(fetch[f].phase, fetch[f].attempt) /\ s <= MaxAttempts
      BY <3>1, ClientConstants DEF Spent, FetchTyped
    <3>5. PICK m \in Nat : m = MaxAttempts * n
      BY <3>3
    <3>6. PICK q \in Nat : q = fetch[f].requests
      BY <3>1 DEF FetchTyped
    <3>7. q <= m + s
      BY <3>1, <3>2, <3>4, <3>5, <3>6 DEF InBudget
    <3>8. q <= m + MaxAttempts
      BY <3>4, <3>5, <3>7, ClientConstants
    <3> QED BY <3>2, <3>3, <3>5, <3>6, <3>8
  <2> QED BY <2>1, DoneIsChain DEF FetchWhole
<1> QED BY <1>1, <1>2, <1>3 DEF ClientSound

(* In any minute, at whatever rate, burst and number of attempts, the       *)
(* client admits no more requests than the burst and the minute's tokens,   *)
(* and a fetch returns every page of its range or none                      *)
(* (alpaca/rate_limit.py, alpaca/pagination.py).                            *)
THEOREM ClientIsSound == ClientSpec => []ClientSound
<1> QED BY ClientInitGood, ClientStepKeeps, ClientInvSound, PTL DEF ClientSpec

(* The smaller of two numbers.                                              *)
LEMMA MinOfTwo ==
  ASSUME NEW a \in Nat, NEW b \in Nat
  PROVE  /\ Min({a, b}) = IF a <= b THEN a ELSE b
         /\ Min({a, b}) \in {a, b} /\ Min({a, b}) <= a /\ Min({a, b}) <= b
<1>1. Min({a, b}) \in {a, b} /\ \A k \in {a, b} : Min({a, b}) <= k
  BY MinNamesLeast
<1> QED BY <1>1

(* What the calendar and the bars are measured in.                          *)
LEMMA DerivationConstants ==
  /\ DayMinutes \in Nat \ {0} /\ BarMinutes \in Nat \ {0} /\ MaxMinute \in Nat \ {0}
  /\ OpenMinute \in Nat /\ MaxCorrections \in Nat /\ CloseMinute \in Nat
  /\ OpenMinute < CloseMinute /\ CloseMinute <= DayMinutes /\ Zero \in RowValue
BY DerivationAssumption

(* A multiple that does not lie behind the next one lies not behind this.   *)
LEMMA MultiplesApart ==
  ASSUME NEW k \in Int, NEW l \in Int, NEW D \in Nat \ {0}, k * D < l * D + D
  PROVE  k * D <= l * D
<1>1. CASE k <= l
  <2>1. PICK m \in Nat : l = k + m
    BY <1>1
  <2>2. l * D = k * D + m * D /\ m * D \in Nat
    BY <2>1
  <2> QED BY <2>2
<1>2. CASE k > l
  <2>1. PICK m \in Nat : k = l + 1 + m
    <3>1. k - l - 1 \in Nat /\ k = l + 1 + (k - l - 1)
      BY <1>2
    <3> QED BY <3>1
  <2>2. k * D = l * D + D + m * D /\ m * D \in Nat
    BY <2>1
  <2> QED BY <2>2
<1> QED BY <1>1, <1>2

(* A minute lies in its day, and a day starts at a multiple of its length.  *)
LEMMA DayOfMinute ==
  ASSUME NEW t \in Nat
  PROVE  \E k \in Nat : /\ OpenOf(t) = k * DayMinutes + OpenMinute
                        /\ k * DayMinutes \in Nat
                        /\ k * DayMinutes <= t /\ t < k * DayMinutes + DayMinutes
<1> USE DerivationConstants
<1>1. t % DayMinutes \in 0 .. DayMinutes - 1
  OBVIOUS
<1>2. PICK k \in Nat : k = t \div DayMinutes
  OBVIOUS
<1>3. t = k * DayMinutes + (t % DayMinutes)
  BY <1>2
<1>4. PICK m \in Nat, x \in Nat : m = k * DayMinutes /\ x = t % DayMinutes
  BY <1>1
<1>5. t = m + x /\ x < DayMinutes
  BY <1>1, <1>3, <1>4
<1>6. OpenOf(t) = (t - x) + OpenMinute
  BY <1>4 DEF OpenOf
<1>7. OpenOf(t) = m + OpenMinute /\ m <= t /\ t < m + DayMinutes
  BY <1>5, <1>6
<1> QED BY <1>4, <1>7

(* Later minutes belong to later days, and a minute past an opening to its  *)
(* day or a later one.                                                      *)
LEMMA OpeningsOrdered ==
  ASSUME NEW a \in Nat, NEW b \in Nat
  PROVE  /\ OpenOf(a) \in Nat
         /\ a <= b => OpenOf(a) <= OpenOf(b)
         /\ OpenOf(a) <= b => OpenOf(a) <= OpenOf(b)
         /\ a <= b /\ b < OpenOf(a) => OpenOf(b) = OpenOf(a)
<1> USE DerivationConstants
<1>1. PICK k \in Nat : /\ OpenOf(a) = k * DayMinutes + OpenMinute
                       /\ k * DayMinutes \in Nat
                       /\ k * DayMinutes <= a /\ a < k * DayMinutes + DayMinutes
  BY DayOfMinute
<1>2. PICK l \in Nat : /\ OpenOf(b) = l * DayMinutes + OpenMinute
                       /\ l * DayMinutes \in Nat
                       /\ l * DayMinutes <= b /\ b < l * DayMinutes + DayMinutes
  BY DayOfMinute
<1>3. PICK x \in Nat, y \in Nat : x = k * DayMinutes /\ y = l * DayMinutes
  BY <1>1, <1>2
<1>4. x < y + DayMinutes => x <= y
  BY <1>3, MultiplesApart
<1>5. y < x + DayMinutes => y <= x
  BY <1>3, MultiplesApart
<1> QED BY <1>1, <1>2, <1>3, <1>4, <1>5

(* From its opening to a minute of the session it is the same day.          *)
LEMMA SameDay ==
  ASSUME NEW a \in Nat, NEW t \in Nat, OpenOf(t) <= a, a <= t
  PROVE  OpenOf(a) = OpenOf(t)
<1>1. /\ OpenOf(a) \in Nat /\ OpenOf(t) \in Nat
      /\ OpenOf(a) <= OpenOf(t) /\ OpenOf(t) <= OpenOf(a)
  BY OpeningsOrdered
<1> QED BY <1>1

(* The bar of a minute of the session lies between the opening and it.      *)
LEMMA BarOfMinute ==
  ASSUME NEW t \in Nat, InSession(t)
  PROVE  /\ BarOf(t) \in Nat /\ OpenOf(t) <= BarOf(t) /\ BarOf(t) <= t
         /\ OpenOf(BarOf(t)) = OpenOf(t)
<1> USE DerivationConstants
<1>1. PICK o \in Nat : o = OpenOf(t) /\ o <= t
  BY OpeningsOrdered DEF InSession
<1>2. PICK d \in Nat : d = t - o
  <2>1. t - o \in Nat
    BY <1>1
  <2> QED BY <2>1
<1>3. PICK q \in Nat : q = d \div BarMinutes
  OBVIOUS
<1>4. d % BarMinutes \in 0 .. BarMinutes - 1 /\ d = q * BarMinutes + (d % BarMinutes)
  BY <1>3
<1>5. PICK m \in Nat : m = q * BarMinutes
  OBVIOUS
<1>6. m <= d
  BY <1>4, <1>5
<1>7. BarOf(t) = o + m
  BY <1>1, <1>2, <1>3, <1>5 DEF BarOf
<1>8. BarOf(t) \in Nat /\ o <= BarOf(t) /\ BarOf(t) <= t
  BY <1>1, <1>2, <1>6, <1>7
<1> QED BY <1>1, <1>8, SameDay

(* No bucket of a session lies on both sides of an opening.                 *)
LEMMA BarsOfDay ==
  ASSUME NEW t \in Nat, InSession(t), NEW z \in Nat
  PROVE  BarOf(t) >= OpenOf(z) <=> t >= OpenOf(z)
<1>1. OpenOf(z) <= t => OpenOf(z) <= OpenOf(t)
  BY OpeningsOrdered
<1>2. OpenOf(z) \in Nat /\ OpenOf(t) \in Nat
  BY OpeningsOrdered
<1> QED BY <1>1, <1>2, BarOfMinute

-----------------------------------------------------------------------------
(* The legacy derivations: each file is a function of the one before        *)

(* The rows resampled bars aggregate.                                       *)
Aggregated == UNION {b.value : b \in resampled}

FilesTyped ==
  /\ source \subseteq Rows /\ filtered \subseteq Rows /\ Aggregated \subseteq Rows
  /\ minute \in 0 .. MaxMinute /\ from \in 0 .. minute
  /\ changedSource \in 0 .. MaxMinute /\ changedFiltered \in 0 .. MaxMinute
  /\ corrections \in 0 .. MaxCorrections /\ unreported \in BOOLEAN
  /\ \A r, s \in source : r.at = s.at => r = s
  /\ \A r \in source : from <= r.at
  /\ \A r \in source \cup filtered \cup Aggregated : r.at < minute
  /\ \A r \in filtered \cup Aggregated : InSession(r.at)

(* The minutes a run that is told of a change derives again.                *)
Told(t, c) == t >= c \/ (c # Unchanged /\ OpenOf(c) <= t)

(* An earlier change tells of more.                                         *)
LEMMA ToldMore ==
  ASSUME NEW t \in Nat, NEW c \in 0 .. MaxMinute, NEW d \in 0 .. MaxMinute, d <= c, Told(t, c)
  PROVE  Told(t, d)
<1>1. c \in Nat /\ d \in Nat /\ MaxMinute \in Nat
  BY DerivationConstants
<1>2. OpenOf(c) \in Nat /\ OpenOf(d) \in Nat /\ OpenOf(d) <= OpenOf(c)
  BY <1>1, OpeningsOrdered
<1>3. CASE t >= c
  BY <1>1, <1>3 DEF Told
<1>4. CASE c # Unchanged /\ OpenOf(c) <= t
  BY <1>1, <1>2, <1>4 DEF Told, Unchanged
<1> QED BY <1>3, <1>4 DEF Told

(* A row in the window that the filter has not followed yet was changed     *)
(* since, which the next run is told of, or it came after every row the     *)
(* derived files have.                                                      *)
FilterFollows ==
  \A r \in filtered \cup FilterRegularSession(source) :
    \/ r.at < from
    \/ r \in filtered /\ r \in FilterRegularSession(source)
    \/ Told(r.at, changedSource)
    \/ \A x \in filtered \cup Aggregated : x.at < r.at

(* The same of the resampled bars, by the rows they aggregate.              *)
ResampleFollows ==
  \A r \in Aggregated \cup filtered :
    \/ BarOf(r.at) < from
    \/ r \in Aggregated /\ r \in filtered
    \/ Told(r.at, changedFiltered)
    \/ \A x \in Aggregated : x.at < r.at

FilesFollow ==
  /\ FilesTyped
  /\ resampled = ResampleBars(Aggregated)
  /\ FilterFollows /\ ResampleFollows

(* The derived files follow until a repair leaves a change untold.          *)
DerivationInv == FilesTyped /\ (unreported \/ FilesFollow)

(* A row is a minute with a value.                                          *)
LEMMA RowsTyped ==
  /\ \A r \in Rows : r.at \in 0 .. MaxMinute - 1 /\ r.at \in Nat
  /\ \A t \in 0 .. MaxMinute - 1, v \in RowValue : [at |-> t, value |-> v] \in Rows
BY DerivationConstants DEF Rows

(* The empty files are current.                                             *)
LEMMA DerivationInitGood == DerivationInit => DerivationInv
<1> SUFFICES ASSUME DerivationInit PROVE DerivationInv
  OBVIOUS
<1>1. Aggregated = {} /\ ResampleBars(Aggregated) = {}
  BY DEF Aggregated, DerivationInit, ResampleBars
<1>2. FilterRegularSession(source) = {}
  BY DEF DerivationInit, FilterRegularSession
<1>3. FilesTyped
  <2>1. /\ minute \in 0 .. MaxMinute /\ from \in 0 .. minute
        /\ changedSource \in 0 .. MaxMinute /\ changedFiltered \in 0 .. MaxMinute
        /\ corrections \in 0 .. MaxCorrections
    <3>1. /\ minute = 0 /\ from = 0 /\ corrections = 0
          /\ changedSource = MaxMinute /\ changedFiltered = MaxMinute
      BY DEF DerivationInit, Unchanged
    <3> QED BY <3>1, DerivationConstants
  <2>2. source = {} /\ filtered = {} /\ unreported \in BOOLEAN
    BY DEF DerivationInit
  <2> QED BY <1>1, <2>1, <2>2 DEF FilesTyped
<1>4. filtered \cup FilterRegularSession(source) = {} /\ Aggregated \cup filtered = {}
  BY <1>1, <1>2 DEF DerivationInit
<1>5. FilterFollows /\ ResampleFollows
  BY <1>4 DEF FilterFollows, ResampleFollows
<1> QED BY <1>1, <1>3, <1>5 DEF DerivationInv, FilesFollow, DerivationInit

(* What an existing output leaves to be derived again: rows before the      *)
(* start lie before the last row it has, and none of those that can differ  *)
(* was changed.                                                             *)
LEMMA StartOfRecompute ==
  ASSUME NEW existing, Times(existing) \subseteq 0 .. MaxMinute, existing # {},
         \A b \in existing : OpenOf(b.at) <= b.at,
         NEW changed \in 0 .. MaxMinute
  PROVE  /\ \E z \in Nat : RecomputeStart(existing, changed) = OpenOf(z)
         /\ \E b \in existing : RecomputeStart(existing, changed) <= b.at
         /\ \A t \in Nat : /\ t < MaxMinute /\ Told(t, changed)
                           /\ t < RecomputeStart(existing, changed)
                           => ~InSession(t)
<1> USE DerivationConstants
<1> DEFINE T == Times(existing)
<1>1. T \in SUBSET (0 .. MaxMinute) /\ T # {}
  BY DEF Times
<1>2. PICK m \in T : m = Max(T)
  BY <1>1, MaxNamesGreatest
<1>3. PICK b \in existing : b.at = m
  BY DEF Times
<1>4. m \in Nat /\ OpenOf(m) \in Nat /\ OpenOf(m) <= b.at
  BY <1>1, <1>3, OpeningsOrdered
<1>5. CASE changed = Unchanged
  <2>1. RecomputeStart(existing, changed) = OpenOf(m)
    BY <1>2, <1>5 DEF RecomputeStart
  <2> QED BY <1>4, <1>5, <2>1 DEF Unchanged, Told
<1>6. CASE changed # Unchanged
  <2>1. RecomputeStart(existing, changed) = Min({OpenOf(m), OpenOf(changed)})
    BY <1>2, <1>6 DEF RecomputeStart
  <2>2. OpenOf(changed) \in Nat
    BY OpeningsOrdered
  <2>3. PICK S \in {OpenOf(m), OpenOf(changed)} :
          S = RecomputeStart(existing, changed) /\ S <= OpenOf(m) /\ S <= OpenOf(changed)
    BY <1>4, <2>1, <2>2, MinOfTwo
  <2>4. \E z \in Nat : S = OpenOf(z)
    BY <1>4, <2>3
  <2>5. S \in Nat /\ S <= b.at
    BY <1>3, <1>4, <2>2, <2>3
  <2>6. ASSUME NEW t \in Nat, Told(t, changed), t < S PROVE ~InSession(t)
    <3>1. t < OpenOf(changed) /\ changed <= t
      BY <2>2, <2>3, <2>5, <2>6 DEF Told
    <3>2. OpenOf(t) = OpenOf(changed)
      BY <2>6, <3>1, OpeningsOrdered
    <3> QED BY <2>2, <3>1, <3>2 DEF InSession
  <2> QED BY <2>3, <2>4, <2>5, <2>6
<1> QED BY <1>5, <1>6

(* A row is in what the filter would write from nothing.                    *)
LEMMA FullFilteredRows ==
  ASSUME FilesTyped, NEW r
  PROVE  r \in FullFiltered <=> r \in FilterRegularSession(source)
BY DEF FullFiltered, Sliced, FilterRegularSession, FilesTyped

(* Filtering what changed gives what filtering the whole file gives.        *)
LEMMA FilterIsFull ==
  ASSUME FilesFollow
  PROVE  Refiltered = FullFiltered
<1> USE DerivationConstants
<1> DEFINE existing == Sliced(filtered)
           S == RecomputeStart(existing, changedSource)
<1>1. /\ source \subseteq Rows /\ filtered \subseteq Rows /\ from \in Nat
      /\ changedSource \in 0 .. MaxMinute
      /\ \A r \in filtered : InSession(r.at)
      /\ \A r \in Rows : r.at \in Nat /\ r.at < MaxMinute
  BY RowsTyped DEF FilesFollow, FilesTyped
<1>2. ASSUME NEW r PROVE r \in Refiltered <=> r \in FullFiltered
  <2>1. CASE existing = {}
    <3>1. r \in Refiltered <=> r.at >= from /\ r \in FilterRegularSession(Sliced(source))
      BY <2>1 DEF Refiltered, Retained, Due, Sliced, FilterRegularSession
    <3> QED BY <3>1 DEF FullFiltered, Sliced, FilterRegularSession
  <2>2. CASE existing # {}
    <3>1. Times(existing) \subseteq 0 .. MaxMinute
      BY <1>1 DEF Times, Sliced
    <3>2. \A b \in existing : OpenOf(b.at) <= b.at
      BY <1>1 DEF Sliced, InSession
    <3>3. /\ S \in Nat
          /\ \E b \in existing : S <= b.at
          /\ \A t \in Nat : t < MaxMinute /\ Told(t, changedSource) /\ t < S => ~InSession(t)
      <4>1. \A z \in Nat : OpenOf(z) \in Nat
        BY OpeningsOrdered
      <4> HIDE DEF existing
      <4> QED BY <1>1, <2>2, <3>1, <3>2, <4>1, StartOfRecompute
    <3>4. r \in Refiltered <=>
            /\ r.at >= from
            /\ \/ r \in existing /\ r.at < S
               \/ r \in FilterRegularSession(source) /\ r.at >= S
      BY <2>2 DEF Refiltered, Retained, Due, Sliced, FilterRegularSession
    <3>5. r \in FullFiltered <=> r.at >= from /\ r \in FilterRegularSession(source)
      BY DEF FullFiltered, Sliced, FilterRegularSession
    <3>6. ASSUME r.at >= from, r.at < S, r \in filtered \cup FilterRegularSession(source)
          PROVE  r \in filtered /\ r \in FilterRegularSession(source)
      <4>1. r \in Rows /\ InSession(r.at)
        BY <1>1, <3>6 DEF FilterRegularSession
      <4>2. ~Told(r.at, changedSource)
        BY <1>1, <3>3, <3>6, <4>1
      <4>3. PICK b \in filtered : S <= b.at
        BY <3>3 DEF Sliced
      <4>4. ~(b.at < r.at)
        BY <1>1, <3>3, <3>6, <4>1, <4>3
      <4>5. ~(r.at < from)
        BY <1>1, <3>6, <4>1
      <4> QED BY <3>6, <4>2, <4>3, <4>4, <4>5 DEF FilesFollow, FilterFollows
    <3>7. \A q \in filtered \cup FilterRegularSession(source) : q.at \in Nat
      BY <1>1 DEF FilterRegularSession
    <3>8. r \in existing <=> r.at >= from /\ r \in filtered
      BY DEF Sliced
    <3> QED BY <1>1, <3>3, <3>4, <3>5, <3>6, <3>7, <3>8
  <2> QED BY <2>1, <2>2
<1> QED BY <1>2

(* A bar stands for the rows of its bucket.                                 *)
LEMMA BarsOfRows ==
  ASSUME NEW F, NEW x
  PROVE  x \in ResampleBars(F) <=>
           \E r \in F : x = [at |-> BarOf(r.at), value |-> {q \in F : BarOf(q.at) = BarOf(r.at)}]
BY DEF ResampleBars

(* Resampling what changed gives what resampling the whole file gives.      *)
LEMMA ResampleIsFull ==
  ASSUME FilesFollow
  PROVE  Resampled = FullResampled
<1> USE DerivationConstants
<1> DEFINE existing == Sliced(resampled)
           S == RecomputeStart(existing, changedFiltered)
           D == Due(filtered, existing, changedFiltered)
<1>1. /\ filtered \subseteq Rows /\ Aggregated \subseteq Rows /\ from \in Nat
      /\ changedFiltered \in 0 .. MaxMinute
      /\ \A r \in filtered \cup Aggregated : InSession(r.at)
      /\ \A r \in Rows : r.at \in Nat /\ r.at < MaxMinute
      /\ resampled = ResampleBars(Aggregated)
  BY RowsTyped DEF FilesFollow, FilesTyped
<1>2. CASE existing = {}
  <2>1. Retained(existing, changedFiltered) = {} /\ D = Sliced(filtered)
    BY <1>2 DEF Retained, Due, Sliced
  <2> QED BY <2>1 DEF Resampled, FullResampled
<1>3. CASE existing # {}
  <2>1. \A r \in filtered \cup Aggregated :
          /\ r.at \in Nat /\ BarOf(r.at) \in Nat /\ BarOf(r.at) <= r.at
          /\ OpenOf(BarOf(r.at)) <= BarOf(r.at)
    BY <1>1, BarOfMinute
  <2>2. \A b \in resampled : \E r \in Aggregated : b.at = BarOf(r.at)
    BY <1>1, BarsOfRows
  <2>3. Times(existing) \subseteq 0 .. MaxMinute
    <3>1. ASSUME NEW b \in resampled PROVE b.at \in 0 .. MaxMinute
      <4>1. PICK r \in Aggregated : b.at = BarOf(r.at)
        BY <2>2
      <4> QED BY <1>1, <2>1, <4>1
    <3> QED BY <3>1 DEF Times, Sliced
  <2>4. \A b \in existing : OpenOf(b.at) <= b.at
    BY <2>1, <2>2 DEF Sliced
  <2>5. /\ \E z \in Nat : S = OpenOf(z)
        /\ \E b \in existing : S <= b.at
        /\ \A t \in Nat : t < MaxMinute /\ Told(t, changedFiltered) /\ t < S => ~InSession(t)
    <3> HIDE DEF existing
    <3> QED BY <1>1, <1>3, <2>3, <2>4, StartOfRecompute
  <2>6. S \in Nat
    BY <2>5, OpeningsOrdered
  <2>7. \A r \in filtered \cup Aggregated : BarOf(r.at) >= S <=> r.at >= S
    BY <1>1, <2>1, <2>5, BarsOfDay
  <2>8. D = {r \in filtered : r.at >= from /\ r.at >= S}
    BY <1>3 DEF Due, Sliced
  (* Before the start the derived file has the rows of the input. *)
  <2>9. ASSUME NEW r \in filtered \cup Aggregated, BarOf(r.at) >= from, r.at < S
        PROVE  r \in filtered /\ r \in Aggregated
    <3>1. r.at \in Nat /\ r.at < MaxMinute /\ InSession(r.at) /\ BarOf(r.at) \in Nat
      BY <1>1, <2>1
    <3>2. ~Told(r.at, changedFiltered)
      BY <1>1, <2>5, <2>9, <3>1
    <3>3. PICK b \in resampled : S <= b.at
      BY <2>5 DEF Sliced
    <3>4. PICK y \in Aggregated : b.at = BarOf(y.at)
      BY <2>2
    <3>5. ~(y.at < r.at)
      BY <2>1, <2>6, <2>9, <3>1, <3>3, <3>4
    <3>6. ~(BarOf(r.at) < from)
      BY <1>1, <2>9, <3>1
    <3> QED BY <3>2, <3>5, <3>6 DEF FilesFollow, ResampleFollows
  <2>10. ASSUME NEW x PROVE x \in Resampled <=> x \in FullResampled
    <3>1. x \in Resampled <=>
            /\ x.at >= from
            /\ (x \in existing /\ x.at < S) \/ x \in ResampleBars(D)
      BY DEF Resampled, Retained, Sliced
    <3>2. x \in FullResampled <=> x.at >= from /\ x \in ResampleBars(Sliced(filtered))
      BY DEF FullResampled, Sliced
    (* From the start on, a bar has every row of its bucket. *)
    <3>3. ASSUME NEW r \in filtered, BarOf(r.at) >= from, r.at >= S
          PROVE  /\ r \in D /\ r \in Sliced(filtered)
                 /\ {q \in D : BarOf(q.at) = BarOf(r.at)}
                      = {q \in Sliced(filtered) : BarOf(q.at) = BarOf(r.at)}
      <4>1. \A q \in filtered : BarOf(q.at) = BarOf(r.at) => q.at >= from /\ q.at >= S
        <5>1. BarOf(r.at) >= S
          BY <2>7, <3>3
        <5>2. ASSUME NEW q \in filtered, BarOf(q.at) = BarOf(r.at) PROVE q.at >= from /\ q.at >= S
          <6>1. q.at >= S
            BY <2>7, <5>1, <5>2
          <6>2. q.at \in Nat /\ BarOf(q.at) \in Nat /\ BarOf(q.at) <= q.at
            BY <2>1
          <6> QED BY <1>1, <3>3, <5>2, <6>1, <6>2
        <5> QED BY <5>2
      <4> QED BY <2>8, <4>1 DEF Sliced
    (* Before it, the input has the rows the existing bar has. *)
    <3>4. ASSUME NEW r \in filtered \cup Aggregated, BarOf(r.at) >= from, r.at < S
          PROVE  /\ r \in Aggregated /\ r \in Sliced(filtered)
                 /\ {q \in Aggregated : BarOf(q.at) = BarOf(r.at)}
                      = {q \in Sliced(filtered) : BarOf(q.at) = BarOf(r.at)}
      <4>1. \A q \in filtered \cup Aggregated :
              BarOf(q.at) = BarOf(r.at) =>
                q \in filtered /\ q \in Aggregated /\ q.at >= from
        <5>1. ASSUME NEW q \in filtered \cup Aggregated, BarOf(q.at) = BarOf(r.at)
              PROVE  q \in filtered /\ q \in Aggregated /\ q.at >= from
          <6>1. /\ q.at \in Nat /\ BarOf(q.at) \in Nat /\ BarOf(q.at) <= q.at
                /\ r.at \in Nat /\ BarOf(r.at) \in Nat /\ BarOf(r.at) <= r.at
            BY <2>1
          <6>2. q.at < S
            BY <2>6, <2>7, <3>4, <5>1, <6>1
          <6> QED BY <1>1, <2>9, <3>4, <5>1, <6>1, <6>2
        <5> QED BY <5>1
      <4> QED BY <4>1 DEF Sliced
    <3>5. ASSUME x \in Resampled PROVE x \in FullResampled
      <4>1. CASE x \in existing /\ x.at < S
        <5>1. PICK r \in Aggregated : x = [at |-> BarOf(r.at),
                value |-> {q \in Aggregated : BarOf(q.at) = BarOf(r.at)}]
          BY <1>1, <4>1, BarsOfRows DEF Sliced
        <5>2. BarOf(r.at) >= from /\ r.at < S
          <6>1. BarOf(r.at) = x.at /\ r.at \in Nat
            BY <2>1, <5>1
          <6> QED BY <2>1, <2>6, <2>7, <3>1, <3>5, <4>1, <6>1
        <5>3. x \in ResampleBars(Sliced(filtered))
          BY <3>4, <5>1, <5>2, BarsOfRows
        <5> QED BY <3>1, <3>2, <3>5, <5>3
      <4>2. CASE x \in ResampleBars(D)
        <5>1. PICK r \in D : x = [at |-> BarOf(r.at), value |-> {q \in D : BarOf(q.at) = BarOf(r.at)}]
          BY <4>2, BarsOfRows
        <5>2. r \in filtered /\ BarOf(r.at) >= from /\ r.at >= S
          <6>1. BarOf(r.at) = x.at
            BY <5>1
          <6> QED BY <2>8, <3>1, <3>5, <6>1
        <5>3. x \in ResampleBars(Sliced(filtered))
          BY <3>3, <5>1, <5>2, BarsOfRows
        <5> QED BY <3>1, <3>2, <3>5, <5>3
      <4> QED BY <3>1, <3>5, <4>1, <4>2
    <3>6. ASSUME x \in FullResampled PROVE x \in Resampled
      <4>1. PICK r \in Sliced(filtered) : x = [at |-> BarOf(r.at),
              value |-> {q \in Sliced(filtered) : BarOf(q.at) = BarOf(r.at)}]
        BY <3>2, <3>6, BarsOfRows
      <4>2. r \in filtered /\ x.at = BarOf(r.at) /\ BarOf(r.at) >= from /\ r.at \in Nat
        BY <2>1, <3>2, <3>6, <4>1 DEF Sliced
      <4>3. CASE r.at >= S
        <5>1. x \in ResampleBars(D)
          BY <3>3, <4>1, <4>2, <4>3, BarsOfRows
        <5> QED BY <3>1, <3>2, <3>6, <5>1
      <4>4. CASE r.at < S
        <5>1. x \in resampled
          BY <1>1, <3>4, <4>1, <4>2, <4>4, BarsOfRows
        <5>2. x.at < S
          BY <2>1, <2>6, <4>2, <4>4
        <5>3. x \in existing
          BY <4>2, <5>1 DEF Sliced
        <5> QED BY <3>1, <3>2, <3>6, <5>2, <5>3
      <4> QED BY <2>6, <4>2, <4>3, <4>4
    <3> QED BY <3>5, <3>6
  <2> QED BY <2>10
<1> QED BY <1>2, <1>3

(* A run of the filter, incremental or over the whole file, leaves what the *)
(* whole file gives.                                                        *)
LEMMA FilterRuns ==
  ASSUME FilesFollow, FilesTyped', filtered' = FilterRegularSession(source),
         changedFiltered' = Min({changedFiltered, changedSource}), changedSource' = Unchanged,
         UNCHANGED <<source, minute, from, resampled, corrections>>
  PROVE  FilesFollow'
<1>1. /\ changedFiltered \in Nat /\ changedSource \in Nat /\ from \in Nat
      /\ source \subseteq Rows /\ \A r \in Rows : r.at \in Nat
      /\ \A r \in source : r.at < minute
  BY RowsTyped, DerivationConstants DEF FilesFollow, FilesTyped
<1>2. /\ changedFiltered' \in 0 .. MaxMinute
      /\ changedFiltered' <= changedFiltered /\ changedFiltered' <= changedSource
  BY <1>1, MinOfTwo DEF FilesFollow, FilesTyped
<1>3. Aggregated' = Aggregated /\ ResampleBars(Aggregated)' = ResampleBars(Aggregated)
  BY DEF Aggregated, ResampleBars
<1>4. FilterRegularSession(source)' = FilterRegularSession(source)
  BY DEF FilterRegularSession
<1>5. (resampled = ResampleBars(Aggregated))'
  BY <1>3 DEF FilesFollow
<1>6. FilterFollows'
  BY <1>3, <1>4 DEF FilterFollows
<1>7. ASSUME NEW r \in Aggregated \cup FilterRegularSession(source)
      PROVE  \/ BarOf(r.at) < from
             \/ r \in Aggregated /\ r \in FilterRegularSession(source)
             \/ Told(r.at, changedFiltered')
             \/ \A x \in Aggregated : x.at < r.at
  <2>1. r \in Rows /\ InSession(r.at) /\ r.at \in Nat
    BY <1>1 DEF FilesFollow, FilesTyped, FilterRegularSession
  <2>2. BarOf(r.at) \in Nat /\ BarOf(r.at) <= r.at
    BY <2>1, BarOfMinute
  <2>3. CASE r \in filtered \cup FilterRegularSession(source)
    <3>1. \/ r.at < from
          \/ r \in filtered /\ r \in FilterRegularSession(source)
          \/ Told(r.at, changedSource)
          \/ \A x \in filtered \cup Aggregated : x.at < r.at
      BY <2>3 DEF FilesFollow, FilterFollows
    <3>2. CASE r.at < from
      BY <1>1, <2>1, <2>2, <3>2
    <3>3. CASE r \in filtered /\ r \in FilterRegularSession(source)
      <4>1. \/ BarOf(r.at) < from
            \/ r \in Aggregated
            \/ Told(r.at, changedFiltered)
            \/ \A x \in Aggregated : x.at < r.at
        BY <3>3 DEF FilesFollow, ResampleFollows
      <4> QED BY <1>1, <1>2, <2>1, <3>3, <4>1, ToldMore DEF FilesFollow, FilesTyped
    <3>4. CASE Told(r.at, changedSource)
      BY <1>1, <1>2, <2>1, <3>4, ToldMore DEF FilesFollow, FilesTyped
    <3> QED BY <3>1, <3>2, <3>3, <3>4
  <2>4. CASE r \notin filtered \cup FilterRegularSession(source)
    <3>1. r \in Aggregated
      BY <2>4
    <3>2. \/ BarOf(r.at) < from
          \/ Told(r.at, changedFiltered)
          \/ \A x \in Aggregated : x.at < r.at
      BY <2>4, <3>1 DEF FilesFollow, ResampleFollows
    <3> QED BY <1>1, <1>2, <2>1, <3>2, ToldMore DEF FilesFollow, FilesTyped
  <2> QED BY <2>3, <2>4
<1>8. ResampleFollows'
  BY <1>3, <1>7 DEF ResampleFollows, BarOf, OpenOf
<1> QED BY <1>5, <1>6, <1>8 DEF FilesFollow

(* Whole buckets of some rows are the bars of the rows they hold.           *)
Buckets(F, K) == {b \in ResampleBars(F) : b.at \in K}
RowsOfBars(R) == UNION {b.value : b \in R}
(* The rows of some buckets are all the rows of their bars.                 *)
LEMMA WholeBuckets ==
  ASSUME NEW F, NEW K
  PROVE  /\ RowsOfBars(Buckets(F, K)) = {r \in F : BarOf(r.at) \in K}
         /\ Buckets(F, K) = ResampleBars(RowsOfBars(Buckets(F, K)))
<1> DEFINE R == Buckets(F, K)
           A == RowsOfBars(R)
<1>0. R = {b \in ResampleBars(F) : b.at \in K} /\ A = UNION {b.value : b \in R}
  BY DEF Buckets, RowsOfBars
<1> HIDE DEF A, R
<1>1. \A r \in F : BarOf(r.at) \in K =>
        [at |-> BarOf(r.at), value |-> {q \in F : BarOf(q.at) = BarOf(r.at)}] \in R
  BY <1>0, BarsOfRows
<1>2. \A b \in R : \E r \in F : /\ BarOf(r.at) \in K /\ b.at = BarOf(r.at)
                               /\ b.value = {q \in F : BarOf(q.at) = BarOf(r.at)}
                               /\ b = [at |-> BarOf(r.at), value |-> {q \in F : BarOf(q.at) = BarOf(r.at)}]
  BY <1>0, BarsOfRows
<1>3. A = {r \in F : BarOf(r.at) \in K}
  <2>1. ASSUME NEW r \in F, BarOf(r.at) \in K PROVE r \in A
    <3>1. PICK b \in R : b = [at |-> BarOf(r.at), value |-> {q \in F : BarOf(q.at) = BarOf(r.at)}]
      BY <1>1, <2>1
    <3>2. r \in b.value
      BY <3>1
    <3> QED BY <1>0, <3>2
  <2>2. ASSUME NEW r \in A PROVE r \in F /\ BarOf(r.at) \in K
    <3>1. PICK b \in R : r \in b.value
      BY <1>0
    <3> QED BY <1>2, <3>1
  <2> QED BY <2>1, <2>2
<1>4. \A r \in A : {q \in A : BarOf(q.at) = BarOf(r.at)} = {q \in F : BarOf(q.at) = BarOf(r.at)}
  BY <1>3
<1>5. ASSUME NEW b PROVE b \in R <=> b \in ResampleBars(A)
  <2>1. ASSUME b \in R PROVE b \in ResampleBars(A)
    <3>1. PICK r \in F : BarOf(r.at) \in K
                         /\ b = [at |-> BarOf(r.at), value |-> {q \in F : BarOf(q.at) = BarOf(r.at)}]
      BY <1>2, <2>1
    <3>2. r \in A
      BY <1>3, <3>1
    <3> QED BY <1>4, <3>1, <3>2, BarsOfRows
  <2>2. ASSUME b \in ResampleBars(A) PROVE b \in R
    <3>1. PICK r \in A : b = [at |-> BarOf(r.at), value |-> {q \in A : BarOf(q.at) = BarOf(r.at)}]
      BY <2>2, BarsOfRows
    <3>2. r \in F /\ BarOf(r.at) \in K
      BY <1>3
    <3> QED BY <1>1, <1>4, <3>1, <3>2
  <2> QED BY <2>1, <2>2
<1> QED BY <1>3, <1>5 DEF A, R

(* A run of the resampling leaves whole buckets of the filtered file.       *)
LEMMA ResampleRuns ==
  ASSUME FilesFollow, FilesTyped', changedFiltered' = Unchanged,
         UNCHANGED <<source, minute, from, filtered, changedSource, corrections>>,
         NEW F \in SUBSET filtered, NEW K,
         \A r \in filtered : BarOf(r.at) >= from => r \in F /\ BarOf(r.at) \in K,
         resampled' = {b \in ResampleBars(F) : b.at \in K}
  PROVE  FilesFollow'
<1>0. PICK R : R = resampled' /\ R = Buckets(F, K)
  BY DEF Buckets
<1>1. PICK A : A = RowsOfBars(R)
  OBVIOUS
<1>2. A = {r \in F : BarOf(r.at) \in K} /\ R = ResampleBars(A)
  BY <1>0, <1>1, WholeBuckets
<1>3. Aggregated' = A /\ A \subseteq filtered
  BY <1>0, <1>1, <1>2 DEF Aggregated, RowsOfBars
<1>4. ResampleBars(Aggregated)' = ResampleBars(A)
  BY <1>3 DEF ResampleBars, BarOf, OpenOf
<1>5. (resampled = ResampleBars(Aggregated))'
  BY <1>0, <1>2, <1>4
<1>6. FilterFollows'
  BY <1>3 DEF FilesFollow, FilterFollows, FilterRegularSession, InSession, OpenOf
<1>7. ASSUME NEW r \in filtered PROVE BarOf(r.at) < from \/ r \in A
  <2>1. /\ r.at \in Nat /\ InSession(r.at) /\ from \in Nat
    BY RowsTyped DEF FilesFollow, FilesTyped
  <2>2. BarOf(r.at) \in Nat
    BY <2>1, BarOfMinute
  <2> QED BY <1>2, <2>1, <2>2
<1>8. ResampleFollows'
  BY <1>3, <1>7 DEF ResampleFollows, BarOf, OpenOf
<1> QED BY <1>5, <1>6, <1>8 DEF FilesFollow

(* What a run of the filter writes are rows of the two files.               *)
LEMMA FilterStepTyped == FilesTyped /\ (ProcessFile \/ ProcessSource) => FilesTyped'
<1> SUFFICES ASSUME FilesTyped, ProcessFile \/ ProcessSource PROVE FilesTyped'
  OBVIOUS
<1>1. \A r \in filtered' : r \in filtered \/ (r \in source /\ InSession(r.at))
  BY DEF ProcessFile, ProcessSource, Refiltered, Retained, Due, Sliced, FilterRegularSession
<1>2. changedFiltered' = Min({changedFiltered, changedSource}) /\ changedSource' = Unchanged
      /\ UNCHANGED <<source, minute, from, resampled, unreported, corrections>>
  BY DEF ProcessFile, ProcessSource
<1>3. changedFiltered' \in 0 .. MaxMinute
  <2>1. changedFiltered \in Nat /\ changedSource \in Nat
    BY DerivationConstants DEF FilesTyped
  <2> QED BY <1>2, <2>1, MinOfTwo DEF FilesTyped
<1>4. Aggregated' = Aggregated
  BY <1>2 DEF Aggregated
<1> QED BY <1>1, <1>2, <1>3, <1>4, DerivationConstants
        DEF FilesTyped, Unchanged, InSession, OpenOf

(* The two actions that filter.                                             *)
LEMMA FilterStepKeeps == DerivationInv /\ (ProcessFile \/ ProcessSource) => DerivationInv'
<1> SUFFICES ASSUME DerivationInv, ProcessFile \/ ProcessSource PROVE DerivationInv'
  OBVIOUS
<1>1. FilesTyped' /\ (unreported => unreported')
  BY FilterStepTyped DEF DerivationInv, ProcessFile, ProcessSource
<1>2. ASSUME FilesFollow PROVE FilesFollow'
  <2>1. \A r : r \in FullFiltered <=> r \in FilterRegularSession(source)
    BY <1>2, FullFilteredRows DEF FilesFollow
  <2>2. Refiltered = FilterRegularSession(source)
    BY <1>2, <2>1, FilterIsFull
  <2> QED BY <1>1, <1>2, <2>2, FilterRuns DEF ProcessFile, ProcessSource
<1> QED BY <1>1, <1>2 DEF DerivationInv

(* What resampled bars aggregate are rows of the two files.                 *)
LEMMA ResampleStepTyped ==
  FilesTyped /\ (ProcessResampleFile \/ ProcessResampleSource) => FilesTyped'
<1> SUFFICES ASSUME FilesTyped, ProcessResampleFile \/ ProcessResampleSource PROVE FilesTyped'
  OBVIOUS
<1>1. \A b \in resampled' : b \in resampled \/ b.value \subseteq filtered
  <2>1. \A F \in SUBSET filtered : \A b \in ResampleBars(F) : b.value \subseteq filtered
    BY BarsOfRows
  <2>2. CASE ProcessResampleFile
    <3>1. PICK D \in SUBSET filtered : D = Due(filtered, Sliced(resampled), changedFiltered)
      BY DEF Due, Sliced
    <3>2. \A b \in resampled' : b \in resampled \/ b \in ResampleBars(D)
      BY <2>2, <3>1 DEF ProcessResampleFile, Resampled, Retained, Sliced
    <3> QED BY <2>1, <3>1, <3>2
  <2>3. CASE ProcessResampleSource
    BY <2>1, <2>3 DEF ProcessResampleSource
  <2> QED BY <2>2, <2>3
<1>2. Aggregated' \subseteq Aggregated \cup filtered
  BY <1>1 DEF Aggregated
<1>3. changedFiltered' = Unchanged
      /\ UNCHANGED <<source, minute, from, filtered, changedSource, unreported, corrections>>
  BY DEF ProcessResampleFile, ProcessResampleSource
<1> QED BY <1>2, <1>3, DerivationConstants DEF FilesTyped, Unchanged, InSession, OpenOf

(* The two actions that resample.                                           *)
LEMMA ResampleStepFollows ==
  FilesFollow /\ FilesTyped' /\ (ProcessResampleFile \/ ProcessResampleSource) => FilesFollow'
<1> SUFFICES ASSUME FilesFollow, FilesTyped', ProcessResampleFile \/ ProcessResampleSource
             PROVE  FilesFollow'
  OBVIOUS
<1>0. /\ \A r \in filtered : r.at \in Nat /\ InSession(r.at)
      /\ from \in Nat
  BY RowsTyped DEF FilesFollow, FilesTyped
<1>1. \A r \in filtered : BarOf(r.at) \in Nat /\ BarOf(r.at) <= r.at
  BY <1>0, BarOfMinute
<1>2. CASE ProcessResampleFile
  <2> DEFINE K == {k \in Nat : k >= from}
  <2>1. resampled' = {b \in ResampleBars(Sliced(filtered)) : b.at \in K}
    <3>1. resampled' = {b \in ResampleBars(Sliced(filtered)) : b.at >= from}
      BY <1>2, ResampleIsFull DEF ProcessResampleFile, FullResampled, Sliced
    <3>2. \A b \in ResampleBars(Sliced(filtered)) : b.at \in Nat
      <4>1. ASSUME NEW b \in ResampleBars(Sliced(filtered)) PROVE b.at \in Nat
        <5>1. \E r \in Sliced(filtered) : b.at = BarOf(r.at)
          BY BarsOfRows
        <5> QED BY <1>1, <5>1 DEF Sliced
      <4> QED BY <4>1
    <3> QED BY <3>1, <3>2
  <2>2. \A r \in filtered : BarOf(r.at) >= from => r \in Sliced(filtered) /\ BarOf(r.at) \in K
    BY <1>0, <1>1 DEF Sliced
  <2>3. Sliced(filtered) \in SUBSET filtered
    BY DEF Sliced
  <2> HIDE DEF K
  <2> QED BY <1>2, <2>1, <2>2, <2>3, ResampleRuns DEF ProcessResampleFile
<1>3. CASE ProcessResampleSource
  <2> DEFINE K == {BarOf(r.at) : r \in filtered}
  <2>1. resampled' = {b \in ResampleBars(filtered) : b.at \in K}
    <3>1. \A b \in ResampleBars(filtered) : b.at \in K
      <4>1. ASSUME NEW b \in ResampleBars(filtered) PROVE b.at \in K
        <5>1. \E r \in filtered : b.at = BarOf(r.at)
          BY BarsOfRows
        <5> QED BY <5>1
      <4> QED BY <4>1
    <3> QED BY <1>3, <3>1 DEF ProcessResampleSource
  <2>2. \A r \in filtered : BarOf(r.at) \in K
    OBVIOUS
  <2> HIDE DEF K
  <2> QED BY <1>3, <2>1, <2>2, ResampleRuns DEF ProcessResampleSource
<1> QED BY <1>2, <1>3

LEMMA ResampleStepKeeps ==
  DerivationInv /\ (ProcessResampleFile \/ ProcessResampleSource) => DerivationInv'
<1> SUFFICES ASSUME DerivationInv, ProcessResampleFile \/ ProcessResampleSource
             PROVE  DerivationInv'
  OBVIOUS
<1>1. FilesTyped' /\ (unreported => unreported')
  BY ResampleStepTyped DEF DerivationInv, ProcessResampleFile, ProcessResampleSource
<1> QED BY <1>1, ResampleStepFollows DEF DerivationInv

(* A change of the one-minute file: rows of the window that came or went    *)
(* are told of, or came after every row the derived files have.             *)
LEMMA SourceChanges ==
  ASSUME DerivationInv, UNCHANGED <<filtered, resampled, changedFiltered>>,
         minute' \in 0 .. MaxMinute, minute' >= minute, from' \in 0 .. minute', from' >= from,
         source' \subseteq Rows, changedSource' \in 0 .. MaxMinute,
         changedSource' <= changedSource, corrections' \in 0 .. MaxCorrections,
         \A r, s \in source' : r.at = s.at => r = s,
         \A r \in source' : from' <= r.at /\ r.at < minute',
         unreported' \in BOOLEAN, unreported => unreported',
         unreported' \/ \A r \in source \cup source' :
           (r \in source <=> r \in source') \/ Told(r.at, changedSource') \/ r.at < from'
           \/ (r.at >= minute /\ r \in source')
  PROVE  DerivationInv'
<1>1. /\ Aggregated' = Aggregated /\ ResampleBars(Aggregated)' = ResampleBars(Aggregated)
      /\ changedSource \in 0 .. MaxMinute /\ minute \in Nat /\ from \in Nat /\ changedSource \in Nat /\ changedSource' \in Nat
      /\ from' \in Nat /\ minute' \in Nat
      /\ \A r \in Rows : r.at \in Nat
      /\ source \subseteq Rows /\ filtered \subseteq Rows /\ Aggregated \subseteq Rows
      /\ \A r \in source \cup filtered \cup Aggregated : r.at < minute
  <2>1. Aggregated' = Aggregated /\ ResampleBars(Aggregated)' = ResampleBars(Aggregated)
    BY DEF Aggregated, ResampleBars
  <2>2. FilesTyped /\ minute \in Nat /\ from \in Nat
    BY DerivationConstants DEF DerivationInv, FilesTyped
  <2>3. changedSource \in Nat /\ changedSource' \in Nat /\ minute' \in Nat /\ from' \in Nat
    BY <2>2, DerivationConstants DEF FilesTyped
  <2> QED BY <2>1, <2>2, <2>3, RowsTyped DEF FilesTyped
<1>2. FilesTyped'
  BY <1>1 DEF DerivationInv, FilesTyped, InSession, OpenOf
<1> SUFFICES ASSUME ~unreported' PROVE FilesFollow'
  BY <1>2 DEF DerivationInv
<1> FilesFollow
  BY DEF DerivationInv
<1>3. ASSUME NEW r \in filtered \cup FilterRegularSession(source')
      PROVE  \/ r.at < from'
             \/ r \in filtered /\ r \in FilterRegularSession(source')
             \/ Told(r.at, changedSource')
             \/ \A x \in filtered \cup Aggregated : x.at < r.at
  <2>1. r \in Rows /\ r.at \in Nat
    BY <1>1 DEF FilterRegularSession
  <2>2. CASE r \in source <=> r \in source'
    <3>1. r \in FilterRegularSession(source') <=> r \in FilterRegularSession(source)
      BY <2>2 DEF FilterRegularSession
    <3>2. \/ r.at < from
          \/ r \in filtered /\ r \in FilterRegularSession(source)
          \/ Told(r.at, changedSource)
          \/ \A x \in filtered \cup Aggregated : x.at < r.at
      BY <1>3, <3>1 DEF FilesFollow, FilterFollows
    <3>3. Told(r.at, changedSource) => Told(r.at, changedSource')
      BY <1>1, <2>1, ToldMore
    <3> QED BY <1>1, <2>1, <3>1, <3>2, <3>3
  <2>3. CASE r.at >= minute
    <3>1. \A x \in filtered \cup Aggregated : x.at < r.at
      BY <1>1, <2>1, <2>3
    <3> QED BY <3>1
  <2>4. CASE ~(r \in source <=> r \in source') /\ ~(r.at >= minute)
    BY <2>4
  <2> QED BY <2>2, <2>3, <2>4
<1>4. FilterFollows'
  BY <1>1, <1>3 DEF FilterFollows, FilterRegularSession, InSession, OpenOf
<1>5. ResampleFollows'
  <2>1. \A r \in Aggregated \cup filtered : BarOf(r.at) \in Nat
    BY <1>1, BarOfMinute DEF FilesFollow, FilesTyped
  <2>2. \A r \in Aggregated \cup filtered : BarOf(r.at) < from => BarOf(r.at) < from'
    BY <1>1, <2>1
  <2> QED BY <1>1, <2>2 DEF FilesFollow, ResampleFollows, BarOf, OpenOf
<1> QED BY <1>1, <1>2, <1>4, <1>5 DEF FilesFollow

(* New minutes at the end of the source file.                               *)
LEMMA FileGrowsKeeps == DerivationInv /\ FileGrows => DerivationInv'
<1> SUFFICES ASSUME DerivationInv, FileGrows PROVE DerivationInv'
  OBVIOUS
<1>1. /\ FilesTyped /\ minute \in Nat /\ from \in Nat /\ minute < MaxMinute
      /\ \A r \in Rows : r.at \in Nat
  BY RowsTyped, DerivationConstants DEF DerivationInv, FilesTyped, FileGrows
<1>2. PICK N : /\ source' = source \cup N
               /\ N = {} \/ \E v \in RowValue : N = {[at |-> minute, value |-> v]}
  <2>1. CASE UNCHANGED source
    <3>1. source' = source \cup {}
      BY <2>1
    <3> QED BY <3>1
  <2>2. CASE \E v \in RowValue : source' = source \cup {[at |-> minute, value |-> v]}
    BY <2>2
  <2> QED BY <2>1, <2>2 DEF FileGrows
<1>3. \A r \in N : r.at = minute /\ r \in Rows
  BY <1>1, <1>2, RowsTyped, DerivationConstants
<1>4. \A r, s \in N : r = s
  BY <1>2
<1>5. \A r \in source : r.at < minute /\ from <= r.at /\ r.at \in Nat
  BY <1>1 DEF FilesTyped
<1>6. source' \subseteq Rows
  BY <1>1, <1>2, <1>3 DEF FilesTyped
<1>7. \A r, s \in source' : r.at = s.at => r = s
  BY <1>1, <1>2, <1>3, <1>4, <1>5 DEF FilesTyped
<1>8. minute' = minute + 1 /\ UNCHANGED <<from, filtered, resampled, changedSource, changedFiltered,
                                           unreported, corrections>>
  BY DEF FileGrows
<1>9. \A r \in source' : from' <= r.at /\ r.at < minute'
  BY <1>1, <1>2, <1>3, <1>5, <1>8 DEF FilesTyped
<1>10. \A r \in source \cup source' : (r \in source <=> r \in source') \/ (r.at >= minute /\ r \in source')
  BY <1>1, <1>2, <1>3
<1>11. /\ minute' \in 0 .. MaxMinute /\ minute' >= minute /\ from' \in 0 .. minute' /\ from' >= from
       /\ changedSource' \in 0 .. MaxMinute /\ changedSource' <= changedSource
       /\ corrections' \in 0 .. MaxCorrections /\ unreported' = unreported /\ unreported \in BOOLEAN
  BY <1>1, <1>8, DerivationConstants DEF FilesTyped
<1> QED BY <1>6, <1>7, <1>8, <1>9, <1>10, <1>11, SourceChanges

(* A correction of a minute the file already has.                           *)
LEMMA CorrectedKeeps == DerivationInv /\ Corrected => DerivationInv'
<1> SUFFICES ASSUME DerivationInv, Corrected PROVE DerivationInv'
  OBVIOUS
<1>1. /\ FilesTyped /\ minute \in Nat /\ from \in Nat /\ changedSource \in Nat
      /\ \A r \in Rows : r.at \in Nat
  BY RowsTyped DEF DerivationInv, FilesTyped
<1>2. PICK r \in source, v \in RowValue :
        /\ source' = (source \ {r}) \cup {[r EXCEPT !.value = v]}
        /\ changedSource' = Min({changedSource, r.at})
  BY DEF Corrected
<1>3. PICK n : n = [r EXCEPT !.value = v]
  OBVIOUS
<1>4. r \in Rows /\ n \in Rows /\ n.at = r.at
  BY <1>1, <1>2, <1>3 DEF FilesTyped, Rows
<1>5. r.at \in Nat /\ r.at < minute /\ from <= r.at /\ minute <= MaxMinute
  BY <1>1, <1>2, <1>4 DEF FilesTyped
<1>6. /\ changedSource' \in {changedSource, r.at} /\ changedSource' <= changedSource
      /\ changedSource' <= r.at
  BY <1>1, <1>2, <1>5, MinOfTwo
<1>7. /\ changedSource' \in 0 .. MaxMinute
  BY <1>1, <1>5, <1>6, DerivationConstants DEF FilesTyped
<1>8. UNCHANGED <<minute, from, filtered, resampled, changedFiltered, unreported>>
      /\ corrections' \in 0 .. MaxCorrections /\ unreported \in BOOLEAN
  BY <1>1, DerivationConstants DEF Corrected, FilesTyped
<1>9. source' = (source \ {r}) \cup {n}
  BY <1>2, <1>3
<1>10. /\ source' \subseteq Rows
       /\ \A a, b \in source' : a.at = b.at => a = b
       /\ \A a \in source' : from' <= a.at /\ a.at < minute'
  BY <1>1, <1>2, <1>4, <1>5, <1>8, <1>9 DEF FilesTyped
<1>11. \A a \in source \cup source' : (a \in source <=> a \in source') \/ Told(a.at, changedSource')
  BY <1>4, <1>5, <1>6, <1>9 DEF Told
<1>12. minute' \in 0 .. MaxMinute /\ minute' >= minute /\ from' \in 0 .. minute' /\ from' >= from
  BY <1>1, <1>8 DEF FilesTyped
<1> QED BY <1>6, <1>7, <1>8, <1>10, <1>11, <1>12, SourceChanges

(* The window moves on: the oldest rows leave the source file.              *)
LEMMA WindowMovesKeeps == DerivationInv /\ WindowMoves => DerivationInv'
<1> SUFFICES ASSUME DerivationInv, WindowMoves PROVE DerivationInv'
  OBVIOUS
<1>1. /\ FilesTyped /\ minute \in Nat /\ from \in Nat /\ changedSource \in Nat
      /\ \A r \in Rows : r.at \in Nat
  BY RowsTyped DEF DerivationInv, FilesTyped
<1>2. /\ from' = from + 1 /\ from < minute /\ source' = {r \in source : r.at >= from'}
      /\ UNCHANGED <<minute, filtered, resampled, changedSource, changedFiltered, unreported,
                     corrections>>
  BY DEF WindowMoves
<1>3. /\ source' \subseteq Rows
      /\ \A a, b \in source' : a.at = b.at => a = b
      /\ \A a \in source' : from' <= a.at /\ a.at < minute'
  BY <1>1, <1>2 DEF FilesTyped
<1>4. \A a \in source \cup source' : (a \in source <=> a \in source') \/ a.at < from'
  BY <1>1, <1>2 DEF FilesTyped
<1>5. /\ minute' \in 0 .. MaxMinute /\ minute' >= minute /\ from' \in 0 .. minute' /\ from' >= from
      /\ changedSource' \in 0 .. MaxMinute /\ changedSource' <= changedSource
      /\ corrections' \in 0 .. MaxCorrections /\ unreported' = unreported /\ unreported \in BOOLEAN
  BY <1>1, <1>2 DEF FilesTyped
<1> QED BY <1>2, <1>3, <1>4, <1>5, SourceChanges

(* The minutes of the file lie in its window, and so do the missing ones.   *)
LEMMA MissingTyped ==
  ASSUME FilesTyped, source # {}, NEW t \in MissingMinutes
  PROVE  t \in from .. minute - 1 /\ t \in Nat /\ InSession(t) /\ t \notin Times(source)
<1> DEFINE T == Times(source)
<1>1. /\ T \subseteq from .. minute - 1 /\ T # {}
      /\ minute \in 0 .. MaxMinute /\ from \in 0 .. minute
  BY RowsTyped DEF Times, FilesTyped
<1>2. T \in SUBSET Nat /\ T \in SUBSET (0 .. MaxMinute) /\ MaxMinute \in Nat
  BY <1>1, DerivationConstants
<1>3. Min(T) \in T /\ Max(T) \in T
  BY <1>1, <1>2, MinNamesLeast, MaxNamesGreatest
<1>4. t \in Min(T) .. Max(T) /\ InSession(t) /\ t \notin T
  BY DEF MissingMinutes
<1> QED BY <1>1, <1>2, <1>3, <1>4

(* The minutes of a repair's windows: in a session, the missing ones since  *)
(* its start among them, and no minute twice.                               *)
LEMMA RepairIsWhole ==
  ASSUME FilesTyped, source # {}, NEW start \in from .. minute - 1
  PROVE  /\ {t \in MissingMinutes : t >= start} \subseteq UNION RepairWindows(start)
         /\ \A w \in RepairWindows(start) : \A t \in w : t >= start /\ InSession(t)
         /\ \A v, w \in RepairWindows(start) : v # w => v \cap w = {}
<1> DEFINE due == {t \in MissingMinutes : t >= start}
           Of(o) == {t \in due : OpenOf(t) = o}
           opens == {OpenOf(t) : t \in due}
<1>1. /\ minute \in 0 .. MaxMinute /\ from \in 0 .. minute /\ start \in Nat /\ MaxMinute \in Nat
  BY DerivationConstants DEF FilesTyped
<1>2. \A t \in due : t \in Nat /\ t <= MaxMinute /\ InSession(t) /\ t >= start
  BY <1>1, MissingTyped
<1>3. RepairWindows(start) = {Min(Of(o)) .. Max(Of(o)) : o \in opens}
  BY DEF RepairWindows
<1>4. ASSUME NEW o \in opens
      PROVE  /\ Of(o) \in SUBSET (0 .. MaxMinute)
             /\ Min(Of(o)) \in Of(o) /\ Max(Of(o)) \in Of(o)
             /\ \A t \in Of(o) : Min(Of(o)) <= t /\ t <= Max(Of(o))
  <2>1. Of(o) \in SUBSET Nat /\ Of(o) \in SUBSET (0 .. MaxMinute) /\ Of(o) # {}
    BY <1>2
  <2> HIDE DEF Of
  <2> QED BY <1>1, <2>1, MinNamesLeast, MaxNamesGreatest
(* A window lies within one session. *)
<1>5. ASSUME NEW o \in opens, NEW t \in Min(Of(o)) .. Max(Of(o))
      PROVE  t >= start /\ InSession(t) /\ OpenOf(t) = o
  <2>1. PICK a \in Of(o), b \in Of(o) : a = Min(Of(o)) /\ b = Max(Of(o))
    BY <1>4
  <2>2. /\ a \in Nat /\ b \in Nat /\ a >= start /\ InSession(a) /\ InSession(b)
        /\ OpenOf(a) = o /\ OpenOf(b) = o
    BY <1>2
  <2>3. t \in Nat /\ a <= t /\ t <= b
    BY <2>1, <2>2
  <2>4. o \in Nat /\ OpenOf(t) \in Nat /\ o <= OpenOf(t) /\ OpenOf(t) <= o
    BY <2>2, <2>3, OpeningsOrdered
  <2>5. OpenOf(t) = o
    BY <2>4
  <2>6. o <= a /\ b < o - OpenMinute + CloseMinute
    BY <2>2 DEF InSession
  <2> QED BY <1>1, <2>2, <2>3, <2>4, <2>5, <2>6, DerivationConstants DEF InSession
<1>6. ASSUME NEW t \in due PROVE t \in UNION RepairWindows(start)
  <2>1. OpenOf(t) \in opens /\ t \in Of(OpenOf(t))
    OBVIOUS
  <2>2. PICK o \in opens : o = OpenOf(t) /\ t \in Of(o)
    BY <2>1
  <2>3. /\ Min(Of(o)) \in Nat /\ Max(Of(o)) \in Nat /\ t \in Nat
        /\ Min(Of(o)) <= t /\ t <= Max(Of(o))
    BY <1>2, <1>4, <2>2
  <2>4. t \in Min(Of(o)) .. Max(Of(o))
    BY <2>3
  <2> HIDE DEF opens, Of
  <2> QED BY <1>3, <2>4
<1>7. ASSUME NEW w \in RepairWindows(start), NEW t \in w PROVE t >= start /\ InSession(t)
  <2>1. PICK o \in opens : w = Min(Of(o)) .. Max(Of(o))
    BY <1>3
  <2> HIDE DEF opens, Of
  <2> QED BY <1>5, <2>1
<1>8. ASSUME NEW v \in RepairWindows(start), NEW w \in RepairWindows(start), v # w
      PROVE  v \cap w = {}
  <2>1. PICK o \in opens : v = Min(Of(o)) .. Max(Of(o))
    BY <1>3
  <2>2. PICK p \in opens : w = Min(Of(p)) .. Max(Of(p))
    BY <1>3
  <2> HIDE DEF opens, Of
  <2>3. ASSUME NEW t, t \in v, t \in w PROVE FALSE
    <3>1. OpenOf(t) = o /\ OpenOf(t) = p
      BY <1>5, <2>1, <2>2, <2>3
    <3> QED BY <1>8, <2>1, <2>2, <3>1
  <2> QED BY <2>3
<1> HIDE DEF due
<1>9. due \subseteq UNION RepairWindows(start)
  BY <1>6
<1> QED BY <1>7, <1>8, <1>9 DEF due

(* What a repair asks for lies in the file, and a row is missing there if   *)
(* the file has none.                                                       *)
LEMMA WindowsInFile ==
  ASSUME FilesTyped, source # {}, NEW start \in from .. minute - 1,
         NEW t \in UNION RepairWindows(start)
  PROVE  t \in from .. minute - 1 /\ (t \notin Times(source) => t \in MissingMinutes)
<1> DEFINE due == {x \in MissingMinutes : x >= start}
           Of(o) == {x \in due : OpenOf(x) = o}
           T == Times(source)
<1>1. /\ T \subseteq from .. minute - 1 /\ T # {} /\ MaxMinute \in Nat
      /\ minute \in 0 .. MaxMinute /\ from \in 0 .. minute
  BY RowsTyped, DerivationConstants DEF Times, FilesTyped
<1>2. T \in SUBSET Nat /\ T \in SUBSET (0 .. MaxMinute)
  BY <1>1
<1>3. Min(T) \in T /\ Max(T) \in T
  BY <1>1, <1>2, MinNamesLeast, MaxNamesGreatest
<1>4. PICK w \in RepairWindows(start) : t \in w
  OBVIOUS
<1>5. InSession(t)
  BY <1>4, RepairIsWhole
<1>6. PICK o \in {OpenOf(x) : x \in due} : w = Min(Of(o)) .. Max(Of(o))
  BY <1>4 DEF RepairWindows
<1>7. \A x \in due : x \in Min(T) .. Max(T) /\ x \in Nat /\ x <= MaxMinute
  BY <1>1, <1>3 DEF MissingMinutes
<1>8. Of(o) \in SUBSET Nat /\ Of(o) \in SUBSET (0 .. MaxMinute) /\ Of(o) # {}
  BY <1>6, <1>7
<1>9. Min(Of(o)) \in Of(o) /\ Max(Of(o)) \in Of(o)
  <2> HIDE DEF Of
  <2> QED BY <1>1, <1>8, MinNamesLeast, MaxNamesGreatest
<1>10. t \in Min(T) .. Max(T)
  <2>1. PICK a \in due, b \in due : a = Min(Of(o)) /\ b = Max(Of(o))
    BY <1>9
  <2> HIDE DEF due, Of
  <2> QED BY <1>1, <1>3, <1>4, <1>6, <1>7, <2>1
<1> QED BY <1>1, <1>3, <1>5, <1>10 DEF MissingMinutes

(* A repair's answer lies in the windows, and takes the place of the rows   *)
(* it has; what it leaves untold is noted.                                  *)
LEMMA RepairKeeps == DerivationInv /\ RepairSymbolFile => DerivationInv'
<1> SUFFICES ASSUME DerivationInv, RepairSymbolFile PROVE DerivationInv'
  OBVIOUS
<1>1. /\ FilesTyped /\ minute \in Nat /\ from \in Nat /\ changedSource \in Nat /\ source # {}
      /\ \A r \in Rows : r.at \in Nat
      /\ UNCHANGED <<minute, from, filtered, resampled, changedFiltered>>
      /\ corrections' \in 0 .. MaxCorrections /\ MaxMinute \in Nat /\ minute <= MaxMinute
  BY RowsTyped, DerivationConstants DEF DerivationInv, FilesTyped, RepairSymbolFile
<1>2. PICK start \in from .. minute - 1 :
        \E fetched \in SUBSET UNION RepairWindows(start) :
        \E answer \in [fetched -> RowValue] :
          /\ source' = Repaired(answer)
          /\ changedSource' = Earliest(Added(answer) \cup {changedSource})
          /\ Added(answer) # {}
          /\ unreported' = (unreported \/ \E r \in source \ Repaired(answer) :
                                            r.at < OpenOf(Earliest(Added(answer) \cup {changedSource})))
  BY Zenon DEF RepairSymbolFile
<1>3. PICK fetched \in SUBSET UNION RepairWindows(start) :
        \E answer \in [fetched -> RowValue] :
          /\ source' = Repaired(answer)
          /\ changedSource' = Earliest(Added(answer) \cup {changedSource})
          /\ Added(answer) # {}
          /\ unreported' = (unreported \/ \E r \in source \ Repaired(answer) :
                                            r.at < OpenOf(Earliest(Added(answer) \cup {changedSource})))
  BY <1>2
<1>4. PICK answer \in [fetched -> RowValue] :
        /\ source' = Repaired(answer)
        /\ changedSource' = Earliest(Added(answer) \cup {changedSource})
        /\ Added(answer) # {}
        /\ unreported' = (unreported \/ \E r \in source \ Repaired(answer) :
                                          r.at < OpenOf(Earliest(Added(answer) \cup {changedSource})))
  BY <1>3
<1>5. DOMAIN answer = fetched /\ Added(answer) = fetched \cap MissingMinutes
  BY DEF Added
<1>6. \A t \in fetched : t \in from .. minute - 1
  BY <1>1, WindowsInFile
<1>7. \A t \in Added(answer) : t \in from .. minute - 1 /\ t \in Nat /\ t \notin Times(source)
  BY <1>1, <1>5, MissingTyped
<1>8. PICK E : E = (Added(answer) \cup {changedSource}) \cup {Unchanged}
  OBVIOUS
<1>9. E \in SUBSET (0 .. MaxMinute) /\ E \in SUBSET Nat /\ E # {}
  BY <1>1, <1>7, <1>8 DEF Unchanged, FilesTyped
<1>10. changedSource' \in E /\ \A e \in E : changedSource' <= e
  BY <1>4, <1>8, <1>9, MinNamesLeast DEF Earliest
<1>11. PICK N : N = {[at |-> t, value |-> answer[t]] : t \in fetched}
  OBVIOUS
<1>12. \A n \in N : n \in Rows /\ n.at \in fetched
  <2>1. \A t \in fetched : t \in 0 .. MaxMinute - 1 /\ answer[t] \in RowValue
    BY <1>1, <1>6
  <2> QED BY <1>11, <2>1, RowsTyped
<1>13. \A m, n \in N : m.at = n.at => m = n
  BY <1>11
<1>14. source' = {r \in source : r.at \notin fetched} \cup N
  BY <1>4, <1>5, <1>11 DEF Repaired
<1>15. /\ source' \subseteq Rows
       /\ \A a, b \in source' : a.at = b.at => a = b
  BY <1>1, <1>12, <1>13, <1>14 DEF FilesTyped
<1>16. \A a \in source' : from' <= a.at /\ a.at < minute'
  BY <1>1, <1>6, <1>12, <1>14 DEF FilesTyped
<1>17. unreported' \in BOOLEAN /\ (unreported => unreported')
  BY <1>1, <1>4 DEF FilesTyped
<1>18. changedSource' # Unchanged /\ changedSource' \in Nat
  <2>1. PICK t \in Added(answer) : TRUE
    BY <1>4
  <2>2. t \in Nat /\ t < MaxMinute
    BY <1>1, <1>7, <2>1
  <2>3. changedSource' \in Nat /\ changedSource' <= t
    BY <1>8, <1>9, <1>10, <2>1
  <2> QED BY <1>1, <2>2, <2>3 DEF Unchanged
(* A row that is replaced without a word of it is noted. *)
<1>19. ASSUME ~unreported', NEW a \in source, a \notin source'
       PROVE  Told(a.at, changedSource')
  <2>1. a \in Rows /\ a.at \in Nat /\ OpenOf(changedSource') \in Nat
    BY <1>1, <1>18, <1>19, OpeningsOrdered DEF FilesTyped
  <2>2. ~(a.at < OpenOf(changedSource'))
    BY <1>4, <1>19
  <2>3. OpenOf(changedSource') <= a.at
    BY <2>1, <2>2
  <2> QED BY <1>18, <2>3 DEF Told
<1>20. ASSUME ~unreported', NEW a \in source', a \notin source
       PROVE  Told(a.at, changedSource')
  <2>1. a \in N /\ a.at \in fetched /\ a.at \in Nat
    BY <1>1, <1>12, <1>14, <1>20
  <2>2. CASE \E r \in source : r.at = a.at
    <3>1. PICK r \in source : r.at = a.at
      BY <2>2
    <3>2. r \notin source'
      BY <1>15, <1>20, <3>1
    <3> QED BY <1>19, <1>20, <3>1, <3>2
  <2>3. CASE ~\E r \in source : r.at = a.at
    <3>1. a.at \in MissingMinutes
      <4>1. a.at \in UNION RepairWindows(start)
        BY <2>1
      <4> QED BY <1>1, <2>3, <4>1, WindowsInFile DEF Times
    <3> QED BY <1>5, <1>8, <1>10, <2>1, <3>1 DEF Told
  <2> QED BY <2>2, <2>3
<1>21. unreported' \/ \A a \in source \cup source' :
         (a \in source <=> a \in source') \/ Told(a.at, changedSource')
  BY <1>19, <1>20
<1>22. /\ minute' \in 0 .. MaxMinute /\ minute' >= minute /\ from' \in 0 .. minute' /\ from' >= from
       /\ changedSource' \in 0 .. MaxMinute /\ changedSource' <= changedSource
  BY <1>1, <1>8, <1>9, <1>10 DEF FilesTyped
<1> QED BY <1>1, <1>15, <1>16, <1>17, <1>21, <1>22, SourceChanges

(* Every step of the derivations keeps the invariant.                       *)
LEMMA DerivationStepKeeps == DerivationInv /\ [DerivationNext]_derivationVars => DerivationInv'
<1> SUFFICES ASSUME DerivationInv, [DerivationNext]_derivationVars PROVE DerivationInv'
  OBVIOUS
<1>1. CASE UNCHANGED derivationVars
  BY <1>1 DEF derivationVars, DerivationInv, FilesFollow, FilesTyped, FilterFollows, ResampleFollows,
              Aggregated, ResampleBars, FilterRegularSession, BarOf, InSession, OpenOf
<1> QED BY <1>1, FileGrowsKeeps, CorrectedKeeps, WindowMovesKeeps, RepairKeeps, FilterStepKeeps,
          ResampleStepKeeps DEF DerivationNext

(* The invariant gives the types and what the files are.                    *)
LEMMA DerivationInvSound == DerivationInv => DerivationTypeOK /\ DerivationSound
<1> SUFFICES ASSUME DerivationInv PROVE DerivationTypeOK /\ DerivationSound
  OBVIOUS
<1>1. FilesTyped
  BY DEF DerivationInv
<1>2. DerivationTypeOK
  BY <1>1, DerivationConstants DEF DerivationTypeOK, FilesTyped, Aggregated
<1>3. RepairCovers
  BY <1>1, RepairIsWhole DEF RepairCovers
<1> QED BY <1>2, <1>3, FilterIsFull, ResampleIsFull
        DEF DerivationInv, DerivationSound, DerivedIsFull, AlwaysFull

(* A run of either derivation leaves the file a run from nothing would      *)
(* write, whatever was appended, corrected, repaired or dropped since, for  *)
(* any calendar and length of bars, until a repair replaces a row of an     *)
(* earlier session than it reports; a repair asks for every missing minute  *)
(* once, never outside a session (resample_sip_5min.py, quality_control.py).*)
THEOREM DerivationIsSound == DerivationSpec => []DerivationSound
<1> QED BY DerivationInitGood, DerivationStepKeeps, DerivationInvSound, PTL DEF DerivationSpec

-----------------------------------------------------------------------------
(* The legacy collection: the checkpoint and the adjusted files             *)

CollectionRecord ==
  [phase : {"idle", "checking", "fetching", "saving", "validating"}, attempt : Nat,
   target : Nat, from : Nat, at : Nat, known : Nat, got : [LegacySession -> Nat], todo : Nat]

CollectionTyped ==
  /\ now \in LegacySession /\ {listed, torn} \subseteq BOOLEAN
  /\ traded \subseteq 1 .. now /\ exdates \subseteq 1 .. now
  /\ outputs \in [Interval -> [LegacySession -> Nat]]
  /\ checkpoint \in [status : {"none", "success", "failed"}, target : Nat, inactive : BOOLEAN]
  /\ checkpoint.target <= now
  /\ inactive \in [last : 0 .. MaxSession, checked : Nat]
  /\ collecting \in CollectionRecord
  /\ report \in {"none", "running", "success", "failed"} /\ failures \in Nat
  /\ collecting.target <= now
  /\ ~Doing("idle") => collecting.target >= 1 /\ checkpoint.target <= collecting.target

(* Whether the checkpoint vouches for the files.                            *)
Vouched == checkpoint.status = "success" /\ ~checkpoint.inactive

(* The rows of a file are adjusted as of one moment, none later than it.    *)
AdjustedAt(f, n) == \A s \in LegacySession : f[s] # 0 => s <= n /\ f[s] = PriceSeen(s, n)

(* A file has what was traded up to any row it has, and up to the session   *)
(* the checkpoint vouches for; unless a fetch was torn, one moment explains *)
(* its prices.                                                              *)
FilesCurrent ==
  \A i \in Interval :
    /\ \A s \in LegacySession : outputs[i][s] # 0 => s \in traded
    /\ \A s \in traded, r \in LegacySession :
         outputs[i][r] # 0 /\ WindowStart(now) <= s /\ s <= r => outputs[i][s] # 0
    /\ Vouched => \A s \in traded :
         WindowStart(now) <= s /\ s <= checkpoint.target => outputs[i][s] # 0
    /\ ~torn => \E n \in 0 .. now :
         AdjustedAt(outputs[i], n) /\ (Vouched => n >= checkpoint.target)

(* The fetched range is as of the moment m, and the files it was compared   *)
(* with agree where it does not reach.                                      *)
FetchedAt(m) ==
  /\ collecting.known = Cardinality({e \in exdates : e <= m})
  /\ \A s \in LegacySession : collecting.got[s] # 0 => collecting.got[s] = PriceSeen(s, m)
  /\ Doing("saving") =>
       \A i \in Interval, s \in LegacySession : outputs[i][s] # 0 =>
         IF i < collecting.todo THEN s <= m /\ outputs[i][s] = PriceSeen(s, m)
         ELSE WindowStart(collecting.target) <= s /\ s < collecting.from
                => outputs[i][s] = PriceSeen(s, m)

FetchCurrent ==
  Doing("fetching") \/ Doing("saving") =>
    /\ collecting.from \in WindowStart(collecting.target) .. collecting.target
    /\ collecting.at \in collecting.from .. collecting.target + 1
    /\ \A s \in LegacySession :
         collecting.got[s] # 0 <=> s \in traded /\ collecting.from <= s /\ s < collecting.at
    /\ \A i \in Interval : (Doing("saving") => i >= collecting.todo) =>
         \/ collecting.from = WindowStart(collecting.target)
         \/ \E s \in LegacySession :
              outputs[i][s] # 0 /\ collecting.from <= s /\ s <= collecting.target
    /\ ~torn /\ collecting.at > collecting.from =>
         \E m \in collecting.target .. now : FetchedAt(m)
    /\ Doing("saving") =>
         /\ collecting.at = collecting.target + 1
         /\ collecting.todo \in 1 .. Len(OutputIntervals) + 1
         /\ \A i \in Interval, s \in traded :
              i < collecting.todo /\ WindowStart(now) <= s /\ s <= collecting.target
                => outputs[i][s] # 0

LegacyInv == CollectionTyped /\ FilesCurrent /\ FetchCurrent

(* What the windows and the intervals are measured in.                      *)
LEMMA LegacyConstants ==
  /\ WindowSessions \in Nat \ {0} /\ RefreshSessions \in Nat \ {0} /\ ChunkSessions \in Nat \ {0}
  /\ MaxSession \in Nat \ {0} /\ MaxSymbolAttempts \in Nat \ {0}
  /\ LegacySession = 1 .. MaxSession /\ LegacySession \subseteq Nat
  /\ Len(OutputIntervals) \in Nat \ {0} /\ Interval = 1 .. Len(OutputIntervals)
BY LegacyAssumption DEF LegacySession, Interval

(* The smaller and the larger of two integers.                              *)
LEMMA MinMaxOfInts ==
  ASSUME NEW a \in Int, NEW b \in Int
  PROVE  /\ Min({a, b}) = IF a <= b THEN a ELSE b
         /\ Max({a, b}) = IF a <= b THEN b ELSE a
<1>1. \E x \in {a, b} : \A y \in {a, b} : x <= y
  OBVIOUS
<1>2. \E x \in {a, b} : \A y \in {a, b} : x >= y
  OBVIOUS
<1>3. Min({a, b}) \in {a, b} /\ \A y \in {a, b} : Min({a, b}) <= y
  BY <1>1 DEF Min
<1>4. Max({a, b}) \in {a, b} /\ \A y \in {a, b} : Max({a, b}) >= y
  BY <1>2 DEF Max
<1> QED BY <1>3, <1>4

(* The window moves with its last session.                                  *)
LEMMA WindowMovesOn ==
  ASSUME NEW t \in Nat, NEW u \in Nat, t <= u
  PROVE  /\ WindowStart(t) \in Nat \ {0} /\ WindowStart(t) <= WindowStart(u)
         /\ t >= 1 => WindowStart(t) <= t
<1>1. t - WindowSessions + 1 \in Int /\ u - WindowSessions + 1 \in Int
  BY LegacyConstants
<1>2. \A k \in Int : Max({1, k}) = IF 1 <= k THEN k ELSE 1
  BY MinMaxOfInts
<1>3. /\ WindowStart(t) = IF 1 <= t - WindowSessions + 1 THEN t - WindowSessions + 1 ELSE 1
      /\ WindowStart(u) = IF 1 <= u - WindowSessions + 1 THEN u - WindowSessions + 1 ELSE 1
  BY <1>1, <1>2 DEF WindowStart
<1> QED BY <1>3, LegacyConstants

(* A window starts at a session, no later than it ends.                     *)
LEMMA WindowThere ==
  ASSUME NEW t \in Nat
  PROVE  /\ WindowStart(t) \in Nat \ {0}
         /\ t >= 1 => WindowStart(t) <= t /\ WindowStart(t) \in WindowStart(t) .. t
<1>1. t <= t
  OBVIOUS
<1>2. WindowStart(t) \in Nat \ {0} /\ (t >= 1 => WindowStart(t) <= t)
  BY <1>1, WindowMovesOn
<1> QED BY <1>2

(* There are finitely many ex-dates, none of them in the future.            *)
LEMMA ExDatesFinite ==
  ASSUME CollectionTyped
  PROVE  /\ exdates \subseteq 1 .. now /\ now \in Nat /\ exdates \subseteq Nat
         /\ IsFiniteSet(exdates) /\ Cardinality(exdates) \in Nat
         /\ \A e \in exdates : e <= now
<1>1. exdates \subseteq 1 .. now /\ now \in Nat
  BY LegacyConstants DEF CollectionTyped
<1>2. IsFiniteSet(1 .. now)
  BY <1>1, FS_Interval
<1>3. IsFiniteSet(exdates)
  BY <1>1, <1>2, FS_Subset
<1>4. Cardinality(exdates) \in Nat
  BY <1>3, FS_CardinalityType
<1> QED BY <1>1, <1>3, <1>4

(* The ex-dates after one session and up to another.                        *)
ExDatesOf(X, a, b) == {e \in X : a < e /\ e <= b}

(* What a session cost is decided by the ex-dates after it, and those of a  *)
(* span of sessions add up.                                                 *)
LEMMA ExDatesAddUp ==
  ASSUME NEW X, IsFiniteSet(X), X \subseteq Nat
  PROVE  \A s, t, n \in Nat : s <= t /\ t <= n =>
           Cardinality(ExDatesOf(X, s, n))
             = Cardinality(ExDatesOf(X, s, t)) + Cardinality(ExDatesOf(X, t, n))
<1> SUFFICES ASSUME NEW s \in Nat, NEW t \in Nat, NEW n \in Nat, s <= t, t <= n
             PROVE  Cardinality(ExDatesOf(X, s, n))
                      = Cardinality(ExDatesOf(X, s, t)) + Cardinality(ExDatesOf(X, t, n))
  OBVIOUS
<1> DEFINE A == ExDatesOf(X, s, t)
           B == ExDatesOf(X, t, n)
           C == ExDatesOf(X, s, n)
<1> USE DEF ExDatesOf
<1>1. IsFiniteSet(A) /\ IsFiniteSet(B)
  BY FS_Subset
<1>2. C = A \cup B /\ A \cap B = {}
  <2>1. \A e \in X : e \in Nat /\ (e \in C <=> e \in A \cup B) /\ e \notin A \cap B
    OBVIOUS
  <2> QED BY <2>1
<1>3. Cardinality(A) \in Nat /\ Cardinality(B) \in Nat
  BY <1>1, FS_CardinalityType
<1> HIDE DEF A, B, C
<1>4. Cardinality(C) = Cardinality(A) + Cardinality(B) - Cardinality(A \cap B)
  BY <1>1, <1>2, FS_Union
<1>5. Cardinality(A \cap B) = 0
  BY <1>2, FS_EmptySet
<1>6. Cardinality(C) = Cardinality(A) + Cardinality(B)
  BY <1>3, <1>4, <1>5
<1> QED BY <1>6 DEF A, B, C

(* Two moments that agree on a session agree on the ones before it.         *)
LEMMA SameAdjustment ==
  ASSUME CollectionTyped, NEW s \in Nat, NEW t \in Nat, s <= t,
         NEW m \in Nat, NEW n \in Nat, t <= m, t <= n, PriceSeen(t, m) = PriceSeen(t, n)
  PROVE  PriceSeen(s, m) = PriceSeen(s, n)
<1>1. IsFiniteSet(exdates) /\ exdates \subseteq Nat
  <2>1. exdates \subseteq 1 .. now /\ now \in Nat
    BY LegacyConstants DEF CollectionTyped
  <2>2. IsFiniteSet(1 .. now)
    BY <2>1, FS_Interval
  <2>3. IsFiniteSet(exdates)
    BY <2>1, <2>2, FS_Subset
  <2> QED BY <2>1, <2>3, LegacyConstants
<1> DEFINE C(a, b) == Cardinality(ExDatesOf(exdates, a, b))
<1>2. \A a, b \in Nat : C(a, b) \in Nat
  <2>1. ASSUME NEW a \in Nat, NEW b \in Nat PROVE C(a, b) \in Nat
    <3>1. IsFiniteSet(ExDatesOf(exdates, a, b))
      BY <1>1, FS_Subset DEF ExDatesOf
    <3> QED BY <3>1, FS_CardinalityType
  <2> QED BY <2>1
<1>3. \A k \in Nat : t <= k => C(s, k) = C(s, t) + C(t, k)
  <2>1. \A a, b, k \in Nat : a <= b /\ b <= k =>
          Cardinality(ExDatesOf(exdates, a, k))
            = Cardinality(ExDatesOf(exdates, a, b)) + Cardinality(ExDatesOf(exdates, b, k))
    BY <1>1, ExDatesAddUp, Zenon
  <2> QED BY <2>1
<1>4. \A a, b \in Nat : PriceSeen(a, b) = 1 + C(a, b)
  BY DEF PriceSeen, ExDatesOf
<1> HIDE DEF C
<1>5. C(t, m) = C(t, n)
  <2>1. C(t, m) \in Nat /\ C(t, n) \in Nat /\ 1 + C(t, m) = 1 + C(t, n)
    BY <1>2, <1>4
  <2> QED BY <2>1
<1> QED BY <1>3, <1>4, <1>5

(* A traded session has a price.                                            *)
LEMMA PricesAreNumbers ==
  ASSUME CollectionTyped, NEW s \in Nat, NEW n \in Nat
  PROVE  PriceSeen(s, n) \in Nat \ {0}
<1>1. exdates \subseteq 1 .. now /\ now \in Nat
  BY LegacyConstants DEF CollectionTyped
<1>2. IsFiniteSet(1 .. now)
  BY <1>1, FS_Interval
<1>3. IsFiniteSet(exdates)
  BY <1>1, <1>2, FS_Subset
<1>4. IsFiniteSet({e \in exdates : s < e /\ e <= n})
  BY <1>3, FS_Subset
<1>5. Cardinality({e \in exdates : s < e /\ e <= n}) \in Nat
  BY <1>4, FS_CardinalityType
<1> QED BY <1>5 DEF PriceSeen

(* Nothing is collected and nothing vouched for at the start.               *)
LEMMA LegacyInitGood == LegacyInit => LegacyInv
<1> SUFFICES ASSUME LegacyInit PROVE LegacyInv
  OBVIOUS
<1> USE LegacyConstants
<1>1. 1 \in LegacySession
  OBVIOUS
<1>2. CollectionTyped
  <2>1. now = 1 /\ traded = {1} /\ exdates = {} /\ 1 \in LegacySession
    BY <1>1 DEF LegacyInit
  <2>2. NoBars \in [LegacySession -> Nat]
    BY DEF NoBars
  <2>3. outputs \in [Interval -> [LegacySession -> Nat]]
    BY <2>2 DEF LegacyInit
  <2>4. NotRunning \in CollectionRecord
    BY <2>2 DEF NotRunning, CollectionRecord
  <2>5. collecting = NotRunning /\ checkpoint = NotMarked /\ inactive = NotCached
    BY DEF LegacyInit
  <2>6. Doing("idle") /\ collecting.target = 0
    BY <2>5 DEF Doing, NotRunning
  <2>7. NotCached \in [last : 0 .. MaxSession, checked : Nat]
    BY DEF NotCached
  <2>8. checkpoint \in [status : {"none", "success", "failed"}, target : Nat, inactive : BOOLEAN]
    BY <2>5 DEF NotMarked
  <2>9. checkpoint.target = 0
    BY <2>5 DEF NotMarked
  <2>10. {listed, torn} \subseteq BOOLEAN /\ report = "none" /\ failures = 0
    BY DEF LegacyInit
  <2> QED BY <2>1, <2>3, <2>4, <2>5, <2>6, <2>7, <2>8, <2>9, <2>10 DEF CollectionTyped
<1>3. \A i \in Interval, s \in LegacySession : outputs[i][s] = 0
  BY DEF LegacyInit, NoBars
<1>4. FilesCurrent
  <2>1. ~Vouched
    BY DEF Vouched, LegacyInit, NotMarked
  <2>2. 0 \in 0 .. now
    BY DEF LegacyInit
  <2> QED BY <1>3, <2>1, <2>2 DEF FilesCurrent, AdjustedAt
<1>5. FetchCurrent
  BY DEF FetchCurrent, Doing, LegacyInit, NotRunning
<1> QED BY <1>2, <1>4, <1>5 DEF LegacyInv

(* What the provider's unchanged history means for what is read from it.    *)
LEMMA HistoryStill ==
  ASSUME UNCHANGED <<now, traded, exdates>>
  PROVE  /\ now' = now /\ traded' = traded /\ exdates' = exdates
         /\ WindowStart(now)' = WindowStart(now)
         /\ \A s, n : PriceSeen(s, n)' = PriceSeen(s, n)
         /\ \A f, n : AdjustedAt(f, n)' <=> AdjustedAt(f, n)
<1>1. now' = now /\ traded' = traded /\ exdates' = exdates
  OBVIOUS
<1>2. WindowStart(now)' = WindowStart(now)
  BY <1>1 DEF WindowStart
<1>3. \A s, n : PriceSeen(s, n)' = PriceSeen(s, n)
  BY <1>1 DEF PriceSeen
<1>4. \A f, n : AdjustedAt(f, n)' <=> AdjustedAt(f, n)
  BY <1>1 DEF AdjustedAt, PriceSeen
<1> QED BY <1>1, <1>2, <1>3, <1>4

(* A step that leaves the history and the files alone, and whose checkpoint *)
(* vouches for no more, leaves the files current.                           *)
LEMMA FilesKept ==
  ASSUME LegacyInv, UNCHANGED <<now, traded, exdates, outputs>>, torn' = torn \/ torn',
         checkpoint' = checkpoint \/ ~Vouched'
  PROVE  FilesCurrent'
<1>1. outputs' = outputs
  OBVIOUS
<1>2. Vouched' => Vouched /\ checkpoint' = checkpoint
  BY DEF Vouched
<1>3. ~torn' => ~torn
  BY DEF LegacyInv, CollectionTyped
<1> QED BY <1>1, <1>2, <1>3, HistoryStill DEF LegacyInv, FilesCurrent

(* Outside a fetch there is nothing to know of one.                         *)
LEMMA NoFetch ==
  ASSUME collecting'.phase \in {"idle", "checking", "validating"}
  PROVE  FetchCurrent'
BY DEF FetchCurrent, Doing

(* A session closes: what was adjusted up to now keeps its prices.          *)
LEMMA SessionClosesKeeps ==
  ASSUME LegacyInv, NEW ex \in BOOLEAN, SessionCloses(ex)
  PROVE  LegacyInv'
<1> USE LegacyConstants
<1>1. /\ now \in Nat /\ now >= 1 /\ now' = now + 1 /\ now' \in LegacySession
      /\ traded \subseteq 1 .. now /\ exdates \subseteq 1 .. now
      /\ traded' \in {traded, traded \cup {now + 1}} /\ exdates' \in {exdates, exdates \cup {now + 1}}
      /\ UNCHANGED <<listed, outputs, checkpoint, inactive, collecting, report, torn, failures>>
  BY DEF LegacyInv, CollectionTyped, SessionCloses
<1>2. \A s \in traded' : s <= now => s \in traded
  BY <1>1
<1>3. \A a, n \in Nat : n <= now => {e \in exdates' : a < e /\ e <= n} = {e \in exdates : a < e /\ e <= n}
  BY <1>1
<1>4. \A s, n \in Nat : n <= now => PriceSeen(s, n)' = PriceSeen(s, n)
  BY <1>3 DEF PriceSeen
<1>5. \A n \in Nat : n <= now => {e \in exdates' : e <= n} = {e \in exdates : e <= n}
  BY <1>1
<1>6. WindowStart(now) <= WindowStart(now') /\ WindowStart(now) \in Nat /\ WindowStart(now') \in Nat
  BY <1>1, WindowMovesOn
<1>7. CollectionTyped'
  <2>1. traded' \subseteq 1 .. now' /\ exdates' \subseteq 1 .. now'
    BY <1>1
  <2>2. collecting'.target <= now' /\ checkpoint'.target <= now'
    BY <1>1 DEF LegacyInv, CollectionTyped, CollectionRecord
  <2> QED BY <1>1, <2>1, <2>2 DEF LegacyInv, CollectionTyped, Doing
<1>8. FilesCurrent'
  <2> SUFFICES ASSUME NEW i \in Interval
               PROVE  /\ \A s \in LegacySession : outputs[i][s] # 0 => s \in traded'
                      /\ \A s \in traded', r \in LegacySession :
                           outputs[i][r] # 0 /\ WindowStart(now') <= s /\ s <= r => outputs[i][s] # 0
                      /\ Vouched => \A s \in traded' :
                           WindowStart(now') <= s /\ s <= checkpoint.target => outputs[i][s] # 0
                      /\ ~torn => \E n \in 0 .. now' :
                           AdjustedAt(outputs[i], n)' /\ (Vouched => n >= checkpoint.target)
    BY <1>1 DEF FilesCurrent, Vouched
  <2>1. \A s \in LegacySession : outputs[i][s] # 0 => s \in traded'
    BY <1>1 DEF LegacyInv, FilesCurrent
  <2>2. ASSUME NEW s \in traded', NEW r \in LegacySession, outputs[i][r] # 0,
               WindowStart(now') <= s, s <= r
        PROVE  outputs[i][s] # 0
    <3>1. r \in traded
      BY <2>2 DEF LegacyInv, FilesCurrent
    <3>2. s \in Nat /\ s <= now
      BY <1>1, <2>2, <3>1
    <3>3. s \in traded /\ WindowStart(now) <= s
      BY <1>2, <1>6, <2>2, <3>2
    <3> QED BY <2>2, <3>3 DEF LegacyInv, FilesCurrent
  <2>3. ASSUME Vouched, NEW s \in traded', WindowStart(now') <= s, s <= checkpoint.target
        PROVE  outputs[i][s] # 0
    <3>1. checkpoint.target \in Nat /\ checkpoint.target <= now /\ s \in Nat
      BY <1>1 DEF LegacyInv, CollectionTyped
    <3>2. s \in traded /\ WindowStart(now) <= s
      BY <1>1, <1>2, <1>6, <2>3, <3>1
    <3> QED BY <2>3, <3>2 DEF LegacyInv, FilesCurrent
  <2>4. ASSUME ~torn
        PROVE  \E n \in 0 .. now' : AdjustedAt(outputs[i], n)' /\ (Vouched => n >= checkpoint.target)
    <3>1. PICK n \in 0 .. now : AdjustedAt(outputs[i], n) /\ (Vouched => n >= checkpoint.target)
      BY <2>4 DEF LegacyInv, FilesCurrent
    <3>2. \A s \in LegacySession : PriceSeen(s, n)' = PriceSeen(s, n)
      BY <1>1, <1>4
    <3>3. AdjustedAt(outputs[i], n)'
      BY <1>1, <3>1, <3>2 DEF AdjustedAt
    <3>4. n \in 0 .. now'
      BY <1>1
    <3> QED BY <3>1, <3>3, <3>4
  <2> QED BY <2>1, <2>2, <2>3, <2>4
<1>9. FetchCurrent'
  <2> SUFFICES ASSUME Doing("fetching") \/ Doing("saving")
               PROVE  FetchCurrent'
    BY <1>1 DEF FetchCurrent, Doing
  <2>1. /\ collecting.target \in Nat /\ collecting.target <= now
        /\ collecting.from \in Nat /\ collecting.at \in Nat /\ collecting.at <= collecting.target + 1
    BY <1>1, WindowMovesOn DEF LegacyInv, CollectionTyped, CollectionRecord, FetchCurrent
  <2>2. \A s \in LegacySession :
          collecting.got[s] # 0 <=> s \in traded' /\ collecting.from <= s /\ s < collecting.at
    <3>1. \A s \in LegacySession : s < collecting.at => s <= now
      BY <1>1, <2>1
    <3>2. \A s \in LegacySession : s < collecting.at => (s \in traded' <=> s \in traded)
      BY <1>1, <1>2, <3>1
    <3> QED BY <3>2 DEF LegacyInv, FetchCurrent
  <2>3. ASSUME ~torn, collecting.at > collecting.from
        PROVE  \E m \in collecting.target .. now' : FetchedAt(m)'
    <3>1. PICK m \in collecting.target .. now : FetchedAt(m)
      BY <2>3 DEF LegacyInv, FetchCurrent
    <3>2. m \in Nat /\ m <= now /\ m \in collecting.target .. now'
      BY <1>1, <2>1
    <3>3. \A s \in LegacySession : PriceSeen(s, m)' = PriceSeen(s, m)
      BY <1>4, <3>2
    <3>4. {e \in exdates' : e <= m} = {e \in exdates : e <= m}
      BY <1>5, <3>2
    <3>5. FetchedAt(m)'
      BY <1>1, <3>1, <3>3, <3>4 DEF FetchedAt, Doing
    <3> QED BY <3>2, <3>5
  <2>4. ASSUME Doing("saving"), NEW i \in Interval, NEW s \in traded',
               i < collecting.todo, WindowStart(now') <= s, s <= collecting.target
        PROVE  outputs[i][s] # 0
    <3>1. s \in traded /\ WindowStart(now) <= s
      BY <1>1, <1>2, <1>6, <2>1, <2>4
    <3> QED BY <2>4, <3>1 DEF LegacyInv, FetchCurrent
  <2> HIDE DEF FetchedAt
  <2> QED BY <1>1, <2>2, <2>3, <2>4 DEF LegacyInv, FetchCurrent, Doing
<1> QED BY <1>7, <1>8, <1>9 DEF LegacyInv

(* A listing that changes changes nothing that is collected.                *)
LEMMA ListingChangesKeeps ==
  ASSUME LegacyInv, ListingChanges
  PROVE  LegacyInv'
<1>1. /\ UNCHANGED <<now, traded, exdates, outputs, checkpoint, inactive, collecting, report, torn, failures>>
      /\ listed' \in BOOLEAN
  BY DEF ListingChanges
<1>2. CollectionTyped'
  BY <1>1 DEF LegacyInv, CollectionTyped, Doing
<1>3. FilesCurrent'
  BY <1>1, FilesKept
<1>4. FetchCurrent'
  <2>1. \A m : FetchedAt(m)' <=> FetchedAt(m)
    BY <1>1, HistoryStill DEF FetchedAt, Doing
  <2> QED BY <1>1, <2>1, HistoryStill DEF LegacyInv, FetchCurrent, Doing
<1> QED BY <1>2, <1>3, <1>4 DEF LegacyInv

(* The run itself: it starts, skips what is complete, ends, and dies.       *)
LEMMA StartCollectingKeeps ==
  ASSUME LegacyInv, StartCollecting
  PROVE  LegacyInv'
<1> USE LegacyConstants
<1>1. /\ UNCHANGED <<now, traded, exdates, outputs, checkpoint, inactive, torn, failures, listed>>
      /\ collecting' = [NotRunning EXCEPT !.phase = "checking", !.attempt = 1, !.target = now]
      /\ report' = "running"
  BY DEF StartCollecting, provider
<1>2. now \in Nat /\ now >= 1
  BY DEF LegacyInv, CollectionTyped
<1>3. NotRunning \in CollectionRecord
  BY DEF NotRunning, NoBars, CollectionRecord
<1>4. collecting' \in CollectionRecord /\ collecting'.phase = "checking" /\ collecting'.target = now
  BY <1>1, <1>2, <1>3 DEF CollectionRecord
<1>5. CollectionTyped'
  BY <1>1, <1>2, <1>4 DEF LegacyInv, CollectionTyped
<1>6. FilesCurrent' /\ FetchCurrent'
  BY <1>1, <1>4, FilesKept, NoFetch
<1> QED BY <1>5, <1>6 DEF LegacyInv

(* A complete symbol goes to validation as it is.                           *)
LEMMA SkipCompleteKeeps ==
  ASSUME LegacyInv, SkipComplete
  PROVE  LegacyInv'
<1>1. /\ UNCHANGED <<now, traded, exdates, outputs, checkpoint, inactive, torn, failures, listed, report>>
      /\ collecting' = [collecting EXCEPT !.phase = "validating"] /\ ~Doing("idle")
  BY DEF SkipComplete, provider, Phase, Doing
<1>2. collecting' \in CollectionRecord /\ collecting'.phase = "validating" /\ collecting'.target = collecting.target
  BY <1>1 DEF LegacyInv, CollectionTyped, CollectionRecord
<1>3. CollectionTyped'
  BY <1>1, <1>2 DEF LegacyInv, CollectionTyped
<1>4. FilesCurrent' /\ FetchCurrent'
  BY <1>1, <1>2, FilesKept, NoFetch
<1> QED BY <1>3, <1>4 DEF LegacyInv

(* An idle run has no target, and no checkpoint is compared with it.        *)
LEMMA RunEndsKeeps ==
  ASSUME LegacyInv, collecting' = NotRunning,
         UNCHANGED <<now, traded, exdates, outputs, checkpoint, inactive, torn, listed>>,
         report' \in {"none", "running", "success", "failed"}, failures' \in Nat
  PROVE  LegacyInv'
<1> USE LegacyConstants
<1>1. NotRunning \in CollectionRecord /\ NotRunning.phase = "idle" /\ NotRunning.target = 0
  BY DEF NotRunning, NoBars, CollectionRecord
<1>2. CollectionTyped'
  BY <1>1 DEF LegacyInv, CollectionTyped, Doing
<1>3. FilesCurrent' /\ FetchCurrent'
  BY <1>1, FilesKept, NoFetch
<1> QED BY <1>2, <1>3 DEF LegacyInv

(* A failed update vouches for nothing.                                     *)
LEMMA UpdateFailsKeeps ==
  ASSUME LegacyInv, UpdateFails, ~Doing("idle"), failures' \in Nat,
         UNCHANGED <<provider, outputs, inactive, report, torn>>
  PROVE  LegacyInv'
<1>1. /\ UNCHANGED <<now, traded, exdates, outputs, inactive, torn, listed, report>>
      /\ checkpoint' = [status |-> "failed", target |-> collecting.target, inactive |-> FALSE]
      /\ \/ collecting' = [collecting EXCEPT !.phase = "checking", !.attempt = @ + 1]
         \/ collecting' = [collecting EXCEPT !.phase = "validating"]
  BY DEF provider, UpdateFails, MarkStage, Phase
<1>2. /\ collecting' \in CollectionRecord /\ collecting'.phase \in {"checking", "validating"}
      /\ collecting'.target = collecting.target /\ collecting.target \in Nat
      /\ 1 <= collecting.target /\ collecting.target <= now
  <2>1. collecting \in CollectionRecord /\ collecting.target >= 1 /\ collecting.target <= now
    BY DEF LegacyInv, CollectionTyped
  <2>2. collecting.attempt + 1 \in Nat /\ collecting.target \in Nat
    BY <2>1 DEF CollectionRecord
  <2>3. /\ [collecting EXCEPT !.phase = "checking", !.attempt = @ + 1] \in CollectionRecord
        /\ [collecting EXCEPT !.phase = "validating"] \in CollectionRecord
    BY <2>1, <2>2 DEF CollectionRecord
  <2>4. collecting'.phase \in {"checking", "validating"} /\ collecting'.target = collecting.target
    BY <1>1, <2>1 DEF CollectionRecord
  <2> QED BY <1>1, <2>1, <2>2, <2>3, <2>4
<1>3. checkpoint' \in [status : {"none", "success", "failed"}, target : Nat, inactive : BOOLEAN]
      /\ checkpoint'.target = collecting.target /\ ~Vouched'
  BY <1>1, <1>2 DEF Vouched
<1>4. CollectionTyped'
  BY <1>1, <1>2, <1>3 DEF LegacyInv, CollectionTyped
<1>5. FilesCurrent' /\ FetchCurrent'
  BY <1>1, <1>2, <1>3, FilesKept, NoFetch
<1> QED BY <1>4, <1>5 DEF LegacyInv

(* The files trimmed to the window hold what they held there.               *)
LEMMA TrimmedHolds ==
  ASSUME NEW f \in [LegacySession -> Nat], NEW t
  PROVE  /\ Trimmed(f, t) \in [LegacySession -> Nat]
         /\ Stored(Trimmed(f, t)) = {s \in LegacySession : s \in WindowStart(t) .. t /\ f[s] # 0}
         /\ \A s \in LegacySession : s \in WindowStart(t) .. t => Trimmed(f, t)[s] = f[s]
         /\ \A s \in LegacySession : s \notin WindowStart(t) .. t => Trimmed(f, t)[s] = 0
BY DEF Trimmed, Stored

(* The newest session an interval's file has in the window.                 *)
LEMMA LatestStoredThere ==
  ASSUME CollectionTyped, NEW i \in Interval, Stored(Existing(i)) # {}
  PROVE  /\ LatestStored(i) \in Stored(Existing(i)) /\ LatestStored(i) \in LegacySession
         /\ LatestStored(i) \in WindowStart(collecting.target) .. collecting.target
         /\ outputs[i][LatestStored(i)] # 0
<1>1. outputs[i] \in [LegacySession -> Nat]
  BY DEF CollectionTyped
<1>2. Stored(Existing(i)) \subseteq 0 .. MaxSession /\ MaxSession \in Nat
  BY LegacyConstants DEF Stored
<1>3. LatestStored(i) \in Stored(Existing(i))
  BY <1>2, MaxNamesGreatest DEF LatestStored
<1> QED BY <1>1, <1>3, TrimmedHolds DEF Existing

(* A symbol's newest bar is a session.                                      *)
LEMMA LatestBarThere ==
  ASSUME CollectionTyped, Stale
  PROVE  LatestBar \in 0 .. MaxSession
<1> DEFINE S == {LatestStored(i) : i \in {j \in Interval : Stored(Existing(j)) # {}}}
<1>1. S \subseteq LegacySession
  BY LatestStoredThere
<1>2. S # {}
  BY DEF Stale
<1>3. S \in SUBSET (0 .. MaxSession) /\ MaxSession \in Nat
  BY <1>1, LegacyConstants
<1> HIDE DEF S
<1>4. Max(S) \in S
  BY <1>2, <1>3, MaxNamesGreatest
<1> QED BY <1>3, <1>4 DEF LatestBar, S

(* A symbol skipped as inactive is marked so: nothing vouches for it.       *)
LEMMA SkipInactiveKeeps ==
  ASSUME LegacyInv, SkipInactive
  PROVE  LegacyInv'
<1>1. /\ UNCHANGED <<now, traded, exdates, outputs, torn, listed, report, failures>>
      /\ collecting' = [collecting EXCEPT !.phase = "validating"] /\ ~Doing("idle") /\ Stale
      /\ checkpoint' = [status |-> "success", target |-> collecting.target, inactive |-> TRUE]
      /\ inactive' = inactive \/ inactive' = [last |-> LatestBar, checked |-> collecting.target]
  BY DEF SkipInactive, provider, Phase, Doing, MarkStage
<1>2. /\ collecting' \in CollectionRecord /\ collecting'.phase = "validating"
      /\ collecting'.target = collecting.target /\ collecting.target \in Nat
      /\ 1 <= collecting.target /\ collecting.target <= now
  BY <1>1 DEF LegacyInv, CollectionTyped, CollectionRecord
<1>3. checkpoint' \in [status : {"none", "success", "failed"}, target : Nat, inactive : BOOLEAN]
      /\ checkpoint'.target = collecting.target /\ ~Vouched'
  BY <1>1, <1>2 DEF Vouched
<1>4. inactive' \in [last : 0 .. MaxSession, checked : Nat]
  <2>1. LatestBar \in 0 .. MaxSession
    BY <1>1, LatestBarThere DEF LegacyInv
  <2> HIDE DEF LatestBar
  <2> QED BY <1>1, <1>2, <2>1 DEF LegacyInv, CollectionTyped
<1>5. CollectionTyped'
  BY <1>1, <1>2, <1>3, <1>4 DEF LegacyInv, CollectionTyped
<1>6. FilesCurrent' /\ FetchCurrent'
  BY <1>1, <1>2, <1>3, FilesKept, NoFetch
<1> QED BY <1>5, <1>6 DEF LegacyInv

(* A fetch starts in the window, and unless it starts with the window it    *)
(* starts no later than every interval's newest file.                       *)
LEMMA FetchStartReaches ==
  ASSUME CollectionTyped, collecting.target >= 1
  PROVE  /\ FetchStart \in WindowStart(collecting.target) .. collecting.target
         /\ \A i \in Interval :
              \/ FetchStart = WindowStart(collecting.target)
              \/ \E s \in LegacySession :
                   outputs[i][s] # 0 /\ FetchStart <= s /\ s <= collecting.target
<1> USE LegacyConstants
<1>1. PICK t \in Nat : t = collecting.target /\ t >= 1
  BY DEF CollectionTyped, CollectionRecord
<1>2. PICK w \in Nat : w = WindowStart(t) /\ w >= 1 /\ w <= t
  BY <1>1, WindowMovesOn
<1>3. PICK r \in Int : r = t - RefreshSessions + 1 /\ r <= t
  BY <1>1
<1>4. FetchStart = Max({w, Min({IncrementalFetchStart, r})})
  BY <1>1, <1>2, <1>3 DEF FetchStart
<1>7. \A a, b \in Int : Max({a, b}) = IF a <= b THEN b ELSE a
  BY MinMaxOfInts
<1>5. CASE \E i \in Interval : Stored(Existing(i)) = {}
  <2>1. IncrementalFetchStart = w
    BY <1>1, <1>2, <1>5 DEF IncrementalFetchStart
  <2>2. Min({w, r}) \in Int /\ Min({w, r}) <= w
    BY <1>2, <1>3, MinMaxOfInts
  <2>3. Max({w, Min({w, r})}) = w
    <3>1. PICK z \in Int : z = Min({w, r}) /\ z <= w
      BY <2>2
    <3>2. w \in Int /\ (IF w <= z THEN z ELSE w) = w
      BY <1>2, <3>1
    <3>3. Max({w, z}) = w
      BY <1>7, <3>1, <3>2
    <3> QED BY <3>1, <3>3
  <2>4. FetchStart = w
    BY <1>4, <2>1, <2>3
  <2>5. w \in WindowStart(collecting.target) .. collecting.target /\ w = WindowStart(collecting.target)
    BY <1>1, <1>2
  <2> QED BY <2>4, <2>5
<1>6. CASE \A i \in Interval : Stored(Existing(i)) # {}
  <2> DEFINE S == {LatestStored(i) : i \in Interval}
  <2>1. S \subseteq Nat /\ S # {}
    BY <1>6, LatestStoredThere
  <2>2. \A i \in Interval : LatestStored(i) \in S
    OBVIOUS
  <2>3. IncrementalFetchStart = Min(S)
    BY <1>6 DEF IncrementalFetchStart
  <2> HIDE DEF S
  <2>4. Min(S) \in S /\ \A k \in S : Min(S) <= k
    BY <2>1, MinNamesLeast
  <2>5. PICK x \in Nat : x = Min(S) /\ \A k \in S : x <= k
    BY <2>1, <2>4
  <2>6. \A i \in Interval : /\ LatestStored(i) \in Nat /\ x <= LatestStored(i) /\ LatestStored(i) <= t
                            /\ LatestStored(i) \in LegacySession /\ outputs[i][LatestStored(i)] # 0
    BY <1>1, <1>6, <2>2, <2>5, LatestStoredThere
  <2>7. PICK z \in Int : z = Min({x, r}) /\ z <= x /\ z <= r
    BY <1>3, <2>5, MinMaxOfInts
  <2>8. FetchStart = Max({w, z})
    BY <1>4, <2>3, <2>5, <2>7
  <2>9. FetchStart = IF w <= z THEN z ELSE w
    <3>1. w \in Int
      BY <1>2
    <3> QED BY <1>7, <2>7, <2>8, <3>1
  <2>10. PICK h \in Int : h = FetchStart /\ (h = w \/ (h = z /\ w <= z))
    BY <1>2, <2>7, <2>9
  <2>11. h \in w .. t
    BY <1>2, <1>3, <2>7, <2>10
  <2>12. ASSUME NEW i \in Interval, h # w
         PROVE  \E s \in LegacySession : outputs[i][s] # 0 /\ h <= s /\ s <= t
    <3>1. PICK l \in Nat : l = LatestStored(i) /\ x <= l /\ l <= t /\ l \in LegacySession /\ outputs[i][l] # 0
      BY <2>6
    <3>2. h <= l
      BY <2>7, <2>10, <2>12, <3>1
    <3> QED BY <3>1, <3>2
  <2> QED BY <1>1, <1>2, <2>10, <2>11, <2>12
<1> QED BY <1>5, <1>6

(* What a fetch knows before its first chunk.                               *)
LEMMA FetchBegins ==
  ASSUME LegacyInv, UNCHANGED <<provider, outputs, checkpoint, report, torn>>,
         ~Doing("idle"), failures' \in Nat, inactive' \in [last : 0 .. MaxSession, checked : Nat],
         NEW start, BeginFetch(start), start \in WindowStart(collecting.target) .. collecting.target,
         \A i \in Interval :
           \/ start = WindowStart(collecting.target)
           \/ \E s \in LegacySession : outputs[i][s] # 0 /\ start <= s /\ s <= collecting.target
  PROVE  LegacyInv'
<1>1. /\ UNCHANGED <<now, traded, exdates, outputs, torn, listed, report, checkpoint>>
      /\ collecting' = [collecting EXCEPT !.phase = "fetching", !.from = start, !.at = start, !.got = NoBars]
  BY DEF provider, BeginFetch
<1>2. collecting \in CollectionRecord /\ 1 <= collecting.target /\ collecting.target <= now
      /\ checkpoint.target <= collecting.target
  BY DEF LegacyInv, CollectionTyped
<1>3. start \in Nat /\ start <= collecting.target
  BY <1>2, WindowMovesOn DEF CollectionRecord
<1>4. /\ collecting' \in CollectionRecord
      /\ collecting'.phase = "fetching" /\ collecting'.target = collecting.target
      /\ collecting'.from = start /\ collecting'.at = start /\ collecting'.got = NoBars
  <2>1. NoBars \in [LegacySession -> Nat]
    BY DEF NoBars
  <2> HIDE DEF NoBars
  <2> QED BY <1>1, <1>2, <1>3, <2>1 DEF CollectionRecord
<1>5. CollectionTyped'
  BY <1>1, <1>2, <1>4 DEF LegacyInv, CollectionTyped
<1>6. FilesCurrent'
  BY <1>1, FilesKept
<1>7. FetchCurrent'
  <2>1. \A s \in LegacySession : collecting'.got[s] = 0
    BY <1>4 DEF NoBars
  <2>2. collecting'.at \in collecting'.from .. collecting'.target + 1
    BY <1>2, <1>3, <1>4 DEF CollectionRecord
  <2>3. ~(collecting'.at > collecting'.from) /\ ~Doing("saving")'
    BY <1>3, <1>4 DEF Doing
  <2>4. \A s \in LegacySession : ~(collecting'.from <= s /\ s < collecting'.at)
    BY <1>3, <1>4, LegacyConstants
  <2> QED BY <1>1, <1>4, <2>1, <2>2, <2>3, <2>4 DEF FetchCurrent
<1> QED BY <1>5, <1>6, <1>7 DEF LegacyInv

(* An update starts its fetch.                                              *)
LEMMA FetchSymbolKeeps ==
  ASSUME LegacyInv, FetchSymbol
  PROVE  LegacyInv'
<1>1. ~Doing("idle") /\ BeginFetch(FetchStart) /\ UNCHANGED <<provider, outputs, checkpoint, report, torn, failures>>
  BY DEF FetchSymbol, Doing
<1>2. inactive' \in {inactive, NotCached}
  BY DEF FetchSymbol
<1>3. inactive' \in [last : 0 .. MaxSession, checked : Nat] /\ failures' \in Nat /\ collecting.target >= 1
  BY <1>1, <1>2, LegacyConstants DEF LegacyInv, CollectionTyped, NotCached
<1>4. /\ FetchStart \in WindowStart(collecting.target) .. collecting.target
      /\ \A i \in Interval :
           \/ FetchStart = WindowStart(collecting.target)
           \/ \E s \in LegacySession :
                outputs[i][s] # 0 /\ FetchStart <= s /\ s <= collecting.target
  BY <1>3, FetchStartReaches DEF LegacyInv
<1> QED BY <1>1, <1>3, <1>4, FetchBegins

(* A span that has all the ex-dates there are is all of them.               *)
LEMMA AllExDatesSeen ==
  ASSUME CollectionTyped, NEW m \in Nat,
         Cardinality({e \in exdates : e <= m}) = Cardinality(exdates)
  PROVE  \A s \in LegacySession : PriceSeen(s, m) = PriceSeen(s, now)
<1>1. \A e \in exdates : e <= now
  BY ExDatesFinite
<1>2. IsFiniteSet(exdates)
  BY ExDatesFinite
<1> DEFINE S == {e \in exdates : e <= m}
<1>3. S \subseteq exdates
  OBVIOUS
<1>4. S = exdates
  <2> HIDE DEF S
  <2>1. Cardinality(S) = Cardinality(exdates)
    BY DEF S
  <2> QED BY <1>2, <1>3, <2>1, FS_Subset
<1>5. \A e \in exdates : e <= m /\ e <= now
  BY <1>1, <1>4
<1>6. \A s \in LegacySession : {e \in exdates : s < e /\ e <= m} = {e \in exdates : s < e /\ e <= now}
  BY <1>5
<1> QED BY <1>6 DEF PriceSeen

(* One more chunk: the range stays as of one moment, or it is torn.         *)
LEMMA FetchChunkKeeps ==
  ASSUME LegacyInv, FetchChunk
  PROVE  LegacyInv'
<1> USE LegacyConstants
<1> DEFINE last == Min({collecting.at + ChunkSessions - 1, collecting.target})
           seen == IF collecting.at = collecting.from THEN Cardinality(exdates) ELSE collecting.known
           bars == [s \in LegacySession |->
                      IF s \in collecting.at .. last THEN Offered(s) ELSE collecting.got[s]]
<1>1. /\ UNCHANGED <<now, traded, exdates, outputs, checkpoint, inactive, listed, report, failures>>
      /\ collecting' = [collecting EXCEPT !.at = last + 1, !.known = seen, !.got = bars]
      /\ torn' = (torn \/ seen # Cardinality(exdates))
      /\ Doing("fetching") /\ collecting.at <= collecting.target
  BY DEF FetchChunk, provider
<1>2. /\ collecting \in CollectionRecord /\ 1 <= collecting.target /\ collecting.target <= now
      /\ checkpoint.target <= collecting.target /\ CollectionTyped
  BY <1>1 DEF LegacyInv, CollectionTyped, Doing
<1>3. PICK a \in Nat, t \in Nat, f \in Nat :
        /\ a = collecting.at /\ t = collecting.target /\ f = collecting.from /\ f <= a /\ a <= t
        /\ f \in WindowStart(t) .. t /\ t <= now /\ 1 <= f
  <2>2. collecting.from \in WindowStart(collecting.target) .. collecting.target /\ collecting.from <= collecting.at
    BY <1>1, <1>2 DEF LegacyInv, FetchCurrent, CollectionRecord
  <2>1. collecting.target \in Nat
    BY <1>2 DEF CollectionRecord
  <2>3. WindowStart(collecting.target) >= 1 /\ WindowStart(collecting.target) \in Nat
    <3>1. WindowStart(collecting.target) \in Nat \ {0}
      BY <2>1, WindowThere
    <3> QED BY <3>1
  <2> QED BY <1>1, <1>2, <2>2, <2>3 DEF CollectionRecord
<1>4. PICK l \in Nat : l = last /\ a <= l /\ l <= t
  <2>1. a + ChunkSessions - 1 \in Int /\ a <= a + ChunkSessions - 1
    BY <1>3
  <2>2. \A x, y \in Int : Min({x, y}) = IF x <= y THEN x ELSE y
    BY MinMaxOfInts
  <2>3. last = IF a + ChunkSessions - 1 <= t THEN a + ChunkSessions - 1 ELSE t
    BY <1>3, <2>1, <2>2
  <2> HIDE DEF last
  <2> QED BY <1>3, <2>1, <2>3
<1> HIDE DEF last
<1>5. \A s \in LegacySession : PriceSeen(s, now) \in Nat \ {0}
  BY <1>2, PricesAreNumbers DEF CollectionTyped
<1>6. exdates \subseteq 1 .. now /\ now \in Nat /\ IsFiniteSet(exdates) /\ Cardinality(exdates) \in Nat
  BY <1>2, ExDatesFinite
<1>7. bars \in [LegacySession -> Nat]
  BY <1>2, <1>5 DEF Offered, CollectionRecord
<1>8. \A s \in LegacySession : bars[s] = IF s \in a .. l THEN Offered(s) ELSE collecting.got[s]
  BY <1>3, <1>4
<1>9. seen \in Nat
  BY <1>2, <1>6 DEF CollectionRecord
<1> HIDE DEF bars, seen
<1>10. /\ collecting' \in CollectionRecord
       /\ collecting'.phase = "fetching" /\ collecting'.target = t /\ collecting'.from = f
       /\ collecting'.at = l + 1 /\ collecting'.known = seen /\ collecting'.got = bars
  <2>1. collecting' = [collecting EXCEPT !.at = l + 1, !.known = seen, !.got = bars]
    BY <1>1, <1>4
  <2>2. l + 1 \in Nat
    BY <1>4
  <2>3. collecting.phase = "fetching"
    BY <1>1 DEF Doing
  <2> QED BY <1>2, <1>3, <1>7, <1>9, <2>1, <2>2, <2>3 DEF CollectionRecord
<1>11. CollectionTyped'
  BY <1>1, <1>2, <1>3, <1>10 DEF CollectionTyped
<1>12. FilesCurrent'
  <2>1. torn' = torn \/ torn'
    BY <1>1, <1>2 DEF CollectionTyped
  <2> QED BY <1>1, <2>1, FilesKept
<1>13. \A s \in LegacySession : bars[s] # 0 <=> s \in traded /\ f <= s /\ s < l + 1
  <2>1. \A s \in LegacySession : collecting.got[s] # 0 <=> s \in traded /\ f <= s /\ s < a
    BY <1>1, <1>3 DEF LegacyInv, FetchCurrent
  <2>2. \A s \in LegacySession : Offered(s) # 0 <=> s \in traded
    BY <1>5 DEF Offered
  <2>3. \A s \in LegacySession : s \in Nat /\ (s \in a .. l <=> a <= s /\ s <= l)
    BY <1>3, <1>4
  <2> QED BY <1>3, <1>4, <1>8, <2>1, <2>2, <2>3
<1>14. ASSUME ~torn'
       PROVE  \E m \in t .. now : FetchedAt(m)'
  <2>1. ~torn /\ seen = Cardinality(exdates)
    BY <1>1, <1>14, <1>2 DEF CollectionTyped
  <2>2. CASE a = f
    <3>0. PICK n \in Nat : n = now
      BY <1>6
    <3>1. {e \in exdates : e <= n} = exdates
      <4>1. \A e \in exdates : e <= n
        BY <1>2, <3>0, ExDatesFinite
      <4> QED BY <4>1
    <3>2. \A s \in LegacySession : collecting.got[s] # 0 => s \in Nat /\ f <= s /\ s < a
      BY <1>1, <1>3 DEF LegacyInv, FetchCurrent
    <3>3. \A s \in LegacySession : collecting.got[s] = 0
      BY <1>3, <2>2, <3>2
    <3>4. \A s \in LegacySession : bars[s] # 0 => bars[s] = PriceSeen(s, n)
      BY <1>8, <3>0, <3>3 DEF Offered
    <3>5. FetchedAt(n)'
      BY <1>1, <1>10, <2>1, <3>1, <3>4, HistoryStill DEF FetchedAt, Doing
    <3>6. n \in t .. now
      BY <1>3, <3>0
    <3> HIDE DEF FetchedAt
    <3> QED BY <3>5, <3>6
  <2>3. CASE a # f
    <3>1. collecting.at > collecting.from
      BY <1>3, <2>3
    <3>2. PICK m \in t .. now : FetchedAt(m)
      BY <1>1, <1>3, <2>1, <3>1 DEF LegacyInv, FetchCurrent
    <3>3. m \in Nat
      BY <1>3
    <3>4. seen = collecting.known
      BY <1>3, <2>3 DEF seen
    <3>5. Cardinality({e \in exdates : e <= m}) = Cardinality(exdates)
      BY <2>1, <3>2, <3>4 DEF FetchedAt
    <3>6. \A s \in LegacySession : PriceSeen(s, m) = PriceSeen(s, now)
      BY <1>2, <3>3, <3>5, AllExDatesSeen
    <3>7. \A s \in LegacySession : bars[s] # 0 => bars[s] = PriceSeen(s, m)
      BY <1>8, <3>2, <3>6 DEF Offered, FetchedAt
    <3>8. FetchedAt(m)'
      BY <1>1, <1>10, <2>1, <3>5, <3>7, HistoryStill DEF FetchedAt, Doing
    <3> QED BY <3>2, <3>8
  <2> QED BY <2>2, <2>3
<1>15. FetchCurrent'
  <2>1. collecting'.at \in collecting'.from .. collecting'.target + 1
    BY <1>3, <1>4, <1>10
  <2>2. \A i \in Interval :
          \/ f = WindowStart(t)
          \/ \E s \in LegacySession : outputs[i][s] # 0 /\ f <= s /\ s <= t
    BY <1>1, <1>3 DEF LegacyInv, FetchCurrent, Doing
  <2>3. ~Doing("saving")'
    BY <1>10 DEF Doing
  <2> HIDE DEF FetchedAt
  <2> QED BY <1>1, <1>3, <1>10, <1>13, <1>14, <2>1, <2>2, <2>3 DEF FetchCurrent
<1> QED BY <1>11, <1>12, <1>15 DEF LegacyInv

(* A failed request fails the update.                                       *)
LEMMA RequestFailsKeeps ==
  ASSUME LegacyInv, RequestFails
  PROVE  LegacyInv'
<1>1. failures' \in Nat /\ ~Doing("idle")
  BY DEF RequestFails, LegacyFault, LegacyInv, CollectionTyped, Doing
<1> QED BY <1>1, UpdateFailsKeeps DEF RequestFails

(* What an interval has where the fetch did not reach agrees with what was  *)
(* fetched, because the session both have does.                             *)
LEMMA UnrevisedAgree ==
  ASSUME LegacyInv, Doing("fetching"), collecting.at > collecting.target, ~torn,
         ~(AdjustedRevision /\ collecting.from > WindowStart(collecting.target)),
         NEW m \in collecting.target .. now, FetchedAt(m),
         NEW i \in Interval, NEW s \in LegacySession, outputs[i][s] # 0,
         WindowStart(collecting.target) <= s, s < collecting.from
  PROVE  outputs[i][s] = PriceSeen(s, m)
<1> USE LegacyConstants
<1>1. CollectionTyped /\ FilesCurrent /\ FetchCurrent
  BY DEF LegacyInv
<1>2. PICK f \in Nat, t \in Nat, w \in Nat :
        /\ f = collecting.from /\ t = collecting.target /\ w = WindowStart(t)
        /\ w >= 1 /\ w <= f /\ f <= t /\ collecting.at = t + 1
  <2>1. collecting \in CollectionRecord
    BY <1>1 DEF CollectionTyped
  <2>2. collecting.target \in Nat /\ collecting.from \in Nat /\ collecting.at \in Nat
    BY <2>1 DEF CollectionRecord
  <2>3. WindowStart(collecting.target) \in Nat /\ WindowStart(collecting.target) >= 1
    <3>1. WindowStart(collecting.target) \in Nat \ {0}
      BY <2>2, WindowThere
    <3> QED BY <3>1
  <2>4. /\ collecting.from \in WindowStart(collecting.target) .. collecting.target
        /\ collecting.at \in collecting.from .. collecting.target + 1
    BY <1>1 DEF FetchCurrent
  <2>5. collecting.at = collecting.target + 1
    BY <2>2, <2>4
  <2> QED BY <2>2, <2>3, <2>4, <2>5
<1>3. s \in Nat /\ w <= s /\ s < f
  BY <1>2
<1>4. f # w /\ f > w
  BY <1>2, <1>3
<1>5. ~AdjustedRevision
  BY <1>2, <1>4
<1>6. \E x \in LegacySession : outputs[i][x] # 0 /\ f <= x /\ x <= t
  <2>1. \/ collecting.from = WindowStart(collecting.target)
        \/ \E x \in LegacySession :
             outputs[i][x] # 0 /\ collecting.from <= x /\ x <= collecting.target
    BY <1>1 DEF FetchCurrent, Doing
  <2> QED BY <1>2, <1>4, <2>1
<1>7. PICK z \in LegacySession : outputs[i][z] # 0 /\ f <= z /\ z <= t
  BY <1>6
<1>8. z \in traded /\ z \in Nat /\ z < collecting.at
  <2>1. z \in traded /\ z \in Nat
    BY <1>1, <1>7 DEF FilesCurrent
  <2> QED BY <1>2, <1>7, <2>1
<1>9. collecting.got[z] # 0
  <2>1. collecting.got[z] # 0 <=> z \in traded /\ collecting.from <= z /\ z < collecting.at
    BY <1>1 DEF FetchCurrent
  <2> QED BY <1>2, <1>7, <1>8, <2>1
<1>10. outputs[i] \in [LegacySession -> Nat]
  BY <1>1 DEF CollectionTyped
<1>11. z \in w .. t
  BY <1>2, <1>7, <1>8
<1>12. Existing(i)[z] = outputs[i][z] /\ z \in Stored(Existing(i))
  <2>1. z \in WindowStart(collecting.target) .. collecting.target
    BY <1>2, <1>11
  <2>2. PICK g, c : g = outputs[i] /\ c = collecting.target
    OBVIOUS
  <2>3. g \in [LegacySession -> Nat] /\ Existing(i) = Trimmed(g, c)
    BY <1>10, <2>2 DEF Existing
  <2>4. Trimmed(g, c)[z] = g[z]
    BY <1>7, <2>1, <2>2 DEF Trimmed
  <2> QED BY <1>7, <2>2, <2>3, <2>4 DEF Stored
<1>13. z \in Stored(collecting.got)
  BY <1>9 DEF Stored
<1>14. outputs[i][z] = collecting.got[z]
  BY <1>5, <1>12, <1>13 DEF AdjustedRevision, PriceChanged
<1>15. outputs[i][z] = PriceSeen(z, m)
  BY <1>9, <1>14 DEF FetchedAt
<1>16. PICK n \in 0 .. now : AdjustedAt(outputs[i], n)
  BY <1>1 DEF FilesCurrent
<1>17. z <= n /\ outputs[i][z] = PriceSeen(z, n) /\ outputs[i][s] = PriceSeen(s, n)
  BY <1>7, <1>16 DEF AdjustedAt
<1>18. m \in Nat /\ n \in Nat /\ z <= m /\ s <= z
  <2>1. now \in Nat
    BY <1>1 DEF CollectionTyped
  <2> QED BY <1>2, <1>3, <1>7, <1>8, <1>16, <2>1
<1>19. PriceSeen(s, m) = PriceSeen(s, n)
  <2>1. PriceSeen(z, m) = PriceSeen(z, n)
    BY <1>15, <1>17
  <2>2. s \in Nat /\ z \in Nat /\ z <= n
    BY <1>3, <1>8, <1>17
  <2> QED BY <1>1, <1>18, <2>1, <2>2, SameAdjustment
<1> QED BY <1>17, <1>19

(* The comparison fails, fetches the window again, or goes on to save what  *)
(* agrees with the files.                                                   *)
LEMMA CompareKeeps ==
  ASSUME LegacyInv, Compare
  PROVE  LegacyInv'
<1> USE LegacyConstants
<1>1. /\ UNCHANGED <<provider, outputs, inactive, report, torn, failures>>
      /\ Doing("fetching") /\ collecting.at > collecting.target /\ ~Doing("idle")
  BY DEF Compare, Doing
<1>2. /\ collecting \in CollectionRecord /\ 1 <= collecting.target /\ collecting.target <= now
      /\ checkpoint.target <= collecting.target /\ CollectionTyped /\ failures' \in Nat
      /\ inactive' \in [last : 0 .. MaxSession, checked : Nat]
  BY <1>1 DEF LegacyInv, CollectionTyped
<1>3. CASE UpdateFails
  BY <1>1, <1>2, <1>3, UpdateFailsKeeps
<1>4. CASE BeginFetch(WindowStart(collecting.target)) /\ UNCHANGED checkpoint
  <2>1. WindowStart(collecting.target) \in WindowStart(collecting.target) .. collecting.target
    <3>1. collecting.target \in Nat
      BY <1>2 DEF CollectionRecord
    <3> QED BY <1>2, <3>1, WindowThere
  <2> QED BY <1>1, <1>2, <1>4, <2>1, FetchBegins
<1>5. CASE /\ collecting' = [collecting EXCEPT !.phase = "saving", !.todo = 1] /\ UNCHANGED checkpoint
           /\ ~(AdjustedRevision /\ collecting.from > WindowStart(collecting.target))
  <2>1. UNCHANGED <<now, traded, exdates, outputs, listed, checkpoint, torn>>
    BY <1>1, <1>5 DEF provider
  <2>2. /\ collecting' \in CollectionRecord /\ collecting'.phase = "saving" /\ collecting'.todo = 1
        /\ collecting'.target = collecting.target /\ collecting'.from = collecting.from
        /\ collecting'.at = collecting.at /\ collecting'.got = collecting.got
        /\ collecting'.known = collecting.known
    BY <1>2, <1>5 DEF CollectionRecord
  <2>3. CollectionTyped'
    BY <1>1, <1>2, <2>1, <2>2 DEF CollectionTyped
  <2>4. FilesCurrent'
    BY <2>1, FilesKept
  <2>5. /\ collecting.from \in WindowStart(collecting.target) .. collecting.target
        /\ collecting.at \in collecting.from .. collecting.target + 1
        /\ \A s \in LegacySession :
             collecting.got[s] # 0 <=> s \in traded /\ collecting.from <= s /\ s < collecting.at
        /\ \A i \in Interval :
             \/ collecting.from = WindowStart(collecting.target)
             \/ \E s \in LegacySession :
                  outputs[i][s] # 0 /\ collecting.from <= s /\ s <= collecting.target
    BY <1>1 DEF LegacyInv, FetchCurrent, Doing
  <2>6. collecting.at = collecting.target + 1 /\ collecting.at > collecting.from
    <3>1. collecting.at \in Nat /\ collecting.target \in Nat /\ collecting.from \in Nat
      BY <1>2 DEF CollectionRecord
    <3> QED BY <1>1, <2>5, <3>1
  <2>7. ASSUME ~torn PROVE \E m \in collecting.target .. now : FetchedAt(m)'
    <3>1. PICK m \in collecting.target .. now : FetchedAt(m)
      BY <1>1, <2>6, <2>7 DEF LegacyInv, FetchCurrent
    <3>2. \A i \in Interval, s \in LegacySession :
            outputs[i][s] # 0 /\ WindowStart(collecting.target) <= s /\ s < collecting.from
              => outputs[i][s] = PriceSeen(s, m)
      BY <1>1, <1>5, <2>7, <3>1, UnrevisedAgree
    <3>3. \A i \in Interval : ~(i < 1)
      OBVIOUS
    <3>4. FetchedAt(m)'
      BY <2>1, <2>2, <3>1, <3>2, <3>3, HistoryStill DEF FetchedAt, Doing
    <3> QED BY <3>4
  <2>8. \A i \in Interval : ~(i < 1)
    OBVIOUS
  <2>9. 1 \in 1 .. Len(OutputIntervals) + 1
    OBVIOUS
  <2> HIDE DEF FetchedAt
  <2>10. FetchCurrent'
    BY <2>1, <2>2, <2>5, <2>6, <2>7, <2>8, <2>9, HistoryStill DEF FetchCurrent, Doing
  <2> QED BY <2>3, <2>4, <2>10 DEF LegacyInv
<1> QED BY <1>3, <1>4, <1>5 DEF Compare

(* What an interval holds once the fetched range is merged into its file.   *)
LEMMA MergedHolds ==
  ASSUME CollectionTyped, NEW i \in Interval
  PROVE  /\ Merged(i) \in [LegacySession -> Nat]
         /\ \A s \in LegacySession :
              /\ s \in WindowStart(collecting.target) .. collecting.target =>
                   Merged(i)[s] = IF collecting.got[s] # 0 THEN collecting.got[s] ELSE outputs[i][s]
              /\ s \notin WindowStart(collecting.target) .. collecting.target => Merged(i)[s] = 0
<1> DEFINE f == [s \in LegacySession |-> IF collecting.got[s] # 0 THEN collecting.got[s] ELSE outputs[i][s]]
<1>1. outputs[i] \in [LegacySession -> Nat] /\ collecting.got \in [LegacySession -> Nat]
  BY DEF CollectionTyped, CollectionRecord
<1>2. f \in [LegacySession -> Nat]
  BY <1>1
<1>3. \A s \in LegacySession : f[s] = IF collecting.got[s] # 0 THEN collecting.got[s] ELSE outputs[i][s]
  OBVIOUS
<1>4. Merged(i) = Trimmed(f, collecting.target)
  BY DEF Merged
<1> HIDE DEF f
<1> QED BY <1>2, <1>3, <1>4, TrimmedHolds

(* The saved file of one interval: it has every traded session of the       *)
(* window, and unless a fetch was torn its prices are those of one moment.  *)
LEMMA SavedFileCurrent ==
  ASSUME LegacyInv, Doing("saving"), NEW j \in Interval, j = collecting.todo
  PROVE  /\ \A s \in LegacySession : Merged(j)[s] # 0 =>
              s \in traded /\ WindowStart(collecting.target) <= s /\ s <= collecting.target
         /\ \A s \in traded : WindowStart(now) <= s /\ s <= collecting.target => Merged(j)[s] # 0
         /\ \A m \in collecting.target .. now : ~torn /\ FetchedAt(m) => AdjustedAt(Merged(j), m)
<1> USE LegacyConstants
<1>1. CollectionTyped /\ FilesCurrent /\ FetchCurrent
  BY DEF LegacyInv
<1>2. PICK f \in Nat, t \in Nat, w \in Nat, v \in Nat :
        /\ f = collecting.from /\ t = collecting.target /\ w = WindowStart(t) /\ v = WindowStart(now)
        /\ w >= 1 /\ w <= f /\ f <= t /\ collecting.at = t + 1 /\ w <= v /\ t <= now
  <2>1. collecting \in CollectionRecord /\ collecting.target <= now /\ now \in Nat
    BY <1>1 DEF CollectionTyped
  <2>2. collecting.target \in Nat /\ collecting.from \in Nat /\ collecting.at \in Nat
    BY <2>1 DEF CollectionRecord
  <2>3. WindowStart(collecting.target) \in Nat \ {0} /\ WindowStart(now) \in Nat \ {0}
    BY <2>1, <2>2, WindowThere
  <2>4. WindowStart(collecting.target) <= WindowStart(now)
    BY <2>1, <2>2, WindowMovesOn
  <2>5. /\ collecting.from \in WindowStart(collecting.target) .. collecting.target
        /\ collecting.at = collecting.target + 1
    BY <1>1 DEF FetchCurrent
  <2> QED BY <2>1, <2>2, <2>3, <2>4, <2>5
<1>3. \A s \in LegacySession : s \in Nat /\ (s \in WindowStart(collecting.target) .. collecting.target <=> w <= s /\ s <= t)
  BY <1>2
<1>4. \A s \in LegacySession :
        /\ w <= s /\ s <= t => Merged(j)[s] = IF collecting.got[s] # 0 THEN collecting.got[s] ELSE outputs[j][s]
        /\ ~(w <= s /\ s <= t) => Merged(j)[s] = 0
  BY <1>1, <1>3, MergedHolds
<1>5. \A s \in LegacySession : collecting.got[s] # 0 <=> s \in traded /\ f <= s /\ s <= t
  <2>1. \A s \in LegacySession : collecting.got[s] # 0 <=> s \in traded /\ collecting.from <= s /\ s < collecting.at
    BY <1>1 DEF FetchCurrent
  <2>2. \A s \in LegacySession : s \in Nat /\ (s < collecting.at <=> s <= t)
    BY <1>2
  <2> QED BY <1>2, <2>1, <2>2
<1>6. \A s \in LegacySession : Merged(j)[s] # 0 => s \in traded /\ w <= s /\ s <= t
  BY <1>1, <1>4, <1>5 DEF FilesCurrent
<1>7. ASSUME NEW s \in traded, v <= s, s <= t
      PROVE  Merged(j)[s] # 0
  <2>1. s \in LegacySession /\ s \in Nat
    BY <1>1 DEF CollectionTyped
  <2>2. w <= s
    BY <1>2, <1>7, <2>1
  <2>3. CASE f <= s
    BY <1>4, <1>5, <1>7, <2>1, <2>2, <2>3
  <2>4. CASE s < f
    <3>1. \/ collecting.from = WindowStart(collecting.target)
          \/ \E x \in LegacySession :
               outputs[j][x] # 0 /\ collecting.from <= x /\ x <= collecting.target
      BY <1>1 DEF FetchCurrent, Doing
    <3>2. f # w
      BY <1>2, <2>1, <2>2, <2>4
    <3>3. PICK x \in LegacySession : outputs[j][x] # 0 /\ f <= x
      BY <1>2, <3>1, <3>2
    <3>4. s <= x /\ WindowStart(now) <= s
      BY <1>2, <1>3, <1>7, <2>1, <2>4, <3>3
    <3>5. outputs[j][s] # 0
      BY <1>1, <3>3, <3>4 DEF FilesCurrent
    <3> QED BY <1>4, <1>7, <2>1, <2>2, <3>5
  <2> QED BY <1>2, <2>1, <2>3, <2>4
<1>8. ASSUME NEW m \in collecting.target .. now, ~torn, FetchedAt(m)
      PROVE  AdjustedAt(Merged(j), m)
  <2> SUFFICES ASSUME NEW s \in LegacySession, Merged(j)[s] # 0
               PROVE  s <= m /\ Merged(j)[s] = PriceSeen(s, m)
    BY DEF AdjustedAt
  <2>1. w <= s /\ s <= t /\ s \in Nat /\ s \in traded
    BY <1>3, <1>6
  <2>2. s <= m
    BY <1>1, <1>2, <2>1 DEF CollectionTyped
  <2>3. CASE collecting.got[s] # 0
    BY <1>4, <1>8, <2>1, <2>2, <2>3 DEF FetchedAt
  <2>4. CASE collecting.got[s] = 0
    <3>1. Merged(j)[s] = outputs[j][s] /\ s < f
      BY <1>2, <1>4, <1>5, <2>1, <2>4
    <3>2. ~(j < collecting.todo) /\ outputs[j][s] # 0
      BY <3>1
    <3>3. outputs[j][s] = PriceSeen(s, m)
      BY <1>2, <1>8, <2>1, <3>1, <3>2 DEF FetchedAt
    <3> QED BY <2>2, <3>1, <3>3
  <2> QED BY <2>3, <2>4
<1> QED BY <1>2, <1>6, <1>7, <1>8

(* One interval saved; the others wait for their turn.                      *)
LEMMA SaveIntervalKeeps ==
  ASSUME LegacyInv, SaveInterval
  PROVE  LegacyInv'
<1> USE LegacyConstants
<1>1. PICK j \in Interval : j = collecting.todo
  BY DEF SaveInterval
<1>2. /\ UNCHANGED <<now, traded, exdates, checkpoint, inactive, listed, report, torn, failures>>
      /\ outputs' = [outputs EXCEPT ![j] = Merged(j)]
      /\ collecting' = [collecting EXCEPT !.todo = @ + 1]
      /\ Doing("saving")
  BY <1>1 DEF SaveInterval, provider
<1>3. /\ collecting \in CollectionRecord /\ 1 <= collecting.target /\ collecting.target <= now
      /\ checkpoint.target <= collecting.target /\ CollectionTyped /\ now \in Nat
      /\ collecting.target \in Nat /\ checkpoint.target \in Nat
  BY <1>2 DEF LegacyInv, CollectionTyped, CollectionRecord, Doing
<1>4. /\ collecting' \in CollectionRecord /\ collecting'.phase = "saving" /\ collecting'.todo = j + 1
      /\ collecting'.target = collecting.target /\ collecting'.from = collecting.from
      /\ collecting'.at = collecting.at /\ collecting'.got = collecting.got
      /\ collecting'.known = collecting.known
  <2>1. collecting.todo + 1 = j + 1 /\ j + 1 \in Nat
    BY <1>1
  <2>2. collecting' = [collecting EXCEPT !.todo = j + 1]
    BY <1>1, <1>2
  <2>3. collecting.phase = "saving"
    BY <1>2 DEF Doing
  <2> QED BY <1>3, <2>1, <2>2, <2>3 DEF CollectionRecord
<1>5. Merged(j) \in [LegacySession -> Nat]
  BY <1>3, MergedHolds
<1>6. /\ outputs' \in [Interval -> [LegacySession -> Nat]]
      /\ outputs'[j] = Merged(j) /\ \A i \in Interval : i # j => outputs'[i] = outputs[i]
  BY <1>2, <1>3, <1>5 DEF CollectionTyped
<1>7. CollectionTyped'
  BY <1>2, <1>3, <1>4, <1>6 DEF CollectionTyped
<1>8. /\ \A s \in LegacySession : Merged(j)[s] # 0 =>
           s \in traded /\ WindowStart(collecting.target) <= s /\ s <= collecting.target
      /\ \A s \in traded : WindowStart(now) <= s /\ s <= collecting.target => Merged(j)[s] # 0
      /\ \A m \in collecting.target .. now : ~torn /\ FetchedAt(m) => AdjustedAt(Merged(j), m)
  BY <1>1, <1>2, SavedFileCurrent
<1>9. ASSUME ~torn
      PROVE  \E m \in collecting.target .. now : FetchedAt(m) /\ AdjustedAt(Merged(j), m)
  <2>1. collecting.at > collecting.from
    <3>1. collecting.from \in Nat /\ collecting.at = collecting.target + 1
          /\ collecting.from \in WindowStart(collecting.target) .. collecting.target
      BY <1>2, <1>3 DEF LegacyInv, FetchCurrent, CollectionRecord
    <3> QED BY <1>3, <3>1
  <2>2. PICK m \in collecting.target .. now : FetchedAt(m)
    BY <1>2, <1>9, <2>1 DEF LegacyInv, FetchCurrent
  <2> HIDE DEF FetchedAt, AdjustedAt
  <2> QED BY <1>8, <1>9, <2>2
<1>10. FilesCurrent'
  <2> SUFFICES ASSUME NEW i \in Interval
               PROVE  /\ \A s \in LegacySession : outputs'[i][s] # 0 => s \in traded
                      /\ \A s \in traded, r \in LegacySession :
                           outputs'[i][r] # 0 /\ WindowStart(now) <= s /\ s <= r => outputs'[i][s] # 0
                      /\ Vouched => \A s \in traded :
                           WindowStart(now) <= s /\ s <= checkpoint.target => outputs'[i][s] # 0
                      /\ ~torn => \E n \in 0 .. now :
                           AdjustedAt(outputs'[i], n) /\ (Vouched => n >= checkpoint.target)
    <3>1. Vouched' <=> Vouched
      BY <1>2 DEF Vouched
    <3>2. \A k, n : AdjustedAt(outputs[k], n)' <=> AdjustedAt(outputs'[k], n)
      BY <1>2 DEF AdjustedAt, PriceSeen
    <3> QED BY <1>2, <3>1, <3>2, HistoryStill DEF FilesCurrent
  <2>1. CASE i # j
    <3>1. outputs'[i] = outputs[i]
      BY <1>6, <2>1
    <3> HIDE DEF AdjustedAt, Vouched
    <3> QED BY <3>1 DEF LegacyInv, FilesCurrent
  <2>2. CASE i = j
    <3>1. outputs'[i] = Merged(j)
      BY <1>6, <2>2
    <3>2. ASSUME NEW s \in traded, NEW r \in LegacySession,
                 Merged(j)[r] # 0, WindowStart(now) <= s, s <= r
          PROVE  Merged(j)[s] # 0
      <4>1. s \in Nat /\ r <= collecting.target /\ r \in Nat
        BY <1>3, <1>8, <3>2 DEF CollectionTyped
      <4>2. s <= collecting.target
        BY <1>3, <3>2, <4>1
      <4> QED BY <1>8, <3>2, <4>2
    <3>3. ASSUME NEW s \in traded, WindowStart(now) <= s, s <= checkpoint.target
          PROVE  Merged(j)[s] # 0
      <4>1. s \in Nat
        BY <1>3 DEF CollectionTyped
      <4>2. s <= collecting.target
        BY <1>3, <3>3, <4>1
      <4> QED BY <1>8, <3>3, <4>2
    <3>4. ASSUME ~torn
          PROVE  \E n \in 0 .. now : AdjustedAt(Merged(j), n) /\ (Vouched => n >= checkpoint.target)
      <4>1. PICK m \in collecting.target .. now : AdjustedAt(Merged(j), m)
        BY <1>9, <3>4
      <4>2. m \in 0 .. now /\ m >= checkpoint.target
        BY <1>3
      <4> QED BY <4>1, <4>2
    <3> HIDE DEF AdjustedAt, Vouched
    <3> QED BY <1>8, <3>1, <3>2, <3>3, <3>4
  <2> QED BY <2>1, <2>2
<1>11. FetchCurrent'
  <2>1. /\ collecting.from \in WindowStart(collecting.target) .. collecting.target
        /\ collecting.at \in collecting.from .. collecting.target + 1
        /\ \A s \in LegacySession :
             collecting.got[s] # 0 <=> s \in traded /\ collecting.from <= s /\ s < collecting.at
        /\ \A i \in Interval : i >= collecting.todo =>
             \/ collecting.from = WindowStart(collecting.target)
             \/ \E s \in LegacySession :
                  outputs[i][s] # 0 /\ collecting.from <= s /\ s <= collecting.target
        /\ collecting.at = collecting.target + 1
        /\ \A i \in Interval, s \in traded :
             i < collecting.todo /\ WindowStart(now) <= s /\ s <= collecting.target
               => outputs[i][s] # 0
    BY <1>2 DEF LegacyInv, FetchCurrent, Doing
  <2>2. j + 1 \in 1 .. Len(OutputIntervals) + 1
    OBVIOUS
  <2>3. \A i \in Interval : (i >= j + 1 => i >= collecting.todo /\ i # j) /\ (i < j + 1 <=> i < j \/ i = j)
    BY <1>1
  <2>4. \A i \in Interval : i >= j + 1 =>
          \/ collecting.from = WindowStart(collecting.target)
          \/ \E s \in LegacySession :
               outputs'[i][s] # 0 /\ collecting.from <= s /\ s <= collecting.target
    <3> SUFFICES ASSUME NEW i \in Interval, i >= j + 1, collecting.from # WindowStart(collecting.target)
                 PROVE  \E s \in LegacySession :
                          outputs'[i][s] # 0 /\ collecting.from <= s /\ s <= collecting.target
      OBVIOUS
    <3>1. i >= collecting.todo /\ outputs'[i] = outputs[i]
      BY <1>6, <2>3
    <3>2. \E s \in LegacySession :
            outputs[i][s] # 0 /\ collecting.from <= s /\ s <= collecting.target
      BY <2>1, <3>1
    <3> QED BY <3>1, <3>2
  <2>5. \A i \in Interval, s \in traded :
          i < j + 1 /\ WindowStart(now) <= s /\ s <= collecting.target => outputs'[i][s] # 0
    BY <1>1, <1>6, <1>8, <2>1, <2>3
  <2>6. ASSUME ~torn PROVE \E m \in collecting.target .. now : FetchedAt(m)'
    <3>1. PICK m \in collecting.target .. now : FetchedAt(m) /\ AdjustedAt(Merged(j), m)
      BY <1>9, <2>6
    <3>2. \A i \in Interval, s \in LegacySession : outputs'[i][s] # 0 =>
            IF i < j + 1 THEN s <= m /\ outputs'[i][s] = PriceSeen(s, m)
            ELSE WindowStart(collecting.target) <= s /\ s < collecting.from
                   => outputs'[i][s] = PriceSeen(s, m)
      <4> SUFFICES ASSUME NEW i \in Interval, NEW s \in LegacySession, outputs'[i][s] # 0
                   PROVE  IF i < j + 1 THEN s <= m /\ outputs'[i][s] = PriceSeen(s, m)
                          ELSE WindowStart(collecting.target) <= s /\ s < collecting.from
                                 => outputs'[i][s] = PriceSeen(s, m)
        OBVIOUS
      <4>1. CASE i = j
        <5>1. i < j + 1 /\ outputs'[i] = Merged(j)
          BY <1>6, <2>3, <4>1
        <5> QED BY <3>1, <5>1 DEF AdjustedAt
      <4>2. CASE i # j
        <5>1. outputs'[i] = outputs[i] /\ (i < j + 1 <=> i < collecting.todo)
          BY <1>1, <1>6, <2>3, <4>2
        <5> QED BY <1>2, <3>1, <5>1 DEF FetchedAt
      <4> QED BY <4>1, <4>2
    <3>3. FetchedAt(m)'
      BY <1>2, <1>4, <3>1, <3>2, HistoryStill DEF FetchedAt, Doing
    <3> QED BY <3>3
  <2> HIDE DEF FetchedAt
  <2> QED BY <1>2, <1>4, <2>1, <2>2, <2>4, <2>5, <2>6, HistoryStill DEF FetchCurrent, Doing
<1> QED BY <1>7, <1>10, <1>11 DEF LegacyInv

(* Every file saved, the checkpoint may vouch for them.                     *)
LEMMA UpdateSucceedsKeeps ==
  ASSUME LegacyInv, UpdateSucceeds
  PROVE  LegacyInv'
<1> USE LegacyConstants
<1>1. /\ UNCHANGED <<now, traded, exdates, outputs, inactive, torn, listed, report, failures>>
      /\ collecting' = [collecting EXCEPT !.phase = "validating"]
      /\ checkpoint' = [status |-> "success", target |-> collecting.target, inactive |-> FALSE]
      /\ Doing("saving") /\ collecting.todo \notin Interval
  BY DEF UpdateSucceeds, provider, Phase, MarkStage
<1>2. /\ collecting' \in CollectionRecord /\ collecting'.phase = "validating"
      /\ collecting'.target = collecting.target /\ collecting.target \in Nat
      /\ 1 <= collecting.target /\ collecting.target <= now /\ now \in Nat
      /\ collecting.from \in Nat
  BY <1>1 DEF LegacyInv, CollectionTyped, CollectionRecord, Doing
<1>3. checkpoint' \in [status : {"none", "success", "failed"}, target : Nat, inactive : BOOLEAN]
      /\ checkpoint'.target = collecting.target
  BY <1>1, <1>2
<1>4. CollectionTyped'
  BY <1>1, <1>2, <1>3 DEF LegacyInv, CollectionTyped
<1>5. \A i \in Interval : i < collecting.todo
  <2>1. collecting.todo \in 1 .. Len(OutputIntervals) + 1
    BY <1>1 DEF LegacyInv, FetchCurrent
  <2>2. collecting.todo = Len(OutputIntervals) + 1
    BY <1>1, <2>1
  <2> QED BY <2>2
<1>6. FilesCurrent'
  <2> SUFFICES ASSUME NEW i \in Interval
               PROVE  /\ \A s \in LegacySession : outputs[i][s] # 0 => s \in traded
                      /\ \A s \in traded, r \in LegacySession :
                           outputs[i][r] # 0 /\ WindowStart(now) <= s /\ s <= r => outputs[i][s] # 0
                      /\ \A s \in traded :
                           WindowStart(now) <= s /\ s <= collecting.target => outputs[i][s] # 0
                      /\ ~torn => \E n \in 0 .. now : AdjustedAt(outputs[i], n) /\ n >= collecting.target
    <3> HIDE DEF AdjustedAt
    <3> QED BY <1>1, <1>3, HistoryStill DEF FilesCurrent
  <2>1. /\ \A s \in LegacySession : outputs[i][s] # 0 => s \in traded
        /\ \A s \in traded, r \in LegacySession :
             outputs[i][r] # 0 /\ WindowStart(now) <= s /\ s <= r => outputs[i][s] # 0
    BY DEF LegacyInv, FilesCurrent
  <2>2. \A s \in traded : WindowStart(now) <= s /\ s <= collecting.target => outputs[i][s] # 0
    BY <1>1, <1>5 DEF LegacyInv, FetchCurrent
  <2>3. ASSUME ~torn
        PROVE  \E n \in 0 .. now : AdjustedAt(outputs[i], n) /\ n >= collecting.target
    <3>1. collecting.at > collecting.from
      <4>1. collecting.at = collecting.target + 1
            /\ collecting.from \in WindowStart(collecting.target) .. collecting.target
        BY <1>1 DEF LegacyInv, FetchCurrent
      <4> QED BY <1>2, <4>1
    <3>2. PICK m \in collecting.target .. now : FetchedAt(m)
      BY <1>1, <2>3, <3>1 DEF LegacyInv, FetchCurrent
    <3>3. AdjustedAt(outputs[i], m)
      BY <1>1, <1>5, <3>2 DEF FetchedAt, AdjustedAt
    <3>4. m \in 0 .. now /\ m >= collecting.target
      BY <1>2
    <3> QED BY <3>3, <3>4
  <2> QED BY <2>1, <2>2, <2>3
<1>7. FetchCurrent'
  BY <1>2, NoFetch
<1> QED BY <1>4, <1>6, <1>7 DEF LegacyInv

(* Every step of the collection keeps the invariant.                        *)
LEMMA LegacyStepKeeps == LegacyInv /\ [LegacyNext]_legacyVars => LegacyInv'
<1> SUFFICES ASSUME LegacyInv, [LegacyNext]_legacyVars PROVE LegacyInv'
  OBVIOUS
<1>1. ASSUME FinishRun PROVE LegacyInv'
  <2>1. /\ UNCHANGED <<now, traded, exdates, outputs, checkpoint, inactive, torn, listed>>
        /\ collecting' = NotRunning /\ report' \in {"success", "failed"} /\ failures' \in Nat
    BY <1>1 DEF FinishRun, provider, LegacyInv, CollectionTyped
  <2> QED BY <2>1, RunEndsKeeps
<1>2. ASSUME CollectorDies PROVE LegacyInv'
  <2>1. /\ UNCHANGED <<now, traded, exdates, outputs, checkpoint, inactive, torn, listed>>
        /\ collecting' = NotRunning /\ report' = report /\ failures' \in Nat
        /\ report \in {"none", "running", "success", "failed"}
    BY <1>2 DEF CollectorDies, LegacyFault, provider, LegacyInv, CollectionTyped
  <2> QED BY <2>1, RunEndsKeeps
<1>3. ASSUME UNCHANGED legacyVars PROVE LegacyInv'
  <2>1. UNCHANGED <<now, traded, exdates, outputs, checkpoint, inactive, torn, listed, collecting, report, failures>>
    BY <1>3 DEF legacyVars, provider
  <2>2. CollectionTyped'
    BY <2>1 DEF LegacyInv, CollectionTyped, Doing
  <2>3. FilesCurrent'
    BY <2>1, FilesKept
  <2>4. FetchCurrent'
    <3>1. \A m : FetchedAt(m)' <=> FetchedAt(m)
      BY <2>1, HistoryStill DEF FetchedAt, Doing
    <3> QED BY <2>1, <3>1, HistoryStill DEF LegacyInv, FetchCurrent, Doing
  <2> QED BY <2>2, <2>3, <2>4 DEF LegacyInv
<1> QED BY <1>1, <1>2, <1>3, SessionClosesKeeps, ListingChangesKeeps, StartCollectingKeeps,
           SkipCompleteKeeps, SkipInactiveKeeps, FetchSymbolKeeps, FetchChunkKeeps,
           RequestFailsKeeps, CompareKeeps, SaveIntervalKeeps, UpdateSucceedsKeeps DEF LegacyNext

(* The invariant gives the types and what the checkpoint promises.          *)
LEMMA LegacyInvSound == LegacyInv => LegacyTypeOK /\ HistoryCurrent
<1> SUFFICES ASSUME LegacyInv PROVE LegacyTypeOK /\ HistoryCurrent
  OBVIOUS
<1> USE LegacyConstants
<1>1. LegacyTypeOK
  <2>1. now \in LegacySession /\ traded \cup exdates \subseteq LegacySession /\ failures \in Nat
    BY DEF LegacyInv, CollectionTyped
  <2>2. checkpoint.status \in {"none", "success", "failed"} /\ checkpoint.target \in 0 .. MaxSession
    BY DEF LegacyInv, CollectionTyped
  <2>3. collecting.phase \in {"idle", "checking", "fetching", "saving", "validating"}
    BY DEF LegacyInv, CollectionTyped, CollectionRecord
  <2>4. inactive.last \in 0 .. MaxSession
    BY DEF LegacyInv, CollectionTyped
  <2> QED BY <2>1, <2>2, <2>3, <2>4 DEF LegacyTypeOK, LegacyInv, CollectionTyped
<1>2. HistoryCurrent
  <2> SUFFICES ASSUME Vouched, ~torn, NEW i \in Interval
               PROVE  /\ traded \cap (WindowStart(now) .. checkpoint.target) \subseteq Stored(outputs[i])
                      /\ \E n \in checkpoint.target .. now : AsOf(i, n)
    BY DEF HistoryCurrent, Vouched
  <2>1. now \in Nat /\ checkpoint.target \in Nat /\ traded \subseteq LegacySession
    BY DEF LegacyInv, CollectionTyped
  <2>2. \A s \in traded : WindowStart(now) <= s /\ s <= checkpoint.target => outputs[i][s] # 0
    BY DEF LegacyInv, FilesCurrent
  <2>3. PICK n \in 0 .. now : AdjustedAt(outputs[i], n) /\ n >= checkpoint.target
    BY DEF LegacyInv, FilesCurrent
  <2>4. n \in checkpoint.target .. now
    BY <2>1, <2>3
  <2>5. AsOf(i, n)
    BY <2>3 DEF AsOf, AdjustedAt, Stored
  <2>6. traded \cap (WindowStart(now) .. checkpoint.target) \subseteq Stored(outputs[i])
    BY <2>1, <2>2 DEF Stored
  <2> QED BY <2>4, <2>5, <2>6
<1> QED BY <1>1, <1>2

(* The checkpoint tells the truth, for every window, chunk size and number  *)
(* of intervals, through crashes, failed requests and adjustments: what it  *)
(* marks complete is in every file, adjusted as of one moment no earlier    *)
(* (run_collection, update_symbol_data, mark_stage).                        *)
THEOREM LegacyIsCurrent == LegacySpec => []HistoryCurrent
<1>1. LegacyInit => LegacyInv
  BY LegacyInitGood
<1>2. LegacyInv /\ [LegacyNext]_legacyVars => LegacyInv'
  BY LegacyStepKeeps
<1>3. LegacyInv => HistoryCurrent
  BY LegacyInvSound
<1> QED BY <1>1, <1>2, <1>3, PTL DEF LegacySpec

-----------------------------------------------------------------------------
(* The stream: numbers and sets of entries                                  *)

(* A counter goes up by one until it reaches its limit.                     *)
LEMMA BumpValue ==
  ASSUME NEW n \in Nat
  PROVE  /\ Bump(n) \in 1 .. MaxReceives + 1
         /\ Bump(n) = IF n < MaxReceives + 1 THEN n + 1 ELSE MaxReceives + 1
<1>1. MaxReceives \in Nat /\ MaxReceives >= 1
  BY RedisStreamAssumption
<1> DEFINE least == IF n < MaxReceives + 1 THEN n + 1 ELSE MaxReceives + 1
<1>2. /\ least \in {n + 1, MaxReceives + 1}
      /\ \A y \in {n + 1, MaxReceives + 1} : least <= y
  BY <1>1
<1>3. \A x \in {n + 1, MaxReceives + 1} :
        (\A y \in {n + 1, MaxReceives + 1} : x <= y) => x = least
  BY <1>1
<1> HIDE DEF least
<1>4. Min({n + 1, MaxReceives + 1}) = least
  BY <1>2, <1>3 DEF Min
<1> QED BY <1>1, <1>4 DEF Bump, least

(* Every set of entries is finite.                                          *)
LEMMA EntriesFinite ==
  ASSUME NEW S \in SUBSET StreamEntry
  PROVE  IsFiniteSet(S) /\ Cardinality(S) \in Nat
<1>1. StreamEntry = 1 .. Len(EntryKind) /\ Len(EntryKind) \in Nat
  BY RedisStreamAssumption DEF StreamEntry
<1>2. IsFiniteSet(StreamEntry)
  BY <1>1, FS_Interval
<1> QED BY <1>2, FS_Subset, FS_CardinalityType

(* Of two entries of a set the earlier one has fewer entries before it.     *)
LEMMA BeforeIsStrict ==
  ASSUME NEW S \in SUBSET StreamEntry, NEW e \in S
  PROVE  /\ Before(e, S) \in 0 .. Cardinality(S) - 1
         /\ \A f \in S : e < f => Before(e, S) < Before(f, S)
<1>1. \A o \in S : o \in Nat
  BY RedisStreamAssumption DEF StreamEntry
<1>2. ASSUME NEW T \in SUBSET S, NEW U \in SUBSET T, e \in T, e \notin U
      PROVE  Cardinality(U) < Cardinality(T)
  <2>1. IsFiniteSet(T) /\ IsFiniteSet(U) /\ Cardinality(T) \in Nat /\ Cardinality(U) \in Nat
    BY EntriesFinite
  <2>2. Cardinality(U) <= Cardinality(T) /\ (Cardinality(T) = Cardinality(U) => T = U)
    BY <2>1, FS_Subset
  <2> QED BY <1>2, <2>1, <2>2
<1> DEFINE U == {o \in S : o < e}
<1>3. e \notin U /\ U \in SUBSET S
  BY <1>1
<1>4. Cardinality(U) < Cardinality(S)
  BY <1>2, <1>3
<1>5. Before(e, S) \in 0 .. Cardinality(S) - 1
  BY <1>3, <1>4, EntriesFinite DEF Before
<1>6. ASSUME NEW f \in S, e < f PROVE Before(e, S) < Before(f, S)
  <2> DEFINE T == {o \in S : o < f}
  <2>1. T \in SUBSET S /\ U \in SUBSET T /\ e \in T
    <3>1. \A o \in S : o < e => o < f
      BY <1>1, <1>6
    <3> QED BY <1>6, <3>1
  <2>2. Cardinality(U) < Cardinality(T)
    BY <1>2, <1>3, <2>1
  <2> QED BY <2>2 DEF Before
<1> QED BY <1>5, <1>6

(* So the entries of a set can be handed out one after the other: for each  *)
(* place there is the entry that belongs there.                             *)
LEMMA EveryPlaceTaken ==
  ASSUME NEW S \in SUBSET StreamEntry, NEW i \in 1 .. Cardinality(S)
  PROVE  \E x \in S : Before(x, S) = i - 1
<1> DEFINE n == Cardinality(S)
<1> DEFINE place == [e \in S |-> Before(e, S)]
<1>1. IsFiniteSet(S) /\ n \in Nat /\ StreamEntry \subseteq Nat
  BY EntriesFinite, RedisStreamAssumption DEF StreamEntry
<1>2. IsFiniteSet(0 .. n - 1) /\ Cardinality(0 .. n - 1) = n
  <2>1. 0 \in Int /\ n - 1 \in Int
    BY <1>1
  <2>2. IsFiniteSet(0 .. n - 1)
        /\ Cardinality(0 .. n - 1) = IF 0 > n - 1 THEN 0 ELSE (n - 1) - 0 + 1
    BY <2>1, FS_Interval
  <2> HIDE DEF n
  <2> QED BY <1>1, <2>2
<1>3. place \in [S -> 0 .. n - 1]
  BY BeforeIsStrict
<1>4. ASSUME NEW e \in S, NEW f \in S, place[e] = place[f] PROVE e = f
  <2>1. /\ e < f => Before(e, S) < Before(f, S)
        /\ f < e => Before(f, S) < Before(e, S)
        /\ Before(e, S) \in Nat /\ Before(f, S) \in Nat
    BY BeforeIsStrict
  <2>2. e \in Nat /\ f \in Nat
    BY <1>1
  <2> QED BY <1>4, <2>1, <2>2
<1> HIDE DEF place
<1>5. place \in Injection(S, 0 .. n - 1)
  BY <1>3, <1>4 DEF Injection, IsInjective
<1>6. place \in Surjection(S, 0 .. n - 1)
  BY <1>1, <1>2, <1>5, FS_Injection
<1>7. i - 1 \in 0 .. n - 1
  BY <1>1
<1>8. PICK x \in S : place[x] = i - 1
  BY <1>6, <1>7 DEF Surjection
<1> QED BY <1>8 DEF place

DeliveryRecord == [entry : StreamEntry, count : Nat, whole : BOOLEAN]

(* What is handed out are entries of the set, with the counts given.        *)
LEMMA DeliveriesGood ==
  ASSUME NEW S \in SUBSET StreamEntry, NEW count, \A e \in S : count[e] \in Nat
  PROVE  /\ Deliveries(S, count) \in Seq(DeliveryRecord)
         /\ Len(Deliveries(S, count)) = Cardinality(S)
         /\ \A i \in 1 .. Cardinality(S) :
              LET d == Deliveries(S, count)[i] IN d.entry \in S /\ d.count = count[d.entry]
<1> DEFINE at(i) == CHOOSE x \in S : Before(x, S) = i - 1
<1>1. Cardinality(S) \in Nat
  BY EntriesFinite
<1>2. \A i \in 1 .. Cardinality(S) : at(i) \in S
  BY EveryPlaceTaken
<1> DEFINE d(i) == [entry |-> at(i), count |-> count[at(i)], whole |-> at(i) > trimmed]
<1>3. Deliveries(S, count) = [i \in 1 .. Cardinality(S) |-> d(i)]
  BY DEF Deliveries
<1> HIDE DEF at
<1>4. \A i \in 1 .. Cardinality(S) :
        d(i) \in DeliveryRecord /\ d(i).entry \in S /\ d(i).count = count[d(i).entry]
  BY <1>2 DEF DeliveryRecord
<1> HIDE DEF d
<1> QED BY <1>1, <1>3, <1>4

-----------------------------------------------------------------------------
(* The stream: the inductive invariant                                      *)

ReaderPhases == {"starting", "ready", "claiming", "reading", "handle", "ack"}
PendingRecord == [owner : Reader \cup {"none"}, idle : BOOLEAN, times : 0 .. MaxReceives + 1]

StreamTyped ==
  /\ appended \in 0 .. Len(EntryKind) /\ trimmed \in 0 .. appended
  /\ cursor \in -1 .. appended
  /\ pending \in [StreamEntry -> PendingRecord]
  /\ delivered \in [StreamEntry -> 0 .. MaxReceives + 1]
  /\ accepted \subseteq StreamEntry
  /\ parkedAs \in [StreamEntry -> SUBSET {"MALFORMED_EVENT", "MAX_RECEIVES_EXCEEDED"}]
  /\ streamFaults \in 0 .. MaxStreamFaults

(* A pending entry was handed out at least as often as its count says.      *)
Counted ==
  \A e \in StreamEntry : /\ pending[e].times <= delivered[e]
                         /\ pending[e] # NotPending => pending[e].times >= 1

(* What a consumer holds: counts it read from the pending entries, and      *)
(* deliveries whose counts are no more than the times the entry was handed  *)
(* out; the entry it is about to acknowledge is settled.                    *)
ReaderGood(r, handedOut, taken, parked) ==
  /\ r = [phase |-> r.phase, counts |-> r.counts, batch |-> r.batch]
  /\ r.phase \in ReaderPhases
  /\ r.batch \in Seq(DeliveryRecord)
  /\ DOMAIN r.counts \subseteq StreamEntry
  /\ \A e \in DOMAIN r.counts : r.counts[e] \in Nat /\ r.counts[e] <= Bump(handedOut[e])
  /\ \A i \in 1 .. Len(r.batch) : r.batch[i].count <= handedOut[r.batch[i].entry]
  /\ r.phase \in {"handle", "ack"} => r.batch # <<>>
  /\ r.phase = "ack" => Head(r.batch).entry \in taken \/ parked[Head(r.batch).entry] # {}

ReadersGood ==
  /\ reader = [c \in Reader |-> reader[c]]
  /\ \A c \in Reader : ReaderGood(reader[c], delivered, accepted, parkedAs)

StreamInv == StreamTyped /\ Counted /\ ReadersGood /\ NoEntryDropped

(* A consumer keeps what it knows while entries are handed out, accepted    *)
(* and parked by others.                                                    *)
LEMMA OthersStayGood ==
  ASSUME StreamTyped, NEW r, ReaderGood(r, delivered, accepted, parkedAs),
         delivered' \in [StreamEntry -> 0 .. MaxReceives + 1],
         \A e \in StreamEntry : delivered[e] <= delivered'[e] /\ parkedAs[e] \subseteq parkedAs'[e],
         accepted \subseteq accepted'
  PROVE  ReaderGood(r, delivered', accepted', parkedAs')
<1>1. \A e \in StreamEntry : delivered[e] \in Nat /\ delivered'[e] \in Nat
  BY RedisStreamAssumption DEF StreamTyped
<1>2. \A e \in StreamEntry :
        /\ Bump(delivered[e]) <= Bump(delivered'[e])
        /\ Bump(delivered[e]) \in Nat /\ Bump(delivered'[e]) \in Nat
  <2> SUFFICES ASSUME NEW e \in StreamEntry
               PROVE  /\ Bump(delivered[e]) <= Bump(delivered'[e])
                      /\ Bump(delivered[e]) \in Nat /\ Bump(delivered'[e]) \in Nat
    OBVIOUS
  <2>1. delivered[e] \in Nat /\ delivered'[e] \in Nat /\ delivered[e] <= delivered'[e]
    BY <1>1
  <2>2. /\ Bump(delivered[e]) = IF delivered[e] < MaxReceives + 1
                                THEN delivered[e] + 1 ELSE MaxReceives + 1
        /\ Bump(delivered'[e]) = IF delivered'[e] < MaxReceives + 1
                                 THEN delivered'[e] + 1 ELSE MaxReceives + 1
    BY <2>1, BumpValue
  <2>3. MaxReceives \in Nat
    BY RedisStreamAssumption
  <2> QED BY <2>1, <2>2, <2>3
<1>3. \A e \in DOMAIN r.counts : r.counts[e] \in Nat /\ r.counts[e] <= Bump(delivered'[e])
  <2> SUFFICES ASSUME NEW e \in DOMAIN r.counts
               PROVE  r.counts[e] \in Nat /\ r.counts[e] <= Bump(delivered'[e])
    OBVIOUS
  <2>1. e \in StreamEntry /\ r.counts[e] \in Nat /\ r.counts[e] <= Bump(delivered[e])
    BY DEF ReaderGood
  <2> QED BY <1>2, <2>1
<1>4. \A i \in 1 .. Len(r.batch) :
        r.batch[i] \in DeliveryRecord /\ r.batch[i].count <= delivered'[r.batch[i].entry]
  <2> SUFFICES ASSUME NEW i \in 1 .. Len(r.batch)
               PROVE  /\ r.batch[i] \in DeliveryRecord
                      /\ r.batch[i].count <= delivered'[r.batch[i].entry]
    OBVIOUS
  <2>1. r.batch[i] \in DeliveryRecord /\ r.batch[i].count <= delivered[r.batch[i].entry]
    BY DEF ReaderGood
  <2>2. r.batch[i].entry \in StreamEntry /\ r.batch[i].count \in Nat
    BY <2>1 DEF DeliveryRecord
  <2> QED BY <1>1, <2>1, <2>2
<1>5. r.phase = "ack" => Head(r.batch).entry \in accepted' \/ parkedAs'[Head(r.batch).entry] # {}
  <2> SUFFICES ASSUME r.phase = "ack"
               PROVE  Head(r.batch).entry \in accepted' \/ parkedAs'[Head(r.batch).entry] # {}
    OBVIOUS
  <2>1. r.batch \in Seq(DeliveryRecord) /\ r.batch # <<>>
        /\ (Head(r.batch).entry \in accepted \/ parkedAs[Head(r.batch).entry] # {})
    BY DEF ReaderGood
  <2>2. Head(r.batch) \in DeliveryRecord
    BY <2>1
  <2>3. Head(r.batch).entry \in StreamEntry
    BY <2>2 DEF DeliveryRecord
  <2> QED BY <2>1, <2>3
<1> QED BY <1>3, <1>4, <1>5 DEF ReaderGood

(* A step of one consumer that hands out, accepts or parks entries.         *)
LEMMA ReaderStep ==
  ASSUME StreamInv, NEW c \in Reader, NEW r,
         reader' = [reader EXCEPT ![c] = r],
         ReaderGood(r, delivered', accepted', parkedAs'),
         StreamTyped', Counted', NoEntryDropped',
         \A e \in StreamEntry : delivered[e] <= delivered'[e] /\ parkedAs[e] \subseteq parkedAs'[e],
         accepted \subseteq accepted'
  PROVE  StreamInv'
<1>1. \A d \in Reader : reader'[d] = IF d = c THEN r ELSE reader[d]
  BY DEF StreamInv, ReadersGood
<1>2. reader' = [d \in Reader |-> reader'[d]]
  BY DEF StreamInv, ReadersGood
<1>3. \A d \in Reader : ReaderGood(reader[d], delivered', accepted', parkedAs')
  BY OthersStayGood DEF StreamInv, ReadersGood, StreamTyped
<1>4. ReadersGood'
  BY <1>1, <1>2, <1>3 DEF ReadersGood, ReaderGood, ReaderPhases, DeliveryRecord, Bump, StreamEntry
<1> QED BY <1>4 DEF StreamInv

-----------------------------------------------------------------------------
(* The stream: the steps                                                    *)

(* Writing, trimming and ageing touch no consumer.                          *)
LEMMA SurroundingsKeep ==
  ASSUME StreamInv, Appended \/ Trim \/ \E e \in StreamEntry : Idles(e)
  PROVE  StreamInv'
<1>1. UNCHANGED <<cursor, delivered, accepted, parkedAs, reader>>
  BY DEF Appended, Trim, Idles
<1>2. ReadersGood'
  BY <1>1 DEF StreamInv, ReadersGood, ReaderGood
<1>3. CASE Appended \/ Trim
  <2>1. StreamTyped'
    <3>1. Len(EntryKind) \in Nat /\ MaxStreamFaults \in Nat
      BY RedisStreamAssumption
    <3> QED BY <1>1, <1>3, <3>1 DEF StreamInv, StreamTyped, Appended, Trim
  <2>2. Counted' /\ NoEntryDropped'
    BY <1>1, <1>3 DEF StreamInv, Counted, NoEntryDropped, EntrySettled, Appended, Trim
  <2> QED BY <1>2, <2>1, <2>2 DEF StreamInv
<1>4. ASSUME NEW e \in StreamEntry, Idles(e) PROVE StreamInv'
  <2>1. /\ pending' = [pending EXCEPT ![e].idle = TRUE] /\ pending[e] # NotPending
        /\ UNCHANGED <<appended, trimmed, streamFaults>>
    BY <1>4 DEF Idles
  <2>2. pending \in [StreamEntry -> PendingRecord]
    BY DEF StreamInv, StreamTyped
  <2>3. /\ pending' \in [StreamEntry -> PendingRecord]
        /\ \A x \in StreamEntry : /\ pending'[x].times = pending[x].times
                                  /\ pending'[x] = NotPending => pending[x] = NotPending
                                  /\ x # e => pending'[x] = pending[x]
    BY <2>1, <2>2 DEF PendingRecord, NotPending
  <2>4. StreamTyped'
    BY <1>1, <2>1, <2>3 DEF StreamInv, StreamTyped
  <2>5. Counted'
    BY <1>1, <2>1, <2>3 DEF StreamInv, Counted
  <2>6. NoEntryDropped'
    BY <1>1, <2>3 DEF StreamInv, NoEntryDropped, EntrySettled
  <2> QED BY <1>2, <2>4, <2>5, <2>6 DEF StreamInv
<1> QED BY <1>3, <1>4

(* A consumer that starts, dies or looks at the pending entries.            *)
LEMMA StartsLooksDies ==
  ASSUME StreamInv, NEW c \in Reader, EnsureGroup(c) \/ Look(c) \/ ReaderDies(c)
  PROVE  StreamInv'
<1>1. /\ UNCHANGED <<appended, trimmed, pending, delivered, accepted, parkedAs>>
      /\ cursor' \in {cursor, 0} /\ streamFaults' \in 0 .. MaxStreamFaults
  <2>1. /\ streamFaults \in 0 .. MaxStreamFaults /\ MaxStreamFaults \in Nat
    BY RedisStreamAssumption DEF StreamInv, StreamTyped
  <2> QED BY <2>1 DEF EnsureGroup, Look, ReaderDies, Created
<1>2. /\ StreamTyped /\ StreamTyped' /\ Counted' /\ NoEntryDropped'
      /\ ReaderGood(reader[c], delivered, accepted, parkedAs)
      /\ DOMAIN reader = Reader
      /\ \A e \in StreamEntry : delivered[e] <= delivered'[e] /\ parkedAs[e] \subseteq parkedAs'[e]
      /\ accepted \subseteq accepted'
  <2>1. StreamTyped'
    BY <1>1 DEF StreamInv, StreamTyped
  <2>2. Counted' /\ NoEntryDropped'
    BY <1>1 DEF StreamInv, Counted, NoEntryDropped, EntrySettled
  <2>3. \A e \in StreamEntry : delivered[e] <= delivered'[e]
    <3>1. \A e \in StreamEntry : delivered[e] \in 0 .. MaxReceives + 1 /\ delivered'[e] = delivered[e]
      BY <1>1 DEF StreamInv, StreamTyped
    <3> QED BY <3>1
  <2> QED BY <1>1, <2>1, <2>2, <2>3 DEF StreamInv, ReadersGood
<1>3. CASE EnsureGroup(c)
  <2> DEFINE r == [reader[c] EXCEPT !.phase = "ready"]
  <2>1. reader' = [reader EXCEPT ![c] = r]
    BY <1>3 DEF EnsureGroup
  <2>2. /\ r = [phase |-> "ready", counts |-> reader[c].counts, batch |-> reader[c].batch]
    BY <1>2 DEF ReaderGood
  <2> HIDE DEF r
  <2>3. ReaderGood(r, delivered, accepted, parkedAs)
    BY <1>2, <2>2 DEF ReaderGood, ReaderPhases
  <2> QED BY <1>1, <1>2, <2>1, <2>3, ReaderStep
<1>4. CASE ReaderDies(c)
  <2>1. reader' = [reader EXCEPT ![c] = Stopped]
    BY <1>4 DEF ReaderDies
  <2>2. ReaderGood(Stopped, delivered, accepted, parkedAs)
    BY DEF ReaderGood, Stopped, ReaderPhases
  <2> QED BY <1>1, <1>2, <2>1, <2>2, ReaderStep
<1>5. CASE Look(c)
  <2> DEFINE idle == First(PollSize, {e \in StreamEntry : pending[e].idle})
  <2> DEFINE counts == [e \in idle |-> Bump(pending[e].times)]
  <2> DEFINE phase == IF idle = {} THEN "reading" ELSE "claiming"
  <2>1. reader' = [reader EXCEPT ![c] = [phase |-> phase, counts |-> counts, batch |-> <<>>]]
    BY <1>5 DEF Look
  <2>2. phase \in {"reading", "claiming"} /\ idle \subseteq StreamEntry
    BY DEF First
  <2>3. ASSUME NEW e \in StreamEntry
        PROVE  Bump(pending[e].times) \in Nat /\ Bump(pending[e].times) <= Bump(delivered[e])
    <3>1. /\ pending[e].times \in Nat /\ delivered[e] \in Nat
          /\ pending[e].times <= delivered[e] /\ MaxReceives \in Nat
      BY RedisStreamAssumption DEF StreamInv, StreamTyped, Counted, PendingRecord
    <3>2. /\ Bump(pending[e].times) = IF pending[e].times < MaxReceives + 1
                                      THEN pending[e].times + 1 ELSE MaxReceives + 1
          /\ Bump(delivered[e]) = IF delivered[e] < MaxReceives + 1
                                  THEN delivered[e] + 1 ELSE MaxReceives + 1
      BY <3>1, BumpValue
    <3> QED BY <3>1, <3>2
  <2>4. DOMAIN counts = idle /\ \A e \in idle : counts[e] = Bump(pending[e].times)
    OBVIOUS
  <2> HIDE DEF idle, counts, phase
  <2>5. ReaderGood([phase |-> phase, counts |-> counts, batch |-> <<>>],
                   delivered, accepted, parkedAs)
    BY <2>2, <2>3, <2>4 DEF ReaderGood, ReaderPhases
  <2> QED BY <1>1, <1>2, <2>1, <2>5, ReaderStep
<1> QED BY <1>3, <1>4, <1>5

(* Handing entries out makes them pending and counts.                       *)
LEMMA HandOutKeeps ==
  ASSUME StreamInv, NEW c \in Reader, NEW S \in SUBSET StreamEntry, HandOut(S, c),
         UNCHANGED <<accepted, parkedAs>>
  PROVE  /\ pending' \in [StreamEntry -> PendingRecord]
         /\ delivered' \in [StreamEntry -> 0 .. MaxReceives + 1]
         /\ \A e \in StreamEntry : delivered[e] <= delivered'[e]
         /\ \A e \in S : delivered'[e] = Bump(delivered[e])
         /\ Counted' /\ NoEntryDropped'
<1>1. MaxReceives \in Nat
  BY RedisStreamAssumption
<1>2. \A e \in StreamEntry :
        /\ pending[e] \in PendingRecord /\ pending[e].times \in 0 .. MaxReceives + 1
        /\ delivered[e] \in 0 .. MaxReceives + 1 /\ pending[e].times <= delivered[e]
  BY DEF StreamInv, StreamTyped, Counted, PendingRecord
<1>3. ASSUME NEW e \in StreamEntry
      PROVE  /\ Bump(pending[e].times) \in 1 .. MaxReceives + 1
             /\ Bump(delivered[e]) \in 0 .. MaxReceives + 1
             /\ Bump(pending[e].times) <= Bump(delivered[e])
             /\ delivered[e] <= Bump(delivered[e])
  <2>1. pending[e].times \in Nat /\ delivered[e] \in Nat
    BY <1>1, <1>2
  <2>2. /\ Bump(pending[e].times) = IF pending[e].times < MaxReceives + 1
                                    THEN pending[e].times + 1 ELSE MaxReceives + 1
        /\ Bump(delivered[e]) = IF delivered[e] < MaxReceives + 1
                                THEN delivered[e] + 1 ELSE MaxReceives + 1
    BY <2>1, BumpValue
  <2> QED BY <1>1, <1>2, <2>1, <2>2
<1>4. \A e \in StreamEntry :
        /\ e \in S => pending'[e].times = Bump(pending[e].times)
        /\ e \in S => delivered'[e] = Bump(delivered[e])
        /\ e \notin S => pending'[e] = pending[e]
        /\ e \notin S => delivered'[e] = delivered[e]
  BY DEF HandOut
<1>5. pending' \in [StreamEntry -> PendingRecord]
  <2>1. ASSUME NEW e \in StreamEntry PROVE pending'[e] \in PendingRecord
    <3>1. Bump(pending[e].times) \in 0 .. MaxReceives + 1
      BY <1>1, <1>3
    <3>2. CASE e \in S
      <4>1. pending'[e] = [owner |-> c, idle |-> FALSE, times |-> Bump(pending[e].times)]
        BY <3>2 DEF HandOut
      <4> QED BY <3>1, <4>1 DEF PendingRecord
    <3>3. CASE e \notin S
      BY <1>2, <1>4, <3>3
    <3> QED BY <3>2, <3>3
  <2>2. pending' = [e \in StreamEntry |-> pending'[e]]
    BY DEF HandOut
  <2> QED BY <2>1, <2>2
<1>6. delivered' \in [StreamEntry -> 0 .. MaxReceives + 1]
  <2>1. ASSUME NEW e \in StreamEntry PROVE delivered'[e] \in 0 .. MaxReceives + 1
    <3>1. CASE e \in S
      BY <1>3, <1>4, <3>1
    <3>2. CASE e \notin S
      BY <1>2, <1>4, <3>2
    <3> QED BY <3>1, <3>2
  <2>2. delivered' = [e \in StreamEntry |-> delivered'[e]]
    BY DEF HandOut
  <2> QED BY <2>1, <2>2
<1>7. ASSUME NEW e \in StreamEntry PROVE delivered[e] <= delivered'[e]
  <2>1. CASE e \in S
    BY <1>3, <1>4, <2>1
  <2>2. CASE e \notin S
    BY <1>2, <1>4, <2>2
  <2> QED BY <2>1, <2>2
<1>8. Counted'
  <2> SUFFICES ASSUME NEW e \in StreamEntry
               PROVE  /\ pending'[e].times <= delivered'[e]
                      /\ pending'[e] # NotPending => pending'[e].times >= 1
    BY DEF Counted
  <2>1. CASE e \in S
    <3>1. /\ pending'[e].times = Bump(pending[e].times) /\ delivered'[e] = Bump(delivered[e])
          /\ Bump(pending[e].times) \in 1 .. MaxReceives + 1
          /\ Bump(pending[e].times) <= Bump(delivered[e])
      BY <1>3, <1>4, <2>1
    <3> QED BY <3>1, <1>1
  <2>2. CASE e \notin S
    BY <1>4, <2>2 DEF StreamInv, Counted
  <2> QED BY <2>1, <2>2
<1>9. NoEntryDropped'
  <2> SUFFICES ASSUME NEW e \in StreamEntry
               PROVE  /\ (delivered'[e] > 0 /\ pending'[e] = NotPending) => EntrySettled(e)
                      /\ "MAX_RECEIVES_EXCEEDED" \in parkedAs[e] => delivered'[e] >= MaxReceives
    BY DEF NoEntryDropped, EntrySettled
  <2>1. "MAX_RECEIVES_EXCEEDED" \in parkedAs[e] => delivered'[e] >= MaxReceives
    <3>1. "MAX_RECEIVES_EXCEEDED" \in parkedAs[e] => delivered[e] >= MaxReceives
      BY DEF StreamInv, NoEntryDropped
    <3>2. delivered[e] <= delivered'[e] /\ delivered[e] \in Nat /\ delivered'[e] \in Nat
      BY <1>1, <1>2, <1>6, <1>7
    <3> QED BY <1>1, <3>1, <3>2
  <2>2. CASE e \in S
    <3>1. pending'[e].times = Bump(pending[e].times) /\ Bump(pending[e].times) # 0
      BY <1>3, <1>4, <2>2
    <3>2. pending'[e] # NotPending
      BY <3>1 DEF NotPending
    <3> QED BY <2>1, <3>2
  <2>3. CASE e \notin S
    BY <1>4, <2>1, <2>3 DEF StreamInv, NoEntryDropped
  <2> QED BY <2>2, <2>3
<1> QED BY <1>4, <1>5, <1>6, <1>7, <1>8, <1>9

(* Taking over entries that stayed idle hands them out once more.           *)
LEMMA ClaimKeeps ==
  ASSUME StreamInv, NEW c \in Reader, Claim(c)
  PROVE  StreamInv'
<1> DEFINE taken == {e \in DOMAIN reader[c].counts : pending[e].idle}
<1> DEFINE batch == Deliveries(taken, reader[c].counts)
<1> DEFINE phase == IF Cardinality(taken) < PollSize THEN "reading" ELSE "handle"
<1>1. /\ HandOut(taken, c)
      /\ reader' = [reader EXCEPT ![c] = [phase |-> phase, counts |-> <<>>, batch |-> batch]]
      /\ UNCHANGED <<appended, trimmed, cursor, accepted, parkedAs, streamFaults>>
  BY DEF Claim
<1>2. /\ taken \in SUBSET StreamEntry
      /\ \A e \in taken : reader[c].counts[e] \in Nat /\ reader[c].counts[e] <= Bump(delivered[e])
  BY DEF StreamInv, ReadersGood, ReaderGood
<1> HIDE DEF taken
<1>3. /\ batch \in Seq(DeliveryRecord) /\ Len(batch) = Cardinality(taken)
      /\ \A i \in 1 .. Cardinality(taken) :
           batch[i].entry \in taken /\ batch[i].count = reader[c].counts[batch[i].entry]
  BY <1>2, DeliveriesGood
<1>4. /\ pending' \in [StreamEntry -> PendingRecord]
      /\ delivered' \in [StreamEntry -> 0 .. MaxReceives + 1]
      /\ \A e \in StreamEntry : delivered[e] <= delivered'[e]
      /\ \A e \in taken : delivered'[e] = Bump(delivered[e])
      /\ Counted' /\ NoEntryDropped'
  BY <1>1, <1>2, HandOutKeeps
<1>5. phase \in {"reading", "handle"} /\ (phase = "handle" => batch # <<>>)
  <2>1. PollSize \in Nat /\ PollSize >= 1 /\ Cardinality(taken) \in Nat
    BY <1>2, EntriesFinite, RedisStreamAssumption
  <2> QED BY <1>3, <2>1
<1>6. \A i \in 1 .. Len(batch) : batch[i].count <= delivered'[batch[i].entry]
  <2> SUFFICES ASSUME NEW i \in 1 .. Len(batch) PROVE batch[i].count <= delivered'[batch[i].entry]
    OBVIOUS
  <2>1. batch[i].entry \in taken /\ batch[i].count = reader[c].counts[batch[i].entry]
    BY <1>3
  <2> QED BY <1>2, <1>4, <2>1
<1> HIDE DEF batch, phase
<1>7. ReaderGood([phase |-> phase, counts |-> <<>>, batch |-> batch], delivered', accepted', parkedAs')
  BY <1>3, <1>5, <1>6 DEF ReaderGood, ReaderPhases
<1>8. StreamTyped'
  BY <1>1, <1>4 DEF StreamInv, StreamTyped
<1> QED BY <1>1, <1>4, <1>7, <1>8, ReaderStep

(* What two batches of deliveries, one after the other, hold.               *)
LEMMA OneAfterTheOther ==
  ASSUME NEW S, NEW s \in Seq(S), NEW t \in Seq(S)
  PROVE  /\ s \o t \in Seq(S) /\ Len(s \o t) = Len(s) + Len(t)
         /\ Len(s) \in Nat /\ Len(t) \in Nat
         /\ \A i \in 1 .. Len(s) + Len(t) :
              (s \o t)[i] = IF i <= Len(s) THEN s[i] ELSE t[i - Len(s)]
  OBVIOUS

(* What is left of a batch once its first delivery is done.                 *)
LEMMA AfterTheFirst ==
  ASSUME NEW S, NEW s \in Seq(S), s # <<>>
  PROVE  /\ Tail(s) \in Seq(S) /\ Len(s) \in Nat /\ Len(s) >= 1
         /\ Len(Tail(s)) = Len(s) - 1 /\ Len(s) # 1 => Tail(s) # <<>>
         /\ \A i \in 1 .. Len(Tail(s)) : i + 1 \in 1 .. Len(s) /\ Tail(s)[i] = s[i + 1]
<1>1. Tail(s) \in Seq(S) /\ Len(s) \in Nat /\ Len(s) >= 1 /\ Len(Tail(s)) = Len(s) - 1
  OBVIOUS
<1>2. Len(s) # 1 => Tail(s) # <<>>
  <2>1. Len(s) # 1 => Len(Tail(s)) # 0
    BY <1>1
  <2>2. Len(<<>>) = 0
    OBVIOUS
  <2> QED BY <2>1, <2>2
<1>3. \A i \in 1 .. Len(Tail(s)) : i + 1 \in 1 .. Len(s) /\ Tail(s)[i] = s[i + 1]
  OBVIOUS
<1> QED BY <1>1, <1>2, <1>3

(* Reading hands out entries nobody was given and moves the cursor.         *)
LEMMA ReadKeeps ==
  ASSUME StreamInv, NEW c \in Reader, Read(c)
  PROVE  StreamInv'
<1> DEFINE new == First(PollSize - Len(reader[c].batch),
                        {e \in StreamEntry : e > cursor /\ e > trimmed /\ e <= appended})
<1> DEFINE fresh == Deliveries(new, [e \in new |-> 1])
<1> DEFINE batch == reader[c].batch \o fresh
<1> DEFINE phase == IF batch = <<>> THEN "ready" ELSE "handle"
<1>1. /\ HandOut(new, c)
      /\ cursor' = Max(new \cup {cursor})
      /\ reader' = [reader EXCEPT ![c] = [phase |-> phase, counts |-> <<>>, batch |-> batch]]
      /\ UNCHANGED <<appended, trimmed, accepted, parkedAs, streamFaults>>
  BY DEF Read
<1>2. /\ new \in SUBSET StreamEntry
      /\ \A e \in new : e <= appended /\ e \in Nat
      /\ cursor \in -1 .. appended /\ appended \in Nat
  BY RedisStreamAssumption DEF StreamInv, StreamTyped, First, StreamEntry
<1> HIDE DEF new
<1>3. /\ fresh \in Seq(DeliveryRecord) /\ Len(fresh) = Cardinality(new)
      /\ \A i \in 1 .. Cardinality(new) : fresh[i].entry \in new /\ fresh[i].count = 1
  <2> DEFINE one == [e \in new |-> 1]
  <2>1. \A e \in new : one[e] = 1
    OBVIOUS
  <2> HIDE DEF one
  <2>2. \A e \in new : one[e] \in Nat
    BY <2>1
  <2>3. /\ Deliveries(new, one) \in Seq(DeliveryRecord)
        /\ Len(Deliveries(new, one)) = Cardinality(new)
        /\ \A i \in 1 .. Cardinality(new) :
             /\ Deliveries(new, one)[i].entry \in new
             /\ Deliveries(new, one)[i].count = one[Deliveries(new, one)[i].entry]
    BY <1>2, <2>2, DeliveriesGood
  <2> QED BY <2>1, <2>3 DEF one
<1>4. /\ pending' \in [StreamEntry -> PendingRecord]
      /\ delivered' \in [StreamEntry -> 0 .. MaxReceives + 1]
      /\ \A e \in StreamEntry : delivered[e] <= delivered'[e]
      /\ \A e \in new : delivered'[e] = Bump(delivered[e])
      /\ Counted' /\ NoEntryDropped'
  BY <1>1, <1>2, HandOutKeeps
<1>5. /\ ReaderGood(reader[c], delivered, accepted, parkedAs) /\ StreamTyped
      /\ UNCHANGED <<accepted, parkedAs>>
  BY <1>1 DEF StreamInv, ReadersGood
<1>6. ReaderGood(reader[c], delivered', accepted', parkedAs')
  BY <1>4, <1>5, OthersStayGood
<1> HIDE DEF fresh
<1>7. \A i \in 1 .. Len(fresh) : fresh[i].count <= delivered'[fresh[i].entry]
  <2> SUFFICES ASSUME NEW i \in 1 .. Len(fresh) PROVE fresh[i].count <= delivered'[fresh[i].entry]
    OBVIOUS
  <2>1. fresh[i].entry \in new /\ fresh[i].count = 1
    BY <1>3
  <2>2. delivered[fresh[i].entry] \in Nat /\ MaxReceives \in Nat
    BY <1>2, <1>5, <2>1, RedisStreamAssumption DEF StreamTyped
  <2>3. Bump(delivered[fresh[i].entry]) \in 1 .. MaxReceives + 1
    BY <2>2, BumpValue
  <2> QED BY <1>4, <2>1, <2>2, <2>3
<1>8. /\ batch \in Seq(DeliveryRecord)
      /\ \A i \in 1 .. Len(batch) : batch[i].count <= delivered'[batch[i].entry]
  <2>1. /\ reader[c].batch \in Seq(DeliveryRecord)
        /\ \A i \in 1 .. Len(reader[c].batch) :
             reader[c].batch[i].count <= delivered'[reader[c].batch[i].entry]
    BY <1>6 DEF ReaderGood
  <2>2. /\ batch \in Seq(DeliveryRecord)
        /\ \A i \in 1 .. Len(batch) :
             \/ i \in 1 .. Len(reader[c].batch) /\ batch[i] = reader[c].batch[i]
             \/ \E j \in 1 .. Len(fresh) : batch[i] = fresh[j]
    <3>1. /\ batch \in Seq(DeliveryRecord) /\ Len(batch) = Len(reader[c].batch) + Len(fresh)
          /\ Len(reader[c].batch) \in Nat /\ Len(fresh) \in Nat
          /\ \A i \in 1 .. Len(reader[c].batch) + Len(fresh) :
               batch[i] = IF i <= Len(reader[c].batch) THEN reader[c].batch[i]
                          ELSE fresh[i - Len(reader[c].batch)]
      BY <1>3, <2>1, OneAfterTheOther
    <3> HIDE DEF batch
    <3>2. ASSUME NEW i \in 1 .. Len(batch), i > Len(reader[c].batch)
          PROVE  /\ i - Len(reader[c].batch) \in 1 .. Len(fresh)
                 /\ batch[i] = fresh[i - Len(reader[c].batch)]
      BY <3>1, <3>2
    <3>3. ASSUME NEW i \in 1 .. Len(batch), ~(i > Len(reader[c].batch))
          PROVE  i \in 1 .. Len(reader[c].batch) /\ batch[i] = reader[c].batch[i]
      BY <3>1, <3>3
    <3> QED BY <3>1, <3>2, <3>3
  <2> HIDE DEF batch
  <2> QED BY <1>7, <2>1, <2>2
<1>9. phase \in {"ready", "handle"} /\ (phase = "handle" => batch # <<>>)
  OBVIOUS
<1> HIDE DEF batch, phase
<1>10. ReaderGood([phase |-> phase, counts |-> <<>>, batch |-> batch], delivered', accepted', parkedAs')
  BY <1>8, <1>9 DEF ReaderGood, ReaderPhases
<1>11. cursor' \in -1 .. appended
  <2>1. new \cup {cursor} \in SUBSET (-1 .. appended)
    BY <1>2
  <2>2. Max(new \cup {cursor}) \in new \cup {cursor}
    BY <1>2, <2>1, MaxIsMember
  <2> QED BY <1>1, <2>1, <2>2
<1>12. StreamTyped'
  BY <1>1, <1>4, <1>11 DEF StreamInv, StreamTyped
<1> QED BY <1>1, <1>4, <1>10, <1>12, ReaderStep

(* What is known of the delivery a consumer is at.                          *)
LEMMA DeliveryFacts ==
  ASSUME StreamInv, NEW c \in Reader, reader[c].phase \in {"handle", "ack"}
  PROVE  /\ Delivery(c) \in DeliveryRecord
         /\ Delivery(c).entry \in StreamEntry /\ Delivery(c).count \in Nat
         /\ Delivery(c).count <= delivered[Delivery(c).entry]
         /\ reader[c].phase = "ack" => EntrySettled(Delivery(c).entry)
         /\ ReaderGood(reader[c], delivered, accepted, parkedAs)
         /\ StreamTyped /\ DOMAIN reader = Reader
<1>1. /\ ReaderGood(reader[c], delivered, accepted, parkedAs) /\ StreamTyped
      /\ DOMAIN reader = Reader
  BY DEF StreamInv, ReadersGood
<1>2. reader[c].batch \in Seq(DeliveryRecord) /\ reader[c].batch # <<>>
  BY <1>1 DEF ReaderGood
<1>3. /\ 1 \in 1 .. Len(reader[c].batch) /\ Head(reader[c].batch) = reader[c].batch[1]
      /\ Head(reader[c].batch) \in DeliveryRecord
  BY <1>2
<1>4. Delivery(c).entry \in StreamEntry /\ Delivery(c).count \in Nat
  BY <1>3 DEF Delivery, DeliveryRecord
<1>5. /\ Delivery(c).count <= delivered[Delivery(c).entry]
      /\ reader[c].phase = "ack" => EntrySettled(Delivery(c).entry)
  BY <1>1, <1>3 DEF ReaderGood, Delivery, EntrySettled
<1> QED BY <1>1, <1>3, <1>4, <1>5 DEF Delivery

(* An entry that is ingested or parked may be acknowledged: one parked as   *)
(* exhausted was handed out often enough.                                   *)
LEMMA SettleKeeps ==
  ASSUME StreamInv, NEW c \in Reader, Accept(c) \/ ParkMalformed(c) \/ ParkExhausted(c)
  PROVE  StreamInv'
<1> DEFINE e == Delivery(c).entry
<1> DEFINE r == [reader[c] EXCEPT !.phase = "ack"]
<1>1. /\ reader[c].phase = "handle"
      /\ reader' = [reader EXCEPT ![c].phase = "ack"]
      /\ UNCHANGED <<appended, trimmed, cursor, pending, delivered>>
  BY DEF Accept, ParkMalformed, ParkExhausted, Park, Handling, Raises
<1>2. /\ e \in StreamEntry /\ Delivery(c).count \in Nat /\ Delivery(c).count <= delivered[e]
      /\ ReaderGood(reader[c], delivered, accepted, parkedAs)
      /\ StreamTyped /\ DOMAIN reader = Reader
      /\ Delivery(c) = Head(reader[c].batch)
  BY <1>1, DeliveryFacts DEF Delivery
<1>3. /\ r = [phase |-> "ack", counts |-> reader[c].counts, batch |-> reader[c].batch]
      /\ reader' = [reader EXCEPT ![c] = r]
  BY <1>1, <1>2 DEF ReaderGood
<1> HIDE DEF r
<1>4. streamFaults' \in 0 .. MaxStreamFaults
  <2>1. streamFaults \in 0 .. MaxStreamFaults /\ MaxStreamFaults \in Nat
    BY <1>2, RedisStreamAssumption DEF StreamTyped
  <2> QED BY <2>1 DEF Accept, ParkMalformed, ParkExhausted, Raises
<1>5. \/ accepted' = accepted \cup {e} /\ UNCHANGED parkedAs
      \/ \E reason \in {"MALFORMED_EVENT", "MAX_RECEIVES_EXCEEDED"} :
           /\ parkedAs' = [parkedAs EXCEPT ![e] = @ \cup {reason}] /\ UNCHANGED accepted
           /\ reason = "MAX_RECEIVES_EXCEEDED" => Delivery(c).count >= MaxReceives
  BY DEF Accept, ParkMalformed, ParkExhausted, Park
<1> HIDE DEF e
<1>6. /\ accepted' \subseteq StreamEntry
      /\ parkedAs' \in [StreamEntry -> SUBSET {"MALFORMED_EVENT", "MAX_RECEIVES_EXCEEDED"}]
      /\ accepted \subseteq accepted' /\ \A x \in StreamEntry : parkedAs[x] \subseteq parkedAs'[x]
      /\ e \in accepted' \/ parkedAs'[e] # {}
      /\ \A x \in StreamEntry : "MAX_RECEIVES_EXCEEDED" \in parkedAs'[x] =>
           "MAX_RECEIVES_EXCEEDED" \in parkedAs[x] \/ (x = e /\ Delivery(c).count >= MaxReceives)
  BY <1>2, <1>5 DEF StreamTyped
<1>7. StreamTyped'
  BY <1>1, <1>2, <1>4, <1>6 DEF StreamTyped
<1>8. Counted'
  BY <1>1 DEF StreamInv, Counted
<1>9. \A x \in StreamEntry : delivered[x] <= delivered'[x] /\ delivered[x] \in Nat
  <2>1. \A x \in StreamEntry : delivered[x] \in Nat /\ delivered'[x] = delivered[x]
    BY <1>1, <1>2, RedisStreamAssumption DEF StreamTyped
  <2> QED BY <2>1
<1>10. NoEntryDropped'
  <2> SUFFICES ASSUME NEW x \in StreamEntry
               PROVE  /\ (delivered[x] > 0 /\ pending[x] = NotPending) =>
                           x \in accepted' \/ parkedAs'[x] # {}
                      /\ "MAX_RECEIVES_EXCEEDED" \in parkedAs'[x] => delivered[x] >= MaxReceives
    BY <1>1 DEF NoEntryDropped, EntrySettled
  <2>1. /\ (delivered[x] > 0 /\ pending[x] = NotPending) => x \in accepted \/ parkedAs[x] # {}
        /\ "MAX_RECEIVES_EXCEEDED" \in parkedAs[x] => delivered[x] >= MaxReceives
    BY DEF StreamInv, NoEntryDropped, EntrySettled
  <2>2. x = e /\ Delivery(c).count >= MaxReceives => delivered[x] >= MaxReceives
    BY <1>2, <1>9, RedisStreamAssumption
  <2> QED BY <1>6, <2>1, <2>2
<1>11. ReaderGood(reader[c], delivered', accepted', parkedAs')
  BY <1>2, <1>6, <1>7, <1>9, OthersStayGood DEF StreamTyped
<1>12. ReaderGood(r, delivered', accepted', parkedAs')
  <2>1. reader[c].batch # <<>>
    BY <1>1, <1>2 DEF ReaderGood
  <2> QED BY <1>2, <1>3, <1>6, <1>11, <2>1 DEF ReaderGood, ReaderPhases, e
<1> QED BY <1>3, <1>6, <1>7, <1>8, <1>9, <1>10, <1>12, ReaderStep

(* A consumer that is done with its delivery goes to the next one.          *)
LEMMA DoneGood ==
  ASSUME StreamInv, NEW c \in Reader, reader[c].phase \in {"handle", "ack"}
  PROVE  \E r : /\ Done(c) = [reader EXCEPT ![c] = r]
                /\ ReaderGood(r, delivered, accepted, parkedAs)
<1> DEFINE nextPhase == IF Len(reader[c].batch) = 1 THEN "ready" ELSE "handle"
<1> DEFINE r == [phase |-> nextPhase, counts |-> reader[c].counts, batch |-> Tail(reader[c].batch)]
<1>1. /\ ReaderGood(reader[c], delivered, accepted, parkedAs) /\ DOMAIN reader = Reader
      /\ reader[c].batch \in Seq(DeliveryRecord) /\ reader[c].batch # <<>>
  BY DeliveryFacts DEF ReaderGood
<1>2. Done(c) = [reader EXCEPT ![c] = r]
  <2>1. [reader[c] EXCEPT !.batch = Tail(reader[c].batch), !.phase = nextPhase] = r
    <3> HIDE DEF nextPhase
    <3>1. PICK p, k, b : reader[c] = [phase |-> p, counts |-> k, batch |-> b]
      BY <1>1 DEF ReaderGood
    <3>2. reader[c].counts = k /\ reader[c].batch = b
      BY <3>1
    <3>3. PICK q, t : q = nextPhase /\ t = Tail(b)
      OBVIOUS
    <3>4. [reader[c] EXCEPT !.batch = t] = [phase |-> p, counts |-> k, batch |-> t]
      BY <3>1
    <3>5. [[phase |-> p, counts |-> k, batch |-> t] EXCEPT !.phase = q]
          = [phase |-> q, counts |-> k, batch |-> t]
      OBVIOUS
    <3>6. [reader[c] EXCEPT !.batch = t, !.phase = q] = [[reader[c] EXCEPT !.batch = t] EXCEPT !.phase = q]
      OBVIOUS
    <3>7. [reader[c] EXCEPT !.batch = t, !.phase = q] = [phase |-> q, counts |-> k, batch |-> t]
      BY <3>4, <3>5, <3>6
    <3> QED BY <3>2, <3>3, <3>7
  <2> QED BY <1>1, <2>1 DEF Done
<1>3. /\ Tail(reader[c].batch) \in Seq(DeliveryRecord)
      /\ \A i \in 1 .. Len(Tail(reader[c].batch)) :
           i + 1 \in 1 .. Len(reader[c].batch) /\ Tail(reader[c].batch)[i] = reader[c].batch[i + 1]
  BY <1>1, AfterTheFirst
<1>4. /\ nextPhase \in {"ready", "handle"}
      /\ nextPhase = "handle" => Tail(reader[c].batch) # <<>>
  BY <1>1, AfterTheFirst
<1> HIDE DEF nextPhase
<1>5. ReaderGood(r, delivered, accepted, parkedAs)
  BY <1>1, <1>3, <1>4 DEF ReaderGood, ReaderPhases
<1> QED BY <1>2, <1>5

(* An entry leaves the pending entries only once it is settled; one to be   *)
(* retried stays there with its count.                                      *)
LEMMA RetryAcknowledgeKeep ==
  ASSUME StreamInv, NEW c \in Reader, RetryLater(c) \/ Acknowledge(c)
  PROVE  StreamInv'
<1> DEFINE e == Delivery(c).entry
<1>1. /\ reader[c].phase \in {"handle", "ack"}
      /\ reader' = Done(c)
      /\ UNCHANGED <<appended, trimmed, cursor, delivered, accepted, parkedAs>>
  BY DEF RetryLater, Acknowledge, Raises, Handling
<1>2. /\ e \in StreamEntry /\ StreamTyped /\ DOMAIN reader = Reader
      /\ reader[c].phase = "ack" => EntrySettled(e)
  BY <1>1, DeliveryFacts
<1>3. streamFaults' \in 0 .. MaxStreamFaults
  <2>1. streamFaults \in 0 .. MaxStreamFaults /\ MaxStreamFaults \in Nat
    BY <1>2, RedisStreamAssumption DEF StreamTyped
  <2> QED BY <2>1 DEF RetryLater, Acknowledge, Raises
<1>4. \/ pending' = [pending EXCEPT ![e] = WoundBack(e, c)]
      \/ pending' = [pending EXCEPT ![e] = NotPending] /\ EntrySettled(e)
  BY <1>2 DEF RetryLater, Acknowledge
<1>5. /\ WoundBack(e, c) \in PendingRecord /\ NotPending \in PendingRecord
      /\ WoundBack(e, c).times = pending[e].times
      /\ WoundBack(e, c) = NotPending => pending[e] = NotPending
      /\ NotPending.times = 0
  <2>1. /\ pending[e] \in PendingRecord /\ pending[e].times \in 0 .. MaxReceives + 1
        /\ MaxReceives \in Nat
    BY <1>2, RedisStreamAssumption DEF StreamTyped, PendingRecord
  <2>2. pending[e] # NotPending => pending[e].times >= 1
    BY <1>2 DEF StreamInv, Counted
  <2>3. CASE pending[e] = NotPending
    BY <2>1, <2>3 DEF WoundBack, NotPending, PendingRecord
  <2>4. CASE pending[e] # NotPending
    <3>1. WoundBack(e, c) = [owner |-> c, idle |-> FALSE, times |-> pending[e].times]
      BY <2>4 DEF WoundBack
    <3>2. WoundBack(e, c).times = pending[e].times /\ WoundBack(e, c).times # 0
      BY <2>1, <2>2, <2>4, <3>1
    <3>3. WoundBack(e, c) # NotPending
      BY <3>2 DEF NotPending
    <3> QED BY <2>1, <3>1, <3>2, <3>3 DEF PendingRecord, NotPending
  <2> QED BY <2>3, <2>4
<1> HIDE DEF e
<1>6. /\ pending' \in [StreamEntry -> PendingRecord]
      /\ \A x \in StreamEntry :
           /\ x # e => pending'[x] = pending[x]
           /\ pending'[x].times \in {pending[x].times, 0}
           /\ pending'[x] = NotPending => pending[x] = NotPending \/ EntrySettled(x)
           /\ pending'[x] = NotPending \/ pending'[x].times = pending[x].times
           /\ pending'[x] # NotPending => pending[x] # NotPending
  <2>1. pending \in [StreamEntry -> PendingRecord]
    BY <1>2 DEF StreamTyped
  <2>2. pending[e] = NotPending => WoundBack(e, c) = NotPending
    BY DEF WoundBack
  <2>3. CASE pending' = [pending EXCEPT ![e] = WoundBack(e, c)]
    BY <1>2, <1>5, <2>1, <2>2, <2>3
  <2>4. CASE pending' = [pending EXCEPT ![e] = NotPending] /\ EntrySettled(e)
    BY <1>2, <1>5, <2>1, <2>4
  <2> QED BY <1>4, <2>3, <2>4
<1>7. StreamTyped'
  BY <1>1, <1>2, <1>3, <1>6 DEF StreamTyped
<1>8. \A x \in StreamEntry : delivered[x] \in Nat /\ delivered'[x] = delivered[x]
  BY <1>1, <1>2, RedisStreamAssumption DEF StreamTyped
<1>9. Counted'
  <2> SUFFICES ASSUME NEW x \in StreamEntry
               PROVE  /\ pending'[x].times <= delivered[x]
                      /\ pending'[x] # NotPending => pending'[x].times >= 1
    BY <1>1 DEF Counted
  <2>1. /\ pending[x].times <= delivered[x] /\ (pending[x] # NotPending => pending[x].times >= 1)
    BY DEF StreamInv, Counted
  <2> QED BY <1>6, <1>8, <2>1
<1>10. NoEntryDropped'
  BY <1>1, <1>6 DEF StreamInv, NoEntryDropped, EntrySettled
<1>11. PICK r : /\ reader' = [reader EXCEPT ![c] = r]
                /\ ReaderGood(r, delivered, accepted, parkedAs)
  BY <1>1, DoneGood
<1>12. /\ ReaderGood(r, delivered', accepted', parkedAs')
       /\ \A x \in StreamEntry : delivered[x] <= delivered'[x] /\ parkedAs[x] \subseteq parkedAs'[x]
       /\ accepted \subseteq accepted'
  BY <1>1, <1>8, <1>11
<1> QED BY <1>7, <1>9, <1>10, <1>11, <1>12, ReaderStep

-----------------------------------------------------------------------------
(* The stream: the whole specification                                      *)

(* Before the group exists the invariant holds.                             *)
LEMMA StreamInitGood == StreamInit => StreamInv
<1> SUFFICES ASSUME StreamInit PROVE StreamInv
  OBVIOUS
<1>1. MaxReceives \in Nat /\ MaxStreamFaults \in Nat /\ Len(EntryKind) \in Nat
  BY RedisStreamAssumption
<1>2. NotPending \in PendingRecord
  BY <1>1 DEF NotPending, PendingRecord
<1>3. StreamTyped
  BY <1>1, <1>2 DEF StreamInit, StreamTyped
<1>4. Counted /\ NoEntryDropped
  BY DEF StreamInit, Counted, NoEntryDropped, NotPending
<1>5. ReaderGood(Stopped, delivered, accepted, parkedAs)
  BY DEF ReaderGood, Stopped, ReaderPhases
<1>6. ReadersGood
  BY <1>5 DEF StreamInit, ReadersGood
<1> QED BY <1>3, <1>4, <1>6 DEF StreamInv

(* Every step of the producer, of time and of a consumer keeps it.          *)
LEMMA StreamStepKeeps == StreamInv /\ [StreamNext]_streamVars => StreamInv'
<1> SUFFICES ASSUME StreamInv, [StreamNext]_streamVars PROVE StreamInv'
  OBVIOUS
<1>1. CASE Appended \/ Trim \/ \E e \in StreamEntry : Idles(e)
  BY <1>1, SurroundingsKeep
<1>2. ASSUME NEW c \in Reader, ReaderNext(c) \/ ReaderDies(c) PROVE StreamInv'
  BY <1>2, StartsLooksDies, ClaimKeeps, ReadKeeps, SettleKeeps, RetryAcknowledgeKeep DEF ReaderNext
<1>3. CASE UNCHANGED streamVars
  BY <1>3 DEF streamVars, StreamInv, StreamTyped, Counted, ReadersGood, ReaderGood, NoEntryDropped,
     EntrySettled
<1> QED BY <1>1, <1>2, <1>3 DEF StreamNext

(* The stream: the inductive invariant holds in every reachable state.                  *)
THEOREM StreamInvariant == StreamSpec => []StreamInv
BY StreamInitGood, StreamStepKeeps, PTL DEF StreamSpec

(* The variables of the stream and its consumers have their types, and      *)
(* nobody handles an empty batch.                                           *)
THEOREM StreamTypeCorrect == StreamSpec => []StreamTypeOK
<1>1. StreamInv => StreamTypeOK
  BY DEF StreamInv, StreamTyped, PendingRecord, ReadersGood, ReaderGood, ReaderPhases, StreamTypeOK
<1> QED BY <1>1, StreamInvariant, PTL

(* However many consumers there are, die with a batch or take entries over  *)
(* from each other, an entry that was handed out and is no longer pending   *)
(* was ingested or parked, and none is parked as exhausted before it was    *)
(* handed out max_receive_count times.                                      *)
THEOREM EntriesAreNotDropped == StreamSpec => []NoEntryDropped
<1>1. StreamInv => NoEntryDropped
  BY DEF StreamInv
<1> QED BY <1>1, StreamInvariant, PTL

-----------------------------------------------------------------------------
(* HistorySync: sets of sessions                                            *)

(* The newest of some sessions is one of them, or 0 if there is none.       *)
LEMMA NewestValue ==
  ASSUME NEW n \in Nat, NEW S \in SUBSET (1 .. n)
  PROVE  /\ Newest(S) \in S \cup {0} /\ Newest(S) \in 0 .. n
         /\ \A s \in S : s <= Newest(S)
<1>1. S \cup {0} \in SUBSET (-1 .. n) /\ S \cup {0} # {} /\ S \cup {0} \subseteq 0 .. n
  OBVIOUS
<1>2. Max(S \cup {0}) \in S \cup {0}
  BY <1>1, MaxIsMember
<1>3. \A s \in S \cup {0} : s <= Max(S \cup {0})
  <2>1. \E m \in S \cup {0} : \A s \in S \cup {0} : m >= s
    BY <1>1, MaximumThere
  <2> QED BY <1>1, <2>1 DEF Max
<1> QED BY <1>1, <1>2, <1>3 DEF Newest

(* Sessions without a hole: the newest is the last of them.                 *)
LEMMA NewestOfInterval ==
  ASSUME NEW n \in Nat
  PROVE  Newest(1 .. n) = n
<1>1. Newest(1 .. n) \in 0 .. n /\ \A s \in 1 .. n : s <= Newest(1 .. n)
  BY NewestValue
<1>2. n >= 1 => n \in 1 .. n
  OBVIOUS
<1> QED BY <1>1, <1>2

(* What reaches back from the newest session has the same newest session.   *)
LEMMA NewestOfRecent ==
  ASSUME NEW n \in Nat, NEW t \in TF, published[t] \in SUBSET (1 .. n)
  PROVE  /\ Recent(t) \in SUBSET published[t]
         /\ Newest(Recent(t)) = Newest(published[t])
<1> DEFINE S == published[t]
<1>1. Newest(S) \in S \cup {0} /\ Newest(S) \in 0 .. n /\ \A s \in S : s <= Newest(S)
  BY NewestValue
<1>2. Recent(t) \in SUBSET S /\ Recent(t) \in SUBSET (1 .. n)
  BY DEF Recent
<1>3. /\ Newest(Recent(t)) \in Recent(t) \cup {0} /\ Newest(Recent(t)) \in 0 .. n
      /\ \A s \in Recent(t) : s <= Newest(Recent(t))
  BY <1>2, NewestValue
<1>4. Lookback \in Nat \ {0}
  BY SyncAssumption
<1>5. Newest(S) \in S => Newest(S) \in Recent(t)
  BY <1>1, <1>4 DEF Recent
<1>6. Newest(Recent(t)) <= Newest(S)
  BY <1>1, <1>2, <1>3
<1>7. Newest(S) <= Newest(Recent(t))
  BY <1>1, <1>3, <1>5
<1> QED BY <1>1, <1>2, <1>3, <1>6, <1>7

(* The last session of a batch that starts at a while b is the last due.    *)
BatchEnd(a, b) == IF a + BatchSize - 1 < b THEN a + BatchSize - 1 ELSE b

(* A batch of sessions without a hole is the first of them, again without a *)
(* hole.                                                                    *)
LEMMA BatchOfInterval ==
  ASSUME NEW a \in Nat, NEW b \in Nat, a <= b
  PROVE  /\ BatchOf(a .. b) = a .. BatchEnd(a, b)
         /\ BatchEnd(a, b) \in a .. b
<1>1. BatchSize \in Nat \ {0}
  BY SyncAssumption
<1>2. ASSUME NEW s \in a .. b PROVE Cardinality({r \in a .. b : r <= s}) = s - a + 1
  <2>1. {r \in a .. b : r <= s} = a .. s
    OBVIOUS
  <2>2. a \in Int /\ s \in Int /\ ~(a > s)
    OBVIOUS
  <2>3. Cardinality(a .. s) = IF a > s THEN 0 ELSE s - a + 1
    BY <2>2, FS_Interval
  <2>4. Cardinality(a .. s) = s - a + 1
    BY <2>2, <2>3
  <2> QED BY <2>1, <2>4
<1>3. \A s \in a .. b : s \in BatchOf(a .. b) <=> s - a + 1 <= BatchSize
  BY <1>2 DEF BatchOf
<1>4. BatchOf(a .. b) \subseteq a .. b
  BY DEF BatchOf
<1>5. BatchEnd(a, b) \in a .. b
  BY <1>1 DEF BatchEnd
<1>6. \A s \in a .. b : s - a + 1 <= BatchSize <=> s <= BatchEnd(a, b)
  BY <1>1 DEF BatchEnd
<1>7. \A s : s \in BatchOf(a .. b) <=> s \in a .. b /\ s <= BatchEnd(a, b)
  BY <1>3, <1>4, <1>6
<1>8. \A s : s \in a .. BatchEnd(a, b) <=> s \in a .. b /\ s <= BatchEnd(a, b)
  BY <1>5
<1> QED BY <1>5, <1>7, <1>8
-----------------------------------------------------------------------------
(* HistorySync: the inductive invariant                                     *)

JobRecord == [phase : {"idle", "publishing", "projecting", "succeeded"}, pending : SUBSET Nat,
              step : Nat \ {0}, failed : BOOLEAN, key : 1 .. Len(Listed)]

SyncTyped ==
  /\ closed \in 1 .. LastSession /\ syncFailures \in 0 .. MaxFailures
  /\ published \in [TF -> SUBSET (1 .. closed)]
  /\ redis \in [Keys -> SUBSET (1 .. closed)] /\ metadata \in [TF -> 0 .. closed]
  /\ job \in JobRecord /\ job.pending \subseteq 1 .. closed

(* The contract of timeframe t was published for the batch, or failed.      *)
Past(t) == \E s \in 1 .. job.step - 1 : Timeframes[s] = t

(* While sessions a .. b are due: the native timeframe ends before the      *)
(* batch or with it, with it once its contract went through, and so does    *)
(* every timeframe where nothing ever failed.                               *)
InBatch(a, b) ==
  /\ a <= b /\ job.pending = a .. b /\ job.key = 1
  /\ published[Native] \in {1 .. a - 1, 1 .. BatchEnd(a, b)}
  /\ job.step = 1 => published[Native] = 1 .. a - 1 /\ ~job.failed
  /\ job.step > 1 /\ ~job.failed => published[Native] = 1 .. BatchEnd(a, b)
  /\ syncFailures = 0 =>
       /\ ~job.failed
       /\ \A t \in TF : published[t] = IF Past(t) THEN 1 .. BatchEnd(a, b) ELSE 1 .. a - 1
Publishing == job.phase = "publishing" => \E a, b \in 1 .. closed : InBatch(a, b)

(* While keys are projected, those before the current one hold what is      *)
(* published.                                                               *)
Projected ==
  job.phase = "projecting" =>
    \A s \in DOMAIN Timeframes, j \in DOMAIN Listed :
      (s < job.step \/ (s = job.step /\ j < job.key)) =>
        redis[<<Listed[j], Timeframes[s]>>] = Recent(Timeframes[s])

SyncInv == SyncTyped /\ SyncSound /\ Publishing /\ Projected

(* The timeframes, the instruments and the bounds are what they should be.  *)
LEMMA SyncConstants ==
  /\ DOMAIN Timeframes = 1 .. Len(Timeframes) /\ Len(Timeframes) \in Nat \ {0}
  /\ DOMAIN Listed = 1 .. Len(Listed) /\ Len(Listed) \in Nat \ {0}
  /\ 1 \in 1 .. Len(Timeframes) /\ 1 \in 1 .. Len(Listed)
  /\ Native \in TF
  /\ \A s \in 1 .. Len(Timeframes) : Timeframes[s] \in TF
  /\ \A s \in 1 .. Len(Timeframes), j \in 1 .. Len(Listed) : <<Listed[j], Timeframes[s]>> \in Keys
  /\ LastSession \in Nat \ {0} /\ MaxFailures \in Nat
<1>1. /\ DOMAIN Timeframes = 1 .. Len(Timeframes) /\ Len(Timeframes) \in Nat \ {0}
      /\ DOMAIN Listed = 1 .. Len(Listed) /\ Len(Listed) \in Nat \ {0}
  BY SyncAssumption
<1>2. 1 \in 1 .. Len(Timeframes) /\ 1 \in 1 .. Len(Listed)
  BY <1>1
<1>3. LastSession \in Nat \ {0} /\ MaxFailures \in Nat
  BY SyncAssumption
<1> QED BY <1>1, <1>2, <1>3 DEF TF, Keys, Native

(* The sync starts with one session published, and nothing else.            *)
LEMMA SyncInitGood == SyncInit => SyncInv
<1> SUFFICES ASSUME SyncInit PROVE SyncInv
  OBVIOUS
<1>1. Idle \in JobRecord /\ Idle.phase = "idle" /\ Idle.pending = {}
  BY SyncConstants DEF Idle, JobRecord
<1>2. SyncTyped
  BY <1>1, SyncConstants DEF SyncInit, SyncTyped
<1>3. NativeHasNoHole
  <2>1. published[Native] = {1} /\ {1} = 1 .. 1
    BY SyncConstants DEF SyncInit
  <2> QED BY <2>1, NewestOfInterval DEF NativeHasNoHole
<1>4. MetadataBacked
  <2>1. \A k \in Keys : k[2] \in TF
    BY DEF Keys
  <2>2. Newest({}) \in {0}
    BY NewestValue
  <2> QED BY <2>1, <2>2 DEF SyncInit, MetadataBacked
<1>5. WholeWhenNothingFails
  BY SyncConstants DEF SyncInit, WholeWhenNothingFails
<1> QED BY <1>1, <1>2, <1>3, <1>4, <1>5 DEF SyncInit, SyncInv, SyncSound, Publishing, Projected

(* A session that ends changes nothing but what is to be published next.    *)
LEMMA SessionEndsKeeps == SyncInv /\ SessionEnds => SyncInv'
<1> SUFFICES ASSUME SyncInv, SessionEnds PROVE SyncInv'
  OBVIOUS
<1>1. closed \in Nat /\ closed' = closed + 1 /\ closed < LastSession /\ LastSession \in Nat
  BY SyncConstants DEF SyncInv, SyncTyped, SessionEnds
<1>2. 1 .. closed \subseteq 1 .. closed' /\ 0 .. closed \subseteq 0 .. closed'
  BY <1>1
<1>3. closed' \in 1 .. LastSession
  BY <1>1
<1>4. SyncTyped'
  BY <1>2, <1>3 DEF SyncInv, SyncTyped, SessionEnds
<1>5. SyncSound'
  BY DEF SyncInv, SyncSound, NativeHasNoHole, MetadataBacked, WholeWhenNothingFails, SessionEnds
<1>6. \A a, b : InBatch(a, b) => InBatch(a, b)'
  BY DEF InBatch, Past, SessionEnds
<1>7. Publishing'
  BY <1>2, <1>6 DEF SyncInv, Publishing, SessionEnds
<1>8. Projected'
  BY DEF SyncInv, Projected, SessionEnds, Recent
<1> QED BY <1>4, <1>5, <1>7, <1>8 DEF SyncInv

(* A sync starts after the newest native session.                           *)
LEMMA StartSyncKeeps == SyncInv /\ StartSync => SyncInv'
<1> SUFFICES ASSUME SyncInv, StartSync PROVE SyncInv'
  OBVIOUS
<1> DEFINE n == Newest(published[Native])
<1>1. /\ closed \in Nat /\ published[Native] \in SUBSET (1 .. closed)
      /\ published[Native] = 1 .. n /\ job.phase = "idle"
  BY SyncConstants DEF SyncInv, SyncTyped, SyncSound, NativeHasNoHole, StartSync
<1>2. n \in 0 .. closed
  BY <1>1, NewestValue
<1>3. MissingSessions = n + 1 .. closed
  BY DEF MissingSessions
<1>4. /\ job' \in JobRecord /\ job'.pending = MissingSessions
      /\ job'.step = 1 /\ job'.failed = FALSE /\ job'.key = 1
      /\ job'.phase = IF MissingSessions = {} THEN "projecting" ELSE "publishing"
      /\ MissingSessions \subseteq 1 .. closed
  <2> DEFINE p == IF MissingSessions = {} THEN "projecting" ELSE "publishing"
  <2>1. job' = [phase |-> p, pending |-> MissingSessions, step |-> 1, failed |-> FALSE, key |-> 1]
    BY DEF StartSync, Idle
  <2>2. MissingSessions \subseteq 1 .. closed /\ MissingSessions \subseteq Nat
    BY <1>2, <1>3
  <2>3. p \in {"publishing", "projecting"}
    OBVIOUS
  <2> HIDE DEF p
  <2>4. job' \in JobRecord
    BY <2>1, <2>2, <2>3, SyncConstants DEF JobRecord
  <2> QED BY <2>1, <2>2, <2>4 DEF p
<1>5. UNCHANGED <<closed, published, redis, metadata, syncFailures>>
  BY DEF StartSync
<1> HIDE DEF n
<1>6. SyncTyped'
  BY <1>4, <1>5 DEF SyncInv, SyncTyped
<1>7. syncFailures = 0 => \A t \in TF : published[t] = 1 .. n
  BY <1>1 DEF SyncInv, SyncSound, WholeWhenNothingFails
<1>8. SyncSound'
  BY <1>1, <1>4, <1>5 DEF SyncInv, SyncSound, NativeHasNoHole, MetadataBacked,
     WholeWhenNothingFails
<1>9. Publishing'
  <2>1. SUFFICES ASSUME MissingSessions # {} PROVE \E a, b \in 1 .. closed' : InBatch(a, b)'
    BY <1>4 DEF Publishing
  <2>2. PICK a, b : a = n + 1 /\ b = closed
    OBVIOUS
  <2>3. a \in 1 .. closed /\ b \in 1 .. closed /\ a <= b /\ a - 1 = n
    BY <1>1, <1>2, <1>3, <2>1, <2>2
  <2>4. \A t \in TF : ~Past(t)'
    BY <1>4 DEF Past
  <2>5. /\ job'.pending = a .. b /\ published'[Native] = 1 .. a - 1
        /\ syncFailures' = 0 => \A t \in TF : published'[t] = 1 .. a - 1
    BY <1>1, <1>3, <1>4, <1>5, <1>7, <2>2, <2>3
  <2>6. InBatch(a, b)'
    BY <1>4, <2>3, <2>4, <2>5 DEF InBatch
  <2> QED BY <1>5, <2>3, <2>6
<1>10. Projected'
  BY <1>4, SyncConstants DEF Projected
<1> QED BY <1>6, <1>8, <1>9, <1>10 DEF SyncInv
(* A contract of the batch is published or fails.                           *)
LEMMA PublishContractKeeps == SyncInv /\ PublishContract => SyncInv'
<1> SUFFICES ASSUME SyncInv, PublishContract PROVE SyncInv'
  OBVIOUS
<1> DEFINE t == Timeframes[job.step]
<1>1. /\ job.phase = "publishing" /\ job.step \in 1 .. Len(Timeframes) /\ job \in JobRecord
      /\ job.step \in Nat \ {0} /\ t \in TF /\ closed \in Nat
      /\ published \in [TF -> SUBSET (1 .. closed)] /\ Native \in TF
  <2>1. job.step \in Nat \ {0} /\ job.step <= Len(Timeframes)
    BY DEF SyncInv, SyncTyped, PublishContract, JobRecord
  <2>2. job.step \in 1 .. Len(Timeframes)
    BY <2>1, SyncConstants
  <2> QED BY <2>1, <2>2, SyncConstants DEF SyncInv, SyncTyped, PublishContract
<1>2. PICK a \in 1 .. closed, b \in 1 .. closed : InBatch(a, b)
  BY <1>1 DEF SyncInv, Publishing
<1> DEFINE m == BatchEnd(a, b)
<1>3. /\ BatchOf(job.pending) = a .. m /\ m \in a .. b
      /\ a .. m \subseteq 1 .. closed
      /\ 1 .. a - 1 \cup a .. m = 1 .. m /\ 1 .. m \cup a .. m = 1 .. m
  <2>1. a \in Nat /\ b \in Nat /\ a <= b /\ job.pending = a .. b
    BY <1>1, <1>2 DEF InBatch
  <2>2. BatchOf(job.pending) = a .. m /\ m \in a .. b
    BY <2>1, BatchOfInterval
  <2> HIDE DEF m
  <2> QED BY <1>1, <1>2, <2>1, <2>2
<1> HIDE DEF m
<1>4. /\ UNCHANGED <<closed, redis, metadata>>
      /\ job' \in JobRecord /\ job'.phase = "publishing" /\ job'.pending = job.pending
      /\ job'.step = job.step + 1 /\ job'.key = job.key
  <2>1. \/ job' = [job EXCEPT !.step = @ + 1]
        \/ job' = [job EXCEPT !.step = @ + 1, !.failed = TRUE]
    BY DEF PublishContract
  <2>2. job' \in JobRecord
    <3>1. job.step + 1 \in Nat \ {0}
      BY <1>1
    <3>2. [job EXCEPT !.step = @ + 1] \in JobRecord
      BY <1>1, <3>1 DEF JobRecord
    <3>3. [job EXCEPT !.step = @ + 1, !.failed = TRUE]
          = [[job EXCEPT !.step = @ + 1] EXCEPT !.failed = TRUE]
      OBVIOUS
    <3>4. \A j \in JobRecord : [j EXCEPT !.failed = TRUE] \in JobRecord
      BY DEF JobRecord
    <3> QED BY <2>1, <3>2, <3>3, <3>4
  <2>3. /\ job'.phase = "publishing" /\ job'.pending = job.pending
        /\ job'.step = job.step + 1 /\ job'.key = job.key
    BY <1>1, <2>1 DEF JobRecord
  <2> QED BY <2>2, <2>3 DEF PublishContract
<1>5. \A u : Past(u)' <=> Past(u) \/ u = t
  <2>1. 1 .. job'.step - 1 = 1 .. job.step /\ 1 .. job.step = (1 .. job.step - 1) \cup {job.step}
    BY <1>1, <1>4
  <2> QED BY <2>1 DEF Past
<1>6. /\ \/ published' = [published EXCEPT ![t] = @ \cup (a .. m)]
            /\ job'.failed = job.failed /\ UNCHANGED syncFailures
         \/ UNCHANGED published /\ job'.failed = TRUE
            /\ syncFailures' = syncFailures + 1 /\ syncFailures < MaxFailures
  BY <1>1, <1>3 DEF PublishContract, FailsNow, JobRecord
<1>7. published' \in [TF -> SUBSET (1 .. closed)] /\ \A u \in TF : published[u] \subseteq published'[u]
  BY <1>1, <1>3, <1>6
<1>8. /\ syncFailures' \in 0 .. MaxFailures
      /\ syncFailures' = 0 => syncFailures = 0 /\ job'.failed = job.failed
           /\ published' = [published EXCEPT ![t] = @ \cup (a .. m)]
  <2>1. syncFailures \in 0 .. MaxFailures /\ MaxFailures \in Nat
    BY SyncConstants DEF SyncInv, SyncTyped
  <2> QED BY <1>6, <2>1
<1>9. SyncTyped'
  BY <1>4, <1>7, <1>8 DEF SyncInv, SyncTyped
<1> DEFINE N == published[Native]
<1>10. /\ N = 1 .. a - 1 \/ N = 1 .. m
       /\ job.step = 1 => N = 1 .. a - 1 /\ ~job.failed
       /\ job.step > 1 /\ ~job.failed => N = 1 .. m
       /\ syncFailures = 0 =>
            /\ ~job.failed
            /\ \A u \in TF : published[u] = IF Past(u) THEN 1 .. m ELSE 1 .. a - 1
       /\ a <= b /\ job.pending = a .. b /\ job.key = 1
  BY <1>2 DEF InBatch, m
<1>11. /\ published'[Native] = 1 .. a - 1 \/ published'[Native] = 1 .. m
       /\ ~job'.failed => published'[Native] = 1 .. m
  <2>1. CASE UNCHANGED published /\ job'.failed = TRUE
    BY <1>10, <2>1
  <2>2. CASE published' = [published EXCEPT ![t] = @ \cup (a .. m)] /\ job'.failed = job.failed
    <3>1. job.step = 1 => t = Native
      BY DEF Native
    <3>2. published'[Native] = IF t = Native THEN N \cup (a .. m) ELSE N
      BY <1>1, <2>2
    <3>3. t = Native => published'[Native] = 1 .. m
      BY <1>3, <1>10, <3>2
    <3>4. job.step = 1 \/ job.step > 1
      BY <1>1
    <3> QED BY <1>10, <2>2, <3>1, <3>2, <3>3, <3>4
  <2> QED BY <1>6, <2>1, <2>2
<1>12. ASSUME syncFailures' = 0
       PROVE  /\ ~job'.failed
              /\ \A u \in TF : published'[u] = IF Past(u)' THEN 1 .. m ELSE 1 .. a - 1
  <2>1. ~job'.failed
    BY <1>8, <1>10, <1>12
  <2>2. ASSUME NEW u \in TF
        PROVE  published'[u] = IF Past(u)' THEN 1 .. m ELSE 1 .. a - 1
    <3>1. published[u] = IF Past(u) THEN 1 .. m ELSE 1 .. a - 1
      BY <1>8, <1>10, <1>12
    <3>2. published'[u] = IF u = t THEN published[u] \cup (a .. m) ELSE published[u]
      BY <1>1, <1>8, <1>12
    <3> QED BY <1>3, <1>5, <3>1, <3>2
  <2> QED BY <2>1, <2>2
<1>13. InBatch(a, b)'
  BY <1>1, <1>4, <1>10, <1>11, <1>12 DEF InBatch, m
<1>14. NativeHasNoHole'
  <2>1. a - 1 \in Nat /\ m \in Nat
    BY <1>1, <1>3
  <2> QED BY <1>11, <2>1, NewestOfInterval DEF NativeHasNoHole
<1>15. MetadataBacked'
  <2>1. \A k \in Keys : k[2] \in TF
    BY DEF Keys
  <2> QED BY <1>4, <1>7, <2>1 DEF SyncInv, SyncSound, MetadataBacked
<1>16. WholeWhenNothingFails' /\ Publishing' /\ Projected'
  BY <1>4, <1>13 DEF WholeWhenNothingFails, Publishing, Projected
<1> QED BY <1>9, <1>14, <1>15, <1>16 DEF SyncInv, SyncSound

(* After a batch that went through the next one follows, or the projection; *)
(* a failed one ends the sync.                                              *)
LEMMA FinishBatchKeeps == SyncInv /\ FinishBatch => SyncInv'
<1> SUFFICES ASSUME SyncInv, FinishBatch PROVE SyncInv'
  OBVIOUS
<1>1. /\ job.phase = "publishing" /\ job.step > Len(Timeframes) /\ job \in JobRecord
      /\ job.step \in Nat /\ job.step > 1
      /\ closed \in Nat /\ UNCHANGED <<closed, published, redis, metadata, syncFailures>>
  <2>1. job.step \in Nat \ {0} /\ job.step > Len(Timeframes)
    BY DEF SyncInv, SyncTyped, FinishBatch, JobRecord
  <2> QED BY <2>1, SyncConstants DEF SyncInv, SyncTyped, FinishBatch
<1>2. PICK a \in 1 .. closed, b \in 1 .. closed : InBatch(a, b)
  BY <1>1 DEF SyncInv, Publishing
<1> DEFINE m == BatchEnd(a, b)
<1> DEFINE rest == job.pending \ BatchOf(job.pending)
<1>3. /\ a \in Nat /\ b \in Nat /\ m \in a .. b /\ rest = m + 1 .. b
      /\ rest \subseteq 1 .. closed /\ rest \subseteq Nat
  <2>1. a \in Nat /\ b \in Nat /\ a <= b /\ job.pending = a .. b
    BY <1>1, <1>2 DEF InBatch
  <2>2. BatchOf(job.pending) = a .. m /\ m \in a .. b
    BY <2>1, BatchOfInterval
  <2> HIDE DEF m
  <2>3. rest = m + 1 .. b
    BY <2>1, <2>2
  <2> HIDE DEF rest
  <2> QED BY <1>1, <1>2, <2>1, <2>2, <2>3
<1>4. /\ ~job.failed => published[Native] = 1 .. m
      /\ syncFailures = 0 => ~job.failed /\ \A t \in TF : published[t] = 1 .. m
      /\ job.key = 1
  <2>1. \A t \in TF : Past(t)
    <3>1. \A s \in 1 .. Len(Timeframes) : s \in 1 .. job.step - 1
      BY <1>1, SyncConstants
    <3> QED BY <3>1, SyncConstants DEF Past, TF
  <2> QED BY <1>1, <1>2, <2>1 DEF InBatch
<1>5. CASE job.failed
  <2>1. job' = Idle /\ syncFailures # 0
    BY <1>4, <1>5 DEF FinishBatch, GoesOn
  <2>2. Idle \in JobRecord /\ Idle.phase = "idle" /\ Idle.pending = {}
    BY SyncConstants DEF Idle, JobRecord
  <2>3. SyncTyped'
    BY <1>1, <2>1, <2>2 DEF SyncInv, SyncTyped
  <2> QED BY <1>1, <2>1, <2>2, <2>3 DEF SyncInv, SyncSound, NativeHasNoHole, MetadataBacked,
          WholeWhenNothingFails, Publishing, Projected
<1>6. CASE ~job.failed
  <2>1. /\ job' \in JobRecord /\ job'.pending = rest /\ job'.step = 1 /\ job'.failed = FALSE
        /\ job'.key = 1 /\ job'.phase = IF rest = {} THEN "projecting" ELSE "publishing"
    <3> DEFINE p == IF rest = {} THEN "projecting" ELSE "publishing"
    <3>1. job' = [job EXCEPT !.pending = rest, !.step = 1, !.failed = FALSE, !.phase = p]
      BY <1>6 DEF FinishBatch, GoesOn
    <3>2. p \in {"publishing", "projecting"} /\ rest \in SUBSET Nat
      BY <1>3
    <3> HIDE DEF p, rest
    <3>3. job' \in JobRecord
      <4> DEFINE j1 == [job EXCEPT !.pending = rest]
      <4> DEFINE j2 == [j1 EXCEPT !.step = 1]
      <4> DEFINE j3 == [j2 EXCEPT !.failed = FALSE]
      <4>1. j1 \in JobRecord
        BY <1>1, <3>2 DEF JobRecord
      <4>2. j2 \in JobRecord
        <5> HIDE DEF j1
        <5> QED BY <4>1 DEF JobRecord
      <4>3. j3 \in JobRecord
        <5> HIDE DEF j2
        <5> QED BY <4>2 DEF JobRecord
      <4>4. [j3 EXCEPT !.phase = p] \in JobRecord
        <5> HIDE DEF j3
        <5> QED BY <3>2, <4>3 DEF JobRecord
      <4>5. [job EXCEPT !.pending = rest, !.step = 1, !.failed = FALSE, !.phase = p]
            = [j3 EXCEPT !.phase = p]
        OBVIOUS
      <4> QED BY <3>1, <4>4, <4>5
    <3>4. /\ job'.pending = rest /\ job'.step = 1 /\ job'.failed = FALSE
          /\ job'.key = job.key /\ job'.phase = p
      BY <1>1, <3>1 DEF JobRecord
    <3> QED BY <1>4, <3>3, <3>4 DEF p
  <2> HIDE DEF rest, m
  <2>2. SyncTyped'
    BY <1>1, <1>3, <2>1 DEF SyncInv, SyncTyped
  <2>3. SyncSound'
    BY <1>1, <1>4, <1>6, <2>1, SyncConstants DEF SyncInv, SyncSound, NativeHasNoHole,
       MetadataBacked, WholeWhenNothingFails
  <2>4. Publishing'
    <3>1. SUFFICES ASSUME rest # {} PROVE \E x, y \in 1 .. closed' : InBatch(x, y)'
      BY <2>1 DEF Publishing
    <3>2. m + 1 \in 1 .. closed /\ m + 1 <= b /\ (m + 1) - 1 = m
      BY <1>1, <1>2, <1>3, <3>1
    <3>3. \A t \in TF : ~Past(t)'
      BY <2>1 DEF Past
    <3>4. InBatch(m + 1, b)'
      BY <1>1, <1>3, <1>4, <1>6, <2>1, <3>2, <3>3 DEF InBatch
    <3> QED BY <1>1, <1>2, <3>2, <3>4
  <2>5. Projected'
    BY <2>1, SyncConstants DEF Projected
  <2> QED BY <2>2, <2>3, <2>4, <2>5 DEF SyncInv
<1> QED BY <1>5, <1>6

(* A key is set to what is published of its timeframe.                      *)
LEMMA ProjectKeyKeeps == SyncInv /\ ProjectKey => SyncInv'
<1> SUFFICES ASSUME SyncInv, ProjectKey PROVE SyncInv'
  OBVIOUS
<1> DEFINE t == Timeframes[job.step]
<1> DEFINE k == <<Listed[job.key], t>>
<1>1. /\ job.phase = "projecting" /\ job \in JobRecord
      /\ job.step \in 1 .. Len(Timeframes) /\ job.key \in 1 .. Len(Listed)
      /\ t \in TF /\ k \in Keys /\ k[2] = t
      /\ closed \in Nat /\ published[t] \in SUBSET (1 .. closed)
      /\ redis \in [Keys -> SUBSET (1 .. closed)]
      /\ UNCHANGED <<closed, published, metadata, syncFailures>>
  <2>1. job.step \in Nat \ {0} /\ job.step <= Len(Timeframes) /\ job.key \in 1 .. Len(Listed)
    BY DEF SyncInv, SyncTyped, ProjectKey, JobRecord
  <2>2. job.step \in 1 .. Len(Timeframes)
    BY <2>1, SyncConstants
  <2> QED BY <2>1, <2>2, SyncConstants DEF SyncInv, SyncTyped, ProjectKey
<1>2. /\ Recent(t) \in SUBSET published[t] /\ Recent(t) \in SUBSET (1 .. closed)
      /\ Newest(Recent(t)) = Newest(published[t])
  BY <1>1, NewestOfRecent
<1>3. redis' = [redis EXCEPT ![k] = Recent(t)]
  BY DEF ProjectKey
<1>4. /\ job' \in JobRecord /\ job'.phase = "projecting" /\ job'.pending = job.pending
      /\ \/ job.key < Len(Listed) /\ job'.step = job.step /\ job'.key = job.key + 1
         \/ job.key = Len(Listed) /\ job'.step = job.step + 1 /\ job'.key = 1
  <2>1. CASE job.key < Len(Listed)
    <3>1. job' = [job EXCEPT !.key = @ + 1] /\ job.key + 1 \in 1 .. Len(Listed)
      BY <1>1, <2>1, SyncConstants DEF ProjectKey
    <3>2. job' \in JobRecord
      BY <1>1, <3>1 DEF JobRecord
    <3> QED BY <1>1, <2>1, <3>1, <3>2 DEF JobRecord
  <2>2. CASE ~(job.key < Len(Listed))
    <3>1. job' = [job EXCEPT !.key = 1, !.step = @ + 1] /\ job.key = Len(Listed)
      BY <1>1, <2>2, SyncConstants DEF ProjectKey
    <3>2. [job EXCEPT !.key = 1, !.step = @ + 1] = [[job EXCEPT !.key = 1] EXCEPT !.step = @ + 1]
      BY <1>1 DEF JobRecord
    <3>3. [job EXCEPT !.key = 1] \in JobRecord
      BY <1>1, SyncConstants DEF JobRecord
    <3>4. \A j \in JobRecord : [j EXCEPT !.step = @ + 1] \in JobRecord
      BY DEF JobRecord
    <3>5. job' \in JobRecord
      BY <3>1, <3>2, <3>3, <3>4
    <3> QED BY <1>1, <3>1, <3>5 DEF JobRecord
  <2> QED BY <2>1, <2>2
<1> HIDE DEF t, k
<1>5. SyncTyped'
  BY <1>1, <1>2, <1>3, <1>4 DEF SyncInv, SyncTyped
<1>6. NativeHasNoHole' /\ WholeWhenNothingFails'
  BY <1>1, <1>4 DEF SyncInv, SyncSound, NativeHasNoHole, WholeWhenNothingFails
<1>7. MetadataBacked'
  <2> SUFFICES ASSUME NEW q \in Keys
               PROVE  redis'[q] \subseteq published[q[2]] /\ metadata[q[2]] <= Newest(redis'[q])
    BY <1>1 DEF MetadataBacked
  <2>1. redis[q] \subseteq published[q[2]] /\ metadata[q[2]] <= Newest(redis[q])
    BY DEF SyncInv, SyncSound, MetadataBacked
  <2>2. CASE q = k
    <3>1. redis'[q] = Recent(t) /\ q[2] = t
      BY <1>1, <1>3, <2>2
    <3>2. /\ Newest(redis[q]) \in redis[q] \cup {0} /\ Newest(redis[q]) \in 0 .. closed
          /\ Newest(published[t]) \in 0 .. closed /\ \A s \in published[t] : s <= Newest(published[t])
      BY <1>1, NewestValue
    <3>3. Newest(redis[q]) <= Newest(published[t])
      BY <1>1, <2>1, <3>1, <3>2
    <3>4. metadata[t] \in Nat
      BY <1>1 DEF SyncInv, SyncTyped
    <3> QED BY <1>1, <1>2, <2>1, <3>1, <3>2, <3>3, <3>4
  <2>3. CASE q # k
    BY <1>1, <1>3, <2>1, <2>3
  <2> QED BY <2>2, <2>3
<1>8. Publishing'
  BY <1>4 DEF Publishing
<1>9. Projected'
  <2> SUFFICES ASSUME NEW s \in 1 .. Len(Timeframes), NEW j \in 1 .. Len(Listed),
                      s < job'.step \/ (s = job'.step /\ j < job'.key)
               PROVE  redis'[<<Listed[j], Timeframes[s]>>] = Recent(Timeframes[s])'
    BY SyncConstants DEF Projected
  <2>1. /\ Recent(Timeframes[s])' = Recent(Timeframes[s])
        /\ <<Listed[j], Timeframes[s]>> \in Keys
    BY <1>1, SyncConstants DEF Recent
  <2>2. s < job.step \/ (s = job.step /\ j < job.key) \/ (s = job.step /\ j = job.key)
    BY <1>1, <1>4, SyncConstants
  <2>3. CASE s < job.step \/ (s = job.step /\ j < job.key)
    <3>1. redis[<<Listed[j], Timeframes[s]>>] = Recent(Timeframes[s])
      BY <1>1, <2>3, SyncConstants DEF SyncInv, Projected
    <3>2. <<Listed[j], Timeframes[s]>> = k => Timeframes[s] = t
      BY DEF k
    <3> QED BY <1>1, <1>3, <2>1, <3>1, <3>2
  <2>4. CASE s = job.step /\ j = job.key
    <3>1. <<Listed[j], Timeframes[s]>> = k /\ Timeframes[s] = t
      BY <2>4 DEF k, t
    <3> QED BY <1>1, <1>3, <2>1, <3>1
  <2> QED BY <2>2, <2>3, <2>4
<1> QED BY <1>5, <1>6, <1>7, <1>8, <1>9 DEF SyncInv, SyncSound

(* The metadata is written when every key holds what is published.          *)
LEMMA WriteMetadataKeeps == SyncInv /\ WriteMetadata => SyncInv'
<1> SUFFICES ASSUME SyncInv, WriteMetadata PROVE SyncInv'
  OBVIOUS
<1>1. /\ job.phase = "projecting" /\ job.step > Len(Timeframes) /\ job.step \in Nat
      /\ closed \in Nat /\ published \in [TF -> SUBSET (1 .. closed)] /\ job \in JobRecord
      /\ UNCHANGED <<closed, published, redis, syncFailures>>
      /\ metadata' = [u \in TF |-> Newest(published[u])]
  BY DEF SyncInv, SyncTyped, WriteMetadata, AllProjected, JobRecord
<1>2. \A u \in TF : Newest(published[u]) \in 0 .. closed
  BY <1>1, NewestValue
<1>3. job' \in JobRecord /\ job'.phase = "succeeded" /\ job'.pending = job.pending
  BY <1>1 DEF WriteMetadata, JobRecord
<1>4. SyncTyped'
  BY <1>1, <1>2, <1>3 DEF SyncInv, SyncTyped
<1>5. NativeHasNoHole' /\ WholeWhenNothingFails'
  BY <1>1, <1>3 DEF SyncInv, SyncSound, NativeHasNoHole, WholeWhenNothingFails
<1>6. MetadataBacked'
  <2> SUFFICES ASSUME NEW q \in Keys
               PROVE  redis[q] \subseteq published[q[2]] /\ metadata'[q[2]] <= Newest(redis[q])
    BY <1>1 DEF MetadataBacked
  <2>1. PICK j \in 1 .. Len(Listed), s \in 1 .. Len(Timeframes) :
          q = <<Listed[j], Timeframes[s]>> /\ q[2] = Timeframes[s]
    BY SyncConstants DEF Keys, TF
  <2>2. s < job.step /\ Timeframes[s] \in TF
    BY <1>1, SyncConstants
  <2>3. redis[q] = Recent(Timeframes[s])
    BY <1>1, <2>1, <2>2, SyncConstants DEF SyncInv, Projected
  <2>4. Newest(redis[q]) = Newest(published[q[2]]) /\ redis[q] \subseteq published[q[2]]
    BY <1>1, <2>1, <2>2, <2>3, NewestOfRecent
  <2>5. metadata'[q[2]] = Newest(published[q[2]]) /\ Newest(published[q[2]]) \in Nat
    <3>1. PICK u \in TF : u = q[2]
      BY <2>1, <2>2
    <3>2. metadata'[u] = Newest(published[u])
      BY <1>1
    <3>3. Newest(published[u]) \in Nat
      BY <1>1, <1>2
    <3> QED BY <3>1, <3>2, <3>3
  <2> QED BY <2>4, <2>5
<1>7. Publishing' /\ Projected'
  BY <1>3 DEF Publishing, Projected
<1> QED BY <1>4, <1>5, <1>6, <1>7 DEF SyncInv, SyncSound

(* The sync ends, after its success or by a failure.                        *)
LEMMA SyncEndKeeps == SyncInv /\ (ReportSuccess \/ SyncDies) => SyncInv'
<1> SUFFICES ASSUME SyncInv, ReportSuccess \/ SyncDies PROVE SyncInv'
  OBVIOUS
<1>1. /\ job' = Idle /\ UNCHANGED <<closed, published, redis, metadata>>
      /\ \/ UNCHANGED syncFailures /\ job.phase = "succeeded"
         \/ syncFailures' = syncFailures + 1 /\ syncFailures < MaxFailures
      /\ syncFailures \in 0 .. MaxFailures /\ MaxFailures \in Nat
  BY SyncConstants DEF SyncInv, SyncTyped, ReportSuccess, SyncDies, FailsNow
<1>2. Idle \in JobRecord /\ Idle.phase = "idle" /\ Idle.pending = {}
  BY SyncConstants DEF Idle, JobRecord
<1>3. syncFailures' \in 0 .. MaxFailures /\ (syncFailures' = 0 => syncFailures = 0 /\ job.phase = "succeeded")
  BY <1>1
<1>4. SyncTyped'
  BY <1>1, <1>2, <1>3 DEF SyncInv, SyncTyped
<1>5. SyncSound'
  BY <1>1, <1>3 DEF SyncInv, SyncSound, NativeHasNoHole, MetadataBacked, WholeWhenNothingFails
<1>6. Publishing' /\ Projected'
  BY <1>1, <1>2 DEF Publishing, Projected
<1> QED BY <1>4, <1>5, <1>6 DEF SyncInv

(* Every step of the sync and of the calendar keeps the invariant.          *)
LEMMA SyncStepKeeps == SyncInv /\ [SyncNext]_syncVars => SyncInv'
<1> SUFFICES ASSUME SyncInv, [SyncNext]_syncVars PROVE SyncInv'
  OBVIOUS
<1>1. CASE UNCHANGED syncVars
  BY <1>1 DEF syncVars, SyncInv, SyncTyped, SyncSound, NativeHasNoHole, MetadataBacked,
     WholeWhenNothingFails, Publishing, Projected, InBatch, Past, Recent
<1>2. CASE SyncNext
  BY <1>2, SessionEndsKeeps, StartSyncKeeps, PublishContractKeeps, FinishBatchKeeps,
     ProjectKeyKeeps, WriteMetadataKeeps, SyncEndKeeps DEF SyncNext
<1> QED BY <1>1, <1>2

(* Whatever fails, and wherever the process dies: the native history has no *)
(* hole, the metadata speaks of no session a key lacks, and without a       *)
(* failure every resolution holds the same sessions                         *)
(* (sync_market_history.py).                                                *)
THEOREM SyncIsSound == SyncSpec => []SyncSound
<1>1. SyncInv => SyncSound
  BY DEF SyncInv
<1> QED BY <1>1, SyncInitGood, SyncStepKeeps, PTL DEF SyncSpec

-----------------------------------------------------------------------------
(* RealtimePort                                                             *)

PortRecord ==
  [buffer : SUBSET Bar, seen : SUBSET Bar, accepted : SUBSET Bar, cleared : SUBSET Bar,
   stopping : BOOLEAN]
ExecutionRecord ==
  [id : CommandId \cup {"none"}, next : Nat \ {0}, flushing : BOOLEAN, published : SUBSET Nat]

(* The process has accepted as many later sessions as it remembers.         *)
Outlived(b) == Cardinality(Later(Sessions(port.accepted), b)) >= RetainedSessions

(* What the ingestor accepted is buffered, in the catalog or quarantined,   *)
(* and remembered unless it was outlived.                                   *)
PortKnows ==
  /\ port \in PortRecord
  /\ port.accepted \subseteq port.buffer \cup catalog \cup quarantined
  /\ port.buffer \cup port.seen \cup port.cleared \subseteq port.accepted
  /\ IsFiniteSet(Sessions(port.accepted))
  /\ \A b \in port.accepted \ port.seen : Outlived(b)

(* The events of the command in execution were accepted up to its next, all *)
(* of them before its flush; a year that is published has its bars.         *)
ExecutingGood ==
  /\ executing \in ExecutionRecord
  /\ ~executing.flushing => executing.published = {}
  /\ \A b \in port.buffer : BarYear[b] \in executing.published => b \in catalog \cup quarantined
  /\ executing # NoCommand =>
       /\ executing.id \in CommandId
       /\ executing.flushing => executing.next > Len(Events[executing.id])
       /\ \A j \in 1 .. Len(Events[executing.id]) :
            j < executing.next => Events[executing.id][j] \in port.accepted

PortInv ==
  /\ PortKnows /\ ExecutingGood
  /\ outcome \in [CommandId -> {"new", "failed", "refused", "done"}]
  /\ catalog \cup quarantined \subseteq Bar
  /\ PortSound

(* The bars of a command are those among its events that carry one.         *)
LEMMA BarsOfEvents ==
  ASSUME NEW c \in CommandId
  PROVE  /\ Len(Events[c]) \in Nat
         /\ BarsOf(c) = {Events[c][j] : j \in 1 .. Len(Events[c])} \ {BadEvent}
         /\ BarsOf(c) \subseteq Bar
<1>1. Events[c] \in Seq(ToSet(Events[c]))
  BY PortAssumption
<1>2. DOMAIN Events[c] = 1 .. Len(Events[c]) /\ Len(Events[c]) \in Nat
  BY <1>1
<1> QED BY <1>2 DEF BarsOf, ToSet, Bar

(* More bars have at least as many sessions later than a bar's.             *)
LEMMA LaterGrows ==
  ASSUME NEW T, NEW S \in SUBSET T, IsFiniteSet(Sessions(T)), NEW x
  PROVE  /\ Cardinality(Later(Sessions(S), x)) \in Nat
         /\ Cardinality(Later(Sessions(T), x)) \in Nat
         /\ Cardinality(Later(Sessions(S), x)) <= Cardinality(Later(Sessions(T), x))
<1>1. Later(Sessions(S), x) \subseteq Later(Sessions(T), x) /\ Later(Sessions(T), x) \subseteq Sessions(T)
  BY DEF Later, Sessions
<1>2. IsFiniteSet(Later(Sessions(T), x)) /\ IsFiniteSet(Later(Sessions(S), x))
  BY <1>1, FS_Subset
<1> QED BY <1>1, <1>2, FS_Subset, FS_CardinalityType

(* A worker starts with an empty ingestor and no command.                   *)
LEMMA NoCommandGood ==
  NoCommand \in ExecutionRecord /\ ~NoCommand.flushing /\ NoCommand.published = {}
BY DEF NoCommand, ExecutionRecord

LEMMA NewIngestorGood ==
  /\ NewIngestor \in PortRecord /\ NewIngestor.buffer = {} /\ NewIngestor.seen = {}
  /\ NewIngestor.accepted = {} /\ NewIngestor.cleared = {}
  /\ IsFiniteSet(Sessions(NewIngestor.accepted))
<1>1. Sessions({}) = {}
  BY DEF Sessions
<1> QED BY <1>1, FS_EmptySet DEF NewIngestor, PortRecord

LEMMA PortInitGood == PortInit => PortInv
<1> SUFFICES ASSUME PortInit PROVE PortInv
  OBVIOUS
<1>1. PortKnows
  BY NewIngestorGood DEF PortInit, PortKnows
<1>2. ExecutingGood
  BY NewIngestorGood, NoCommandGood DEF PortInit, ExecutingGood
<1>3. PortSound
  BY NewIngestorGood DEF PortInit, PortSound, AnsweredIsPublished, ReplayRecognised
<1> QED BY <1>1, <1>2, <1>3 DEF PortInit, PortInv

(* A command that is answered without a flush leaves the port as it is.     *)
LEMMA AnswerKeeps ==
  ASSUME PortInv, NEW c \in CommandId, NEW o \in {"failed", "refused", "done"},
         Answer(c, o), o = "done" => ~Flushes[c],
         UNCHANGED <<port, catalog, quarantined>>
  PROVE  PortInv'
<1>1. outcome' = [outcome EXCEPT ![c] = o] /\ executing' = NoCommand
  BY DEF Answer
<1>2. outcome' \in [CommandId -> {"new", "failed", "refused", "done"}]
  BY <1>1 DEF PortInv
<1>3. \A d \in CommandId : outcome'[d] = "done" /\ Flushes[d] => outcome[d] = "done"
  BY <1>1 DEF PortInv
<1>4. PortKnows'
  BY DEF PortInv, PortKnows, Outlived
<1>5. ExecutingGood'
  BY <1>1, NoCommandGood DEF ExecutingGood
<1>6. PortSound'
  BY <1>3 DEF PortInv, PortSound, AnsweredIsPublished, ReplayRecognised
<1> QED BY <1>2, <1>4, <1>5, <1>6 DEF PortInv

(* A command is taken up from its first event.                              *)
LEMMA DeliverKeeps == ASSUME PortInv, NEW c \in CommandId, Deliver(c) PROVE PortInv'
<1>1. executing' = [NoCommand EXCEPT !.id = c] /\ UNCHANGED <<port, outcome, catalog, quarantined>>
  BY DEF Deliver
<1>2. /\ executing' \in ExecutionRecord /\ executing'.id = c /\ executing'.next = 1
      /\ ~executing'.flushing /\ executing'.published = {}
  <2>1. executing' = [id |-> c, next |-> 1, flushing |-> FALSE, published |-> {}]
    BY <1>1 DEF NoCommand
  <2> QED BY <2>1 DEF ExecutionRecord
<1>3. ExecutingGood'
  BY <1>1, <1>2, BarsOfEvents DEF ExecutingGood
<1>4. PortKnows'
  BY <1>1 DEF PortInv, PortKnows, Outlived
<1> QED BY <1>1, <1>3, <1>4 DEF PortInv, PortSound, AnsweredIsPublished, ReplayRecognised

(* A bar the process does not remember is buffered; one that it remembered  *)
(* till now is outlived by the sessions that push it out.                   *)
LEMMA AcceptKnows ==
  ASSUME PortInv, NEW b \in Bar, b \notin port.seen, UNCHANGED <<catalog, quarantined>>,
         port' = [port EXCEPT !.buffer = @ \cup {b}, !.seen = StillKnown(b) \cup {b},
                              !.accepted = @ \cup {b}]
  PROVE  /\ PortKnows' /\ ReplayRecognised'
         /\ port'.buffer = port.buffer \cup {b} /\ port'.accepted = port.accepted \cup {b}
<1>1. /\ port \in PortRecord /\ IsFiniteSet(Sessions(port.accepted)) /\ RetainedSessions \in Nat
      /\ port.accepted \subseteq port.buffer \cup catalog \cup quarantined
      /\ port.buffer \cup port.seen \cup port.cleared \subseteq port.accepted
      /\ \A x \in port.accepted \ port.seen : Outlived(x)
      /\ ReplayRecognised
  BY PortAssumption DEF PortInv, PortKnows, PortSound
<1>2. StillKnown(b) \subseteq port.seen
  BY DEF StillKnown
<1>3. /\ port'.buffer = port.buffer \cup {b} /\ port'.seen = StillKnown(b) \cup {b}
      /\ port'.accepted = port.accepted \cup {b} /\ port'.cleared = port.cleared
      /\ port' \in PortRecord
  <2>1. PICK k : k = StillKnown(b) \cup {b}
    OBVIOUS
  <2>2. k \in SUBSET Bar
    BY <1>1, <1>2, <2>1 DEF PortRecord
  <2>3. PICK p1 \in PortRecord : p1 = [port EXCEPT !.buffer = @ \cup {b}]
    BY <1>1 DEF PortRecord
  <2>4. /\ p1.buffer = port.buffer \cup {b} /\ p1.accepted = port.accepted
        /\ p1.cleared = port.cleared
    BY <1>1, <2>3 DEF PortRecord
  <2>5. PICK p2 \in PortRecord : p2 = [p1 EXCEPT !.seen = k]
    BY <2>2 DEF PortRecord
  <2>6. /\ p2.buffer = p1.buffer /\ p2.accepted = p1.accepted /\ p2.cleared = p1.cleared
        /\ p2.seen = k
    BY <2>5 DEF PortRecord
  <2>7. port' = [p2 EXCEPT !.accepted = @ \cup {b}]
    BY <1>1, <2>1, <2>3, <2>5 DEF PortRecord
  <2>8. /\ port' \in PortRecord /\ port'.buffer = p2.buffer /\ port'.cleared = p2.cleared
        /\ port'.seen = p2.seen /\ port'.accepted = p2.accepted \cup {b}
    BY <2>7 DEF PortRecord
  <2> QED BY <2>1, <2>4, <2>6, <2>8
<1>4. IsFiniteSet(Sessions(port'.accepted))
  <2>1. Sessions(port'.accepted) = Sessions(port.accepted) \cup {BarSession[b]}
    BY <1>3 DEF Sessions
  <2>2. IsFiniteSet(Sessions(port.accepted) \cup {BarSession[b]})
    BY <1>1, FS_AddElement
  <2> QED BY <2>1, <2>2
<1>5. ASSUME NEW x, Outlived(x)
      PROVE  Cardinality(Later(Sessions(port'.accepted), x)) >= RetainedSessions
  <2>1. port.accepted \in SUBSET port'.accepted
    BY <1>3
  <2>2. /\ Cardinality(Later(Sessions(port.accepted), x)) \in Nat
        /\ Cardinality(Later(Sessions(port'.accepted), x)) \in Nat
        /\ Cardinality(Later(Sessions(port.accepted), x))
             <= Cardinality(Later(Sessions(port'.accepted), x))
    BY <1>4, <2>1, LaterGrows
  <2> QED BY <1>1, <1>5, <2>2 DEF Outlived
<1>6. ASSUME NEW x \in port.seen \ StillKnown(b)
      PROVE  Cardinality(Later(Sessions(port'.accepted), x)) >= RetainedSessions
  <2>1. port.seen \cup {b} \in SUBSET port'.accepted
    BY <1>1, <1>3
  <2>2. /\ Cardinality(Later(Sessions(port.seen \cup {b}), x)) \in Nat
        /\ Cardinality(Later(Sessions(port'.accepted), x)) \in Nat
        /\ Cardinality(Later(Sessions(port.seen \cup {b}), x))
             <= Cardinality(Later(Sessions(port'.accepted), x))
    BY <1>4, <2>1, LaterGrows
  <2>3. ~(Cardinality(Later(Sessions(port.seen \cup {b}), x)) < RetainedSessions)
    BY <1>6 DEF StillKnown
  <2> QED BY <1>1, <2>2, <2>3
<1>7. ASSUME NEW x \in port'.accepted \ port'.seen
      PROVE  Cardinality(Later(Sessions(port'.accepted), x)) >= RetainedSessions
  <2>1. x \in port.accepted /\ x # b /\ x \notin StillKnown(b)
    BY <1>3, <1>7
  <2>2. CASE x \in port.seen
    BY <1>6, <2>1, <2>2
  <2>3. CASE x \notin port.seen
    BY <1>1, <1>5, <2>1, <2>3
  <2> QED BY <2>2, <2>3
<1>8. ReplayRecognised'
  <2>1. ASSUME NEW x \in port'.buffer \cap port'.cleared
        PROVE  Cardinality(Later(Sessions(port'.accepted), x)) >= RetainedSessions
    <3>1. CASE x \in port.buffer
      BY <1>1, <1>3, <1>5, <2>1, <3>1 DEF ReplayRecognised, Outlived
    <3>2. CASE x = b
      <4>1. b \in port.accepted \ port.seen
        BY <1>1, <1>3, <2>1, <3>2
      <4> QED BY <1>1, <1>5, <3>2, <4>1
    <3> QED BY <1>3, <2>1, <3>1, <3>2
  <2> QED BY <2>1 DEF ReplayRecognised
<1>9. /\ port'.accepted \subseteq port'.buffer \cup catalog' \cup quarantined'
      /\ port'.buffer \cup port'.seen \cup port'.cleared \subseteq port'.accepted
  BY <1>1, <1>2, <1>3
<1>10. PortKnows'
  BY <1>3, <1>4, <1>7, <1>9 DEF PortKnows, Outlived
<1> QED BY <1>3, <1>8, <1>10

LEMMA SubmitKeeps == ASSUME PortInv, NEW b \in Bar, Submit(b) PROVE PortInv'
<1> DEFINE c == executing.id
<1>1. /\ executing # NoCommand /\ executing \in ExecutionRecord /\ c \in CommandId
      /\ b = Events[c][executing.next] /\ executing.next <= Len(Events[c])
      /\ \A j \in 1 .. Len(Events[c]) : j < executing.next => Events[c][j] \in port.accepted
      /\ executing' = [executing EXCEPT !.next = @ + 1]
      /\ UNCHANGED <<outcome, catalog, quarantined>>
  BY DEF PortInv, ExecutingGood, Submit, Submitting, Cmd
<1>2. /\ executing' \in ExecutionRecord /\ executing'.id = c /\ executing'.next = executing.next + 1
      /\ executing'.flushing = executing.flushing /\ executing'.published = executing.published
  BY <1>1 DEF ExecutionRecord
<1>3. ~executing.flushing /\ executing.published = {}
  <2>1. executing.next \in Nat /\ Len(Events[c]) \in Nat
    BY <1>1, BarsOfEvents DEF ExecutionRecord
  <2> QED BY <1>1, <2>1 DEF PortInv, ExecutingGood
<1>4. PortKnows' /\ ReplayRecognised' /\ port'.accepted = port.accepted \cup {b}
  <2>1. CASE Seen(b)
    <3>1. port' = port /\ b \in port.accepted
      BY <2>1 DEF Submit, Seen, PortInv, PortKnows
    <3> QED BY <1>1, <3>1 DEF PortInv, PortKnows, Outlived, PortSound, ReplayRecognised
  <2>2. CASE ~Seen(b)
    BY <1>1, <2>2, AcceptKnows DEF Submit, Seen
  <2> QED BY <2>1, <2>2
<1>5. ExecutingGood'
  <2>1. \A j \in 1 .. Len(Events[c]) : j < executing.next + 1 => j < executing.next \/ j = executing.next
    BY <1>1, BarsOfEvents DEF ExecutionRecord
  <2>2. \A j \in 1 .. Len(Events[c]) : j < executing'.next => Events[c][j] \in port'.accepted
    BY <1>1, <1>2, <1>4, <2>1
  <2> QED BY <1>1, <1>2, <1>3, <2>2 DEF ExecutingGood
<1> QED BY <1>1, <1>4, <1>5 DEF PortInv, PortSound, AnsweredIsPublished

(* The flush begins when every event of the command was accepted.           *)
LEMMA BeginFlushKeeps == PortInv /\ BeginFlush => PortInv'
<1> SUFFICES ASSUME PortInv, BeginFlush PROVE PortInv'
  OBVIOUS
<1>1. /\ executing # NoCommand /\ executing \in ExecutionRecord
      /\ executing.next > Len(Events[executing.id])
      /\ executing' = [executing EXCEPT !.flushing = TRUE]
      /\ UNCHANGED <<port, outcome, catalog, quarantined>>
  BY DEF BeginFlush, AllSubmitted, Cmd, PortInv, ExecutingGood
<1>2. /\ executing' \in ExecutionRecord /\ executing'.id = executing.id
      /\ executing'.next = executing.next /\ executing'.published = executing.published
      /\ executing'.flushing
  BY <1>1 DEF ExecutionRecord
<1>3. ExecutingGood'
  BY <1>1, <1>2 DEF PortInv, ExecutingGood
<1>4. PortKnows'
  BY <1>1 DEF PortInv, PortKnows, Outlived
<1> QED BY <1>1, <1>3, <1>4 DEF PortInv, PortSound, AnsweredIsPublished, ReplayRecognised

(* What a year's publication leaves stays, whatever comes after it.         *)
LEMMA PublishYearKeeps == ASSUME PortInv, NEW y \in Nat, PublishYear(y) PROVE PortInv'
<1> DEFINE bars == {b \in port.buffer : BarYear[b] = y}
<1>1. /\ executing.flushing /\ executing \in ExecutionRecord /\ bars \subseteq Bar
      /\ executing' = [executing EXCEPT !.published = @ \cup {y}]
      /\ catalog' \cup quarantined' = catalog \cup quarantined \cup bars
      /\ UNCHANGED <<port, outcome>>
  BY DEF PublishYear, PortInv, PortKnows, PortRecord, ExecutingGood
<1>2. /\ executing' \in ExecutionRecord /\ executing'.id = executing.id
      /\ executing'.next = executing.next /\ executing'.flushing
      /\ executing'.published = executing.published \cup {y}
  BY <1>1 DEF ExecutionRecord
<1>3. executing # NoCommand
  BY <1>1, NoCommandGood
<1>4. ExecutingGood'
  BY <1>1, <1>2, <1>3 DEF PortInv, ExecutingGood
<1>5. PortKnows'
  BY <1>1 DEF PortInv, PortKnows, Outlived
<1>6. PortSound'
  BY <1>1 DEF PortInv, PortSound, AnsweredIsPublished, ReplayRecognised
<1> QED BY <1>1, <1>4, <1>5, <1>6 DEF PortInv

(* A flush that raises answers nothing and keeps the buffer.                *)
LEMMA FlushRaisesKeeps == PortInv /\ FlushRaises => PortInv'
<1> SUFFICES ASSUME PortInv, FlushRaises PROVE PortInv'
  OBVIOUS
<1>1. executing # NoCommand /\ executing.id \in CommandId /\ port \in PortRecord
  BY NoCommandGood DEF FlushRaises, PortInv, PortKnows, ExecutingGood
<1>2. UNCHANGED port
  BY <1>1 DEF FlushRaises, Kept, PortRecord
<1> QED BY <1>1, <1>2, AnswerKeeps DEF FlushRaises, Cmd

(* A flush that is done with every year has published all it cleared, and   *)
(* with it every bar the command carries.                                   *)
LEMMA FlushEndsKeeps == PortInv /\ FlushEnds => PortInv'
<1> SUFFICES ASSUME PortInv, FlushEnds PROVE PortInv'
  OBVIOUS
<1> DEFINE c == executing.id
<1>1. /\ executing # NoCommand /\ c \in CommandId /\ port \in PortRecord
      /\ executing \in ExecutionRecord
      /\ executing.next > Len(Events[c])
      /\ \A j \in 1 .. Len(Events[c]) : j < executing.next => Events[c][j] \in port.accepted
      /\ port' = [port EXCEPT !.buffer = {}, !.cleared = @ \cup port.buffer]
      /\ UNCHANGED <<catalog, quarantined>>
  BY NoCommandGood DEF FlushEnds, PortInv, PortKnows, ExecutingGood
<1>2. port.buffer \subseteq catalog \cup quarantined
  BY DEF FlushEnds, YearsLeft, PortInv, ExecutingGood
<1>3. BarsOf(c) \subseteq port.accepted
  <2>1. \A j \in 1 .. Len(Events[c]) : j < executing.next
    BY <1>1, BarsOfEvents DEF ExecutionRecord
  <2> QED BY <1>1, <2>1, BarsOfEvents
<1>4. /\ port' \in PortRecord /\ port'.buffer = {} /\ port'.seen = port.seen
      /\ port'.accepted = port.accepted /\ port'.cleared = port.cleared \cup port.buffer
  <2>1. port' = [[port EXCEPT !.buffer = {}] EXCEPT !.cleared = port.cleared \cup port.buffer]
    BY <1>1 DEF PortRecord
  <2>2. PICK p \in PortRecord : p = [port EXCEPT !.buffer = {}]
    BY <1>1 DEF PortRecord
  <2>3. /\ p.buffer = {} /\ p.seen = port.seen /\ p.accepted = port.accepted
    BY <1>1, <2>2 DEF PortRecord
  <2>4. port' = [p EXCEPT !.cleared = port.cleared \cup port.buffer]
    BY <2>1, <2>2
  <2>5. PICK k \in SUBSET Bar : k = port.cleared \cup port.buffer
    BY <1>1 DEF PortRecord
  <2>6. /\ port' \in PortRecord /\ port'.buffer = p.buffer /\ port'.seen = p.seen
        /\ port'.accepted = p.accepted /\ port'.cleared = k
    BY <2>4, <2>5 DEF PortRecord
  <2> QED BY <2>3, <2>5, <2>6
<1>5. PortKnows'
  BY <1>1, <1>2, <1>4 DEF PortInv, PortKnows, Outlived
<1>6. PICK o \in {"done", "failed"} : outcome' = [outcome EXCEPT ![c] = o] /\ executing' = NoCommand
  BY DEF FlushEnds, Answer, Cmd
<1>7. outcome' \in [CommandId -> {"new", "failed", "refused", "done"}]
  BY <1>1, <1>6 DEF PortInv
<1>8. ExecutingGood'
  BY <1>6, <1>4, NoCommandGood DEF ExecutingGood
<1>9. \A d \in CommandId : outcome'[d] = "done" => outcome[d] = "done" \/ d = c
  BY <1>1, <1>6 DEF PortInv
<1>10. BarsOf(c) \subseteq catalog \cup quarantined
  BY <1>2, <1>3 DEF PortInv, PortKnows
<1>11. PortSound'
  <2>1. AnsweredIsPublished'
    BY <1>1, <1>9, <1>10 DEF PortInv, PortSound, AnsweredIsPublished
  <2>2. ReplayRecognised'
    BY <1>4 DEF ReplayRecognised
  <2> QED BY <2>1, <2>2 DEF PortSound
<1> QED BY <1>1, <1>5, <1>7, <1>8, <1>11 DEF PortInv

(* A stop is only remembered; the next life starts with an empty ingestor,  *)
(* and the command in execution comes again unless it was answered before.  *)
LEMMA StopRestartKeep == PortInv /\ (RequestStop \/ Restart) => PortInv'
<1> SUFFICES ASSUME PortInv, RequestStop \/ Restart PROVE PortInv'
  OBVIOUS
<1>1. port \in PortRecord /\ outcome \in [CommandId -> {"new", "failed", "refused", "done"}]
  BY DEF PortInv, PortKnows
<1>2. CASE RequestStop
  <2>1. /\ port' \in PortRecord /\ port'.buffer = port.buffer /\ port'.seen = port.seen
        /\ port'.accepted = port.accepted /\ port'.cleared = port.cleared
    BY <1>1, <1>2 DEF RequestStop, PortRecord
  <2>2. UNCHANGED <<executing, outcome, catalog, quarantined>>
    BY <1>2 DEF RequestStop
  <2>3. PortKnows'
    BY <2>1, <2>2 DEF PortInv, PortKnows, Outlived
  <2>4. ExecutingGood'
    BY <2>1, <2>2 DEF PortInv, ExecutingGood
  <2>5. PortSound'
    BY <2>1, <2>2 DEF PortInv, PortSound, AnsweredIsPublished, ReplayRecognised
  <2> QED BY <2>2, <2>3, <2>4, <2>5 DEF PortInv
<1>3. CASE Restart
  <2>1. port' = NewIngestor
    BY <1>3 DEF Restart
  <2>2. /\ outcome' \in [CommandId -> {"new", "failed", "refused", "done"}]
        /\ \A d \in CommandId : outcome'[d] = "done" => outcome[d] = "done"
    BY <1>1, <1>3 DEF Restart
  <2>3. executing' = NoCommand /\ UNCHANGED <<catalog, quarantined>>
    BY <1>3 DEF Restart
  <2>4. PortKnows'
    BY <2>1, NewIngestorGood DEF PortKnows
  <2>5. ExecutingGood'
    BY <2>1, <2>3, NewIngestorGood, NoCommandGood DEF ExecutingGood
  <2>6. PortSound'
    BY <2>1, <2>2, <2>3, NewIngestorGood DEF PortInv, PortSound, AnsweredIsPublished, ReplayRecognised
  <2> QED BY <2>2, <2>3, <2>4, <2>5, <2>6 DEF PortInv
<1> QED BY <1>2, <1>3

(* Every step of the port keeps the invariant.                              *)
LEMMA PortStepKeeps == PortInv /\ [PortNext]_portVars => PortInv'
<1> SUFFICES ASSUME PortInv, [PortNext]_portVars PROVE PortInv'
  OBVIOUS
<1>1. CASE UNCHANGED portVars
  BY <1>1 DEF portVars, PortInv, PortKnows, Outlived, ExecutingGood, PortSound,
     AnsweredIsPublished, ReplayRecognised
<1>2. CASE Refuse
  <2>1. executing.id \in CommandId
    BY <1>2 DEF PortInv, ExecutingGood, Refuse, Submitting
  <2> QED BY <1>2, <2>1, AnswerKeeps DEF Refuse, Cmd
<1>3. CASE Buffered
  <2>1. executing.id \in CommandId
    BY <1>3 DEF PortInv, ExecutingGood, Buffered, AllSubmitted
  <2> QED BY <1>3, <2>1, AnswerKeeps DEF Buffered, Cmd
<1>4. CASE Cancelled
  <2>1. executing.id \in CommandId
    BY <1>4 DEF PortInv, ExecutingGood, Cancelled
  <2> QED BY <1>4, <2>1, AnswerKeeps DEF Cancelled, Cmd
<1>5. CASE \E c \in CommandId : Deliver(c)
  BY <1>5, DeliverKeeps
<1>6. CASE \E b \in Bar : Submit(b)
  BY <1>6, SubmitKeeps
<1>7. CASE \E b \in Bar : PublishYear(BarYear[b])
  <2>1. \A b \in Bar : BarYear[b] \in Nat
    BY PortAssumption
  <2> QED BY <1>7, <2>1, PublishYearKeeps
<1>8. CASE BeginFlush \/ FlushRaises \/ FlushEnds
  BY <1>8, BeginFlushKeeps, FlushRaisesKeeps, FlushEndsKeeps
<1>9. CASE RequestStop \/ Restart
  BY <1>9, StopRestartKeep
<1> QED BY <1>1, <1>2, <1>3, <1>4, <1>5, <1>6, <1>7, <1>8, <1>9 DEF PortNext

(* An answered command that asked for a flush has had its bars released or  *)
(* quarantined, through publications that raise before, between or after    *)
(* their commits, cancellations and restarts; and a process takes a bar it  *)
(* cleared again only when it has accepted as many later sessions as it     *)
(* remembers (realtime.py, realtime_ingest.py).                             *)
THEOREM PortIsSound == PortSpec => []PortSound
<1>1. PortInv => PortSound
  BY DEF PortInv
<1> QED BY <1>1, PortInitGood, PortStepKeeps, PTL DEF PortSpec

-----------------------------------------------------------------------------
(* Side by side                                                             *)

(* A step of the entrances is, for each of them, a step of its own or none. *)
LEMMA EntrancesStep ==
  [EntranceNext]_entranceVars =>
    /\ [SyncNext]_syncVars /\ [PortNext]_portVars /\ [StreamNext]_streamVars
    /\ [ClientNext]_clientVars /\ [LegacyNext]_legacyVars /\ [DerivationNext]_derivationVars
BY DEF EntranceNext, entranceVars, StreamMoves, OfStream, SyncMoves, PortMoves, ClientMoves,
   LegacyMoves, DerivationMoves

(* What all of them keep: each its own invariant.                           *)
EntrancesInv ==
  StreamInv /\ SyncInv /\ PortInv /\ ClientInv /\ LegacyInv /\ DerivationInv

LEMMA EntrancesInvariant == EntranceSpec => []EntrancesInv
<1>1. EntranceInit => EntrancesInv
  BY StreamInitGood, SyncInitGood, PortInitGood, ClientInitGood, LegacyInitGood,
     DerivationInitGood DEF EntranceInit, EntrancesInv
<1>2. EntrancesInv /\ [EntranceNext]_entranceVars => EntrancesInv'
  BY EntrancesStep, StreamStepKeeps, SyncStepKeeps, PortStepKeeps, ClientStepKeeps,
     LegacyStepKeeps, DerivationStepKeeps DEF EntrancesInv
<1> QED BY <1>1, <1>2, PTL DEF EntranceSpec

(* Every variable of the entrances has its type.                            *)
THEOREM EntrancesTyped == EntranceSpec => []EntranceTypeOK
<1> SUFFICES EntrancesInv => EntranceTypeOK
  BY EntrancesInvariant, PTL
<1> SUFFICES ASSUME EntrancesInv PROVE EntranceTypeOK
  OBVIOUS
<1>1. StreamTypeOK
  BY DEF EntrancesInv, StreamInv, StreamTyped, PendingRecord, ReadersGood, ReaderGood, ReaderPhases,
     StreamTypeOK
<1>2. SyncTypeOK
  BY DEF EntrancesInv, SyncInv, SyncTyped, JobRecord, SyncTypeOK
<1>3. PortTypeOK
  <2>1. /\ port.buffer \cup port.seen \cup port.cleared \subseteq port.accepted
        /\ port.accepted \subseteq Bar
    BY DEF EntrancesInv, PortInv, PortKnows, PortRecord
  <2>2. executing = NoCommand \/ executing.id \in CommandId
    BY DEF EntrancesInv, PortInv, ExecutingGood
  <2> QED BY <2>1, <2>2 DEF EntrancesInv, PortInv, PortTypeOK
<1>4. ClientTypeOK /\ LegacyTypeOK /\ DerivationTypeOK
  BY ClientInvSound, LegacyInvSound, DerivationInvSound DEF EntrancesInv
<1> QED BY <1>1, <1>2, <1>3, <1>4 DEF EntranceTypeOK

(* What is collected is what the provider serves: a fetch returns whole     *)
(* pages and keeps to its rate and its attempts, a file derived in steps is *)
(* the one derived at once, and the checkpoint vouches only for files that  *)
(* are complete and adjusted as of one moment -- for any page chain, rate,  *)
(* calendar, window and number of intervals.                                *)
THEOREM CollectionIsSound == EntranceSpec => []CollectedSound
<1>1. EntrancesInv => CollectedSound
  BY ClientInvSound, LegacyInvSound, DerivationInvSound DEF EntrancesInv, CollectedSound
<1> QED BY <1>1, EntrancesInvariant, PTL

(* What the sync projects and what the port answers is what was published,  *)
(* while the other entrances run beside them.                               *)
THEOREM EntrancesAreSound == EntranceSpec => []EntrancesSound
<1>1. EntrancesInv => EntrancesSound
  BY DEF EntrancesInv, EntrancesSound, SyncInv, PortInv
<1> QED BY <1>1, EntrancesInvariant, PTL

(* And no entry of the stream is dropped beside them.                       *)
THEOREM EntranceEntriesNotDropped == EntranceSpec => []NoEntryDropped
<1>1. EntrancesInv => NoEntryDropped
  BY DEF EntrancesInv, StreamInv
<1> QED BY <1>1, EntrancesInvariant, PTL
=============================================================================
