---------------------------- MODULE ProviderClient ----------------------------
(***************************************************************************)
(* The provider client (alpaca/client.py, pagination.py, source.py) and the *)
(* token bucket its threads share (rate_limit.py).  Time advances in the    *)
(* interval of one token, so a minute holds RequestsPerMinute of them; an   *)
(* attempt takes its token before it leaves, whatever becomes of it.  The   *)
(* provider's pages are linked by next-page tokens, in a chain or, when it  *)
(* is broken, in a loop; what a page holds is the page itself.              *)
(***************************************************************************)
EXTENDS Integers, FiniteSets, Sequences

CONSTANTS
  Fetcher,                  \* threads, each with one fetch to do
  RequestsPerMinute, Burst,
  MaxAttempts,
  BackoffBase, BackoffMax, MaxRetryAfter,
  RetryAfter,               \* what a Retry-After header may ask
  Page, FirstPage, NoPage,  \* pages, the first one, the empty next-page token
  MaxTick                   \* bound

ASSUME ClientAssumption ==
  /\ {RequestsPerMinute, Burst, MaxAttempts, BackoffBase, MaxRetryAfter} \subseteq Nat \ {0}
  /\ BackoffMax \in Nat /\ BackoffMax >= BackoffBase
  /\ RetryAfter \subseteq Nat \ {0} /\ MaxTick \in Nat
  /\ FirstPage \in Page /\ NoPage \notin Page

VARIABLES
  tick,                     \* Clock.monotonic
  balance, updated,         \* _tokens, _updated
  admitted,                 \* when each admitted request may leave
  fetch,                    \* [fetcher -> what it is doing]
  nextOf                    \* the provider's next-page tokens

clientVars == <<tick, balance, updated, admitted, fetch, nextOf>>

Phases == {"new", "limited", "sent", "asleep", "done", "failed"}
Fetching == [phase |-> "new", due |-> 0, attempt |-> 1, page |-> FirstPage, seen |-> {},
             rows |-> {}, requests |-> 0]

ClientInit ==
  /\ tick = 0
  /\ balance = Burst /\ updated = 0
  /\ admitted = <<>>
  /\ fetch = [f \in Fetcher |-> Fetching]
  /\ nextOf \in [Page -> Page \cup {NoPage}]

Least(a, b) == IF a <= b THEN a ELSE b

Tick ==
  /\ tick < MaxTick /\ tick' = tick + 1
  /\ UNCHANGED <<balance, updated, admitted, fetch, nextOf>>

-----------------------------------------------------------------------------
(* TokenBucketRateLimiter.                                                  *)
Refilled == Least(Burst, balance + (tick - updated))

(* Mutant: a waiting request does not reserve its token.                    *)
TakeWhenThere(refilled) == IF refilled >= 1 THEN refilled - 1 ELSE refilled

(* The balance goes negative while requests wait.                           *)
Take(refilled) == refilled - 1
WaitFor(refilled) == IF refilled >= 1 THEN 0 ELSE 1 - refilled

Acquire(f) ==
  /\ \/ fetch[f].phase = "new"
     \/ fetch[f].phase = "asleep" /\ fetch[f].due <= tick
  /\ balance' = Take(Refilled) /\ updated' = tick
  /\ LET due == tick + WaitFor(Refilled)
     IN /\ admitted' = Append(admitted, due)
        /\ fetch' = [fetch EXCEPT ![f].phase = "limited", ![f].due = due]
  /\ UNCHANGED <<tick, nextOf>>

Leave(f) ==
  /\ fetch[f].phase = "limited" /\ fetch[f].due <= tick
  /\ fetch' = [fetch EXCEPT ![f].phase = "sent", ![f].requests = @ + 1]
  /\ UNCHANGED <<tick, balance, updated, admitted, nextOf>>

-----------------------------------------------------------------------------
(* _request_response: a transport error or a retryable status, with or      *)
(* without a Retry-After header, an error that is not retried, an answer.   *)
Backoff(attempt) == Least(BackoffBase * 2 ^ (attempt - 1), BackoffMax)

(* Mutant: one attempt more than the budget.                                *)
AttemptsAfter(attempt) == attempt > MaxAttempts

AttemptsSpent(attempt) == attempt = MaxAttempts

SleepThenRetry(f, delay) ==
  fetch' = [fetch EXCEPT ![f].phase = IF AttemptsSpent(fetch[f].attempt) THEN "failed" ELSE "asleep",
                         ![f].attempt = IF AttemptsSpent(@) THEN @ ELSE @ + 1,
                         ![f].due = tick + delay]

AttemptFails(f) ==
  /\ fetch[f].phase = "sent"
  /\ \/ SleepThenRetry(f, Backoff(fetch[f].attempt))
     \/ \E r \in RetryAfter : SleepThenRetry(f, Least(r, MaxRetryAfter))
  /\ UNCHANGED <<tick, balance, updated, admitted, nextOf>>

AttemptRefused(f) ==
  /\ fetch[f].phase = "sent"
  /\ fetch' = [fetch EXCEPT ![f].phase = "failed"]
  /\ UNCHANGED <<tick, balance, updated, admitted, nextOf>>

(* Mutant: a token handed out before is followed again.                     *)
NeverRepeats(f, next) == FALSE

(* iter_pages: a token handed out before is a fault of the provider.        *)
Repeats(f, next) == next \in fetch[f].seen

AttemptAnswers(f) ==
  /\ fetch[f].phase = "sent"
  /\ LET next == nextOf[fetch[f].page]
         rows == fetch[f].rows \cup {fetch[f].page}
     IN fetch' = [fetch EXCEPT
          ![f].phase = CASE next = NoPage -> "done" [] Repeats(f, next) -> "failed" [] OTHER -> "new",
          ![f].rows = rows,
          ![f].attempt = 1,
          ![f].page = IF next = NoPage THEN @ ELSE next,
          ![f].seen = IF next = NoPage THEN @ ELSE @ \cup {next}]
  /\ UNCHANGED <<tick, balance, updated, admitted, nextOf>>

ClientNext ==
  \/ Tick
  \/ \E f \in Fetcher :
       Acquire(f) \/ Leave(f) \/ AttemptFails(f) \/ AttemptRefused(f) \/ AttemptAnswers(f)

ClientSpec == ClientInit /\ [][ClientNext]_clientVars

-----------------------------------------------------------------------------
(* Every variable holds values of its type.                                 *)
ClientTypeOK ==
  /\ {tick, updated} \subseteq 0 .. MaxTick
  /\ balance \in Int /\ balance <= Burst
  /\ \A k \in DOMAIN admitted : admitted[k] \in Nat
  /\ DOMAIN fetch = Fetcher
  /\ \A f \in Fetcher : fetch[f].phase \in Phases /\ fetch[f].attempt \in 1 .. MaxAttempts
                        /\ fetch[f].page \in Page /\ fetch[f].seen \subseteq Page

InMinuteFrom(t) == {k \in DOMAIN admitted : t <= admitted[k] /\ admitted[k] < t + RequestsPerMinute}

(* In any minute the bucket admits no more requests than the burst it may   *)
(* hold and the tokens of that minute, whoever asks and however often an    *)
(* attempt is repeated; requests leave in the order they asked.             *)
RateBounded ==
  /\ \A k \in DOMAIN admitted :
       Cardinality(InMinuteFrom(admitted[k])) <= Burst + RequestsPerMinute - 1
  /\ \A j, k \in DOMAIN admitted : j < k => admitted[j] <= admitted[k]

(* The pages a fetch reaches, and whether they end.                         *)
Reached(S) == FirstPage \in S /\ \A p \in S : nextOf[p] \in S \cup {NoPage}
Chain == CHOOSE S \in SUBSET Page : Reached(S) /\ \A T \in SUBSET Page : Reached(T) => S \subseteq T
Ends == \E p \in Chain : nextOf[p] = NoPage

(* A fetch that returns has every page of its range, and none returns from  *)
(* pages that loop; no fetch sends more requests than its tokens and its    *)
(* attempts allow.                                                          *)
FetchWhole ==
  \A f \in Fetcher :
    /\ fetch[f].phase = "done" => Ends /\ fetch[f].rows = Chain
    /\ fetch[f].requests <= MaxAttempts * (Cardinality(fetch[f].seen) + 1)

(* client.py:7: the requests-per-minute ceiling holds across retries and    *)
(* threads.  It does not: a full bucket leaves with a minute's tokens.      *)
MinuteCeiling ==
  \A k \in DOMAIN admitted : Cardinality(InMinuteFrom(admitted[k])) <= RequestsPerMinute

(* What the client promises the engine and the provider.                    *)
ClientSound == RateBounded /\ FetchWhole
=============================================================================
