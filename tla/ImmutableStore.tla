---------------------------- MODULE ImmutableStore ----------------------------
(***************************************************************************)
(* S3ObjectStore.put, delete and verify_version on one key of a versioned   *)
(* bucket (storage.py): a HEAD, a conditional PUT that may land and lose    *)
(* its answer, retries, the reconciliation after a failed precondition, and *)
(* the cleanup of a version by whoever holds its receipt.  A receipt says   *)
(* whether this call created the version.  The service evaluates            *)
(* IfNoneMatch atomically; encryption and checksums are right.              *)
(* LocalObjectStore checks and renames with nothing in between.             *)
(***************************************************************************)
EXTENDS Integers, FiniteSets, Sequences, FiniteSetsExt

CONSTANTS
  StoreUser,       \* processes that publish under the key
  Payload,         \* [user -> the bytes it publishes]
  MaxPutAttempts,  \* max_attempts
  MaxVersions, MaxOutages, MaxPuts  \* bounds

ASSUME StoreAssumption ==
  /\ DOMAIN Payload = StoreUser /\ MaxPutAttempts \in Nat \ {0}
  /\ {MaxVersions, MaxOutages, MaxPuts} \subseteq Nat

VARIABLES
  versions,  \* every version ever written: its bytes, its writer, is it there
  user,      \* what each user is doing, with the receipt it holds
  outages, puts

storeVars == <<versions, user, outages, puts>>

Live == {v \in DOMAIN versions : versions[v].live}
NoReceipt == [version |-> 0, created |-> FALSE]
Unused == [phase |-> "idle", attempt |-> 0, landed |-> 0, receipt |-> NoReceipt]

StoreInit ==
  /\ versions = <<>>
  /\ user = [u \in StoreUser |-> Unused]
  /\ outages = 0 /\ puts = 0

Become(u, w) == user' = [user EXCEPT ![u] = w]
Fault == outages < MaxOutages /\ outages' = outages + 1
Same(v, u) == versions[v].bytes = Payload[u]

(* Mutant: a version found under the key counts as one's own.               *)
FoundIsOwned(u, v) == [version |-> v, created |-> TRUE]

(* _receipt_from_head under conflict: other bytes raise, equal bytes give a *)
(* receipt for a version another call created.                              *)
Found(u, v) == [version |-> v, created |-> FALSE]
Reconcile(u, v) ==
  Become(u, IF Same(v, u) THEN [Unused EXCEPT !.receipt = Found(u, v)] ELSE Unused)

HeadFirst(u) ==
  /\ user[u].phase = "idle" /\ user[u].receipt = NoReceipt /\ puts < MaxPuts
  /\ puts' = puts + 1
  /\ IF Live = {} THEN Become(u, [Unused EXCEPT !.phase = "putting", !.attempt = 1])
     ELSE Reconcile(u, Max(Live))
  /\ UNCHANGED <<versions, outages>>

(* Mutant: the PUT carries no IfNoneMatch.                                  *)
PreconditionNone == TRUE

Precondition == Live = {}

Append1(u) == Append(versions, [bytes |-> Payload[u], writer |-> u, live |-> TRUE])

PutLands(u) ==
  /\ user[u].phase = "putting" /\ Precondition /\ Len(versions) < MaxVersions
  /\ versions' = Append1(u)
  /\ Become(u, [user[u] EXCEPT !.phase = "confirming", !.landed = Len(versions) + 1])
  /\ UNCHANGED <<outages, puts>>

(* Mutant: one attempt too many.                                            *)
OneMoreAttempt(u) == user[u].attempt <= MaxPutAttempts

AttemptsLeft(u) == user[u].attempt < MaxPutAttempts

(* A retryable failure, before or after the bytes landed; the last attempt  *)
(* raises.                                                                  *)
PutFails(u) ==
  /\ user[u].phase = "putting" /\ Fault
  /\ \/ UNCHANGED versions
     \/ Precondition /\ Len(versions) < MaxVersions /\ versions' = Append1(u)
  /\ Become(u, IF AttemptsLeft(u)
               THEN [user[u] EXCEPT !.attempt = @ + 1] ELSE Unused)
  /\ UNCHANGED puts

PreconditionFails(u) ==
  /\ user[u].phase = "putting" /\ ~Precondition
  /\ Become(u, [user[u] EXCEPT !.phase = "rereading"])
  /\ UNCHANGED <<versions, outages, puts>>

(* The object found may be gone again by now: the HEAD raises.              *)
Reread(u) ==
  /\ user[u].phase = "rereading"
  /\ IF Live = {} THEN Become(u, Unused) ELSE Reconcile(u, Max(Live))
  /\ UNCHANGED <<versions, outages, puts>>

(* The HEAD after a PUT is pinned to the version written.                   *)
Confirm(u) ==
  /\ user[u].phase = "confirming"
  /\ \/ /\ versions[user[u].landed].live
        /\ Become(u, [Unused EXCEPT !.receipt = [version |-> user[u].landed, created |-> TRUE]])
        /\ UNCHANGED outages
     \/ Fault /\ Become(u, Unused)
  /\ UNCHANGED <<versions, puts>>

(* delete: only the exact version of a receipt that says created.           *)
Cleanup(u) ==
  /\ user[u].phase = "idle" /\ user[u].receipt # NoReceipt
  /\ LET r == user[u].receipt
     IN versions' = IF r.created THEN [versions EXCEPT ![r.version].live = FALSE] ELSE versions
  /\ Become(u, Unused)
  /\ UNCHANGED <<outages, puts>>

UserDies(u) ==
  /\ user[u] # Unused /\ Fault
  /\ Become(u, Unused)
  /\ UNCHANGED <<versions, puts>>

StoreNext ==
  \E u \in StoreUser :
    \/ HeadFirst(u) \/ PutLands(u) \/ PutFails(u) \/ PreconditionFails(u) \/ Reread(u)
    \/ Confirm(u) \/ Cleanup(u) \/ UserDies(u)
StoreSpec == StoreInit /\ [][StoreNext]_storeVars

-----------------------------------------------------------------------------
(* Every variable holds values of its type.                                 *)
StoreTypeOK ==
  /\ \A v \in DOMAIN versions : versions[v].writer \in StoreUser /\ versions[v].live \in BOOLEAN
  /\ \A u \in StoreUser :
       /\ user[u].phase \in {"idle", "putting", "rereading", "confirming"}
       /\ user[u].attempt \in 0 .. MaxPutAttempts
       /\ {user[u].landed, user[u].receipt.version} \subseteq {0} \cup DOMAIN versions
  /\ {outages, puts} \subseteq Nat

(* A key holds one version at a time; a receipt names a version with the    *)
(* bytes its holder published; and a version disappears only through the    *)
(* call that created it: losing a race, or a retry of one's own PUT whose   *)
(* answer was lost, never makes a cleanup delete what another may own.      *)
StoreImmutable ==
  /\ Cardinality(Live) <= 1
  /\ \A u \in StoreUser : user[u].receipt # NoReceipt =>
       /\ Same(user[u].receipt.version, u)
       /\ user[u].receipt.created => versions[user[u].receipt.version].writer = u

(* What a put confirmed is there for as long as its holder keeps the        *)
(* receipt.                                                                 *)
ReceiptsHold ==
  \A u \in StoreUser :
    user[u].receipt # NoReceipt => versions[user[u].receipt.version].live
=============================================================================
