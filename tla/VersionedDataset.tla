-------------------------- MODULE VersionedDataset --------------------------
(***************************************************************************)
(* What a dataset year promises its readers (docs/db-aligned-market-        *)
(* pipeline.md, "immutability and revision"): a chain of snapshots, one of  *)
(* them current.  A release builds the next snapshot from the current one   *)
(* by leaving out what it replaces and adding what it brings; snapshots     *)
(* already released never change.                                           *)
(***************************************************************************)
EXTENDS Integers

CONSTANTS
  Revision,  \* revision numbers
  Batch      \* the releases there may be: the items each brings, and those it
             \* makes obsolete

VARIABLES
  snapshot,  \* the items of every revision that was released
  current    \* the current revision, 0 before the first

vars == <<snapshot, current>>

Current == IF current = 0 THEN {} ELSE snapshot[current]

Init ==
  /\ snapshot = [r \in {} |-> {}]
  /\ current = 0

Release(r, batch) ==
  /\ r > current
  /\ r \notin DOMAIN snapshot
  /\ snapshot' = [q \in DOMAIN snapshot \cup {r} |->
                   IF q = r THEN (Current \ batch.obsolete) \cup batch.items ELSE snapshot[q]]
  /\ current' = r

Next == \E r \in Revision, batch \in Batch : Release(r, batch)

Spec == Init /\ [][Next]_vars
=============================================================================
