---------------------- MODULE DatasetPublicationProofs ----------------------
(***************************************************************************)
(* Proofs about DatasetPublication for any number of publishers, revisions, *)
(* days and shards, over either catalog; and, where one publisher works at  *)
(* a time and no revision is forced, about the releases of a dataset year   *)
(* (DatasetReleases), through crashes and outages.                          *)
(***************************************************************************)
EXTENDS DatasetReleases, TLAPS, WellFoundedInduction

-----------------------------------------------------------------------------
(* Facts about the operators                                                *)

(* A non-empty set of numbers up to N has a largest element.                *)
LEMMA MaximumExists ==
  ASSUME NEW N \in Nat, NEW S \in SUBSET (1 .. N), S # {}
  PROVE  \E n \in S : Latest(n, S)
<1> DEFINE D == {d \in Nat : N - d \in S}
<1> DEFINE R == OpToRel(<, Nat)
<1>1. D \subseteq Nat /\ D # {}
  <2>1. PICK s \in S : TRUE
    OBVIOUS
  <2>2. N - s \in Nat /\ N - (N - s) = s
    OBVIOUS
  <2> QED BY <2>1, <2>2
<1>2. PICK d \in D : \A e \in D : ~(<<e, d>> \in R)
  <2>1. IsWellFoundedOn(R, Nat)
    BY NatLessThanWellFounded
  <2> HIDE DEF D, R
  <2> QED BY <2>1, <1>1, WFMin
<1>3. \A e \in D : ~(e < d)
  BY <1>2 DEF OpToRel
<1>4. \A m \in S : N - m \in D
  OBVIOUS
<1>5. ASSUME NEW m \in S
      PROVE  m <= N - d
  <2>1. N - m \in D /\ m \in Int
    BY <1>4
  <2>2. ~(N - m < d)
    BY <2>1, <1>3
  <2>3. d \in Int /\ N \in Int
    OBVIOUS
  <2> HIDE DEF D
  <2> QED BY <2>1, <2>2, <2>3
<1>6. N - d \in S
  OBVIOUS
<1> HIDE DEF D, R
<1> QED BY <1>5, <1>6 DEF Latest

(* The newest AVAILABLE revision is a revision, or 0 if there is none.      *)
LEMMA LatestAvailableType == LatestAvailable \in Revision \cup {0}
<1>1. CASE Available = {}
  BY <1>1 DEF LatestAvailable
<1>2. CASE Available # {}
  <2>1. \E r \in Available : Latest(r, Available)
    BY <1>2, MaximumExists, PublicationAssumption DEF Available, Revision
  <2> QED BY <1>2, <2>1 DEF LatestAvailable, Available
<1> QED BY <1>1, <1>2

(* The end of a set of objects is a day, or 0 if there are none.            *)
LEMMA PeriodEndType ==
  ASSUME NEW S \in SUBSET Object
  PROVE  PeriodEnd(S) \in Nat
<1> DEFINE days == UNION {Span(o) : o \in S}
<1>1. CASE S = {}
  BY <1>1 DEF PeriodEnd
<1>2. CASE S # {}
  <2>1. \A o \in S : Span(o) \in (SUBSET Day) \ {{}}
    BY PublicationAssumption DEF Span, Object, Slot
  <2>2. days \in SUBSET (1 .. LastDay) /\ days # {}
    BY <1>2, <2>1 DEF Day
  <2>3. \E n \in days : Latest(n, days)
    BY <2>2, MaximumExists, PublicationAssumption
  <2>4. (CHOOSE n \in Day : Latest(n, days)) \in Day
    BY <2>2, <2>3 DEF Day
  <2> QED BY <1>2, <2>4 DEF PeriodEnd, Day
<1> QED BY <1>1, <1>2

(* The last day a data hash covers is a day, or 0 if it covers none.        *)
LEMMA EndOfHashType ==
  ASSUME NEW h \in SUBSET Canonical
  PROVE  EndOfHash(h) \in Nat
<1> DEFINE days == UNION {DaysOf[c.slot[1]] : c \in h}
<1>1. CASE h = {}
  BY <1>1 DEF EndOfHash
<1>2. CASE h # {}
  <2>1. \A c \in h : DaysOf[c.slot[1]] \in (SUBSET Day) \ {{}}
    BY PublicationAssumption DEF Canonical, Slot
  <2>2. days \in SUBSET (1 .. LastDay) /\ days # {}
    BY <1>2, <2>1 DEF Day
  <2>3. \E n \in days : Latest(n, days)
    BY <2>2, MaximumExists, PublicationAssumption
  <2>4. (CHOOSE n \in Day : Latest(n, days)) \in Day
    BY <2>2, <2>3 DEF Day
  <2> QED BY <1>2, <2>4 DEF EndOfHash, Day
<1> QED BY <1>1, <1>2

(* Taking a table out of a set of tables leaves a set of tables.            *)
LEMMA GroupsRest ==
  ASSUME NEW f \in Groups, NEW s \in DOMAIN f
  PROVE  /\ s \in Slot
         /\ f[s] \in Content \cup {Broken}
         /\ Rest(f, s) \in Groups
<1>1. PICK S \in SUBSET Slot : f \in [S -> Content \cup {Broken}]
  BY DEF Groups
<1>2. Rest(f, s) \in [S \ {s} -> Content \cup {Broken}]
  BY <1>1 DEF Rest
<1>3. S \ {s} \in SUBSET Slot
  OBVIOUS
<1> QED BY <1>1, <1>2, <1>3 DEF Groups

(* The hash of a set of objects is a set of canonical entries.              *)
LEMMA CanonicalHashType ==
  ASSUME NEW S \in SUBSET Object
  PROVE  CanonicalHash(S) \in SUBSET Canonical
BY DEF CanonicalHash, Canon, Object, Canonical

(* The memory of a publisher that does nothing is well-formed.              *)
LEMMA IdleType == Idle \in Work
<1>1. NoTables \in Groups
  <2>1. NoTables \in [{} -> Content \cup {Broken}]
    BY DEF NoTables
  <2> QED BY <2>1 DEF Groups
<1>2. Absent \in Manifest
  BY DEF Absent, Manifest, Status
<1> QED BY <1>1, <1>2 DEF Idle, Work, Phase

-----------------------------------------------------------------------------
(* Type correctness                                                         *)

(* A publication turns manifests into manifests.                            *)
LEMMA ManifestAfterType ==
  ASSUME TypeOK, NEW p \in Publisher
  PROVE  ManifestAfter(p) \in [Revision -> Manifest]
<1>1. work[p] \in Work
  BY DEF TypeOK
<1>2. AllObjects(p) \in SUBSET Object
  BY <1>1 DEF AllObjects, Work
<1>3. [status |-> Outcome(p), hash |-> CanonicalHash(AllObjects(p))] \in Manifest
  BY <1>2, CanonicalHashType DEF Outcome, Manifest, Status
<1>4. [work[p].prevRow EXCEPT !.status = "SUPERSEDED"] \in Manifest
  BY <1>1 DEF Work, Manifest, Status
<1> QED BY <1>3, <1>4 DEF ManifestAfter, TypeOK

(* A publisher that is busy has a revision to write under.                  *)
BusyOnRevision ==
  \A p \in Publisher : work[p].phase # "idle" => work[p].rev \in Revision

Typed == TypeOK /\ BusyOnRevision

(* Finishing one group of a publication leaves the memories well-formed.    *)
LEMMA DoneType ==
  ASSUME Typed, NEW p \in Publisher, NEW s \in DOMAIN work[p].todo,
         NEW extra \in SUBSET Object, NEW failed \in BOOLEAN,
         work' = Done(p, s, extra, failed)
  PROVE  /\ work' \in [Publisher -> Work]
         /\ BusyOnRevision'
<1>1. work[p] \in Work /\ work \in [Publisher -> Work]
  BY DEF Typed, TypeOK
<1>2. Rest(work[p].todo, s) \in Groups
  BY <1>1, GroupsRest DEF Work
<1>3. work' = [work EXCEPT ![p] = [work[p] EXCEPT
                 !.todo = Rest(work[p].todo, s),
                 !.new = work[p].new \cup extra,
                 !.error = work[p].error \/ failed]]
  BY <1>1 DEF Done, Work
<1>4. [work[p] EXCEPT !.todo = Rest(work[p].todo, s),
                      !.new = work[p].new \cup extra,
                      !.error = work[p].error \/ failed] \in Work
  BY <1>1, <1>2 DEF Work
<1>5. work' \in [Publisher -> Work]
  BY <1>1, <1>3, <1>4
<1>6. \A q \in Publisher : work'[q].phase = work[q].phase /\ work'[q].rev = work[q].rev
  BY <1>1, <1>3 DEF Work
<1> QED BY <1>5, <1>6 DEF Typed, BusyOnRevision

(* One lemma per action: the types are kept.                                *)
LEMMA WriteObjectTyped ==
  ASSUME Typed, NEW p \in Publisher, WriteObject(p), UNCHANGED active
  PROVE  Typed'
<1>1. work[p] \in Work /\ work[p].rev \in Revision
  BY DEF Typed, TypeOK, BusyOnRevision, WriteObject
<1>2. PICK s \in DOMAIN work[p].todo :
        SkipBroken(p, s) \/ PutObject(p, s) \/ RefusePut(p, s) \/ FailPut(p, s)
  BY DEF WriteObject
<1>3. ASSUME work[p].todo[s] \in Content
      PROVE  ObjectOf(p, s) \in Object
  <2>1. s \in Slot
    BY <1>1, GroupsRest DEF Work
  <2> QED BY <2>1, <1>1, <1>3 DEF ObjectOf, Object
<1>4. store' \subseteq Object
  BY <1>2, <1>3 DEF SkipBroken, PutObject, RefusePut, FailPut, Typed, TypeOK
<1>5. work' \in [Publisher -> Work] /\ BusyOnRevision'
  <2>1. \E extra \in SUBSET Object, failed \in BOOLEAN : work' = Done(p, s, extra, failed)
    BY <1>2, <1>3 DEF SkipBroken, PutObject, RefusePut, FailPut
  <2> QED BY <2>1, DoneType
<1> QED BY <1>4, <1>5 DEF Typed, TypeOK, WriteObject

(* Starting on the groups of a publication keeps the types.                 *)
LEMMA StartPublishTyped ==
  ASSUME Typed, NEW p \in Publisher, NEW j \in Job, StartPublish(p, j), UNCHANGED active
  PROVE  Typed'
<1>1. j \in Publication
  BY PublicationAssumption
<1>2. NextRevision(j) \in Revision
  BY DEF StartPublish
<1>3. LatestAvailable \in Revision \cup {0}
  BY LatestAvailableType
<1> DEFINE row == IF LatestAvailable = 0 THEN Absent ELSE manifest[LatestAvailable]
<1> DEFINE w == [Idle EXCEPT !.phase = "writing",
                    !.replaces = j.replaces,
                    !.rev = NextRevision(j),
                    !.prev = LatestAvailable,
                    !.prevRow = row,
                    !.todo = j.groups,
                    !.error = j.failed]
<1>4. row \in Manifest
  <2>1. Absent \in Manifest
    BY DEF Absent, Manifest, Status
  <2> QED BY <2>1, <1>3 DEF Typed, TypeOK
<1>5. w \in Work /\ w.rev \in Revision
  BY <1>1, <1>2, <1>3, <1>4, IdleType DEF Work, Publication, Phase
<1>6. work' = [work EXCEPT ![p] = w]
  BY DEF StartPublish
<1> HIDE DEF w
<1>7. work' \in [Publisher -> Work] /\ BusyOnRevision'
  BY <1>5, <1>6 DEF Typed, TypeOK, BusyOnRevision
<1> QED BY <1>7 DEF Typed, TypeOK, StartPublish

(* Reading the previous manifest keeps the types.                           *)
LEMMA ReadPreviousTyped ==
  ASSUME Typed, NEW p \in Publisher, ReadPrevious(p), UNCHANGED active
  PROVE  Typed'
<1>1. work[p] \in Work /\ work[p].rev \in Revision /\ work \in [Publisher -> Work]
  BY DEF Typed, TypeOK, BusyOnRevision, ReadPrevious
<1> DEFINE kept == IF work[p].prev = 0 THEN {}
                   ELSE {o \in listing[work[p].prev] : ~Overlaps(o, work[p].replaces)}
<1> DEFINE w == [work[p] EXCEPT !.phase = "publishing",
                                !.retained = kept,
                                !.observed = PeriodEnd(kept \cup work[p].new)]
<1>2. kept \in SUBSET Object
  BY <1>1 DEF Typed, TypeOK, Work
<1>3. PeriodEnd(kept \cup work[p].new) \in Nat
  BY <1>1, <1>2, PeriodEndType DEF Work
<1>4. work' = [work EXCEPT ![p] = w]
  BY <1>1 DEF ReadPrevious, Work
<1> HIDE DEF kept
<1>5. w \in Work /\ w.rev = work[p].rev
  BY <1>1, <1>2, <1>3 DEF Work, Phase
<1> HIDE DEF w
<1>6. work' \in [Publisher -> Work] /\ BusyOnRevision'
  BY <1>1, <1>4, <1>5 DEF Typed, BusyOnRevision
<1> QED BY <1>6 DEF Typed, TypeOK, ReadPrevious

(* Committing a release or a quarantine keeps the types.                    *)
LEMMA CommitTyped ==
  ASSUME Typed, NEW p \in Publisher, Commit(p), UNCHANGED active
  PROVE  Typed'
<1>1. work[p] \in Work /\ work[p].rev \in Revision /\ work \in [Publisher -> Work]
  BY DEF Typed, TypeOK, BusyOnRevision, Commit
<1>2. registered' \subseteq Object
  BY <1>1 DEF Commit, Typed, TypeOK, Work
<1>3. listing' \in [Revision -> SUBSET Object]
  BY <1>1 DEF Commit, ListingAfter, AllObjects, Typed, TypeOK, Work
<1>4. manifest' \in [Revision -> Manifest]
  BY ManifestAfterType DEF Commit, Typed
<1> DEFINE w == IF Outcome(p) = "AVAILABLE"
                THEN [work[p] EXCEPT !.phase = "advancing"] ELSE Idle
<1>5. work' = [work EXCEPT ![p] = w]
  BY <1>1 DEF Commit
<1>6. w \in Work /\ (w.phase # "idle" => w.rev \in Revision)
  BY <1>1, IdleType DEF Work, Phase, Idle
<1> HIDE DEF w
<1>7. work' \in [Publisher -> Work] /\ BusyOnRevision'
  BY <1>1, <1>5, <1>6 DEF Typed, BusyOnRevision
<1> QED BY <1>2, <1>3, <1>4, <1>7 DEF Typed, TypeOK, Commit

(* Rolling back, giving up, moving the watermark and dying.                 *)
LEMMA OtherStepsTyped ==
  ASSUME Typed, NEW p \in Publisher,
         RollBack(p) \/ GiveUp(p) \/ AdvanceWatermark(p) \/ Crash(p), UNCHANGED active
  PROVE  Typed'
<1>1. work[p] \in Work /\ work \in [Publisher -> Work]
  BY DEF Typed, TypeOK
<1>2. PICK w \in Work : /\ work' = [work EXCEPT ![p] = w]
                        /\ w.phase # "idle" => w.rev \in Revision
  <2>1. CASE RollBack(p)
    <3>1. [work[p] EXCEPT !.phase = "refused"] \in Work
      BY <1>1 DEF Work, Phase
    <3>2. work' = [work EXCEPT ![p] = [work[p] EXCEPT !.phase = "refused"]]
      BY <1>1, <2>1 DEF RollBack
    <3>3. work[p].rev \in Revision
      BY <2>1 DEF RollBack, Typed, BusyOnRevision
    <3> QED BY <1>1, <3>1, <3>2, <3>3 DEF Work
  <2>2. CASE GiveUp(p) \/ AdvanceWatermark(p) \/ Crash(p)
    BY <2>2, IdleType DEF GiveUp, AdvanceWatermark, Crash, Idle
  <2> QED BY <2>1, <2>2
<1>3. work' \in [Publisher -> Work] /\ BusyOnRevision'
  BY <1>1, <1>2 DEF Typed, BusyOnRevision
<1>4. watermark' \in Nat
  BY <1>1 DEF RollBack, GiveUp, AdvanceWatermark, Crash, Later, Typed, TypeOK, Work
<1> QED BY <1>3, <1>4 DEF Typed, TypeOK, RollBack, GiveUp, AdvanceWatermark, Crash

(* Recomputing the watermark keeps the types.                               *)
LEMMA ReconcileTyped ==
  ASSUME Typed, Reconcile
  PROVE  Typed'
<1>1. LatestAvailable \in Revision
  <2>1. \E r \in Available : Latest(r, Available)
    BY MaximumExists, PublicationAssumption DEF Available, Revision, Reconcile
  <2> QED BY <2>1 DEF LatestAvailable, Available, Reconcile
<1>2. manifest[LatestAvailable].hash \in SUBSET Canonical
  BY <1>1 DEF Typed, TypeOK, Manifest
<1>3. EndOfHash(manifest[LatestAvailable].hash) \in Nat
  BY <1>2, EndOfHashType
<1>4. watermark' \in Nat
  BY <1>3 DEF Reconcile, Later, Typed, TypeOK
<1> QED BY <1>4 DEF Reconcile, Typed, TypeOK, BusyOnRevision

(* The empty store and catalog are well-typed.                              *)
LEMMA InitTyped == Init => Typed
<1>1. Absent \in Manifest
  BY DEF Absent, Manifest, Status
<1>2. Init => active \in BOOLEAN
  BY DEF Init
<1>3. Init => watermark \in Nat /\ store \subseteq Object /\ registered \subseteq Object
  BY DEF Init
<1>4. Init => work \in [Publisher -> Work] /\ BusyOnRevision
  BY IdleType DEF Init, BusyOnRevision, Idle
<1>5. Init => listing \in [Revision -> SUBSET Object] /\ manifest \in [Revision -> Manifest]
  BY <1>1 DEF Init
<1> QED BY <1>2, <1>3, <1>4, <1>5 DEF Typed, TypeOK

(* Every step keeps the types.                                              *)
LEMMA NextTyped == Typed /\ [Next]_vars => Typed'
<1> SUFFICES ASSUME Typed, [Next]_vars PROVE Typed'
  OBVIOUS
<1>1. ASSUME NEW p \in Publisher, Publish(p), UNCHANGED active PROVE Typed'
  BY <1>1, StartPublishTyped, WriteObjectTyped, ReadPreviousTyped, CommitTyped,
     OtherStepsTyped DEF Publish
<1>2. CASE Reconcile
  BY <1>2, ReconcileTyped
<1>3. CASE OpenEngine \/ ReviewRights \/ UNCHANGED vars
  BY <1>3, PublicationAssumption DEF OpenEngine, ReviewRights, vars, Typed, TypeOK, BusyOnRevision
<1> QED BY <1>1, <1>2, <1>3 DEF Next

(* The types hold in every reachable state.                                 *)
LEMMA AlwaysTyped == Spec => []Typed
BY InitTyped, NextTyped, PTL DEF Spec

(* Every variable of the publication keeps its type.                        *)
THEOREM TypeCorrect == Spec => []TypeOK
<1>1. Typed => TypeOK
  BY DEF Typed
<1> QED BY <1>1, AlwaysTyped, PTL

-----------------------------------------------------------------------------
(* One AVAILABLE manifest                                                   *)

(* A dataset year never has two AVAILABLE manifests, however many           *)
(* publishers commit on a stale view: the count inside the transaction is   *)
(* what protects it.                                                        *)
THEOREM AtMostOneAvailable == Spec => []OneAvailable
<1>1. Init => OneAvailable
  BY DEF Init, OneAvailable, Available, Absent
<1>2. OneAvailable /\ [Next]_vars => OneAvailable'
  <2> SUFFICES ASSUME OneAvailable, [Next]_vars PROVE OneAvailable'
    OBVIOUS
  <2>1. ASSUME NEW p \in Publisher, Commit(p) PROVE OneAvailable'
    BY <2>1 DEF Commit, SingleAvailable, OneAvailable, Available
  <2>2. ASSUME UNCHANGED manifest PROVE OneAvailable'
    BY <2>2 DEF OneAvailable, Available
  <2>3. (\E p \in Publisher : Commit(p)) \/ UNCHANGED manifest
    BY DEF Next, Publish, StartPublish, WriteObject, ReadPrevious, RollBack, GiveUp,
           AdvanceWatermark, Crash, Reconcile, OpenEngine, ReviewRights, vars
  <2> QED BY <2>1, <2>2, <2>3
<1> QED BY <1>1, <1>2, PTL DEF Spec

-----------------------------------------------------------------------------
(* Objects, rows and hashes                                                 *)

(* What a publisher holds in memory is backed by the store and the catalog: *)
(* it has put its new objects, and the rows it read were registered.        *)
MemoryBacked ==
  \A p \in Publisher : /\ work[p].new \subseteq store
                       /\ work[p].retained \subseteq registered

(* The previous manifest, as a publisher read it, hashes listed objects.    *)
SnapshotCovered ==
  \A p \in Publisher : work[p].prev # 0 =>
    work[p].prevRow.hash \subseteq CanonicalHash(listing[work[p].prev])

Linked == /\ MemoryBacked
          /\ ListedObjectsStored
          /\ SnapshotCovered
          /\ HashCoversListed

(* The empty store and catalog are linked.                                  *)
LEMMA InitLinked == Init => Linked
BY DEF Init, Linked, MemoryBacked, ListedObjectsStored, SnapshotCovered, HashCoversListed,
       Idle, Absent

(* More objects, larger hash: the hash of a set covers that of its subsets. *)
LEMMA HashMonotone ==
  ASSUME NEW S, NEW T, S \subseteq T
  PROVE  CanonicalHash(S) \subseteq CanonicalHash(T)
BY DEF CanonicalHash

(* What a step on one publisher's memory must keep.                         *)
LEMMA MemoryStep ==
  ASSUME Typed, Linked, NEW p \in Publisher, NEW w,
         work' = [work EXCEPT ![p] = w],
         w.new \subseteq store', w.retained \subseteq registered',
         w.prev # 0 => w.prevRow.hash \subseteq CanonicalHash(listing[w.prev]),
         store \subseteq store', UNCHANGED <<registered, listing, manifest>>
  PROVE  Linked'
<1>1. \A q \in Publisher : work'[q] = IF q = p THEN w ELSE work[q]
  BY DEF Typed, TypeOK
<1>2. MemoryBacked'
  BY <1>1 DEF Linked, MemoryBacked
<1>3. ListedObjectsStored'
  BY DEF Linked, ListedObjectsStored
<1>4. SnapshotCovered'
  BY <1>1 DEF Linked, SnapshotCovered, CanonicalHash
<1>5. HashCoversListed'
  BY DEF Linked, HashCoversListed, CanonicalHash
<1> QED BY <1>2, <1>3, <1>4, <1>5 DEF Linked

(* One lemma per action: what is listed stays stored, what is hashed        *)
(* listed.                                                                  *)
LEMMA WriteObjectLinked ==
  ASSUME Typed, Linked, NEW p \in Publisher, WriteObject(p)
  PROVE  Linked'
<1>1. work[p] \in Work
  BY DEF Typed, TypeOK
<1>2. PICK s \in DOMAIN work[p].todo :
        SkipBroken(p, s) \/ PutObject(p, s) \/ RefusePut(p, s) \/ FailPut(p, s)
  BY DEF WriteObject
<1>3. store \subseteq store'
  BY <1>2 DEF SkipBroken, PutObject, RefusePut, FailPut
<1>4. PICK extra \in SUBSET store', failed \in BOOLEAN : work' = Done(p, s, extra, failed)
  BY <1>2 DEF SkipBroken, PutObject, RefusePut, FailPut
<1> DEFINE w == [work[p] EXCEPT !.todo = Rest(work[p].todo, s),
                                !.new = work[p].new \cup extra,
                                !.error = work[p].error \/ failed]
<1>5. work' = [work EXCEPT ![p] = w]
  BY <1>1, <1>4 DEF Done, Work
<1>6. /\ w.new = work[p].new \cup extra
      /\ w.retained = work[p].retained
      /\ w.prev = work[p].prev
      /\ w.prevRow = work[p].prevRow
  BY <1>1 DEF Work
<1> HIDE DEF w
<1>7. work[p].new \subseteq store /\ work[p].retained \subseteq registered
  BY DEF Linked, MemoryBacked
<1>8. work[p].prev # 0 =>
        work[p].prevRow.hash \subseteq CanonicalHash(listing[work[p].prev])
  BY DEF Linked, SnapshotCovered
<1>9. UNCHANGED <<registered, listing, manifest>>
  BY DEF WriteObject
<1> QED BY <1>3, <1>5, <1>6, <1>7, <1>8, <1>9, MemoryStep

(* Starting on the groups of a publication keeps the links.                 *)
LEMMA StartPublishLinked ==
  ASSUME Typed, Linked, NEW p \in Publisher, NEW j \in Job, StartPublish(p, j)
  PROVE  Linked'
<1>1. LatestAvailable \in Revision \cup {0} /\ 0 \notin Revision
  BY LatestAvailableType, PublicationAssumption DEF Revision
<1> DEFINE row == IF LatestAvailable = 0 THEN Absent ELSE manifest[LatestAvailable]
<1> DEFINE w == [Idle EXCEPT !.phase = "writing",
                    !.replaces = j.replaces,
                    !.rev = NextRevision(j),
                    !.prev = LatestAvailable,
                    !.prevRow = row,
                    !.todo = j.groups,
                    !.error = j.failed]
<1>2. work' = [work EXCEPT ![p] = w]
  BY DEF StartPublish
<1>3. w.new = {} /\ w.retained = {} /\ w.prev = LatestAvailable /\ w.prevRow = row
  BY DEF Idle
<1>4. LatestAvailable # 0 => row.hash \subseteq CanonicalHash(listing[LatestAvailable])
  BY <1>1 DEF Linked, HashCoversListed
<1>5. UNCHANGED <<store, registered, listing, manifest>>
  BY DEF StartPublish
<1> HIDE DEF w, row
<1> QED BY <1>2, <1>3, <1>4, <1>5, MemoryStep

(* The carried-over objects come from a listing that is stored.             *)
LEMMA ReadPreviousLinked ==
  ASSUME Typed, Linked, NEW p \in Publisher, ReadPrevious(p)
  PROVE  Linked'
<1>1. work[p] \in Work
  BY DEF Typed, TypeOK
<1> DEFINE kept == IF work[p].prev = 0 THEN {}
                   ELSE {o \in listing[work[p].prev] : ~Overlaps(o, work[p].replaces)}
<1> DEFINE w == [work[p] EXCEPT !.phase = "publishing",
                                !.retained = kept,
                                !.observed = PeriodEnd(kept \cup work[p].new)]
<1>2. work' = [work EXCEPT ![p] = w]
  BY <1>1 DEF ReadPrevious, Work
<1>3. kept \subseteq registered
  <2>1. work[p].prev \in Revision \cup {0}
    BY <1>1 DEF Work
  <2> QED BY <2>1 DEF Linked, ListedObjectsStored
<1> HIDE DEF kept
<1>4. /\ w.new = work[p].new
      /\ w.retained = kept
      /\ w.prev = work[p].prev
      /\ w.prevRow = work[p].prevRow
  BY <1>1 DEF Work
<1> HIDE DEF w
<1>5. work[p].new \subseteq store
  BY DEF Linked, MemoryBacked
<1>6. work[p].prev # 0 =>
        work[p].prevRow.hash \subseteq CanonicalHash(listing[work[p].prev])
  BY DEF Linked, SnapshotCovered
<1>7. UNCHANGED <<store, registered, listing, manifest>>
  BY DEF ReadPrevious
<1> QED BY <1>2, <1>3, <1>4, <1>5, <1>6, <1>7, MemoryStep

(* A commit grows the listing, so what a hash covered stays covered; the    *)
(* rows it writes hash what it lists.                                       *)
LEMMA CommitLinked ==
  ASSUME Typed, Linked, NEW p \in Publisher, Commit(p)
  PROVE  Linked'
<1>1. work[p] \in Work /\ work[p].rev \in Revision /\ work \in [Publisher -> Work]
  BY DEF Typed, TypeOK, BusyOnRevision, Commit
<1>2. work[p].new \subseteq store /\ work[p].retained \subseteq registered
  BY DEF Linked, MemoryBacked
<1>3. /\ UNCHANGED store
      /\ registered' = registered \cup work[p].new
      /\ listing' = [listing EXCEPT ![work[p].rev] = @ \cup AllObjects(p)]
      /\ manifest' = ManifestAfter(p)
      /\ listing \in [Revision -> SUBSET Object]
  BY DEF Commit, ListingAfter, Typed, TypeOK
<1>4. \A r \in Revision : CanonicalHash(listing[r]) \subseteq CanonicalHash(listing'[r])
  BY <1>3, HashMonotone
<1>5. \A q \in Publisher : /\ work'[q].new \in {work[q].new, {}}
                           /\ work'[q].retained \in {work[q].retained, {}}
                           /\ \/ work'[q].prev = 0
                              \/ /\ work'[q].prev = work[q].prev
                                 /\ work'[q].prevRow = work[q].prevRow
  BY <1>1 DEF Commit, Idle, Work
<1>6. MemoryBacked'
  BY <1>3, <1>5 DEF Linked, MemoryBacked
<1>7. ListedObjectsStored'
  <2>1. registered \subseteq store
    BY DEF Linked, ListedObjectsStored
  <2>2. AllObjects(p) \subseteq registered'
    BY <1>2, <1>3 DEF AllObjects
  <2>3. \A r \in Revision : listing'[r] \subseteq registered'
    BY <1>3, <2>2 DEF Linked, ListedObjectsStored
  <2> QED BY <1>2, <1>3, <2>1, <2>3 DEF ListedObjectsStored
<1>8. SnapshotCovered'
  <2> SUFFICES ASSUME NEW q \in Publisher, work'[q].prev # 0
               PROVE  work'[q].prevRow.hash \subseteq CanonicalHash(listing'[work'[q].prev])
    BY DEF SnapshotCovered, CanonicalHash
  <2>1. work'[q].prev = work[q].prev /\ work'[q].prevRow = work[q].prevRow
    BY <1>5
  <2>2. work[q].prev \in Revision
    BY <1>1, <2>1 DEF Work
  <2>3. work[q].prevRow.hash \subseteq CanonicalHash(listing[work[q].prev])
    BY <2>1 DEF Linked, SnapshotCovered
  <2> QED BY <1>4, <2>1, <2>2, <2>3
<1>9. HashCoversListed'
  <2> SUFFICES ASSUME NEW r \in Revision
               PROVE  manifest'[r].hash \subseteq CanonicalHash(listing'[r])
    BY DEF HashCoversListed, CanonicalHash
  <2>1. manifest[r].hash \subseteq CanonicalHash(listing'[r])
    BY <1>4 DEF Linked, HashCoversListed
  <2>2. CASE r = work[p].prev /\ Outcome(p) = "AVAILABLE"
    <3>1. manifest'[r].hash = work[p].prevRow.hash
      BY <1>1, <1>3, <2>2 DEF ManifestAfter, Work, Manifest
    <3>2. r # 0
      BY PublicationAssumption DEF Revision
    <3>3. work[p].prevRow.hash \subseteq CanonicalHash(listing[r])
      BY <2>2, <3>2 DEF Linked, SnapshotCovered
    <3> QED BY <1>4, <3>1, <3>3
  <2>3. CASE ~(r = work[p].prev /\ Outcome(p) = "AVAILABLE") /\ r = work[p].rev
    <3>1. manifest'[r].hash = CanonicalHash(AllObjects(p))
      BY <1>3, <2>3 DEF ManifestAfter
    <3>2. AllObjects(p) \subseteq listing'[r]
      BY <1>3, <2>3
    <3> QED BY <3>1, <3>2, HashMonotone
  <2>4. CASE ~(r = work[p].prev /\ Outcome(p) = "AVAILABLE") /\ r # work[p].rev
    <3>1. manifest'[r] = manifest[r]
      BY <1>3, <2>4 DEF ManifestAfter
    <3> QED BY <2>1, <3>1
  <2> QED BY <2>2, <2>3, <2>4
<1> QED BY <1>6, <1>7, <1>8, <1>9 DEF Linked

(* Steps that only leave or give up a publication keep the links.           *)
LEMMA OtherStepsLinked ==
  ASSUME Typed, Linked, NEW p \in Publisher,
         RollBack(p) \/ GiveUp(p) \/ AdvanceWatermark(p) \/ Crash(p)
  PROVE  Linked'
<1>1. work[p] \in Work
  BY DEF Typed, TypeOK
<1>2. PICK w : /\ work' = [work EXCEPT ![p] = w]
               /\ \/ w.new = {} /\ w.retained = {} /\ w.prev = 0
                  \/ /\ w.new = work[p].new
                     /\ w.retained = work[p].retained
                     /\ w.prev = work[p].prev
                     /\ w.prevRow = work[p].prevRow
  <2>1. CASE RollBack(p)
    <3> DEFINE w == [work[p] EXCEPT !.phase = "refused"]
    <3>1. work' = [work EXCEPT ![p] = w]
      BY <1>1, <2>1 DEF RollBack
    <3>2. /\ w.new = work[p].new
          /\ w.retained = work[p].retained
          /\ w.prev = work[p].prev
          /\ w.prevRow = work[p].prevRow
      BY <1>1 DEF Work
    <3> HIDE DEF w
    <3> QED BY <3>1, <3>2
  <2>2. CASE GiveUp(p) \/ AdvanceWatermark(p) \/ Crash(p)
    <3>1. work' = [work EXCEPT ![p] = Idle]
      BY <2>2 DEF GiveUp, AdvanceWatermark, Crash
    <3>2. Idle.new = {} /\ Idle.retained = {} /\ Idle.prev = 0
      BY DEF Idle
    <3> HIDE DEF Idle
    <3> QED BY <3>1, <3>2
  <2> QED BY <2>1, <2>2
<1>3. UNCHANGED <<store, registered, listing, manifest>>
  BY DEF RollBack, GiveUp, AdvanceWatermark, Crash
<1>4. work[p].new \subseteq store /\ work[p].retained \subseteq registered
  BY DEF Linked, MemoryBacked
<1>5. work[p].prev # 0 =>
        work[p].prevRow.hash \subseteq CanonicalHash(listing[work[p].prev])
  BY DEF Linked, SnapshotCovered
<1> QED BY <1>2, <1>3, <1>4, <1>5, MemoryStep

(* Every step keeps the links.                                              *)
LEMMA NextLinked == Typed /\ Linked /\ [Next]_vars => Linked'
<1> SUFFICES ASSUME Typed, Linked, [Next]_vars PROVE Linked'
  OBVIOUS
<1>1. ASSUME NEW p \in Publisher, Publish(p) PROVE Linked'
  BY <1>1, StartPublishLinked, WriteObjectLinked, ReadPreviousLinked, CommitLinked,
     OtherStepsLinked DEF Publish
<1>2. CASE Reconcile \/ OpenEngine \/ ReviewRights \/ UNCHANGED vars
  BY <1>2 DEF Reconcile, OpenEngine, ReviewRights, vars, Linked, MemoryBacked,
              ListedObjectsStored, SnapshotCovered, HashCoversListed, CanonicalHash
<1> QED BY <1>1, <1>2 DEF Next

(* The links hold in every reachable state.                                 *)
LEMMA AlwaysLinked == Spec => []Linked
BY InitLinked, NextLinked, AlwaysTyped, PTL DEF Spec

(* Objects go to the store before the transaction and rows in it: whatever  *)
(* crashes, a catalog row never points at bytes that are not there.         *)
THEOREM ListedIsStored == Spec => []ListedObjectsStored
<1>1. Linked => ListedObjectsStored
  BY DEF Linked
<1> QED BY <1>1, AlwaysLinked, PTL

(* dataset_hash never covers an object its manifest does not list, for any  *)
(* number of attempts at a revision and of concurrent publishers.           *)
THEOREM HashIsListed == Spec => []HashCoversListed
<1>1. Linked => HashCoversListed
  BY DEF Linked
<1> QED BY <1>1, AlwaysLinked, PTL

-----------------------------------------------------------------------------
(* Immutable keys                                                           *)

(* put is create-only, so no key ever holds two byte strings, however often *)
(* and by however many publishers a revision is attempted.                  *)
THEOREM KeysAreImmutable == Spec => []OneContentPerKey
<1>1. Init => OneContentPerKey
  BY DEF Init, OneContentPerKey
<1>2. Typed /\ OneContentPerKey /\ [Next]_vars => OneContentPerKey'
  <2> SUFFICES ASSUME Typed, OneContentPerKey, [Next]_vars PROVE OneContentPerKey'
    OBVIOUS
  <2>1. CASE UNCHANGED store
    BY <2>1 DEF OneContentPerKey
  <2>2. ASSUME NEW p \in Publisher, NEW s, ~KeyTaken(ObjectOf(p, s)),
               store' = store \cup {ObjectOf(p, s)}
        PROVE  OneContentPerKey'
    <3>1. \A x \in store : x \in Object
      BY DEF Typed, TypeOK
    <3>2. \A x \in store : x.rev = ObjectOf(p, s).rev /\ x.slot = ObjectOf(p, s).slot
                            => x = ObjectOf(p, s)
      BY <2>2, <3>1 DEF KeyTaken, ObjectOf, Object
    <3> QED BY <2>2, <3>2 DEF OneContentPerKey
  <2>3. \/ UNCHANGED store
        \/ \E p \in Publisher : \E s \in DOMAIN work[p].todo :
             ~KeyTaken(ObjectOf(p, s)) /\ store' = store \cup {ObjectOf(p, s)}
    BY DEF Next, Publish, StartPublish, WriteObject, SkipBroken, PutObject, RefusePut,
           FailPut, ReadPrevious, Commit, RollBack, GiveUp, AdvanceWatermark, Crash,
           Reconcile, OpenEngine, ReviewRights, vars
  <2> QED BY <2>1, <2>2, <2>3
<1> QED BY <1>1, <1>2, AlwaysTyped, PTL DEF Spec

-----------------------------------------------------------------------------
(* The watermark                                                            *)

(* A position some listed object spans.                                     *)
Backed(n) == \E r \in Revision : \E o \in listing[r] : n \in Span(o)

(* A publisher that has read its objects knows their end; once it has       *)
(* committed, an object that it listed spans that end.                      *)
ObservedBacked ==
  \A p \in Publisher :
    /\ work[p].phase = "publishing" => work[p].observed = PeriodEnd(AllObjects(p))
    /\ work[p].phase = "advancing" /\ work[p].observed > 0 => Backed(work[p].observed)

WatermarkInv == WatermarkBacked /\ ObservedBacked

(* A positive end of a set of objects lies in one of them.                  *)
LEMMA PeriodEndInObject ==
  ASSUME NEW S \in SUBSET Object, PeriodEnd(S) > 0
  PROVE  \E o \in S : PeriodEnd(S) \in Span(o)
<1> DEFINE days == UNION {Span(o) : o \in S}
<1>1. S # {}
  BY DEF PeriodEnd
<1>2. \A o \in S : Span(o) \in (SUBSET Day) \ {{}}
  BY PublicationAssumption DEF Span, Object, Slot
<1>3. days \in SUBSET (1 .. LastDay) /\ days # {}
  BY <1>1, <1>2 DEF Day
<1>4. \E n \in days : Latest(n, days)
  BY <1>3, MaximumExists, PublicationAssumption
<1>5. (CHOOSE n \in Day : Latest(n, days)) \in days
  BY <1>3, <1>4 DEF Day, Latest
<1>6. PeriodEnd(S) \in days
  BY <1>1, <1>5 DEF PeriodEnd
<1> QED BY <1>6

(* The last day a hash covers belongs to one of its entries.                *)
LEMMA EndOfHashInObject ==
  ASSUME NEW h \in SUBSET Canonical, EndOfHash(h) > 0
  PROVE  \E c \in h : EndOfHash(h) \in DaysOf[c.slot[1]]
<1> DEFINE days == UNION {DaysOf[c.slot[1]] : c \in h}
<1>1. h # {}
  BY DEF EndOfHash
<1>2. \A c \in h : DaysOf[c.slot[1]] \in (SUBSET Day) \ {{}}
  BY PublicationAssumption DEF Canonical, Slot
<1>3. days \in SUBSET (1 .. LastDay) /\ days # {}
  BY <1>1, <1>2 DEF Day
<1>4. \E n \in days : Latest(n, days)
  BY <1>3, MaximumExists, PublicationAssumption
<1>5. (CHOOSE n \in Day : Latest(n, days)) \in days
  BY <1>3, <1>4 DEF Day, Latest
<1>6. EndOfHash(h) \in days
  BY <1>1, <1>5 DEF EndOfHash
<1> QED BY <1>6

(* What listed objects span stays spanned: listings only grow.              *)
LEMMA BackedMonotone ==
  ASSUME Typed, [Next]_vars, NEW n, Backed(n)
  PROVE  Backed(n)'
<1>1. \A r \in Revision : listing[r] \subseteq listing'[r]
  <2>1. ASSUME NEW p \in Publisher, Commit(p)
        PROVE  \A r \in Revision : listing[r] \subseteq listing'[r]
    BY <2>1 DEF Commit, ListingAfter, Typed, TypeOK
  <2>2. (\E p \in Publisher : Commit(p)) \/ UNCHANGED listing
    BY DEF Next, Publish, StartPublish, WriteObject, ReadPrevious, RollBack, GiveUp,
           AdvanceWatermark, Crash, Reconcile, OpenEngine, ReviewRights, vars
  <2> QED BY <2>1, <2>2
<1> QED BY <1>1 DEF Backed, Span

(* What a step on one publisher's memory must keep.                         *)
LEMMA ObservedStep ==
  ASSUME Typed, [Next]_vars, ObservedBacked, NEW p \in Publisher, NEW w,
         work' = [work EXCEPT ![p] = w],
         w.phase = "publishing" => w.observed = PeriodEnd(w.retained \cup w.new),
         w.phase = "advancing" /\ w.observed > 0 =>
           \E r \in Revision : \E o \in listing'[r] : w.observed \in Span(o)
  PROVE  ObservedBacked'
<1>1. \A q \in Publisher : work'[q] = IF q = p THEN w ELSE work[q]
  BY DEF Typed, TypeOK
<1>2. \A q \in Publisher : work'[q].phase = "publishing" =>
        work'[q].observed = PeriodEnd(work'[q].retained \cup work'[q].new)
  BY <1>1 DEF ObservedBacked, AllObjects
<1>3. \A n : Backed(n) =>
        \E r \in Revision : \E o \in listing'[r] : n \in Span(o)
  <2>1. \A n : Backed(n) => Backed(n)'
    BY BackedMonotone
  <2> QED BY <2>1 DEF Backed, Span
<1>4. ASSUME NEW q \in Publisher, work'[q].phase = "advancing", work'[q].observed > 0
      PROVE  \E r \in Revision : \E o \in listing'[r] : work'[q].observed \in Span(o)
  <2>1. CASE q = p
    BY <1>1, <1>4, <2>1
  <2>2. CASE q # p
    BY <1>1, <1>3, <1>4, <2>2 DEF ObservedBacked
  <2> QED BY <2>1, <2>2
<1>5. \A q \in Publisher : (work[q].phase = "publishing" =>
        work[q].observed = PeriodEnd(AllObjects(q)))'
  BY <1>2 DEF AllObjects, PeriodEnd, Span
<1>6. \A q \in Publisher : (work[q].phase = "advancing" /\ work[q].observed > 0 =>
        Backed(work[q].observed))'
  BY <1>4 DEF Backed, Span
<1> QED BY <1>5, <1>6 DEF ObservedBacked

(* What a publisher has observed of the watermark stays backed by a         *)
(* listing.                                                                 *)
LEMMA ObservedKept ==
  ASSUME Typed, [Next]_vars, ObservedBacked
  PROVE  ObservedBacked'
<1> DEFINE Leaves(p) == \E w : /\ work' = [work EXCEPT ![p] = w]
                               /\ w.phase \notin {"publishing", "advancing"}
<1>1. ASSUME NEW p \in Publisher, Leaves(p) PROVE ObservedBacked'
  BY <1>1, ObservedStep
<1>2. ASSUME NEW p \in Publisher, Publish(p) PROVE ObservedBacked'
  <2>1. work[p] \in Work /\ work \in [Publisher -> Work]
    BY DEF Typed, TypeOK
  <2>2. ASSUME NEW j \in Job, StartPublish(p, j) PROVE Leaves(p)
    <3> DEFINE w == [Idle EXCEPT !.phase = "writing",
                      !.replaces = j.replaces,
                      !.rev = NextRevision(j),
                      !.prev = LatestAvailable,
                      !.prevRow = IF LatestAvailable = 0
                                  THEN Absent ELSE manifest[LatestAvailable],
                      !.todo = j.groups,
                      !.error = j.failed]
    <3>1. work' = [work EXCEPT ![p] = w]
      BY <2>2 DEF StartPublish
    <3>2. w.phase = "writing"
      BY DEF Idle
    <3> HIDE DEF w
    <3> QED BY <3>1, <3>2
  <2>3. CASE WriteObject(p)
    <3>1. PICK s, extra, failed : work' = Done(p, s, extra, failed)
      BY <2>3 DEF WriteObject, SkipBroken, PutObject, RefusePut, FailPut
    <3> DEFINE w == [work[p] EXCEPT !.todo = Rest(work[p].todo, s),
                                    !.new = work[p].new \cup extra,
                                    !.error = work[p].error \/ failed]
    <3>2. work' = [work EXCEPT ![p] = w]
      BY <2>1, <3>1 DEF Done, Work
    <3>3. w.phase = "writing"
      BY <2>1, <2>3 DEF Work, WriteObject
    <3> HIDE DEF w
    <3> QED BY <1>1, <3>2, <3>3
  <2>4. CASE ReadPrevious(p)
    <3> DEFINE kept == IF work[p].prev = 0 THEN {}
                       ELSE {o \in listing[work[p].prev] : ~Overlaps(o, work[p].replaces)}
    <3> DEFINE w == [work[p] EXCEPT !.phase = "publishing",
                                    !.retained = kept,
                                    !.observed = PeriodEnd(kept \cup work[p].new)]
    <3>1. work' = [work EXCEPT ![p] = w]
      BY <2>1, <2>4 DEF ReadPrevious, Work
    <3> HIDE DEF kept
    <3>2. w.phase = "publishing" /\ w.observed = PeriodEnd(w.retained \cup w.new)
      BY <2>1 DEF Work
    <3> HIDE DEF w
    <3> QED BY <3>1, <3>2, ObservedStep
  <2>5. CASE Commit(p)
    <3> DEFINE w == IF Outcome(p) = "AVAILABLE"
                    THEN [work[p] EXCEPT !.phase = "advancing"] ELSE Idle
    <3>1. work' = [work EXCEPT ![p] = w]
      BY <2>1, <2>5 DEF Commit
    <3>2. w.phase \in {"advancing", "idle"} /\ w.observed \in {work[p].observed, 0}
      BY <2>1 DEF Work, Idle
    <3>3. ASSUME work[p].observed > 0
          PROVE  \E r \in Revision : \E o \in listing'[r] : work[p].observed \in Span(o)
      <4>1. work[p].rev \in Revision /\ AllObjects(p) \in SUBSET Object
        BY <2>1, <2>5 DEF Typed, BusyOnRevision, Commit, AllObjects, Work
      <4>2. work[p].observed = PeriodEnd(AllObjects(p))
        BY <2>5 DEF Commit, ObservedBacked
      <4>3. PICK o \in AllObjects(p) : work[p].observed \in Span(o)
        BY <3>3, <4>1, <4>2, PeriodEndInObject
      <4>4. o \in listing'[work[p].rev]
        BY <2>5, <4>1 DEF Commit, ListingAfter, Typed, TypeOK
      <4> QED BY <4>1, <4>3, <4>4
    <3> HIDE DEF w
    <3>4. w.phase # "publishing"
      BY <3>2
    <3>5. w.observed > 0 => \E r \in Revision : \E o \in listing'[r] : w.observed \in Span(o)
      BY <3>2, <3>3
    <3> QED BY <3>1, <3>4, <3>5, ObservedStep
  <2>6. CASE RollBack(p)
    <3> DEFINE w == [work[p] EXCEPT !.phase = "refused"]
    <3>1. work' = [work EXCEPT ![p] = w] /\ w.phase = "refused"
      BY <2>1, <2>6 DEF RollBack, Work
    <3> HIDE DEF w
    <3> QED BY <1>1, <3>1
  <2>7. CASE GiveUp(p) \/ AdvanceWatermark(p) \/ Crash(p)
    <3>1. work' = [work EXCEPT ![p] = Idle] /\ Idle.phase = "idle"
      BY <2>7 DEF GiveUp, AdvanceWatermark, Crash, Idle
    <3> HIDE DEF Idle
    <3> QED BY <1>1, <3>1
  <2> HIDE DEF Leaves
  <2> QED BY <1>1, <1>2, <2>2, <2>3, <2>4, <2>5, <2>6, <2>7 DEF Publish
<1>3. CASE Reconcile \/ OpenEngine \/ ReviewRights \/ UNCHANGED vars
  BY <1>3 DEF Reconcile, OpenEngine, ReviewRights, vars, ObservedBacked, AllObjects, PeriodEnd,
              Backed, Span
<1> QED BY <1>2, <1>3 DEF Next

(* The watermark stays backed by a listing.                                 *)
LEMMA WatermarkKept ==
  ASSUME Typed, Linked, [Next]_vars, WatermarkInv
  PROVE  WatermarkBacked'
<1>1. ASSUME watermark' = watermark PROVE WatermarkBacked'
  <2>1. \A n : Backed(n) => Backed(n)'
    BY BackedMonotone
  <2>2. \A n : Backed(n) => \E r \in Revision : \E o \in listing'[r] : n \in Span(o)
    BY <2>1 DEF Backed, Span
  <2>3. watermark > 0 => Backed(watermark)
    BY DEF WatermarkInv, WatermarkBacked, Backed
  <2> QED BY <1>1, <2>2, <2>3 DEF WatermarkBacked, Span
<1>2. ASSUME NEW p \in Publisher, AdvanceWatermark(p) PROVE WatermarkBacked'
  <2>1. work[p].observed > 0 => Backed(work[p].observed)
    BY <1>2 DEF AdvanceWatermark, WatermarkInv, ObservedBacked
  <2>2. watermark' \in {watermark, work[p].observed} /\ UNCHANGED listing
    BY <1>2 DEF AdvanceWatermark, Later
  <2> QED BY <2>1, <2>2 DEF WatermarkInv, WatermarkBacked, Backed, Span
<1>3. CASE Reconcile
  <2> DEFINE r == LatestAvailable
  <2> DEFINE end == EndOfHash(manifest[r].hash)
  <2>1. r \in Revision
    <3>1. \E q \in Available : Latest(q, Available)
      BY <1>3, MaximumExists, PublicationAssumption DEF Available, Revision, Reconcile
    <3> QED BY <1>3, <3>1 DEF LatestAvailable, Available, Reconcile
  <2>2. manifest[r].hash \in SUBSET Canonical
    BY <2>1 DEF Typed, TypeOK, Manifest
  <2>3. ASSUME end > 0 PROVE Backed(end)
    <3>1. PICK c \in manifest[r].hash : end \in DaysOf[c.slot[1]]
      BY <2>2, <2>3, EndOfHashInObject
    <3>2. PICK o \in listing[r] : c = Canon(o)
      BY <2>1, <3>1 DEF Linked, HashCoversListed, CanonicalHash
    <3>3. end \in Span(o)
      BY <3>1, <3>2 DEF Canon, Span
    <3> QED BY <2>1, <3>2, <3>3 DEF Backed
  <2>4. watermark' \in {watermark, end} /\ UNCHANGED listing
    BY <1>3 DEF Reconcile, Later
  <2> HIDE DEF end
  <2> QED BY <2>3, <2>4 DEF WatermarkInv, WatermarkBacked, Backed, Span
<1>4. \/ watermark' = watermark
      \/ \E p \in Publisher : AdvanceWatermark(p)
      \/ Reconcile
  BY DEF Next, Publish, StartPublish, WriteObject, ReadPrevious, Commit, RollBack, GiveUp,
         Crash, OpenEngine, ReviewRights, vars
<1> QED BY <1>1, <1>2, <1>3, <1>4

(* The watermark never passes the end of what some commit listed, whatever  *)
(* crashes and however late a publisher gets to move it: a reader that      *)
(* resumes from the watermark skips nothing that was not published.         *)
THEOREM WatermarkIsBacked == Spec => []WatermarkBacked
<1>1. Init => WatermarkInv
  BY DEF Init, WatermarkInv, WatermarkBacked, ObservedBacked, Idle
<1>2. Typed /\ Linked /\ WatermarkInv /\ [Next]_vars => WatermarkInv'
  BY ObservedKept, WatermarkKept DEF WatermarkInv
<1>3. WatermarkInv => WatermarkBacked
  BY DEF WatermarkInv
<1> QED BY <1>1, <1>2, <1>3, AlwaysTyped, AlwaysLinked, PTL DEF Spec

(* What readers of a dataset year rely on, for any number of publishers:    *)
(* bytes never change under a key, every listed object is stored, hashes    *)
(* and the watermark speak only of what is listed.                          *)
THEOREM StorageIsSound == Spec => []StorageSound
<1>1. OneContentPerKey /\ ListedObjectsStored /\ HashCoversListed /\ WatermarkBacked
        => StorageSound
  BY DEF StorageSound
<1> QED
  BY <1>1, KeysAreImmutable, ListedIsStored, HashIsListed, WatermarkIsBacked, PTL

-----------------------------------------------------------------------------
(* One publisher at a time: the invariant of the releases                   *)

Busy(p) == work[p].phase \in {"writing", "publishing"}

(* What a publication builds upon is still the newest release.              *)
FollowsLatest(p) ==
  /\ work[p].prev = LatestAvailable
  /\ work[p].rev = LatestAvailable + 1
  /\ work[p].prev # 0 => work[p].prevRow = manifest[work[p].prev]

(* What of the previous revision a publication leaves in place.             *)
Kept(p) == IF work[p].prev = 0 THEN {}
           ELSE {o \in listing[work[p].prev] : ~Overlaps(o, work[p].replaces)}

(* Nothing newer than the newest AVAILABLE manifest was ever released, and  *)
(* a publication goes on with what it has read.                             *)
Chained ==
  /\ \A r \in Revision : Released(r) => r <= LatestAvailable
  /\ \A r \in Revision : manifest[r].status = "ABSENT" => listing[r] = {}
  /\ \A p \in Publisher : Busy(p) => FollowsLatest(p)
  /\ \A p \in Publisher : work[p].phase = "publishing" => work[p].retained = Kept(p)

(* The new objects of a publication are those of the tables it is done      *)
(* with, all of them if it has met no error.                                *)
TakenFrom(p, j) ==
  /\ work[p].replaces = j.replaces
  /\ DOMAIN work[p].todo \subseteq DOMAIN j.groups
  /\ \A s \in DOMAIN work[p].todo : work[p].todo[s] = j.groups[s]
  /\ \A o \in work[p].new : /\ o.slot \in DOMAIN j.groups \ DOMAIN work[p].todo
                            /\ o.content = j.groups[o.slot]
                            /\ o.rev = work[p].rev
  /\ ~work[p].error =>
       \A s \in DOMAIN j.groups \ DOMAIN work[p].todo : \E o \in work[p].new : o.slot = s
TakesTables ==
  \A p \in Publisher :
    /\ Busy(p) => \E j \in Job : TakenFrom(p, j)
    /\ work[p].phase = "publishing" => DOMAIN work[p].todo = {}


-----------------------------------------------------------------------------
(* The newest release                                                       *)

(* The newest AVAILABLE revision is AVAILABLE, and none after it is.        *)
LEMMA LatestIsNewest ==
  IF Available = {} THEN LatestAvailable = 0
  ELSE LatestAvailable \in Available /\ \A r \in Available : r <= LatestAvailable
<1>1. CASE Available = {}
  BY <1>1 DEF LatestAvailable
<1>2. CASE Available # {}
  <2>1. \E r \in Available : Latest(r, Available)
    BY <1>2, MaximumExists, PublicationAssumption DEF Available, Revision
  <2> QED BY <1>2, <2>1 DEF LatestAvailable, Available, Latest
<1> QED BY <1>1, <1>2

(* The only AVAILABLE revision is the newest.                               *)
LEMMA OnlyOneIsNewest ==
  ASSUME NEW r \in Revision, Available = {r}
  PROVE  LatestAvailable = r
BY LatestIsNewest

(* A revision that is released is no later than the newest, and a revision  *)
(* being published is.                                                      *)
LEMMA NotReleasedYet ==
  ASSUME Typed, Chained, NEW p \in Publisher, Busy(p)
  PROVE  /\ work[p].rev \in Revision
         /\ work[p].rev = LatestAvailable + 1
         /\ ~Released(work[p].rev)
         /\ work[p].rev # work[p].prev
<1>1. work[p].rev \in Revision
  BY DEF Typed, BusyOnRevision, Busy
<1>2. work[p].rev = LatestAvailable + 1 /\ work[p].prev = LatestAvailable
  BY DEF Chained, FollowsLatest
<1>3. LatestAvailable \in Nat
  BY LatestAvailableType DEF Revision
<1>4. ~(work[p].rev <= LatestAvailable)
  BY <1>2, <1>3
<1> QED BY <1>1, <1>2, <1>3, <1>4 DEF Chained

-----------------------------------------------------------------------------
(* What the steps do                                                        *)

(* Writing a table moves nothing but the tables and the new objects.        *)
LEMMA WriteEffect ==
  ASSUME Typed, NEW p \in Publisher, WriteObject(p)
  PROVE  /\ work'[p].phase = "writing" /\ work[p].phase = "writing"
         /\ work'[p].replaces = work[p].replaces /\ work'[p].rev = work[p].rev
         /\ work'[p].prev = work[p].prev /\ work'[p].prevRow = work[p].prevRow
         /\ work'[p].retained = work[p].retained
         /\ UNCHANGED <<listing, manifest>>
         /\ \E s \in DOMAIN work[p].todo :
              /\ work'[p].todo = Rest(work[p].todo, s)
              /\ \/ /\ work'[p].new = work[p].new \cup {ObjectOf(p, s)}
                    /\ work'[p].error = work[p].error
                 \/ work'[p].new = work[p].new /\ work'[p].error
<1>1. work[p] \in Work /\ work \in [Publisher -> Work]
  BY DEF Typed, TypeOK
<1>2. PICK s \in DOMAIN work[p].todo :
        SkipBroken(p, s) \/ PutObject(p, s) \/ RefusePut(p, s) \/ FailPut(p, s)
  BY DEF WriteObject
<1>3. PICK extra \in {{ObjectOf(p, s)}, {}}, failed \in BOOLEAN :
        /\ work' = Done(p, s, extra, failed)
        /\ (extra = {ObjectOf(p, s)} /\ ~failed) \/ (extra = {} /\ failed)
  <2>1. work' = Done(p, s, {ObjectOf(p, s)}, FALSE) \/ work' = Done(p, s, {}, TRUE)
    BY <1>2 DEF SkipBroken, PutObject, RefusePut, FailPut
  <2> QED BY <2>1
<1>4. PICK t, n, e : t = Rest(work[p].todo, s) /\ n = work[p].new \cup extra
                     /\ e = (work[p].error \/ failed)
  OBVIOUS
<1>5. PICK w : w = [work[p] EXCEPT !.todo = t, !.new = n, !.error = e]
  OBVIOUS
<1>6. work' = [work EXCEPT ![p] = w]
  BY <1>1, <1>3, <1>4, <1>5 DEF Done, Work
<1>7. /\ w.phase = work[p].phase /\ w.replaces = work[p].replaces /\ w.rev = work[p].rev
      /\ w.prev = work[p].prev /\ w.prevRow = work[p].prevRow /\ w.retained = work[p].retained
      /\ w.todo = t /\ w.new = n /\ w.error = e
  BY <1>1, <1>5 DEF Work
<1>8. work'[p] = w
  BY <1>1, <1>6
<1>9. work[p].phase = "writing" /\ UNCHANGED <<listing, manifest>>
  BY DEF WriteObject
<1>10. /\ work'[p].todo = Rest(work[p].todo, s)
       /\ \/ /\ work'[p].new = work[p].new \cup {ObjectOf(p, s)}
             /\ work'[p].error = work[p].error
          \/ work'[p].new = work[p].new /\ work'[p].error
  <2>1. work[p].error \in BOOLEAN
    BY <1>1 DEF Work
  <2>2. CASE extra = {ObjectOf(p, s)} /\ ~failed
    <3>1. n = work[p].new \cup {ObjectOf(p, s)} /\ e = work[p].error
      BY <1>4, <2>1, <2>2
    <3> QED BY <1>4, <1>7, <1>8, <3>1
  <2>3. CASE extra = {} /\ failed
    <3>1. n = work[p].new /\ e
      BY <1>4, <2>3
    <3> QED BY <1>4, <1>7, <1>8, <3>1
  <2> QED BY <1>3, <2>2, <2>3
<1> QED BY <1>7, <1>8, <1>9, <1>10

(* Reading the previous manifest keeps its objects beside the new ones.     *)
LEMMA ReadEffect ==
  ASSUME Typed, NEW p \in Publisher, ReadPrevious(p)
  PROVE  /\ work[p].phase = "writing" /\ work'[p].phase = "publishing"
         /\ work'[p].replaces = work[p].replaces /\ work'[p].rev = work[p].rev
         /\ work'[p].prev = work[p].prev /\ work'[p].prevRow = work[p].prevRow
         /\ work'[p].todo = work[p].todo /\ work'[p].new = work[p].new
         /\ work'[p].error = work[p].error
         /\ work'[p].retained = Kept(p) /\ DOMAIN work[p].todo = {}
         /\ UNCHANGED <<listing, manifest>>
<1>1. work[p] \in Work /\ work \in [Publisher -> Work]
  BY DEF Typed, TypeOK
<1>2. PICK kept, end : kept = Kept(p) /\ end = PeriodEnd(kept \cup work[p].new)
  OBVIOUS
<1>3. PICK w : w = [work[p] EXCEPT !.phase = "publishing", !.retained = kept, !.observed = end]
  OBVIOUS
<1>4. work' = [work EXCEPT ![p] = w]
  BY <1>1, <1>2, <1>3 DEF ReadPrevious, Kept, Work
<1>5. work'[p] = w
  BY <1>1, <1>4
<1>6. /\ w.phase = "publishing" /\ w.replaces = work[p].replaces /\ w.rev = work[p].rev
      /\ w.prev = work[p].prev /\ w.prevRow = work[p].prevRow /\ w.retained = kept
      /\ w.todo = work[p].todo /\ w.new = work[p].new /\ w.error = work[p].error
  BY <1>1, <1>3 DEF Work
<1> QED BY <1>2, <1>5, <1>6 DEF ReadPrevious

(* A publication starts from the newest release, with all its tables to do. *)
LEMMA StartEffect ==
  ASSUME Typed, Unforced, NEW p \in Publisher, NEW j \in Job, StartPublish(p, j)
  PROVE  /\ work'[p].phase = "writing"
         /\ work'[p].replaces = j.replaces /\ work'[p].todo = j.groups
         /\ work'[p].new = {}
         /\ work'[p].rev = LatestAvailable + 1 /\ work'[p].prev = LatestAvailable
         /\ LatestAvailable # 0 => work'[p].prevRow = manifest[LatestAvailable]
         /\ UNCHANGED <<listing, manifest>>
<1>1. work \in [Publisher -> Work]
  BY DEF Typed, TypeOK
<1>2. NextRevision(j) = LatestAvailable + 1
  BY DEF Unforced, NextRevision
<1>3. PICK n, l, row : /\ n = LatestAvailable + 1 /\ l = LatestAvailable
                       /\ row = IF LatestAvailable = 0 THEN Absent ELSE manifest[LatestAvailable]
  OBVIOUS
<1>4. PICK w : w = [Idle EXCEPT !.phase = "writing", !.replaces = j.replaces, !.rev = n, !.prev = l,
                                !.prevRow = row, !.todo = j.groups, !.error = j.failed]
  OBVIOUS
<1>5. work' = [work EXCEPT ![p] = w]
  BY <1>2, <1>3, <1>4 DEF StartPublish
<1>6. work'[p] = w
  BY <1>1, <1>5
<1>7. /\ w.phase = "writing" /\ w.replaces = j.replaces /\ w.todo = j.groups /\ w.new = {}
      /\ w.rev = n /\ w.prev = l /\ w.prevRow = row
  BY <1>4 DEF Idle
<1> QED BY <1>3, <1>6, <1>7 DEF StartPublish

(* A commit writes the row and the listing of its own revision; the newest  *)
(* release is superseded by it, or stays what it is.                        *)
LEMMA CommitEffect ==
  ASSUME Typed, Chained, NEW p \in Publisher, Commit(p)
  PROVE  /\ Busy(p)
         /\ work'[p].phase \notin {"writing", "publishing"}
         /\ \A r \in Revision \ {work[p].rev} : listing'[r] = listing[r]
         /\ listing'[work[p].rev] = listing[work[p].rev] \cup AllObjects(p)
         /\ \A r \in Revision \ {work[p].rev} :
              /\ manifest'[r].hash = manifest[r].hash
              /\ IF r = work[p].prev /\ Outcome(p) = "AVAILABLE"
                 THEN manifest[r].status = "AVAILABLE" /\ manifest'[r].status = "SUPERSEDED"
                 ELSE manifest'[r].status = manifest[r].status
         /\ manifest'[work[p].rev].status = Outcome(p)
         /\ manifest'[work[p].rev].hash = CanonicalHash(AllObjects(p))
         /\ IF Outcome(p) = "AVAILABLE"
            THEN Available' = {work[p].rev} /\ LatestAvailable' = work[p].rev
            ELSE Available' = Available /\ LatestAvailable' = LatestAvailable
<1>1. /\ work \in [Publisher -> Work] /\ work[p] \in Work
      /\ listing \in [Revision -> SUBSET Object] /\ manifest \in [Revision -> Manifest]
  BY DEF Typed, TypeOK
<1>2. work[p].phase = "publishing" /\ Busy(p)
  BY DEF Commit, Busy
<1>3. PICK n \in Revision : n = work[p].rev
  BY <1>2, NotReleasedYet
<1>4. /\ n = LatestAvailable + 1 /\ ~Released(n) /\ n # work[p].prev
      /\ work[p].prev = LatestAvailable /\ LatestAvailable \in Revision \cup {0}
      /\ work[p].prev # 0 => work[p].prevRow = manifest[work[p].prev]
  BY <1>2, <1>3, NotReleasedYet, LatestAvailableType DEF Chained, FollowsLatest
<1>5. work'[p].phase \notin {"writing", "publishing"}
  BY <1>1 DEF Commit, Idle, Work
<1>6. /\ \A r \in Revision \ {n} : listing'[r] = listing[r]
      /\ listing'[n] = listing[n] \cup AllObjects(p)
  BY <1>1, <1>3 DEF Commit, ListingAfter
<1>7. \A r \in Revision :
        manifest'[r] = IF r = work[p].prev /\ Outcome(p) = "AVAILABLE"
                         THEN [work[p].prevRow EXCEPT !.status = "SUPERSEDED"]
                       ELSE IF r = n
                         THEN [status |-> Outcome(p), hash |-> CanonicalHash(AllObjects(p))]
                       ELSE manifest[r]
  BY <1>3 DEF Commit, ManifestAfter
<1>8. manifest'[n].status = Outcome(p) /\ manifest'[n].hash = CanonicalHash(AllObjects(p))
  BY <1>4, <1>7
<1>9. ASSUME NEW r \in Revision, r = work[p].prev, Outcome(p) = "AVAILABLE"
      PROVE  /\ manifest'[r].hash = manifest[r].hash
             /\ manifest[r].status = "AVAILABLE" /\ manifest'[r].status = "SUPERSEDED"
  <2>1. r # 0
    BY PublicationAssumption DEF Revision
  <2>2. manifest[r] \in Manifest /\ work[p].prevRow = manifest[r]
    BY <1>1, <1>4, <1>9, <2>1
  <2>3. manifest'[r] = [manifest[r] EXCEPT !.status = "SUPERSEDED"]
    BY <1>7, <1>9, <2>2
  <2>4. manifest[r].status = "AVAILABLE"
    BY <1>4, <1>9, <2>1, LatestIsNewest DEF Available
  <2> QED BY <2>2, <2>3, <2>4 DEF Manifest
<1>10. \A r \in Revision \ {n} :
         /\ manifest'[r].hash = manifest[r].hash
         /\ IF r = work[p].prev /\ Outcome(p) = "AVAILABLE"
            THEN manifest[r].status = "AVAILABLE" /\ manifest'[r].status = "SUPERSEDED"
            ELSE manifest'[r].status = manifest[r].status
  BY <1>7, <1>9
<1>11. CASE Outcome(p) = "AVAILABLE"
  <2>1. n \in Available'
    BY <1>8, <1>11 DEF Available
  <2>2. \A r \in Available' : r = n
    <3>1. SingleAvailable(manifest')
      BY DEF Commit
    <3> QED BY <2>1, <3>1 DEF SingleAvailable, Available
  <2>3. PICK S : S = Available'
    OBVIOUS
  <2>4. S = {n}
    BY <2>1, <2>2, <2>3
  <2>5. LatestAvailable' = CHOOSE r \in Revision : Latest(r, S)
    BY <2>3, <2>4 DEF LatestAvailable
  <2>6. \A r \in Revision : Latest(r, S) <=> r = n
    BY <2>4 DEF Latest, Revision
  <2>7. LatestAvailable' = n
    BY <2>5, <2>6
  <2> QED BY <1>2, <1>3, <1>5, <1>6, <1>8, <1>10, <1>11, <2>3, <2>4, <2>7
<1>12. CASE Outcome(p) # "AVAILABLE"
  <2>1. manifest[n].status # "AVAILABLE" /\ manifest'[n].status # "AVAILABLE"
    BY <1>4, <1>8, <1>12 DEF Released
  <2>2. Available' = Available
    BY <1>10, <1>12, <2>1 DEF Available
  <2>3. LatestAvailable' = LatestAvailable
    BY <2>2 DEF LatestAvailable
  <2> QED BY <1>2, <1>3, <1>5, <1>6, <1>8, <1>10, <1>12, <2>2, <2>3
<1> QED BY <1>11, <1>12

(* The steps of the only publisher, and what they move.                     *)
LEMMA OnlyOneSteps ==
  ASSUME Typed, OnePublisher, [Next]_vars, NEW p \in Publisher
  PROVE  \/ \E j \in Job : StartPublish(p, j)
         \/ WriteObject(p)
         \/ ReadPrevious(p)
         \/ Commit(p)
         \/ ~Busy(p)' /\ UNCHANGED <<listing, manifest>>
         \/ UNCHANGED <<listing, manifest, work>>
<1>1. work[p] \in Work /\ work \in [Publisher -> Work]
  BY DEF Typed, TypeOK
<1>2. \A q \in Publisher : q = p
  BY DEF OnePublisher
<1>3. RollBack(p) \/ GiveUp(p) \/ AdvanceWatermark(p) \/ Crash(p)
        => ~Busy(p)' /\ UNCHANGED <<listing, manifest>>
  BY <1>1 DEF RollBack, GiveUp, AdvanceWatermark, Crash, Busy, Idle, Work
<1>4. Reconcile \/ OpenEngine \/ ReviewRights \/ UNCHANGED vars => UNCHANGED <<listing, manifest, work>>
  BY DEF Reconcile, OpenEngine, ReviewRights, vars
<1> QED BY <1>2, <1>3, <1>4 DEF Next, Publish

(* Only a commit moves the releases.                                        *)
LEMMA WhoReleases ==
  ASSUME [Next]_vars
  PROVE  (\E p \in Publisher : Commit(p)) \/ UNCHANGED <<listing, manifest>>
BY DEF Next, Publish, StartPublish, WriteObject, ReadPrevious, RollBack, GiveUp,
       AdvanceWatermark, Crash, Reconcile, OpenEngine, ReviewRights, vars

-----------------------------------------------------------------------------
(* The chain                                                                *)

(* Before the first publication nothing is released.                        *)
LEMMA ChainStarts == Init => Chained /\ TakesTables
<1> SUFFICES ASSUME Init PROVE Chained /\ TakesTables
  OBVIOUS
<1>1. \A r \in Revision : listing[r] = {} /\ ~Released(r)
  BY DEF Init, Released, Absent
<1>2. \A p \in Publisher : work[p].phase = "idle"
  BY DEF Init, Idle
<1> QED BY <1>1, <1>2 DEF Chained, TakesTables, Busy

(* A release is the newest from then on, and whoever publishes next builds  *)
(* upon it.                                                                 *)
LEMMA ChainKept ==
  ASSUME Typed, Chained, OnePublisher, Unforced, [Next]_vars
  PROVE  Chained'
<1>1. \A r \in Revision : Released(r)' => r <= LatestAvailable'
  <2>1. CASE UNCHANGED <<listing, manifest>>
    BY <2>1 DEF Chained, Released, LatestAvailable, Available
  <2>2. ASSUME NEW p \in Publisher, Commit(p), NEW r \in Revision, Released(r)'
        PROVE  r <= LatestAvailable'
    <3>1. work[p].rev = LatestAvailable + 1 /\ work[p].rev \in Revision /\ LatestAvailable \in Nat
      BY <2>2, CommitEffect, NotReleasedYet, LatestAvailableType DEF Revision
    <3>2. CASE r = work[p].rev
      <4>1. Outcome(p) = "AVAILABLE"
        BY <2>2, <3>2, CommitEffect DEF Released, Outcome
      <4> QED BY <2>2, <3>1, <3>2, <4>1, CommitEffect DEF Revision
    <3>3. CASE r # work[p].rev
      <4>1. Released(r)
        BY <2>2, <3>3, CommitEffect DEF Released
      <4>2. r <= LatestAvailable
        BY <4>1 DEF Chained
      <4>3. LatestAvailable' \in {LatestAvailable, LatestAvailable + 1}
        BY <2>2, <3>1, CommitEffect
      <4> QED BY <3>1, <4>2, <4>3 DEF Revision
    <3> QED BY <3>2, <3>3
  <2> QED BY <2>1, <2>2, WhoReleases
<1>2. \A r \in Revision : manifest'[r].status = "ABSENT" => listing'[r] = {}
  <2>1. CASE UNCHANGED <<listing, manifest>>
    BY <2>1 DEF Chained
  <2>2. ASSUME NEW p \in Publisher, Commit(p), NEW r \in Revision, manifest'[r].status = "ABSENT"
        PROVE  listing'[r] = {}
    <3>1. r # work[p].rev
      BY <2>2, CommitEffect DEF Outcome
    <3> QED BY <2>2, <3>1, CommitEffect DEF Chained
  <2> QED BY <2>1, <2>2, WhoReleases
<1>3. ASSUME NEW p \in Publisher, Busy(p)'
      PROVE  FollowsLatest(p)' /\ (work'[p].phase = "publishing" => work'[p].retained = Kept(p)')
  <2>1. CASE Commit(p)
    BY <1>3, <2>1, CommitEffect DEF Busy
  <2>2. CASE UNCHANGED <<listing, manifest, work>>
    BY <1>3, <2>2 DEF Chained, Busy, FollowsLatest, Kept, Overlaps, LatestAvailable, Available
  <2>3. ASSUME UNCHANGED <<listing, manifest>>
        PROVE  LatestAvailable' = LatestAvailable /\ manifest' = manifest
    BY <2>3 DEF LatestAvailable, Available
  <2>4. ASSUME NEW j \in Job, StartPublish(p, j)
        PROVE  FollowsLatest(p)' /\ work'[p].phase = "writing"
    BY <2>3, <2>4, StartEffect DEF FollowsLatest
  <2>5. CASE WriteObject(p)
    <3>1. Busy(p)
      BY <2>5, WriteEffect DEF Busy
    <3>2. FollowsLatest(p)
      BY <3>1 DEF Chained
    <3> QED BY <2>3, <2>5, <3>2, WriteEffect DEF FollowsLatest
  <2>6. CASE ReadPrevious(p)
    <3>1. Busy(p)
      BY <2>6, ReadEffect DEF Busy
    <3>2. FollowsLatest(p)
      BY <3>1 DEF Chained
    <3>3. FollowsLatest(p)'
      BY <2>3, <2>6, <3>2, ReadEffect DEF FollowsLatest
    <3>4. Kept(p)' = Kept(p)
      BY <2>6, ReadEffect DEF Kept, Overlaps
    <3> QED BY <2>6, <3>3, <3>4, ReadEffect
  <2> QED BY <1>3, <2>1, <2>2, <2>4, <2>5, <2>6, OnlyOneSteps
<1> QED BY <1>1, <1>2, <1>3 DEF Chained, Busy

(* A publication is done with a table once it has put it or met an error.   *)
LEMMA TablesKept ==
  ASSUME Typed, Chained, TakesTables, OnePublisher, Unforced, [Next]_vars
  PROVE  TakesTables'
<1> SUFFICES ASSUME NEW p \in Publisher
             PROVE  /\ Busy(p)' => \E j \in Job : TakenFrom(p, j)'
                    /\ work'[p].phase = "publishing" => DOMAIN work'[p].todo = {}
  BY DEF TakesTables
<1>1. ASSUME NEW j \in Job, StartPublish(p, j)
      PROVE  TakenFrom(p, j)' /\ work'[p].phase = "writing"
  <2>1. /\ work'[p].phase = "writing" /\ work'[p].replaces = j.replaces
        /\ work'[p].todo = j.groups /\ work'[p].new = {}
    BY <1>1, StartEffect
  <2> QED BY <2>1 DEF TakenFrom
<1>2. ASSUME WriteObject(p) PROVE (\E j \in Job : TakenFrom(p, j)') /\ work'[p].phase = "writing"
  <2>1. Busy(p) /\ work'[p].phase = "writing"
    BY <1>2, WriteEffect DEF Busy
  <2>2. PICK j \in Job : TakenFrom(p, j)
    BY <2>1 DEF TakesTables
  <2>3. PICK s \in DOMAIN work[p].todo :
          /\ work'[p].todo = Rest(work[p].todo, s)
          /\ \/ /\ work'[p].new = work[p].new \cup {ObjectOf(p, s)}
                /\ work'[p].error = work[p].error
             \/ work'[p].new = work[p].new /\ work'[p].error
    BY <1>2, WriteEffect
  <2>4. PICK todo : todo = work'[p].todo
    OBVIOUS
  <2>5. /\ DOMAIN todo = DOMAIN work[p].todo \ {s}
        /\ \A t \in DOMAIN todo : todo[t] = work[p].todo[t]
    BY <2>3, <2>4 DEF Rest
  <2>6. PICK x : x = ObjectOf(p, s)
    OBVIOUS
  <2>7. x.rev = work[p].rev /\ x.slot = s /\ x.content = j.groups[s] /\ s \in DOMAIN j.groups
    BY <2>2, <2>6 DEF ObjectOf, TakenFrom
  <2>8. work'[p].replaces = work[p].replaces /\ work'[p].rev = work[p].rev
    BY <1>2, WriteEffect
  <2>9. \A o \in work'[p].new : /\ o.slot \in DOMAIN j.groups \ DOMAIN todo
                                /\ o.content = j.groups[o.slot] /\ o.rev = work'[p].rev
    BY <2>2, <2>3, <2>5, <2>6, <2>7, <2>8 DEF TakenFrom
  <2>10. ~work'[p].error =>
           \A t \in DOMAIN j.groups \ DOMAIN todo : \E o \in work'[p].new : o.slot = t
    BY <2>2, <2>3, <2>5, <2>6, <2>7 DEF TakenFrom
  <2>11. TakenFrom(p, j)'
    BY <2>2, <2>4, <2>5, <2>8, <2>9, <2>10 DEF TakenFrom
  <2> QED BY <2>1, <2>11
<1>3. ASSUME ReadPrevious(p)
      PROVE  (\E j \in Job : TakenFrom(p, j)') /\ DOMAIN work'[p].todo = {}
  <2>1. Busy(p)
    BY <1>3, ReadEffect DEF Busy
  <2>2. PICK j \in Job : TakenFrom(p, j)
    BY <2>1 DEF TakesTables
  <2>3. TakenFrom(p, j)'
    BY <1>3, <2>2, ReadEffect DEF TakenFrom
  <2> QED BY <1>3, <2>3, ReadEffect
<1>4. ASSUME UNCHANGED work
      PROVE  /\ Busy(p)' => \E j \in Job : TakenFrom(p, j)'
             /\ work'[p].phase = "publishing" => DOMAIN work'[p].todo = {}
  <2>1. \A j \in Job : TakenFrom(p, j)' = TakenFrom(p, j)
    BY <1>4 DEF TakenFrom
  <2> QED BY <1>4, <2>1 DEF TakesTables, Busy
<1>5. CASE Commit(p)
  BY <1>5, CommitEffect DEF Busy
<1> QED BY <1>1, <1>2, <1>3, <1>4, <1>5, OnlyOneSteps DEF Busy

(* One publisher, no forced revision: the chain holds in every state.       *)
LEMMA AlwaysChained ==
  ASSUME OnePublisher, Unforced
  PROVE  Spec => [](Chained /\ TakesTables)
<1>1. Typed /\ (Chained /\ TakesTables) /\ [Next]_vars => (Chained /\ TakesTables)'
  BY ChainKept, TablesKept
<1> QED BY <1>1, ChainStarts, AlwaysTyped, PTL DEF Spec

-----------------------------------------------------------------------------
(* Releases                                                                 *)


(* The AVAILABLE manifest is the one a publication has read.                *)
LEMMA BuiltUponAvailable ==
  ASSUME Typed, Chained, OneAvailable, NEW p \in Publisher, Busy(p), NEW r \in Available
  PROVE  r = work[p].prev /\ r # 0 /\ r \in Revision
<1>1. r = LatestAvailable
  BY LatestIsNewest DEF OneAvailable
<1> QED BY <1>1 DEF Chained, FollowsLatest, Available, Revision

(* A release drops from the dataset only what its replace periods overlap.  *)
THEOREM CarriedForward ==
  ASSUME OnePublisher, Unforced
  PROVE  Spec => CarriesForward
<1>1. ASSUME Typed, Chained, OneAvailable, [Next]_vars
      PROVE  [\A p \in Publisher : Commit(p) /\ Outcome(p) = "AVAILABLE" =>
                \A r \in Available : \A o \in listing[r] :
                  o \in listing'[work[p].rev] \/ Overlaps(o, work[p].replaces)]_vars
  <2> SUFFICES ASSUME NEW p \in Publisher, Commit(p), NEW r \in Available, NEW o \in listing[r],
                      ~Overlaps(o, work[p].replaces)
               PROVE  o \in listing'[work[p].rev]
    OBVIOUS
  <2>1. r = work[p].prev /\ r # 0
    BY <1>1, CommitEffect, BuiltUponAvailable
  <2>2. o \in Kept(p)
    BY <2>1 DEF Kept
  <2>3. o \in work[p].retained
    BY <1>1, <2>2 DEF Chained, Commit
  <2> QED BY <1>1, <2>3, CommitEffect DEF AllObjects
<1>2. Chained /\ TakesTables => Chained
  OBVIOUS
<1> QED BY <1>1, <1>2, AlwaysTyped, AlwaysChained, AtMostOneAvailable, PTL DEF Spec, CarriesForward

(* A revision that was released keeps its objects and its hash, and the     *)
(* dataset year stays served.                                               *)
THEOREM ReleasesAlwaysStand ==
  ASSUME OnePublisher, Unforced
  PROVE  Spec => ReleasesStand
<1>1. ASSUME Typed, Chained, [Next]_vars
      PROVE  [\A r \in Revision : manifest[r].status \in {"AVAILABLE", "SUPERSEDED"} =>
                /\ listing'[r] = listing[r]
                /\ manifest'[r].hash = manifest[r].hash
                /\ manifest'[r].status \in {manifest[r].status, "SUPERSEDED"}]_vars
  <2> SUFFICES ASSUME NEW r \in Revision, Released(r)
               PROVE  /\ listing'[r] = listing[r]
                      /\ manifest'[r].hash = manifest[r].hash
                      /\ manifest'[r].status \in {manifest[r].status, "SUPERSEDED"}
    BY DEF Released
  <2>1. ASSUME NEW p \in Publisher, Commit(p) PROVE r # work[p].rev
    BY <1>1, <2>1, CommitEffect, NotReleasedYet
  <2> QED BY <1>1, <2>1, WhoReleases, CommitEffect
<1>2. ASSUME Typed, Chained, [Next]_vars
      PROVE  [Available # {} => Available' # {}]_vars
  <2>1. ASSUME UNCHANGED manifest PROVE Available' = Available
    BY <2>1 DEF Available
  <2> QED BY <1>2, <2>1, WhoReleases, CommitEffect
<1>3. Chained /\ TakesTables => Chained
  OBVIOUS
<1> QED BY <1>1, <1>2, <1>3, AlwaysTyped, AlwaysChained, PTL
        DEF Spec, ReleasesStand, ReleasedIsFrozen, StaysAvailable

-----------------------------------------------------------------------------
(* What readers of the AVAILABLE manifest rely on                           *)

(* A publication that releases a revision brings all the tables of its job. *)
LEMMA BringsAllTables ==
  ASSUME Typed, TakesTables, NEW p \in Publisher, Commit(p), Outcome(p) = "AVAILABLE"
  PROVE  \E j \in Job :
           /\ work[p].replaces = j.replaces
           /\ CanonicalHash(work[p].new) = Brings(j)
           /\ \A o \in work[p].new : o.slot \in DOMAIN j.groups /\ o.content = j.groups[o.slot]
                                     /\ o.rev = work[p].rev
<1>1. Busy(p) /\ work[p].phase = "publishing" /\ ~work[p].error
  BY DEF Commit, Busy, Outcome
<1>2. PICK j \in Job : TakenFrom(p, j)
  BY <1>1 DEF TakesTables
<1>3. DOMAIN work[p].todo = {}
  BY <1>1 DEF TakesTables
<1>4. /\ \A o \in work[p].new : o.slot \in DOMAIN j.groups /\ o.content = j.groups[o.slot]
                                /\ o.rev = work[p].rev
      /\ \A s \in DOMAIN j.groups : \E o \in work[p].new : o.slot = s
  BY <1>1, <1>2, <1>3 DEF TakenFrom
<1>5. CanonicalHash(work[p].new) = Brings(j)
  BY <1>4 DEF CanonicalHash, Canon, Brings
<1> QED BY <1>2, <1>4, <1>5 DEF TakenFrom

(* What a release lists is exactly what it keeps and what it brings, unless *)
(* a quarantined attempt left rows under its revision.                      *)
LEMMA ReleaseLists ==
  ASSUME Typed, Chained, NoLeftovers, NEW p \in Publisher, Commit(p)
  PROVE  listing'[work[p].rev] = AllObjects(p)
<1>1. /\ work[p].rev \in Revision /\ ~Released(work[p].rev)
      /\ listing'[work[p].rev] = listing[work[p].rev] \cup AllObjects(p)
  BY CommitEffect, NotReleasedYet
<1>2. manifest[work[p].rev].status \in {"ABSENT", "QUARANTINED"}
  BY <1>1 DEF Released, Typed, TypeOK, Manifest, Status
<1> QED BY <1>1, <1>2 DEF Chained, NoLeftovers

(* The objects a publication releases share no day of a shard, if those it  *)
(* keeps do not and it replaces the days it brings.                         *)
LEMMA ReleaseApart ==
  ASSUME Typed, Chained, TakesTables, OneAvailable, NoOverlapInAvailable,
         ReplacesCover, TablesApart, NEW p \in Publisher, Commit(p), Outcome(p) = "AVAILABLE",
         NEW o \in AllObjects(p), NEW x \in AllObjects(p), o # x
  PROVE  o.slot[2] # x.slot[2] \/ Span(o) \cap Span(x) = {}
<1>1. Busy(p) /\ work[p].retained = Kept(p) /\ work[p] \in Work /\ listing \in [Revision -> SUBSET Object]
  BY DEF Commit, Busy, Chained, Typed, TypeOK
<1>2. PICK j \in Job :
        /\ work[p].replaces = j.replaces
        /\ \A y \in work[p].new : y.slot \in DOMAIN j.groups /\ y.content = j.groups[y.slot]
                                  /\ y.rev = work[p].rev
  BY BringsAllTables
<1>3. ASSUME NEW y \in work[p].new PROVE Span(y) \subseteq work[p].replaces
  BY <1>2, <1>3 DEF ReplacesCover, Span
<1>4. ASSUME NEW y \in Kept(p)
      PROVE  /\ Span(y) \cap work[p].replaces = {}
             /\ work[p].prev # 0 /\ y \in listing[work[p].prev]
  BY <1>4 DEF Kept, Overlaps
<1>5. CASE o \in work[p].new /\ x \in work[p].new
  <2>1. o \in Object /\ x \in Object
    BY <1>1, <1>5 DEF Work
  <2>2. o.slot # x.slot
    BY <1>2, <1>5, <2>1 DEF Object
  <2> QED BY <1>2, <1>5, <2>2 DEF TablesApart, Span
<1>6. CASE o \in Kept(p) /\ x \in work[p].new
  BY <1>3, <1>4, <1>6
<1>7. CASE o \in work[p].new /\ x \in Kept(p)
  BY <1>3, <1>4, <1>7
<1>8. CASE o \in Kept(p) /\ x \in Kept(p)
  <2>1. work[p].prev \in Available
    BY <1>1, <1>4, <1>8, LatestIsNewest DEF Chained, FollowsLatest
  <2> QED BY <1>4, <1>8, <2>1 DEF NoOverlapInAvailable
<1> QED BY <1>1, <1>5, <1>6, <1>7, <1>8 DEF AllObjects

(* As long as no quarantined attempt leaves rows under its revision, the    *)
(* hash and the listing of the AVAILABLE manifest are the same objects, and *)
(* no day of a shard is there twice.                                        *)
THEOREM AvailableIsSound ==
  ASSUME OnePublisher, Unforced, ReplacesCover, TablesApart
  PROVE  Spec /\ []NoLeftovers => []AvailableSound
<1>1. Init => AvailableSound
  BY DEF Init, AvailableSound, HashMatchesListing, NoOverlapInAvailable, Available, Absent
<1>2. ASSUME Typed, Chained /\ TakesTables, OneAvailable, NoLeftovers, AvailableSound, [Next]_vars
      PROVE  AvailableSound'
  <2>1. ASSUME UNCHANGED <<listing, manifest>> PROVE AvailableSound'
    BY <1>2, <2>1 DEF AvailableSound, HashMatchesListing, NoOverlapInAvailable, Available,
                      CanonicalHash, Canon, Span
  <2>2. ASSUME NEW p \in Publisher, Commit(p), Outcome(p) = "AVAILABLE" PROVE AvailableSound'
    <3>1. PICK n \in Revision : n = work[p].rev
      BY <1>2, <2>2, CommitEffect, NotReleasedYet
    <3>2. Available' = {n} /\ manifest'[n].hash = CanonicalHash(AllObjects(p))
      BY <1>2, <2>2, <3>1, CommitEffect
    <3>3. listing'[n] = AllObjects(p)
      BY <1>2, <2>2, <3>1, ReleaseLists
    <3>4. PICK S : S = AllObjects(p)
      OBVIOUS
    <3>5. HashMatchesListing'
      <4>1. manifest'[n].hash = CanonicalHash(S) /\ listing'[n] = S
        BY <3>2, <3>3, <3>4
      <4>2. manifest'[n].hash = {Canon(o) : o \in listing'[n]}
        BY <4>1 DEF CanonicalHash
      <4> QED BY <3>2, <4>2 DEF HashMatchesListing, CanonicalHash, Canon
    <3>6. NoOverlapInAvailable'
      <4>1. \A o, x \in S : o # x => o.slot[2] # x.slot[2] \/ Span(o) \cap Span(x) = {}
        BY <1>2, <2>2, <3>4, ReleaseApart DEF AvailableSound
      <4>2. \A o, x \in listing'[n] : o # x => o.slot[2] # x.slot[2] \/ Span(o) \cap Span(x) = {}
        BY <3>3, <3>4, <4>1
      <4> QED BY <3>2, <4>2 DEF NoOverlapInAvailable, Span
    <3> QED BY <3>5, <3>6 DEF AvailableSound
  <2>3. ASSUME NEW p \in Publisher, Commit(p), Outcome(p) # "AVAILABLE" PROVE AvailableSound'
    <3>1. Available' = Available
      BY <1>2, <2>3, CommitEffect
    <3>2. \A r \in Available : r \in Revision \ {work[p].rev}
      BY <1>2, <2>3, CommitEffect, NotReleasedYet DEF Available, Released
    <3>3. \A r \in Available : listing'[r] = listing[r] /\ manifest'[r].hash = manifest[r].hash
      BY <1>2, <2>3, <3>2, CommitEffect
    <3> QED BY <1>2, <3>1, <3>3 DEF AvailableSound, HashMatchesListing, NoOverlapInAvailable,
                                    CanonicalHash, Canon, Span
  <2> QED BY <1>2, <2>1, <2>2, <2>3, WhoReleases
<1> QED BY <1>1, <1>2, AlwaysTyped, AlwaysChained, AtMostOneAvailable, PTL DEF Spec

-----------------------------------------------------------------------------
(* Tables that never fail                                                   *)

(* The jobs' tables are sound, always the same bytes, and can be stored.    *)
SoundTables ==
  /\ ~Outages
  /\ \A j \in Job : ~j.failed /\ \A s \in DOMAIN j.groups : j.groups[s] \in Content
  /\ \A i, j \in Job : \A s \in DOMAIN i.groups \cap DOMAIN j.groups : i.groups[s] = j.groups[s]

Unfailing ==
  /\ \A o \in store : \E j \in Job : o.slot \in DOMAIN j.groups /\ o.content = j.groups[o.slot]
  /\ \A p \in Publisher : Busy(p) => ~work[p].error

(* No step of a publication of such tables meets an error.                  *)
LEMMA UnfailingKept ==
  ASSUME Typed, Chained, TakesTables, Unfailing, OnePublisher, Unforced, SoundTables, [Next]_vars
  PROVE  Unfailing'
<1>1. ASSUME NEW p \in Publisher, WriteObject(p)
      PROVE  /\ store' = store \/ \E s \in DOMAIN work[p].todo : store' = store \cup {ObjectOf(p, s)}
             /\ work'[p].error = work[p].error
  <2>1. Busy(p) /\ work[p].phase = "writing"
    BY <1>1 DEF WriteObject, Busy
  <2>2. PICK j \in Job : TakenFrom(p, j)
    BY <2>1 DEF TakesTables
  <2>3. PICK s \in DOMAIN work[p].todo :
          SkipBroken(p, s) \/ PutObject(p, s) \/ RefusePut(p, s) \/ FailPut(p, s)
    BY <1>1 DEF WriteObject
  <2>4. work[p].todo[s] = j.groups[s] /\ s \in DOMAIN j.groups /\ j.groups[s] \in Content
    BY <2>2, <2>3 DEF TakenFrom, SoundTables
  <2>5. ~KeyTaken(ObjectOf(p, s))
    <3>1. ASSUME NEW x \in store, x.slot = s PROVE x.content = j.groups[s]
      BY <2>4, <3>1 DEF Unfailing, SoundTables
    <3>2. PICK o : o = ObjectOf(p, s)
      OBVIOUS
    <3>3. o.slot = s /\ o.content = j.groups[s]
      BY <2>4, <3>2 DEF ObjectOf
    <3> QED BY <3>1, <3>2, <3>3 DEF KeyTaken
  <2>6. PutObject(p, s)
    BY <2>3, <2>4, <2>5, PublicationAssumption DEF SkipBroken, RefusePut, FailPut, SoundTables
  <2>7. store' = store \cup {ObjectOf(p, s)} /\ work' = Done(p, s, {ObjectOf(p, s)}, FALSE)
    BY <2>6 DEF PutObject
  <2>8. work'[p].error = work[p].error
    <3>1. work[p] \in Work /\ work \in [Publisher -> Work]
      BY DEF Typed, TypeOK
    <3>2. PICK t, n, e : t = Rest(work[p].todo, s) /\ n = work[p].new \cup {ObjectOf(p, s)}
                         /\ e = (work[p].error \/ FALSE)
      OBVIOUS
    <3>3. PICK w : w = [work[p] EXCEPT !.todo = t, !.new = n, !.error = e]
      OBVIOUS
    <3>4. work' = [work EXCEPT ![p] = w] /\ w.error = e
      BY <2>7, <3>1, <3>2, <3>3 DEF Done, Work
    <3>5. e = work[p].error
      BY <3>1, <3>2 DEF Work
    <3> QED BY <3>1, <3>4, <3>5
  <2> QED BY <2>7, <2>8
<1>2. \A o \in store' : \E j \in Job : o.slot \in DOMAIN j.groups /\ o.content = j.groups[o.slot]
  <2>1. CASE store' = store
    BY <2>1 DEF Unfailing
  <2>2. ASSUME NEW p \in Publisher, WriteObject(p), NEW s \in DOMAIN work[p].todo,
               store' = store \cup {ObjectOf(p, s)}
        PROVE  \A o \in store' : \E j \in Job : o.slot \in DOMAIN j.groups /\ o.content = j.groups[o.slot]
    <3>1. Busy(p)
      BY <2>2 DEF WriteObject, Busy
    <3>2. PICK j \in Job : TakenFrom(p, j)
      BY <3>1 DEF TakesTables
    <3>3. ObjectOf(p, s).slot = s /\ ObjectOf(p, s).content = j.groups[s] /\ s \in DOMAIN j.groups
      BY <3>2 DEF TakenFrom, ObjectOf
    <3> QED BY <2>2, <3>3 DEF Unfailing
  <2>3. (\E p \in Publisher : WriteObject(p)) \/ store' = store
    BY DEF Next, Publish, StartPublish, ReadPrevious, Commit, RollBack, GiveUp, AdvanceWatermark,
           Crash, Reconcile, OpenEngine, ReviewRights, vars
  <2> QED BY <1>1, <2>1, <2>2, <2>3
<1>3. ASSUME NEW p \in Publisher, Busy(p)' PROVE ~work'[p].error
  <2>1. ASSUME NEW j \in Job, StartPublish(p, j) PROVE ~work'[p].error
    <3>1. work \in [Publisher -> Work]
      BY DEF Typed, TypeOK
    <3>2. work'[p].error = j.failed
      BY <2>1, <3>1 DEF StartPublish, Idle
    <3> QED BY <3>2 DEF SoundTables
  <2>2. CASE WriteObject(p)
    BY <1>1, <2>2 DEF Unfailing, WriteObject, Busy
  <2>3. CASE ReadPrevious(p)
    BY <2>3, ReadEffect DEF Unfailing, Busy
  <2>4. CASE Commit(p)
    BY <1>3, <2>4, CommitEffect DEF Busy
  <2>5. CASE UNCHANGED work
    BY <1>3, <2>5 DEF Unfailing, Busy
  <2> QED BY <1>3, <2>1, <2>2, <2>3, <2>4, <2>5, OnlyOneSteps
<1> QED BY <1>2, <1>3 DEF Unfailing

(* Tables that never fail leave nothing under a revision they do not        *)
(* release, whatever crashes.                                               *)
THEOREM SoundTablesLeaveNothing ==
  ASSUME OnePublisher, Unforced, SoundTables
  PROVE  Spec => []NoLeftovers
<1>1. Init => Unfailing /\ NoLeftovers
  <2> SUFFICES ASSUME Init PROVE Unfailing /\ NoLeftovers
    OBVIOUS
  <2>1. store = {} /\ \A p \in Publisher : work[p].phase = "idle"
    BY DEF Init, Idle
  <2> QED BY <2>1 DEF Init, Unfailing, NoLeftovers, Busy
<1>2. ASSUME Typed, Chained /\ TakesTables, Unfailing /\ NoLeftovers, [Next]_vars
      PROVE  (Unfailing /\ NoLeftovers)'
  <2>1. Unfailing'
    BY <1>2, UnfailingKept
  <2>2. CASE UNCHANGED <<listing, manifest>>
    BY <1>2, <2>1, <2>2 DEF NoLeftovers
  <2>3. ASSUME NEW p \in Publisher, Commit(p) PROVE NoLeftovers'
    <3> SUFFICES ASSUME NEW r \in Revision, manifest'[r].status = "QUARANTINED"
                 PROVE  listing'[r] = {}
      BY DEF NoLeftovers
    <3>1. CASE r # work[p].rev
      BY <1>2, <2>3, <3>1, CommitEffect DEF NoLeftovers
    <3>2. CASE r = work[p].rev
      <4>1. Outcome(p) = "QUARANTINED" /\ Busy(p)
        BY <1>2, <2>3, <3>2, CommitEffect
      <4>2. AllObjects(p) = {}
        BY <1>2, <4>1 DEF Outcome, Unfailing
      <4> QED BY <1>2, <2>3, <3>2, <4>2, ReleaseLists
    <3> QED BY <3>1, <3>2
  <2> QED BY <1>2, <2>1, <2>2, <2>3, WhoReleases
<1>3. Unfailing /\ NoLeftovers => NoLeftovers
  OBVIOUS
<1> QED BY <1>1, <1>2, <1>3, AlwaysTyped, AlwaysChained, PTL DEF Spec

(* What readers rely on, for tables that never fail.                        *)
COROLLARY SoundTablesSound ==
  ASSUME OnePublisher, Unforced, ReplacesCover, TablesApart, SoundTables
  PROVE  Spec => []AvailableSound
BY AvailableIsSound, SoundTablesLeaveNothing, PTL

-----------------------------------------------------------------------------
(* Publication implements the chain of frozen snapshots                     *)

(* The objects a publication keeps are those its jobs does not make         *)
(* obsolete.                                                                *)
LEMMA KeepsTheRest ==
  ASSUME Typed, Chained, NEW p \in Publisher, Commit(p), NEW j \in Job, work[p].replaces = j.replaces
  PROVE  CanonicalHash(work[p].retained) =
           (IF LatestAvailable = 0 THEN {} ELSE CanonicalHash(listing[LatestAvailable])) \ Obsolete(j)
<1>1. Busy(p) /\ work[p].phase = "publishing"
  BY DEF Commit, Busy
<1>2. work[p].retained = Kept(p) /\ work[p].prev = LatestAvailable
  BY <1>1 DEF Chained, FollowsLatest
<1>3. LatestAvailable # 0 => listing[LatestAvailable] \subseteq Object
  BY LatestAvailableType DEF Typed, TypeOK
<1>4. \A o \in Object : /\ Canon(o) \in Canonical
                        /\ Canon(o) \in Obsolete(j) <=> Overlaps(o, work[p].replaces)
  BY DEF Obsolete, Overlaps, Span, Canon, Canonical, Object
<1>5. CASE LatestAvailable = 0
  BY <1>2, <1>5 DEF Kept, CanonicalHash
<1>6. CASE LatestAvailable # 0
  <2>1. work[p].retained = {o \in listing[LatestAvailable] : ~Overlaps(o, work[p].replaces)}
    BY <1>2, <1>6 DEF Kept
  <2> QED BY <1>3, <1>4, <1>6, <2>1 DEF CanonicalHash
<1> QED BY <1>5, <1>6

(* Every step is a release of the abstract dataset, or changes nothing of   *)
(* it.                                                                      *)
LEMMA StepReleases ==
  ASSUME Typed, Chained, TakesTables, NoLeftovers, [Next]_vars
  PROVE  [Dataset!Next]_(Dataset!vars)
<1> DEFINE snapshot == [r \in {q \in Revision : Released(q)} |-> CanonicalHash(listing[r])]
<1>1. ASSUME UNCHANGED <<listing, manifest>> PROVE UNCHANGED Dataset!vars
  BY <1>1 DEF Dataset!vars, Released, LatestAvailable, Available, CanonicalHash, Canon
<1>2. ASSUME NEW p \in Publisher, Commit(p), Outcome(p) # "AVAILABLE" PROVE UNCHANGED Dataset!vars
  <2>1. LatestAvailable' = LatestAvailable
    BY <1>2, CommitEffect
  <2>2. \A r \in Revision : Released(r)' <=> Released(r)
    <3>0. PICK n \in Revision : n = work[p].rev
      BY <1>2, CommitEffect, NotReleasedYet
    <3>1. ~Released(n) /\ ~Released(n)'
      BY <1>2, <3>0, CommitEffect, NotReleasedYet DEF Released, Outcome
    <3>2. \A r \in Revision \ {n} : Released(r)' <=> Released(r)
      BY <1>2, <3>0, CommitEffect DEF Released
    <3> QED BY <3>1, <3>2
  <2>3. \A r \in Revision : Released(r) => CanonicalHash(listing[r])' = CanonicalHash(listing[r])
    <3>1. \A r \in Revision : Released(r) => listing'[r] = listing[r]
      BY <1>2, CommitEffect, NotReleasedYet
    <3> QED BY <3>1 DEF CanonicalHash, Canon
  <2>4. snapshot' = snapshot
    BY <2>2, <2>3
  <2> QED BY <2>1, <2>4 DEF Dataset!vars
<1>3. ASSUME NEW p \in Publisher, Commit(p), Outcome(p) = "AVAILABLE" PROVE Dataset!Next
  <2>1. PICK n \in Revision : n = work[p].rev
    BY <1>3, CommitEffect, NotReleasedYet
  <2>2. n = LatestAvailable + 1 /\ ~Released(n) /\ LatestAvailable' = n
    BY <1>3, <2>1, CommitEffect, NotReleasedYet
  <2>3. PICK j \in Job : work[p].replaces = j.replaces /\ CanonicalHash(work[p].new) = Brings(j)
    BY <1>3, BringsAllTables
  <2>4. PICK old : old = IF LatestAvailable = 0 THEN {} ELSE CanonicalHash(listing[LatestAvailable])
    OBVIOUS
  <2>5. CanonicalHash(listing'[n]) = (old \ Obsolete(j)) \cup Brings(j)
    <3>1. listing'[n] = work[p].retained \cup work[p].new
      BY <1>3, <2>1, ReleaseLists DEF AllObjects
    <3>2. CanonicalHash(work[p].retained) = old \ Obsolete(j)
      BY <1>3, <2>3, <2>4, KeepsTheRest
    <3> QED BY <2>3, <3>1, <3>2 DEF CanonicalHash
  <2>6. \A r \in Revision \ {n} : /\ listing'[r] = listing[r]
                                  /\ Released(r)' <=> Released(r)
    BY <1>3, <2>1, CommitEffect DEF Released
  <2>7. Released(n)'
    BY <1>3, <2>1, CommitEffect DEF Released
  <2>8. LatestAvailable # 0 => LatestAvailable \in DOMAIN snapshot
    BY LatestIsNewest DEF Available, Released
  <2>9. Dataset!Current = old
    BY <2>4, <2>8 DEF Dataset!Current
  <2>10. PICK b : b = [items |-> Brings(j), obsolete |-> Obsolete(j)]
    OBVIOUS
  <2>11. snapshot' = [q \in DOMAIN snapshot \cup {n} |->
                        IF q = n THEN (old \ b.obsolete) \cup b.items ELSE snapshot[q]]
    <3>1. {q \in Revision : Released(q)'} = {q \in Revision : Released(q)} \cup {n}
      BY <2>6, <2>7
    <3>2. \A q \in {r \in Revision : Released(r)} :
            q # n /\ CanonicalHash(listing'[q]) = CanonicalHash(listing[q])
      BY <2>2, <2>6
    <3>3. snapshot' = [r \in {q \in Revision : Released(q)'} |-> CanonicalHash(listing'[r])]
      BY DEF CanonicalHash, Canon
    <3> QED BY <2>5, <2>10, <3>1, <3>2, <3>3
  <2>12. n > LatestAvailable /\ n \notin DOMAIN snapshot
    BY <2>2, LatestAvailableType DEF Revision
  <2>13. Dataset!Release(n, b)
    BY <2>2, <2>9, <2>11, <2>12 DEF Dataset!Release
  <2> QED BY <2>3, <2>10, <2>13 DEF Dataset!Next
<1> QED BY <1>1, <1>2, <1>3, WhoReleases

(* For any number of days, shards, partitions and revisions, the            *)
(* publications of one worker implement the chain of frozen snapshots, as   *)
(* long as no quarantined attempt leaves rows under its revision.           *)
THEOREM PublicationReleases ==
  ASSUME OnePublisher, Unforced
  PROVE  Spec /\ []NoLeftovers => ReleasesSnapshots
<1>1. Init => Dataset!Init
  <2> SUFFICES ASSUME Init PROVE Dataset!Init
    OBVIOUS
  <2>1. \A r \in Revision : ~Released(r) /\ r \notin Available
    BY DEF Init, Released, Available, Absent
  <2>2. LatestAvailable = 0
    BY <2>1 DEF LatestAvailable, Available
  <2> QED BY <2>1, <2>2 DEF Dataset!Init
<1>2. Typed /\ (Chained /\ TakesTables) /\ NoLeftovers /\ [Next]_vars => [Dataset!Next]_(Dataset!vars)
  BY StepReleases
<1> QED BY <1>1, <1>2, AlwaysTyped, AlwaysChained, PTL DEF Spec, ReleasesSnapshots, Dataset!Spec

(* The same for tables that never fail.                                     *)
COROLLARY SoundTablesRelease ==
  ASSUME OnePublisher, Unforced, SoundTables
  PROVE  Spec => ReleasesSnapshots
BY PublicationReleases, SoundTablesLeaveNothing, PTL
=============================================================================
