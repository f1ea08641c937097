----------------------- MODULE CorporateActionsProofs -----------------------
(***************************************************************************)
(* Proofs about CorporateActions for any instruments, events, research      *)
(* slots and windows, terms, raw and adjusted revisions, deliveries,        *)
(* workers, researchers and faults.  Nothing of the code keeps two          *)
(* transactions about decisions apart: what holds only while none overlap   *)
(* has that as its hypothesis, on the behaviour and not on the constants.   *)
(***************************************************************************)
EXTENDS CorporateActions, FiniteSetTheorems, WellFoundedInduction, TLAPS

-----------------------------------------------------------------------------
(* The types                                                                *)

RowRecord == [state   : ReviewState \cup {"ABSENT"},
              terms   : Terms \cup {0},
              history : SUBSET Entry]
Rows == UNION {[D -> RowRecord] : D \in SUBSET CandidateId}
OpenTransaction ==
  [phase   : {"read", "checked", "decided", "rebuilt", "refused", "refusing"},
   of      : Approval,
   rows    : Rows,
   current : AdjustedManifest \cup {NoManifestYet},
   content : Content \cup {NoContent}]
Finding == Event \X Terms
Research == [slot : Slot \cup {0}, begun : BOOLEAN, found : Seq(Finding), done : Nat,
             into : CandidateId \cup {NoCandidate}]

Open(w) == approval[w].phase # "idle"

ProviderTyped ==
  /\ provider \in [Event -> Terms]
  /\ \A e \in Event : provider[e] \in 1 .. MaxTerms[e]
ResearchTyped ==
  /\ due \in Slot \cup {0}
  /\ slotRun \in [Slot -> {"ABSENT", "RUNNING", "SUCCEEDED", "FAILED"}]
  /\ researcher \in [Researcher -> Research]
  /\ \A r \in Researcher :
       /\ researcher[r].done <= Len(researcher[r].found)
       /\ ~researcher[r].begun => /\ researcher[r].done = 0 /\ researcher[r].into = NoCandidate
                                  /\ Len(researcher[r].found) = 0
       /\ researcher[r].into # NoCandidate =>
            Pending(r) /\ researcher[r].into[1] = NextFinding(r)[1]
RowsTyped ==
  /\ candidate \in [CandidateId -> RowRecord]
  /\ \A c \in CandidateId :
       IF candidate[c].state = "ABSENT" THEN candidate[c] = NoRow ELSE candidate[c].terms \in Terms
SentTyped ==
  /\ sent \subseteq Approval /\ IsFiniteSet(sent)
  /\ \A a \in sent : /\ a.supersedes # a.candidate
                     /\ a.decision = "WITHDRAW" => a.supersedes = NoCandidate
                     /\ \A c \in Changed(a) : c \in CandidateId /\ candidate[c].state # "ABSENT"
AdjustedTyped ==
  /\ adjusted \subseteq AdjustedManifest
  /\ approval \in [Worker -> OpenTransaction \cup {NoApproval}]
  /\ \A w \in Worker : approval[w].phase = "rebuilt" =>
       approval[w].content \in Content /\ approval[w].current.revision + 1 \in 1 .. MaxRevision
ReviewTyped ==
  /\ ProviderTyped /\ ResearchTyped /\ RowsTyped /\ SentTyped /\ AdjustedTyped
  /\ raw \in [Instrument \X ActionYear -> 0 .. MaxRaw]
  /\ reviewFaults \in 0 .. MaxFaults

-----------------------------------------------------------------------------
(* Numbers, sets and sequences                                              *)

(* A finite set of numbers that is not empty has a greatest one.            *)
LEMMA GreatestThere ==
  ASSUME NEW S \in SUBSET Int, IsFiniteSet(S), S # {}
  PROVE  \E n \in S : \A m \in S : n >= m
<1> DEFINE bad == {U \in SUBSET S : U # {} /\ ~\E n \in U : \A m \in U : n >= m}
<1> DEFINE sizes == {Cardinality(U) : U \in bad}
<1> DEFINE R == OpToRel(<, Nat)
<1>1. \A U \in SUBSET S : IsFiniteSet(U) /\ Cardinality(U) \in Nat
  BY FS_Subset, FS_CardinalityType
<1>2. ASSUME bad # {} PROVE FALSE
  <2>1. sizes # {} /\ sizes \subseteq Nat
    BY <1>1, <1>2
  <2>2. \E k \in sizes : \A j \in sizes : ~(<<j, k>> \in R)
    <3>1. IsWellFoundedOn(R, Nat)
      BY NatLessThanWellFounded
    <3> HIDE DEF R, sizes
    <3> QED BY <2>1, <3>1, WFMin
  <2>3. PICK U \in bad : \A j \in sizes : ~(j < Cardinality(U))
    BY <1>1, <2>1, <2>2 DEF OpToRel
  <2>4. PICK x \in U : x \in Int
    OBVIOUS
  <2> DEFINE V == U \ {x}
  <2>5. V \in SUBSET S /\ Cardinality(V) = Cardinality(U) - 1
    BY <1>1, FS_RemoveElement
  <2>6. Cardinality(V) < Cardinality(U)
    BY <1>1, <2>5
  <2>7. V \notin bad
    BY <2>3, <2>6
  <2>8. CASE V = {}
    <3>1. \A m \in U : x >= m
      BY <2>4, <2>8
    <3> QED BY <3>1
  <2>9. CASE V # {}
    <3>1. PICK y \in V : \A m \in V : y >= m
      BY <2>5, <2>7, <2>9
    <3>2. y \in Int
      BY <2>5
    <3>3. CASE x >= y
      <4>1. \A m \in U : x >= m
        <5>1. \A m \in V : m \in Int
          BY <2>5
        <5> QED BY <2>4, <3>1, <3>2, <3>3, <5>1
      <4> QED BY <4>1
    <3>4. CASE y >= x
      BY <3>1, <3>4
    <3> QED BY <2>4, <3>2, <3>3, <3>4
  <2> QED BY <2>8, <2>9
<1> QED BY <1>2

(* Max of such a set is its greatest number.                                *)
LEMMA MaxOfFinite ==
  ASSUME NEW S \in SUBSET Int, IsFiniteSet(S), S # {}
  PROVE  Max(S) \in S /\ \A m \in S : Max(S) >= m
BY GreatestThere DEF Max

(* Every number of terms an event may have is one of the terms.             *)
LEMMA TermsCover ==
  ASSUME NEW e \in Event
  PROVE  1 .. MaxTerms[e] \subseteq Terms /\ 1 \in 1 .. MaxTerms[e] /\ MaxTerms[e] \in Nat
<1> DEFINE S == {MaxTerms[x] : x \in Event}
<1> DEFINE f == [x \in Event |-> MaxTerms[x]]
<1>1. f \in Surjection(Event, S)
  BY DEF Surjection
<1>2. IsFiniteSet(S)
  <2> HIDE DEF f, S
  <2> QED BY <1>1, FS_Surjection, CorporateActionsAssumption
<1>3. S \in SUBSET Int /\ S # {} /\ MaxTerms[e] \in S /\ MaxTerms[e] \in Nat \ {0}
  BY CorporateActionsAssumption
<1> HIDE DEF S
<1>4. Max(S) \in Int /\ Max(S) >= MaxTerms[e]
  BY <1>2, <1>3, MaxOfFinite
<1>5. Terms = 1 .. Max(S)
  BY DEF Terms, S
<1> QED BY <1>3, <1>4, <1>5

(* A finite set can be put in a sequence.                                   *)
LEMMA SetToSeqGood ==
  ASSUME NEW S, IsFiniteSet(S)
  PROVE  SetToSeq(S) \in Seq(S)
<1>1. Cardinality(S) \in Nat /\ ExistsBijection(1 .. Cardinality(S), S)
  BY FS_CardinalityType
<1>2. PICK f \in Bijection(1 .. Cardinality(S), S) : TRUE
  BY <1>1 DEF ExistsBijection
<1>3. f \in [1 .. Cardinality(S) -> S] /\ IsInjective(f)
  BY <1>2 DEF Bijection, Injection, IsInjective
<1>4. SetToSeq(S) \in [1 .. Cardinality(S) -> S]
  BY <1>3 DEF SetToSeq
<1> QED BY <1>1, <1>4

(* The bounds are numbers.                                                  *)
LEMMA BoundsAreNumbers ==
  MaxRaw \in Nat /\ MaxRevision \in Nat /\ MaxSent \in Nat /\ MaxFaults \in Nat
BY CorporateActionsAssumption

(* No candidate is the absence of one.                                      *)
LEMMA NoCandidateIsNone == NoCandidate \notin CandidateId
BY BoundsAreNumbers DEF NoCandidate, CandidateId, RawRevision

-----------------------------------------------------------------------------
(* What the operators of a transaction return                               *)

(* What a transaction has read and will write are rows that are there.      *)
Holds(phase, a, rows) ==
  /\ phase \in {"read", "refusing"} => DOMAIN rows = {a.candidate}
  /\ phase \in {"checked", "decided", "rebuilt"} => DOMAIN rows = Changed(a)
  /\ DOMAIN rows \subseteq Changed(a)
  /\ \A c \in DOMAIN rows : rows[c].state # "ABSENT" /\ rows[c].terms \in Terms
TransactionOpen(w) ==
  /\ approval[w].of \in sent
  /\ Holds(approval[w].phase, approval[w].of, approval[w].rows)
Transactions == \A w \in Worker : Open(w) => TransactionOpen(w)

(* A decided row keeps its terms and records the delivery.                  *)
LEMMA DecidedRow ==
  ASSUME NEW row \in RowRecord, NEW a \in Approval, NEW state \in ReviewState
  PROVE  /\ Decided(row, a, state) \in RowRecord
         /\ Decided(row, a, state).state = state
         /\ Decided(row, a, state).terms = row.terms
<1>1. [delivery |-> a.id, sequence |-> a.sequence, refused |-> FALSE] \in Entry
  BY DEF Approval, Entry
<1>2. PICK H \in SUBSET Entry :
        H = row.history \cup {[delivery |-> a.id, sequence |-> a.sequence, refused |-> FALSE]}
  BY <1>1 DEF RowRecord
<1>3. Decided(row, a, state) = [row EXCEPT !.state = state, !.history = H]
  BY <1>2 DEF Decided
<1> QED BY <1>2, <1>3 DEF RowRecord

(* A decision writes the rows that were read.                               *)
LEMMA TransitionRows ==
  ASSUME NEW a \in Approval, NEW D \in SUBSET CandidateId, NEW rows \in [D -> RowRecord]
  PROVE  /\ Transition(a, rows) \in [D -> RowRecord]
         /\ \A c \in D : /\ Transition(a, rows)[c].terms = rows[c].terms
                         /\ Transition(a, rows)[c].state = Target(a, c)
                         /\ Target(a, c) # "ABSENT"
<1>1. \A c : Target(a, c) \in ReviewState /\ Target(a, c) # "ABSENT"
  BY DEF ReviewState, Target
<1>2. Transition(a, rows) = [c \in D |-> Decided(rows[c], a, Target(a, c))]
  BY DEF Transition
<1>3. \A c \in D : /\ Decided(rows[c], a, Target(a, c)) \in RowRecord
                   /\ Decided(rows[c], a, Target(a, c)).state = Target(a, c)
                   /\ Decided(rows[c], a, Target(a, c)).terms = rows[c].terms
  BY <1>1, DecidedRow
<1> QED BY <1>1, <1>2, <1>3

(* An open transaction is a record, and its rows are those of its delivery. *)
LEMMA OpenIsTransaction ==
  ASSUME AdjustedTyped, NEW w \in Worker, Open(w)
  PROVE  approval[w] \in OpenTransaction
BY DEF AdjustedTyped, Open, NoApproval

(* What an open transaction holds, said of its parts.                       *)
LEMMA HeldParts ==
  ASSUME ReviewTyped, Transactions, NEW w \in Worker, Open(w)
  PROVE  \E a \in sent, D \in SUBSET CandidateId, rows \in Rows :
           /\ a = approval[w].of /\ rows = approval[w].rows /\ rows \in [D -> RowRecord]
           /\ a \in Approval /\ Changed(a) \subseteq CandidateId /\ D = DOMAIN rows
           /\ Holds(approval[w].phase, a, rows)
<1>1. PICK t \in OpenTransaction : t = approval[w]
  BY OpenIsTransaction DEF ReviewTyped
<1>2. PICK a \in sent : a = t.of /\ Holds(t.phase, a, t.rows)
  BY <1>1 DEF Transactions, TransactionOpen
<1>3. a \in Approval /\ Changed(a) \subseteq CandidateId
  BY DEF ReviewTyped, SentTyped
<1>4. t.rows \in Rows
  BY DEF OpenTransaction
<1>5. PICK D \in SUBSET CandidateId : t.rows \in [D -> RowRecord]
  BY <1>4 DEF Rows
<1>6. PICK rows \in Rows : rows = t.rows
  BY <1>4
<1>7. rows \in [D -> RowRecord] /\ D = DOMAIN rows
  BY <1>5, <1>6
<1>8. a = approval[w].of /\ rows = approval[w].rows /\ Holds(approval[w].phase, a, rows)
  BY <1>1, <1>2, <1>6
<1> QED BY <1>3, <1>7, <1>8

(* A transaction sees its own rows and the committed ones.                  *)
LEMMA SeenRows ==
  ASSUME ReviewTyped, Transactions, NEW w \in Worker, Open(w)
  PROVE  /\ RowsSeen(w) \in [CandidateId -> RowRecord]
         /\ \A c \in CandidateId :
              IF c \in DOMAIN approval[w].rows
              THEN /\ RowsSeen(w)[c] = approval[w].rows[c]
                   /\ RowsSeen(w)[c].state # "ABSENT" /\ RowsSeen(w)[c].terms \in Terms
              ELSE RowsSeen(w)[c] = candidate[c]
         /\ \A c \in CandidateId : RowsSeen(w)[c].state # "ABSENT" => RowsSeen(w)[c].terms \in Terms
<1>1. PICK a \in sent, D \in SUBSET CandidateId, rows \in Rows :
        /\ rows \in [D -> RowRecord]
        /\ a = approval[w].of /\ rows = approval[w].rows /\ D = DOMAIN rows
        /\ Holds(approval[w].phase, a, rows)
  BY HeldParts
<1>2. \A c \in D : rows[c] \in RowRecord /\ rows[c].state # "ABSENT" /\ rows[c].terms \in Terms
  BY <1>1 DEF Holds
<1>3. \A c \in CandidateId :
        /\ candidate[c] \in RowRecord
        /\ candidate[c].state # "ABSENT" => candidate[c].terms \in Terms
  BY DEF ReviewTyped, RowsTyped
<1>4. RowsSeen(w) = [c \in CandidateId |-> IF c \in D THEN rows[c] ELSE candidate[c]]
  BY <1>1 DEF RowsSeen
<1> QED BY <1>1, <1>2, <1>3, <1>4

(* The rebuild is a content.                                                *)
LEMMA RebuiltTyped ==
  ASSUME ReviewTyped, Transactions, NEW w \in Worker, Open(w)
  PROVE  /\ Rebuilt(w) \in Content
         /\ approval[w].of.candidate \in CandidateId
         /\ YearOf[approval[w].of.candidate[1]] \in ActionYear
<1>1. approval[w].of \in Approval
  BY OpenIsTransaction DEF ReviewTyped, OpenTransaction
<1>2. PICK c \in CandidateId : c = approval[w].of.candidate
  BY <1>1 DEF Approval
<1>3. c[1] \in Event /\ c[2] \in RawRevision
  BY DEF CandidateId
<1>4. InstrumentOf[c[1]] \in Instrument /\ YearOf[c[1]] \in ActionYear
  BY <1>3, CorporateActionsAssumption DEF ActionYear
<1> DEFINE applied == {Effect(RowsSeen(w), o) :
                         o \in {x \in ApprovedActions(w) : Reaches(x, YearOf[c[1]])}}
<1>5. applied \subseteq {Subject[e] : e \in Event} \X Terms
  <2>1. \A o \in ApprovedActions(w) :
          o \in CandidateId /\ o[1] \in Event /\ RowsSeen(w)[o].terms \in Terms
    BY SeenRows DEF ApprovedActions, CandidateId
  <2> QED BY <2>1 DEF Effect
<1>6. Rebuilt(w) = [instrument |-> InstrumentOf[c[1]], year |-> YearOf[c[1]], raw |-> c[2],
                    applied |-> applied]
  BY <1>2 DEF Rebuilt
<1> HIDE DEF applied
<1> QED BY <1>2, <1>3, <1>4, <1>5, <1>6 DEF Content

(* The current manifest of a year is the newest AVAILABLE one.              *)
LEMMA CurrentNewest ==
  ASSUME adjusted \subseteq AdjustedManifest, NEW year
  PROVE  LET available == {m \in adjusted : m.year = year /\ m.status = "AVAILABLE"}
         IN /\ available = {} => Current(year) = NoManifestYet
            /\ available # {} => /\ Current(year) \in available
                                 /\ \A o \in available : o.revision <= Current(year).revision
            /\ Current(year) \in AdjustedManifest \cup {NoManifestYet}
            /\ Current(year).revision \in Nat
<1> DEFINE available == {m \in adjusted : m.year = year /\ m.status = "AVAILABLE"}
<1>1. CASE available = {}
  BY <1>1 DEF Current, NoManifestYet
<1>2. CASE available # {}
  <2> DEFINE revisions == {m.revision : m \in available}
  <2>1. revisions \subseteq 1 .. MaxRevision /\ revisions # {}
    BY <1>2 DEF AdjustedManifest
  <2>2. IsFiniteSet(1 .. MaxRevision)
    BY BoundsAreNumbers, FS_Interval
  <2>3. revisions \in SUBSET Int /\ IsFiniteSet(revisions)
    <3>1. PICK I : I = 1 .. MaxRevision
      OBVIOUS
    <3>2. revisions \in SUBSET I /\ IsFiniteSet(I)
      BY <2>1, <2>2, <3>1
    <3> HIDE DEF revisions
    <3>3. IsFiniteSet(revisions)
      BY <3>2, FS_Subset
    <3> QED BY <2>1, <3>3
  <2>4. PICK n \in revisions : \A k \in revisions : n >= k
    <3> HIDE DEF revisions
    <3> QED BY <2>1, <2>3, GreatestThere
  <2>5. PICK m \in available : m.revision = n
    OBVIOUS
  <2>6. \A o \in available : o.revision <= m.revision
    BY <2>4, <2>5
  <2>7. Current(year) = CHOOSE x \in available : \A o \in available : o.revision <= x.revision
    BY <1>2 DEF Current
  <2>8. Current(year) \in available /\ \A o \in available : o.revision <= Current(year).revision
    <3> HIDE DEF available
    <3> QED BY <2>6, <2>7
  <2>9. Current(year) \in AdjustedManifest /\ Current(year).revision \in Nat
    BY <2>8 DEF AdjustedManifest
  <2> QED BY <1>2, <2>8, <2>9
<1> QED BY <1>1, <1>2

(* What a rebuild publishes are manifests.                                  *)
LEMMA PublishedTyped ==
  ASSUME ReviewTyped, NEW w \in Worker, approval[w].phase = "rebuilt"
  PROVE  Published(w) \subseteq AdjustedManifest /\ NewManifest(w) \in AdjustedManifest
<1>1. approval[w] \in OpenTransaction /\ approval[w].content \in Content
      /\ approval[w].current.revision + 1 \in 1 .. MaxRevision
  BY OpenIsTransaction DEF ReviewTyped, AdjustedTyped, Open
<1>2. NewManifest(w) \in AdjustedManifest
  <2>1. PICK con \in Content, r \in 1 .. MaxRevision :
          con = approval[w].content /\ r = approval[w].current.revision + 1
    BY <1>1
  <2>2. con.instrument \in Instrument /\ con.year \in ActionYear
    BY DEF Content
  <2> QED BY <2>1, <2>2 DEF NewManifest, AdjustedManifest
<1>3. approval[w].current # NoManifestYet =>
        [approval[w].current EXCEPT !.status = "SUPERSEDED"] \in AdjustedManifest
  <2>1. \A m \in AdjustedManifest : [m EXCEPT !.status = "SUPERSEDED"] \in AdjustedManifest
    BY DEF AdjustedManifest
  <2>2. approval[w].current \in AdjustedManifest \cup {NoManifestYet}
    BY <1>1 DEF OpenTransaction
  <2> QED BY <2>1, <2>2
<1>4. adjusted \subseteq AdjustedManifest
  BY DEF ReviewTyped, AdjustedTyped
<1> QED BY <1>2, <1>3, <1>4 DEF Published

-----------------------------------------------------------------------------
(* What a step does to the rows of the candidates                           *)

(* The next finding is one of the findings.                                 *)
LEMMA NextIsFinding ==
  ASSUME ResearchTyped, NEW r \in Researcher, Pending(r)
  PROVE  /\ researcher[r].done + 1 \in 1 .. Len(researcher[r].found)
         /\ NextFinding(r) \in Finding
<1>1. PICK e \in Research : e = researcher[r]
  BY DEF ResearchTyped
<1>2. e.found \in Seq(Finding) /\ e.done \in Nat /\ e.done < Len(e.found)
  BY <1>1 DEF Research, Pending
<1>3. e.done + 1 \in 1 .. Len(e.found)
  BY <1>2
<1> QED BY <1>1, <1>2, <1>3 DEF NextFinding

(* A finding that can be attributed has a candidate.                        *)
LEMMA SourceIsCandidate ==
  ASSUME raw \in [Instrument \X ActionYear -> 0 .. MaxRaw], NEW f \in Finding, ~Unattributed(f)
  PROVE  Into(f) \in CandidateId /\ Source(f[1]) \in RawRevision /\ Into(f)[1] = f[1]
<1>1. f[1] \in Event
  BY DEF Finding
<1>2. <<InstrumentOf[f[1]], YearOf[f[1]]>> \in Instrument \X ActionYear
  BY <1>1, CorporateActionsAssumption DEF ActionYear
<1>3. Source(f[1]) \in 0 .. MaxRaw /\ Source(f[1]) # 0
  BY <1>2 DEF Source, Unattributed
<1> QED BY <1>1, <1>3, BoundsAreNumbers DEF CandidateId, RawRevision, Into

(* Research writes the row of the finding at hand, and no other.            *)
LEMMA PersistRows ==
  ASSUME ReviewTyped, NEW r \in Researcher, Persist(r)
  PROVE  \E c \in CandidateId, row \in RowRecord :
           /\ c = researcher[r].into /\ candidate' = [candidate EXCEPT ![c] = row]
           /\ row.state = "REVIEW_REQUIRED" /\ row.terms = NextFinding(r)[2]
           /\ row.terms \in Terms /\ c[1] = NextFinding(r)[1] /\ Pending(r)
<1>1. PICK e \in Research : e = researcher[r]
  BY DEF ReviewTyped, ResearchTyped
<1>2. PICK c \in CandidateId : c = researcher[r].into
  BY <1>1 DEF Persist, Research
<1>3. Pending(r) /\ c[1] = NextFinding(r)[1]
  BY <1>2 DEF Persist, ReviewTyped, ResearchTyped
<1>4. PICK f \in Finding : f = NextFinding(r)
  BY <1>3, NextIsFinding DEF ReviewTyped
<1>5. f[2] \in Terms
  BY DEF Finding
<1>6. PICK row \in RowRecord : row = Researched(f)
  BY <1>5 DEF Researched, RowRecord, ReviewState
<1>7. row.state = "REVIEW_REQUIRED" /\ row.terms = f[2]
  BY <1>6 DEF Researched
<1>8. candidate' = [candidate EXCEPT ![c] = row]
  BY <1>2, <1>4, <1>6 DEF Persist
<1> QED BY <1>2, <1>3, <1>4, <1>5, <1>7, <1>8

(* A refusal writes back the row that was read, with the refusal added.     *)
LEMMA RefusalRows ==
  ASSUME ReviewTyped, Transactions, NEW w \in Worker, RecordRefusal(w)
  PROVE  \E c \in CandidateId, row \in RowRecord :
           /\ c = approval[w].of.candidate /\ c \in DOMAIN approval[w].rows
           /\ candidate' = [candidate EXCEPT ![c] = row]
           /\ row.state = approval[w].rows[c].state /\ row.terms = approval[w].rows[c].terms
           /\ row.state # "ABSENT" /\ row.terms \in Terms
<1>1. approval[w].phase = "refusing" /\ Open(w)
  BY DEF RecordRefusal, Open
<1>2. PICK a \in sent, D \in SUBSET CandidateId, rows \in Rows :
        /\ rows \in [D -> RowRecord]
        /\ a = approval[w].of /\ rows = approval[w].rows /\ D = DOMAIN rows
        /\ a \in Approval /\ Holds(approval[w].phase, a, rows)
  BY <1>1, HeldParts
<1>3. PICK c \in D : c = a.candidate
  BY <1>1, <1>2 DEF Holds
<1>4. rows[c].state # "ABSENT" /\ rows[c].terms \in Terms /\ rows[c] \in RowRecord
  BY <1>2 DEF Holds
<1>5. Refusal(a) \in Entry
  BY <1>2 DEF Approval, Entry, Refusal
<1>6. PICK H \in SUBSET Entry : H = rows[c].history \cup {Refusal(a)}
  BY <1>4, <1>5 DEF RowRecord
<1>7. PICK row : row = [rows[c] EXCEPT !.history = H]
  OBVIOUS
<1>8. row \in RowRecord /\ row.state = rows[c].state /\ row.terms = rows[c].terms
  BY <1>4, <1>7 DEF RowRecord
<1>9. candidate' = [candidate EXCEPT ![c] = row]
  BY <1>2, <1>3, <1>6, <1>7 DEF RecordRefusal
<1> QED BY <1>2, <1>3, <1>4, <1>8, <1>9

(* A step of anything else leaves the candidates.                           *)
LEMMA WhoWritesRows ==
  ASSUME [ReviewNext]_reviewVars
  PROVE  \/ \E r \in Researcher : Persist(r)
         \/ \E w \in Worker : RecordRefusal(w)
         \/ \E w \in Worker : Commit(w)
         \/ UNCHANGED candidate
BY DEF ReviewNext, ResearchNext, ApprovalNext, reviewVars, Amend, PublishRaw, SlotDue, StartSlot,
       BeginSlot, Look, SlotSucceeds, SlotFails, DiscoveryFails, ResearchDies, EndSlot, Decide,
       Read, Unverified, ReadSubject, Write, ReadRefused, RefusalKnown, Enter, Rebuild,
       Fails, WorkerDies, RolledBack

(* A row that is there stays there.                                         *)
LEMMA RowsStay ==
  ASSUME ReviewTyped, Transactions, [ReviewNext]_reviewVars
  PROVE  /\ RowsTyped'
         /\ \A c \in CandidateId : candidate[c].state # "ABSENT" => candidate'[c].state # "ABSENT"
<1>1. RowsTyped
  BY DEF ReviewTyped
<1>2. ASSUME NEW c \in CandidateId, NEW row \in RowRecord,
             candidate' = [candidate EXCEPT ![c] = row],
             row.state # "ABSENT", row.terms \in Terms
      PROVE  /\ RowsTyped'
             /\ \A x \in CandidateId : candidate[x].state # "ABSENT" => candidate'[x].state # "ABSENT"
  BY <1>1, <1>2 DEF RowsTyped
<1>3. ASSUME NEW r \in Researcher, Persist(r)
      PROVE  /\ RowsTyped'
             /\ \A x \in CandidateId : candidate[x].state # "ABSENT" => candidate'[x].state # "ABSENT"
  <2>1. PICK c \in CandidateId, row \in RowRecord :
          /\ candidate' = [candidate EXCEPT ![c] = row]
          /\ row.state # "ABSENT" /\ row.terms \in Terms
    BY <1>3, PersistRows
  <2> QED BY <1>2, <2>1
<1>4. ASSUME NEW w \in Worker, RecordRefusal(w)
      PROVE  /\ RowsTyped'
             /\ \A x \in CandidateId : candidate[x].state # "ABSENT" => candidate'[x].state # "ABSENT"
  <2>1. PICK c \in CandidateId, row \in RowRecord :
          /\ candidate' = [candidate EXCEPT ![c] = row]
          /\ row.state # "ABSENT" /\ row.terms \in Terms
    BY <1>4, RefusalRows
  <2> QED BY <1>2, <2>1
<1>5. ASSUME NEW w \in Worker, Commit(w)
      PROVE  /\ RowsTyped'
             /\ \A x \in CandidateId : candidate[x].state # "ABSENT" => candidate'[x].state # "ABSENT"
  <2>1. Open(w) /\ candidate' = RowsSeen(w)
    BY <1>5 DEF Commit, Open
  <2> QED BY <1>1, <2>1, SeenRows DEF RowsTyped
<1>6. CASE UNCHANGED candidate
  BY <1>1, <1>6 DEF RowsTyped
<1> QED BY <1>3, <1>4, <1>5, <1>6, WhoWritesRows

-----------------------------------------------------------------------------
(* The types are kept                                                       *)

(* The provider's terms.                                                    *)
LEMMA ProviderKept ==
  ASSUME ReviewTyped, [ReviewNext]_reviewVars
  PROVE  ProviderTyped'
<1>1. ProviderTyped
  BY DEF ReviewTyped
<1>2. ASSUME NEW e \in Event, Amend(e) PROVE ProviderTyped'
  <2>1. provider[e] + 1 \in 1 .. MaxTerms[e] /\ provider[e] + 1 \in Terms
    BY <1>1, <1>2, TermsCover DEF ProviderTyped, Amend
  <2> QED BY <1>1, <1>2, <2>1 DEF ProviderTyped, Amend
<1>3. CASE UNCHANGED provider
  BY <1>1, <1>3 DEF ProviderTyped
<1> QED BY <1>2, <1>3 DEF ReviewNext, ResearchNext, ApprovalNext, reviewVars,
       PublishRaw, SlotDue, StartSlot, BeginSlot, Look, Persist, SlotSucceeds, SlotFails,
       DiscoveryFails, ResearchDies, EndSlot, Decide, Read, Unverified, ReadSubject, Write,
       ReadRefused, RecordRefusal, RefusalKnown, Enter, Rebuild, Commit, Fails, WorkerDies,
       RolledBack

(* The raw revisions and the count of faults.                               *)
LEMMA RawKept ==
  ASSUME ReviewTyped, [ReviewNext]_reviewVars
  PROVE  raw' \in [Instrument \X ActionYear -> 0 .. MaxRaw] /\ reviewFaults' \in 0 .. MaxFaults
<1>1. raw \in [Instrument \X ActionYear -> 0 .. MaxRaw] /\ reviewFaults \in 0 .. MaxFaults
  BY DEF ReviewTyped
<1>2. ASSUME NEW i \in Instrument, NEW y \in ActionYear, PublishRaw(i, y)
      PROVE  raw' \in [Instrument \X ActionYear -> 0 .. MaxRaw]
  BY <1>1, <1>2, BoundsAreNumbers DEF PublishRaw
<1>3. raw' = raw \/ \E i \in Instrument, y \in ActionYear : PublishRaw(i, y)
  BY DEF ReviewNext, ResearchNext, ApprovalNext, reviewVars,
       Amend, SlotDue, StartSlot, BeginSlot, Look, Persist, SlotSucceeds, SlotFails,
       DiscoveryFails, ResearchDies, EndSlot, Decide, Read, Unverified, ReadSubject, Write,
       ReadRefused, RecordRefusal, RefusalKnown, Enter, Rebuild, Commit, Fails, WorkerDies,
       RolledBack
<1>4. reviewFaults' = reviewFaults
      \/ (reviewFaults < MaxFaults /\ reviewFaults' = reviewFaults + 1)
  BY DEF ReviewNext, ResearchNext, ApprovalNext, reviewVars,
       Amend, PublishRaw, SlotDue, StartSlot, BeginSlot, Look, Persist, SlotSucceeds, SlotFails,
       DiscoveryFails, ResearchDies, EndSlot, Decide, Read, Unverified, ReadSubject, Write,
       ReadRefused, RecordRefusal, RefusalKnown, Enter, Rebuild, Commit, Fails, WorkerDies,
       RolledBack
<1>5. reviewFaults' \in 0 .. MaxFaults
  BY <1>1, <1>4, BoundsAreNumbers
<1> QED BY <1>1, <1>2, <1>3, <1>5

(* What a slot discovers are findings.                                       *)
LEMMA FoundTyped ==
  ASSUME ProviderTyped, NEW s \in Slot
  PROVE  Found(s) \in Seq(Finding)
<1> DEFINE S == {<<e, provider[e]>> : e \in InWindow[s]}
<1> DEFINE f == [e \in InWindow[s] |-> <<e, provider[e]>>]
<1>1. InWindow[s] \in SUBSET Event /\ IsFiniteSet(Event)
  BY CorporateActionsAssumption
<1>2. IsFiniteSet(InWindow[s])
  BY <1>1, FS_Subset
<1>3. f \in Surjection(InWindow[s], S)
  BY DEF Surjection
<1>4. S \subseteq Finding
  BY <1>1 DEF ProviderTyped, Finding
<1> HIDE DEF f
<1>5. PICK T : T = S
  OBVIOUS
<1>6. IsFiniteSet(T)
  <2> HIDE DEF S
  <2> QED BY <1>2, <1>3, <1>5, FS_Surjection
<1>7. SetToSeq(T) \in Seq(T)
  BY <1>6, SetToSeqGood
<1>8. SetToSeq(T) \in Seq(Finding)
  BY <1>4, <1>5, <1>7
<1> QED BY <1>5, <1>8 DEF Found

(* No research is a research with nothing found.                            *)
LEMMA NoResearchTyped == NoResearch \in Research /\ Len(NoResearch.found) = 0
                         /\ NoResearch.done = 0 /\ NoResearch.into = NoCandidate
<1>1. <<>> \in Seq(Finding)
  OBVIOUS
<1> QED BY <1>1 DEF NoResearch, Research

(* What a researcher may be in: a finding it is to write is its next one.   *)
InHand(e) ==
  /\ e \in Research
  /\ e.done <= Len(e.found)
  /\ ~e.begun => e.done = 0 /\ e.into = NoCandidate /\ Len(e.found) = 0
  /\ e.into # NoCandidate => e.done < Len(e.found) /\ e.into[1] = e.found[e.done + 1][1]

(* The research is typed when each researcher is.                           *)
LEMMA ResearchersTyped ==
  ASSUME researcher \in [Researcher -> Research]
  PROVE  ((\A r \in Researcher : InHand(researcher[r]))
            <=> \A r \in Researcher :
                  /\ researcher[r].done <= Len(researcher[r].found)
                  /\ ~researcher[r].begun =>
                       /\ researcher[r].done = 0 /\ researcher[r].into = NoCandidate
                       /\ Len(researcher[r].found) = 0
                  /\ researcher[r].into # NoCandidate =>
                       Pending(r) /\ researcher[r].into[1] = NextFinding(r)[1])
BY DEF InHand, Pending, NextFinding

(* A researcher that is to write nothing, and one that is.                  *)
LEMMA HandIs ==
  ASSUME NEW e \in Research, e.done <= Len(e.found),
         e.begun \/ (e.done = 0 /\ e.into = NoCandidate /\ Len(e.found) = 0),
         \/ e.into = NoCandidate
         \/ e.done < Len(e.found) /\ e.into[1] = e.found[e.done + 1][1]
  PROVE  InHand(e)
BY DEF InHand

(* What each step of a researcher makes of it.                              *)
LEMMA ResearcherSteps ==
  ASSUME ReviewTyped, NEW r \in Researcher, ResearchNext(r)
  PROVE  \E e \in Research : InHand(e) /\ researcher' = [researcher EXCEPT ![r] = e]
<1>1. researcher \in [Researcher -> Research] /\ InHand(researcher[r])
  BY ResearchersTyped DEF ReviewTyped, ResearchTyped
<1>2. PICK old \in Research : old = researcher[r] /\ InHand(old)
  BY <1>1
<1>3. old.found \in Seq(Finding) /\ old.done \in Nat /\ Len(old.found) \in Nat
  BY DEF Research
<1>9. Pending(r) => old.begun
  <2> QED BY <1>2, <1>3 DEF InHand, Pending
<1>4. ASSUME NEW s \in Slot, StartSlot(r, s)
      PROVE  \E e \in Research : InHand(e) /\ researcher' = [researcher EXCEPT ![r] = e]
  <2>1. PICK e : e = [NoResearch EXCEPT !.slot = s]
    OBVIOUS
  <2>2. e \in Research /\ Len(e.found) = 0 /\ e.done = 0 /\ e.into = NoCandidate
    BY <2>1, NoResearchTyped DEF Research
  <2>3. researcher' = [researcher EXCEPT ![r] = e]
    BY <1>1, <1>4, <2>1 DEF StartSlot
  <2>4. InHand(e)
    BY <2>2, HandIs
  <2> QED BY <2>2, <2>3, <2>4
<1>5. CASE BeginSlot(r)
  <2>1. old.slot \in Slot
    BY <1>2, <1>5 DEF BeginSlot, Research
  <2>2. Found(old.slot) \in Seq(Finding)
    BY <2>1, FoundTyped DEF ReviewTyped
  <2>3. PICK F \in Seq(Finding) : F = Found(old.slot)
    BY <2>2
  <2>4. PICK e : e = [old EXCEPT !.begun = TRUE, !.found = F]
    OBVIOUS
  <2>5. ~old.begun /\ old.done = 0 /\ old.into = NoCandidate
    BY <1>2, <1>5 DEF BeginSlot, InHand
  <2>6. researcher' = [researcher EXCEPT ![r] = e]
    BY <1>1, <1>2, <1>5, <2>3, <2>4 DEF BeginSlot
  <2>7. e \in Research /\ e.done = 0 /\ e.found = F /\ e.into = NoCandidate /\ e.begun
    BY <2>4, <2>5 DEF Research
  <2>8. Len(F) \in Nat
    OBVIOUS
  <2>9. InHand(e)
    BY <2>7, <2>8, HandIs
  <2> QED BY <2>6, <2>7, <2>9
<1>6. CASE Look(r)
  <2>1. Pending(r) /\ old.done + 1 \in 1 .. Len(old.found) /\ old.into = NoCandidate
    BY <1>2, <1>6, NextIsFinding DEF Look, ReviewTyped
  <2>2. CASE Known(NextFinding(r))
    <3>1. PICK e : e = [old EXCEPT !.done = old.done + 1]
      OBVIOUS
    <3>2. /\ e \in Research /\ e.done = old.done + 1 /\ e.found = old.found
          /\ e.into = NoCandidate /\ e.begun
      BY <1>3, <1>9, <2>1, <3>1 DEF Research
    <3>3. researcher' = [researcher EXCEPT ![r] = e]
      BY <1>1, <1>2, <1>6, <2>2, <3>1 DEF Look
    <3>4. InHand(e)
      BY <1>3, <2>1, <3>2, HandIs
    <3> QED BY <3>2, <3>3, <3>4
  <2>3. CASE ~Known(NextFinding(r))
    <3>1. PICK f \in Finding : f = NextFinding(r) /\ ~Unattributed(f)
      BY <1>6, <2>1, NextIsFinding DEF Look, ReviewTyped
    <3>2. PICK c \in CandidateId : c = Into(f) /\ c[1] = f[1]
      BY <3>1, SourceIsCandidate DEF ReviewTyped
    <3>3. PICK e : e = [old EXCEPT !.into = c]
      OBVIOUS
    <3>4. e \in Research /\ e.done = old.done /\ e.found = old.found /\ e.into = c /\ e.begun
      BY <1>9, <2>1, <3>3 DEF Research
    <3>5. researcher' = [researcher EXCEPT ![r] = e]
      BY <1>1, <1>2, <1>6, <2>3, <3>1, <3>2, <3>3 DEF Look
    <3>6. f = old.found[old.done + 1]
      BY <1>2, <3>1 DEF NextFinding
    <3>7. InHand(e)
      BY <1>3, <2>1, <3>2, <3>4, <3>6, HandIs
    <3> QED BY <3>4, <3>5, <3>7
  <2> QED BY <2>2, <2>3
<1>7. CASE Persist(r)
  <2>1. old.done + 1 \in 1 .. Len(old.found)
    BY <1>2, <1>3, <1>7 DEF Persist, InHand
  <2>6. PICK none \in CandidateId \cup {NoCandidate} : none = NoCandidate
    OBVIOUS
  <2>2. PICK e : e = [old EXCEPT !.done = old.done + 1, !.into = none]
    OBVIOUS
  <2>7. old.begun
    BY <1>2, <1>7 DEF Persist, InHand
  <2>8. e \in Research /\ e.done = old.done + 1 /\ e.found = old.found /\ e.into = none
        /\ e.begun
    <3>1. PICK n \in Nat : n = old.done + 1
      BY <1>3
    <3>2. PICK d \in Research : d = [old EXCEPT !.done = n]
      BY DEF Research
    <3>3. d.done = n /\ d.found = old.found /\ d.begun = old.begun
      BY <3>2 DEF Research
    <3>4. e = [d EXCEPT !.into = none]
      BY <2>2, <3>1, <3>2 DEF Research
    <3>5. e \in Research /\ e.done = d.done /\ e.found = d.found /\ e.into = none
      BY <3>4 DEF Research
    <3>6. e.begun = d.begun
      BY <3>4 DEF Research
    <3> QED BY <2>7, <3>1, <3>3, <3>5, <3>6
  <2>3. e \in Research /\ e.done = old.done + 1 /\ e.found = old.found /\ e.into = NoCandidate
        /\ e.begun
    BY <2>6, <2>8
  <2>4. researcher' = [researcher EXCEPT ![r] = e]
    BY <1>1, <1>2, <1>7, <2>2, <2>6 DEF Persist
  <2>5. InHand(e)
    BY <1>3, <2>1, <2>3, HandIs
  <2> QED BY <2>3, <2>4, <2>5
<1>8. CASE researcher' = [researcher EXCEPT ![r] = NoResearch]
  <2>1. NoResearch \in Research
    BY NoResearchTyped
  <2>2. InHand(NoResearch)
    BY NoResearchTyped, HandIs
  <2> QED BY <1>8, <2>1, <2>2
<1> QED BY <1>4, <1>5, <1>6, <1>7, <1>8 DEF ResearchNext, SlotSucceeds, SlotFails, DiscoveryFails,
       ResearchDies, EndSlot

(* A step of anything else leaves the research.                             *)
LEMMA WhoResearches ==
  ASSUME [ReviewNext]_reviewVars
  PROVE  (\E r \in Researcher : ResearchNext(r)) \/ UNCHANGED <<researcher, slotRun>>
BY DEF ReviewNext, ApprovalNext, reviewVars,
       Amend, PublishRaw, SlotDue, Decide, Read, Unverified, ReadSubject, Write, ReadRefused,
       RecordRefusal, RefusalKnown, Enter, Rebuild, Commit, Fails, WorkerDies, RolledBack

(* The rows of the slots.                                                   *)
LEMMA SlotsKept ==
  ASSUME ReviewTyped, [ReviewNext]_reviewVars
  PROVE  /\ due' \in Slot \cup {0}
         /\ slotRun' \in [Slot -> {"ABSENT", "RUNNING", "SUCCEEDED", "FAILED"}]
<1>1. /\ due \in Slot \cup {0}
      /\ slotRun \in [Slot -> {"ABSENT", "RUNNING", "SUCCEEDED", "FAILED"}]
  BY DEF ReviewTyped, ResearchTyped
<1>2. due' = due \/ SlotDue
  BY DEF ReviewNext, ResearchNext, ApprovalNext, reviewVars,
       Amend, PublishRaw, StartSlot, BeginSlot, Look, Persist, SlotSucceeds, SlotFails,
       DiscoveryFails, ResearchDies, EndSlot, Decide, Read, Unverified, ReadSubject, Write,
       ReadRefused, RecordRefusal, RefusalKnown, Enter, Rebuild, Commit, Fails, WorkerDies,
       RolledBack
<1>3. ASSUME NEW r \in Researcher, ResearchNext(r)
      PROVE  slotRun' = slotRun
             \/ \E st \in {"RUNNING", "SUCCEEDED", "FAILED"} :
                  slotRun' = [slotRun EXCEPT ![researcher[r].slot] = st]
  BY <1>3 DEF ResearchNext, StartSlot, BeginSlot, Look, Persist, SlotSucceeds, SlotFails,
              DiscoveryFails, ResearchDies, EndSlot
<1> QED BY <1>1, <1>2, <1>3, WhoResearches DEF SlotDue

(* The research.                                                            *)
LEMMA ResearchKept ==
  ASSUME ReviewTyped, [ReviewNext]_reviewVars
  PROVE  ResearchTyped'
<1>1. researcher \in [Researcher -> Research] /\ \A r \in Researcher : InHand(researcher[r])
  BY ResearchersTyped DEF ReviewTyped, ResearchTyped
<1>2. researcher' \in [Researcher -> Research] /\ \A r \in Researcher : InHand(researcher'[r])
  <2>1. CASE UNCHANGED researcher
    BY <1>1, <2>1
  <2>2. ASSUME NEW r \in Researcher, ResearchNext(r)
        PROVE  researcher' \in [Researcher -> Research]
               /\ \A q \in Researcher : InHand(researcher'[q])
    BY <1>1, <2>2, ResearcherSteps
  <2> QED BY <2>1, <2>2, WhoResearches
<1>3. \A r \in Researcher :
        /\ researcher'[r].done <= Len(researcher'[r].found)
        /\ ~researcher'[r].begun => /\ researcher'[r].done = 0 /\ researcher'[r].into = NoCandidate
                                    /\ Len(researcher'[r].found) = 0
        /\ researcher'[r].into # NoCandidate =>
             Pending(r)' /\ researcher'[r].into[1] = NextFinding(r)'[1]
  BY <1>2 DEF InHand, Pending, NextFinding
<1> QED BY <1>2, <1>3, SlotsKept DEF ResearchTyped

(* The deliveries: about rows that are there, and with numbers of their own.*)
LEMMA SentKept ==
  ASSUME ReviewTyped, Transactions, [ReviewNext]_reviewVars
  PROVE  SentTyped'
<1>1. SentTyped /\ RowsTyped
  BY DEF ReviewTyped
<1>2. \A c \in CandidateId : candidate[c].state # "ABSENT" => candidate'[c].state # "ABSENT"
  BY RowsStay
<1>3. CASE UNCHANGED sent
  BY <1>1, <1>2, <1>3 DEF SentTyped, Changed, Superseded
<1>4. ASSUME NEW c \in CandidateId, NEW d \in {"APPROVE", "WITHDRAW"},
             NEW s \in CandidateId \cup {NoCandidate}, Decide(c, d, s)
      PROVE  SentTyped'
  <2> DEFINE a == [id |-> Cardinality(sent) + 1, sequence |-> Sequence(c), candidate |-> c,
                   decision |-> d, terms |-> candidate[c].terms, supersedes |-> s]
  <2>1. Cardinality(sent) \in Nat /\ Cardinality(sent) + 1 \in 1 .. MaxSent
    BY <1>1, <1>4, FS_CardinalityType, BoundsAreNumbers DEF SentTyped, Decide
  <2>2. Sequence(c) \in 1 .. MaxSent
    <3> DEFINE S == {x \in sent : x.candidate = c}
    <3>1. IsFiniteSet(S) /\ Cardinality(S) <= Cardinality(sent) /\ Cardinality(S) \in Nat
      <4>1. S \in SUBSET sent
        OBVIOUS
      <4> HIDE DEF S
      <4> QED BY <1>1, <4>1, FS_Subset, FS_CardinalityType DEF SentTyped
    <3>2. Sequence(c) = Cardinality(S) + 1
      BY DEF Sequence
    <3> HIDE DEF S
    <3> QED BY <2>1, <3>1, <3>2, BoundsAreNumbers
  <2>3. candidate[c].terms \in Terms /\ candidate[c].state # "ABSENT"
    BY <1>1, <1>4 DEF RowsTyped, Decide
  <2>4. a \in Approval
    BY <2>1, <2>2, <2>3 DEF Approval
  <2>5. /\ d = "WITHDRAW" => s = NoCandidate
        /\ s # NoCandidate => s # c /\ Backend(s) # {}
        /\ sent' = sent \cup {a} /\ candidate' = candidate
    BY <1>4 DEF Decide
  <2>6. s # c
    BY <2>5, NoCandidateIsNone
  <2>7. s # NoCandidate => candidate[s].state # "ABSENT"
    <3>1. \A x \in sent : x.candidate \in CandidateId /\ candidate[x.candidate].state # "ABSENT"
      BY <1>1 DEF SentTyped, Changed, Superseded
    <3> QED BY <2>5, <3>1 DEF Backend
  <2>8. \A z \in Changed(a) : z \in CandidateId /\ candidate[z].state # "ABSENT"
    BY <2>3, <2>5, <2>7 DEF Changed, Superseded
  <2>9. a.supersedes # a.candidate /\ (a.decision = "WITHDRAW" => a.supersedes = NoCandidate)
    BY <2>5, <2>6
  <2>10. IsFiniteSet(sent')
    <3>1. IsFiniteSet(sent)
      BY <1>1 DEF SentTyped
    <3> HIDE DEF a
    <3> QED BY <2>5, <3>1, FS_AddElement
  <2> HIDE DEF a
  <2> QED BY <1>1, <2>4, <2>5, <2>8, <2>9, <2>10 DEF SentTyped, Changed, Superseded
<1> QED BY <1>3, <1>4 DEF ReviewNext, ResearchNext, ApprovalNext, reviewVars,
       Amend, PublishRaw, SlotDue, StartSlot, BeginSlot, Look, Persist, SlotSucceeds, SlotFails,
       DiscoveryFails, ResearchDies, EndSlot, Read, Unverified, ReadSubject, Write, ReadRefused,
       RecordRefusal, RefusalKnown, Enter, Rebuild, Commit, Fails, WorkerDies, RolledBack

-----------------------------------------------------------------------------
(* What a transaction enters                                                *)

(* The steps that enter a phase before the rebuild.                         *)
Entering(w) ==
  \/ \E a \in sent : Read(w, a) \/ Unverified(w, a)
  \/ ReadSubject(w) \/ Write(w) \/ ReadRefused(w)

(* Who begins, moves on or ends a transaction.                              *)
LEMMA WhoMovesTransactions ==
  ASSUME [ReviewNext]_reviewVars
  PROVE  \/ \E w \in Worker : Entering(w)
         \/ \E w \in Worker : Rebuild(w)
         \/ \E w \in Worker : Commit(w)
         \/ \E w \in Worker : RecordRefusal(w)
         \/ \E w \in Worker : RolledBack(w)
         \/ UNCHANGED <<adjusted, approval>>
BY DEF Entering, ReviewNext, ResearchNext, ApprovalNext, reviewVars,
       Amend, PublishRaw, SlotDue, StartSlot, BeginSlot, Look, Persist, SlotSucceeds, SlotFails,
       DiscoveryFails, ResearchDies, EndSlot, Decide, RefusalKnown, Fails, WorkerDies

(* Rows that are read are rows of candidates that are there.                *)
LEMMA ReadRows ==
  ASSUME ReviewTyped, NEW D \in SUBSET CandidateId, \A c \in D : candidate[c].state # "ABSENT"
  PROVE  /\ RowsRead(D) \in [D -> RowRecord]
         /\ \A c \in D : /\ RowsRead(D)[c] = candidate[c]
                         /\ RowsRead(D)[c].state # "ABSENT" /\ RowsRead(D)[c].terms \in Terms
BY DEF ReviewTyped, RowsTyped, RowsRead

(* The candidates of a delivery are there.                                  *)
LEMMA DeliveredRows ==
  ASSUME ReviewTyped, NEW a \in sent
  PROVE  /\ a \in Approval /\ a.candidate \in CandidateId /\ a.candidate \in Changed(a)
         /\ Changed(a) \in SUBSET CandidateId
         /\ \A c \in Changed(a) : candidate[c].state # "ABSENT"
         /\ a.supersedes # a.candidate /\ (a.decision = "WITHDRAW" => a.supersedes = NoCandidate)
<1>1. a \in Approval /\ Changed(a) \subseteq CandidateId
      /\ \A c \in Changed(a) : candidate[c].state # "ABSENT"
  BY DEF ReviewTyped, SentTyped
<1>2. a.candidate \in Changed(a)
  BY DEF Changed
<1> QED BY <1>1, <1>2 DEF ReviewTyped, SentTyped

(* What is entered holds rows that are there.                               *)
LEMMA EnteredHolds ==
  ASSUME ReviewTyped, Transactions, NEW w \in Worker, Entering(w)
  PROVE  \E phase \in {"read", "checked", "decided", "refused", "refusing"}, a \in sent,
            D \in SUBSET CandidateId : \E rows \in [D -> RowRecord] :
              Enter(w, a, phase, rows) /\ Holds(phase, a, rows)
<1> DEFINE Goal(phase, a, rows) == Enter(w, a, phase, rows) /\ Holds(phase, a, rows)
<1>1. ASSUME NEW a \in sent, Enter(w, a, "refused", RowsRead({}))
      PROVE  RowsRead({}) \in [{} -> RowRecord] /\ Goal("refused", a, RowsRead({}))
  <2>1. RowsRead({}) \in [{} -> RowRecord] /\ DOMAIN RowsRead({}) = {}
    BY DEF RowsRead
  <2> QED BY <1>1, <2>1 DEF Holds
<1>2. ASSUME NEW a \in sent, NEW phase \in {"read", "refusing"},
             Enter(w, a, phase, RowsRead({a.candidate}))
      PROVE  /\ RowsRead({a.candidate}) \in [{a.candidate} -> RowRecord]
             /\ {a.candidate} \in SUBSET CandidateId
             /\ Goal(phase, a, RowsRead({a.candidate}))
  <2>1. /\ {a.candidate} \in SUBSET CandidateId /\ {a.candidate} \subseteq Changed(a)
        /\ \A c \in {a.candidate} : candidate[c].state # "ABSENT"
    BY DeliveredRows
  <2>2. PICK R : R = RowsRead({a.candidate})
    OBVIOUS
  <2>3. /\ R \in [{a.candidate} -> RowRecord]
        /\ \A c \in {a.candidate} : R[c].state # "ABSENT" /\ R[c].terms \in Terms
    BY <2>1, <2>2, ReadRows
  <2>4. Holds(phase, a, R)
    BY <2>1, <2>3 DEF Holds
  <2> QED BY <1>2, <2>1, <2>2, <2>3, <2>4
<1>3. ASSUME NEW a \in sent, Read(w, a) \/ Unverified(w, a)
      PROVE  Enter(w, a, "refused", RowsRead({})) \/ Enter(w, a, "read", RowsRead({a.candidate}))
  BY <1>3 DEF Read, Unverified
<1>4. CASE ReadRefused(w)
  <2>1. Open(w)
    BY <1>4 DEF ReadRefused, Open
  <2>2. PICK a \in sent : a = approval[w].of
    BY <2>1 DEF Transactions, TransactionOpen
  <2>3. Enter(w, a, "refusing", RowsRead({a.candidate}))
    BY <1>4, <2>2 DEF ReadRefused
  <2> HIDE DEF Goal
  <2> QED BY <1>2, <2>3 DEF Goal
<1>5. CASE ReadSubject(w)
  <2>1. Open(w) /\ approval[w].phase = "read"
    BY <1>5 DEF ReadSubject, Open
  <2>2. PICK a \in sent, D \in SUBSET CandidateId, rows \in Rows :
          /\ rows \in [D -> RowRecord]
          /\ a = approval[w].of /\ rows = approval[w].rows /\ D = DOMAIN rows
          /\ Holds(approval[w].phase, a, rows)
    BY <2>1, HeldParts
  <2>3. D = {a.candidate} /\ rows[a.candidate] \in RowRecord
        /\ rows[a.candidate].state # "ABSENT" /\ rows[a.candidate].terms \in Terms
    BY <2>1, <2>2 DEF Holds
  <2>4. PICK C \in SUBSET CandidateId : C = Changed(a)
    BY DeliveredRows
  <2>5. PICK R : R = [c \in C |-> IF c = a.candidate THEN rows[a.candidate] ELSE candidate[c]]
    OBVIOUS
  <2>6. \A c \in C : candidate[c] \in RowRecord /\ candidate[c].state # "ABSENT"
                    /\ candidate[c].terms \in Terms
    BY <2>4, DeliveredRows DEF ReviewTyped, RowsTyped
  <2>7. /\ R \in [C -> RowRecord]
        /\ \A c \in C : R[c].state # "ABSENT" /\ R[c].terms \in Terms
    BY <2>3, <2>5, <2>6
  <2>8. Holds("checked", a, R)
    BY <2>4, <2>7 DEF Holds
  <2>9. Enter(w, a, "refused", RowsRead({})) \/ Enter(w, a, "checked", R)
    <3>1. R = [c \in Changed(a) |-> IF c = a.candidate THEN approval[w].rows[c] ELSE candidate[c]]
      BY <2>2, <2>4, <2>5
    <3> QED BY <1>5, <2>2, <3>1 DEF ReadSubject
  <2> HIDE DEF Goal
  <2>10. Enter(w, a, "checked", R) => Goal("checked", a, R)
    BY <2>8 DEF Goal
  <2> QED BY <1>1, <2>7, <2>9, <2>10 DEF Goal
<1>6. CASE Write(w)
  <2>1. Open(w) /\ approval[w].phase = "checked"
    BY <1>6 DEF Write, Open
  <2>2. PICK a \in sent, D \in SUBSET CandidateId, rows \in Rows :
          /\ rows \in [D -> RowRecord]
          /\ a = approval[w].of /\ rows = approval[w].rows /\ D = DOMAIN rows /\ a \in Approval
          /\ Holds(approval[w].phase, a, rows)
    BY <2>1, HeldParts
  <2>3. D = Changed(a) /\ \A c \in D : rows[c].terms \in Terms
    BY <2>1, <2>2 DEF Holds
  <2>4. PICK R : R = Transition(a, rows)
    OBVIOUS
  <2>5. /\ R \in [D -> RowRecord]
        /\ \A c \in D : R[c].terms = rows[c].terms /\ R[c].state # "ABSENT"
    BY <2>2, <2>4, TransitionRows
  <2>6. Holds("decided", a, R)
    BY <2>3, <2>5 DEF Holds
  <2>7. Enter(w, a, "decided", R)
    BY <1>6, <2>2, <2>4 DEF Write
  <2> QED BY <2>5, <2>6, <2>7
<1> HIDE DEF Goal
<1>7. ASSUME NEW a \in sent, Read(w, a) \/ Unverified(w, a)
      PROVE  \E phase \in {"read", "checked", "decided", "refused", "refusing"},
                D \in SUBSET CandidateId : \E rows \in [D -> RowRecord] : Goal(phase, a, rows)
  <2>1. CASE Enter(w, a, "refused", RowsRead({}))
    <3>1. RowsRead({}) \in [{} -> RowRecord] /\ Goal("refused", a, RowsRead({}))
      BY <1>1, <2>1
    <3> QED BY <3>1
  <2>2. CASE Enter(w, a, "read", RowsRead({a.candidate}))
    <3>1. /\ RowsRead({a.candidate}) \in [{a.candidate} -> RowRecord]
          /\ {a.candidate} \in SUBSET CandidateId /\ Goal("read", a, RowsRead({a.candidate}))
      BY <1>2, <2>2
    <3> QED BY <3>1
  <2> QED BY <1>3, <1>7, <2>1, <2>2
<1> QED BY <1>4, <1>5, <1>6, <1>7 DEF Entering, Goal

(* The transactions and the manifests.                                      *)
LEMMA AdjustedKept ==
  ASSUME ReviewTyped, Transactions, [ReviewNext]_reviewVars
  PROVE  AdjustedTyped'
<1> DEFINE Tx == OpenTransaction \cup {NoApproval}
<1> DEFINE Ready(t) == t.phase = "rebuilt" =>
                         t.content \in Content /\ t.current.revision + 1 \in 1 .. MaxRevision
<1>1. /\ adjusted \subseteq AdjustedManifest /\ approval \in [Worker -> Tx]
      /\ \A w \in Worker : Ready(approval[w])
  BY DEF ReviewTyped, AdjustedTyped
<1>2. ASSUME NEW w \in Worker, NEW t \in Tx, Ready(t), approval' = [approval EXCEPT ![w] = t],
             adjusted' \subseteq AdjustedManifest
      PROVE  AdjustedTyped'
  <2>1. approval' \in [Worker -> Tx]
    BY <1>1, <1>2
  <2>2. \A v \in Worker : Ready(approval'[v])
    BY <1>1, <1>2
  <2> QED BY <1>2, <2>1, <2>2 DEF AdjustedTyped
<1>3. NoApproval \in Tx /\ Ready(NoApproval)
  BY DEF NoApproval
<1>4. ASSUME NEW w \in Worker, Entering(w) PROVE AdjustedTyped'
  <2>5. PICK phase \in {"read", "checked", "decided", "refused", "refusing"}, a \in sent,
             D \in SUBSET CandidateId : \E R \in [D -> RowRecord] : Enter(w, a, phase, R)
    BY <1>4, EnteredHolds
  <2>6. PICK R \in [D -> RowRecord] : Enter(w, a, phase, R)
    BY <2>5
  <2>7. R \in Rows
    BY DEF Rows
  <2>1. PICK rows \in Rows : Enter(w, a, phase, rows)
    BY <2>6, <2>7
  <2>2. a \in Approval
    BY DeliveredRows
  <2>3. PICK t \in OpenTransaction :
          /\ t = [phase |-> phase, of |-> a, rows |-> rows, current |-> NoManifestYet,
                  content |-> NoContent]
          /\ Ready(t)
    <3>1. PICK u : u = [phase |-> phase, of |-> a, rows |-> rows, current |-> NoManifestYet,
                        content |-> NoContent]
      OBVIOUS
    <3>2. u \in OpenTransaction
      BY <2>2, <3>1 DEF OpenTransaction
    <3>3. Ready(u)
      BY <3>1
    <3> HIDE DEF Ready
    <3> QED BY <3>1, <3>2, <3>3
  <2>4. approval' = [approval EXCEPT ![w] = t] /\ adjusted' = adjusted
    BY <2>1, <2>3 DEF Enter
  <2> HIDE DEF Ready
  <2> QED BY <1>1, <1>2, <2>3, <2>4
<1>5. ASSUME NEW w \in Worker, Rebuild(w) PROVE AdjustedTyped'
  <2>1. Open(w)
    BY <1>5 DEF Rebuild, Open
  <2>2. PICK t \in OpenTransaction : t = approval[w]
    BY <2>1, OpenIsTransaction DEF ReviewTyped
  <2>3. PICK con \in Content : con = Rebuilt(w)
    BY <2>1, RebuiltTyped
  <2>4. PICK cur \in AdjustedManifest \cup {NoManifestYet} :
          cur = Current(WriteKey(w)[1]) /\ cur.revision \in Nat
    BY <1>1, CurrentNewest
  <2>5. cur.revision + 1 <= MaxRevision
    BY <1>5, <2>4 DEF Rebuild, WriteKey
  <2>6. PICK u : u = [t EXCEPT !.phase = "rebuilt", !.content = con, !.current = cur]
    OBVIOUS
  <2>7. u \in OpenTransaction /\ u.content = con /\ u.current = cur
    BY <2>6 DEF OpenTransaction
  <2>8. approval' = [approval EXCEPT ![w].phase = "rebuilt", ![w].content = con,
                                     ![w].current = cur]
    BY <1>5, <2>3, <2>4 DEF Rebuild
  <2>9. approval' = [approval EXCEPT ![w] = u]
    BY <1>1, <2>2, <2>6, <2>8
  <2>10. u \in Tx /\ Ready(u) /\ adjusted' = adjusted
    BY <1>5, <2>4, <2>5, <2>7, BoundsAreNumbers DEF Rebuild
  <2> HIDE DEF Ready, Tx
  <2> QED BY <1>1, <1>2, <2>9, <2>10
<1>6. ASSUME NEW w \in Worker, Commit(w) PROVE AdjustedTyped'
  <2>1. approval' = [approval EXCEPT ![w] = NoApproval] /\ approval[w].phase = "rebuilt"
        /\ (adjusted' = adjusted \/ adjusted' = Published(w))
    BY <1>6 DEF Commit
  <2>2. adjusted' \subseteq AdjustedManifest
    BY <1>1, <2>1, PublishedTyped
  <2> HIDE DEF Ready, Tx
  <2> QED BY <1>2, <1>3, <2>1, <2>2
<1>7. ASSUME NEW w \in Worker, RolledBack(w) PROVE AdjustedTyped'
  <2>1. approval' = [approval EXCEPT ![w] = NoApproval] /\ adjusted' = adjusted
    BY <1>7 DEF RolledBack
  <2> HIDE DEF Ready, Tx
  <2> QED BY <1>1, <1>2, <1>3, <2>1
<1>8. ASSUME NEW w \in Worker, RecordRefusal(w) PROVE AdjustedTyped'
  <2>1. approval' = [approval EXCEPT ![w] = NoApproval] /\ adjusted' = adjusted
    BY <1>8 DEF RecordRefusal
  <2> HIDE DEF Ready, Tx
  <2> QED BY <1>1, <1>2, <1>3, <2>1
<1>9. CASE UNCHANGED <<adjusted, approval>>
  BY <1>1, <1>9 DEF AdjustedTyped
<1> QED BY <1>4, <1>5, <1>6, <1>7, <1>8, <1>9, WhoMovesTransactions

-----------------------------------------------------------------------------
(* The transactions stay what they are                                      *)

(* Deliveries are not taken back.                                           *)
LEMMA SentGrows ==
  ASSUME [ReviewNext]_reviewVars
  PROVE  sent \subseteq sent'
BY DEF ReviewNext, ResearchNext, ApprovalNext, reviewVars,
       Amend, PublishRaw, SlotDue, StartSlot, BeginSlot, Look, Persist, SlotSucceeds, SlotFails,
       DiscoveryFails, ResearchDies, EndSlot, Decide, Read, Unverified, ReadSubject, Write,
       ReadRefused, RecordRefusal, RefusalKnown, Enter, Rebuild, Commit, Fails, WorkerDies, RolledBack

(* A transaction that is open after a step stayed as it was, was rebuilt,   *)
(* or has just entered the phase it is in.                                  *)
LEMMA TransactionStep ==
  ASSUME ReviewTyped, Transactions, [ReviewNext]_reviewVars, NEW w \in Worker, Open(w)'
  PROVE  \/ Open(w) /\ ~Commit(w) /\ approval'[w] = approval[w]
         \/ /\ Rebuild(w) /\ Open(w) /\ ~Commit(w)
            /\ approval[w].phase = "decided" /\ approval'[w].phase = "rebuilt"
            /\ approval'[w].of = approval[w].of /\ approval'[w].rows = approval[w].rows
            /\ approval'[w].content = Rebuilt(w)
            /\ approval'[w].current = Current(WriteKey(w)[1])
         \/ Entering(w)
<1>1. approval \in [Worker -> OpenTransaction \cup {NoApproval}]
  BY DEF ReviewTyped, AdjustedTyped
<1>2. NoApproval.phase = "idle"
  BY DEF NoApproval
<1>3. ASSUME NEW v \in Worker, approval' = [approval EXCEPT ![v] = NoApproval]
      PROVE  v # w /\ approval'[w] = approval[w]
  BY <1>1, <1>2, <1>3 DEF Open
<1>4. \A v \in Worker : (Commit(v) \/ RecordRefusal(v) \/ RolledBack(v)) =>
        v # w /\ approval'[w] = approval[w]
  BY <1>3 DEF Commit, RecordRefusal, RolledBack
<1>5. ASSUME NEW v \in Worker, Entering(v), v # w PROVE approval'[w] = approval[w]
  <2>1. PICK phase, a, rows : Enter(v, a, phase, rows)
    BY <1>5, EnteredHolds
  <2> QED BY <1>1, <1>5, <2>1 DEF Enter
<1>6. ASSUME NEW v \in Worker, Rebuild(v), v # w PROVE approval'[w] = approval[w]
  BY <1>1, <1>6 DEF Rebuild
<1>7. ASSUME Rebuild(w)
      PROVE  /\ Open(w) /\ approval[w].phase = "decided"
             /\ approval'[w].of = approval[w].of /\ approval'[w].rows = approval[w].rows
             /\ approval'[w].phase = "rebuilt" /\ approval'[w].content = Rebuilt(w)
             /\ approval'[w].current = Current(WriteKey(w)[1])
  <2>1. Open(w) /\ approval[w].phase = "decided"
    BY <1>7 DEF Rebuild, Open
  <2>2. PICK con, cur : con = Rebuilt(w) /\ cur = Current(WriteKey(w)[1])
    OBVIOUS
  <2>3. approval' = [approval EXCEPT ![w].phase = "rebuilt", ![w].content = con,
                                     ![w].current = cur]
    BY <1>7, <2>2 DEF Rebuild
  <2>4. PICK t \in OpenTransaction : t = approval[w]
    BY <2>1, OpenIsTransaction DEF ReviewTyped
  <2>5. approval'[w] = [t EXCEPT !.phase = "rebuilt", !.content = con, !.current = cur]
    BY <1>1, <2>3, <2>4
  <2> QED BY <2>1, <2>2, <2>4, <2>5 DEF OpenTransaction
<1>8. CASE UNCHANGED <<adjusted, approval>>
  <2>1. approval'[w] = approval[w]
    BY <1>8
  <2> QED BY <1>4, <2>1 DEF Open
<1>9. ~Commit(w)
  BY <1>4
<1>10. approval'[w] = approval[w] => Open(w)
  BY DEF Open
<1> QED BY <1>4, <1>5, <1>6, <1>7, <1>8, <1>9, <1>10, WhoMovesTransactions

(* What a transaction has just entered is what it is in.                    *)
LEMMA EnteredIs ==
  ASSUME ReviewTyped, NEW w \in Worker, NEW a, NEW phase, NEW rows, Enter(w, a, phase, rows)
  PROVE  /\ approval'[w].of = a /\ approval'[w].phase = phase /\ approval'[w].rows = rows
         /\ UNCHANGED <<candidate, sent, researcher>>
<1>1. approval \in [Worker -> OpenTransaction \cup {NoApproval}]
  BY DEF ReviewTyped, AdjustedTyped
<1> QED BY <1>1 DEF Enter

(* Open transactions stay open for what they opened.                        *)
LEMMA TransactionsKept ==
  ASSUME ReviewTyped, Transactions, [ReviewNext]_reviewVars
  PROVE  Transactions'
<1> SUFFICES ASSUME NEW w \in Worker, Open(w)' PROVE TransactionOpen(w)'
  BY DEF Transactions
<1>1. CASE Open(w) /\ approval'[w] = approval[w]
  BY <1>1, SentGrows DEF Transactions, TransactionOpen, Holds, Changed, Superseded
<1>2. CASE /\ Open(w) /\ approval[w].phase = "decided" /\ approval'[w].phase = "rebuilt"
           /\ approval'[w].of = approval[w].of /\ approval'[w].rows = approval[w].rows
  BY <1>2, SentGrows DEF Transactions, TransactionOpen, Holds, Changed, Superseded
<1>3. CASE Entering(w)
  <2>1. PICK phase, a, rows : a \in sent /\ Enter(w, a, phase, rows) /\ Holds(phase, a, rows)
    BY <1>3, EnteredHolds
  <2>2. /\ approval'[w].of = a /\ approval'[w].phase = phase /\ approval'[w].rows = rows
        /\ sent' = sent
    BY <2>1, EnteredIs
  <2> QED BY <2>1, <2>2 DEF TransactionOpen, Holds, Changed, Superseded
<1> QED BY <1>1, <1>2, <1>3, TransactionStep

(* At first there are no rows, deliveries, manifests and transactions.      *)
LEMMA ReviewStarts ==
  ASSUME ReviewInit
  PROVE  ReviewTyped /\ Transactions
<1>1. ProviderTyped
  BY TermsCover DEF ReviewInit, ProviderTyped
<1>2. ResearchTyped
  BY NoResearchTyped DEF ReviewInit, ResearchTyped
<1>3. RowsTyped
  <2>1. NoRow \in RowRecord /\ NoRow.state = "ABSENT"
    BY DEF NoRow, RowRecord
  <2> QED BY <2>1 DEF ReviewInit, RowsTyped
<1>4. SentTyped
  BY FS_EmptySet DEF ReviewInit, SentTyped
<1>5. AdjustedTyped /\ \A w \in Worker : ~Open(w)
  <2>1. \A w \in Worker : approval[w] = NoApproval
    BY DEF ReviewInit
  <2> QED BY <2>1 DEF ReviewInit, AdjustedTyped, Open, NoApproval
<1>6. raw \in [Instrument \X ActionYear -> 0 .. MaxRaw] /\ reviewFaults \in 0 .. MaxFaults
  BY BoundsAreNumbers DEF ReviewInit
<1> QED BY <1>1, <1>2, <1>3, <1>4, <1>5, <1>6 DEF ReviewTyped, Transactions

(* The types, and what every open transaction has in hand.                  *)
THEOREM ReviewInvariant == ReviewSpec => [](ReviewTyped /\ Transactions)
<1>1. ASSUME ReviewTyped /\ Transactions, [ReviewNext]_reviewVars
      PROVE  (ReviewTyped /\ Transactions)'
  <2>1. ProviderTyped' /\ ResearchTyped' /\ RowsTyped' /\ SentTyped' /\ AdjustedTyped'
    BY <1>1, ProviderKept, ResearchKept, RowsStay, SentKept, AdjustedKept
  <2>2. raw' \in [Instrument \X ActionYear -> 0 .. MaxRaw] /\ reviewFaults' \in 0 .. MaxFaults
    BY <1>1, RawKept
  <2>3. Transactions'
    BY <1>1, TransactionsKept
  <2> QED BY <2>1, <2>2, <2>3 DEF ReviewTyped
<1> QED BY <1>1, ReviewStarts, PTL DEF ReviewSpec

(* Every variable holds a value of its type, a row that is not there has no *)
(* history, and the count of faults keeps its bound.                        *)
THEOREM ReviewTypeCorrect == ReviewSpec => []ReviewTypeOK
<1>1. ASSUME ReviewTyped PROVE ReviewTypeOK
  <2>1. \A e \in Event : provider[e] \in 1 .. MaxTerms[e]
    BY <1>1 DEF ReviewTyped, ProviderTyped
  <2>2. /\ due \in Slot \cup {0}
        /\ slotRun \in [Slot -> {"ABSENT", "RUNNING", "SUCCEEDED", "FAILED"}]
    BY <1>1 DEF ReviewTyped, ResearchTyped
  <2>6. ASSUME NEW r \in Researcher
        PROVE  /\ researcher[r].slot \in Slot \cup {0}
               /\ researcher[r].done \in 0 .. Len(researcher[r].found)
               /\ researcher[r].into \in CandidateId \cup {NoCandidate}
    <3>1. PICK e \in Research : e = researcher[r] /\ e.done <= Len(e.found)
      BY <1>1 DEF ReviewTyped, ResearchTyped
    <3>2. /\ e.done \in Nat /\ e.found \in Seq(Finding) /\ e.slot \in Slot \cup {0}
          /\ e.into \in CandidateId \cup {NoCandidate}
      BY DEF Research
    <3>3. Len(e.found) \in Nat
      BY <3>2
    <3>4. e.done \in 0 .. Len(e.found)
      BY <3>1, <3>2, <3>3
    <3> QED BY <3>1, <3>2, <3>4
  <2>3. /\ DOMAIN candidate = CandidateId
        /\ \A c \in CandidateId : \/ candidate[c] = NoRow
                                  \/ /\ candidate[c].state \in ReviewState
                                     /\ candidate[c].terms \in Terms
                                     /\ candidate[c].history \subseteq Entry
    BY <1>1 DEF ReviewTyped, RowsTyped, RowRecord
  <2>4. sent \subseteq Approval /\ adjusted \subseteq AdjustedManifest
    BY <1>1 DEF ReviewTyped, SentTyped, AdjustedTyped
  <2>5. \A w \in Worker : approval[w].phase \in
          {"idle", "read", "checked", "decided", "rebuilt", "refused", "refusing"}
    BY <1>1 DEF ReviewTyped, AdjustedTyped, OpenTransaction, NoApproval
  <2> QED BY <1>1, <2>1, <2>2, <2>3, <2>4, <2>5, <2>6 DEF ReviewTyped, ReviewTypeOK
<1> QED BY <1>1, ReviewInvariant, PTL

-----------------------------------------------------------------------------
(* What keeps the terms of a candidate                                      *)

(* No two researchers are about to insert the same row.                     *)
InsertsApart ==
  \A q, r \in Researcher :
    researcher[q].into # NoCandidate /\ researcher[q].into = researcher[r].into => q = r

(* The row a researcher is about to insert is not there.                    *)
IntoAbsent ==
  \A r \in Researcher : researcher[r].into # NoCandidate =>
    candidate[researcher[r].into].state = "ABSENT"

(* The rows a transaction holds have the terms that are stored.             *)
TermsHeld ==
  \A w \in Worker : Open(w) => \A c \in DOMAIN approval[w].rows :
    approval[w].rows[c].terms = candidate[c].terms

(* The rows a transaction holds are rows that are stored.                   *)
LEMMA HeldIsThere ==
  ASSUME ReviewTyped, Transactions, NEW w \in Worker, Open(w), NEW c \in DOMAIN approval[w].rows
  PROVE  c \in CandidateId /\ candidate[c].state # "ABSENT"
<1>1. PICK a \in sent : a = approval[w].of /\ Holds(approval[w].phase, a, approval[w].rows)
  BY DEF Transactions, TransactionOpen
<1>2. c \in Changed(a)
  BY <1>1 DEF Holds
<1> QED BY <1>2, DeliveredRows

(* A stored row changes by a refusal or a commit that holds it.             *)
LEMMA RowChanges ==
  ASSUME ReviewTyped, Transactions, IntoAbsent, [ReviewNext]_reviewVars,
         NEW c \in CandidateId, candidate[c].state # "ABSENT"
  PROVE  \/ candidate'[c] = candidate[c]
         \/ \E w \in Worker :
              /\ RecordRefusal(w) /\ Open(w) /\ c \in DOMAIN approval[w].rows
              /\ approval[w].phase = "refusing" /\ c = approval[w].of.candidate
              /\ candidate'[c].state = approval[w].rows[c].state
              /\ candidate'[c].terms = approval[w].rows[c].terms
         \/ \E w \in Worker : /\ Commit(w) /\ Open(w) /\ c \in DOMAIN approval[w].rows
                              /\ candidate'[c] = approval[w].rows[c]
<1>1. candidate \in [CandidateId -> RowRecord]
  BY DEF ReviewTyped, RowsTyped
<1>2. ASSUME NEW r \in Researcher, Persist(r) PROVE candidate'[c] = candidate[c]
  <2>1. PICK d \in CandidateId, row \in RowRecord :
          d = researcher[r].into /\ candidate' = [candidate EXCEPT ![d] = row]
    BY <1>2, PersistRows
  <2>2. d # NoCandidate
    BY NoCandidateIsNone
  <2>3. candidate[d].state = "ABSENT"
    BY <2>1, <2>2 DEF IntoAbsent
  <2> QED BY <1>1, <2>1, <2>3
<1>3. ASSUME NEW w \in Worker, RecordRefusal(w), candidate'[c] # candidate[c]
      PROVE  /\ Open(w) /\ approval[w].phase = "refusing" /\ c = approval[w].of.candidate
             /\ c \in DOMAIN approval[w].rows
             /\ candidate'[c].state = approval[w].rows[c].state
             /\ candidate'[c].terms = approval[w].rows[c].terms
  <2>1. PICK d \in CandidateId, row \in RowRecord :
          /\ d = approval[w].of.candidate /\ d \in DOMAIN approval[w].rows
          /\ candidate' = [candidate EXCEPT ![d] = row]
          /\ row.state = approval[w].rows[d].state /\ row.terms = approval[w].rows[d].terms
    BY <1>3, RefusalRows
  <2>2. c = d
    BY <1>1, <1>3, <2>1
  <2>3. Open(w) /\ approval[w].phase = "refusing"
    BY <1>3 DEF RecordRefusal, Open
  <2> QED BY <1>1, <2>1, <2>2, <2>3
<1>4. ASSUME NEW w \in Worker, Commit(w), candidate'[c] # candidate[c]
      PROVE  Open(w) /\ c \in DOMAIN approval[w].rows /\ candidate'[c] = approval[w].rows[c]
  <2>1. Open(w) /\ candidate' = RowsSeen(w)
    BY <1>4 DEF Commit, Open
  <2> QED BY <1>4, <2>1, SeenRows
<1> QED BY <1>2, <1>3, <1>4, WhoWritesRows

(* A row that was not there is one that a researcher was about to insert.   *)
LEMMA RowAppears ==
  ASSUME ReviewTyped, Transactions, [ReviewNext]_reviewVars,
         NEW c \in CandidateId, candidate[c].state = "ABSENT", candidate'[c] # candidate[c]
  PROVE  /\ \E r \in Researcher : Persist(r) /\ researcher[r].into = c
         /\ candidate'[c].state = "REVIEW_REQUIRED"
<1>1. candidate \in [CandidateId -> RowRecord]
  BY DEF ReviewTyped, RowsTyped
<1>2. ASSUME NEW r \in Researcher, Persist(r)
      PROVE  researcher[r].into = c /\ candidate'[c].state = "REVIEW_REQUIRED"
  <2>1. PICK d \in CandidateId, row \in RowRecord :
          /\ d = researcher[r].into /\ candidate' = [candidate EXCEPT ![d] = row]
          /\ row.state = "REVIEW_REQUIRED"
    BY <1>2, PersistRows
  <2> QED BY <1>1, <2>1
<1>3. ASSUME NEW w \in Worker, RecordRefusal(w) PROVE FALSE
  <2>1. Open(w)
    BY <1>3 DEF RecordRefusal, Open
  <2>2. PICK d \in CandidateId, row \in RowRecord :
          d \in DOMAIN approval[w].rows /\ candidate' = [candidate EXCEPT ![d] = row]
    BY <1>3, RefusalRows
  <2> QED BY <1>1, <2>1, <2>2, HeldIsThere
<1>4. ASSUME NEW w \in Worker, Commit(w) PROVE FALSE
  <2>1. Open(w) /\ candidate' = RowsSeen(w)
    BY <1>4 DEF Commit, Open
  <2> QED BY <2>1, SeenRows, HeldIsThere
<1> QED BY <1>2, <1>3, <1>4, WhoWritesRows

(* What a researcher is about to insert it has just looked for, or was      *)
(* about to insert before and has not.                                      *)
LEMMA IntoStep ==
  ASSUME ReviewTyped, [ReviewNext]_reviewVars, NEW r \in Researcher,
         researcher'[r].into # NoCandidate
  PROVE  \/ researcher'[r] = researcher[r] /\ ~Persist(r)
         \/ /\ candidate' = candidate /\ researcher'[r].into \in CandidateId
            /\ candidate[researcher'[r].into].state = "ABSENT"
<1>1. researcher \in [Researcher -> Research]
  BY DEF ReviewTyped, ResearchTyped
<1>2. PICK old \in Research : old = researcher[r]
  BY <1>1
<1>3. ASSUME NEW e \in Research, researcher' = [researcher EXCEPT ![r] = e], e.into = NoCandidate
      PROVE  FALSE
  BY <1>1, <1>3
<1>4. ASSUME NEW s \in Slot, StartSlot(r, s) PROVE FALSE
  <2>1. PICK e : e = [NoResearch EXCEPT !.slot = s]
    OBVIOUS
  <2>2. e \in Research /\ e.into = NoCandidate
    BY <2>1, NoResearchTyped DEF Research
  <2>3. researcher' = [researcher EXCEPT ![r] = e]
    BY <1>1, <1>4, <2>1 DEF StartSlot
  <2> QED BY <1>3, <2>2, <2>3
<1>5. ASSUME BeginSlot(r) PROVE FALSE
  <2>1. old.into = NoCandidate
    BY <1>2, <1>5 DEF BeginSlot, ReviewTyped, ResearchTyped
  <2>2. PICK F : F = Found(researcher[r].slot)
    OBVIOUS
  <2>3. researcher'[r] = [old EXCEPT !.begun = TRUE, !.found = F]
    BY <1>1, <1>2, <1>5, <2>2 DEF BeginSlot
  <2>4. researcher'[r].into = old.into
    BY <2>3 DEF Research
  <2> QED BY <2>1, <2>4
<1>6. ASSUME Persist(r) PROVE FALSE
  <2>1. PICK n : n = old.done + 1
    OBVIOUS
  <2>2. researcher'[r] = [old EXCEPT !.done = n, !.into = NoCandidate]
    BY <1>1, <1>2, <1>6, <2>1 DEF Persist
  <2> QED BY <2>2 DEF Research
<1>7. ASSUME NEW status, EndSlot(r, status) \/ ResearchDies(r) PROVE FALSE
  <2>1. researcher' = [researcher EXCEPT ![r] = NoResearch]
    BY <1>7 DEF EndSlot, ResearchDies
  <2> QED BY <1>3, <2>1, NoResearchTyped
<1>8. ASSUME Look(r)
      PROVE  /\ candidate' = candidate /\ researcher'[r].into \in CandidateId
             /\ candidate[researcher'[r].into].state = "ABSENT"
  <2>1. PICK f \in Finding : f = NextFinding(r) /\ ~Unattributed(f)
    BY <1>8, NextIsFinding DEF Look, ReviewTyped
  <2>2. PICK c \in CandidateId : c = Into(f)
    BY <2>1, SourceIsCandidate DEF ReviewTyped
  <2>3. CASE Known(f)
    <3>1. PICK n : n = old.done + 1
      OBVIOUS
    <3>2. researcher'[r] = [old EXCEPT !.done = n] /\ old.into = NoCandidate
      BY <1>1, <1>2, <1>8, <2>1, <2>3, <3>1 DEF Look
    <3> QED BY <3>2 DEF Research
  <2>4. CASE ~Known(f)
    <3>1. researcher'[r] = [old EXCEPT !.into = c] /\ candidate' = candidate
      BY <1>1, <1>2, <1>8, <2>1, <2>2, <2>4 DEF Look
    <3>2. researcher'[r].into = c
      BY <3>1 DEF Research
    <3>3. candidate[c].state = "ABSENT"
      BY <2>1, <2>2, <2>4 DEF Known, Into
    <3> QED BY <3>1, <3>2, <3>3
  <2> QED BY <2>3, <2>4
<1>9. ASSUME NEW q \in Researcher, ResearchNext(q), q # r PROVE researcher'[r] = researcher[r]
  BY <1>1, <1>9, ResearcherSteps
<1>10. ASSUME ResearchNext(r) PROVE Look(r)
  BY <1>4, <1>5, <1>6, <1>7, <1>10 DEF ResearchNext, SlotSucceeds, SlotFails, DiscoveryFails
<1> QED BY <1>6, <1>8, <1>9, <1>10, WhoResearches

(* What researchers are to insert stays absent while they keep apart.       *)
LEMMA IntoAbsentKept ==
  ASSUME ReviewTyped, Transactions, InsertsApart, IntoAbsent, [ReviewNext]_reviewVars
  PROVE  IntoAbsent'
<1> SUFFICES ASSUME NEW r \in Researcher, researcher'[r].into # NoCandidate
             PROVE  candidate'[researcher'[r].into].state = "ABSENT"
  BY DEF IntoAbsent
<1>1. CASE researcher'[r] = researcher[r] /\ ~Persist(r)
  <2>1. PICK c \in CandidateId : c = researcher[r].into
    BY <1>1 DEF ReviewTyped, ResearchTyped, Research
  <2>2. candidate[c].state = "ABSENT" /\ c # NoCandidate
    BY <1>1, <2>1 DEF IntoAbsent
  <2>3. candidate'[c] = candidate[c]
    <3>1. ASSUME candidate'[c] # candidate[c] PROVE FALSE
      <4>1. PICK q \in Researcher : Persist(q) /\ researcher[q].into = c
        BY <2>2, <3>1, RowAppears
      <4>2. q = r
        BY <2>1, <2>2, <4>1 DEF InsertsApart
      <4> QED BY <1>1, <4>1, <4>2
    <3> QED BY <3>1
  <2> QED BY <1>1, <2>1, <2>2, <2>3
<1>2. CASE candidate' = candidate /\ candidate[researcher'[r].into].state = "ABSENT"
  BY <1>2
<1> QED BY <1>1, <1>2, IntoStep

(* A stored row keeps its terms.                                            *)
LEMMA TermsStay ==
  ASSUME ReviewTyped, Transactions, IntoAbsent, TermsHeld, [ReviewNext]_reviewVars,
         NEW c \in CandidateId, candidate[c].state # "ABSENT"
  PROVE  candidate'[c].terms = candidate[c].terms
BY RowChanges DEF TermsHeld

(* What each phase that is entered before the rebuild holds.                *)
LEMMA EnteredRows ==
  ASSUME ReviewTyped, Transactions, NEW w \in Worker, Entering(w)
  PROVE  /\ UNCHANGED <<candidate, sent, researcher>>
         /\ \/ approval'[w].phase = "refused" /\ DOMAIN approval'[w].rows = {}
            \/ \E a \in sent : /\ approval'[w].of = a /\ approval'[w].phase \in {"read", "refusing"}
                               /\ DOMAIN approval'[w].rows = {a.candidate}
                               /\ approval'[w].rows[a.candidate] = candidate[a.candidate]
                               /\ approval'[w].phase = "read" => ~Refusable(candidate[a.candidate], a)
            \/ \E a \in sent :
                 /\ Open(w) /\ approval[w].phase = "read" /\ approval[w].of = a
                 /\ approval'[w].of = a /\ approval'[w].phase = "checked"
                 /\ DOMAIN approval[w].rows = {a.candidate}
                 /\ DOMAIN approval'[w].rows = Changed(a)
                 /\ a.decision = "APPROVE" => ~UnnamedConflict(a)
                 /\ \A c \in Changed(a) : approval'[w].rows[c] =
                      IF c = a.candidate THEN approval[w].rows[c] ELSE candidate[c]
            \/ \E a \in sent :
                 /\ Open(w) /\ approval[w].phase = "checked" /\ approval[w].of = a
                 /\ approval'[w].of = a /\ approval'[w].phase = "decided"
                 /\ DOMAIN approval[w].rows = Changed(a)
                 /\ DOMAIN approval'[w].rows = Changed(a)
                 /\ \A c \in Changed(a) : /\ approval'[w].rows[c].terms = approval[w].rows[c].terms
                                          /\ approval'[w].rows[c].state = Target(a, c)
<1>1. ASSUME NEW a \in sent, Enter(w, a, "refused", RowsRead({}))
      PROVE  /\ UNCHANGED <<candidate, sent, researcher>>
             /\ approval'[w].phase = "refused" /\ DOMAIN approval'[w].rows = {}
  BY <1>1, EnteredIs DEF RowsRead
<1>2. ASSUME NEW a \in sent, NEW phase \in {"read", "refusing"},
             Enter(w, a, phase, RowsRead({a.candidate}))
      PROVE  /\ UNCHANGED <<candidate, sent, researcher>>
             /\ approval'[w].of = a /\ approval'[w].phase = phase
             /\ DOMAIN approval'[w].rows = {a.candidate}
             /\ approval'[w].rows[a.candidate] = candidate[a.candidate]
  <2>1. PICK R : R = RowsRead({a.candidate})
    OBVIOUS
  <2>2. /\ approval'[w].of = a /\ approval'[w].phase = phase /\ approval'[w].rows = R
        /\ UNCHANGED <<candidate, sent, researcher>>
    BY <1>2, <2>1, EnteredIs
  <2>3. DOMAIN R = {a.candidate} /\ R[a.candidate] = candidate[a.candidate]
    BY <2>1 DEF RowsRead
  <2> QED BY <2>2, <2>3
<1>3. ASSUME NEW a \in sent, Read(w, a) \/ Unverified(w, a)
      PROVE  \/ Enter(w, a, "refused", RowsRead({}))
             \/ /\ Enter(w, a, "read", RowsRead({a.candidate}))
                /\ ~Refusable(candidate[a.candidate], a)
  BY <1>3 DEF Read, Unverified
<1>4. ASSUME ReadRefused(w)
      PROVE  \E a \in sent : Enter(w, a, "refusing", RowsRead({a.candidate}))
  <2>1. Open(w)
    BY <1>4 DEF ReadRefused, Open
  <2>2. PICK a \in sent : a = approval[w].of
    BY <2>1 DEF Transactions, TransactionOpen
  <2> QED BY <1>4, <2>2 DEF ReadRefused
<1>5. CASE ReadSubject(w)
  <2>1. Open(w) /\ approval[w].phase = "read"
    BY <1>5 DEF ReadSubject, Open
  <2>2. PICK a \in sent : a = approval[w].of /\ DOMAIN approval[w].rows = {a.candidate}
    BY <2>1 DEF Transactions, TransactionOpen, Holds
  <2>3. PICK R : R = [c \in Changed(a) |->
                        IF c = a.candidate THEN approval[w].rows[c] ELSE candidate[c]]
    OBVIOUS
  <2>4. \/ Enter(w, a, "refused", RowsRead({}))
        \/ Enter(w, a, "checked", R) /\ (a.decision = "APPROVE" => ~UnnamedConflict(a))
    BY <1>5, <2>2, <2>3 DEF ReadSubject
  <2>5. ASSUME Enter(w, a, "checked", R)
        PROVE  /\ approval'[w].of = a /\ approval'[w].phase = "checked" /\ approval'[w].rows = R
               /\ UNCHANGED <<candidate, sent, researcher>>
    BY <2>5, EnteredIs
  <2>6. /\ DOMAIN R = Changed(a)
        /\ \A c \in Changed(a) : R[c] = IF c = a.candidate THEN approval[w].rows[c] ELSE candidate[c]
    BY <2>3
  <2> QED BY <1>1, <2>1, <2>2, <2>4, <2>5, <2>6
<1>6. CASE Write(w)
  <2>1. Open(w) /\ approval[w].phase = "checked"
    BY <1>6 DEF Write, Open
  <2>2. PICK a \in sent, D \in SUBSET CandidateId, rows \in Rows :
          /\ rows \in [D -> RowRecord]
          /\ a = approval[w].of /\ rows = approval[w].rows /\ D = DOMAIN rows /\ a \in Approval
          /\ Holds(approval[w].phase, a, rows)
    BY <2>1, HeldParts
  <2>3. D = Changed(a)
    BY <2>1, <2>2 DEF Holds
  <2>4. PICK R : R = Transition(a, rows)
    OBVIOUS
  <2>5. /\ R \in [D -> RowRecord]
        /\ \A c \in D : R[c].terms = rows[c].terms /\ R[c].state = Target(a, c)
    BY <2>2, <2>4, TransitionRows
  <2>6. Enter(w, a, "decided", R)
    BY <1>6, <2>2, <2>4 DEF Write
  <2>7. /\ approval'[w].of = a /\ approval'[w].phase = "decided" /\ approval'[w].rows = R
        /\ UNCHANGED <<candidate, sent, researcher>>
    BY <2>6, EnteredIs
  <2>8. DOMAIN R = D
    BY <2>5
  <2> QED BY <2>1, <2>2, <2>3, <2>5, <2>7, <2>8
<1>7. CASE \E a \in sent : Read(w, a) \/ Unverified(w, a)
  BY <1>1, <1>2, <1>3, <1>7
<1>8. CASE ReadRefused(w)
  BY <1>2, <1>4, <1>8
<1> QED BY <1>5, <1>6, <1>7, <1>8 DEF Entering

(* A transaction holds the terms it read, whoever else decides meanwhile.   *)
LEMMA TermsHeldKept ==
  ASSUME ReviewTyped, Transactions, IntoAbsent, TermsHeld, [ReviewNext]_reviewVars
  PROVE  TermsHeld'
<1> SUFFICES ASSUME NEW w \in Worker, Open(w)', NEW c \in DOMAIN approval'[w].rows
             PROVE  approval'[w].rows[c].terms = candidate'[c].terms
  BY DEF TermsHeld, Open
<1>1. CASE Open(w) /\ approval'[w].rows = approval[w].rows
  <2>1. c \in CandidateId /\ candidate[c].state # "ABSENT"
    BY <1>1, HeldIsThere
  <2> QED BY <1>1, <2>1, TermsStay DEF TermsHeld
<1>2. CASE Entering(w)
  <2>1. candidate' = candidate
    BY <1>2, EnteredRows
  <2>2. CASE DOMAIN approval'[w].rows = {}
    BY <2>2
  <2>3. ASSUME NEW a \in sent, DOMAIN approval'[w].rows = {a.candidate},
               approval'[w].rows[a.candidate] = candidate[a.candidate]
        PROVE  approval'[w].rows[c].terms = candidate'[c].terms
    BY <2>1, <2>3
  <2>4. ASSUME NEW a \in sent, Open(w), DOMAIN approval[w].rows = {a.candidate},
               DOMAIN approval'[w].rows = Changed(a),
               \A d \in Changed(a) : approval'[w].rows[d] =
                 IF d = a.candidate THEN approval[w].rows[d] ELSE candidate[d]
        PROVE  approval'[w].rows[c].terms = candidate'[c].terms
    BY <2>1, <2>4 DEF TermsHeld
  <2>5. ASSUME NEW a \in sent, Open(w), DOMAIN approval[w].rows = Changed(a),
               DOMAIN approval'[w].rows = Changed(a),
               \A d \in Changed(a) : approval'[w].rows[d].terms = approval[w].rows[d].terms
        PROVE  approval'[w].rows[c].terms = candidate'[c].terms
    BY <2>1, <2>5 DEF TermsHeld
  <2> QED BY <1>2, <2>2, <2>3, <2>4, <2>5, EnteredRows
<1> QED BY <1>1, <1>2, TransactionStep

TermsInvariant == ReviewTyped /\ Transactions /\ IntoAbsent /\ TermsHeld

(* The terms, while researchers insert apart.                               *)
LEMMA TermsAreHeld == ReviewSpec /\ []InsertsApart => []TermsInvariant
<1>1. ReviewInit => TermsInvariant
  <2> SUFFICES ASSUME ReviewInit PROVE TermsInvariant
    OBVIOUS
  <2>1. \A r \in Researcher : researcher[r].into = NoCandidate
    BY NoResearchTyped DEF ReviewInit
  <2>2. \A w \in Worker : ~Open(w)
    BY DEF ReviewInit, Open, NoApproval
  <2> QED BY <2>1, <2>2, ReviewStarts DEF TermsInvariant, IntoAbsent, TermsHeld
<1>2. ASSUME TermsInvariant, InsertsApart, [ReviewNext]_reviewVars, ReviewTyped', Transactions'
      PROVE  TermsInvariant'
  BY <1>2, IntoAbsentKept, TermsHeldKept DEF TermsInvariant
<1> QED BY <1>1, <1>2, ReviewInvariant, PTL DEF ReviewSpec

-----------------------------------------------------------------------------
(* A slot that succeeds has recorded what it found                          *)

RowFor(f) == \E n \in RawRevision : candidate[<<f[1], n>>].terms = f[2]
Recorded ==
  \A r \in Researcher : \A k \in 1 .. researcher[r].done : RowFor(researcher[r].found[k])

(* A finding that has a row keeps it.                                       *)
LEMMA RowForStays ==
  ASSUME TermsInvariant, [ReviewNext]_reviewVars, NEW f \in Finding, RowFor(f)
  PROVE  RowFor(f)'
<1>1. PICK n \in RawRevision : candidate[<<f[1], n>>].terms = f[2]
  BY DEF RowFor
<1>2. PICK c \in CandidateId : c = <<f[1], n>>
  BY DEF Finding, CandidateId
<1>3. candidate[c].terms \in Terms
  BY <1>1, <1>2 DEF Finding
<1>4. candidate[c].state # "ABSENT"
  <2>1. NoRow.terms = 0 /\ 0 \notin Terms
    BY DEF NoRow, Terms
  <2> QED BY <1>3, <2>1 DEF TermsInvariant, ReviewTyped, RowsTyped
<1>5. candidate'[c].terms = candidate[c].terms
  BY <1>4, TermsStay DEF TermsInvariant
<1> QED BY <1>1, <1>2, <1>5 DEF RowFor

(* The findings up to the one that is next have rows.                       *)
LEMMA RecordedKept ==
  ASSUME TermsInvariant, Recorded, [ReviewNext]_reviewVars
  PROVE  Recorded'
<1>1. researcher \in [Researcher -> Research] /\ ResearchTyped /\ ReviewTyped
  BY DEF TermsInvariant, ReviewTyped, ResearchTyped
<1> DEFINE RowThen(f) == \E n \in RawRevision : candidate'[<<f[1], n>>].terms = f[2]
<1> SUFFICES ASSUME NEW r \in Researcher, NEW k \in 1 .. researcher'[r].done
             PROVE  RowThen(researcher'[r].found[k])
  BY DEF Recorded, RowFor
<1>2. PICK old \in Research : old = researcher[r] /\ old.done <= Len(old.found)
  BY <1>1 DEF ResearchTyped
<1>3. old.found \in Seq(Finding) /\ old.done \in Nat /\ Len(old.found) \in Nat
  BY DEF Research
<1>4. ASSUME NEW j \in 1 .. old.done
      PROVE  RowThen(old.found[j])
  <2>1. PICK f \in Finding : f = old.found[j]
    BY <1>2, <1>3
  <2>2. RowFor(f)
    BY <1>2, <2>1 DEF Recorded
  <2>3. RowFor(f)'
    BY <2>2, RowForStays
  <2> QED BY <2>1, <2>3 DEF RowFor
<1>5. CASE researcher'[r].found = old.found /\ researcher'[r].done = old.done
  BY <1>4, <1>5
<1>6. CASE researcher'[r].done = 0
  BY <1>6
<1>7. ASSUME NEW f \in Finding, f = NextFinding(r), Pending(r),
             researcher'[r].found = old.found, researcher'[r].done = old.done + 1,
             RowThen(f)
      PROVE  RowThen(researcher'[r].found[k])
  <2>1. f = old.found[old.done + 1]
    BY <1>2, <1>7 DEF NextFinding
  <2>2. k \in 1 .. old.done \/ k = old.done + 1
    BY <1>3, <1>7
  <2>3. CASE k = old.done + 1
    BY <1>7, <2>1, <2>3
  <2> HIDE DEF RowThen
  <2> QED BY <1>4, <1>7, <2>2, <2>3
<1>8. CASE Look(r)
  <2>1. PICK f \in Finding : f = NextFinding(r) /\ ~Unattributed(f) /\ ~Conflicts(f) /\ Pending(r)
    BY <1>1, <1>8, NextIsFinding DEF Look
  <2>2. CASE Known(f)
    <3>1. PICK n : n = old.done + 1
      OBVIOUS
    <3>2. researcher'[r] = [old EXCEPT !.done = n] /\ candidate' = candidate
      BY <1>1, <1>2, <1>8, <2>1, <2>2, <3>1 DEF Look
    <3>3. researcher'[r].found = old.found /\ researcher'[r].done = old.done + 1
      BY <3>1, <3>2 DEF Research
    <3>4. candidate[<<f[1], Source(f[1])>>].terms = f[2] /\ Source(f[1]) \in RawRevision
      BY <2>1, <2>2, SourceIsCandidate, <1>1 DEF Conflicts, ReviewTyped
    <3> QED BY <1>7, <2>1, <3>2, <3>3, <3>4
  <2>3. CASE ~Known(f)
    <3>1. PICK c : c = Into(f)
      OBVIOUS
    <3>2. researcher'[r] = [old EXCEPT !.into = c]
      BY <1>1, <1>2, <1>8, <2>1, <2>3, <3>1 DEF Look
    <3>3. researcher'[r].found = old.found /\ researcher'[r].done = old.done
      BY <3>2 DEF Research
    <3> QED BY <1>5, <3>3
  <2> QED BY <2>2, <2>3
<1>9. CASE Persist(r)
  <2>1. PICK c \in CandidateId, row \in RowRecord :
          /\ candidate' = [candidate EXCEPT ![c] = row]
          /\ row.terms = NextFinding(r)[2] /\ c[1] = NextFinding(r)[1] /\ Pending(r)
    BY <1>1, <1>9, PersistRows
  <2>2. PICK f \in Finding : f = NextFinding(r)
    BY <1>1, <2>1, NextIsFinding
  <2>3. c = <<f[1], c[2]>> /\ c[2] \in RawRevision
    BY <2>1, <2>2 DEF CandidateId
  <2>4. candidate'[c].terms = f[2]
    BY <2>1, <2>2 DEF TermsInvariant, ReviewTyped, RowsTyped
  <2>5. PICK n : n = old.done + 1
    OBVIOUS
  <2>6. researcher'[r] = [old EXCEPT !.done = n, !.into = NoCandidate]
    BY <1>1, <1>2, <1>9, <2>5 DEF Persist
  <2>7. researcher'[r].found = old.found /\ researcher'[r].done = old.done + 1
    BY <2>5, <2>6 DEF Research
  <2> QED BY <1>7, <2>1, <2>2, <2>3, <2>4, <2>7
<1>10. ASSUME NEW s \in Slot, StartSlot(r, s) PROVE researcher'[r].done = 0
  <2>1. researcher'[r] = [NoResearch EXCEPT !.slot = s]
    BY <1>1, <1>10 DEF StartSlot
  <2> QED BY <2>1 DEF NoResearch
<1>11. ASSUME BeginSlot(r) PROVE researcher'[r].done = 0
  <2>1. PICK F : F = Found(researcher[r].slot)
    OBVIOUS
  <2>2. researcher'[r] = [old EXCEPT !.begun = TRUE, !.found = F]
    BY <1>1, <1>2, <1>11, <2>1 DEF BeginSlot
  <2>3. old.done = 0
    BY <1>1, <1>2, <1>11 DEF BeginSlot, ResearchTyped
  <2> QED BY <2>2, <2>3 DEF Research
<1>12. ASSUME NEW status, EndSlot(r, status) \/ ResearchDies(r) PROVE researcher'[r].done = 0
  <2>1. researcher'[r] = NoResearch
    BY <1>1, <1>12 DEF EndSlot, ResearchDies
  <2> QED BY <2>1, NoResearchTyped
<1>13. ASSUME NEW q \in Researcher, ResearchNext(q), q # r PROVE researcher'[r] = researcher[r]
  BY <1>1, <1>13, ResearcherSteps
<1>14. CASE researcher'[r] = researcher[r]
  BY <1>2, <1>5, <1>14
<1>15. CASE ResearchNext(r)
  BY <1>6, <1>8, <1>9, <1>10, <1>11, <1>12, <1>15 DEF ResearchNext, SlotSucceeds, SlotFails,
     DiscoveryFails
<1> QED BY <1>13, <1>14, <1>15, WhoResearches

(* While researchers insert apart, a slot recorded SUCCEEDED has a row for  *)
(* every event it discovered, with the terms it discovered, whatever any    *)
(* number of workers, the backend and the provider do meanwhile.            *)
THEOREM SlotsRecordFindings == ReviewSpec /\ []InsertsApart => SlotRecorded
<1>1. ReviewInit => Recorded
  <2>1. ReviewInit => \A r \in Researcher : researcher[r].done = 0
    BY NoResearchTyped DEF ReviewInit
  <2> QED BY <2>1 DEF Recorded
<1>2. ASSUME TermsInvariant, Recorded, [ReviewNext]_reviewVars PROVE Recorded'
  BY <1>2, RecordedKept
<1>3. ASSUME TermsInvariant, Recorded, [ReviewNext]_reviewVars
      PROVE  [\A r \in Researcher, s \in Slot :
       (/\ researcher[r].slot = s /\ researcher'[r] = NoResearch
        /\ slotRun[s] # "SUCCEEDED" /\ slotRun'[s] = "SUCCEEDED") =>
       \A k \in DOMAIN researcher[r].found : \E n \in RawRevision :
         candidate[<<researcher[r].found[k][1], n>>].terms = researcher[r].found[k][2]]_reviewVars
  <2>1. slotRun \in [Slot -> {"ABSENT", "RUNNING", "SUCCEEDED", "FAILED"}]
        /\ researcher \in [Researcher -> Research]
    BY <1>3 DEF TermsInvariant, ReviewTyped, ResearchTyped
  <2> SUFFICES ASSUME NEW r \in Researcher, NEW s \in Slot, researcher[r].slot = s,
                      researcher'[r] = NoResearch,
                      slotRun[s] # "SUCCEEDED", slotRun'[s] = "SUCCEEDED",
                      NEW k \in DOMAIN researcher[r].found
               PROVE  RowFor(researcher[r].found[k])
    BY DEF RowFor
  <2>2. ASSUME NEW q \in Researcher, NEW status, status # "SUCCEEDED", EndSlot(q, status)
        PROVE  FALSE
    BY <2>1, <2>2 DEF EndSlot
  <2>3. ASSUME NEW q \in Researcher, BeginSlot(q) PROVE FALSE
    BY <2>1, <2>3 DEF BeginSlot
  <2>4. PICK q \in Researcher : SlotSucceeds(q)
    <3>1. slotRun' # slotRun
      OBVIOUS
    <3>2. \E q \in Researcher : SlotSucceeds(q) \/ BeginSlot(q) \/ EndSlot(q, "FAILED")
      <4>1. PICK q \in Researcher : ResearchNext(q)
        BY <1>3, <3>1, WhoResearches
      <4> QED BY <3>1, <4>1 DEF ResearchNext, StartSlot, Look, Persist, SlotFails, DiscoveryFails,
           ResearchDies
    <3> QED BY <2>2, <2>3, <3>2
  <2>5. q = r
    <3>1. researcher[r] # NoResearch
      BY <2>1 DEF NoResearch, TermsInvariant, CorporateActionsAssumption
    <3>2. researcher' = [researcher EXCEPT ![q] = NoResearch]
      BY <2>4 DEF SlotSucceeds, EndSlot
    <3> QED BY <2>1, <3>1, <3>2
  <2>6. PICK old \in Research : old = researcher[r]
    BY <2>1
  <2>7. old.found \in Seq(Finding) /\ old.done \in Nat /\ ~(old.done < Len(old.found))
    BY <2>4, <2>5, <2>6 DEF Research, SlotSucceeds, Pending
  <2>8. k \in 1 .. old.done
    BY <2>6, <2>7
  <2> QED BY <1>3, <2>6, <2>8 DEF Recorded
<1> QED BY <1>1, <1>2, <1>3, TermsAreHeld, PTL DEF ReviewSpec, SlotRecorded

-----------------------------------------------------------------------------
(* While no two transactions about decisions overlap                        *)

Serial == \A v, w \in Worker : Open(v) /\ Open(w) => v = w

(* The state a decision is made from.                                       *)
Expected(a, c) ==
  IF c = a.candidate /\ a.decision = "APPROVE" THEN "REVIEW_REQUIRED" ELSE "APPROVED"

(* The stored rows of a transaction are as it read them, and what it is to  *)
(* write is what its decision makes of them.                                *)
InStep ==
  \A w \in Worker : Open(w) => \A c \in DOMAIN approval[w].rows :
    /\ approval[w].phase \in {"read", "checked", "decided", "rebuilt"} =>
         candidate[c].state = Expected(approval[w].of, c)
    /\ approval[w].rows[c].state = IF approval[w].phase \in {"decided", "rebuilt"}
                                   THEN Target(approval[w].of, c) ELSE candidate[c].state

(* Nothing of the subject is approved but what the open approval supersedes.*)
NoRival ==
  \A w \in Worker :
    (/\ approval[w].phase \in {"checked", "decided", "rebuilt"}
     /\ approval[w].of.decision = "APPROVE") =>
       ApprovedForSubject(approval[w].of.candidate) \subseteq Changed(approval[w].of)

Alone == TermsInvariant /\ InStep /\ Serial

(* While one transaction is open, no state of a row changes but that of a   *)
(* row that was not there.                                                  *)
LEMMA AloneRowsStay ==
  ASSUME Alone, [ReviewNext]_reviewVars, Serial', NEW w \in Worker, Open(w), Open(w)',
         NEW c \in CandidateId
  PROVE  \/ candidate'[c].terms = candidate[c].terms /\ candidate'[c].state = candidate[c].state
         \/ candidate[c].state = "ABSENT" /\ candidate'[c].state = "REVIEW_REQUIRED"
<1>1. CASE candidate[c].state = "ABSENT"
  BY <1>1, RowAppears DEF Alone, TermsInvariant
<1>2. ASSUME NEW v \in Worker, Open(v), RecordRefusal(v) \/ Commit(v) PROVE FALSE
  <2>1. v = w
    BY <1>2 DEF Alone, Serial
  <2>2. approval' = [approval EXCEPT ![v] = NoApproval]
    BY <1>2 DEF RecordRefusal, Commit
  <2>3. approval'[w].phase = "idle"
    BY <2>1, <2>2 DEF NoApproval, Alone, TermsInvariant, ReviewTyped, AdjustedTyped
  <2> QED BY <2>3 DEF Open
<1>3. CASE candidate[c].state # "ABSENT"
  BY <1>2, <1>3, RowChanges DEF Alone, TermsInvariant
<1> QED BY <1>1, <1>3

(* The rows stay in step.                                                   *)
LEMMA InStepKept ==
  ASSUME Alone, [ReviewNext]_reviewVars, Serial'
  PROVE  InStep'
<1>0. ReviewTyped /\ Transactions /\ InStep
  BY DEF Alone, TermsInvariant
<1> SUFFICES ASSUME NEW w \in Worker, Open(w)', NEW c \in DOMAIN approval'[w].rows
             PROVE  /\ approval'[w].phase \in {"read", "checked", "decided", "rebuilt"} =>
                         candidate'[c].state = Expected(approval'[w].of, c)
                    /\ approval'[w].rows[c].state =
                         IF approval'[w].phase \in {"decided", "rebuilt"}
                         THEN Target(approval'[w].of, c) ELSE candidate'[c].state
  BY DEF InStep, Open, Expected, Target
<1>1. ASSUME Open(w), approval'[w].rows = approval[w].rows
      PROVE  c \in CandidateId /\ candidate'[c].state = candidate[c].state
  <2>1. c \in CandidateId /\ candidate[c].state # "ABSENT"
    BY <1>0, <1>1, HeldIsThere
  <2> QED BY <1>1, <2>1, AloneRowsStay
<1>2. CASE Open(w) /\ approval'[w] = approval[w]
  BY <1>0, <1>1, <1>2 DEF InStep
<1>3. CASE /\ Open(w) /\ approval[w].phase = "decided" /\ approval'[w].phase = "rebuilt"
           /\ approval'[w].of = approval[w].of /\ approval'[w].rows = approval[w].rows
  BY <1>0, <1>1, <1>3 DEF InStep
<1>4. CASE Entering(w)
  <2>1. candidate' = candidate
    BY <1>0, <1>4, EnteredRows
  <2>2. CASE approval'[w].phase = "refused" /\ DOMAIN approval'[w].rows = {}
    BY <2>2
  <2>3. CASE \E a \in sent :
                /\ approval'[w].of = a /\ approval'[w].phase \in {"read", "refusing"}
                /\ DOMAIN approval'[w].rows = {a.candidate}
                /\ approval'[w].rows[a.candidate] = candidate[a.candidate]
                /\ approval'[w].phase = "read" => ~Refusable(candidate[a.candidate], a)
    <3>1. PICK a \in sent :
                /\ approval'[w].of = a /\ approval'[w].phase \in {"read", "refusing"}
                /\ DOMAIN approval'[w].rows = {a.candidate}
                /\ approval'[w].rows[a.candidate] = candidate[a.candidate]
                /\ approval'[w].phase = "read" => ~Refusable(candidate[a.candidate], a)
      BY <2>3
    <3>2. a.decision \in {"APPROVE", "WITHDRAW"}
      BY <1>0 DEF ReviewTyped, SentTyped, Approval
    <3>3. approval'[w].phase = "read" => candidate[a.candidate].state = Expected(a, a.candidate)
      BY <3>1, <3>2 DEF Refusable, WrongState, Expected
    <3> QED BY <2>1, <3>1, <3>3
  <2>4. CASE \E a \in sent :
                 /\ Open(w) /\ approval[w].phase = "read" /\ approval[w].of = a
                 /\ approval'[w].of = a /\ approval'[w].phase = "checked"
                 /\ DOMAIN approval[w].rows = {a.candidate}
                 /\ DOMAIN approval'[w].rows = Changed(a)
                 /\ a.decision = "APPROVE" => ~UnnamedConflict(a)
                 /\ \A d \in Changed(a) : approval'[w].rows[d] =
                      IF d = a.candidate THEN approval[w].rows[d] ELSE candidate[d]
    <3>1. PICK a \in sent :
                 /\ Open(w) /\ approval[w].phase = "read" /\ approval[w].of = a
                 /\ approval'[w].of = a /\ approval'[w].phase = "checked"
                 /\ DOMAIN approval[w].rows = {a.candidate}
                 /\ DOMAIN approval'[w].rows = Changed(a)
                 /\ a.decision = "APPROVE" => ~UnnamedConflict(a)
                 /\ \A d \in Changed(a) : approval'[w].rows[d] =
                      IF d = a.candidate THEN approval[w].rows[d] ELSE candidate[d]
      BY <2>4
    <3>2. /\ candidate[a.candidate].state = Expected(a, a.candidate)
          /\ approval[w].rows[a.candidate].state = candidate[a.candidate].state
      BY <1>0, <3>1 DEF InStep
    <3>3. CASE c = a.candidate
      BY <2>1, <3>1, <3>2, <3>3
    <3>4. CASE c # a.candidate
      <4>1. a.supersedes # NoCandidate /\ c = a.supersedes
        BY <3>1, <3>4 DEF Changed, Superseded
      <4>2. a.decision = "APPROVE"
        BY <1>0, <4>1 DEF ReviewTyped, SentTyped, Approval
      <4>3. c \in ApprovedForSubject(a.candidate)
        BY <3>1, <4>1, <4>2 DEF UnnamedConflict, Superseded
      <4>4. candidate[c].state = "APPROVED"
        BY <4>3 DEF ApprovedForSubject
      <4> QED BY <2>1, <3>1, <3>4, <4>4 DEF Expected
    <3> QED BY <3>3, <3>4
  <2>5. CASE \E a \in sent :
                 /\ Open(w) /\ approval[w].phase = "checked" /\ approval[w].of = a
                 /\ approval'[w].of = a /\ approval'[w].phase = "decided"
                 /\ DOMAIN approval[w].rows = Changed(a)
                 /\ DOMAIN approval'[w].rows = Changed(a)
                 /\ \A d \in Changed(a) : /\ approval'[w].rows[d].terms = approval[w].rows[d].terms
                                          /\ approval'[w].rows[d].state = Target(a, d)
    BY <1>0, <2>1, <2>5 DEF InStep
  <2> QED BY <1>0, <1>4, <2>2, <2>3, <2>4, <2>5, EnteredRows
<1> QED BY <1>0, <1>2, <1>3, <1>4, TransactionStep

(* A transaction checks its delivery against every approved action, and     *)
(* none is approved while it is open.                                       *)
LEMMA NoRivalKept ==
  ASSUME Alone, NoRival, [ReviewNext]_reviewVars, Serial'
  PROVE  NoRival'
<1>0. ReviewTyped /\ Transactions
  BY DEF Alone, TermsInvariant
<1> SUFFICES ASSUME NEW w \in Worker, approval'[w].phase \in {"checked", "decided", "rebuilt"},
                    approval'[w].of.decision = "APPROVE",
                    NEW o \in CandidateId, o # approval'[w].of.candidate,
                    candidate'[o].state = "APPROVED",
                    Subject[o[1]] = Subject[approval'[w].of.candidate[1]]
             PROVE  o \in Changed(approval'[w].of)
  BY DEF NoRival, ApprovedForSubject, Changed, Superseded
<1>1. Open(w)'
  BY DEF Open
<1>2. CASE Open(w) /\ approval'[w].of = approval[w].of
           /\ approval[w].phase \in {"checked", "decided", "rebuilt"}
  <2>1. candidate[o].state = "APPROVED"
    BY <1>1, <1>2, AloneRowsStay
  <2>2. o \in ApprovedForSubject(approval[w].of.candidate)
    BY <1>2, <2>1 DEF ApprovedForSubject
  <2> QED BY <1>2, <2>2 DEF NoRival
<1>3. CASE Entering(w) /\ approval'[w].phase = "checked"
  <2>1. PICK a \in sent : approval'[w].of = a /\ (a.decision = "APPROVE" => ~UnnamedConflict(a))
    BY <1>0, <1>3, EnteredRows
  <2>2. candidate' = candidate
    BY <1>0, <1>3, EnteredRows
  <2>3. o \in ApprovedForSubject(a.candidate)
    BY <2>1, <2>2 DEF ApprovedForSubject
  <2> QED BY <2>1, <2>3 DEF UnnamedConflict, Changed
<1>4. CASE Entering(w) /\ approval'[w].phase # "checked"
  <2>1. /\ Open(w) /\ approval[w].phase = "checked" /\ approval'[w].of = approval[w].of
    BY <1>0, <1>4, EnteredRows
  <2> QED BY <1>2, <2>1
<1> QED BY <1>0, <1>1, <1>2, <1>3, <1>4, TransactionStep

(* A decision is not taken back.                                            *)
LEMMA RowsFollow ==
  ASSUME Alone, [ReviewNext]_reviewVars, NEW c \in CandidateId, candidate[c].state # "ABSENT"
  PROVE  /\ candidate'[c].terms = candidate[c].terms
         /\ \/ candidate'[c].state = candidate[c].state
            \/ \E w \in Worker : /\ Commit(w) /\ Open(w) /\ c \in DOMAIN approval[w].rows
                                 /\ candidate[c].state = Expected(approval[w].of, c)
                                 /\ candidate'[c].state = Target(approval[w].of, c)
<1>0. TermsInvariant /\ InStep
  BY DEF Alone
<1>1. candidate'[c].terms = candidate[c].terms
  BY <1>0, TermsStay DEF TermsInvariant
<1>2. ASSUME NEW w \in Worker, Open(w), c \in DOMAIN approval[w].rows,
             approval[w].phase = "refusing", candidate'[c].state = approval[w].rows[c].state
      PROVE  candidate'[c].state = candidate[c].state
  BY <1>0, <1>2 DEF InStep
<1>3. ASSUME NEW w \in Worker, Commit(w), Open(w), c \in DOMAIN approval[w].rows,
             candidate'[c] = approval[w].rows[c]
      PROVE  /\ candidate[c].state = Expected(approval[w].of, c)
             /\ candidate'[c].state = Target(approval[w].of, c)
  <2>1. approval[w].phase = "rebuilt"
    BY <1>3 DEF Commit
  <2> QED BY <1>0, <1>3, <2>1 DEF InStep
<1> QED BY <1>0, <1>1, <1>2, <1>3, RowChanges DEF TermsInvariant

(* Of one subject, one action is approved at most.                          *)
LEMMA OneApprovedKept ==
  ASSUME Alone, NoRival, OneApproved, [ReviewNext]_reviewVars
  PROVE  OneApproved'
<1>0. ReviewTyped /\ Transactions
  BY DEF Alone, TermsInvariant
<1>1. ASSUME NEW x \in CandidateId, candidate'[x].state = "APPROVED", candidate[x].state # "APPROVED"
      PROVE  \E w \in Worker : /\ Commit(w) /\ Open(w) /\ x = approval[w].of.candidate
                               /\ approval[w].of.decision = "APPROVE"
  <2>1. candidate[x].state # "ABSENT"
    BY <1>0, <1>1, RowAppears
  <2>2. PICK w \in Worker : /\ Commit(w) /\ Open(w)
                            /\ candidate'[x].state = Target(approval[w].of, x)
    BY <1>1, <2>1, RowsFollow
  <2>3. approval[w].of \in Approval
    BY <1>0, <2>2, OpenIsTransaction DEF ReviewTyped, OpenTransaction
  <2>4. approval[w].of.decision \in {"APPROVE", "WITHDRAW"}
    BY <2>3 DEF Approval
  <2> QED BY <1>1, <2>2, <2>4 DEF Target
<1>2. ASSUME NEW x \in CandidateId, NEW y \in CandidateId, x # y,
             candidate'[x].state = "APPROVED", candidate[x].state # "APPROVED",
             candidate'[y].state = "APPROVED", Subject[x[1]] = Subject[y[1]]
      PROVE  FALSE
  <2>1. PICK w \in Worker : /\ Commit(w) /\ Open(w) /\ x = approval[w].of.candidate
                            /\ approval[w].of.decision = "APPROVE"
    BY <1>1, <1>2
  <2>2. candidate[y].state = "APPROVED"
    <3>1. ASSUME candidate[y].state # "APPROVED" PROVE FALSE
      <4>1. PICK v \in Worker : Open(v) /\ y = approval[v].of.candidate
        BY <1>1, <1>2, <3>1
      <4>2. v = w
        BY <2>1, <4>1 DEF Alone, Serial
      <4> QED BY <1>2, <2>1, <4>1, <4>2
    <3> QED BY <3>1
  <2>3. approval[w].phase = "rebuilt" /\ candidate' = RowsSeen(w)
    BY <2>1 DEF Commit
  <2>4. y \in Changed(approval[w].of)
    BY <1>2, <2>1, <2>2, <2>3 DEF NoRival, ApprovedForSubject
  <2>5. y \in DOMAIN approval[w].rows
    BY <1>0, <2>1, <2>3, <2>4 DEF Transactions, TransactionOpen, Holds
  <2>6. candidate'[y] = approval[w].rows[y]
    BY <1>0, <2>1, <2>3, <2>5, SeenRows
  <2>7. approval[w].rows[y].state = Target(approval[w].of, y)
    BY <2>1, <2>3, <2>5 DEF Alone, InStep
  <2> QED BY <1>2, <2>1, <2>6, <2>7 DEF Target
<1> SUFFICES ASSUME NEW c \in CandidateId, NEW o \in CandidateId, c # o,
                    candidate'[c].state = "APPROVED", candidate'[o].state = "APPROVED",
                    Subject[c[1]] = Subject[o[1]]
             PROVE  FALSE
  BY DEF OneApproved
<1>3. CASE candidate[c].state = "APPROVED" /\ candidate[o].state = "APPROVED"
  BY <1>3 DEF OneApproved
<1> QED BY <1>2, <1>3

SerialInvariant == TermsInvariant /\ InStep /\ NoRival /\ OneApproved

(* While researchers insert apart and decisions are applied one at a time.  *)
LEMMA SerialKeeps == ReviewSpec /\ []InsertsApart /\ []Serial => []SerialInvariant
<1>1. ReviewInit => InStep /\ NoRival /\ OneApproved
  <2> SUFFICES ASSUME ReviewInit PROVE InStep /\ NoRival /\ OneApproved
    OBVIOUS
  <2>1. \A c \in CandidateId : candidate[c].state = "ABSENT"
    BY DEF ReviewInit, NoRow
  <2>2. \A w \in Worker : approval[w].phase = "idle"
    BY DEF ReviewInit, NoApproval
  <2> QED BY <2>1, <2>2 DEF InStep, NoRival, OneApproved, Open
<1>2. ASSUME TermsInvariant, InStep /\ NoRival /\ OneApproved, Serial, Serial',
             [ReviewNext]_reviewVars
      PROVE  (InStep /\ NoRival /\ OneApproved)'
  BY <1>2, InStepKept, NoRivalKept, OneApprovedKept DEF Alone
<1>3. TermsInvariant /\ (InStep /\ NoRival /\ OneApproved) => SerialInvariant
  BY DEF SerialInvariant
<1> QED BY <1>1, <1>2, <1>3, TermsAreHeld, PTL DEF ReviewSpec

(* While no two transactions about decisions overlap and researchers insert *)
(* apart, two actions of one subject are never approved together.           *)
THEOREM OneApprovedPerSubject ==
  ReviewSpec /\ []InsertsApart /\ []Serial => []OneApproved
<1>1. SerialInvariant => OneApproved
  BY DEF SerialInvariant
<1> QED BY <1>1, SerialKeeps, PTL

(* Under the same, a decision is not taken back: the terms of a candidate   *)
(* never change, and what is withdrawn or superseded stays so.              *)
THEOREM DecisionsAlwaysStand ==
  ReviewSpec /\ []InsertsApart /\ []Serial => DecisionsStand
<1>1. ASSUME SerialInvariant, Serial, [ReviewNext]_reviewVars
      PROVE  [\A c \in CandidateId : candidate[c].state # "ABSENT" =>
       /\ candidate'[c].terms = candidate[c].terms
       /\ candidate'[c].state # candidate[c].state =>
            <<candidate[c].state, candidate'[c].state>> \in
              {<<"REVIEW_REQUIRED", "APPROVED">>, <<"APPROVED", "WITHDRAWN">>,
               <<"APPROVED", "SUPERSEDED">>}]_reviewVars
  <2>1. Alone /\ ReviewTyped
    BY <1>1 DEF SerialInvariant, Alone, TermsInvariant
  <2>2. ASSUME NEW w \in Worker, Open(w)
        PROVE  /\ approval[w].of.decision \in {"APPROVE", "WITHDRAW"}
               /\ \A c \in DOMAIN approval[w].rows :
                    c # approval[w].of.candidate => approval[w].of.decision = "APPROVE"
    <3>1. PICK a \in sent : a = approval[w].of /\ Holds(approval[w].phase, a, approval[w].rows)
      BY <2>1, <2>2 DEF Alone, TermsInvariant, Transactions, TransactionOpen
    <3>2. a \in Approval /\ (a.decision = "WITHDRAW" => a.supersedes = NoCandidate)
      BY <2>1, DeliveredRows
    <3>3. a.decision \in {"APPROVE", "WITHDRAW"}
      BY <3>2 DEF Approval
    <3>4. DOMAIN approval[w].rows \subseteq Changed(a)
      BY <3>1 DEF Holds
    <3> QED BY <3>1, <3>2, <3>3, <3>4 DEF Changed, Superseded
  <2>3. ASSUME NEW w \in Worker, Open(w), NEW c \in DOMAIN approval[w].rows
        PROVE  <<Expected(approval[w].of, c), Target(approval[w].of, c)>> \in
                 {<<"REVIEW_REQUIRED", "APPROVED">>, <<"APPROVED", "WITHDRAWN">>,
                  <<"APPROVED", "SUPERSEDED">>}
    BY <2>2, <2>3 DEF Expected, Target
  <2> QED BY <1>1, <2>1, <2>3, RowsFollow
<1> QED BY <1>1, SerialKeeps, PTL DEF ReviewSpec, DecisionsStand

-----------------------------------------------------------------------------
(* The rebuild is of what is decided                                        *)

(* What a rebuilt transaction holds is what a rebuild would give now, and   *)
(* what it replaces is what is current now.                                 *)
Fresh ==
  \A w \in Worker : approval[w].phase = "rebuilt" =>
    /\ approval[w].content = Rebuilt(w)
    /\ approval[w].current = Current(YearOf[approval[w].of.candidate[1]])

(* The rebuild depends on the rows of the transaction and on what else is   *)
(* approved, of which nothing changes while no other is open.               *)
LEMMA RebuiltStays ==
  ASSUME Alone, [ReviewNext]_reviewVars, Serial', NEW w \in Worker, Open(w), Open(w)',
         approval[w].phase \in {"checked", "decided", "rebuilt"},
         approval'[w].of = approval[w].of, approval'[w].rows = approval[w].rows
  PROVE  Rebuilt(w)' = Rebuilt(w)
<1>1. DOMAIN approval[w].rows = Changed(approval[w].of)
      /\ Changed(approval[w].of) \subseteq CandidateId
  <2>1. PICK a \in sent : a = approval[w].of /\ Holds(approval[w].phase, a, approval[w].rows)
    BY DEF Alone, TermsInvariant, Transactions, TransactionOpen
  <2> QED BY <2>1, DeliveredRows DEF Holds, Alone, TermsInvariant
<1>2. \A c \in CandidateId :
        /\ RowsSeen(w)'[c] = IF c \in Changed(approval[w].of) THEN approval[w].rows[c] ELSE candidate'[c]
        /\ RowsSeen(w)[c] = IF c \in Changed(approval[w].of) THEN approval[w].rows[c] ELSE candidate[c]
  BY <1>1 DEF RowsSeen
<1>3. \A c \in CandidateId :
        /\ RowsSeen(w)'[c].state = "APPROVED" <=> RowsSeen(w)[c].state = "APPROVED"
        /\ RowsSeen(w)[c].state = "APPROVED" => RowsSeen(w)'[c].terms = RowsSeen(w)[c].terms
  <2>1. \A c \in CandidateId :
          \/ candidate'[c].terms = candidate[c].terms /\ candidate'[c].state = candidate[c].state
          \/ candidate[c].state = "ABSENT" /\ candidate'[c].state = "REVIEW_REQUIRED"
    BY AloneRowsStay
  <2> QED BY <1>2, <2>1
<1>4. ApprovedActions(w)' = ApprovedActions(w) /\ ApprovedActions(w) \subseteq CandidateId
  BY <1>3 DEF ApprovedActions
<1> DEFINE year == YearOf[approval[w].of.candidate[1]]
<1> DEFINE reached == {x \in ApprovedActions(w) : Reaches(x, year)}
<1> DEFINE applied == {Effect(RowsSeen(w), o) : o \in reached}
<1>5. \A o \in reached : RowsSeen(w)'[o].terms = RowsSeen(w)[o].terms
  BY <1>3 DEF ApprovedActions
<1>6. {<<Subject[o[1]], RowsSeen(w)'[o].terms>> : o \in reached}
        = {<<Subject[o[1]], RowsSeen(w)[o].terms>> : o \in reached}
  <2> HIDE DEF reached
  <2> QED BY <1>5
<1>7. reached' = reached
  BY <1>4 DEF Reaches
<1>8. applied' = applied
  <2>1. applied = {<<Subject[o[1]], RowsSeen(w)[o].terms>> : o \in reached}
    BY DEF Effect
  <2>2. applied' = {<<Subject[o[1]], RowsSeen(w)'[o].terms>> : o \in reached}
    <3>1. applied' = {Effect(RowsSeen(w)', o) : o \in reached'}
      OBVIOUS
    <3> QED BY <1>7, <3>1 DEF Effect
  <2> QED BY <1>6, <2>1, <2>2
<1>9. Rebuilt(w) = [instrument |-> InstrumentOf[approval[w].of.candidate[1]], year |-> year,
                    raw |-> approval[w].of.candidate[2], applied |-> applied]
  BY DEF Rebuilt
<1>10. Rebuilt(w)' = [instrument |-> InstrumentOf[approval'[w].of.candidate[1]], year |-> year',
                      raw |-> approval'[w].of.candidate[2], applied |-> applied']
  BY DEF Rebuilt
<1> HIDE DEF applied
<1> QED BY <1>8, <1>9, <1>10

(* What has been rebuilt stays what a rebuild would give.                   *)
LEMMA FreshKept ==
  ASSUME Alone, Fresh, [ReviewNext]_reviewVars, Serial'
  PROVE  Fresh'
<1>0. ReviewTyped /\ Transactions
  BY DEF Alone, TermsInvariant
<1> SUFFICES ASSUME NEW w \in Worker, approval'[w].phase = "rebuilt"
             PROVE  /\ approval'[w].content = Rebuilt(w)'
                    /\ approval'[w].current = Current(YearOf[approval[w].of.candidate[1]])'
  BY DEF Fresh
<1>1. /\ Open(w) /\ Open(w)' /\ approval[w].phase \in {"decided", "rebuilt"}
      /\ approval'[w].of = approval[w].of /\ approval'[w].rows = approval[w].rows
      /\ \/ approval'[w] = approval[w]
         \/ /\ Rebuild(w) /\ approval'[w].content = Rebuilt(w)
            /\ approval'[w].current = Current(WriteKey(w)[1])
  <2>1. Open(w)'
    BY DEF Open
  <2>2. ~Entering(w)
    BY <1>0, EnteredRows
  <2> QED BY <1>0, <2>1, <2>2, TransactionStep
<1>2. adjusted' = adjusted
  <2>1. ASSUME NEW v \in Worker, Commit(v) PROVE FALSE
    <3>1. Open(v) /\ approval' = [approval EXCEPT ![v] = NoApproval]
      BY <2>1 DEF Commit, Open
    <3>2. v = w
      BY <1>1, <3>1 DEF Alone, Serial
    <3>3. approval'[w].phase = "idle"
      BY <3>1, <3>2 DEF NoApproval, Alone, TermsInvariant, ReviewTyped, AdjustedTyped
    <3> QED BY <1>1, <3>3 DEF Open
  <2>2. ASSUME NEW v \in Worker, Entering(v) PROVE adjusted' = adjusted
    <3>1. PICK phase \in {"read", "checked", "decided", "refused", "refusing"}, a \in sent,
             D \in SUBSET CandidateId : \E R \in [D -> RowRecord] : Enter(v, a, phase, R)
      BY <1>0, <2>2, EnteredHolds
    <3> QED BY <3>1 DEF Enter
  <2> QED BY <2>1, <2>2, WhoMovesTransactions DEF Rebuild, RolledBack, RecordRefusal
<1>3. Rebuilt(w)' = Rebuilt(w)
  BY <1>1, RebuiltStays
<1>4. PICK y : y = YearOf[approval[w].of.candidate[1]]
  OBVIOUS
<1>5. Current(y)' = Current(y)
  BY <1>2 DEF Current
<1>6. Current(YearOf[approval[w].of.candidate[1]])' = Current(y)'
  BY <1>1, <1>4 DEF Current
<1>7. CASE approval'[w] = approval[w]
  BY <1>3, <1>4, <1>5, <1>6, <1>7 DEF Fresh
<1>8. CASE Rebuild(w) /\ approval'[w].content = Rebuilt(w)
           /\ approval'[w].current = Current(WriteKey(w)[1])
  <2>1. WriteKey(w)[1] = y
    BY <1>4 DEF WriteKey
  <2> QED BY <1>3, <1>5, <1>6, <1>8, <2>1
<1> QED BY <1>1, <1>7, <1>8

(* After a publication the new manifest is the current one of its year.     *)
LEMMA NewIsCurrent ==
  ASSUME ReviewTyped, NEW w \in Worker, approval[w].phase = "rebuilt",
         NEW y, y = approval[w].content.year, approval[w].current = Current(y),
         adjusted' = Published(w)
  PROVE  Current(y)' = NewManifest(w)
<1> DEFINE available == {m \in adjusted : m.year = y /\ m.status = "AVAILABLE"}
<1> DEFINE after == {m \in adjusted' : m.year = y /\ m.status = "AVAILABLE"}
<1>1. PICK cur : cur = approval[w].current
  OBVIOUS
<1>2. PICK new \in AdjustedManifest : new = NewManifest(w)
  BY PublishedTyped
<1>3. new.revision = cur.revision + 1 /\ new.year = y /\ new.status = "AVAILABLE"
  BY <1>1, <1>2 DEF NewManifest
<1>4. /\ available = {} => cur = NoManifestYet
      /\ available # {} => cur \in available /\ \A o \in available : o.revision <= cur.revision
      /\ cur \in AdjustedManifest \cup {NoManifestYet}
      /\ cur.revision \in Nat
  BY <1>1, CurrentNewest DEF ReviewTyped, AdjustedTyped
<1>5. adjusted \subseteq AdjustedManifest
  BY DEF ReviewTyped, AdjustedTyped
<1>6. new \in after
  BY <1>2, <1>3 DEF Published
<1>7. ASSUME NEW m \in after, m # new PROVE m \in available /\ m.revision < new.revision
  <2>1. m \in adjusted \/ (cur # NoManifestYet /\ m = [cur EXCEPT !.status = "SUPERSEDED"])
    BY <1>1, <1>2, <1>7 DEF Published
  <2>2. cur # NoManifestYet => [cur EXCEPT !.status = "SUPERSEDED"].status = "SUPERSEDED"
    BY <1>4 DEF AdjustedManifest
  <2>3. m \in available
    BY <2>1, <2>2
  <2>4. m.revision \in Nat
    BY <1>5, <2>3 DEF AdjustedManifest
  <2> QED BY <1>3, <1>4, <2>3, <2>4
<1>8. \A m \in after : m.revision <= new.revision
  <2>1. new.revision \in Nat
    BY DEF AdjustedManifest
  <2>2. \A m \in after : m # new => m.revision < new.revision /\ m.revision \in Nat
    BY <1>5, <1>7 DEF AdjustedManifest
  <2> QED BY <2>1, <2>2
<1>9. \A m \in after : (\A o \in after : o.revision <= m.revision) => m = new
  <2>1. \A m \in after : m # new => ~(new.revision <= m.revision)
    <3>1. new.revision \in Nat
      BY DEF AdjustedManifest
    <3>2. \A m \in after : m # new => m.revision < new.revision /\ m.revision \in Nat
      BY <1>5, <1>7 DEF AdjustedManifest
    <3> QED BY <3>1, <3>2
  <2> QED BY <1>6, <2>1
<1>10. Current(y)' = CHOOSE m \in after : \A o \in after : o.revision <= m.revision
  BY <1>6 DEF Current
<1> HIDE DEF after
<1> QED BY <1>2, <1>6, <1>8, <1>9, <1>10

(* The commit of a decision leaves the year of the candidate served by the  *)
(* rebuild that the decision made.                                          *)
LEMMA CommitTakesEffect ==
  ASSUME ReviewTyped, Transactions, Fresh, NEW w \in Worker, Commit(w)
  PROVE  \E c \in CandidateId : c = approval[w].of.candidate /\ Rebuilds(c)'
<1>1. Open(w) /\ candidate' = RowsSeen(w) /\ approval[w].phase = "rebuilt"
  BY DEF Commit, Open
<1>2. PICK c \in CandidateId : c = approval[w].of.candidate
  BY <1>1, RebuiltTyped
<1>3. PICK y : y = YearOf[c[1]]
  OBVIOUS
<1>4. PICK con \in Content : con = approval[w].content
  BY <1>1 DEF ReviewTyped, AdjustedTyped
<1>5. /\ con = Rebuilt(w)
      /\ approval[w].current = Current(y)
  BY <1>1, <1>2, <1>3, <1>4 DEF Fresh
<1> DEFINE applied == {Effect(RowsSeen(w), o) : o \in {x \in ApprovedActions(w) : Reaches(x, y)}}
<1>6. Rebuilt(w) = [instrument |-> InstrumentOf[c[1]], year |-> y, raw |-> c[2], applied |-> applied]
  BY <1>2, <1>3 DEF Rebuilt
<1>7. /\ con.instrument = InstrumentOf[c[1]] /\ con.year = y /\ con.raw = c[2]
      /\ con.applied = applied
  <2> HIDE DEF applied
  <2> QED BY <1>5, <1>6
<1>8. applied = {Effect(candidate', o) : o \in {x \in CandidateId :
          candidate'[x].state = "APPROVED" /\ Reaches(x, y)}}
  BY <1>1 DEF ApprovedActions
<1>9. Current(y)' # NoManifestYet /\ Current(y)'.content = con
  <2>1. CASE Unchanged(w)
    <3>1. adjusted' = adjusted
      BY <2>1 DEF Commit
    <3>2. Current(y)' = Current(y)
      BY <3>1 DEF Current
    <3> QED BY <1>4, <1>5, <2>1, <3>2 DEF Unchanged
  <2>2. CASE ~Unchanged(w)
    <3>1. adjusted' = Published(w)
      BY <2>2 DEF Commit
    <3>2. Current(y)' = NewManifest(w)
      BY <1>1, <1>4, <1>5, <1>7, <3>1, NewIsCurrent
    <3>3. NewManifest(w).content = con /\ NewManifest(w) \in AdjustedManifest
      BY <1>1, <1>4, PublishedTyped DEF NewManifest
    <3>4. NewManifest(w).year = y
      BY <1>4, <1>7 DEF NewManifest
    <3>5. NewManifest(w) # NoManifestYet
      BY DEF NewManifest, NoManifestYet
    <3> QED BY <3>2, <3>3, <3>5
  <2> QED BY <2>1, <2>2
<1>10. Rebuilds(c)'
  <2>1. PICK m : m = Current(y)'
    OBVIOUS
  <2> HIDE DEF applied
  <2>2. /\ m # NoManifestYet /\ m.content.raw = c[2] /\ m.content.instrument = InstrumentOf[c[1]]
        /\ m.content.applied = {Effect(candidate', o) : o \in {x \in CandidateId :
             candidate'[x].state = "APPROVED" /\ Reaches(x, y)}}
    BY <1>7, <1>8, <1>9, <2>1
  <2>3. Rebuilds(c)' = (/\ Current(y)' # NoManifestYet /\ Current(y)'.content.raw = c[2]
                        /\ Current(y)'.content.instrument = InstrumentOf[c[1]]
                        /\ Current(y)'.content.applied =
                             {Effect(candidate', o) : o \in {x \in CandidateId :
                                candidate'[x].state = "APPROVED" /\ Reaches(x, y)}})
    BY <1>3 DEF Rebuilds, Effect, Reaches
  <2> QED BY <2>1, <2>2, <2>3
<1> QED BY <1>2, <1>10

(* Only a commit approves or withdraws, and only the candidate it is of.    *)
LEMMA OnlyCommitDecides ==
  ASSUME Alone, [ReviewNext]_reviewVars, NEW c \in CandidateId,
         candidate'[c].state # candidate[c].state,
         candidate'[c].state \in {"APPROVED", "WITHDRAWN"}
  PROVE  \E w \in Worker : Commit(w) /\ c = approval[w].of.candidate
<1>1. candidate[c].state # "ABSENT"
  BY RowAppears DEF Alone, TermsInvariant
<1>2. PICK w \in Worker : Commit(w) /\ candidate'[c].state = Target(approval[w].of, c)
  BY <1>1, RowsFollow
<1> QED BY <1>2 DEF Target

(* While no two transactions about decisions overlap and researchers insert *)
(* apart, the transaction that approves or withdraws a candidate leaves its *)
(* year served by a rebuild, from the candidate's own raw revision, that    *)
(* applies exactly the actions approved then.                               *)
THEOREM DecisionsRebuild ==
  ReviewSpec /\ []InsertsApart /\ []Serial => DecisionTakesEffect
<1>1. ReviewInit => Fresh
  <2> SUFFICES ASSUME ReviewInit PROVE Fresh
    OBVIOUS
  <2>1. \A w \in Worker : approval[w].phase = "idle"
    BY DEF ReviewInit, NoApproval
  <2> QED BY <2>1 DEF Fresh
<1>2. ASSUME SerialInvariant, Serial, Serial', Fresh, [ReviewNext]_reviewVars
      PROVE  Fresh'
  BY <1>2, FreshKept DEF SerialInvariant, Alone
<1>3. ASSUME SerialInvariant, Serial, Fresh, [ReviewNext]_reviewVars
      PROVE  [\A c \in CandidateId :
                (candidate'[c].state # candidate[c].state
                   /\ candidate'[c].state \in {"APPROVED", "WITHDRAWN"}) => Rebuilds(c)']_reviewVars
  <2>0. Alone /\ ReviewTyped /\ Transactions
    BY <1>3 DEF SerialInvariant, Alone, TermsInvariant
  <2> SUFFICES ASSUME NEW c \in CandidateId, candidate'[c].state # candidate[c].state,
                      candidate'[c].state \in {"APPROVED", "WITHDRAWN"}
               PROVE  Rebuilds(c)'
    OBVIOUS
  <2>1. PICK w \in Worker : Commit(w) /\ c = approval[w].of.candidate
    BY <1>3, <2>0, OnlyCommitDecides
  <2>2. PICK d \in CandidateId : d = approval[w].of.candidate /\ Rebuilds(d)'
    BY <1>3, <2>0, <2>1, CommitTakesEffect
  <2>3. c = d
    BY <2>1, <2>2
  <2> QED BY <2>2, <2>3
<1> QED BY <1>1, <1>2, <1>3, SerialKeeps, PTL DEF ReviewSpec, DecisionTakesEffect

(* Under the same, a decision takes effect with its transaction and is not  *)
(* taken back.                                                              *)
THEOREM DecisionsAreHeld ==
  ReviewSpec /\ []InsertsApart /\ []Serial => DecisionsHold
BY DecisionsRebuild, DecisionsAlwaysStand DEF DecisionsHold
=============================================================================
