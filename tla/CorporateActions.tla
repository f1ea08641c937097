--------------------------- MODULE CorporateActions ---------------------------
(***************************************************************************)
(* Corporate actions from their research to the adjusted prices:            *)
(*  - the research function runs the latest due slot and records each       *)
(*    finding against the RAW manifest of its instrument and year           *)
(*    (corporate_action_research.py, corporate_action_discovery.py),        *)
(*  - the backend's relay delivers approvals and withdrawals, in any order  *)
(*    and any number of times, and a worker applies each in one catalog     *)
(*    transaction that also rebuilds the ADJUSTED dataset                   *)
(*    (corporate_actions/service.py, corporate_actions/regeneration.py).    *)
(* A worker dies, and a transaction rolls back, between any two steps; the  *)
(* object it wrote stays.  Reads lock nothing: a transaction writes whole   *)
(* rows as it read them, and waits only for rows another one wrote and has  *)
(* not committed.  Feeds and resolutions: one of each.                      *)
(***************************************************************************)
EXTENDS Integers, Sequences, FiniteSets, SequencesExt, FiniteSetsExt

CONSTANTS
  Instrument,      \* tickers, each an instrument of its own
  Event,           \* the provider's events
  InstrumentOf, YearOf, KindOf,  \* of an event
  Subject,         \* events of one instrument, kind and date are one subject
  Slot,            \* research slots, 1 .. n
  InWindow,        \* InWindow[s]: the events the slot's discovery window spans
  Worker, Researcher,
  MaxTerms,        \* bound, by event: the terms the provider comes up with
  MaxRaw, MaxRevision, MaxSent, MaxFaults   \* bounds

ActionYear == {YearOf[e] : e \in Event}
RawRevision == 1 .. MaxRaw
CandidateId == Event \X RawRevision
NoCandidate == <<"none", 0>>
ReviewState == {"REVIEW_REQUIRED", "APPROVED", "WITHDRAWN", "SUPERSEDED"}
Terms == 1 .. Max({MaxTerms[e] : e \in Event})

ASSUME CorporateActionsAssumption ==
  /\ IsFiniteSet(Event)
  /\ InstrumentOf \in [Event -> Instrument] /\ YearOf \in [Event -> Nat]
  /\ KindOf \in [Event -> {"STOCK_SPLIT", "CASH_DIVIDEND"}]
  /\ Slot \subseteq Nat \ {0}
  /\ InWindow \in [Slot -> SUBSET Event]
  /\ MaxTerms \in [Event -> Nat \ {0}]
  /\ {MaxRaw, MaxRevision, MaxSent, MaxFaults} \subseteq Nat

VARIABLES
  provider,   \* the terms the provider serves of each event
  raw,        \* the AVAILABLE RAW revision of each instrument and year, 0 if none
  due,        \* the latest due slot, 0 before the first
  slotRun,    \* the pipeline_runs row of each slot
  researcher, \* the research each invocation is in
  candidate,  \* rows of corporate_actions
  sent,       \* what the relay may deliver
  adjusted,   \* ADJUSTED manifests
  object,     \* adjusted objects: what each create-only key holds
  approval,   \* the transaction each worker is in
  reviewFaults \* bound

reviewVars == <<provider, raw, due, slotRun, researcher, candidate, sent, adjusted,
                object, approval, reviewFaults>>

NoRow == [state |-> "ABSENT", terms |-> 0, history |-> {}]
(* history: the deliveries a row records, the REFUSED ones apart.           *)
Entry == [delivery : 1 .. MaxSent, sequence : 1 .. MaxSent, refused : BOOLEAN]
(* What bars an adjusted object holds: the raw bars of one manifest with    *)
(* every approved action that takes effect after some of them.              *)
Content == [instrument : Instrument, year : ActionYear, raw : RawRevision,
            applied : SUBSET ({Subject[e] : e \in Event} \X Terms)]
NoContent == [instrument |-> "none"]
AdjustedManifest == [instrument : Instrument, year : ActionYear, revision : 1 .. MaxRevision,
                     status : {"AVAILABLE", "SUPERSEDED"}, content : Content]
NoManifestYet == [revision |-> 0]
Approval == [id : 1 .. MaxSent, sequence : 1 .. MaxSent, candidate : CandidateId,
             decision : {"APPROVE", "WITHDRAW"}, terms : Terms,
             supersedes : CandidateId \cup {NoCandidate}]
(* into: the row that a finding was not found to have, and is to be written.*)
NoResearch == [slot |-> 0, begun |-> FALSE, found |-> <<>>, done |-> 0, into |-> NoCandidate]
NoApproval == [phase |-> "idle"]

ReviewInit ==
  /\ provider = [e \in Event |-> 1]
  /\ raw = [iy \in Instrument \X ActionYear |-> 0]
  /\ due = 0
  /\ slotRun = [s \in Slot |-> "ABSENT"]
  /\ researcher = [r \in Researcher |-> NoResearch]
  /\ candidate = [c \in CandidateId |-> NoRow]
  /\ sent = {}
  /\ adjusted = {}
  /\ object = [k \in ActionYear \X (1 .. MaxRevision) |-> NoContent]
  /\ approval = [w \in Worker |-> NoApproval]
  /\ reviewFaults = 0

-----------------------------------------------------------------------------
(* The provider and the pipeline around it.                                 *)
Amend(e) ==
  /\ provider[e] < MaxTerms[e]
  /\ provider' = [provider EXCEPT ![e] = @ + 1]
  /\ UNCHANGED <<raw, due, slotRun, researcher, candidate, sent, adjusted, object, approval,
                 reviewFaults>>

PublishRaw(i, y) ==
  /\ raw[<<i, y>>] < MaxRaw
  /\ raw' = [raw EXCEPT ![<<i, y>>] = @ + 1]
  /\ UNCHANGED <<provider, due, slotRun, researcher, candidate, sent, adjusted, object,
                 approval, reviewFaults>>

SlotDue ==
  /\ due + 1 \in Slot
  /\ due' = due + 1
  /\ UNCHANGED <<provider, raw, slotRun, researcher, candidate, sent, adjusted, object,
                 approval, reviewFaults>>

-----------------------------------------------------------------------------
(* Research: one discovery for the slot, then finding by finding.           *)
(* A discovery takes every event of the slot's window, once.                *)
Found(s) == SetToSeq({<<e, provider[e]>> : e \in InWindow[s]})

(* The invocation names its slot, which a late one may find overtaken, and  *)
(* looks whether the slot has succeeded before it begins it.                *)
StartSlot(r, s) ==
  /\ researcher[r] = NoResearch /\ s <= due
  /\ slotRun[s] # "SUCCEEDED"
  /\ researcher' = [researcher EXCEPT ![r].slot = s]
  /\ UNCHANGED <<provider, raw, due, slotRun, candidate, sent, adjusted, object, approval,
                 reviewFaults>>

BeginSlot(r) ==
  /\ researcher[r].slot # 0 /\ ~researcher[r].begun
  /\ slotRun' = [slotRun EXCEPT ![researcher[r].slot] = "RUNNING"]
  /\ researcher' = [researcher EXCEPT ![r].begun = TRUE, ![r].found = Found(researcher[r].slot)]
  /\ UNCHANGED <<provider, raw, due, candidate, sent, adjusted, object, approval, reviewFaults>>

Source(e) == raw[<<InstrumentOf[e], YearOf[e]>>]
Unattributed(f) == Source(f[1]) = 0
(* Mutant: a finding is known only by its terms.                            *)
KnownByTerms(f) == ~Unattributed(f) /\ candidate[<<f[1], Source(f[1])>>].terms = f[2]
Known(f) == ~Unattributed(f) /\ candidate[<<f[1], Source(f[1])>>].state # "ABSENT"
(* Mutant: other terms of a known event are dropped.                        *)
ConflictsNever(f) == Known(f) /\ FALSE
Conflicts(f) == Known(f) /\ candidate[<<f[1], Source(f[1])>>].terms # f[2]
Researched(f) == [state |-> "REVIEW_REQUIRED", terms |-> f[2], history |-> {}]
Pending(r) == researcher[r].done < Len(researcher[r].found)
NextFinding(r) == researcher[r].found[researcher[r].done + 1]
Into(f) == <<f[1], Source(f[1])>>

(* A finding is persisted on its own, and a later one that fails keeps it:  *)
(* a look for its row, then an upsert, which merges with a row that is      *)
(* there by then and waits for one that a transaction has written.          *)
Look(r) ==
  /\ Pending(r) /\ researcher[r].into = NoCandidate
  /\ ~Unattributed(NextFinding(r)) /\ ~Conflicts(NextFinding(r))
  /\ researcher' = IF Known(NextFinding(r)) THEN [researcher EXCEPT ![r].done = @ + 1]
                   ELSE [researcher EXCEPT ![r].into = Into(NextFinding(r))]
  /\ UNCHANGED <<provider, raw, due, slotRun, candidate, sent, adjusted, object, approval,
                 reviewFaults>>

Written(w) ==
  IF approval[w].phase \in {"decided", "rebuilt"} THEN DOMAIN approval[w].rows ELSE {}

Persist(r) ==
  /\ researcher[r].into # NoCandidate
  /\ \A w \in Worker : researcher[r].into \notin Written(w)
  /\ candidate' = [candidate EXCEPT ![researcher[r].into] = Researched(NextFinding(r))]
  /\ researcher' = [researcher EXCEPT ![r].done = @ + 1, ![r].into = NoCandidate]
  /\ UNCHANGED <<provider, raw, due, slotRun, sent, adjusted, object, approval, reviewFaults>>

EndSlot(r, status) ==
  /\ slotRun' = [slotRun EXCEPT ![researcher[r].slot] = status]
  /\ researcher' = [researcher EXCEPT ![r] = NoResearch]
  /\ UNCHANGED <<provider, raw, due, candidate, sent, adjusted, object, approval>>

SlotSucceeds(r) ==
  researcher[r].begun /\ ~Pending(r) /\ EndSlot(r, "SUCCEEDED") /\ UNCHANGED reviewFaults

(* UnknownSourceManifestError and ConflictingResearchError end the slot,    *)
(* and with it the findings behind the one that raised.                     *)
SlotFails(r) ==
  /\ Pending(r) /\ researcher[r].into = NoCandidate
  /\ Unattributed(NextFinding(r)) \/ Conflicts(NextFinding(r))
  /\ EndSlot(r, "FAILED")
  /\ UNCHANGED reviewFaults

(* The provider cannot be asked, or a page of it contradicts itself.        *)
DiscoveryFails(r) ==
  /\ researcher[r].begun /\ researcher[r].done = 0 /\ researcher[r].into = NoCandidate
  /\ reviewFaults < MaxFaults
  /\ reviewFaults' = reviewFaults + 1
  /\ EndSlot(r, "FAILED")

ResearchDies(r) ==
  /\ researcher[r] # NoResearch /\ reviewFaults < MaxFaults
  /\ reviewFaults' = reviewFaults + 1
  /\ researcher' = [researcher EXCEPT ![r] = NoResearch]
  /\ UNCHANGED <<provider, raw, due, slotRun, candidate, sent, adjusted, object, approval>>

-----------------------------------------------------------------------------
(* The backend decides a candidate it sees; the aggregate is the candidate. *)
(* It withdraws and supersedes only what it has approved itself.            *)
Sequence(c) == Cardinality({a \in sent : a.candidate = c}) + 1
Backend(c) == {a \in sent : a.candidate = c /\ a.decision = "APPROVE"}
Decide(c, decision, supersedes) ==
  /\ Cardinality(sent) < MaxSent
  /\ candidate[c].state # "ABSENT"
  /\ IF decision = "WITHDRAW" THEN supersedes = NoCandidate /\ Backend(c) # {}
     ELSE supersedes # NoCandidate => /\ supersedes # c /\ Backend(supersedes) # {}
                                      /\ Subject[supersedes[1]] = Subject[c[1]]
  /\ sent' = sent \cup {[id |-> Cardinality(sent) + 1, sequence |-> Sequence(c),
                         candidate |-> c, decision |-> decision,
                         terms |-> candidate[c].terms, supersedes |-> supersedes]}
  /\ UNCHANGED <<provider, raw, due, slotRun, researcher, candidate, adjusted, object, approval,
                 reviewFaults>>

(* What the worker checks of a delivery against the row it has read.        *)
Applied(row) == {h \in row.history : ~h.refused}
Duplicate(row, a) == \E h \in Applied(row) : h.delivery = a.id
Reversed(row, a) == \E h \in Applied(row) : a.sequence <= h.sequence
StaleContent(row, a) == row.terms # a.terms
WrongState(row, a) ==
  row.state # (IF a.decision = "WITHDRAW" THEN "APPROVED" ELSE "REVIEW_REQUIRED")
Refusable(row, a) == Reversed(row, a) \/ StaleContent(row, a) \/ WrongState(row, a)

(* Mutant: only the same event is the same subject.                         *)
ApprovedForEvent(c) == {o \in CandidateId \ {c} : candidate[o].state = "APPROVED" /\ o[1] = c[1]}
ApprovedForSubject(c) ==
  {o \in CandidateId \ {c} : candidate[o].state = "APPROVED" /\ Subject[o[1]] = Subject[c[1]]}
Superseded(a) == IF a.supersedes = NoCandidate THEN {} ELSE {a.supersedes}
Changed(a) == {a.candidate} \cup Superseded(a)
UnnamedConflict(a) == ApprovedForSubject(a.candidate) # Superseded(a)

(* rows: what a transaction has read, and from its write on what it wrote.  *)
RowsRead(cs) == [c \in cs |-> candidate[c]]
Enter(w, a, phase, rows) ==
  /\ approval' = [approval EXCEPT ![w] =
       [phase |-> phase, of |-> a, rows |-> rows, current |-> NoManifestYet,
        content |-> NoContent]]
  /\ UNCHANGED <<provider, raw, due, slotRun, researcher, candidate, sent, adjusted, object>>

(* A plain SELECT of the candidate's row: nothing is locked.                *)
Read(w, a) ==
  /\ approval[w] = NoApproval
  /\ ~Duplicate(candidate[a.candidate], a)
  /\ IF Refusable(candidate[a.candidate], a) THEN Enter(w, a, "refused", RowsRead({}))
     ELSE Enter(w, a, "read", RowsRead({a.candidate}))
  /\ UNCHANGED reviewFaults

(* What the backend's operators and audits say of a delivery may refuse it  *)
(* before the transaction.                                                  *)
Unverified(w, a) ==
  /\ approval[w] = NoApproval /\ reviewFaults < MaxFaults
  /\ reviewFaults' = reviewFaults + 1
  /\ Enter(w, a, "refused", RowsRead({}))

(* The second SELECT, for an approval, of what is approved of the subject.  *)
ReadSubject(w) ==
  LET a == approval[w].of
  IN /\ approval[w].phase = "read"
     /\ IF a.decision = "APPROVE" /\ UnnamedConflict(a) THEN Enter(w, a, "refused", RowsRead({}))
        ELSE Enter(w, a, "checked", [c \in Changed(a) |->
               IF c = a.candidate THEN approval[w].rows[c] ELSE candidate[c]])
     /\ UNCHANGED reviewFaults

(* The rows a transaction writes: the whole row, as it was read.            *)
Decided(row, a, state) ==
  [row EXCEPT !.state = state,
              !.history = @ \cup {[delivery |-> a.id, sequence |-> a.sequence,
                                   refused |-> FALSE]}]
(* Mutant: for_decision without its case for a withdrawal.                  *)
TargetRejects(a, c) ==
  IF c # a.candidate THEN "SUPERSEDED"
  ELSE IF a.decision = "WITHDRAW" THEN "REJECTED" ELSE "APPROVED"
Target(a, c) ==
  IF c # a.candidate THEN "SUPERSEDED"
  ELSE IF a.decision = "WITHDRAW" THEN "WITHDRAWN" ELSE "APPROVED"
Transition(a, rows) == [c \in DOMAIN rows |-> Decided(rows[c], a, Target(a, c))]

(* A row another open transaction wrote is waited for, and then overwritten.*)
Locked(w) == UNION {Written(v) : v \in Worker \ {w}}
Write(w) ==
  /\ approval[w].phase = "checked"
  /\ DOMAIN approval[w].rows \cap Locked(w) = {}
  /\ Enter(w, approval[w].of, "decided", Transition(approval[w].of, approval[w].rows))
  /\ UNCHANGED reviewFaults

(* A refusal is recorded in a transaction of its own, which reads the row   *)
(* again and writes it back; the same refusal is recorded once.             *)
Refusal(a) == [delivery |-> a.id, sequence |-> a.sequence, refused |-> TRUE]
ReadRefused(w) ==
  LET a == approval[w].of
  IN /\ approval[w].phase = "refused"
     /\ Enter(w, a, "refusing", RowsRead({a.candidate}))
     /\ UNCHANGED reviewFaults

RecordRefusal(w) ==
  LET c == approval[w].of.candidate
  IN /\ approval[w].phase = "refusing"
     /\ c \notin Locked(w)
     /\ approval' = [approval EXCEPT ![w] = NoApproval]
     /\ candidate' = [candidate EXCEPT ![c] =
          [approval[w].rows[c] EXCEPT !.history = @ \cup {Refusal(approval[w].of)}]]
     /\ UNCHANGED <<provider, raw, due, slotRun, researcher, sent, adjusted, object,
                    reviewFaults>>

-----------------------------------------------------------------------------
(* The rebuild, inside the transaction: committed rows, and its own.        *)
RowsSeen(w) == [c \in CandidateId |->
  IF c \in DOMAIN approval[w].rows THEN approval[w].rows[c] ELSE candidate[c]]
(* Mutant: the rebuild reads what is committed.                             *)
ApprovedCommitted(w) ==
  {c \in CandidateId : candidate[c].state = "APPROVED" /\ approval[w].phase # "idle"}
ApprovedActions(w) == {c \in CandidateId : RowsSeen(w)[c].state = "APPROVED"}
(* A manifest's bars are adjusted by every approved action that takes       *)
(* effect after some of them, of whatever instrument.                       *)
Reaches(c, year) == YearOf[c[1]] >= year
Effect(rows, c) == <<Subject[c[1]], rows[c].terms>>
Rebuilt(w) ==
  LET c == approval[w].of.candidate
      year == YearOf[c[1]]
  IN [instrument |-> InstrumentOf[c[1]], year |-> year, raw |-> c[2],
      applied |-> {Effect(RowsSeen(w), o) : o \in {x \in ApprovedActions(w) : Reaches(x, year)}}]
(* A dividend is priced by the last bar before it.                          *)
Unpriced(w) ==
  \E c \in ApprovedActions(w) : /\ KindOf[c[1]] = "CASH_DIVIDEND"
                                /\ ~Reaches(c, YearOf[approval[w].of.candidate[1]])
(* The newest AVAILABLE manifest of the year, whatever its instrument.      *)
Current(year) ==
  LET available == {m \in adjusted : m.year = year /\ m.status = "AVAILABLE"}
  IN IF available = {} THEN NoManifestYet
     ELSE CHOOSE m \in available : \A o \in available : o.revision <= m.revision
WriteKey(w) == LET y == YearOf[approval[w].of.candidate[1]]
               IN <<y, Current(y).revision + 1>>

(* Object bytes are written before the publication; the key is create-only. *)
Rebuild(w) ==
  /\ approval[w].phase = "decided"
  /\ ~Unpriced(w)
  /\ WriteKey(w)[2] <= MaxRevision
  /\ object[WriteKey(w)] \in {NoContent, Rebuilt(w)}
  /\ object' = [object EXCEPT ![WriteKey(w)] = Rebuilt(w)]
  /\ approval' = [approval EXCEPT ![w].phase = "rebuilt", ![w].content = Rebuilt(w),
                                  ![w].current = Current(WriteKey(w)[1])]
  /\ UNCHANGED <<provider, raw, due, slotRun, researcher, candidate, sent, adjusted,
                 reviewFaults>>

Unchanged(w) == /\ approval[w].current # NoManifestYet
                /\ approval[w].current.content = approval[w].content
NewManifest(w) ==
  [instrument |-> approval[w].content.instrument, year |-> approval[w].content.year,
   revision |-> approval[w].current.revision + 1, status |-> "AVAILABLE",
   content |-> approval[w].content]
SameManifest(m, o) == <<m.instrument, m.year, m.revision>> = <<o.instrument, o.year, o.revision>>
(* The previous revision is retired before the new one is published.        *)
Published(w) ==
  LET kept == {m \in adjusted : ~SameManifest(m, NewManifest(w)) /\ m # approval[w].current}
      retired == IF approval[w].current = NoManifestYet THEN {}
                 ELSE {[approval[w].current EXCEPT !.status = "SUPERSEDED"]}
  IN kept \cup retired \cup {NewManifest(w)}
(* The unique index on dataset_hash, and the check before the commit.       *)
HashTaken(w) == \E m \in adjusted : m.content = approval[w].content
                                    /\ ~SameManifest(m, NewManifest(w))
TwoAvailable(w) ==
  \E m, o \in Published(w) : /\ m # o /\ m.year = o.year /\ m.instrument = o.instrument
                             /\ m.status = "AVAILABLE" /\ o.status = "AVAILABLE"

Commit(w) ==
  /\ approval[w].phase = "rebuilt"
  /\ ~Unchanged(w) => ~HashTaken(w) /\ ~TwoAvailable(w)
  /\ candidate' = RowsSeen(w)
  /\ adjusted' = IF Unchanged(w) THEN adjusted ELSE Published(w)
  /\ approval' = [approval EXCEPT ![w] = NoApproval]
  /\ UNCHANGED <<provider, raw, due, slotRun, researcher, sent, object, reviewFaults>>

RolledBack(w) ==
  /\ approval' = [approval EXCEPT ![w] = NoApproval]
  /\ UNCHANGED <<provider, raw, due, slotRun, researcher, candidate, sent, adjusted, object>>

(* What raises inside the transaction: the delivery comes again.            *)
Fails(w) ==
  /\ \/ /\ approval[w].phase = "decided"
        /\ Unpriced(w) \/ object[WriteKey(w)] \notin {NoContent, Rebuilt(w)}
     \/ approval[w].phase = "rebuilt" /\ ~Unchanged(w) /\ (HashTaken(w) \/ TwoAvailable(w))
  /\ RolledBack(w)
  /\ UNCHANGED reviewFaults

WorkerDies(w) ==
  /\ approval[w].phase # "idle" /\ reviewFaults < MaxFaults
  /\ reviewFaults' = reviewFaults + 1
  /\ RolledBack(w)

-----------------------------------------------------------------------------
(* That the same refusal is there already ends it without a write.          *)
RefusalKnown(w) ==
  /\ approval[w].phase = "refusing"
  /\ Refusal(approval[w].of) \in approval[w].rows[approval[w].of.candidate].history
  /\ RolledBack(w)
  /\ UNCHANGED reviewFaults

ResearchNext(r) ==
  \/ \E s \in Slot : StartSlot(r, s)
  \/ BeginSlot(r) \/ Look(r) \/ Persist(r) \/ SlotSucceeds(r) \/ SlotFails(r)
  \/ DiscoveryFails(r) \/ ResearchDies(r)
ApprovalNext(w) ==
  \/ \E a \in sent : Read(w, a) \/ Unverified(w, a)
  \/ ReadSubject(w) \/ Write(w) \/ ReadRefused(w) \/ RecordRefusal(w) \/ RefusalKnown(w)
  \/ Rebuild(w) \/ Commit(w) \/ Fails(w) \/ WorkerDies(w)
ReviewNext ==
  \/ \E e \in Event : Amend(e)
  \/ \E i \in Instrument, y \in ActionYear : PublishRaw(i, y)
  \/ SlotDue
  \/ \E r \in Researcher : ResearchNext(r)
  \/ \E c \in CandidateId, d \in {"APPROVE", "WITHDRAW"},
        s \in CandidateId \cup {NoCandidate} : Decide(c, d, s)
  \/ \E w \in Worker : ApprovalNext(w)

ReviewSpec == ReviewInit /\ [][ReviewNext]_reviewVars

-----------------------------------------------------------------------------
(* Every variable holds a value of its type, a fault counter its bound, and *)
(* only a row that exists has a history.                                    *)
ReviewTypeOK ==
  /\ \A e \in Event : provider[e] \in 1 .. MaxTerms[e]
  /\ raw \in [Instrument \X ActionYear -> 0 .. MaxRaw]
  /\ due \in Slot \cup {0}
  /\ slotRun \in [Slot -> {"ABSENT", "RUNNING", "SUCCEEDED", "FAILED"}]
  /\ \A r \in Researcher : /\ researcher[r].slot \in Slot \cup {0}
                           /\ researcher[r].done \in 0 .. Len(researcher[r].found)
                           /\ researcher[r].into \in CandidateId \cup {NoCandidate}
  /\ DOMAIN candidate = CandidateId
  /\ \A c \in CandidateId : \/ candidate[c] = NoRow
                            \/ /\ candidate[c].state \in ReviewState
                               /\ candidate[c].terms \in Terms
                               /\ candidate[c].history \subseteq Entry
  /\ sent \subseteq Approval
  /\ adjusted \subseteq AdjustedManifest
  /\ \A w \in Worker : approval[w].phase \in
       {"idle", "read", "checked", "decided", "rebuilt", "refused", "refusing"}
  /\ reviewFaults \in 0 .. MaxFaults

(* At most one approved action of a subject: two would adjust the same bars *)
(* twice (service.py, _approved_for_same_subject).  It holds while no two   *)
(* transactions about decisions are open at once: the look locks nothing.   *)
OneApproved ==
  \A c, o \in CandidateId :
    (c # o /\ candidate[c].state = "APPROVED" /\ candidate[o].state = "APPROVED")
      => Subject[c[1]] # Subject[o[1]]

(* The transaction that approves or withdraws a candidate leaves its year   *)
(* served by a rebuild, from the candidate's own raw revision, that applies *)
(* exactly the actions approved then (service.py, _apply_verified_result),  *)
(* while no other transaction about a decision is open.                     *)
Rebuilds(c) ==
  LET m == Current(YearOf[c[1]])
  IN /\ m # NoManifestYet
     /\ m.content.raw = c[2] /\ m.content.instrument = InstrumentOf[c[1]]
     /\ m.content.applied = {Effect(candidate, o) : o \in {x \in CandidateId :
          candidate[x].state = "APPROVED" /\ Reaches(x, YearOf[c[1]])}}
DecisionTakesEffect ==
  [][\A c \in CandidateId :
       (candidate'[c].state # candidate[c].state
          /\ candidate'[c].state \in {"APPROVED", "WITHDRAWN"}) => Rebuilds(c)']_reviewVars

(* Neither research nor a late or repeated delivery reopens a decision: the *)
(* terms of a row never change, and a row that was withdrawn or superseded  *)
(* stays so (service.py; corporate_action_research.py, _persist), while no  *)
(* two transactions about decisions are open at once and no two researchers *)
(* insert one row: both write back rows as they were read.                  *)
DecisionsStand ==
  [][\A c \in CandidateId : candidate[c].state # "ABSENT" =>
       /\ candidate'[c].terms = candidate[c].terms
       /\ candidate'[c].state # candidate[c].state =>
            <<candidate[c].state, candidate'[c].state>> \in
              {<<"REVIEW_REQUIRED", "APPROVED">>, <<"APPROVED", "WITHDRAWN">>,
               <<"APPROVED", "SUPERSEDED">>}]_reviewVars

(* A decision takes effect with its transaction and is not taken back, with *)
(* the provisos of the two parts.                                           *)
DecisionsHold == DecisionTakesEffect /\ DecisionsStand

(* A slot that is recorded SUCCEEDED has a row for every event it           *)
(* discovered, with the terms it discovered: no later slot makes up for one *)
(* that is skipped.  It holds while no two researchers insert one row at    *)
(* once (corporate_action_research.py, run_due_slot).                       *)
SlotRecorded ==
  [][\A r \in Researcher, s \in Slot :
       (/\ researcher[r].slot = s /\ researcher'[r] = NoResearch
        /\ slotRun[s] # "SUCCEEDED" /\ slotRun'[s] = "SUCCEEDED") =>
       \A k \in DOMAIN researcher[r].found : \E n \in RawRevision :
         candidate[<<researcher[r].found[k][1], n>>].terms = researcher[r].found[k][2]]_reviewVars

(* Deciding one instrument's candidate leaves the other instruments'        *)
(* adjusted datasets AVAILABLE.                                             *)
OtherInstrumentsServed ==
  [][\A m \in adjusted : m.status = "AVAILABLE" =>
       \E o \in adjusted' : o.instrument = m.instrument /\ o.year = m.year
                            /\ o.status = "AVAILABLE"]_reviewVars
=============================================================================
