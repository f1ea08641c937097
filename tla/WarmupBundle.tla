----------------------------- MODULE WarmupBundle -----------------------------
(***************************************************************************)
(* The warm-up bundle on disk: realtime_warmup.py, runtime_warmup_export.py.*)
(* A list of market events, from a document or drained from the event       *)
(* source, is reduced to the newest revision of each event, written as      *)
(* several files into a staging directory, verified and moved to the output *)
(* path.  publish_trading_warmup does this one level deeper, adds a receipt *)
(* and moves again; called again, it compares the receipt.  Exporters race  *)
(* and die at any step; a staging directory left behind is never read.      *)
(* The age of the verdict is in WarmupGate.  Files are correct when whole.  *)
(***************************************************************************)
EXTENDS Integers, FiniteSets, Sequences, SequencesExt, FiniteSetsExt

CONSTANTS
  MarketEvent,     \* [id, eventId, instrument, session, rev, received, type], where
                   \* id is the key: instrument, provider, feed, type, provider_event_id
  WantedType,      \* spec.event_type
  Needed,          \* [instrument -> required_observations]
  Documents,       \* event lists a caller passes
  Delivered,       \* events the source has for the service
  Exporter,
  MaxExports       \* bound

ASSUME BundleAssumption ==
  /\ Documents \subseteq Seq(MarketEvent) /\ Delivered \subseteq MarketEvent
  /\ \A e \in MarketEvent : e.rev \in Nat /\ {e.received, e.eventId} \subseteq Int
  /\ Needed \in [DOMAIN Needed -> Nat \ {0}] /\ MaxExports \in Nat

VARIABLES
  inbox,     \* events of the source not acknowledged
  output,    \* what lies at the output path
  exporter,  \* what each exporter is doing
  answers,   \* answers publish_trading_warmup gave: the input and the report
  exports    \* bound

bundleVars == <<inbox, output, exporter, answers, exports>>

(* The inputs: events, or a BLOCKED verdict without any.                    *)
Blocked == [state |-> "BLOCKED", events |-> <<>>]
ReadyInput(events) == [state |-> "READY", events |-> events]
BundleInput == {Blocked} \cup {ReadyInput(d) : d \in Seq(MarketEvent)}

Nothing == [files |-> {}, bars |-> {}, input |-> Blocked]
Off == [phase |-> "idle", receipt |-> FALSE, input |-> Blocked, bars |-> {}, files |-> {}]

BundleInit ==
  /\ inbox = Delivered
  /\ output = Nothing
  /\ exporter = [x \in Exporter |-> Off]
  /\ answers = {}
  /\ exports = 0

Change(x, w) == exporter' = [exporter EXCEPT ![x] = w]
Stay == UNCHANGED <<inbox, output, answers, exports>>

-----------------------------------------------------------------------------
(* _validated_bars: the newest revision of each event, ties broken by the   *)
(* time of arrival, then by the event id.  A second list entry of the same  *)
(* revision that is not greater so, and differs, is a conflict; one that is *)
(* replaces.                                                                *)
Newer(e, f) ==
  \/ e.rev > f.rev
  \/ e.rev = f.rev /\ e.received > f.received
  \/ e.rev = f.rev /\ e.received = f.received /\ e.eventId > f.eventId

(* Mutant: whatever comes later in the list replaces.                       *)
SelectLast(best, e) ==
  [best EXCEPT !.bars = {f \in @ : f.id # e.id} \cup {e}]

Select(best, e) ==
  LET known == {f \in best.bars : f.id = e.id}
  IN IF \A f \in known : Newer(e, f)
       THEN [best EXCEPT !.bars = (@ \ known) \cup {e}]
     ELSE [best EXCEPT !.conflict = @ \/ \E f \in known : f # e /\ f.rev = e.rev]

Selected(events) == FoldLeft(Select, [bars |-> {}, conflict |-> FALSE], events)
Bars(events) == {e \in Selected(events).bars : e.type = WantedType}

Valid(events) ==
  /\ ~Selected(events).conflict
  /\ Bars(events) # {}
  /\ \A e, f \in Bars(events) : e.session = f.session
  /\ \A i \in DOMAIN Needed :
       Cardinality({e \in Bars(events) : e.instrument = i}) >= Needed[i]

-----------------------------------------------------------------------------
(* publish_trading_warmup with its inputs.                                  *)
Exists == output # Nothing
Answer(input, report) == answers' = answers \cup {[input |-> input, report |-> report]}

BeginExport(x, input) ==
  /\ exporter[x].phase = "idle" /\ exports < MaxExports /\ exports' = exports + 1
  /\ ~Exists
  /\ Change(x, [Off EXCEPT !.phase = "checking", !.receipt = TRUE, !.input = input])
  /\ UNCHANGED <<inbox, output, answers>>

(* Mutant: an existing output is taken for the one that was asked for.      *)
SameInputsAssumed(input) == TRUE

SameInputs(input) == output.input = input

(* _verify_replay: the bundle and its receipt must verify, for these inputs.*)
Replay(x, input) ==
  /\ exporter[x].phase = "idle" /\ exports < MaxExports /\ exports' = exports + 1
  /\ Exists
  /\ Answer(input, IF "receipt" \in output.files /\ SameInputs(input)
                   THEN "ALREADY_APPLIED" ELSE "REFUSED")
  /\ UNCHANGED <<inbox, output, exporter>>

(* warmup_bundle_from_source: every delivery is acknowledged as it is read, *)
(* the bundle is made when the source stays silent.                         *)
Drain(x, e) ==
  /\ exporter[x].phase \in {"idle", "draining"} /\ e \in inbox /\ exports < MaxExports
  /\ inbox' = inbox \ {e}
  /\ Change(x, [Off EXCEPT !.phase = "draining",
                           !.input = ReadyInput(Append(exporter[x].input.events, e))])
  /\ UNCHANGED <<output, answers, exports>>

Silent(x) ==
  /\ exporter[x].phase = "draining" /\ exports' = exports + 1
  /\ Change(x, [exporter[x] EXCEPT !.phase = "checking"])
  /\ UNCHANGED <<inbox, output, answers>>

Check(x) ==
  /\ exporter[x].phase = "checking"
  /\ LET in == exporter[x].input
     IN \/ /\ in = Blocked \/ Valid(in.events)
           /\ Change(x, [exporter[x] EXCEPT !.phase = "writing", !.bars = Bars(in.events)])
        \/ in # Blocked /\ ~Valid(in.events) /\ Change(x, Off)
  /\ Stay

(* The files, in the order they are written into the staging directory.     *)
Files(input) == IF input = Blocked THEN <<"manifest">> ELSE <<"events", "features", "manifest">>
WholeOutput(input, receipt) == Range(Files(input)) \cup (IF receipt THEN {"receipt"} ELSE {})

WriteFile(x) ==
  /\ exporter[x].phase = "writing"
  /\ LET all == Files(exporter[x].input)
         rest == {k \in DOMAIN all : all[k] \notin exporter[x].files}
     IN IF rest # {}
          THEN Change(x, [exporter[x] EXCEPT !.files = @ \cup {all[Min(rest)]}])
        ELSE Change(x, [exporter[x] EXCEPT !.phase =
               IF exporter[x].receipt THEN "certifying" ELSE "moving"])
  /\ Stay

(* The verified bundle has moved up one level; the receipt joins it.        *)
Certify(x) ==
  /\ exporter[x].phase = "certifying"
  /\ Change(x, [exporter[x] EXCEPT !.phase = "moving", !.files = @ \cup {"receipt"}])
  /\ Stay

(* Mutant: the move takes the place of what is there.                       *)
MayMoveAlways == TRUE

MayMove == ~Exists

(* os.replace onto a directory that is not empty raises.                    *)
Move(x) ==
  /\ exporter[x].phase = "moving"
  /\ IF MayMove
       THEN /\ output' = [files |-> exporter[x].files, bars |-> exporter[x].bars,
                          input |-> exporter[x].input]
            /\ IF exporter[x].receipt
                 THEN Answer(exporter[x].input, "PUBLISHED") ELSE UNCHANGED answers
       ELSE UNCHANGED <<output, answers>>
  /\ Change(x, Off)
  /\ UNCHANGED <<inbox, exports>>

(* A failed write or verification removes the staging directory; a crash    *)
(* leaves it.  Events already acknowledged are gone.                        *)
Fails(x) ==
  /\ exporter[x].phase # "idle"
  /\ Change(x, Off) /\ Stay

BundleNext ==
  \E x \in Exporter :
    \/ \E in \in {Blocked} \cup {ReadyInput(d) : d \in Documents} : BeginExport(x, in) \/ Replay(x, in)
    \/ \E e \in inbox : Drain(x, e)
    \/ Silent(x) \/ Check(x) \/ WriteFile(x) \/ Certify(x) \/ Move(x) \/ Fails(x)

BundleSpec == BundleInit /\ [][BundleNext]_bundleVars

-----------------------------------------------------------------------------
(* Every variable holds values of its type.                                 *)
Typed(input) == input.state \in {"READY", "BLOCKED"} /\ Range(input.events) \subseteq MarketEvent
BundleTypeOK ==
  /\ inbox \subseteq MarketEvent /\ exports \in Nat
  /\ output.bars \subseteq MarketEvent /\ Typed(output.input)
  /\ \A x \in Exporter : Typed(exporter[x].input) /\ exporter[x].bars \subseteq MarketEvent
  /\ \A a \in answers : Typed(a.input) /\ a.report \in {"PUBLISHED", "ALREADY_APPLIED", "REFUSED"}

(* What lies at the output path is whole, holds for every event of its      *)
(* input the newest revision and nothing else, and an answer that claims a  *)
(* publication names the input that lies there: whoever raced or died.      *)
NewestOf(events) ==
  {e \in Range(events) : /\ e.type = WantedType
                         /\ \A f \in Range(events) : f.id = e.id => ~Newer(f, e)}
BundleSound ==
  /\ Exists =>
       /\ output.files \in {WholeOutput(output.input, r) : r \in BOOLEAN}
       /\ output.bars = NewestOf(output.input.events)
  /\ \A a \in answers :
       a.report \in {"PUBLISHED", "ALREADY_APPLIED"} =>
         a.input = output.input /\ "receipt" \in output.files
=============================================================================
