-------------------------- MODULE MCCorporateActions --------------------------
(* Two instruments; i1 has two events of one subject, i2 an event of its    *)
(* own, all in one year.                                                    *)
EXTENDS CorporateActions
CONSTANTS i1, i2, e1, e2, e3

MCInstrumentOf == (e1 :> i1) @@ (e2 :> i1) @@ (e3 :> i2)
MCYearOf == (e1 :> 1) @@ (e2 :> 1) @@ (e3 :> 1)
MCKindOf == [e \in Event |-> "STOCK_SPLIT"]
MCSubject == (e1 :> 1) @@ (e2 :> 1) @@ (e3 :> 2)
MCMaxTerms == (e1 :> 2) @@ (e2 :> 1) @@ (e3 :> 1)
MCSlot == 1 .. 2
MCInWindow == (1 :> {e1, e3}) @@ (2 :> {e1, e2})
=============================================================================
