-------------------------- MODULE MCRealtimeIngest --------------------------
(* Small instances of RealtimeIngest.                                       *)
EXTENDS RealtimeIngest, TLC

(* b1 and b2 are bars of the first session on two shards, b3 and b4 are of  *)
(* later sessions.  e1c corrects e1, e2r claims b2 against e2.              *)
MCBar == {"b1", "b2", "b3", "b4"}
MCShardOf == [b \in MCBar |-> IF b = "b2" THEN "B" ELSE "A"]
MCDayOf == [b \in MCBar |-> CASE b = "b3" -> 2 [] b = "b4" -> 3 [] OTHER -> 1]

MCEvent == {"e1", "e1c", "e2", "e2r", "e3", "e4", "quote", "broken"}
MCBarOf == [e \in MCEvent |-> CASE e \in {"e1", "e1c"} -> "b1"
                                [] e \in {"e2", "e2r", "quote"} -> "b2"
                                [] e = "e4" -> "b4"
                                [] OTHER -> "b3"]
MCRevisionOf == [e \in MCEvent |-> CASE e = "e1c" -> 1
                                     [] e = "broken" -> 2
                                     [] OTHER -> 0]
MCPositionOf == [e \in MCEvent |-> CASE e = "e1" -> 1
                                     [] e = "e1c" -> 3
                                     [] e \in {"e2", "e2r", "quote"} -> 2
                                     [] e = "e4" -> 5
                                     [] OTHER -> 4]
MCKindOf == [e \in MCEvent |-> CASE e = "quote" -> "other"
                                 [] e = "broken" -> "failing"
                                 [] OTHER -> "bar"]

(* A correction before its original in one message, the original delivered  *)
(* again with bars of two sessions, and a message that is refused if its    *)
(* rival claim meets e2 and fails otherwise.                                *)
Mixed == [m \in Message |-> CASE m = "m1" -> <<"e1c", "e1">>
                              [] m = "m2" -> <<"e1", "e2", "e3">>
                              [] m = "m3" -> <<"quote", "e2r", "broken">>
                              [] OTHER -> <<>>]
(* One bar after the other, two of them in one session.                     *)
Steady == [m \in Message |-> CASE m = "m1" -> <<"e1">>
                               [] m = "m2" -> <<"e2">>
                               [] m = "m3" -> <<"e3">>
                               [] OTHER -> <<"e4">>]
(* An original, its correction, and two later sessions, in any order.       *)
Overtaken == [m \in Message |-> CASE m = "m1" -> <<"e1">>
                                  [] m = "m2" -> <<"e1c">>
                                  [] m = "m3" -> <<"e3">>
                                  [] OTHER -> <<"e4">>]
=============================================================================
