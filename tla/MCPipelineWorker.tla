-------------------------- MODULE MCPipelineWorker --------------------------
(* Small instances of PipelineWorker.                                       *)
EXTENDS PipelineWorker, TLC

(* m1 and m2 carry one command id, the others another.                      *)
MCCommandOf == [m \in Message |-> CASE m \in {"m1", "m2"} -> "c1" [] OTHER -> "c2"]
Twins == [m \in Message |-> "plain"]
OneOfEach ==
  [m \in Message |-> CASE m = "m2" -> "approval" [] m = "m3" -> "malformed" [] OTHER -> "plain"]

(* The processes are alike.                                                 *)
AnyProcess == Permutations(Process)
=============================================================================
