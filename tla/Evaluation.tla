----------------------------- MODULE Evaluation ------------------------------
(***************************************************************************)
(* What a pre-flight evaluation promises, whatever happens to its pages:   *)
(* it ends once, either failed or with the plan of everything that the     *)
(* coordinator reported, and with a plan only after the coordinator has    *)
(* ended its answer.  There is no verdict on part of a plan.  The steps    *)
(* ExplainFails and ExplainDone of Pipeline.tla are Fail and Finish.       *)
(***************************************************************************)
EXTENDS Sequences, Naturals

CONSTANTS Cells,     \* documents the coordinator may report
          Outcomes(_), \* the results that a sequence of documents may have
          Pending,   \* the evaluation is still running
          Failed     \* it ended with an error

VARIABLES reported,  \* the documents reported so far
          ended,     \* the coordinator has sent its last page
          result     \* Pending, Failed or an outcome

evalVars == <<reported, ended, result>>

EvalInit == reported = <<>> /\ ended = FALSE /\ result = Pending

(* Documents are added, never taken back. *)
Report ==
    /\ result = Pending /\ ~ended
    /\ reported' \in Seq(Cells)
    /\ Len(reported) <= Len(reported')
    /\ \A i \in 1 .. Len(reported) : reported'[i] = reported[i]
    /\ ended' \in BOOLEAN
    /\ UNCHANGED result

Fail ==
    /\ result = Pending
    /\ result' = Failed
    /\ UNCHANGED <<reported, ended>>

Finish ==
    /\ result = Pending /\ ended
    /\ result' \in Outcomes(reported)
    /\ UNCHANGED <<reported, ended>>

EvalNext == Report \/ Fail \/ Finish

EvalSpec == EvalInit /\ [][EvalNext]_evalVars
==============================================================================
