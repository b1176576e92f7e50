------------------------------ MODULE RunView -------------------------------
(***************************************************************************)
(* What a client sees of a run through GET .../runs/{run_id}: a status and *)
(* a list of results.  This is the promise made to a poller, which stops   *)
(* at the first terminal status: the run starts, results come in, the run  *)
(* ends, and it never goes back to running or takes a result away.  That a *)
(* run that is waited for does end is RunExecution's RunSettles.           *)
(*                                                                         *)
(* A terminal status may still be Revised into the other one: module       *)
(* RunExecution shows which executions do that.                            *)
(***************************************************************************)
EXTENDS Sequences, SequencesExt

VARIABLES status, results

vars == <<status, results>>

Terminal == {"succeeded", "failed"}

Init == status = "pending" /\ results = <<>>

Begin == status = "pending" /\ status' = "running" /\ UNCHANGED results

Report ==
    /\ status = "running"
    /\ IsPrefix(results, results')
    /\ UNCHANGED status

End ==
    /\ status = "running"
    /\ status' \in Terminal
    /\ IsPrefix(results, results')

Revise ==
    /\ status \in Terminal
    /\ status' \in Terminal
    /\ IsPrefix(results, results')

Next == Begin \/ Report \/ End \/ Revise

Spec == Init /\ [][Next]_vars
=============================================================================
