---------------------------- MODULE RunExecution ----------------------------
(***************************************************************************)
(* The execution of one run (autobench/routes/runs.py, _execute and        *)
(* _maybe_export_run), with the connection of the MCP session around the   *)
(* engine of module Engine and the shutdown of the service (app.py).       *)
(*                                                                         *)
(* Two coroutines: `exec` is _execute, which waits for the inner task with *)
(* the run's wall timeout, settles the status and exports the run; `inner` *)
(* is _go, which connects the session, runs the engine and closes the      *)
(* session.  inner.cancel() is not awaited, and SDK code that runs in the  *)
(* inner task itself (connect, close) may swallow it.                      *)
(***************************************************************************)
EXTENDS Naturals, Sequences, SequencesExt

CONSTANTS
    NTasks,      \* the tasks of the benchmark, as in Engine
    Slots        \* how many of them run at a time

ASSUME NTasksAssumption == NTasks \in Nat \ {0}
ASSUME SlotsAssumption == Slots \in Nat \ {0}

VARIABLES
    exec,        \* where _execute is
    inner,       \* where _go is
    innerExit,   \* how _go ended
    error,       \* run.error is set
    artifacts,   \* run.artifacts is set
    exported,    \* history: the run as written to run.json, or NotExported
    stopped,     \* the service's lifespan has cancelled _execute
    swallowed    \* history: inner.cancel() had no effect

\* The engine's state, see Engine; status, results and summary are the run's.
VARIABLES
    phase, exit, status, results, summary, stage, outcome, sid, fired, doomed,
    cancelled, judged, cut, deleteSent,
    pc, waiters, holder, poisoned, asked, live, strayed

E == INSTANCE Engine

engineVars ==
    <<phase, exit, results, summary, stage, outcome, sid, fired, doomed,
      cancelled, judged, cut, deleteSent,
      pc, waiters, holder, poisoned, asked, live, strayed>>
execVars == <<exec, inner, innerExit, error, artifacts, exported, stopped, swallowed>>
vars == <<execVars, status, engineVars>>

Terminal == {"succeeded", "failed"}

NotExported == [status |-> "none", results |-> <<>>]

\* run.model_dump, as far as the properties tell runs apart.
Snapshot == [status |-> status, results |-> results]

TypeOK ==
    /\ exec \in {"created", "waiting", "collecting", "uploading", "over"}
    /\ inner \in {"absent", "connecting", "engine", "closing", "ended"}
    /\ innerExit \in {"none", "ok", "error", "cancelled"}
    /\ error \in BOOLEAN
    /\ artifacts \in BOOLEAN
    /\ exported.status \in {"none", "pending", "running"} \union Terminal
    /\ stopped \in BOOLEAN
    /\ swallowed \in BOOLEAN
    /\ E!TypeOK

Init ==
    /\ exec = "created"
    /\ inner = "absent"
    /\ innerExit = "none"
    /\ error = FALSE
    /\ artifacts = FALSE
    /\ exported = NotExported
    /\ stopped = FALSE
    /\ swallowed = FALSE
    /\ status = "pending"
    /\ E!Called

-----------------------------------------------------------------------------
(* _go.                                                                     *)

\* The session is connected within its deadline; run_benchmark is called.
Connected ==
    /\ inner = "connecting"
    /\ inner' = "engine"
    /\ UNCHANGED <<exec, innerExit, error, artifacts, exported, stopped,
                   swallowed, status, engineVars>>

\* Building the clients or connecting fails: what was opened is torn down.
ConnectFails ==
    /\ inner = "connecting"
    /\ inner' = "closing"
    /\ innerExit' = "error"
    /\ UNCHANGED <<exec, error, artifacts, exported, stopped, swallowed,
                   status, engineVars>>

\* A step of the engine or of its calls; with the last one __aexit__ begins.
\* A child call that was left behind may end at any time.
EngineStep ==
    /\ \/ /\ inner = "engine"
          /\ E!OwnStep
          /\ inner' = IF phase' = "returned" THEN "closing" ELSE inner
          /\ innerExit' = IF phase' = "returned" THEN exit' ELSE innerExit
       \/ /\ inner # "engine"
          /\ \E k \in live : E!ChildEnds(k)
          /\ UNCHANGED <<inner, innerExit>>
    /\ UNCHANGED <<exec, error, artifacts, exported, stopped, swallowed>>

\* The session and its transport are closed, each within its bound, errors
\* swallowed; a CancelledError out of the SDK's close is not swallowed.
Closed ==
    /\ inner = "closing"
    /\ inner' = "ended"
    /\ innerExit' \in {innerExit, "cancelled"}
    /\ UNCHANGED <<exec, error, artifacts, exported, stopped, swallowed,
                   status, engineVars>>

\* inner.cancel(): the engine passes it on to its tasks; a connect or close
\* under way is abandoned, or swallows it and goes on.
CancelInner ==
    \/ /\ inner = "engine"
       /\ E!CancelEffect
       /\ inner' = IF phase' = "returned" THEN "closing" ELSE inner
       /\ innerExit' = IF phase' = "returned" THEN exit' ELSE innerExit
       /\ UNCHANGED swallowed
    \/ /\ inner \in {"connecting", "closing"}
       /\ inner' = IF inner = "connecting" THEN "closing" ELSE "ended"
       /\ innerExit' = "cancelled"
       /\ UNCHANGED <<swallowed, engineVars>>
    \/ /\ inner \in {"connecting", "closing"}
       /\ swallowed' = TRUE
       /\ UNCHANGED <<inner, innerExit, engineVars>>

-----------------------------------------------------------------------------
(* _execute.                                                                *)

\* The first step: the run is running, _go is a task, and _execute waits.
Start ==
    /\ exec = "created"
    /\ exec' = "waiting"
    /\ inner' = "connecting"
    /\ status' = "running"
    /\ UNCHANGED <<innerExit, error, artifacts, exported, stopped, swallowed,
                   engineVars>>

\* Mutant: a failed run goes back to pending.
FailRequeues == status' = "pending" /\ error' = TRUE

Fail == status' = "failed" /\ error' = TRUE

\* Mutant: there is no backstop.
NoBackstop == UNCHANGED <<status, error>>

\* The `finally`: a status that is not terminal becomes failed.
Backstop ==
    \/ status \in Terminal /\ UNCHANGED <<status, error>>
    \/ status \notin Terminal /\ Fail

\* Mutant: inner is not cancelled.
WallTimeoutWithoutCancel ==
    /\ exec = "waiting"
    /\ inner # "ended"
    /\ exec' = "collecting"
    /\ Fail
    /\ UNCHANGED <<inner, innerExit, artifacts, exported, stopped, swallowed,
                   engineVars>>

\* Mutant: the cancelled task is awaited (wait_for and shield).
WallTimeoutAwaits ==
    /\ exec = "waiting"
    /\ inner # "ended"
    /\ exec' = "collecting"
    /\ Fail
    /\ CancelInner
    /\ inner' = "ended"
    /\ UNCHANGED <<artifacts, exported, stopped>>

\* asyncio.wait returned at the wall timeout and inner is not done: cancel
\* it, do not await it, and fail the run with the results there are.
WallTimeout ==
    /\ exec = "waiting"
    /\ inner # "ended"
    /\ exec' = "collecting"
    /\ Fail
    /\ CancelInner
    /\ UNCHANGED <<artifacts, exported, stopped>>

\* asyncio.wait returned with inner done: inner.result() returns, raises an
\* Exception (fail) or a CancelledError (left to the backstop).
InnerDone ==
    /\ exec = "waiting"
    /\ inner = "ended"
    /\ exec' = "collecting"
    /\ \/ innerExit = "error" /\ Fail
       \/ innerExit # "error" /\ Backstop
    /\ UNCHANGED <<inner, innerExit, artifacts, exported, stopped, swallowed,
                   engineVars>>

\* on_complete: the records are collected from MLflow, then the run as it is
\* now is written; the upload goes on without it.
WriteSnapshot ==
    /\ exec = "collecting"
    /\ exec' = "uploading"
    /\ exported' = Snapshot
    /\ UNCHANGED <<inner, innerExit, error, artifacts, stopped, swallowed,
                   status, engineVars>>

Uploaded ==
    /\ exec = "uploading"
    /\ exec' = "over"
    /\ artifacts' = TRUE
    /\ UNCHANGED <<inner, innerExit, error, exported, stopped, swallowed,
                   status, engineVars>>

\* No bucket is configured, or collecting or uploading raises: logged.
ExportFails ==
    /\ exec \in {"collecting", "uploading"}
    /\ exec' = "over"
    /\ UNCHANGED <<inner, innerExit, error, artifacts, exported, stopped,
                   swallowed, status, engineVars>>

\* The lifespan ends and cancels _execute where it is, once: before its first
\* step nothing runs; its wait raises through the backstop, with inner left
\* running; its export is abandoned.
Shutdown ==
    /\ ~stopped
    /\ exec # "over"
    /\ stopped' = TRUE
    /\ \/ /\ exec = "waiting"
          /\ exec' = "collecting"
          /\ Backstop
       \/ /\ exec # "waiting"
          /\ exec' = "over"
          /\ UNCHANGED <<status, error>>
    /\ UNCHANGED <<inner, innerExit, artifacts, exported, swallowed, engineVars>>

-----------------------------------------------------------------------------
ExecStep ==
    \/ Start \/ WallTimeout \/ InnerDone
    \/ WriteSnapshot \/ Uploaded \/ ExportFails

Next ==
    \/ ExecStep \/ Shutdown
    \/ Connected \/ ConnectFails \/ EngineStep \/ Closed

\* _execute is run and its timer fires; a task that is between two awaits is
\* run.  Nothing makes a connect, a close, list_tasks, the flush, an agent
\* turn or a call end.
Fairness ==
    /\ WF_vars(ExecStep)
    /\ \A t \in E!Tasks :
        WF_vars(EngineStep /\ E!CallAdvances(t))
          /\ WF_vars(EngineStep /\ E!CallFails(t))
          /\ WF_vars(EngineStep /\ E!DeleteOver(t))

Spec == Init /\ [][Next]_vars /\ Fairness

-----------------------------------------------------------------------------
(* Properties.                                                              *)

\* "a run must NEVER be left non-terminal, however _execute exits": once
\* _execute is past its wait, the run's status is terminal, and a failed run
\* says why.
BackstopHolds ==
    exec \in {"collecting", "uploading", "over"} =>
        /\ status \in Terminal \/ (stopped /\ inner = "absent")
        /\ status = "failed" => error

\* "partial results retained": from the moment _execute stops waiting, the
\* run a client polls, the error's count and the exported run are the same
\* and stay so, unless a swallowed cancellation or a shutdown left the inner
\* task running.
FrozenAfterEnd ==
    [][(exec \in {"collecting", "uploading", "over"} /\ ~swallowed /\ ~stopped)
        => (UNCHANGED <<status, results, error>>)]_vars

\* run.json never shows a run that has not ended ("exported a non-terminal
\* snapshot"), and is what the run is, under the same conditions.
ExportFaithful ==
    /\ exec = "uploading" \/ artifacts => exported.status \in Terminal
    /\ artifacts /\ ~swallowed /\ ~stopped => exported = Snapshot

\* A run begins at most once, ends at most by a revision of its verdict, and
\* never goes back or loses a result: what RunView promises a poller.
View == INSTANCE RunView
ViewSpec == View!Spec

\* "an inner coroutine that swallows cancellation can never pin the run in
\* running": a run that is waited for is settled and its _execute ends,
\* whatever the inner task does.
RunSettles == exec = "waiting" ~> (exec = "over" /\ status \in Terminal)
=============================================================================
