------------------------------- MODULE Engine -------------------------------
(***************************************************************************)
(* The benchmark engine (autobench/runner/engine.py): run_benchmark, the   *)
(* per-task wrapper _one and the task body _run_task, over the shared MCP  *)
(* session of module McpSession.                                           *)
(*                                                                         *)
(* A task is create_session, the agent's turn, evaluate_session, and the   *)
(* cleanup delete_session in a `finally`.  The three MCP calls go through  *)
(* the session's lock; an asyncio.timeout bounds the whole task, and the   *)
(* run may be cancelled from outside at any moment.                        *)
(*                                                                         *)
(* A step runs one coroutine to its next suspension.  Where the code       *)
(* returns from one await and asks for the next session call without       *)
(* suspending, the model takes two steps; the stage in between is not      *)
(* suspended, so nothing can cancel the task there, and what others do     *)
(* there they could have done just before.                                 *)
(***************************************************************************)
EXTENDS Naturals, Sequences, FiniteSets

CONSTANTS
    NTasks,      \* the tasks are 1..NTasks, in the order of list_tasks
    Slots        \* max(1, max_parallel)

ASSUME NTasksAssumption == NTasks \in Nat \ {0}
ASSUME SlotsAssumption == Slots \in Nat \ {0}

Tasks == 1..NTasks

VARIABLES
    phase,       \* where run_benchmark is
    exit,        \* how it leaves: by return, by an error, or cancelled
    status,      \* run.status
    results,     \* run.results
    summary,     \* run.summary
    stage,       \* [Tasks -> where the task's coroutine is]
    outcome,     \* [Tasks -> what _run_task's `finally` will let through]
    sid,         \* tasks whose session_id is known
    fired,       \* tasks whose asyncio.timeout has expired
    doomed,      \* tasks the run's cancellation has yet to reach
    cancelled,   \* run_benchmark was cancelled from outside
    judged,      \* history: tasks whose evaluation answered `passed`
    cut,         \* history: tasks whose delete_session was interrupted
    deleteSent   \* history: tasks whose delete_session reached the wire

\* The shared session's state, see McpSession.
VARIABLES pc, waiters, holder, poisoned, asked, live, strayed

taskVars == <<stage, outcome, sid, fired, doomed>>
runVars == <<phase, exit, status, results, summary, cancelled>>
historyVars == <<judged, cut, deleteSent>>
sessionVars == <<pc, waiters, holder, poisoned, asked, live, strayed>>
vars == <<taskVars, runVars, historyVars, sessionVars>>

\* A task asks at most three calls of the session.
M == INSTANCE McpSession WITH Clients <- Tasks, NoClient <- 0, MaxCalls <- 3

Result(t, passed, error, session) ==
    [task |-> t, passed |-> passed, error |-> error, session |-> session]

Results == [task : Tasks, passed : BOOLEAN, error : BOOLEAN, session : BOOLEAN]

\* Where the results of a task are in the list.
ResultsOf(t) == {i \in 1..Len(results) : results[i].task = t}

\* _publish_summary.
SummaryOf(rs) ==
    [total |-> Len(rs),
     succeeded |-> Len(SelectSeq(rs, LAMBDA r : ~r.error)),
     evaluated_pass |-> Len(SelectSeq(rs, LAMBDA r : r.passed))]

NoSummary == SummaryOf(<<>>)

TypeOK ==
    /\ phase \in {"listing", "gathering", "flushing", "returned"}
    /\ exit \in {"none", "ok", "error", "cancelled"}
    /\ status \in {"pending", "running", "succeeded", "failed"}
    /\ results \in Seq(Results)
    /\ summary \in [total : Nat, succeeded : Nat, evaluated_pass : Nat]
    /\ stage \in [Tasks -> {"queued", "create", "prompt", "evaluate", "delete",
                            "recorded", "aborted"}]
    /\ outcome \in [Tasks -> {"none", "passed", "failed", "errored", "unwinding"}]
    /\ sid \subseteq Tasks
    /\ fired \subseteq Tasks
    /\ doomed \subseteq Tasks
    /\ cancelled \in BOOLEAN
    /\ judged \subseteq Tasks
    /\ cut \subseteq Tasks
    /\ deleteSent \subseteq Tasks
    /\ M!TypeOK

\* run_benchmark has just been called: `run.results = []`.
Called ==
    /\ phase = "listing"
    /\ exit = "none"
    /\ results = <<>>
    /\ summary = NoSummary
    /\ stage = [t \in Tasks |-> "queued"]
    /\ outcome = [t \in Tasks |-> "none"]
    /\ sid = {}
    /\ fired = {}
    /\ doomed = {}
    /\ cancelled = FALSE
    /\ judged = {}
    /\ cut = {}
    /\ deleteSent = {}
    /\ M!Init

Init == Called /\ status = "running"

-----------------------------------------------------------------------------
(* Stages of a task.                                                        *)

Calling(t) == stage[t] \in {"create", "evaluate", "delete"}

\* Mutant: the semaphore is released before the cleanup.
InSlotWithoutCleanup(t) == stage[t] \in {"create", "prompt", "evaluate"}

InSlot(t) == stage[t] \in {"create", "prompt", "evaluate", "delete"}
Over(t) == stage[t] \in {"recorded", "aborted"}

\* The task's coroutine waits for something, so a cancellation can reach it.
Suspended(t) ==
    \/ stage[t] \in {"queued", "prompt"}
    \/ Calling(t) /\ pc[t] # "idle"

\* The task's coroutine may run by itself: the run is gathering and no
\* cancellation of the run is on its way to this task.
Runs(t) == phase = "gathering" /\ t \notin doomed

\* results.append(result); _publish_summary(): one step, since append_lock is
\* never held across a suspension.
Record(r) ==
    /\ results' = Append(results, r)
    /\ summary' = SummaryOf(results')
    /\ UNCHANGED <<phase, exit, status, cancelled>>

\* _run_task is left with outcome o and _one takes it from there: a result is
\* recorded; a CancelledError is the task's own timeout, recorded as such
\* without a session id, unless the run was cancelled or the timer never
\* fired: then it ends the task's coroutine with nothing recorded.
Conclude(t, o) ==
    /\ outcome' = [outcome EXCEPT ![t] = o]
    /\ \/ /\ o # "unwinding"
          /\ Record(Result(t, o = "passed", o = "errored", t \in sid))
          /\ stage' = [stage EXCEPT ![t] = "recorded"]
       \/ /\ o = "unwinding"
          /\ t \in fired' /\ ~cancelled
          /\ Record(Result(t, FALSE, TRUE, FALSE))
          /\ stage' = [stage EXCEPT ![t] = "recorded"]
       \/ /\ o = "unwinding"
          /\ t \notin fired' \/ cancelled
          /\ stage' = [stage EXCEPT ![t] = "aborted"]
          /\ UNCHANGED runVars

\* Mutant: the cleanup is not in a `finally`, a failed task skips it.
LeaveBodySkippingCleanup(t, o) ==
    \/ /\ t \notin sid \/ o = "errored"
       /\ Conclude(t, o)
    \/ /\ t \in sid /\ o # "errored"
       /\ stage' = [stage EXCEPT ![t] = "delete"]
       /\ outcome' = [outcome EXCEPT ![t] = o]
       /\ UNCHANGED runVars

\* The body of _run_task is left with outcome o: straight out when no session
\* was created, through the `finally` and its delete_session otherwise.
LeaveBody(t, o) ==
    \/ /\ t \notin sid
       /\ Conclude(t, o)
    \/ /\ t \in sid
       /\ stage' = [stage EXCEPT ![t] = "delete"]
       /\ outcome' = [outcome EXCEPT ![t] = o]
       /\ UNCHANGED runVars

-----------------------------------------------------------------------------
(* The session calls of a task.                                             *)

\* Mutant: a call whose child does not end never raises.
CallRaisesUnlessStuck(t) == M!FailFast(t) \/ M!Answer(t) \/ M!Reaped(t)

\* Ways in which a call raises an Exception: poisoned session, tool error or
\* malformed answer, deadline.
CallRaises(t) ==
    M!FailFast(t) \/ M!Answer(t) \/ M!Reaped(t) \/ M!GraceOver(t)

\* Ask for the lock, start the call, or reach its deadline: no stage ends.
CallAdvances(t) ==
    /\ Runs(t)
    /\ Calling(t)
    /\ \/ M!Enqueue(t) /\ UNCHANGED deleteSent
       \/ /\ M!StartCall(t)
          /\ deleteSent' = deleteSent \union {u \in {t} : stage[u] = "delete"}
       \/ M!Deadline(t) /\ UNCHANGED deleteSent
    /\ UNCHANGED <<taskVars, runVars, judged, cut>>

\* A child call ends, at any time or never.
ChildEnds(k) ==
    /\ M!ChildEnds(k)
    /\ UNCHANGED <<taskVars, runVars, historyVars>>

\* `async with sem` grants slots in task order; the timeout is armed and
\* create_session is asked for.
TakeSlot(t) ==
    /\ Runs(t)
    /\ stage[t] = "queued"
    /\ \A u \in 1..(t - 1) : stage[u] # "queued"
    /\ Cardinality({u \in Tasks : InSlot(u)}) < Slots
    /\ stage' = [stage EXCEPT ![t] = "create"]
    /\ UNCHANGED <<outcome, sid, fired, doomed, runVars, historyVars, sessionVars>>

CreateReturns(t) ==
    /\ Runs(t)
    /\ stage[t] = "create"
    /\ M!Answer(t)
    /\ sid' = sid \union {t}
    /\ stage' = [stage EXCEPT ![t] = "prompt"]
    /\ UNCHANGED <<outcome, fired, doomed, runVars, historyVars>>

EvaluateReturns(t, passed) ==
    /\ Runs(t)
    /\ stage[t] = "evaluate"
    /\ UNCHANGED <<sid, fired, doomed, cut, deleteSent>>
    /\ M!Answer(t)
    /\ judged' = IF passed THEN judged \union {t} ELSE judged
    /\ LeaveBody(t, IF passed THEN "passed" ELSE "failed")

\* create_session or evaluate_session raises: `except Exception`.
CallFails(t) ==
    /\ Runs(t)
    /\ stage[t] \in {"create", "evaluate"}
    /\ UNCHANGED <<sid, fired, doomed, historyVars>>
    /\ CallRaises(t)
    /\ LeaveBody(t, "errored")

\* call.result() raises CancelledError: the child was cancelled from within
\* the SDK, by nobody the engine knows of.
CallAborts(t) ==
    /\ Runs(t)
    /\ stage[t] \in {"create", "evaluate"}
    /\ UNCHANGED <<sid, fired, doomed, historyVars>>
    /\ M!Answer(t)
    /\ LeaveBody(t, "unwinding")

\* Mutant: a failing cleanup fails the task.
DeleteOverFails(t) ==
    /\ Runs(t)
    /\ stage[t] = "delete"
    /\ UNCHANGED <<sid, fired, doomed, historyVars>>
    /\ CallRaises(t)
    /\ \E o \in {outcome[t], "errored"} : Conclude(t, o)

\* delete_session is over, well or badly: every Exception is swallowed, and
\* _run_task leaves with the outcome it had.
DeleteOver(t) ==
    /\ Runs(t)
    /\ stage[t] = "delete"
    /\ UNCHANGED <<sid, fired, doomed, historyVars>>
    /\ CallRaises(t)
    /\ Conclude(t, outcome[t])

\* delete_session's child was cancelled from within: a CancelledError takes
\* the place of the outcome.
DeleteAborts(t) ==
    /\ Runs(t)
    /\ stage[t] = "delete"
    /\ UNCHANGED <<sid, fired, doomed, judged, deleteSent>>
    /\ M!Answer(t)
    /\ cut' = cut \union {t}
    /\ Conclude(t, "unwinding")

-----------------------------------------------------------------------------
(* The agent's turn, bounded by the A2A client's own deadline.              *)

PromptReturns(t) ==
    /\ Runs(t)
    /\ stage[t] = "prompt"
    /\ stage' = [stage EXCEPT ![t] = "evaluate"]
    /\ UNCHANGED <<outcome, sid, fired, doomed, runVars, historyVars, sessionVars>>

\* An error or the turn's deadline ("errored"), or a CancelledError out of
\* the SDK's stream ("unwinding").
PromptFails(t, o) ==
    /\ Runs(t)
    /\ stage[t] = "prompt"
    /\ UNCHANGED <<sid, fired, doomed, historyVars, sessionVars>>
    /\ LeaveBody(t, o)

-----------------------------------------------------------------------------
(* Cancellations.                                                           *)

\* Mutant: an interrupted call gives the lock back and never poisons.
InterruptUnpoisoned(t) ==
    \/ /\ stage[t] = "prompt"
       /\ LeaveBody(t, "unwinding")
       /\ UNCHANGED <<cut, sessionVars>>
    \/ /\ stage[t] \in {"create", "evaluate"}
       /\ pc[t] = "calling"
       /\ M!Release(t)
       /\ LeaveBody(t, "unwinding")
       /\ UNCHANGED <<cut, poisoned, strayed>>

\* A CancelledError is thrown into the task where it is suspended: out of the
\* body into the cleanup, or out of the cleanup itself.  The agent's turn lets
\* it through: its reap, which would not, is not reached inside a task
\* (module A2AClient, ReapUnreached).
Interrupt(t) ==
    \/ /\ stage[t] = "prompt"
       /\ LeaveBody(t, "unwinding")
       /\ UNCHANGED <<cut, sessionVars>>
    \/ /\ stage[t] \in {"create", "evaluate"}
       /\ M!Cancel(t)
       /\ LeaveBody(t, "unwinding")
       /\ UNCHANGED cut
    \/ /\ stage[t] = "delete"
       /\ M!Cancel(t)
       /\ cut' = cut \union {t}
       /\ Conclude(t, "unwinding")

\* asyncio.timeout(task_timeout) expires, once, wherever the task waits: in
\* the body or in the cleanup that follows it.
TaskTimeout(t) ==
    /\ Runs(t)
    /\ InSlot(t)
    /\ Suspended(t)
    /\ t \notin fired
    /\ fired' = fired \union {t}
    /\ Interrupt(t)
    /\ UNCHANGED <<sid, doomed, judged, deleteSent>>

\* The run's cancellation reaches a task: `async with sem` lets it go, or it
\* is interrupted where it is.
CancelReaches(t) ==
    /\ phase = "gathering"
    /\ t \in doomed
    /\ UNCHANGED <<sid, fired, judged, deleteSent>>
    /\ doomed' = doomed \ {t}
    /\ \/ /\ stage[t] = "queued"
          /\ stage' = [stage EXCEPT ![t] = "aborted"]
          /\ UNCHANGED <<outcome, cut, runVars, sessionVars>>
       \/ Interrupt(t)

-----------------------------------------------------------------------------
(* run_benchmark.                                                           *)

\* list_tasks answers (the slice by max_tasks is in NTasks).
ListTasks ==
    /\ phase = "listing"
    /\ phase' = "gathering"
    /\ UNCHANGED <<exit, status, results, summary, cancelled, taskVars,
                   historyVars, sessionVars>>

\* list_tasks raises: the run ends through the `finally`.
ListFails ==
    /\ phase = "listing"
    /\ phase' = "flushing"
    /\ exit' = "error"
    /\ UNCHANGED <<status, results, summary, cancelled, taskVars, historyVars,
                   sessionVars>>

\* The tasks whose coroutine died before it recorded a result.
Unrecorded == {t \in Tasks : stage[t] = "aborted" /\ ResultsOf(t) = {}}

\* A set of tasks, listed as zip(task_ids, outcomes) goes through it.
InOrder(S) ==
    {s \in [1..Cardinality(S) -> S] :
        \A i, j \in 1..Cardinality(S) : i < j => s[i] < s[j]}

\* Mutant: nothing is booked.
NothingBooked == {<<>>}

\* What is appended for them: one sequence of results.
Booked ==
    {[i \in DOMAIN s |-> Result(s[i], FALSE, TRUE, FALSE)] : s \in InOrder(Unrecorded)}

\* Mutant: gather without return_exceptions, an aborted task raises out of it.
GatherOverRaises ==
    /\ phase = "gathering"
    /\ \A t \in Tasks : Over(t)
    /\ phase' = "flushing"
    /\ \/ /\ ~cancelled /\ Unrecorded = {}
          /\ status' = "succeeded"
          /\ exit' = "ok"
       \/ /\ cancelled \/ Unrecorded # {}
          /\ exit' = "cancelled"
          /\ UNCHANGED status
    /\ UNCHANGED <<results, summary, cancelled, taskVars, historyVars,
                   sessionVars>>

\* gather(return_exceptions=True) returns, aborted tasks are booked, the run
\* is succeeded; a cancelled gather raises instead.
GatherOver ==
    /\ phase = "gathering"
    /\ \A t \in Tasks : Over(t)
    /\ phase' = "flushing"
    /\ \/ /\ ~cancelled
          /\ \E booked \in Booked : results' = results \o booked
          /\ summary' = SummaryOf(results')
          /\ status' = "succeeded"
          /\ exit' = "ok"
       \/ /\ cancelled
          /\ exit' = "cancelled"
          /\ UNCHANGED <<status, results, summary>>
    /\ UNCHANGED <<cancelled, taskVars, historyVars, sessionVars>>

\* `await asyncio.to_thread(flush)` in the `finally`; its errors are logged.
FlushOver ==
    /\ phase = "flushing"
    /\ phase' = "returned"
    /\ UNCHANGED <<exit, status, results, summary, cancelled, taskVars,
                   historyVars, sessionVars>>

\* Mutant: the cancellation misses the tasks that wait for a slot.
CancelEffectMissesQueued ==
    /\ ~cancelled
    /\ phase # "returned"
    /\ cancelled' = TRUE
    /\ \A t \in Tasks : phase = "gathering" => Suspended(t) \/ Over(t)
    /\ phase = "gathering"
    /\ doomed' = {t \in Tasks : InSlot(t)}
    /\ UNCHANGED <<phase, exit, results, summary, stage, outcome, sid, fired,
                   historyVars, sessionVars>>

\* The run's coroutine is cancelled, at whichever await it is: gather passes
\* the cancellation on to every task that is not done.
CancelEffect ==
    /\ ~cancelled
    /\ phase # "returned"
    /\ cancelled' = TRUE
    /\ \A t \in Tasks : phase = "gathering" => Suspended(t) \/ Over(t)
    /\ \/ /\ phase = "listing"
          /\ phase' = "flushing"
          /\ exit' = "cancelled"
          /\ UNCHANGED doomed
       \/ /\ phase = "gathering"
          /\ doomed' = {t \in Tasks : ~Over(t)}
          /\ UNCHANGED <<phase, exit>>
       \/ /\ phase = "flushing"
          /\ phase' = "returned"
          /\ exit' = "cancelled"
          /\ UNCHANGED doomed
    /\ UNCHANGED <<results, summary, stage, outcome, sid, fired, historyVars,
                   sessionVars>>

CancelRun == CancelEffect /\ UNCHANGED status

-----------------------------------------------------------------------------
TaskStep(t) ==
    \/ TakeSlot(t)
    \/ CallAdvances(t)
    \/ CreateReturns(t)
    \/ \E passed \in BOOLEAN : EvaluateReturns(t, passed)
    \/ CallFails(t)
    \/ CallAborts(t)
    \/ DeleteOver(t)
    \/ DeleteAborts(t)
    \/ PromptReturns(t)
    \/ \E o \in {"errored", "unwinding"} : PromptFails(t, o)
    \/ CancelReaches(t)

\* Whatever the engine and its calls do without the run being cancelled.
OwnStep ==
    \/ \E t \in Tasks : TaskStep(t) \/ TaskTimeout(t)
    \/ \E k \in live : ChildEnds(k)
    \/ ListTasks \/ ListFails \/ GatherOver \/ FlushOver

Next == OwnStep \/ CancelRun

\* Every coroutine that can run is run, every call and every agent turn has a
\* deadline of its own.  No child has to end, no task timeout has to fire.
Fairness ==
    /\ WF_vars(ListTasks \/ ListFails)
    /\ WF_vars(GatherOver)
    /\ WF_vars(FlushOver)
    /\ \A t \in Tasks : WF_vars(TaskStep(t))

Spec == Init /\ [][Next]_vars /\ Fairness

-----------------------------------------------------------------------------
(* Properties.                                                              *)

\* The session of the run is used as McpSession says, whatever the engine's
\* timeouts and cancellations do: the engine implements the session's
\* specification, its fairness included.
SessionSpec == M!Spec

\* "the batch still accounts for every task": at no time has a task two
\* results, a succeeded run has one for each task of the list, and a poller
\* never sees a summary of other results than it sees.
BatchAccounted ==
    /\ summary = SummaryOf(results)
    /\ \A t \in Tasks :
        /\ Cardinality(ResultsOf(t)) <= 1
        /\ status = "succeeded" => Cardinality(ResultsOf(t)) = 1

\* The verdicts are the evaluator's: a result says passed only if evaluation
\* said so; and a task the evaluator passed is recorded as passed, unless its
\* cleanup was interrupted: the task's timeout covers delete_session too.
HonestVerdicts ==
    \A i \in 1..Len(results) :
        LET t == results[i].task
        IN  IF results[i].passed
            THEN t \in judged /\ ~results[i].error
            ELSE t \in judged => t \in cut

\* A session the engine knows of gets its delete_session on the wire before
\* the task is over; only a poisoned session or an interrupted cleanup leaves
\* it to the server.
SessionsCleanedUp ==
    \A t \in sid : Over(t) => t \in deleteSent \/ poisoned \/ t \in cut

\* A task keeps its slot until its cleanup is over: never more than Slots
\* tasks hold or queue for the session, and nobody stays in its queue.
SlotsBoundTheQueue ==
    /\ Cardinality({t \in Tasks : pc[t] # "idle"}) <= Slots
    /\ \A t \in Tasks : Over(t) => pc[t] = "idle"

\* A batch that was listed ends succeeded unless somebody cancels the run: no
\* task's failure, hang or abort takes its siblings or the run down (the
\* return_exceptions comment), even if no child call ever ends.
BatchSucceeds ==
    phase = "gathering" ~> (status = "succeeded" \/ cancelled)

\* run_benchmark always returns to its caller, cancelled or not.
RunReturns == <>(phase = "returned")
=============================================================================
