------------------------- MODULE RunExecutionProofs -------------------------
(***************************************************************************)
(* Theorems about RunExecution, for every list of tasks and every number   *)
(* of slots: a run is never left non-terminal, what _execute leaves behind *)
(* does not change any more, the exported run is faithful, and a run is to *)
(* its pollers what RunView promises.                                      *)
(*                                                                         *)
(* The engine's invariant is taken over from EngineProofs: the first       *)
(* section shows that the engine's operators mean the same in the two      *)
(* instances of Engine, E of RunExecution and the one in EngineProofs.     *)
(* The second states the invariant of the execution, in parts.             *)
(***************************************************************************)
EXTENDS RunExecution, SequenceTheorems, TLAPS

\* The theorems about the engine, for this module's engine.
EP == INSTANCE EngineProofs

-----------------------------------------------------------------------------
(* The two instances of the engine.                                         *)

\* Sets are counted alike.
LEMMA SameCardinality == ASSUME NEW S PROVE E!Cardinality(S) = EP!Cardinality(S)
  BY DEF E!Cardinality, EP!Cardinality, E!IsFiniteSet, EP!IsFiniteSet

\* The state run_benchmark is called in.
LEMMA SameCalled == E!Called <=> EP!Called
  BY DEF E!Called, EP!Called, E!NoSummary, EP!NoSummary, E!SummaryOf, EP!SummaryOf,
         E!M!Init, EP!M!Init, E!Tasks, EP!Tasks

\* The run's cancellation.
LEMMA SameCancel == E!CancelEffect <=> EP!CancelEffect
  BY DEF E!CancelEffect, EP!CancelEffect, E!Suspended, EP!Suspended, E!Over, EP!Over,
         E!Calling, EP!Calling, E!Tasks, EP!Tasks, E!historyVars, EP!historyVars,
         E!sessionVars, EP!sessionVars

\* The steps of the session.
LEMMA SameSessionSteps ==
    ASSUME NEW t
    PROVE  /\ E!M!Enqueue(t) <=> EP!M!Enqueue(t)
           /\ E!M!FailFast(t) <=> EP!M!FailFast(t)
           /\ E!M!StartCall(t) <=> EP!M!StartCall(t)
           /\ E!M!Deadline(t) <=> EP!M!Deadline(t)
           /\ E!M!Answer(t) <=> EP!M!Answer(t)
           /\ E!M!Reaped(t) <=> EP!M!Reaped(t)
           /\ E!M!GraceOver(t) <=> EP!M!GraceOver(t)
           /\ E!M!CancelWaiting(t) <=> EP!M!CancelWaiting(t)
           /\ E!M!CancelCalling(t) <=> EP!M!CancelCalling(t)
           /\ E!M!CancelReaping(t) <=> EP!M!CancelReaping(t)
           /\ E!M!ChildEnds(t) <=> EP!M!ChildEnds(t)
  <1> USE DEF E!M!Acquire, EP!M!Acquire, E!M!AcquireAtOnce, EP!M!AcquireAtOnce,
              E!M!AcquireInTurn, EP!M!AcquireInTurn, E!M!Release, EP!M!Release,
              E!M!Child, EP!M!Child, E!M!RemoveAt, EP!M!RemoveAt
  <1>1. /\ E!M!Enqueue(t) <=> EP!M!Enqueue(t)
        /\ E!M!FailFast(t) <=> EP!M!FailFast(t)
        /\ E!M!StartCall(t) <=> EP!M!StartCall(t)
    BY DEF E!M!Enqueue, EP!M!Enqueue, E!M!FailFast, EP!M!FailFast, E!M!StartCall,
           EP!M!StartCall
  <1>2. /\ E!M!Deadline(t) <=> EP!M!Deadline(t)
        /\ E!M!Answer(t) <=> EP!M!Answer(t)
        /\ E!M!Reaped(t) <=> EP!M!Reaped(t)
        /\ E!M!GraceOver(t) <=> EP!M!GraceOver(t)
    BY DEF E!M!Deadline, EP!M!Deadline, E!M!Answer, EP!M!Answer, E!M!Reaped,
           EP!M!Reaped, E!M!GraceOver, EP!M!GraceOver
  <1>3. /\ E!M!CancelWaiting(t) <=> EP!M!CancelWaiting(t)
        /\ E!M!CancelCalling(t) <=> EP!M!CancelCalling(t)
        /\ E!M!CancelReaping(t) <=> EP!M!CancelReaping(t)
    BY DEF E!M!CancelWaiting, EP!M!CancelWaiting, E!M!CancelCalling,
           EP!M!CancelCalling, E!M!CancelReaping, EP!M!CancelReaping
  <1>4. E!M!ChildEnds(t) <=> EP!M!ChildEnds(t)
    BY DEF E!M!ChildEnds, EP!M!ChildEnds
  <1> QED
    BY <1>1, <1>2, <1>3, <1>4

\* The ways a call fails, or is cancelled.
LEMMA SameCalls ==
    ASSUME NEW t
    PROVE  /\ E!CallRaises(t) <=> EP!CallRaises(t)
           /\ E!M!Cancel(t) <=> EP!M!Cancel(t)
  BY SameSessionSteps DEF E!CallRaises, EP!CallRaises, E!M!Cancel, EP!M!Cancel

\* The session's next-state relation.
LEMMA SameSessionNext == [E!M!Next]_(E!M!vars) <=> [EP!M!Next]_(EP!M!vars)
  <1>1. E!Tasks = EP!Tasks
    BY DEF E!Tasks, EP!Tasks
  <1> QED
    BY <1>1, SameSessionSteps DEF E!M!Next, EP!M!Next, E!M!vars, EP!M!vars

\* Concluding and leaving a task's body.
LEMMA SameConclude ==
    ASSUME NEW t, NEW o
    PROVE  /\ E!Conclude(t, o) <=> EP!Conclude(t, o)
           /\ E!LeaveBody(t, o) <=> EP!LeaveBody(t, o)
  <1> USE DEF E!Conclude, EP!Conclude, E!Record, EP!Record, E!Result, EP!Result,
              E!SummaryOf, EP!SummaryOf, E!runVars, EP!runVars
  <1>1. E!Conclude(t, o) <=> EP!Conclude(t, o)
    OBVIOUS
  <1>2. E!LeaveBody(t, o) <=> EP!LeaveBody(t, o)
    BY DEF E!LeaveBody, EP!LeaveBody
  <1> QED
    BY <1>1, <1>2

\* A task's interruption.
LEMMA SameInterrupt ==
    ASSUME NEW t PROVE E!Interrupt(t) <=> EP!Interrupt(t)
  BY SameConclude, SameCalls
  DEF E!Interrupt, EP!Interrupt, E!sessionVars, EP!sessionVars

\* The steps of a task.
LEMMA SameTaskStep ==
    ASSUME NEW t
    PROVE  E!TaskStep(t) \/ E!TaskTimeout(t) <=> EP!TaskStep(t) \/ EP!TaskTimeout(t)
  <1> USE SameConclude, SameSessionSteps, SameCalls, SameInterrupt
      DEF E!Runs, EP!Runs, E!Calling, EP!Calling, E!InSlot, EP!InSlot, E!Suspended,
          EP!Suspended, E!taskVars, EP!taskVars, E!runVars, EP!runVars, E!historyVars,
          EP!historyVars, E!sessionVars, EP!sessionVars, E!Tasks, EP!Tasks
  <1>1. E!TakeSlot(t) <=> EP!TakeSlot(t)
    BY SameCardinality DEF E!TakeSlot, EP!TakeSlot
  <1>2. E!CallAdvances(t) <=> EP!CallAdvances(t)
    BY DEF E!CallAdvances, EP!CallAdvances
  <1>3. E!CreateReturns(t) <=> EP!CreateReturns(t)
    BY DEF E!CreateReturns, EP!CreateReturns
  <1>4. (\E passed \in BOOLEAN : E!EvaluateReturns(t, passed))
            <=> (\E passed \in BOOLEAN : EP!EvaluateReturns(t, passed))
    BY DEF E!EvaluateReturns, EP!EvaluateReturns
  <1>5. E!CallFails(t) <=> EP!CallFails(t)
    BY DEF E!CallFails, EP!CallFails
  <1>6. E!CallAborts(t) <=> EP!CallAborts(t)
    BY DEF E!CallAborts, EP!CallAborts
  <1>7. E!DeleteOver(t) <=> EP!DeleteOver(t)
    BY DEF E!DeleteOver, EP!DeleteOver
  <1>8. E!DeleteAborts(t) <=> EP!DeleteAborts(t)
    BY DEF E!DeleteAborts, EP!DeleteAborts
  <1>9. E!PromptReturns(t) <=> EP!PromptReturns(t)
    BY DEF E!PromptReturns, EP!PromptReturns
  <1>10. (\E o \in {"errored", "unwinding"} : E!PromptFails(t, o))
            <=> (\E o \in {"errored", "unwinding"} : EP!PromptFails(t, o))
    BY DEF E!PromptFails, EP!PromptFails
  <1>11. E!CancelReaches(t) <=> EP!CancelReaches(t)
    BY DEF E!CancelReaches, EP!CancelReaches
  <1>12. E!TaskTimeout(t) <=> EP!TaskTimeout(t)
    BY DEF E!TaskTimeout, EP!TaskTimeout
  <1>13. E!TaskStep(t) <=> EP!TaskStep(t)
    BY <1>1, <1>2, <1>3, <1>4, <1>5, <1>6, <1>7, <1>8, <1>9, <1>10, <1>11
    DEF E!TaskStep, EP!TaskStep
  <1> QED
    BY <1>12, <1>13

\* The end of a child call.
LEMMA SameChildEnds ==
    ASSUME NEW k PROVE E!ChildEnds(k) <=> EP!ChildEnds(k)
  BY SameSessionSteps
  DEF E!ChildEnds, EP!ChildEnds, E!taskVars, EP!taskVars, E!runVars, EP!runVars,
      E!historyVars, EP!historyVars

\* All that the engine does by itself.
LEMMA SameOwnStep == E!OwnStep <=> EP!OwnStep
  <1> USE DEF E!taskVars, EP!taskVars, E!runVars, EP!runVars, E!historyVars,
          EP!historyVars, E!sessionVars, EP!sessionVars
  <1>1. E!ListTasks <=> EP!ListTasks
    BY DEF E!ListTasks, EP!ListTasks
  <1>2. E!ListFails <=> EP!ListFails
    BY DEF E!ListFails, EP!ListFails
  <1>3. E!GatherOver <=> EP!GatherOver
    BY SameCardinality
    DEF E!GatherOver, EP!GatherOver, E!Over, EP!Over, E!Booked, EP!Booked, E!InOrder,
           EP!InOrder, E!Unrecorded, EP!Unrecorded, E!ResultsOf, EP!ResultsOf,
           E!Result, EP!Result, E!SummaryOf, EP!SummaryOf, E!Tasks, EP!Tasks
  <1>4. E!FlushOver <=> EP!FlushOver
    BY DEF E!FlushOver, EP!FlushOver
  <1>5. E!Tasks = EP!Tasks
    BY DEF E!Tasks, EP!Tasks
  <1> QED
    BY <1>1, <1>2, <1>3, <1>4, <1>5, SameTaskStep, SameChildEnds DEF E!OwnStep, EP!OwnStep

\* What is known of the engine's state is the same.
LEMMA SameTypes == E!TypeOK <=> EP!TypeOK
  BY DEF E!TypeOK, EP!TypeOK, E!Results, EP!Results, E!Tasks, EP!Tasks,
         E!M!TypeOK, EP!M!TypeOK, E!M!CallId, EP!M!CallId

\* ... and so are its invariants.
LEMMA SameProperties ==
    /\ E!BatchAccounted <=> EP!BatchAccounted
    /\ E!HonestVerdicts <=> EP!HonestVerdicts
    /\ E!SessionsCleanedUp <=> EP!SessionsCleanedUp
    /\ E!SlotsBoundTheQueue <=> EP!SlotsBoundTheQueue
  <1> USE DEF E!Tasks, EP!Tasks, E!Over, EP!Over
  <1>1. E!BatchAccounted <=> EP!BatchAccounted
    BY SameCardinality
    DEF E!BatchAccounted, EP!BatchAccounted, E!SummaryOf, EP!SummaryOf, E!ResultsOf,
        EP!ResultsOf
  <1>2. E!HonestVerdicts <=> EP!HonestVerdicts
    BY DEF E!HonestVerdicts, EP!HonestVerdicts
  <1>3. E!SessionsCleanedUp <=> EP!SessionsCleanedUp
    BY DEF E!SessionsCleanedUp, EP!SessionsCleanedUp
  <1>4. E!SlotsBoundTheQueue <=> EP!SlotsBoundTheQueue
    BY SameCardinality DEF E!SlotsBoundTheQueue, EP!SlotsBoundTheQueue
  <1> QED
    BY <1>1, <1>2, <1>3, <1>4

-----------------------------------------------------------------------------
(* The invariant.                                                           *)

Past == exec \in {"collecting", "uploading", "over"}

\* Nothing but the two named ways leaves an inner task at large.
Undisturbed == ~swallowed /\ ~stopped

ExecTypes ==
    /\ exec \in {"created", "waiting", "collecting", "uploading", "over"}
    /\ inner \in {"absent", "connecting", "engine", "closing", "ended"}
    /\ innerExit \in {"none", "ok", "error", "cancelled"}
    /\ error \in BOOLEAN
    /\ artifacts \in BOOLEAN
    /\ exported.status \in {"none", "pending", "running"} \union Terminal
    /\ stopped \in BOOLEAN
    /\ swallowed \in BOOLEAN

\* What the status of the run says of its two coroutines.
StatusInv ==
    /\ status \in {"pending", "running"} \union Terminal
    /\ exec = "created" => inner = "absent" /\ status = "pending"
    /\ exec = "waiting" => inner # "absent"
    /\ status = "pending" => inner = "absent"
    /\ status = "failed" => error
    /\ exec \in {"collecting", "uploading"} => status \in Terminal
    /\ exec = "over" => status \in Terminal \/ (stopped /\ inner = "absent")

\* The inner task of a run that is past its wait has no engine, or one whose
\* cancellation is on its way.
LeftBehindInv ==
    Past /\ Undisturbed =>
        inner \in {"closing", "ended"} \/ (inner = "engine" /\ cancelled)

ExportInv ==
    /\ artifacts => exec = "over"
    /\ exec = "uploading" \/ artifacts =>
        /\ exported.status \in Terminal
        /\ Undisturbed => exported = Snapshot

ExecutionInv ==
    /\ ExecTypes
    /\ EP!EngineInv
    /\ StatusInv
    /\ LeftBehindInv
    /\ ExportInv

-----------------------------------------------------------------------------
(* What a step does to the engine and to the run.                           *)

\* A list that only grew has the old one as a prefix.
LEMMA GrownIsPrefix ==
    ASSUME NEW R, NEW s \in Seq(R), NEW t \in Seq(R), Len(s) <= Len(t),
           \A i \in 1..Len(s) : t[i] = s[i]
    PROVE  View!IsPrefix(s, t)
  <1>1. PICK n \in Nat : n = Len(s)
    OBVIOUS
  <1>2. /\ SubSeq(s, 1, n) \in Seq(R) /\ Len(SubSeq(s, 1, n)) = n
        /\ \A i \in 1..n : SubSeq(s, 1, n)[i] = s[i]
    BY <1>1, SubSeqProperties
  <1>3. /\ SubSeq(t, 1, n) \in Seq(R) /\ Len(SubSeq(t, 1, n)) = n
        /\ \A i \in 1..n : SubSeq(t, 1, n)[i] = t[i]
    BY <1>1, SubSeqProperties
  <1>4. SubSeq(s, 1, n) = SubSeq(t, 1, n)
    BY <1>1, <1>2, <1>3, SeqEqual
  <1> QED
    BY <1>1, <1>4 DEF View!IsPrefix

\* A step of the engine by itself: results are only added, the status is only
\* set to succeeded, and a cancelled engine changes neither.
LEMMA EngineOwnStep ==
    ASSUME EP!EngineInv, E!OwnStep
    PROVE  /\ EP!EngineInv'
           /\ View!IsPrefix(results, results')
           /\ status' \in {status, "succeeded"}
           /\ exit' \in {"none", "ok", "error", "cancelled"}
           /\ cancelled' = cancelled
           /\ cancelled => UNCHANGED <<results, status>>
  <1> USE NTasksAssumption, SlotsAssumption, SameOwnStep
      DEF NTasksAssumption, SlotsAssumption
  <1>1. EP!EngineInv'
    BY EP!OwnStepKeeps
  <1>2. /\ results' \in Seq(EP!Results) /\ Len(results) <= Len(results')
        /\ \A i \in 1..Len(results) : results'[i] = results[i]
        /\ status' \in {status, "succeeded"}
        /\ cancelled' = cancelled
        /\ cancelled => UNCHANGED <<results, status>>
    BY EP!OwnStepResults
  <1>3. results \in Seq(EP!Results)
    BY DEF EP!EngineInv, EP!TypeOK
  <1>4. View!IsPrefix(results, results')
    BY <1>2, <1>3, GrownIsPrefix
  <1>5. exit' \in {"none", "ok", "error", "cancelled"}
    BY <1>1 DEF EP!EngineInv, EP!TypeOK
  <1> QED
    BY <1>1, <1>2, <1>4, <1>5

\* A child call that ends changes nothing of the run.
LEMMA ChildStep ==
    ASSUME EP!EngineInv, NEW k \in live, E!ChildEnds(k)
    PROVE  /\ EP!EngineInv'
           /\ UNCHANGED <<results, status, cancelled>>
  <1>1. E!OwnStep
    BY DEF E!OwnStep
  <1>2. EP!EngineInv'
    BY <1>1, EngineOwnStep
  <1> QED
    BY <1>2 DEF E!ChildEnds, E!runVars

\* The run's cancellation with the failure of the run.
LEMMA CancelStep ==
    ASSUME EP!EngineInv, E!CancelEffect, status' = "failed"
    PROVE  /\ EP!EngineInv'
           /\ exit' \in {"none", "ok", "error", "cancelled"}
           /\ cancelled'
           /\ UNCHANGED results
  <1>1. EP!EngineInv'
    BY NTasksAssumption, SlotsAssumption, SameCancel, EP!CancelKeeps
    DEF NTasksAssumption, SlotsAssumption
  <1>2. exit' \in {"none", "ok", "error", "cancelled"}
    BY <1>1 DEF EP!EngineInv, EP!TypeOK
  <1> QED
    BY <1>1, <1>2 DEF E!CancelEffect

\* A step that leaves the engine alone.
LEMMA EngineStill ==
    ASSUME EP!EngineInv, UNCHANGED engineVars, status' \in {status, "running", "failed"}
    PROVE  EP!EngineInv'
  <1>1. /\ UNCHANGED <<EP!taskVars, EP!historyVars, EP!sessionVars>>
        /\ UNCHANGED <<phase, exit, results, summary, cancelled>>
    BY DEF engineVars, EP!taskVars, EP!historyVars, EP!sessionVars
  <1> QED
    BY <1>1, NTasksAssumption, SlotsAssumption, EP!StatusKeeps
    DEF NTasksAssumption, SlotsAssumption

-----------------------------------------------------------------------------
(* The invariant is inductive.                                              *)

\* It holds when the run is created.
LEMMA InitExecutionInv == Init => ExecutionInv
  <1> SUFFICES ASSUME Init PROVE ExecutionInv
    OBVIOUS
  <1>1. EP!EngineInv
    BY NTasksAssumption, SlotsAssumption, SameCalled, EP!CalledEngineInv
    DEF Init, NTasksAssumption, SlotsAssumption
  <1>2. ExecTypes
    BY DEF Init, ExecTypes, NotExported
  <1>3. StatusInv /\ LeftBehindInv /\ ExportInv
    BY DEF Init, StatusInv, LeftBehindInv, Past, ExportInv
  <1> QED
    BY <1>1, <1>2, <1>3 DEF ExecutionInv

\* The steps of _go and of the engine it runs.
LEMMA InnerKeeps ==
    ASSUME ExecutionInv, Connected \/ ConnectFails \/ EngineStep \/ Closed
    PROVE  ExecutionInv'
  <1> USE DEF ExecutionInv, ExecTypes, StatusInv, LeftBehindInv, Past, Undisturbed,
              ExportInv, Snapshot, Terminal
  <1>1. CASE Connected \/ ConnectFails \/ Closed
    <2>1. /\ EP!EngineInv'
          /\ UNCHANGED <<status, results, cancelled, swallowed, stopped, exec, error,
                         artifacts, exported>>
      BY <1>1, EngineStill DEF Connected, ConnectFails, Closed, engineVars
    <2> QED
      BY <1>1, <2>1 DEF Connected, ConnectFails, Closed
  <1>2. CASE EngineStep
    <2>1. CASE inner = "engine" /\ E!OwnStep
      BY <1>2, <2>1, EngineOwnStep DEF EngineStep
    <2>2. CASE inner # "engine" /\ \E k \in live : E!ChildEnds(k)
      <3>1. EP!EngineInv' /\ UNCHANGED <<results, status, cancelled>>
        BY <2>2, ChildStep
      <3> QED
        BY <1>2, <2>2, <3>1 DEF EngineStep
    <2> QED
      BY <1>2, <2>1, <2>2 DEF EngineStep
  <1> QED
    BY <1>1, <1>2

\* The wall timeout, which cancels _go and does not wait for it.
LEMMA WallTimeoutKeeps ==
    ASSUME ExecutionInv, WallTimeout PROVE ExecutionInv' /\ UNCHANGED results
  <1> USE DEF ExecutionInv, ExecTypes, StatusInv, LeftBehindInv, Past, Undisturbed,
              ExportInv, Terminal, WallTimeout, Fail
  <1>1. CASE inner = "engine" /\ E!CancelEffect
    BY <1>1, CancelStep DEF CancelInner
  <1>2. CASE UNCHANGED engineVars
    <2>1. EP!EngineInv' /\ UNCHANGED <<results, cancelled>>
      BY <1>2, EngineStill DEF engineVars
    <2>2. CASE UNCHANGED <<inner, innerExit>> /\ swallowed'
      BY <2>1, <2>2
    <2>3. CASE /\ inner' \in {"closing", "ended"} /\ innerExit' = "cancelled"
               /\ UNCHANGED swallowed
      BY <2>1, <2>3
    <2>4. CASE inner = "engine"
      BY <1>1, <2>4 DEF CancelInner
    <2> QED
      BY <2>2, <2>3, <2>4 DEF CancelInner
  <1> QED
    BY <1>1, <1>2 DEF CancelInner

\* The other steps of _execute, and the shutdown.
LEMMA ExecKeeps ==
    ASSUME ExecutionInv,
           Start \/ InnerDone \/ WriteSnapshot \/ Uploaded \/ ExportFails \/ Shutdown
    PROVE  ExecutionInv' /\ UNCHANGED results
  <1> USE DEF ExecutionInv, ExecTypes, StatusInv, LeftBehindInv, Past, Undisturbed,
              ExportInv, Terminal, Fail, Backstop, Snapshot
  <1>1. /\ UNCHANGED engineVars /\ UNCHANGED <<results, cancelled>>
        /\ status' \in {status, "running", "failed"}
    BY DEF Start, InnerDone, WriteSnapshot, Uploaded, ExportFails, Shutdown, engineVars
  <1>2. EP!EngineInv'
    BY <1>1, EngineStill
  <1>3. CASE Start
    BY <1>1, <1>2, <1>3 DEF Start
  <1>4. CASE InnerDone
    BY <1>1, <1>2, <1>4 DEF InnerDone
  <1>5. CASE WriteSnapshot
    BY <1>1, <1>2, <1>5 DEF WriteSnapshot
  <1>6. CASE Uploaded
    BY <1>1, <1>2, <1>6 DEF Uploaded
  <1>7. CASE ExportFails
    BY <1>1, <1>2, <1>7 DEF ExportFails
  <1>8. CASE Shutdown
    <2>1. stopped' /\ UNCHANGED <<inner, innerExit, artifacts, exported, swallowed>>
      BY <1>8 DEF Shutdown
    <2>2. CASE exec = "waiting" /\ exec' = "collecting" /\ Backstop
      BY <1>1, <1>2, <2>1, <2>2
    <2>3. CASE exec # "waiting" /\ exec' = "over" /\ UNCHANGED <<status, error>>
      BY <1>1, <1>2, <2>1, <2>3
    <2> QED
      BY <1>8, <2>2, <2>3 DEF Shutdown
  <1> QED
    BY <1>1, <1>3, <1>4, <1>5, <1>6, <1>7, <1>8

\* A step that changes nothing.
LEMMA StutterKeeps ==
    ASSUME ExecutionInv, UNCHANGED vars PROVE ExecutionInv'
  <1>1. EP!EngineInv'
    BY EngineStill DEF ExecutionInv, vars
  <1> QED
    BY <1>1 DEF ExecutionInv, vars, execVars, engineVars, ExecTypes, StatusInv,
                LeftBehindInv, Past, Undisturbed, ExportInv, Snapshot

\* Every step keeps the invariant.
LEMMA ExecutionKeeps == ExecutionInv /\ [Next]_vars => ExecutionInv'
  BY InnerKeeps, WallTimeoutKeeps, ExecKeeps, StutterKeeps DEF Next, ExecStep

-----------------------------------------------------------------------------
(* The theorems.                                                            *)

\* The inductive invariant holds in every execution of a run.
THEOREM ExecutionInvariant == Spec => []ExecutionInv
  BY InitExecutionInv, ExecutionKeeps, PTL DEF Spec

\* Types of the state of the execution, the engine and the session.
THEOREM ExecutionTypes == Spec => []TypeOK
  <1>1. ExecutionInv => TypeOK
    BY SameTypes DEF ExecutionInv, ExecTypes, EP!EngineInv, TypeOK
  <1> QED
    BY <1>1, ExecutionInvariant, PTL

\* A run that _execute has stopped waiting for is terminal, and a failed run
\* says why, however _execute got there.
THEOREM NeverLeftRunning == Spec => []BackstopHolds
  <1>1. ExecutionInv => BackstopHolds
    BY DEF ExecutionInv, StatusInv, BackstopHolds
  <1> QED
    BY <1>1, ExecutionInvariant, PTL

\* From then on the run is what it is, unless a cancellation was swallowed or
\* the service is stopping.
THEOREM PartialResultsRetained == Spec => FrozenAfterEnd
  <1> DEFINE A == (exec \in {"collecting", "uploading", "over"} /\ ~swallowed /\ ~stopped)
                    => (UNCHANGED <<status, results, error>>)
  <1>1. ExecutionInv /\ [Next]_vars => [A]_vars
    <2> SUFFICES ASSUME ExecutionInv, Next,
                        exec \in {"collecting", "uploading", "over"}, ~swallowed, ~stopped
                 PROVE  UNCHANGED <<status, results, error>>
      OBVIOUS
    <2> USE DEF ExecutionInv, LeftBehindInv, Past, Undisturbed
    <2>1. CASE Connected \/ ConnectFails \/ Closed
      BY <2>1 DEF Connected, ConnectFails, Closed, engineVars
    <2>2. CASE EngineStep
      <3>1. CASE inner = "engine" /\ E!OwnStep
        BY <2>2, <3>1, EngineOwnStep DEF EngineStep
      <3>2. CASE inner # "engine" /\ \E k \in live : E!ChildEnds(k)
        BY <2>2, <3>2, ChildStep DEF EngineStep
      <3> QED
        BY <2>2, <3>1, <3>2 DEF EngineStep
    <2>3. CASE ExecStep \/ Shutdown
      BY <2>3 DEF ExecStep, Start, WallTimeout, InnerDone, WriteSnapshot, Uploaded,
                  ExportFails, Shutdown, engineVars
    <2> QED
      BY <2>1, <2>2, <2>3 DEF Next
  <1>2. Spec => [][A]_vars
    BY <1>1, ExecutionInvariant, PTL DEF Spec
  <1> QED
    BY <1>2 DEF FrozenAfterEnd

\* run.json shows a run that has ended, and shows it as it is.
THEOREM ExportsFaithful == Spec => []ExportFaithful
  <1>1. ExecutionInv => ExportFaithful
    BY DEF ExecutionInv, ExportInv, Undisturbed, ExportFaithful
  <1> QED
    BY <1>1, ExecutionInvariant, PTL

\* A run is to its pollers what RunView promises: it begins once, results are
\* only added, and it never goes back from a terminal status.
THEOREM ImplementsRunView == Spec => ViewSpec
  <1> USE DEF View!Terminal, Terminal
  <1>1. Init => View!Init
    BY DEF Init, E!Called, View!Init
  <1>2. ExecutionInv /\ [Next]_vars => [View!Next]_(View!vars)
    <2> SUFFICES ASSUME ExecutionInv, [Next]_vars PROVE [View!Next]_(View!vars)
      OBVIOUS
    <2> USE DEF ExecutionInv, StatusInv
    <2>0. View!IsPrefix(results, results)
      <3>1. results \in Seq(EP!Results)
        BY DEF EP!EngineInv, EP!TypeOK
      <3> QED
        BY <3>1, GrownIsPrefix
    <2>1. CASE Connected \/ ConnectFails \/ Closed \/ UNCHANGED vars
      BY <2>1 DEF Connected, ConnectFails, Closed, engineVars, vars, View!vars
    <2>2. CASE EngineStep
      <3>1. CASE inner = "engine" /\ E!OwnStep
        <4>1. View!IsPrefix(results, results') /\ status' \in {status, "succeeded"}
          BY <3>1, EngineOwnStep
        <4> QED
          BY <3>1, <4>1 DEF View!Next, View!Report, View!End, View!Revise
      <3>2. CASE inner # "engine" /\ \E k \in live : E!ChildEnds(k)
        BY <2>2, <3>2, ChildStep DEF View!vars
      <3> QED
        BY <2>2, <3>1, <3>2 DEF EngineStep
    <2>3. CASE Start
      BY <2>3 DEF Start, engineVars, View!Next, View!Begin
    <2>4. CASE WallTimeout
      <3>1. UNCHANGED results
        BY <2>4, WallTimeoutKeeps
      <3>2. status \in {"running", "succeeded", "failed"} /\ status' = "failed"
        BY <2>4 DEF WallTimeout, Fail
      <3> QED
        BY <2>0, <3>1, <3>2 DEF View!Next, View!End, View!Revise
    <2>5. CASE InnerDone \/ Shutdown
      <3>1. UNCHANGED results
        BY <2>5, ExecKeeps
      <3>2. \/ status' = status
            \/ status' = "failed" /\ status \in {"running", "succeeded", "failed"}
        BY <2>5 DEF InnerDone, Shutdown, Backstop, Fail
      <3> QED
        BY <2>0, <3>1, <3>2 DEF View!Next, View!End, View!Revise, View!vars
    <2>6. CASE WriteSnapshot \/ Uploaded \/ ExportFails
      BY <2>6 DEF WriteSnapshot, Uploaded, ExportFails, engineVars, View!vars
    <2> QED
      BY <2>1, <2>2, <2>3, <2>4, <2>5, <2>6 DEF Next, ExecStep
  <1>3. Spec => View!Spec
    BY <1>1, <1>2, ExecutionInvariant, PTL DEF Spec, View!Spec
  <1> QED
    BY <1>3 DEF ViewSpec

\* What holds of the engine by itself holds of it within the execution of a
\* run, through its wall timeout and the shutdown: whatever _execute makes of
\* the status, the batch is accounted for, verdicts are honest, known sessions
\* are cleaned up and the slots bound the session's queue.
THEOREM EngineWithinRun ==
    Spec => [](E!BatchAccounted /\ E!HonestVerdicts /\ E!SessionsCleanedUp
                /\ E!SlotsBoundTheQueue)
  <1>1. EP!EngineInv => /\ EP!BatchAccounted /\ EP!HonestVerdicts
                        /\ EP!SessionsCleanedUp /\ EP!SlotsBoundTheQueue
    BY NTasksAssumption, SlotsAssumption, EP!EngineMeans
    DEF NTasksAssumption, SlotsAssumption
  <1>2. ExecutionInv => E!BatchAccounted /\ E!HonestVerdicts /\ E!SessionsCleanedUp
                            /\ E!SlotsBoundTheQueue
    BY <1>1, SameProperties DEF ExecutionInv
  <1> QED
    BY <1>2, ExecutionInvariant, PTL

\* The session is used as McpSession says from the creation of the run to long
\* after it was given up: no step of an execution, a left-behind engine's
\* included, does anything else to it.
THEOREM SessionWithinRun == Spec => E!M!Init /\ [][E!M!Next]_(E!M!vars)
  <1> USE NTasksAssumption, SlotsAssumption DEF NTasksAssumption, SlotsAssumption
  <1>1. Init => E!M!Init
    BY DEF Init, E!Called
  <1>2. ASSUME E!OwnStep \/ E!CancelEffect \/ UNCHANGED engineVars
        PROVE  [E!M!Next]_(E!M!vars)
    BY <1>2, EP!OwnSessionStep, SameOwnStep, SameCancel, SameSessionNext
    DEF engineVars, E!M!vars
  <1>3. ASSUME EngineStep PROVE [E!M!Next]_(E!M!vars)
    BY <1>2, <1>3 DEF EngineStep, E!OwnStep
  <1>4. ASSUME CancelInner PROVE [E!M!Next]_(E!M!vars)
    BY <1>2, <1>4 DEF CancelInner
  <1>5. [Next]_vars => [E!M!Next]_(E!M!vars)
    BY <1>2, <1>3, <1>4
    DEF Next, ExecStep, Start, WallTimeout, InnerDone, WriteSnapshot, Uploaded,
        ExportFails, Shutdown, Connected, ConnectFails, Closed, vars
  <1> QED
    BY <1>1, <1>5, PTL DEF Spec
=============================================================================
