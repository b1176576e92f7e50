---------------------------- MODULE EngineProofs ----------------------------
(***************************************************************************)
(* Theorems about Engine, for every list of tasks and every number of      *)
(* slots: the engine implements the safety part of the shared session's    *)
(* specification, and its batch accounting, verdicts, cleanup and slots    *)
(* hold in every behaviour.                                                *)
(*                                                                         *)
(* The inductive invariant EngineInv is made of what is known of each task *)
(* by itself (TaskInv), of the list of results (ResultsInv), of the run    *)
(* (RunInv) and of the session (M!IInv, proved in McpSessionProofs).       *)
(***************************************************************************)
EXTENDS Engine, SequenceTheorems, FiniteSetTheorems, TLAPS

\* The theorems about the session, at the engine's instance of it.
MP == INSTANCE McpSessionProofs WITH Clients <- Tasks, NoClient <- 0, MaxCalls <- 3

Recorded(t) == \E i \in 1..Len(results) : results[i].task = t

\* A task calls the session only in its calling stages; its session is known
\* from create_session's answer on; its cleanup is on the wire once called;
\* the evaluator's `passed` is what the task leaves with, unless cut; and what
\* is left of a task that a cancellation of the run has reached is its cleanup.
TaskInv(t) ==
    /\ pc[t] # "idle" => Calling(t)
    /\ stage[t] = "queued" => t \notin sid
    /\ stage[t] \in {"prompt", "evaluate", "delete"} => t \in sid
    /\ stage[t] = "delete" /\ pc[t] \in {"calling", "reaping"} => t \in deleteSent
    /\ outcome[t] = "passed" => t \in judged
    /\ t \in judged =>
        /\ stage[t] \in {"delete", "recorded", "aborted"}
        /\ stage[t] = "delete" => outcome[t] = "passed"
        /\ stage[t] = "aborted" => t \in cut
    /\ t \in sid /\ Over(t) => t \in deleteSent \/ poisoned \/ t \in cut
    /\ stage[t] = "recorded" => Recorded(t)
    /\ cancelled /\ phase = "gathering" =>
        \/ t \in doomed
        \/ stage[t] = "delete" /\ outcome[t] = "unwinding"
        \/ Over(t)

Honest(r) ==
    IF r.passed THEN r.task \in judged /\ ~r.error
    ELSE r.task \in judged => r.task \in cut

\* No two results of one task, none of a task that is still on its way, and
\* each one is honest.
ResultsInv ==
    /\ \A i, j \in 1..Len(results) : results[i].task = results[j].task => i = j
    /\ \A i \in 1..Len(results) :
        /\ Honest(results[i])
        /\ \/ stage[results[i].task] = "recorded"
           \/ stage[results[i].task] = "aborted" /\ phase \in {"flushing", "returned"}

Occupied == {t \in Tasks : InSlot(t)}

RunInv ==
    /\ summary = SummaryOf(results)
    /\ phase = "listing" => ~cancelled /\ results = <<>> /\ \A t \in Tasks : stage[t] = "queued"
    /\ status = "succeeded" =>
        phase \in {"flushing", "returned"} /\ \A t \in Tasks : Recorded(t)
    /\ Cardinality(Occupied) <= Slots

EngineInv ==
    /\ TypeOK
    /\ M!IInv
    /\ \A t \in Tasks : TaskInv(t)
    /\ ResultsInv
    /\ RunInv

-----------------------------------------------------------------------------
(* The session within the engine.                                           *)

\* The engine's instance meets the assumptions of the session's theorems.
LEMMA SessionAssumptions == 0 \notin Tasks /\ 3 \in Nat
  BY DEF Tasks

\* The two instances of the session state the same invariant.
LEMMA SameInvariant == M!IInv <=> MP!IInv
  BY DEF M!IInv, MP!IInv, M!TypeOK, MP!TypeOK, M!LockInv, MP!LockInv, M!QueueInv,
         MP!QueueInv, M!OrphansPoison, MP!OrphansPoison, M!HolderNotPoisoned,
         MP!HolderNotPoisoned, M!OneUnstrayed, MP!OneUnstrayed, M!Child, MP!Child,
         M!CallId, MP!CallId

\* ... and the same steps.
LEMMA SameSteps == [M!Next]_(M!vars) <=> [MP!Next]_(MP!vars)
  <1> USE DEF M!Acquire, MP!Acquire, M!AcquireAtOnce, MP!AcquireAtOnce,
              M!AcquireInTurn, MP!AcquireInTurn, M!Release, MP!Release, M!Child,
              MP!Child, M!RemoveAt, MP!RemoveAt
  <1>1. ASSUME NEW c \in Tasks
        PROVE  /\ M!Enqueue(c) <=> MP!Enqueue(c)
               /\ M!FailFast(c) <=> MP!FailFast(c)
               /\ M!StartCall(c) <=> MP!StartCall(c)
               /\ M!Answer(c) <=> MP!Answer(c)
               /\ M!Deadline(c) <=> MP!Deadline(c)
    BY DEF M!Enqueue, MP!Enqueue, M!FailFast, MP!FailFast, M!StartCall,
           MP!StartCall, M!Answer, MP!Answer, M!Deadline, MP!Deadline
  <1>2. ASSUME NEW c \in Tasks
        PROVE  /\ M!Reaped(c) <=> MP!Reaped(c)
               /\ M!GraceOver(c) <=> MP!GraceOver(c)
               /\ M!CancelWaiting(c) <=> MP!CancelWaiting(c)
               /\ M!CancelCalling(c) <=> MP!CancelCalling(c)
               /\ M!CancelReaping(c) <=> MP!CancelReaping(c)
    BY DEF M!Reaped, MP!Reaped, M!GraceOver, MP!GraceOver, M!CancelWaiting,
           MP!CancelWaiting, M!CancelCalling, MP!CancelCalling, M!CancelReaping,
           MP!CancelReaping
  <1>3. ASSUME NEW k \in live PROVE M!ChildEnds(k) <=> MP!ChildEnds(k)
    BY DEF M!ChildEnds, MP!ChildEnds
  <1> QED
    BY <1>1, <1>2, <1>3 DEF M!Next, MP!Next, M!vars, MP!vars

\* The session's invariant is kept by whatever the session may do.
LEMMA SessionKeeps == M!IInv /\ [M!Next]_(M!vars) => M!IInv'
  <1>1. MP!IInv /\ [MP!Next]_(MP!vars) => MP!IInv'
    BY SessionAssumptions, MP!TypeStep, MP!LockStep, MP!QueueStep, MP!StreamStep
    DEF MP!IInv, MP!StreamInv
  <1>2. M!IInv' <=> MP!IInv'
    BY SameInvariant, PTL
  <1> QED
    BY <1>1, <1>2, SameInvariant, SameSteps

\* It holds when the run begins.
LEMMA SessionBegins == M!Init => M!IInv
  BY SessionAssumptions, SameInvariant, MP!InitIInv DEF M!Init, MP!Init

\* An interruption does to the session what a cancelled client does to it,
\* or nothing at all.
LEMMA InterruptIsCancel ==
    ASSUME NEW t \in Tasks, Interrupt(t) PROVE [M!Next]_(M!vars)
  BY DEF Interrupt, M!Cancel, M!Next, M!vars, sessionVars

\* Every step of the engine is one of the session's, or leaves it alone.
LEMMA OwnSessionStep ==
    ASSUME OwnStep \/ CancelEffect PROVE [M!Next]_(M!vars)
  <1>1. ASSUME NEW t \in Tasks, CallRaises(t) \/ M!Answer(t)
        PROVE  M!Next
    BY <1>1 DEF CallRaises, M!Next
  <1>2. ASSUME NEW t \in Tasks, CallAdvances(t) PROVE M!Next
    BY <1>2 DEF CallAdvances, M!Next
  <1>3. ASSUME NEW t \in Tasks,
               \/ CreateReturns(t) \/ (\E passed \in BOOLEAN : EvaluateReturns(t, passed))
               \/ CallFails(t) \/ CallAborts(t) \/ DeleteOver(t) \/ DeleteAborts(t)
        PROVE  M!Next
    BY <1>1, <1>3 DEF CreateReturns, EvaluateReturns, CallFails, CallAborts,
                      DeleteOver, DeleteAborts
  <1>4. ASSUME NEW t \in Tasks,
               \/ TakeSlot(t) \/ PromptReturns(t)
               \/ \E o \in {"errored", "unwinding"} : PromptFails(t, o)
        PROVE  UNCHANGED sessionVars
    BY <1>4 DEF TakeSlot, PromptReturns, PromptFails
  <1>5. ASSUME NEW t \in Tasks, TaskTimeout(t) \/ CancelReaches(t)
        PROVE  [M!Next]_(M!vars)
    BY <1>5, InterruptIsCancel
    DEF TaskTimeout, CancelReaches, sessionVars, M!vars
  <1>6. ASSUME NEW k \in live, ChildEnds(k) PROVE M!Next
    BY <1>6 DEF ChildEnds, M!Next
  <1>7. CASE ListTasks \/ ListFails \/ GatherOver \/ FlushOver \/ CancelEffect
    BY <1>7 DEF ListTasks, ListFails, GatherOver, FlushOver, CancelEffect,
                sessionVars, M!vars
  <1> QED
    BY <1>2, <1>3, <1>4, <1>5, <1>6, <1>7
    DEF OwnStep, TaskStep, sessionVars, M!vars

\* The same of the engine's next-state relation.
LEMMA SessionStep == [Next]_vars => [M!Next]_(M!vars)
  BY OwnSessionStep DEF Next, CancelRun, vars, sessionVars, M!vars

\* What the calls of task t do to the rest of the session: nothing, and a
\* poisoned session stays poisoned.
LEMMA CallEffects ==
    ASSUME M!TypeOK, NEW t \in Tasks
    PROVE  /\ M!Enqueue(t) =>
                /\ pc' = [pc EXCEPT ![t] = "waiting"] /\ poisoned' = poisoned
           /\ M!StartCall(t) =>
                /\ pc' = [pc EXCEPT ![t] = "calling"] /\ poisoned' = poisoned
           /\ M!Deadline(t) =>
                /\ pc[t] = "calling"
                /\ pc' = [pc EXCEPT ![t] = "reaping"] /\ poisoned' = poisoned
           /\ M!Answer(t) =>
                /\ pc[t] = "calling"
                /\ pc' = [pc EXCEPT ![t] = "idle"] /\ poisoned' = poisoned
           /\ CallRaises(t) =>
                /\ pc[t] \in {"calling", "reaping"} \/ poisoned'
                /\ pc' = [pc EXCEPT ![t] = "idle"] /\ (poisoned => poisoned')
           /\ M!Cancel(t) =>
                /\ pc' = [pc EXCEPT ![t] = "idle"] /\ (poisoned => poisoned')
  <1> USE DEF M!Release
  <1>1. M!Enqueue(t) =>
            /\ pc' = [pc EXCEPT ![t] = "waiting"] /\ poisoned' = poisoned
    BY DEF M!Enqueue
  <1>2. M!StartCall(t) =>
            /\ pc' = [pc EXCEPT ![t] = "calling"] /\ poisoned' = poisoned
    BY DEF M!StartCall
  <1>3. M!Deadline(t) =>
            /\ pc[t] = "calling"
            /\ pc' = [pc EXCEPT ![t] = "reaping"] /\ poisoned' = poisoned
    BY DEF M!Deadline
  <1>4. M!Answer(t) =>
            /\ pc[t] = "calling"
            /\ pc' = [pc EXCEPT ![t] = "idle"] /\ poisoned' = poisoned
    BY DEF M!Answer
  <1>5. CallRaises(t) =>
            /\ pc[t] \in {"calling", "reaping"} \/ poisoned'
            /\ pc' = [pc EXCEPT ![t] = "idle"] /\ (poisoned => poisoned')
    BY DEF CallRaises, M!FailFast, M!Answer, M!Reaped, M!GraceOver
  <1>6. M!Cancel(t) =>
            /\ pc' = [pc EXCEPT ![t] = "idle"] /\ (poisoned => poisoned')
    BY DEF M!Cancel, M!CancelWaiting, M!CancelCalling, M!CancelReaping
  <1> QED
    BY <1>1, <1>2, <1>3, <1>4, <1>5, <1>6

-----------------------------------------------------------------------------
(* How a task moves.                                                        *)

Stages == {"queued", "create", "prompt", "evaluate", "delete", "recorded", "aborted"}
Outcomes == {"none", "passed", "failed", "errored", "unwinding"}

\* Task t gets its result r, which says passed as the outcome o does.
Records(t, o) ==
    /\ stage' = [stage EXCEPT ![t] = "recorded"]
    /\ \E r \in Results :
        /\ Record(r)
        /\ r.task = t
        /\ r.passed <=> o = "passed"
        /\ r.passed => ~r.error

\* Task t goes on to a stage that has no result, or ends without one.
MovesTo(t, s) ==
    /\ s # "recorded"
    /\ stage' = [stage EXCEPT ![t] = s]
    /\ UNCHANGED runVars

\* The fields of a result.
LEMMA ResultFields ==
    ASSUME NEW t \in Tasks, NEW p \in BOOLEAN, NEW e \in BOOLEAN, NEW x \in BOOLEAN
    PROVE  LET r == Result(t, p, e, x)
           IN  r \in Results /\ r.task = t /\ (r.passed <=> p) /\ (r.error <=> e)
  BY DEF Result, Results

\* Either way run_benchmark stays where it is.
LEMMA RunStays ==
    ASSUME NEW t, NEW o, NEW s, Records(t, o) \/ MovesTo(t, s)
    PROVE  UNCHANGED <<phase, exit, status, cancelled>>
  BY DEF Records, Record, MovesTo, runVars

\* A task that leaves _run_task with outcome o is recorded accordingly, or its
\* coroutine ends in a CancelledError.
LEMMA ConcludeMoves ==
    ASSUME NEW t \in Tasks, NEW o \in Outcomes, Conclude(t, o)
    PROVE  /\ outcome' = [outcome EXCEPT ![t] = o]
           /\ Records(t, o) \/ (MovesTo(t, "aborted") /\ o = "unwinding")
  <1> DEFINE r == Result(t, o = "passed", o = "errored", t \in sid)
             w == Result(t, FALSE, TRUE, FALSE)
  <1>1. outcome' = [outcome EXCEPT ![t] = o]
    BY DEF Conclude
  <1>2. CASE o # "unwinding" /\ Record(r) /\ stage' = [stage EXCEPT ![t] = "recorded"]
    <2>1. /\ r \in Results /\ r.task = t
          /\ r.passed <=> o = "passed"
          /\ r.passed => ~r.error
      <3>1. (o = "passed") \in BOOLEAN /\ (o = "errored") \in BOOLEAN /\ (t \in sid) \in BOOLEAN
        OBVIOUS
      <3> QED
        BY <3>1, ResultFields
    <2> HIDE DEF r
    <2> QED
      BY <1>1, <1>2, <2>1 DEF Records
  <1>3. CASE o = "unwinding" /\ Record(w) /\ stage' = [stage EXCEPT ![t] = "recorded"]
    <2>1. w \in Results /\ w.task = t /\ ~w.passed
      BY ResultFields
    <2> HIDE DEF w
    <2> QED
      BY <1>1, <1>3, <2>1 DEF Records
  <1>4. CASE o = "unwinding" /\ stage' = [stage EXCEPT ![t] = "aborted"] /\ UNCHANGED runVars
    BY <1>1, <1>4 DEF MovesTo
  <1> QED
    BY <1>2, <1>3, <1>4 DEF Conclude

\* A task that leaves the body goes into its cleanup when it has a session,
\* and concludes when it has none.
LEMMA LeaveBodyMoves ==
    ASSUME NEW t \in Tasks, NEW o \in Outcomes, LeaveBody(t, o)
    PROVE  /\ outcome' = [outcome EXCEPT ![t] = o]
           /\ \/ t \in sid /\ MovesTo(t, "delete")
              \/ t \notin sid /\ Records(t, o)
              \/ t \notin sid /\ MovesTo(t, "aborted") /\ o = "unwinding"
  <1>1. CASE t \notin sid /\ Conclude(t, o)
    BY <1>1, ConcludeMoves
  <1>2. CASE t \in sid /\ ~Conclude(t, o)
    BY <1>2 DEF LeaveBody, MovesTo
  <1>3. CASE t \in sid /\ Conclude(t, o)
    BY <1>3 DEF LeaveBody, MovesTo
  <1> QED
    BY <1>1, <1>2, <1>3 DEF LeaveBody

\* Where an interruption takes a task from and to.
LEMMA InterruptMoves ==
    ASSUME M!TypeOK, NEW t \in Tasks, Interrupt(t)
    PROVE  /\ outcome' = [outcome EXCEPT ![t] = "unwinding"]
           /\ poisoned => poisoned'
           /\ \/ /\ stage[t] = "prompt" /\ pc' = pc
                 /\ cut' = cut
              \/ /\ stage[t] \in {"create", "evaluate"}
                 /\ pc' = [pc EXCEPT ![t] = "idle"]
                 /\ cut' = cut
              \/ /\ stage[t] = "delete"
                 /\ pc' = [pc EXCEPT ![t] = "idle"]
                 /\ cut' = cut \union {t}
           /\ \/ /\ t \in sid /\ stage[t] # "delete" /\ MovesTo(t, "delete")
              \/ /\ t \notin sid \/ stage[t] = "delete"
                 /\ Records(t, "unwinding") \/ MovesTo(t, "aborted")
  <1> USE DEF Outcomes
  <1>1. CASE stage[t] = "prompt"
    BY <1>1, LeaveBodyMoves DEF Interrupt, sessionVars
  <1>2. CASE stage[t] \in {"create", "evaluate"}
    BY <1>2, LeaveBodyMoves, CallEffects DEF Interrupt
  <1>3. CASE stage[t] = "delete"
    BY <1>3, ConcludeMoves, CallEffects DEF Interrupt
  <1> QED
    BY <1>1, <1>2, <1>3 DEF Interrupt

\* A published result keeps the list of results and its summary well typed.
LEMMA RecordTypes ==
    ASSUME TypeOK, NEW r \in Results, Record(r)
    PROVE  /\ results' \in Seq(Results)
           /\ summary' \in [total : Nat, succeeded : Nat, evaluated_pass : Nat]
           /\ Len(results') = Len(results) + 1
           /\ results'[Len(results) + 1] = r
           /\ \A i \in 1..Len(results) : results'[i] = results[i]
           /\ summary' = SummaryOf(results')
           /\ UNCHANGED <<phase, exit, status, cancelled>>
  <1>1. results' = Append(results, r) /\ results \in Seq(Results)
    BY DEF Record, TypeOK
  <1>2. /\ results' \in Seq(Results)
        /\ Len(results') = Len(results) + 1
        /\ results'[Len(results) + 1] = r
        /\ \A i \in 1..Len(results) : results'[i] = results[i]
    BY <1>1, AppendProperties
  <1>3. summary' = SummaryOf(results')
    BY DEF Record
  <1>4. SummaryOf(results') \in [total : Nat, succeeded : Nat, evaluated_pass : Nat]
    BY <1>2 DEF SummaryOf
  <1> QED
    BY <1>2, <1>3, <1>4 DEF Record

-----------------------------------------------------------------------------
(* Steps of one task, seen from the others.                                 *)

\* Of what TaskInv speaks about, the step changes the state of task t only.
Alone(t) ==
    /\ \A u \in Tasks \ {t} :
        /\ stage'[u] = stage[u] /\ outcome'[u] = outcome[u] /\ pc'[u] = pc[u]
        /\ u \in sid' <=> u \in sid
        /\ u \in judged' <=> u \in judged
        /\ u \in cut' <=> u \in cut
        /\ u \in deleteSent' <=> u \in deleteSent
        /\ u \in doomed' <=> u \in doomed
    /\ poisoned => poisoned'

\* What is known of another task stays known, as no result is taken away.
LEMMA OthersKeep ==
    ASSUME NEW t \in Tasks, Alone(t), NEW u \in Tasks \ {t}, TaskInv(u),
           Recorded(u) => Recorded(u)', UNCHANGED <<phase, cancelled>>
    PROVE  TaskInv(u)'
  BY DEF Alone, TaskInv, Calling, Over

\* The slots taken are finitely many.
LEMMA OccupiedFinite ==
    IsFiniteSet(Tasks) /\ IsFiniteSet(Occupied) /\ Cardinality(Occupied) \in Nat
  <1>1. IsFiniteSet(Tasks)
    BY FS_Interval, NTasksAssumption DEF Tasks, NTasksAssumption
  <1>2. Occupied \subseteq Tasks
    BY DEF Occupied
  <1> QED
    BY <1>1, <1>2, FS_Subset, FS_CardinalityType

\* A step that lets nobody into a slot keeps within the slots.
LEMMA NobodyEnters ==
    ASSUME Cardinality(Occupied) <= Slots,
           \A u \in Tasks : InSlot(u)' => InSlot(u)
    PROVE  Cardinality(Occupied') <= Slots
  <1>1. Occupied' \subseteq Occupied
    BY DEF Occupied
  <1>2. Cardinality(Occupied') <= Cardinality(Occupied) /\ Cardinality(Occupied') \in Nat
    BY <1>1, OccupiedFinite, FS_Subset, FS_CardinalityType
  <1> QED
    BY <1>2, OccupiedFinite, SlotsAssumption DEF SlotsAssumption

\* While the run gathers, results belong to recorded tasks and are honest.
LEMMA GatheredResults ==
    ASSUME EngineInv, phase = "gathering"
    PROVE  \A i \in 1..Len(results) :
            /\ results[i] \in Results /\ results[i].task \in Tasks
            /\ Honest(results[i])
            /\ stage[results[i].task] = "recorded"
  <1> SUFFICES ASSUME NEW i \in 1..Len(results)
               PROVE  /\ results[i] \in Results /\ results[i].task \in Tasks
                      /\ Honest(results[i])
                      /\ stage[results[i].task] = "recorded"
    OBVIOUS
  <1>1. results[i] \in Results
    BY DEF EngineInv, TypeOK
  <1>2. results[i].task \in Tasks
    BY <1>1 DEF Results
  <1>3. Honest(results[i]) /\ stage[results[i].task] = "recorded"
    BY DEF EngineInv, ResultsInv
  <1> QED
    BY <1>1, <1>2, <1>3

\* The types of what a step of a task changes besides its stage, the results
\* and the session.
TaskTypes ==
    /\ outcome \in [Tasks -> Outcomes]
    /\ sid \subseteq Tasks
    /\ fired \subseteq Tasks
    /\ doomed \subseteq Tasks
    /\ judged \subseteq Tasks
    /\ cut \subseteq Tasks
    /\ deleteSent \subseteq Tasks

\* A move of a task to a stage keeps the types.
LEMMA MoveTypes ==
    ASSUME TypeOK, TaskTypes', M!TypeOK', NEW t \in Tasks, NEW s \in Stages,
           MovesTo(t, s)
    PROVE  TypeOK'
  BY DEF TypeOK, TaskTypes, Stages, Outcomes, MovesTo, runVars

\* The record of a result keeps the types.
LEMMA RecordsTypes ==
    ASSUME TypeOK, TaskTypes', M!TypeOK', NEW t \in Tasks, NEW o \in Outcomes,
           Records(t, o)
    PROVE  TypeOK'
  <1>1. PICK r \in Results : Record(r)
    BY DEF Records
  <1>2. stage' = [stage EXCEPT ![t] = "recorded"]
    BY DEF Records
  <1> QED
    BY <1>1, <1>2, RecordTypes DEF TypeOK, TaskTypes, Outcomes

\* A task that moves without a result, and fares as TaskInv says itself,
\* keeps the rest of the invariant.
LEMMA MoveKeeps ==
    ASSUME EngineInv, TaskTypes', M!IInv', phase = "gathering",
           NEW t \in Tasks, NEW s \in Stages, Alone(t), ~Over(t), MovesTo(t, s), TaskInv(t)',
           Cardinality(Occupied') <= Slots
    PROVE  EngineInv'
  <1>t. TypeOK'
    BY MoveTypes DEF EngineInv, M!IInv
  <1>1. \A u \in Tasks : TaskInv(u)'
    <2>1. \A u \in Tasks : Recorded(u) => Recorded(u)'
      BY DEF MovesTo, runVars, Recorded
    <2> QED
      BY <2>1, OthersKeep, RunStays DEF EngineInv
  <1>2. ResultsInv'
    <2>1. results' = results /\ phase' = phase
      BY DEF MovesTo, runVars
    <2>2. \A i \in 1..Len(results) :
            results[i].task \in Tasks \ {t} /\ Honest(results[i])
              /\ stage[results[i].task] = "recorded"
      BY GatheredResults DEF Over
    <2>3. \A i \in 1..Len(results) :
            Honest(results[i])' /\ stage'[results[i].task] = "recorded"
      BY <2>1, <2>2 DEF Alone, Honest
    <2> QED
      BY <2>1, <2>3 DEF EngineInv, ResultsInv
  <1>3. RunInv'
    <2>1. UNCHANGED <<summary, results, phase, status>>
      BY DEF MovesTo, runVars
    <2> QED
      BY <2>1 DEF EngineInv, RunInv
  <1> QED
    BY <1>t, <1>1, <1>2, <1>3 DEF EngineInv

\* A task that is recorded, with a verdict that is the evaluator's, keeps the
\* rest of the invariant.
LEMMA RecordKeeps ==
    ASSUME EngineInv, TaskTypes', M!IInv', phase = "gathering",
           NEW t \in Tasks, NEW o \in Outcomes, Alone(t), ~Over(t), Records(t, o),
           Recorded(t)' => TaskInv(t)',
           o = "passed" => t \in judged',
           o # "passed" /\ t \in judged' => t \in cut',
           Cardinality(Occupied') <= Slots
    PROVE  EngineInv'
  <1>t. TypeOK'
    BY RecordsTypes DEF EngineInv, M!IInv
  <1>0. PICK r \in Results :
            /\ Record(r) /\ r.task = t
            /\ r.passed <=> o = "passed"
            /\ r.passed => ~r.error
    BY DEF Records
  <1>1. PICK n \in Nat :
            /\ Len(results) = n /\ Len(results') = n + 1
            /\ results'[n + 1] = r
            /\ \A i \in 1..n : results'[i] = results[i]
            /\ summary' = SummaryOf(results')
            /\ UNCHANGED <<phase, status>>
    BY <1>0, RecordTypes DEF EngineInv, TypeOK
  <1>2. Recorded(t)' /\ \A u \in Tasks : Recorded(u) => Recorded(u)'
    <2>1. n + 1 \in 1..Len(results') /\ 1..n \subseteq 1..Len(results')
      BY <1>1
    <2> QED
      BY <1>0, <1>1, <2>1 DEF Recorded
  <1>3. \A u \in Tasks : TaskInv(u)'
    BY <1>2, OthersKeep, RunStays DEF EngineInv
  <1>4. ResultsInv'
    <2>1. \A i \in 1..n :
            results[i].task \in Tasks \ {t} /\ Honest(results[i])
              /\ stage[results[i].task] = "recorded"
      BY <1>1, GatheredResults DEF Over
    <2>2. \A i \in 1..n :
            Honest(results[i])' /\ stage'[results'[i].task] = "recorded"
      BY <1>1, <2>1 DEF Alone, Honest
    <2>3. Honest(results[n + 1])' /\ stage'[results'[n + 1].task] = "recorded"
      <3>1. stage'[t] = "recorded"
        BY DEF Records, EngineInv, TypeOK
      <3> QED
        BY <1>0, <1>1, <3>1 DEF Honest
    <2>4. \A i \in 1..Len(results') : i \in 1..n \/ i = n + 1
      BY <1>1
    <2>5. \A i, j \in 1..Len(results') :
            results'[i].task = results'[j].task => i = j
      BY <1>0, <1>1, <2>1, <2>4 DEF EngineInv, ResultsInv
    <2> QED
      BY <2>2, <2>3, <2>4, <2>5 DEF ResultsInv
  <1>5. RunInv'
    BY <1>1 DEF EngineInv, RunInv
  <1> QED
    BY <1>t, <1>3, <1>4, <1>5 DEF EngineInv

-----------------------------------------------------------------------------
(* The steps of a task.                                                     *)

\* A task leaves the body of _run_task, by itself or interrupted.
LEMMA LeaveKeeps ==
    ASSUME EngineInv, M!IInv', phase = "gathering",
           NEW t \in Tasks, NEW o \in Outcomes \ {"none"}, LeaveBody(t, o),
           stage[t] \in {"create", "prompt", "evaluate"},
           o = "passed" => stage[t] = "evaluate",
           judged' = IF o = "passed" THEN judged \union {t} ELSE judged,
           pc' = [pc EXCEPT ![t] = "idle"], poisoned => poisoned',
           UNCHANGED <<sid, cut, deleteSent>>,
           fired' \subseteq Tasks, doomed' \in {doomed, doomed \ {t}},
           cancelled => o = "unwinding"
    PROVE  EngineInv'
  <1>0. TypeOK /\ M!TypeOK /\ TaskInv(t) /\ Cardinality(Occupied) <= Slots
    BY DEF EngineInv, M!IInv, RunInv
  <1>1. /\ outcome' = [outcome EXCEPT ![t] = o]
        /\ \/ t \in sid /\ MovesTo(t, "delete")
           \/ t \notin sid /\ Records(t, o)
           \/ t \notin sid /\ MovesTo(t, "aborted") /\ o = "unwinding"
    BY LeaveBodyMoves
  <1>2. TaskTypes'
    BY <1>0, <1>1 DEF TypeOK, TaskTypes, Outcomes
  <1>3. pc'[t] = "idle" /\ outcome'[t] = o /\ ~Over(t) /\ InSlot(t)
    BY <1>0, <1>1 DEF TypeOK, M!TypeOK, Over, InSlot
  <1>4. t \notin judged
    BY <1>0 DEF TaskInv
  <1>5. CASE t \in sid /\ MovesTo(t, "delete")
    <2>1. stage' = [stage EXCEPT ![t] = "delete"] /\ stage'[t] = "delete"
      BY <1>0, <1>5 DEF MovesTo, TypeOK
    <2>2. Alone(t)
      BY <1>0, <1>1, <2>1 DEF Alone, TypeOK, M!TypeOK
    <2>3. TaskInv(t)'
      BY RunStays, <1>0, <1>3, <1>4, <1>5, <2>1 DEF TaskInv, Calling, Over
    <2>4. Cardinality(Occupied') <= Slots
      BY <1>0, <1>3, <2>2, NobodyEnters DEF Alone, InSlot
    <2> QED
      BY <1>2, <1>3, <1>5, <2>2, <2>3, <2>4, MoveKeeps DEF Stages
  <1>6. CASE t \notin sid /\ Records(t, o)
    <2>1. stage' = [stage EXCEPT ![t] = "recorded"] /\ stage'[t] = "recorded"
      BY <1>0, <1>6 DEF Records, TypeOK
    <2>2. Alone(t)
      BY <1>0, <1>1, <2>1 DEF Alone, TypeOK, M!TypeOK
    <2>3. Recorded(t)' => TaskInv(t)'
      BY RunStays, <1>0, <1>3, <1>4, <1>6, <2>1 DEF TaskInv, Calling, Over
    <2>4. Cardinality(Occupied') <= Slots
      BY <1>0, <1>3, <2>2, NobodyEnters DEF Alone, InSlot
    <2> QED
      BY <1>2, <1>3, <1>4, <1>6, <2>2, <2>3, <2>4, RecordKeeps
  <1>7. CASE t \notin sid /\ MovesTo(t, "aborted") /\ o = "unwinding"
    <2>1. stage' = [stage EXCEPT ![t] = "aborted"] /\ stage'[t] = "aborted"
      BY <1>0, <1>7 DEF MovesTo, TypeOK
    <2>2. Alone(t)
      BY <1>0, <1>1, <2>1 DEF Alone, TypeOK, M!TypeOK
    <2>3. TaskInv(t)'
      BY RunStays, <1>0, <1>3, <1>4, <1>7, <2>1 DEF TaskInv, Calling, Over
    <2>4. Cardinality(Occupied') <= Slots
      BY <1>0, <1>3, <2>2, NobodyEnters DEF Alone, InSlot
    <2> QED
      BY <1>2, <1>3, <1>7, <2>2, <2>3, <2>4, MoveKeeps DEF Stages
  <1> QED
    BY <1>1, <1>5, <1>6, <1>7

\* A task leaves its cleanup: with the outcome it had, unless it is cut short.
LEMMA EndKeeps ==
    ASSUME EngineInv, M!IInv', phase = "gathering",
           NEW t \in Tasks, NEW o \in Outcomes, stage[t] = "delete",
           outcome' = [outcome EXCEPT ![t] = o],
           Records(t, o) \/ (MovesTo(t, "aborted") /\ o = "unwinding"),
           \/ o = outcome[t] /\ cut' = cut
           \/ o = "unwinding" /\ cut' = cut \union {t},
           t \in deleteSent \/ poisoned' \/ t \in cut',
           pc' = [pc EXCEPT ![t] = "idle"], poisoned => poisoned',
           UNCHANGED <<sid, judged, deleteSent>>,
           fired' \subseteq Tasks, doomed' \in {doomed, doomed \ {t}}
    PROVE  EngineInv'
  <1>0. TypeOK /\ M!TypeOK /\ TaskInv(t) /\ Cardinality(Occupied) <= Slots
    BY DEF EngineInv, M!IInv, RunInv
  <1>1. TaskTypes'
    BY <1>0 DEF TypeOK, TaskTypes, Outcomes
  <1>2. pc'[t] = "idle" /\ outcome'[t] = o /\ ~Over(t) /\ InSlot(t)
    BY <1>0 DEF TypeOK, M!TypeOK, Over, InSlot
  <1>3. t \in judged <=> outcome[t] = "passed"
    BY <1>0 DEF TaskInv
  <1>4. /\ o = "passed" => t \in judged
        /\ o # "passed" /\ t \in judged => t \in cut'
    BY <1>3
  <1>5. CASE Records(t, o)
    <2>1. stage' = [stage EXCEPT ![t] = "recorded"] /\ stage'[t] = "recorded"
      BY <1>0, <1>5 DEF Records, TypeOK
    <2>2. Alone(t)
      BY <1>0, <2>1 DEF Alone, TypeOK, M!TypeOK
    <2>3. Recorded(t)' => TaskInv(t)'
      BY RunStays, <1>0, <1>2, <1>4, <2>1 DEF TaskInv, Calling, Over
    <2>4. Cardinality(Occupied') <= Slots
      BY <1>0, <1>2, <2>2, NobodyEnters DEF Alone, InSlot
    <2> QED
      BY <1>1, <1>2, <1>4, <1>5, <2>2, <2>3, <2>4, RecordKeeps
  <1>6. CASE MovesTo(t, "aborted") /\ o = "unwinding"
    <2>1. stage' = [stage EXCEPT ![t] = "aborted"] /\ stage'[t] = "aborted"
      BY <1>0, <1>6 DEF MovesTo, TypeOK
    <2>2. Alone(t)
      BY <1>0, <2>1 DEF Alone, TypeOK, M!TypeOK
    <2>3. TaskInv(t)'
      BY RunStays, <1>0, <1>2, <1>4, <1>6, <2>1 DEF TaskInv, Calling, Over
    <2>4. Cardinality(Occupied') <= Slots
      BY <1>0, <1>2, <2>2, NobodyEnters DEF Alone, InSlot
    <2> QED
      BY <1>1, <1>2, <1>6, <2>2, <2>3, <2>4, MoveKeeps DEF Stages
  <1> QED
    BY <1>5, <1>6

\* An interruption of task t, wherever it is suspended.
LEMMA InterruptKeeps ==
    ASSUME EngineInv, M!IInv', phase = "gathering", NEW t \in Tasks, Interrupt(t),
           UNCHANGED <<sid, judged, deleteSent>>,
           fired' \subseteq Tasks, doomed' \in {doomed, doomed \ {t}}
    PROVE  EngineInv'
  <1>0. TypeOK /\ M!TypeOK /\ TaskInv(t)
    BY DEF EngineInv, M!IInv
  <1>1. CASE stage[t] = "prompt"
    <2>1. pc' = [pc EXCEPT ![t] = "idle"] /\ poisoned' = poisoned
      BY <1>0, <1>1 DEF Interrupt, sessionVars, TaskInv, Calling, M!TypeOK
    <2> QED
      BY <1>1, <2>1, LeaveKeeps DEF Interrupt, Outcomes
  <1>2. CASE stage[t] \in {"create", "evaluate"}
    <2>1. pc' = [pc EXCEPT ![t] = "idle"] /\ (poisoned => poisoned')
      BY <1>0, <1>2, CallEffects DEF Interrupt
    <2> QED
      BY <1>2, <2>1, LeaveKeeps DEF Interrupt, Outcomes
  <1>3. CASE stage[t] = "delete"
    <2>1. /\ pc' = [pc EXCEPT ![t] = "idle"] /\ (poisoned => poisoned')
          /\ cut' = cut \union {t} /\ Conclude(t, "unwinding")
      BY <1>0, <1>3, CallEffects DEF Interrupt
    <2> QED
      BY <1>3, <2>1, ConcludeMoves, EndKeeps DEF Outcomes
  <1> QED
    BY <1>1, <1>2, <1>3 DEF Interrupt

\* A task that runs by itself in the body is not cancelled with the run.
LEMMA RunsUncancelled ==
    ASSUME EngineInv, NEW t \in Tasks, Runs(t),
           stage[t] \in {"create", "prompt", "evaluate"}
    PROVE  ~cancelled
  BY DEF EngineInv, TaskInv, Runs, Over

\* A slot is taken only when one is free.
LEMMA TakeSlotKeeps ==
    ASSUME EngineInv, M!IInv', NEW t \in Tasks, TakeSlot(t) PROVE EngineInv'
  <1>0. /\ TypeOK /\ TaskInv(t) /\ phase = "gathering"
        /\ stage[t] = "queued" /\ Cardinality(Occupied) < Slots
    BY DEF EngineInv, TakeSlot, Runs, Occupied
  <1>1. MovesTo(t, "create") /\ stage'[t] = "create" /\ ~Over(t)
    BY <1>0 DEF TakeSlot, MovesTo, TypeOK, Over
  <1>2. Alone(t)
    BY <1>0 DEF TakeSlot, Alone, TypeOK, historyVars, sessionVars
  <1>3. TaskTypes'
    BY <1>0 DEF TakeSlot, TypeOK, TaskTypes, Outcomes, historyVars
  <1>4. TaskInv(t)'
    BY RunStays, <1>0, <1>1 DEF TakeSlot, TaskInv, Calling, Over, historyVars, sessionVars
  <1>5. Cardinality(Occupied') <= Slots
    <2>1. Occupied' = Occupied \union {t} /\ t \notin Occupied
      BY <1>0 DEF TakeSlot, Occupied, InSlot, TypeOK
    <2>2. Cardinality(Occupied') = Cardinality(Occupied) + 1
      BY <2>1, OccupiedFinite, FS_AddElement
    <2> QED
      BY <1>0, <2>2, OccupiedFinite, SlotsAssumption DEF SlotsAssumption
  <1> QED
    BY <1>0, <1>1, <1>2, <1>3, <1>4, <1>5, MoveKeeps DEF Stages

\* A call that goes on: once on the wire, a cleanup counts as sent.
LEMMA CallAdvancesKeeps ==
    ASSUME EngineInv, M!IInv', NEW t \in Tasks, CallAdvances(t) PROVE EngineInv'
  <1>0. /\ TypeOK /\ M!TypeOK /\ TaskInv(t) /\ phase = "gathering" /\ Calling(t)
        /\ t \notin doomed /\ Cardinality(Occupied) <= Slots
    BY DEF EngineInv, CallAdvances, Runs, M!IInv, RunInv
  <1>1. /\ UNCHANGED <<stage, outcome, sid, fired, doomed, judged, cut>>
        /\ UNCHANGED runVars
    BY DEF CallAdvances, taskVars
  <1>2. \/ /\ pc' = [pc EXCEPT ![t] = "waiting"]
           /\ poisoned' = poisoned /\ deleteSent' = deleteSent
        \/ /\ pc' = [pc EXCEPT ![t] = "calling"]
           /\ poisoned' = poisoned
           /\ deleteSent' = deleteSent \union {u \in {t} : stage[u] = "delete"}
        \/ /\ pc' = [pc EXCEPT ![t] = "reaping"] /\ pc[t] = "calling"
           /\ poisoned' = poisoned /\ deleteSent' = deleteSent
    BY <1>0, CallEffects DEF CallAdvances
  <1>3. MovesTo(t, stage[t]) /\ ~Over(t) /\ stage[t] \in Stages
    BY <1>0, <1>1 DEF MovesTo, TypeOK, Calling, Over, Stages
  <1>4. Alone(t)
    BY <1>0, <1>1, <1>2 DEF Alone, M!TypeOK
  <1>5. TaskTypes'
    BY <1>0, <1>1, <1>2 DEF TypeOK, TaskTypes, Outcomes
  <1>6. TaskInv(t)'
    BY RunStays, <1>0, <1>1, <1>2, <1>3 DEF TaskInv, Calling, Over, M!TypeOK
  <1>7. Cardinality(Occupied') <= Slots
    BY <1>0, <1>1, NobodyEnters DEF InSlot
  <1> QED
    BY <1>0, <1>3, <1>4, <1>5, <1>6, <1>7, MoveKeeps

\* create_session answers.
LEMMA CreateReturnsKeeps ==
    ASSUME EngineInv, M!IInv', NEW t \in Tasks, CreateReturns(t) PROVE EngineInv'
  <1>0. /\ TypeOK /\ M!TypeOK /\ TaskInv(t) /\ phase = "gathering"
        /\ stage[t] = "create" /\ t \notin doomed /\ Cardinality(Occupied) <= Slots
    BY DEF EngineInv, CreateReturns, Runs, M!IInv, RunInv
  <1>1. /\ sid' = sid \union {t}
        /\ UNCHANGED <<outcome, fired, doomed, judged, cut, deleteSent>>
        /\ stage' = [stage EXCEPT ![t] = "prompt"] /\ stage'[t] = "prompt"
        /\ pc' = [pc EXCEPT ![t] = "idle"] /\ pc'[t] = "idle"
        /\ poisoned' = poisoned
    BY <1>0, CallEffects DEF CreateReturns, historyVars, TypeOK, M!TypeOK
  <1>2. MovesTo(t, "prompt") /\ ~Over(t)
    BY <1>0 DEF CreateReturns, MovesTo, Over
  <1>3. Alone(t)
    BY <1>0, <1>1 DEF Alone, TypeOK, M!TypeOK
  <1>4. TaskTypes'
    BY <1>0, <1>1 DEF TypeOK, TaskTypes, Outcomes
  <1>5. TaskInv(t)'
    BY RunStays, <1>0, <1>1, <1>2 DEF TaskInv, Calling, Over
  <1>6. Cardinality(Occupied') <= Slots
    BY <1>0, <1>3, NobodyEnters DEF Alone, InSlot
  <1> QED
    BY <1>0, <1>2, <1>3, <1>4, <1>5, <1>6, MoveKeeps DEF Stages

\* The agent's turn ends, and evaluate_session is next.
LEMMA PromptReturnsKeeps ==
    ASSUME EngineInv, M!IInv', NEW t \in Tasks, PromptReturns(t) PROVE EngineInv'
  <1>0. /\ TypeOK /\ TaskInv(t) /\ phase = "gathering"
        /\ stage[t] = "prompt" /\ t \notin doomed /\ Cardinality(Occupied) <= Slots
    BY DEF EngineInv, PromptReturns, Runs, RunInv
  <1>1. /\ UNCHANGED <<outcome, sid, fired, doomed, judged, cut, deleteSent, pc, poisoned>>
        /\ stage' = [stage EXCEPT ![t] = "evaluate"] /\ stage'[t] = "evaluate"
    BY <1>0 DEF PromptReturns, historyVars, sessionVars, TypeOK
  <1>2. MovesTo(t, "evaluate") /\ ~Over(t)
    BY <1>0 DEF PromptReturns, MovesTo, Over
  <1>3. Alone(t)
    BY <1>0, <1>1 DEF Alone, TypeOK
  <1>4. TaskTypes'
    BY <1>0, <1>1 DEF TypeOK, TaskTypes, Outcomes
  <1>5. TaskInv(t)'
    BY RunStays, <1>0, <1>1, <1>2 DEF TaskInv, Calling, Over
  <1>6. Cardinality(Occupied') <= Slots
    BY <1>0, <1>3, NobodyEnters DEF Alone, InSlot
  <1> QED
    BY <1>0, <1>2, <1>3, <1>4, <1>5, <1>6, MoveKeeps DEF Stages

\* The evaluator answers.
LEMMA EvaluateReturnsKeeps ==
    ASSUME EngineInv, M!IInv', NEW t \in Tasks, NEW passed \in BOOLEAN,
           EvaluateReturns(t, passed)
    PROVE  EngineInv'
  <1> DEFINE o == IF passed THEN "passed" ELSE "failed"
  <1>1. /\ phase = "gathering" /\ stage[t] = "evaluate"
        /\ UNCHANGED <<sid, fired, doomed, cut, deleteSent>>
        /\ judged' = IF o = "passed" THEN judged \union {t} ELSE judged
        /\ LeaveBody(t, o) /\ o \in Outcomes \ {"none"}
    BY DEF EvaluateReturns, Runs, Outcomes
  <1>2. pc' = [pc EXCEPT ![t] = "idle"] /\ poisoned' = poisoned
    BY CallEffects DEF EvaluateReturns, EngineInv, M!IInv
  <1>4. ~cancelled
    BY <1>1, RunsUncancelled DEF EvaluateReturns
  <1>3. fired' \subseteq Tasks /\ doomed' \in {doomed, doomed \ {t}}
    BY <1>1 DEF EngineInv, TypeOK
  <1> HIDE DEF o
  <1> QED
    BY <1>1, <1>2, <1>3, <1>4, LeaveKeeps

\* A call of the body raises, or is cancelled from within the SDK.
LEMMA CallFailsKeeps ==
    ASSUME EngineInv, M!IInv', NEW t \in Tasks, CallFails(t) \/ CallAborts(t)
    PROVE  EngineInv'
  <1>1. PICK o \in {"errored", "unwinding"} :
            /\ phase = "gathering" /\ stage[t] \in {"create", "evaluate"}
            /\ UNCHANGED <<sid, fired, doomed, judged, cut, deleteSent>>
            /\ LeaveBody(t, o)
    BY DEF CallFails, CallAborts, Runs, historyVars
  <1>2. pc' = [pc EXCEPT ![t] = "idle"] /\ (poisoned => poisoned')
    BY CallEffects DEF CallFails, CallAborts, EngineInv, M!IInv
  <1>4. ~cancelled
    BY <1>1, RunsUncancelled DEF CallFails, CallAborts
  <1>3. fired' \subseteq Tasks /\ doomed' \in {doomed, doomed \ {t}}
    BY <1>1 DEF EngineInv, TypeOK
  <1> QED
    BY <1>1, <1>2, <1>3, <1>4, LeaveKeeps DEF Outcomes

\* The agent's turn fails.
LEMMA PromptFailsKeeps ==
    ASSUME EngineInv, M!IInv', NEW t \in Tasks, NEW o \in {"errored", "unwinding"},
           PromptFails(t, o)
    PROVE  EngineInv'
  <1>1. /\ phase = "gathering" /\ stage[t] = "prompt"
        /\ UNCHANGED <<sid, fired, doomed, judged, cut, deleteSent, pc, poisoned>>
        /\ LeaveBody(t, o)
    BY DEF PromptFails, Runs, historyVars, sessionVars
  <1>2. pc' = [pc EXCEPT ![t] = "idle"]
    BY <1>1 DEF EngineInv, TaskInv, Calling, M!IInv, M!TypeOK
  <1>4. ~cancelled
    BY <1>1, RunsUncancelled DEF PromptFails
  <1>3. fired' \subseteq Tasks /\ doomed' \in {doomed, doomed \ {t}}
    BY <1>1 DEF EngineInv, TypeOK
  <1> QED
    BY <1>1, <1>2, <1>3, <1>4, LeaveKeeps DEF Outcomes

\* The cleanup ends: it was sent, or the session is poisoned.
LEMMA DeleteOverKeeps ==
    ASSUME EngineInv, M!IInv', NEW t \in Tasks, DeleteOver(t) PROVE EngineInv'
  <1>0. TypeOK /\ M!TypeOK /\ TaskInv(t)
    BY DEF EngineInv, M!IInv
  <1>1. /\ phase = "gathering" /\ stage[t] = "delete"
        /\ UNCHANGED <<sid, fired, doomed, judged, cut, deleteSent>>
        /\ Conclude(t, outcome[t]) /\ outcome[t] \in Outcomes
    BY <1>0 DEF DeleteOver, Runs, historyVars, TypeOK, Outcomes
  <1>2. /\ pc' = [pc EXCEPT ![t] = "idle"] /\ (poisoned => poisoned')
        /\ pc[t] \in {"calling", "reaping"} \/ poisoned'
    BY <1>0, CallEffects DEF DeleteOver
  <1>3. t \in deleteSent \/ poisoned'
    BY <1>0, <1>1, <1>2 DEF TaskInv
  <1>4. fired' \subseteq Tasks /\ doomed' \in {doomed, doomed \ {t}}
    BY <1>0, <1>1 DEF TypeOK
  <1> QED
    BY <1>1, <1>2, <1>3, <1>4, ConcludeMoves, EndKeeps

\* The cleanup is cancelled from within the SDK.
LEMMA DeleteAbortsKeeps ==
    ASSUME EngineInv, M!IInv', NEW t \in Tasks, DeleteAborts(t) PROVE EngineInv'
  <1>1. /\ phase = "gathering" /\ stage[t] = "delete"
        /\ UNCHANGED <<sid, fired, doomed, judged, deleteSent>>
        /\ cut' = cut \union {t} /\ Conclude(t, "unwinding")
    BY DEF DeleteAborts, Runs
  <1>2. pc' = [pc EXCEPT ![t] = "idle"] /\ poisoned' = poisoned
    BY CallEffects DEF DeleteAborts, EngineInv, M!IInv
  <1>3. fired' \subseteq Tasks /\ doomed' \in {doomed, doomed \ {t}}
    BY <1>1 DEF EngineInv, TypeOK
  <1> QED
    BY <1>1, <1>2, <1>3, ConcludeMoves, EndKeeps DEF Outcomes

\* The task's own timeout.
LEMMA TaskTimeoutKeeps ==
    ASSUME EngineInv, M!IInv', NEW t \in Tasks, TaskTimeout(t) PROVE EngineInv'
  <1>1. fired' \subseteq Tasks /\ doomed' \in {doomed, doomed \ {t}}
    BY DEF TaskTimeout, EngineInv, TypeOK
  <1> QED
    BY <1>1, InterruptKeeps DEF TaskTimeout, Runs

\* The run's cancellation reaches a task: one that waits for a slot ends.
LEMMA CancelReachesKeeps ==
    ASSUME EngineInv, M!IInv', NEW t \in Tasks, CancelReaches(t) PROVE EngineInv'
  <1>0. /\ TypeOK /\ TaskInv(t) /\ phase = "gathering" /\ Cardinality(Occupied) <= Slots
        /\ UNCHANGED <<sid, fired, judged, deleteSent>> /\ doomed' = doomed \ {t}
    BY DEF EngineInv, CancelReaches, RunInv
  <1>1. fired' \subseteq Tasks /\ doomed' \in {doomed, doomed \ {t}}
    BY <1>0 DEF TypeOK
  <1>2. CASE Interrupt(t)
    BY <1>0, <1>1, <1>2, InterruptKeeps
  <1>3. CASE /\ stage[t] = "queued" /\ stage' = [stage EXCEPT ![t] = "aborted"]
             /\ UNCHANGED <<outcome, cut, runVars, sessionVars>>
    <2>1. stage'[t] = "aborted" /\ MovesTo(t, "aborted") /\ ~Over(t)
      BY <1>0, <1>3 DEF MovesTo, TypeOK, Over
    <2>2. Alone(t)
      BY <1>0, <1>3 DEF Alone, TypeOK, sessionVars
    <2>3. TaskTypes'
      BY <1>0, <1>1, <1>3 DEF TypeOK, TaskTypes, Outcomes
    <2>4. TaskInv(t)'
      BY RunStays, <1>0, <1>3, <2>1 DEF TaskInv, Calling, Over, sessionVars
    <2>5. Cardinality(Occupied') <= Slots
      BY <1>0, <2>1, <2>2, NobodyEnters DEF Alone, InSlot
    <2> QED
      BY <1>0, <2>1, <2>2, <2>3, <2>4, <2>5, MoveKeeps DEF Stages
  <1> QED
    BY <1>2, <1>3 DEF CancelReaches

-----------------------------------------------------------------------------
(* The steps of the run.                                                    *)

\* A step that only moves run_benchmark on, only the session's children, or
\* only the run's status, and not to succeeded.
LEMMA StillKeeps ==
    ASSUME EngineInv, TypeOK', M!IInv',
           UNCHANGED <<stage, outcome, sid, judged, cut, deleteSent, pc, poisoned,
                       results, summary>>,
           status' = "succeeded" => status = "succeeded",
           \A t \in Tasks :
               cancelled' /\ phase' = "gathering" =>
                   \/ t \in doomed' \/ Over(t)
                   \/ stage[t] = "delete" /\ outcome[t] = "unwinding",
           phase' = "listing" => phase = "listing" /\ ~cancelled',
           phase \in {"flushing", "returned"} => phase' \in {"flushing", "returned"}
    PROVE  EngineInv'
  <1>1. \A t \in Tasks : TaskInv(t)'
    BY DEF EngineInv, TaskInv, Calling, Over, Recorded
  <1>2. ResultsInv'
    BY DEF EngineInv, ResultsInv, Honest
  <1>3. RunInv'
    BY DEF EngineInv, RunInv, Recorded, Occupied, InSlot
  <1> QED
    BY <1>1, <1>2, <1>3 DEF EngineInv

\* The end of a child call, and all that happens to a run before the last
\* task is over, after it was flushed, or by cancellation.
LEMMA RunStepKeeps ==
    ASSUME EngineInv, M!IInv',
           \/ \E k \in live : ChildEnds(k)
           \/ ListTasks \/ ListFails \/ FlushOver
           \/ CancelEffect /\ status' \in {status, "failed"}
    PROVE  EngineInv'
  <1> USE DEF taskVars, runVars, historyVars, sessionVars
  <1>0. /\ TypeOK /\ M!TypeOK' /\ (phase = "listing" => ~cancelled)
        /\ \A t \in Tasks :
            cancelled /\ phase = "gathering" =>
                \/ t \in doomed \/ Over(t)
                \/ stage[t] = "delete" /\ outcome[t] = "unwinding"
    BY DEF EngineInv, M!IInv, RunInv, TaskInv
  <1>1. CASE \E k \in live : ChildEnds(k)
    <2>1. /\ UNCHANGED <<taskVars, runVars, historyVars>>
          /\ UNCHANGED <<pc, poisoned>>
      BY <1>1 DEF ChildEnds, M!ChildEnds
    <2>2. TypeOK'
      BY <1>0, <2>1 DEF TypeOK
    <2> QED
      BY <1>0, <2>1, <2>2, StillKeeps
  <1>2. CASE ListTasks
    <2>1. TypeOK'
      BY <1>0, <1>2 DEF ListTasks, TypeOK
    <2> QED
      BY <1>0, <1>2, <2>1, StillKeeps DEF ListTasks
  <1>3. CASE ListFails
    <2>1. TypeOK'
      BY <1>0, <1>3 DEF ListFails, TypeOK
    <2> QED
      BY <1>0, <1>3, <2>1, StillKeeps DEF ListFails
  <1>4. CASE FlushOver
    <2>1. TypeOK'
      BY <1>0, <1>4 DEF FlushOver, TypeOK
    <2> QED
      BY <1>0, <1>4, <2>1, StillKeeps DEF FlushOver
  <1>5. CASE CancelEffect /\ status' \in {status, "failed"}
    <2>1. TypeOK'
      BY <1>0, <1>5 DEF CancelEffect, TypeOK
    <2>2. phase' = "gathering" => doomed' = {t \in Tasks : ~Over(t)}
      BY <1>0, <1>5 DEF CancelEffect, TypeOK
    <2>3. phase' # "listing"
      BY <1>0, <1>5 DEF CancelEffect, TypeOK
    <2> QED
      BY <1>0, <1>5, <2>1, <2>2, <2>3, StillKeeps DEF CancelEffect
  <1> QED
    BY <1>1, <1>2, <1>3, <1>4, <1>5

\* A list of a set of tasks names each of them once.
LEMMA ListedOnce ==
    ASSUME NEW S \in SUBSET Tasks, NEW s \in InOrder(S)
    PROVE  /\ IsFiniteSet(S) /\ Cardinality(S) \in Nat
           /\ s \in [1..Cardinality(S) -> S]
           /\ \A i, j \in 1..Cardinality(S) : s[i] = s[j] => i = j
           /\ \A t \in S : \E i \in 1..Cardinality(S) : s[i] = t
  <1>1. IsFiniteSet(S) /\ Cardinality(S) \in Nat
    BY OccupiedFinite, FS_Subset, FS_CardinalityType
  <1>2. PICK n \in Nat : n = Cardinality(S)
    BY <1>1
  <1>3. s \in [1..n -> S] /\ \A i, j \in 1..n : i < j => s[i] < s[j]
    BY <1>2 DEF InOrder
  <1>4. ASSUME NEW i \in 1..n, NEW j \in 1..n, s[i] = s[j] PROVE i = j
    <2>1. s[i] \in Nat /\ s[j] \in Nat
      <3>1. s[i] \in S /\ s[j] \in S
        BY <1>3
      <3>2. \A x \in Tasks : x \in Nat
        BY NTasksAssumption DEF Tasks, NTasksAssumption
      <3> QED
        BY <3>1, <3>2
    <2>2. i < j \/ j < i \/ i = j
      OBVIOUS
    <2> QED
      BY <1>3, <1>4, <2>1, <2>2
  <1>5. ASSUME NEW t \in S, \A i \in 1..n : s[i] # t PROVE FALSE
    <2>1. s \in [1..n -> S \ {t}]
      BY <1>3, <1>5
    <2>2. IsFiniteSet(S \ {t}) /\ Cardinality(S \ {t}) = n - 1
      BY <1>1, <1>2, FS_RemoveElement
    <2>3. IsFiniteSet(1..n) /\ Cardinality(1..n) = n
      BY FS_Interval
    <2>4. n - 1 < n
      OBVIOUS
    <2>5. \E i, j \in 1..n : i # j /\ s[i] = s[j]
      BY <2>1, <2>2, <2>3, <2>4, FS_PigeonHole
    <2> QED
      BY <1>4, <2>5
  <1> QED
    BY <1>1, <1>2, <1>3, <1>4, <1>5

\* The end of the gather: who has no result gets one, as a failure.
LEMMA GatherOverKeeps ==
    ASSUME EngineInv, M!IInv', GatherOver PROVE EngineInv'
  <1>0. /\ TypeOK /\ M!TypeOK' /\ phase = "gathering" /\ phase' = "flushing"
        /\ \A t \in Tasks : Over(t) /\ TaskInv(t)
        /\ UNCHANGED <<cancelled, taskVars, historyVars, sessionVars>>
    BY DEF EngineInv, GatherOver, M!IInv
  <1>1. CASE cancelled
    <2>1. TypeOK' /\ UNCHANGED <<status, results, summary>>
      BY <1>0, <1>1 DEF GatherOver, TypeOK, taskVars, historyVars
    <2> QED
      BY <1>0, <2>1, StillKeeps DEF taskVars, historyVars, sessionVars
  <1>2. CASE ~cancelled
    <2>1. PICK s \in InOrder(Unrecorded) :
            results' = results \o [i \in DOMAIN s |-> Result(s[i], FALSE, TRUE, FALSE)]
      BY <1>2 DEF GatherOver, Booked
    <2>2. /\ summary' = SummaryOf(results') /\ status' = "succeeded" /\ exit' = "ok"
      BY <1>2 DEF GatherOver
    <2>3. PICK m \in Nat :
            /\ s \in [1..m -> Unrecorded]
            /\ \A i, j \in 1..m : s[i] = s[j] => i = j
            /\ \A t \in Unrecorded : \E i \in 1..m : s[i] = t
      <3>1. Unrecorded \in SUBSET Tasks
        BY DEF Unrecorded
      <3> QED
        BY <3>1, ListedOnce
    <2> DEFINE b == [i \in 1..m |-> Result(s[i], FALSE, TRUE, FALSE)]
    <2>4. /\ b \in Seq(Results) /\ Len(b) = m
          /\ \A i \in 1..m :
                b[i] \in Results /\ b[i].task = s[i] /\ ~b[i].passed
      <3>1. \A i \in 1..m : s[i] \in Tasks
        BY <2>3 DEF Unrecorded
      <3>2. \A i \in 1..m :
                b[i] \in Results /\ b[i].task = s[i] /\ ~b[i].passed
        <4> SUFFICES ASSUME NEW i \in 1..m
                     PROVE  b[i] \in Results /\ b[i].task = s[i] /\ ~b[i].passed
          OBVIOUS
        <4>1. b[i] = Result(s[i], FALSE, TRUE, FALSE) /\ s[i] \in Tasks
          BY <3>1
        <4> QED
          BY <4>1, ResultFields
      <3>3. b \in [1..m -> Results]
        BY <3>2
      <3> HIDE DEF b
      <3>4. b \in Seq(Results) /\ Len(b) = m
        BY <3>3
      <3> QED
        BY <3>2, <3>4
    <2>5. results' = results \o b
      BY <2>1, <2>3
    <2> HIDE DEF b
    <2>6. PICK n \in Nat : Len(results) = n
      BY <1>0 DEF TypeOK
    <2>7. /\ results' \in Seq(Results) /\ Len(results') = n + m
          /\ \A i \in 1..n : results'[i] = results[i]
          /\ \A i \in 1..m : results'[n + i] = b[i]
      <3>1. results \in Seq(Results)
        BY <1>0 DEF TypeOK
      <3>2. /\ results' \in Seq(Results) /\ Len(results') = n + m
            /\ \A i \in 1..(n + m) :
                results'[i] = IF i <= n THEN results[i] ELSE b[i - n]
        BY <2>4, <2>5, <2>6, <3>1, ConcatProperties
      <3>3. \A i \in 1..n : i \in 1..(n + m) /\ i <= n
        OBVIOUS
      <3>4. \A i \in 1..m : n + i \in 1..(n + m) /\ ~(n + i <= n) /\ (n + i) - n = i
        OBVIOUS
      <3> QED
        BY <3>2, <3>3, <3>4
    <2>8. \A i \in 1..(n + m) : i \in 1..n \/ \E k \in 1..m : i = n + k
      <3>1. \A i \in 1..(n + m) : i \in 1..n \/ (i - n \in 1..m /\ i = n + (i - n))
        OBVIOUS
      <3> QED
        BY <3>1
    <2>9. \A k \in 1..m :
            /\ s[k] \in Tasks /\ stage[s[k]] = "aborted"
            /\ \A i \in 1..n : results[i].task # s[k]
      BY <2>3, <2>6 DEF Unrecorded, ResultsOf
    <2>a. TypeOK'
      <3>1. summary' \in [total : Nat, succeeded : Nat, evaluated_pass : Nat]
        BY <2>2, <2>7 DEF SummaryOf
      <3> QED
        BY <1>0, <2>2, <2>7, <3>1 DEF TypeOK, taskVars, historyVars
    <2>b. \A t \in Tasks : Recorded(t)'
      <3>1. ASSUME NEW t \in Tasks, ~Recorded(t) PROVE t \in Unrecorded
        BY <1>0, <3>1 DEF Unrecorded, ResultsOf, Recorded, TaskInv, Over
      <3>2. ASSUME NEW t \in Tasks, Recorded(t) PROVE Recorded(t)'
        BY <2>6, <2>7, <3>2 DEF Recorded
      <3>3. ASSUME NEW t \in Unrecorded PROVE Recorded(t)'
        <4>1. PICK k \in 1..m : s[k] = t
          BY <2>3
        <4>2. n + k \in 1..Len(results') /\ results'[n + k].task = t
          BY <2>4, <2>7, <4>1
        <4> QED
          BY <4>2 DEF Recorded
      <3> QED
        BY <3>1, <3>2, <3>3
    <2>c. \A t \in Tasks : TaskInv(t)'
      BY RunStays, <1>0, <2>b DEF TaskInv, Calling, Over, taskVars, historyVars, sessionVars
    <2>d. ResultsInv'
      <3> USE DEF taskVars, historyVars
      <3>1. \A i \in 1..n :
              /\ results'[i] = results[i] /\ Honest(results[i])
              /\ stage[results[i].task] = "recorded"
        BY <1>0, <2>6, <2>7, GatheredResults
      <3>2. \A i \in 1..n :
              Honest(results[i])' /\ stage'[results'[i].task] = "recorded"
        BY <1>0, <3>1 DEF Honest
      <3>3. \A k \in 1..m : results'[n + k].task = s[k] /\ ~results'[n + k].passed
        BY <2>4, <2>7
      <3>4. \A k \in 1..m :
              Honest(results[n + k])' /\ stage'[results'[n + k].task] = "aborted"
        BY <1>0, <2>9, <3>3 DEF Honest, TaskInv
      <3>5. ASSUME NEW i \in 1..(n + m), NEW j \in 1..(n + m),
                   results'[i].task = results'[j].task
            PROVE  i = j
        <4>1. CASE i \in 1..n /\ j \in 1..n
          BY <2>6, <3>1, <3>5, <4>1 DEF EngineInv, ResultsInv
        <4>2. ASSUME NEW k \in 1..m, i = n + k, j \in 1..n PROVE FALSE
          BY <2>9, <3>1, <3>3, <3>5, <4>2
        <4>3. ASSUME NEW k \in 1..m, j = n + k, i \in 1..n PROVE FALSE
          BY <2>9, <3>1, <3>3, <3>5, <4>3
        <4>4. ASSUME NEW k \in 1..m, NEW l \in 1..m, i = n + k, j = n + l PROVE i = j
          <5>1. results'[i].task = s[k] /\ results'[j].task = s[l]
            BY <3>3, <4>4
          <5>2. s[k] = s[l]
            BY <3>5, <5>1
          <5>3. k = l
            BY <2>3, <5>2
          <5> QED
            BY <4>4, <5>3
        <4> QED
          BY <2>8, <4>1, <4>2, <4>3, <4>4
      <3>6. \A i \in 1..(n + m) :
              /\ Honest(results[i])'
              /\ stage'[results'[i].task] \in {"recorded", "aborted"}
        BY <2>8, <3>2, <3>4
      <3> QED
        BY <1>0, <2>7, <3>5, <3>6 DEF ResultsInv
    <2>e. RunInv'
      <3>1. Cardinality(Occupied') <= Slots
        BY <1>0, NobodyEnters DEF EngineInv, RunInv, InSlot, taskVars
      <3> QED
        BY <1>0, <2>2, <2>b, <3>1 DEF RunInv
    <2> QED
      BY <2>a, <2>c, <2>d, <2>e DEF EngineInv
  <1> QED
    BY <1>1, <1>2

-----------------------------------------------------------------------------
(* What may happen to the results.                                          *)

\* Once the run is cancelled, a task that goes on or is interrupted leaves the
\* run as it is: it was unwinding, or it unwinds now.
LEMMA CancelledTask ==
    ASSUME EngineInv, cancelled, NEW t \in Tasks, TaskStep(t) \/ TaskTimeout(t)
    PROVE  UNCHANGED runVars
  <1>1. ASSUME LeaveBody(t, "unwinding") \/ Conclude(t, "unwinding")
        PROVE  UNCHANGED runVars
    BY <1>1 DEF LeaveBody, Conclude
  <1>2. ASSUME Interrupt(t) PROVE UNCHANGED runVars
    BY <1>1, <1>2 DEF Interrupt
  <1>3. CASE TakeSlot(t) \/ CallAdvances(t) \/ PromptReturns(t) \/ CreateReturns(t)
    BY <1>3 DEF TakeSlot, CallAdvances, PromptReturns, CreateReturns
  <1>4. CASE \/ \E passed \in BOOLEAN : EvaluateReturns(t, passed)
             \/ CallFails(t) \/ CallAborts(t)
             \/ \E o \in {"errored", "unwinding"} : PromptFails(t, o)
    BY <1>4, RunsUncancelled DEF EvaluateReturns, CallFails, CallAborts, PromptFails
  <1>5. CASE DeleteOver(t)
    <2>1. outcome[t] = "unwinding"
      BY <1>5 DEF DeleteOver, Runs, EngineInv, TaskInv, Over
    <2> QED
      BY <1>1, <1>5, <2>1 DEF DeleteOver
  <1>6. CASE DeleteAborts(t)
    BY <1>1, <1>6 DEF DeleteAborts
  <1>7. CASE TaskTimeout(t) \/ CancelReaches(t)
    BY <1>2, <1>7 DEF TaskTimeout, CancelReaches
  <1> QED
    BY <1>3, <1>4, <1>5, <1>6, <1>7 DEF TaskStep

\* A task publishes one result or none.
LEMMA TaskPublishes ==
    ASSUME EngineInv, NEW t \in Tasks, TaskStep(t) \/ TaskTimeout(t)
    PROVE  UNCHANGED runVars \/ \E r \in Results : Record(r)
  <1> USE DEF Outcomes
  <1>1. ASSUME NEW o \in Outcomes, LeaveBody(t, o) \/ Conclude(t, o)
        PROVE  UNCHANGED runVars \/ \E r \in Results : Record(r)
    BY <1>1, LeaveBodyMoves, ConcludeMoves DEF Records, MovesTo
  <1>2. ASSUME Interrupt(t)
        PROVE  UNCHANGED runVars \/ \E r \in Results : Record(r)
    BY <1>1, <1>2 DEF Interrupt
  <1>3. CASE TakeSlot(t) \/ CallAdvances(t) \/ PromptReturns(t) \/ CreateReturns(t)
    BY <1>3 DEF TakeSlot, CallAdvances, PromptReturns, CreateReturns
  <1>4. CASE \E passed \in BOOLEAN : EvaluateReturns(t, passed)
    BY <1>1, <1>4 DEF EvaluateReturns
  <1>5. CASE CallFails(t) \/ CallAborts(t)
    BY <1>1, <1>5 DEF CallFails, CallAborts
  <1>6. CASE \E o \in {"errored", "unwinding"} : PromptFails(t, o)
    BY <1>1, <1>6 DEF PromptFails
  <1>7. CASE DeleteOver(t) \/ DeleteAborts(t)
    <2>1. outcome[t] \in Outcomes
      BY DEF EngineInv, TypeOK
    <2> QED
      BY <1>1, <1>7, <2>1 DEF DeleteOver, DeleteAborts
  <1>8. CASE TaskTimeout(t) \/ CancelReaches(t)
    BY <1>2, <1>8 DEF TaskTimeout, CancelReaches
  <1> QED
    BY <1>3, <1>4, <1>5, <1>6, <1>7, <1>8 DEF TaskStep

\* No step takes a result away or changes one, none but the end of a gather
\* that was not cancelled changes the status, and none changes anything a
\* poller sees once the run is cancelled.
LEMMA OwnStepResults ==
    ASSUME EngineInv, OwnStep
    PROVE  /\ results' \in Seq(Results) /\ Len(results) <= Len(results')
           /\ \A i \in 1..Len(results) : results'[i] = results[i]
           /\ status' \in {status, "succeeded"}
           /\ cancelled => UNCHANGED <<results, summary, status>>
           /\ cancelled' = cancelled
           /\ phase = "returned" => phase' = "returned" /\ UNCHANGED <<results, summary, status, exit>>
  <1> USE DEF runVars
  <1>0. TypeOK /\ results \in Seq(Results) /\ Len(results) \in Nat
    BY DEF EngineInv, TypeOK
  <1>1. ASSUME NEW t \in Tasks, TaskStep(t) \/ TaskTimeout(t)
        PROVE  phase = "gathering"
    BY <1>1 DEF TaskStep, TaskTimeout, TakeSlot, CallAdvances, CreateReturns,
                EvaluateReturns, CallFails, CallAborts, DeleteOver, DeleteAborts,
                PromptReturns, PromptFails, CancelReaches, Runs
  <1>2. CASE \E t \in Tasks : TaskStep(t) \/ TaskTimeout(t)
    <2>1. PICK t \in Tasks : TaskStep(t) \/ TaskTimeout(t)
      BY <1>2
    <2>2. CASE UNCHANGED runVars
      BY <1>0, <1>1, <2>1, <2>2
    <2>3. CASE \E r \in Results : Record(r)
      <3>1. PICK r \in Results : Record(r)
        BY <2>3
      <3>2. /\ results' \in Seq(Results) /\ Len(results') = Len(results) + 1
            /\ \A i \in 1..Len(results) : results'[i] = results[i]
            /\ UNCHANGED <<phase, exit, status, cancelled>>
        BY <1>0, <3>1, RecordTypes
      <3>3. Len(results) <= Len(results')
        BY <1>0, <3>2
      <3>4. cancelled => UNCHANGED runVars
        BY <2>1, CancelledTask
      <3> QED
        BY <1>1, <2>1, <3>2, <3>3, <3>4
    <2> QED
      BY <2>1, <2>2, <2>3, TaskPublishes
  <1>3. CASE \/ \E k \in live : ChildEnds(k)
             \/ ListTasks \/ ListFails \/ FlushOver
    BY <1>0, <1>3 DEF ChildEnds, ListTasks, ListFails, FlushOver
  <1>4. CASE GatherOver
    <2>1. CASE cancelled
      BY <1>0, <1>4, <2>1 DEF GatherOver
    <2>2. CASE ~cancelled
      <3>1. PICK s \in InOrder(Unrecorded) :
              results' = results \o [i \in DOMAIN s |-> Result(s[i], FALSE, TRUE, FALSE)]
        BY <1>4, <2>2 DEF GatherOver, Booked
      <3> DEFINE b == [i \in DOMAIN s |-> Result(s[i], FALSE, TRUE, FALSE)]
      <3>2. b \in Seq(Results)
        <4>1. Unrecorded \in SUBSET Tasks
          BY DEF Unrecorded
        <4>2. PICK m \in Nat : s \in [1..m -> Tasks]
          BY <4>1, ListedOnce
        <4>3. \A i \in 1..m : Result(s[i], FALSE, TRUE, FALSE) \in Results
          BY <4>2, ResultFields
        <4>4. b \in [1..m -> Results]
          BY <4>2, <4>3
        <4> HIDE DEF b
        <4> QED
          BY <4>4
      <3> HIDE DEF b
      <3>3. /\ results' \in Seq(Results) /\ Len(results) <= Len(results')
            /\ \A i \in 1..Len(results) : results'[i] = results[i]
        <4>1. results' = results \o b
          BY <3>1 DEF b
        <4>2. Len(b) \in Nat
          BY <3>2
        <4>3. /\ results' \in Seq(Results) /\ Len(results') = Len(results) + Len(b)
              /\ \A i \in 1..(Len(results) + Len(b)) :
                    results'[i] = IF i <= Len(results) THEN results[i]
                                  ELSE b[i - Len(results)]
          BY <1>0, <3>2, <4>1, ConcatProperties
        <4> QED
          BY <1>0, <4>2, <4>3
      <3> QED
        BY <1>4, <2>2, <3>3 DEF GatherOver
    <2> QED
      BY <2>1, <2>2
  <1> QED
    BY <1>2, <1>3, <1>4 DEF OwnStep

-----------------------------------------------------------------------------
(* The theorems.                                                            *)

\* The state run_benchmark is called in satisfies the invariant, whatever the
\* status of a run that has not ended.
LEMMA CalledEngineInv ==
    ASSUME Called, status \in {"pending", "running"} PROVE EngineInv
  <1>1. M!IInv
    BY SessionBegins DEF Called
  <1>2. NoSummary \in [total : Nat, succeeded : Nat, evaluated_pass : Nat]
    BY DEF NoSummary, SummaryOf
  <1>3. TypeOK
    <2>1. <<>> \in Seq(Results)
      OBVIOUS
    <2>2. M!TypeOK
      BY <1>1 DEF M!IInv
    <2> QED
      BY <1>2, <2>1, <2>2 DEF Called, TypeOK
  <1>4. \A t \in Tasks : TaskInv(t)
    BY DEF Called, M!Init, TaskInv, Calling, Over
  <1>5. ResultsInv
    BY DEF Called, ResultsInv
  <1>6. Cardinality(Occupied) <= Slots
    <2>1. Occupied = {}
      BY DEF Called, Occupied, InSlot
    <2>2. Cardinality(Occupied) = 0
      BY <2>1, FS_EmptySet
    <2> QED
      BY <2>2, SlotsAssumption DEF SlotsAssumption
  <1>7. RunInv
    BY <1>6 DEF Called, NoSummary, RunInv
  <1> QED
    BY <1>1, <1>3, <1>4, <1>5, <1>7 DEF EngineInv

\* What the engine does by itself keeps the invariant.
LEMMA OwnStepKeeps == EngineInv /\ OwnStep => EngineInv'
  <1> SUFFICES ASSUME EngineInv, OwnStep PROVE EngineInv'
    OBVIOUS
  <1>1. M!IInv'
    BY OwnSessionStep, SessionKeeps DEF EngineInv
  <1>2. ASSUME NEW t \in Tasks, TaskStep(t) \/ TaskTimeout(t) PROVE EngineInv'
    BY <1>1, <1>2, TakeSlotKeeps, CallAdvancesKeeps, CreateReturnsKeeps,
       EvaluateReturnsKeeps, CallFailsKeeps, DeleteOverKeeps, DeleteAbortsKeeps,
       PromptReturnsKeeps, PromptFailsKeeps, CancelReachesKeeps, TaskTimeoutKeeps
    DEF TaskStep
  <1>3. CASE GatherOver
    BY <1>1, <1>3, GatherOverKeeps
  <1>4. CASE (\E k \in live : ChildEnds(k)) \/ ListTasks \/ ListFails \/ FlushOver
    BY <1>1, <1>4, RunStepKeeps
  <1> QED
    BY <1>2, <1>3, <1>4 DEF OwnStep

\* So does its cancellation, even by a caller that gives up the run with it.
LEMMA CancelKeeps ==
    EngineInv /\ CancelEffect /\ status' \in {status, "failed"} => EngineInv'
  BY OwnSessionStep, SessionKeeps, RunStepKeeps DEF EngineInv

\* So does a caller that only begins the run or gives it up.
LEMMA StatusKeeps ==
    ASSUME EngineInv, status' \in {status, "running", "failed"},
           UNCHANGED <<taskVars, historyVars, sessionVars>>,
           UNCHANGED <<phase, exit, results, summary, cancelled>>
    PROVE  EngineInv'
  <1> USE DEF taskVars, historyVars, sessionVars
  <1>1. M!IInv'
    BY SessionKeeps DEF EngineInv, M!vars
  <1>2. TypeOK'
    BY <1>1 DEF EngineInv, TypeOK, M!IInv
  <1>3. /\ phase = "listing" => ~cancelled
        /\ \A t \in Tasks :
            cancelled /\ phase = "gathering" =>
                \/ t \in doomed \/ Over(t)
                \/ stage[t] = "delete" /\ outcome[t] = "unwinding"
    BY DEF EngineInv, RunInv, TaskInv
  <1> QED
    BY <1>1, <1>2, <1>3, StillKeeps

\* Every step keeps the invariant.
LEMMA EngineKeeps == EngineInv /\ [Next]_vars => EngineInv'
  BY OwnStepKeeps, CancelKeeps, StatusKeeps DEF Next, CancelRun, vars, runVars

\* What the invariant says of the engine as a whole.
LEMMA EngineMeans ==
    EngineInv => BatchAccounted /\ HonestVerdicts /\ SessionsCleanedUp /\ SlotsBoundTheQueue
  <1>1. EngineInv => BatchAccounted
    <2> SUFFICES ASSUME EngineInv, NEW t \in Tasks
                 PROVE  /\ summary = SummaryOf(results)
                        /\ Cardinality(ResultsOf(t)) <= 1
                        /\ status = "succeeded" => Cardinality(ResultsOf(t)) = 1
      BY DEF BatchAccounted, EngineInv, RunInv
    <2>1. summary = SummaryOf(results)
      BY DEF EngineInv, RunInv
    <2>2. \A i, j \in ResultsOf(t) : i = j
      BY DEF EngineInv, ResultsInv, ResultsOf
    <2>3. CASE ResultsOf(t) = {}
      <3>1. ~Recorded(t)
        BY <2>3 DEF Recorded, ResultsOf
      <3>2. Cardinality(ResultsOf(t)) = 0
        BY <2>3, FS_EmptySet
      <3> QED
        BY <2>1, <3>1, <3>2 DEF EngineInv, RunInv
    <2>4. CASE ResultsOf(t) # {}
      <3>1. PICK i : ResultsOf(t) = {i}
        BY <2>2, <2>4
      <3>2. Cardinality(ResultsOf(t)) = 1
        BY <3>1, FS_Singleton
      <3> QED
        BY <2>1, <3>2
    <2> QED
      BY <2>3, <2>4
  <1>2. EngineInv => HonestVerdicts
    BY DEF EngineInv, ResultsInv, Honest, HonestVerdicts
  <1>3. EngineInv => SessionsCleanedUp
    BY DEF EngineInv, TypeOK, TaskInv, SessionsCleanedUp
  <1>4. EngineInv => SlotsBoundTheQueue
    <2> SUFFICES ASSUME EngineInv PROVE SlotsBoundTheQueue
      OBVIOUS
    <2> DEFINE Users == {t \in Tasks : pc[t] # "idle"}
    <2>1. Users \subseteq Occupied
      BY DEF EngineInv, TaskInv, Calling, Occupied, InSlot
    <2>2. Cardinality(Users) <= Cardinality(Occupied) /\ Cardinality(Users) \in Nat
      BY <2>1, OccupiedFinite, FS_Subset, FS_CardinalityType
    <2>3. Cardinality(Users) <= Slots
      BY <2>2, OccupiedFinite, SlotsAssumption DEF EngineInv, RunInv, SlotsAssumption
    <2>4. \A t \in Tasks : Over(t) => pc[t] = "idle"
      BY DEF EngineInv, TaskInv, Calling, Over
    <2> QED
      BY <2>3, <2>4 DEF SlotsBoundTheQueue
  <1> QED
    BY <1>1, <1>2, <1>3, <1>4

\* The inductive invariant holds in every behaviour of the engine.
THEOREM EngineInvariant == Spec => []EngineInv
  <1>1. Init => EngineInv
    BY CalledEngineInv DEF Init
  <1> QED
    BY <1>1, EngineKeeps, PTL DEF Spec

\* Types of the engine's and the session's state.
THEOREM EngineTypes == Spec => []TypeOK
  <1>1. EngineInv => TypeOK
    BY DEF EngineInv
  <1> QED
    BY <1>1, EngineInvariant, PTL

\* The engine uses the session as McpSession says, through every timeout,
\* abort and cancellation: the safety part of SessionSpec.
THEOREM SessionUsed == Spec => M!Init /\ [][M!Next]_(M!vars)
  <1>1. Init => M!Init
    BY DEF Init, Called
  <1> QED
    BY <1>1, SessionStep, PTL DEF Spec

\* Two tasks' calls never run on the session together, unless a cancellation
\* cut a reap short.
THEOREM CallsSerialisedInRun == Spec => []M!NoConcurrentCallTool
  <1>1. EngineInv => M!NoConcurrentCallTool
    BY DEF EngineInv, M!IInv, M!OneUnstrayed, M!NoConcurrentCallTool
  <1> QED
    BY <1>1, EngineInvariant, PTL

\* The batch accounts for every task: no task has two results, a succeeded
\* run has one for each, and the summary is that of the results beside it.
THEOREM BatchAccountedFor == Spec => []BatchAccounted
  <1>1. EngineInv => BatchAccounted
    BY EngineMeans
  <1> QED
    BY <1>1, EngineInvariant, PTL

\* A run that was cancelled records nothing more: what a poller sees of it is
\* what it will see when the run has returned.
THEOREM NothingAfterCancellation ==
    Spec => [][cancelled => UNCHANGED <<results, summary, status>>]_vars
  <1>1. EngineInv /\ [Next]_vars
            => [cancelled => UNCHANGED <<results, summary, status>>]_vars
    BY OwnStepResults DEF Next, CancelRun, CancelEffect
  <1> QED
    BY <1>1, EngineInvariant, PTL DEF Spec

\* The verdicts are the evaluator's, but for a cleanup that was cut short.
THEOREM VerdictsHonest == Spec => []HonestVerdicts
  <1>1. EngineInv => HonestVerdicts
    BY EngineMeans
  <1> QED
    BY <1>1, EngineInvariant, PTL

\* Every session the engine knows of is cleaned up before its task is over,
\* unless the session was poisoned or the cleanup cut short.
THEOREM CleanupSent == Spec => []SessionsCleanedUp
  <1>1. EngineInv => SessionsCleanedUp
    BY EngineMeans
  <1> QED
    BY <1>1, EngineInvariant, PTL

\* Never more than Slots tasks hold or queue for the session, and no task
\* that is over is left in its queue.
THEOREM SlotsBound == Spec => []SlotsBoundTheQueue
  <1>1. EngineInv => SlotsBoundTheQueue
    BY EngineMeans
  <1> QED
    BY <1>1, EngineInvariant, PTL
=============================================================================
