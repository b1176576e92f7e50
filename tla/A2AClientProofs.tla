-------------------------- MODULE A2AClientProofs --------------------------
(***************************************************************************)
(* Proofs about the agent turn of module A2AClient, for every number of    *)
(* attempts and every budget, backoff, grace and task timer.  The          *)
(* inductive invariant is TurnInv; each action is one lemma, and the       *)
(* properties of the turn follow from the invariant.                       *)
(***************************************************************************)
EXTENDS A2AClient, TLAPS

USE AttemptsAssumption, TimesAssumption, MinBudgetAssumption
    DEF AttemptsAssumption, TimesAssumption, MinBudgetAssumption

\* The initial states satisfy the invariant.
LEMMA InitTurnInv == Init => TurnInv
<1> SUFFICES ASSUME Init PROVE TurnInv
  OBVIOUS
<1> USE DEF Init
<1>1. TypeOK
  <2>1. 0 \in 0..Attempts /\ {} \subseteq 1..Attempts
    OBVIOUS
  <2>2. fate \in [1..Attempts -> {"none", "live"} \union Endings]
    OBVIOUS
  <2> QED
    BY <2>1, <2>2 DEF TypeOK
<1>2. FateInv /\ OrphanCutOff /\ ReapUnreached
  BY DEF FateInv, OrphanCutOff, ReapUnreached
<1>3. TimeInv
  BY DEF TimeInv, Deadline, Later
<1>4. VerdictInv
  BY DEF VerdictInv
<1> QED
  BY <1>1, <1>2, <1>3, <1>4 DEF TurnInv

\* Time passes, never beyond the timer of a wait.
LEMMA TickStep == TurnInv /\ Tick => TurnInv'
<1> SUFFICES ASSUME TurnInv, Tick PROVE TurnInv'
  OBVIOUS
<1> USE DEF TurnInv, Tick, Asleep
<1>1. TypeOK'
  BY DEF TypeOK
<1>2. FateInv' /\ OrphanCutOff' /\ ReapUnreached'
  BY DEF FateInv, OrphanCutOff, ReapUnreached
<1>3. TimeInv'
  BY DEF TypeOK, TimeInv, Deadline, Later
<1>4. VerdictInv'
  BY DEF TypeOK, VerdictInv, EnoughLeft
<1> QED
  BY <1>1, <1>2, <1>3, <1>4

\* A new attempt waits exactly until the deadline.
LEMMA StartAttemptStep == TurnInv /\ StartAttempt => TurnInv'
<1> SUFFICES ASSUME TurnInv, StartAttempt PROVE TurnInv'
  OBVIOUS
<1> USE DEF TurnInv, StartAttempt
<1>0. attempt < Attempts /\ attempt + 1 \in 1..Attempts
  BY DEF TypeOK, FateInv, VerdictInv
<1>1. until' = Deadline /\ now <= Deadline
  BY DEF TypeOK, TimeInv, Deadline, Later, AttemptShare, EnoughLeft
<1>2. TypeOK'
  BY <1>0, <1>1 DEF TypeOK, Deadline, Later
<1>3. FateInv'
  <2>1. (attempt = 0 <=> pc = "start")'
    BY DEF TypeOK
  <2>2. ASSUME NEW a \in 1..Attempts
        PROVE  (a > attempt <=> fate[a] = "none")' /\ (a < attempt => fate[a] = "transport")'
    <3>1. CASE a > attempt + 1
      BY <3>1, <1>0 DEF TypeOK, FateInv
    <3>2. CASE a = attempt + 1
      BY <3>2, <1>0 DEF TypeOK, FateInv
    <3>3. CASE a < attempt + 1
      <4>1. attempt > 0 => fate[attempt] = "transport"
        BY DEF TypeOK, FateInv, VerdictInv
      <4>2. fate[a] = "transport" /\ fate'[a] = fate[a]
        BY <3>3, <4>1 DEF TypeOK, FateInv
      <4> QED
        BY <3>3, <4>2 DEF TypeOK, FateInv
    <3> QED
      BY <3>1, <3>2, <3>3 DEF TypeOK
  <2> QED
    BY <2>1, <2>2 DEF FateInv
<1>4. TimeInv'
  BY <1>1 DEF TypeOK, TimeInv, Deadline, Later
<1>5. VerdictInv' /\ OrphanCutOff' /\ ReapUnreached'
  BY DEF TypeOK, VerdictInv, OrphanCutOff, ReapUnreached
<1> QED
  BY <1>2, <1>3, <1>4, <1>5

\* Giving up leaves a transport failure with too little of the budget.
LEMMA GiveUpStep == TurnInv /\ GiveUp => TurnInv'
<1> SUFFICES ASSUME TurnInv, GiveUp PROVE TurnInv'
  OBVIOUS
<1> USE DEF TurnInv, GiveUp
<1>1. TypeOK' /\ FateInv' /\ ReapUnreached'
  BY DEF TypeOK, FateInv, ReapUnreached
<1>2. TimeInv'
  BY DEF TypeOK, TimeInv
<1>3. VerdictInv'
  BY DEF TypeOK, VerdictInv, EnoughLeft, Endings
<1>4. OrphanCutOff'
  BY DEF TypeOK, OrphanCutOff, FateInv, VerdictInv
<1> QED
  BY <1>1, <1>2, <1>3, <1>4

\* The wait returns with the child's own ending.
LEMMA WaitReturnsStep == TurnInv /\ WaitReturns => TurnInv'
<1> SUFFICES ASSUME TurnInv, WaitReturns PROVE TurnInv'
  OBVIOUS
<1> USE DEF TurnInv, WaitReturns
<1>1. attempt \in 1..Attempts /\ fate[attempt] \in Endings
  BY DEF TypeOK, FateInv
<1>2. TypeOK' /\ FateInv' /\ ReapUnreached' /\ OrphanCutOff'
  BY <1>1 DEF TypeOK, FateInv, ReapUnreached, OrphanCutOff
<1>3. TimeInv'
  BY DEF TypeOK, TimeInv
<1>4. VerdictInv'
  BY <1>1 DEF TypeOK, VerdictInv, Endings
<1> QED
  BY <1>2, <1>3, <1>4

\* An attempt expires at the deadline, and not inside a task whose own timer
\* is due by then.
LEMMA ExpireStep == TurnInv /\ Expire => TurnInv'
<1> SUFFICES ASSUME TurnInv, Expire PROVE TurnInv'
  OBVIOUS
<1> USE DEF TurnInv, Expire, TimerDue, TaskDue
<1>1. attempt \in 1..Attempts /\ now = Deadline
  BY DEF TypeOK, FateInv, TimeInv, Deadline, Later
<1>2. TypeOK' /\ FateInv' /\ OrphanCutOff'
  BY <1>1 DEF TypeOK, FateInv, OrphanCutOff
<1>3. TimeInv'
  BY <1>1 DEF TypeOK, TimeInv
<1>4. VerdictInv'
  BY DEF TypeOK, VerdictInv
<1>5. ReapUnreached'
  BY <1>1 DEF TypeOK, ReapUnreached, VerdictInv, Deadline, Later
<1> QED
  BY <1>2, <1>3, <1>4, <1>5

\* The reap begins at the deadline and lasts one grace.
LEMMA ReapStep == TurnInv /\ (Broken \/ Reaped) => TurnInv'
<1> SUFFICES ASSUME TurnInv, Broken \/ Reaped PROVE TurnInv'
  OBVIOUS
<1> USE DEF TurnInv
<1>1. CASE Broken
  <2> USE <1>1 DEF Broken
  <2>1. TypeOK' /\ FateInv' /\ OrphanCutOff' /\ ReapUnreached'
    BY DEF TypeOK, FateInv, OrphanCutOff, ReapUnreached
  <2>2. TimeInv'
    BY DEF TypeOK, TimeInv, Deadline, Later
  <2>3. VerdictInv'
    BY DEF TypeOK, VerdictInv
  <2> QED
    BY <2>1, <2>2, <2>3
<1>2. CASE Reaped
  <2> USE <1>2 DEF Reaped
  <2>1. TypeOK' /\ FateInv' /\ OrphanCutOff' /\ ReapUnreached'
    BY DEF TypeOK, FateInv, OrphanCutOff, ReapUnreached
  <2>2. TimeInv'
    BY DEF TypeOK, TimeInv, Deadline, Later
  <2>3. VerdictInv'
    BY DEF TypeOK, VerdictInv, TimeInv, Endings
  <2> QED
    BY <2>1, <2>2, <2>3
<1> QED
  BY <1>1, <1>2

\* The `finally` leaves no open transport, and retries only a connection.
LEMMA ClosedStep == TurnInv /\ Closed => TurnInv'
<1> SUFFICES ASSUME TurnInv, Closed PROVE TurnInv'
  OBVIOUS
<1> USE DEF TurnInv, Closed, AfterAttempt, Retries
<1>0. attempt \in 1..Attempts
  BY DEF TypeOK, FateInv
<1>1. TypeOK' /\ FateInv' /\ ReapUnreached'
  BY <1>0 DEF TypeOK, FateInv, ReapUnreached
<1>2. TimeInv'
  BY DEF TypeOK, TimeInv, Deadline, Later
<1>3. VerdictInv'
  BY <1>0 DEF TypeOK, VerdictInv, Endings, EnoughLeft
<1>4. OrphanCutOff'
  BY <1>0 DEF TypeOK, OrphanCutOff, FateInv
<1> QED
  BY <1>1, <1>2, <1>3, <1>4

\* A live child is the current attempt's, wherever it ends.
LEMMA ChildEndsStep ==
  ASSUME TurnInv, NEW a \in 1..Attempts, NEW f \in Endings, ChildEnds(a, f)
  PROVE  TurnInv'
<1> USE DEF TurnInv, ChildEnds
<1>1. a = attempt
  BY DEF TypeOK, FateInv
<1>2. pc # "backoff"
  BY <1>1 DEF VerdictInv
<1>3. TypeOK' /\ OrphanCutOff' /\ ReapUnreached'
  BY DEF TypeOK, OrphanCutOff, ReapUnreached
<1>4. FateInv'
  BY <1>1 DEF TypeOK, FateInv, Endings
<1>5. TimeInv'
  BY DEF TypeOK, TimeInv
<1>6. VerdictInv'
  <2>1. pc \in {"closing", "over"} => verdict \notin Endings
    BY <1>1 DEF VerdictInv, Endings
  <2> QED
    BY <1>2, <2>1 DEF TypeOK, VerdictInv, Endings, EnoughLeft
<1> QED
  BY <1>3, <1>4, <1>5, <1>6

\* A cancellation ends the turn in the `finally` or at once.
LEMMA InterruptStep ==
  ASSUME TurnInv, Interrupt, (taskFired \/ runCancelled)',
         taskFired' \in BOOLEAN, runCancelled' \in BOOLEAN
  PROVE  TurnInv'
<1> USE DEF TurnInv, Interrupt
<1>0. pc # "start" => attempt \in 1..Attempts
  BY DEF TypeOK, FateInv
<1>1. CASE CancelWait \/ CancelReap
  <2> USE <1>1 DEF CancelWait, CancelReap
  <2>1. TypeOK' /\ FateInv' /\ OrphanCutOff' /\ ReapUnreached'
    BY DEF TypeOK, FateInv, OrphanCutOff, ReapUnreached
  <2>2. TimeInv'
    BY DEF TypeOK, TimeInv, Deadline, Later
  <2>3. VerdictInv'
    BY DEF TypeOK, VerdictInv, TimeInv, Endings
  <2> QED
    BY <2>1, <2>2, <2>3
<1>2. CASE CancelClose \/ CancelBackoff
  <2> USE <1>2 DEF CancelClose, CancelBackoff
  <2>1. TypeOK' /\ FateInv' /\ ReapUnreached'
    BY <1>0 DEF TypeOK, FateInv, ReapUnreached
  <2>2. TimeInv'
    BY DEF TypeOK, TimeInv, Deadline, Later
  <2>3. VerdictInv'
    BY DEF TypeOK, VerdictInv, Endings
  <2>4. OrphanCutOff'
    BY <1>0 DEF TypeOK, OrphanCutOff, FateInv, VerdictInv
  <2> QED
    BY <2>1, <2>2, <2>3, <2>4
<1> QED
  BY <1>1, <1>2

\* Every step preserves the invariant.
LEMMA TurnInvStep == TurnInv /\ [Next]_vars => TurnInv'
<1> SUFFICES ASSUME TurnInv, [Next]_vars PROVE TurnInv'
  OBVIOUS
<1>1. CASE Tick
  BY <1>1, TickStep
<1>2. CASE StartAttempt
  BY <1>2, StartAttemptStep
<1>3. CASE GiveUp \/ WaitReturns \/ Expire
  BY <1>3, GiveUpStep, WaitReturnsStep, ExpireStep
<1>4. CASE Broken \/ Reaped
  BY <1>4, ReapStep
<1>5. CASE Closed
  BY <1>5, ClosedStep
<1>6. CASE TaskTimeout
  BY <1>6, InterruptStep DEF TaskTimeout, TurnInv, TypeOK
<1>7. CASE CancelRun
  BY <1>7, InterruptStep DEF CancelRun, TurnInv, TypeOK
<1>8. CASE \E a \in 1..Attempts, f \in Endings : ChildEnds(a, f)
  BY <1>8, ChildEndsStep
<1>9. CASE UNCHANGED vars
  BY <1>9 DEF vars, TurnInv, TypeOK, FateInv, TimeInv, VerdictInv, OrphanCutOff,
              ReapUnreached, EnoughLeft
<1> QED
  BY <1>1, <1>2, <1>3, <1>4, <1>5, <1>6, <1>7, <1>8, <1>9 DEF Next, ClientStep

\* The invariant holds of every turn.
THEOREM TurnInvariant == Spec => []TurnInv
<1>1. Init => TurnInv
  BY InitTurnInv
<1>2. TurnInv /\ [Next]_vars => TurnInv'
  BY TurnInvStep
<1> QED
  BY <1>1, <1>2, PTL DEF Spec

\* "a retry never extends the turn beyond the budget": for every budget and
\* every number of attempts.
THEOREM TurnBounded == Spec => []TurnInTime
<1>1. TurnInv => TurnInTime
  BY DEF TurnInv, TypeOK, TimeInv, TurnInTime, Deadline, Later
<1> QED
  BY <1>1, TurnInvariant, PTL

\* No attempt runs beside an earlier one on the task's session.
THEOREM TurnAlone == Spec => []AloneOnSession
<1>1. TurnInv => AloneOnSession
  BY DEF TurnInv, TypeOK, FateInv, VerdictInv, AloneOnSession
<1> QED
  BY <1>1, TurnInvariant, PTL

\* The engine is told what happened.
THEOREM TurnHonest == Spec => []VerdictHonest
<1>1. TurnInv => VerdictHonest
  BY DEF TurnInv, VerdictInv, VerdictHonest
<1> QED
  BY <1>1, TurnInvariant, PTL

\* Inside a task whose timer runs from before the turn, the client's own
\* deadline is never reached.
THEOREM TaskTimerFirst == Spec => []ReapUnreached
<1>1. TurnInv => ReapUnreached
  BY DEF TurnInv
<1> QED
  BY <1>1, TurnInvariant, PTL

\* An answer or a task failure is final: it is never retried.
THEOREM AnswerFinal == Spec => AnswersStand
<1>1. TurnInv /\ [Next]_vars =>
        [(\E a \in 1..Attempts : fate[a] \in {"text", "task_failed"})
          => attempt' = attempt]_vars
  <2> SUFFICES ASSUME TurnInv, [Next]_vars, attempt' # attempt,
                      NEW a \in 1..Attempts, fate[a] \in {"text", "task_failed"}
               PROVE  FALSE
    OBVIOUS
  <2>1. StartAttempt
    BY DEF Next, ClientStep, Tick, GiveUp, WaitReturns, Expire, Broken, Reaped,
           Closed, TaskTimeout, CancelRun, Interrupt, ChildEnds, vars
  <2>2. attempt \in 0..Attempts /\ a \in Nat /\ (a < attempt \/ a = attempt \/ a > attempt)
    BY DEF TurnInv, TypeOK
  <2>3. a < attempt => fate[a] = "transport"
    BY DEF TurnInv, FateInv
  <2>4. a > attempt => fate[a] = "none"
    BY DEF TurnInv, FateInv
  <2>5. a = attempt => fate[a] = "transport"
    BY <2>1 DEF StartAttempt, TurnInv, FateInv, VerdictInv, TypeOK
  <2> QED
    BY <2>2, <2>3, <2>4, <2>5
<1> QED
  BY <1>1, TurnInvariant, PTL DEF Spec, AnswersStand
=============================================================================
