----------------------------- MODULE A2AClient -----------------------------
(***************************************************************************)
(* One agent turn (autobench/runner/a2a_agent.py): send_prompt, its retry  *)
(* loop, and the bounded consumption of the A2A stream in a child task.    *)
(*                                                                         *)
(* All attempts share one deadline.  An attempt has its own transport and  *)
(* its own child task; control comes back when the child ends or at the    *)
(* deadline, and then the transport is closed, the child cancelled and     *)
(* given a grace.  The turn runs inside the engine's asyncio.timeout,      *)
(* whose timer was armed before the turn began, and inside a run that may  *)
(* be cancelled.                                                           *)
(*                                                                         *)
(* Time is a discrete clock that starts with the turn; a timer that is due *)
(* fires before time goes on.  Closing a transport takes no time.          *)
(***************************************************************************)
EXTENDS Naturals

CONSTANTS
    Attempts,    \* max(1, retry_attempts)
    Budget,      \* timeout: the deadline of the turn
    MinBudget,   \* _RETRY_MIN_BUDGET
    Backoff,     \* retry_backoff
    Grace,       \* reap_grace
    TaskTimers   \* when the engine's task timer may fire, in the turn's time

ASSUME AttemptsAssumption == Attempts \in Nat \ {0}
ASSUME MinBudgetAssumption == MinBudget \in Nat \ {0}
ASSUME TimesAssumption ==
    Budget \in Nat /\ Backoff \in Nat /\ Grace \in Nat /\ TaskTimers \subseteq Nat

VARIABLES
    pc,            \* where send_prompt is
    attempt,       \* the current attempt, 0 before the first
    now,           \* the clock
    until,         \* when the timer of the current wait is due
    verdict,       \* what the current attempt, at last the turn, ends with
    fate,          \* [1..Attempts -> what became of the attempt's child task]
    tried,         \* attempts whose transport's aclose was called
    taskTimer,     \* when the engine's task timer is due
    taskFired,     \* the engine's task timer has fired
    runCancelled   \* the run was cancelled from outside

vars == <<pc, attempt, now, until, verdict, fate, tried, taskTimer, taskFired, runCancelled>>

\* How a child task ends: the agent's answer, a terminal failure state, a
\* failure of the connection, any other exception, a CancelledError.
Endings == {"text", "task_failed", "transport", "error", "aborted"}

Later(a, b) == IF a > b THEN a ELSE b

TypeOK ==
    /\ pc \in {"start", "waiting", "breaking", "reaping", "closing", "backoff", "over"}
    /\ attempt \in 0..Attempts
    /\ now \in Nat
    /\ until \in Nat
    /\ verdict \in {"none", "timeout", "cancelled"} \union Endings
    /\ fate \in [1..Attempts -> {"none", "live"} \union Endings]
    /\ tried \subseteq 1..Attempts
    /\ taskTimer \in TaskTimers
    /\ taskFired \in BOOLEAN
    /\ runCancelled \in BOOLEAN

Init ==
    /\ pc = "start"
    /\ attempt = 0
    /\ now = 0
    /\ until = 0
    /\ verdict = "none"
    /\ fate = [a \in 1..Attempts |-> "none"]
    /\ tried = {}
    /\ taskTimer \in TaskTimers
    /\ taskFired = FALSE
    /\ runCancelled = FALSE

-----------------------------------------------------------------------------
(* Time.                                                                    *)

\* The engine's timer is due: it was armed before every timer of the turn.
TaskDue == ~taskFired /\ now >= taskTimer

\* The current wait has something to wait for.
Asleep ==
    \/ pc \in {"waiting", "reaping"} /\ fate[attempt] = "live"
    \/ pc = "backoff"

Tick ==
    /\ Asleep
    /\ now < until
    /\ ~TaskDue
    /\ now' = now + 1
    /\ UNCHANGED <<pc, attempt, until, verdict, fate, tried, taskTimer, taskFired, runCancelled>>

TimerDue == now >= until /\ ~TaskDue

-----------------------------------------------------------------------------
(* send_prompt: the retry loop.                                             *)

EnoughLeft == now + MinBudget <= Budget

\* Mutant: every attempt gets the whole budget.
AttemptShareWhole == Budget

\* max(remaining, 1.0).
AttemptShare == IF now < Budget THEN Budget - now ELSE 1

\* A fresh transport and a child task; wait with what is left of the deadline.
StartAttempt ==
    /\ \/ pc = "start"
       \/ pc = "backoff" /\ TimerDue /\ EnoughLeft
    /\ pc' = "waiting"
    /\ attempt' = attempt + 1
    /\ until' = now + AttemptShare
    /\ fate' = [fate EXCEPT ![attempt + 1] = "live"]
    /\ UNCHANGED <<now, verdict, tried, taskTimer, taskFired, runCancelled>>

\* Too little is left: `raise last_exc`.
GiveUp ==
    /\ pc = "backoff"
    /\ TimerDue
    /\ ~EnoughLeft
    /\ pc' = "over"
    /\ UNCHANGED <<attempt, now, until, verdict, fate, tried, taskTimer, taskFired, runCancelled>>

\* Mutant: the agent's own failure is retried.
RetriesVerdicts == verdict \in {"transport", "task_failed"} /\ attempt < Attempts

\* Mutant: one attempt too few.
RetriesTooFew == verdict = "transport" /\ attempt + 1 < Attempts

\* A failure of the connection, and attempts left.
Retries == verdict = "transport" /\ attempt < Attempts

\* What follows the `finally` of _attempt.
AfterAttempt ==
    \/ Retries /\ pc' = "backoff" /\ until' = now + Backoff
    \/ ~Retries /\ pc' = "over" /\ UNCHANGED until

-----------------------------------------------------------------------------
(* _attempt and _bounded_consume.                                           *)

\* `if consume in done: return consume.result()`.
WaitReturns ==
    /\ pc = "waiting"
    /\ fate[attempt] # "live"
    /\ pc' = "closing"
    /\ verdict' = fate[attempt]
    /\ UNCHANGED <<attempt, now, until, fate, tried, taskTimer, taskFired, runCancelled>>

\* The deadline: close the transport under the stalled read.
Expire ==
    /\ pc = "waiting"
    /\ fate[attempt] = "live"
    /\ TimerDue
    /\ pc' = "breaking"
    /\ tried' = tried \union {attempt}
    /\ UNCHANGED <<attempt, now, until, verdict, fate, taskTimer, taskFired, runCancelled>>

\* Closed, or failed to: consume.cancel() and wait for the grace.
Broken ==
    /\ pc = "breaking"
    /\ pc' = "reaping"
    /\ until' = now + Grace
    /\ UNCHANGED <<attempt, now, verdict, fate, tried, taskTimer, taskFired, runCancelled>>

\* Mutant: the cancelled child is awaited.
ReapedAwaitsChild ==
    /\ pc = "reaping"
    /\ fate[attempt] # "live"
    /\ pc' = "closing"
    /\ verdict' = "timeout"
    /\ UNCHANGED <<attempt, now, until, fate, tried, taskTimer, taskFired, runCancelled>>

\* The child has ended or its grace is over: raise A2AAgentTimeout.
Reaped ==
    /\ pc = "reaping"
    /\ fate[attempt] # "live" \/ TimerDue
    /\ pc' = "closing"
    /\ verdict' = "timeout"
    /\ UNCHANGED <<attempt, now, until, fate, tried, taskTimer, taskFired, runCancelled>>

\* The `finally` of _attempt: aclose, which does nothing the second time.
Closed ==
    /\ pc = "closing"
    /\ tried' = tried \union {attempt}
    /\ AfterAttempt
    /\ UNCHANGED <<attempt, now, verdict, fate, taskTimer, taskFired, runCancelled>>

\* The child task ends, in time, late, or after its transport was closed.
ChildEnds(a, f) ==
    /\ fate[a] = "live"
    /\ fate' = [fate EXCEPT ![a] = f]
    /\ UNCHANGED <<pc, attempt, now, until, verdict, tried, taskTimer, taskFired, runCancelled>>

-----------------------------------------------------------------------------
(* Cancellation from outside, thrown in at the await where the turn is.     *)

\* Mutant: a cancelled wait is taken for a dropped connection and retried.
CancelWaitRetries ==
    /\ pc \in {"waiting", "breaking"}
    /\ pc' = "closing"
    /\ verdict' = "transport"
    /\ UNCHANGED <<until, tried>>

\* Out of the wait or of the first aclose, into the `finally`; the child is
\* neither cancelled nor waited for.
CancelWait ==
    /\ pc \in {"waiting", "breaking"}
    /\ pc' = "closing"
    /\ verdict' = "cancelled"
    /\ UNCHANGED <<until, tried>>

\* suppress(BaseException) around the reap: the cancellation is swallowed.
CancelReap ==
    /\ pc = "reaping"
    /\ pc' = "closing"
    /\ verdict' = "timeout"
    /\ UNCHANGED <<until, tried>>

\* Out of the `finally`'s aclose, when that one closes.
CancelClose ==
    /\ pc = "closing"
    /\ attempt \notin tried
    /\ pc' = "over"
    /\ verdict' = "cancelled"
    /\ tried' = tried \union {attempt}
    /\ UNCHANGED until

CancelBackoff ==
    /\ pc = "backoff"
    /\ pc' = "over"
    /\ verdict' = "cancelled"
    /\ UNCHANGED <<until, tried>>

Interrupt ==
    /\ CancelWait \/ CancelReap \/ CancelClose \/ CancelBackoff
    /\ UNCHANGED <<attempt, now, fate, taskTimer>>

\* asyncio.timeout(task_timeout) of the engine.
TaskTimeout ==
    /\ TaskDue
    /\ taskFired' = TRUE
    /\ Interrupt
    /\ UNCHANGED runCancelled

\* The run is cancelled, once.
CancelRun ==
    /\ ~runCancelled
    /\ runCancelled' = TRUE
    /\ Interrupt
    /\ UNCHANGED taskFired

-----------------------------------------------------------------------------
ClientStep ==
    \/ StartAttempt \/ GiveUp \/ WaitReturns \/ Expire \/ Broken \/ Reaped
    \/ Closed \/ TaskTimeout

Next ==
    \/ ClientStep \/ Tick \/ CancelRun
    \/ \E a \in 1..Attempts, f \in Endings : ChildEnds(a, f)

\* The event loop runs the coroutine, time passes, closing a local transport
\* returns.  No child task has to end and no cancellation has to come.
Fairness == WF_vars(ClientStep) /\ WF_vars(Tick)

Spec == Init /\ [][Next]_vars /\ Fairness

-----------------------------------------------------------------------------
(* Properties.                                                              *)

\* The last moment at which an attempt may wait for its child.
Deadline == Later(Budget, 1)

\* "a retry never extends the turn beyond the budget": however many attempts,
\* the turn is over when the deadline and one grace or one backoff have passed,
\* and no attempt waits for its stream past the deadline.
TurnInTime ==
    /\ now <= Deadline + Later(Grace, Backoff)
    /\ pc = "waiting" => now <= until /\ until <= Deadline

\* A retry drives the same MCP session again: never while the stream of an
\* earlier attempt is live, through drops, timeouts and cancellations.
AloneOnSession ==
    pc \in {"waiting", "backoff"} =>
        \A a \in 1..Attempts : fate[a] = "live" => a = attempt /\ pc = "waiting"

\* "A transport failure is retried, a task failure is not", nor an answer:
\* once the agent has spoken no attempt follows.
AnswersStand ==
    [][(\E a \in 1..Attempts : fate[a] \in {"text", "task_failed"})
        => attempt' = attempt]_vars

\* What the engine gets is what happened: an answer or error is the last
\* attempt's own, a connection is given up only with the attempts or the
\* budget spent, a timeout is past the deadline, a cancellation was sent.
VerdictHonest ==
    pc = "over" =>
        /\ verdict \in Endings => fate[attempt] = verdict
        /\ verdict = "transport" => attempt = Attempts \/ ~EnoughLeft
        /\ verdict = "timeout" => now >= Deadline
        /\ verdict = "cancelled" => taskFired \/ runCancelled

\* A child task left behind has had its transport closed under it ("force the
\* stalled stream read to error out"), however the turn ended.
OrphanCutOff ==
    pc = "over" => \A a \in 1..Attempts : fate[a] = "live" => a \in tried

\* The engine arms its task timer, of the same length, before the turn begins:
\* then the client's own deadline, and the reap that swallows cancellations,
\* is never reached (what module Engine builds on).
ReapUnreached == taskTimer <= Budget => pc \notin {"breaking", "reaping"}

\* The attempts made before the current one all failed at the connection, and
\* what is live is the current one.
FateInv ==
    /\ attempt = 0 <=> pc = "start"
    /\ \A a \in 1..Attempts :
        /\ a > attempt <=> fate[a] = "none"
        /\ a < attempt => fate[a] = "transport"

\* Where the clock and the timer of the current wait may stand.
TimeInv ==
    /\ now <= Deadline + Later(Grace, Backoff)
    /\ pc = "start" => now = 0
    /\ pc = "waiting" => until = Deadline /\ now <= Deadline
    /\ pc = "breaking" => now = Deadline
    /\ pc = "reaping" => Deadline <= now /\ now <= until /\ until = Deadline + Grace
    /\ pc = "closing" => now <= Deadline \/ (verdict = "timeout" /\ now <= Deadline + Grace)
    /\ pc = "backoff" => now <= until /\ until <= Deadline + Backoff

\* What the verdict is made of, and that a cancelled turn makes no attempt.
VerdictInv ==
    /\ pc \in {"closing", "over"} =>
        /\ verdict # "none"
        /\ verdict \in Endings => fate[attempt] = verdict
        /\ verdict = "timeout" => now >= Deadline
        /\ verdict = "cancelled" => taskFired \/ runCancelled
    /\ pc = "backoff" => verdict = "transport" /\ fate[attempt] = "transport" /\ attempt < Attempts
    /\ pc = "over" /\ verdict = "transport" => attempt = Attempts \/ ~EnoughLeft
    /\ taskFired \/ runCancelled =>
        pc = "over" \/ (pc = "closing" /\ verdict \in {"cancelled", "timeout"})

\* The inductive invariant.
TurnInv ==
    /\ TypeOK
    /\ FateInv
    /\ TimeInv
    /\ VerdictInv
    /\ OrphanCutOff
    /\ ReapUnreached

\* "even a stream that ignores cancellation cannot pin us here": every turn
\* ends, although no child task ever has to.
TurnEnds == <>(pc = "over")
=============================================================================
