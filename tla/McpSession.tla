----------------------------- MODULE McpSession -----------------------------
(***************************************************************************)
(* The MCP evaluator session that every task of one run shares             *)
(* (autobench/runner/mcp_session.py, class McpEvalSession).                *)
(*                                                                         *)
(* A tool call takes the session's asyncio.Lock, runs `call_tool` in a     *)
(* child task and waits for that child with a deadline of its own.  A      *)
(* child that outlives its deadline is cancelled and given a short grace   *)
(* to end; a child that does not end leaves an orphan on the session's     *)
(* streams, so the session is poisoned and later calls fail fast.          *)
(*                                                                         *)
(* A step is the code between two suspension points of one coroutine.      *)
(* Timers are events that may happen at any moment the timer is armed, and *)
(* a child may ignore its cancellation for ever, as the code fears of the  *)
(* SDK's reader.                                                           *)
(***************************************************************************)
EXTENDS Naturals, Sequences, SequencesExt

CONSTANTS
    Clients,     \* the coroutines that share the session: one per task
    NoClient,    \* the lock is free
    MaxCalls     \* bound: how many calls one client makes

ASSUME NoClientAssumption == NoClient \notin Clients
ASSUME MaxCallsAssumption == MaxCalls \in Nat

VARIABLES
    pc,          \* [Clients -> stage of the client's current call]
    waiters,     \* the lock's FIFO of suspended acquirers
    holder,      \* the client inside `async with self._lock`, or NoClient
    poisoned,    \* self._poisoned
    asked,       \* [Clients -> number of calls begun]
    live,        \* child tasks running call_tool on the session's streams
    strayed      \* history: live children whose reap was cut short by a cancel

vars == <<pc, waiters, holder, poisoned, asked, live, strayed>>

\* A child task: whose call it runs, and which of that client's calls.
CallId == Clients \X (0..MaxCalls)

\* The child task of the call c is making.
Child(c) == <<c, asked[c]>>

TypeOK ==
    /\ pc \in [Clients -> {"idle", "waiting", "calling", "reaping"}]
    /\ waiters \in Seq(Clients)
    /\ holder \in Clients \union {NoClient}
    /\ poisoned \in BOOLEAN
    /\ asked \in [Clients -> 0..MaxCalls]
    /\ live \subseteq CallId
    /\ strayed \subseteq CallId

Init ==
    /\ pc = [c \in Clients |-> "idle"]
    /\ waiters = <<>>
    /\ holder = NoClient
    /\ poisoned = FALSE
    /\ asked = [c \in Clients |-> 0]
    /\ live = {}
    /\ strayed = {}

-----------------------------------------------------------------------------
(* Taking the lock.  asyncio.Lock is FIFO: a new caller goes ahead only     *)
(* when nobody waits, and a released lock goes to the head of the queue.    *)

\* The lock is busy or promised: suspend at its tail.
Enqueue(c) ==
    /\ pc[c] = "idle"
    /\ asked[c] < MaxCalls
    /\ holder # NoClient \/ waiters # <<>>
    /\ pc' = [pc EXCEPT ![c] = "waiting"]
    /\ waiters' = Append(waiters, c)
    /\ asked' = [asked EXCEPT ![c] = @ + 1]
    /\ UNCHANGED <<holder, poisoned, live, strayed>>

\* Enter the lock's body without suspending.
AcquireAtOnce(c) ==
    /\ pc[c] = "idle"
    /\ asked[c] < MaxCalls
    /\ waiters = <<>>
    /\ asked' = [asked EXCEPT ![c] = @ + 1]
    /\ UNCHANGED waiters

\* Enter the lock's body as the waiter whose turn it is.
AcquireInTurn(c) ==
    /\ pc[c] = "waiting"
    /\ waiters # <<>>
    /\ Head(waiters) = c
    /\ waiters' = Tail(waiters)
    /\ UNCHANGED asked

Acquire(c) ==
    /\ holder = NoClient
    /\ AcquireAtOnce(c) \/ AcquireInTurn(c)

\* `if self._poisoned: raise`: the lock is taken and given back in one step.
FailFast(c) ==
    /\ Acquire(c)
    /\ poisoned
    /\ pc' = [pc EXCEPT ![c] = "idle"]
    /\ UNCHANGED <<holder, poisoned, live, strayed>>

\* asyncio.create_task(call_tool) and the first asyncio.wait.
StartCall(c) ==
    /\ Acquire(c)
    /\ ~poisoned
    /\ pc' = [pc EXCEPT ![c] = "calling"]
    /\ holder' = c
    /\ live' = live \union {<<c, asked'[c]>>}
    /\ UNCHANGED <<poisoned, strayed>>

\* Leave the lock's body: the call is over for its client.
Release(c) ==
    /\ pc' = [pc EXCEPT ![c] = "idle"]
    /\ holder' = NoClient
    /\ UNCHANGED <<waiters, asked, live>>

-----------------------------------------------------------------------------
(* The call in flight.                                                      *)

\* `if call in done: return call.result()`, whatever the result is.
Answer(c) ==
    /\ pc[c] = "calling"
    /\ Child(c) \notin live
    /\ Release(c)
    /\ UNCHANGED <<poisoned, strayed>>

\* The call deadline passed: call.cancel() and wait again, for the grace.
Deadline(c) ==
    /\ pc[c] = "calling"
    /\ Child(c) \in live
    /\ pc' = [pc EXCEPT ![c] = "reaping"]
    /\ UNCHANGED <<waiters, holder, poisoned, asked, live, strayed>>

\* The cancelled child ended within the grace: McpCallTimeout, not poisoned.
Reaped(c) ==
    /\ pc[c] = "reaping"
    /\ Child(c) \notin live
    /\ Release(c)
    /\ UNCHANGED <<poisoned, strayed>>

\* Mutant: the orphan is left on a session that is not poisoned.
GraceOverUnpoisoned(c) ==
    /\ pc[c] = "reaping"
    /\ Child(c) \in live
    /\ Release(c)
    /\ UNCHANGED <<poisoned, strayed>>

\* Mutant: the cancelled child is awaited (asyncio.timeout, wait_for).
GraceOverAwaitsChild(c) ==
    /\ pc[c] = "reaping"
    /\ Child(c) \notin live
    /\ Release(c)
    /\ poisoned' = TRUE
    /\ UNCHANGED strayed

\* The grace passed and the child is still there: poison, McpCallTimeout.
GraceOver(c) ==
    /\ pc[c] = "reaping"
    /\ Child(c) \in live
    /\ Release(c)
    /\ poisoned' = TRUE
    /\ UNCHANGED strayed

-----------------------------------------------------------------------------
(* Cancellation of the client from outside: its per-task timeout, or the    *)
(* cancellation of the whole run.                                           *)

\* Suspended on the lock: leave the queue, nothing was started.
CancelWaiting(c) ==
    /\ pc[c] = "waiting"
    /\ pc' = [pc EXCEPT ![c] = "idle"]
    /\ \E i \in DOMAIN waiters :
        waiters[i] = c /\ waiters' = RemoveAt(waiters, i)
    /\ UNCHANGED <<holder, poisoned, asked, live, strayed>>

\* Mutant: external cancellation does not poison.
CancelCallingUnpoisoned(c) ==
    /\ pc[c] = "calling"
    /\ Release(c)
    /\ UNCHANGED <<poisoned, strayed>>

\* In the first asyncio.wait: `except CancelledError` cancels the child,
\* poisons and raises, even when the child has just ended.
CancelCalling(c) ==
    /\ pc[c] = "calling"
    /\ Release(c)
    /\ poisoned' = TRUE
    /\ UNCHANGED strayed

\* In the second asyncio.wait, which no handler guards: the lock is given
\* back, the session is not poisoned, and the child may still be live.
CancelReaping(c) ==
    /\ pc[c] = "reaping"
    /\ Release(c)
    /\ strayed' = strayed \union ({Child(c)} \intersect live)
    /\ UNCHANGED poisoned

Cancel(c) == CancelWaiting(c) \/ CancelCalling(c) \/ CancelReaping(c)

\* A child task ends: it was answered, it failed, or it honoured a cancel.
ChildEnds(k) ==
    /\ k \in live
    /\ live' = live \ {k}
    /\ strayed' = strayed \ {k}
    /\ UNCHANGED <<pc, waiters, holder, poisoned, asked>>

-----------------------------------------------------------------------------
(* What a client does by itself once it has asked: never waits on a child.  *)
Progress(c) ==
    \/ pc[c] = "waiting" /\ (FailFast(c) \/ StartCall(c))
    \/ Answer(c)
    \/ Deadline(c)
    \/ Reaped(c)
    \/ GraceOver(c)

Next ==
    \/ \E c \in Clients :
        \/ Enqueue(c) \/ FailFast(c) \/ StartCall(c)
        \/ Answer(c) \/ Deadline(c) \/ Reaped(c) \/ GraceOver(c)
        \/ CancelWaiting(c) \/ CancelCalling(c) \/ CancelReaping(c)
    \/ \E k \in live : ChildEnds(k)

\* The event loop runs a woken coroutine and fires a due timer; nothing makes
\* a child end, a client ask, or a cancellation come.
Fairness == \A c \in Clients : WF_vars(Progress(c))

Spec == Init /\ [][Next]_vars /\ Fairness

-----------------------------------------------------------------------------
(* Properties.                                                              *)

\* The lock's body is occupied by its holder and nobody else.
LockInv ==
    \A c \in Clients : pc[c] \in {"calling", "reaping"} <=> holder = c

\* Nobody is lost and nobody waits twice: the queue lists exactly the clients
\* suspended on the lock, each once, through grants and cancellations.
QueueInv ==
    /\ \A c \in Clients :
        pc[c] = "waiting" => \E i \in 1..Len(waiters) : waiters[i] = c
    /\ \A i \in 1..Len(waiters) : pc[waiters[i]] = "waiting"
    /\ \A i, j \in 1..Len(waiters) : waiters[i] = waiters[j] => i = j

\* A live child is the holder's current call, or it is an orphan: then the
\* session is poisoned, or a cancel cut the orphan's reaping short (strayed).
OrphansPoison ==
    \A k \in live :
        \/ holder # NoClient /\ k = Child(holder)
        \/ poisoned
        \/ k \in strayed

\* While somebody is in the lock's body the session is not poisoned, so what
\* is live beside the holder's own call strayed.
HolderNotPoisoned == holder # NoClient => ~poisoned

\* Whatever is live is one call, apart from strayed ones.
OneUnstrayed == \A j, k \in live \ strayed : j = k

IInv ==
    /\ TypeOK
    /\ LockInv
    /\ QueueInv
    /\ OrphansPoison
    /\ HolderNotPoisoned
    /\ OneUnstrayed

\* "rather than let a concurrent call_tool corrupt it": two children never
\* run call_tool on the session together, unless a cancel interrupted a reap.
NoConcurrentCallTool ==
    strayed = {} => \A j, k \in live : j = k

\* Poison is for ever, and no call starts on a poisoned session: whatever is
\* on the streams from then on was there before (_call's first check).
PoisonIsFinal == [][poisoned => poisoned' /\ live' \subseteq live]_vars

\* "control always comes back and the lock is released": whoever asks for a
\* call gets out of it, even if every child ignores its cancellation for ever.
EveryCallReturns ==
    \A c \in Clients : (pc[c] # "idle") ~> (pc[c] = "idle")

=============================================================================
