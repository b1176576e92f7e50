-------------------------- MODULE McpSessionProofs --------------------------
(***************************************************************************)
(* Theorems about McpSession for every set of clients and every bound on   *)
(* their calls: the inductive invariant IInv, the serialisation of         *)
(* call_tool that follows from it, and the finality of poison.             *)
(***************************************************************************)
EXTENDS McpSession, SequenceTheorems, TLAPS

\* Taking position i out of a queue: how long the rest is, and where each of
\* its elements comes from.
LEMMA RemoveAtRest ==
    ASSUME NEW S, NEW s \in Seq(S), NEW i \in 1..Len(s)
    PROVE  /\ RemoveAt(s, i) \in Seq(S)
           /\ Len(RemoveAt(s, i)) = Len(s) - 1
           /\ \A n \in 1..(Len(s) - 1) :
                RemoveAt(s, i)[n] = IF n < i THEN s[n] ELSE s[n + 1]
  <1> DEFINE L == SubSeq(s, 1, i - 1)
             R == SubSeq(s, i + 1, Len(s))
  <1>1. Len(s) \in Nat /\ i - 1 \in 0..Len(s) /\ i + 1 \in 1..(Len(s) + 1)
    OBVIOUS
  <1>2. /\ L \in Seq(S) /\ Len(L) = i - 1
        /\ \A n \in 1..(i - 1) : L[n] = s[n]
    BY <1>1
  <1>3. /\ R \in Seq(S) /\ Len(R) = Len(s) - i
        /\ \A n \in 1..(Len(s) - i) : R[n] = s[i + n]
    BY <1>1
  <1>4. RemoveAt(s, i) = L \o R
    BY DEF RemoveAt
  <1>5. L \o R \in Seq(S) /\ Len(L \o R) = Len(s) - 1
    <2> HIDE DEF L, R
    <2>1. L \o R \in Seq(S) /\ Len(L \o R) = Len(L) + Len(R)
      BY <1>2, <1>3, ConcatProperties
    <2> QED
      BY <1>1, <1>2, <1>3, <2>1
  <1>6. ASSUME NEW n \in 1..(Len(s) - 1)
        PROVE  (L \o R)[n] = IF n < i THEN s[n] ELSE s[n + 1]
    <2> HIDE DEF L, R
    <2>1. (L \o R)[n] = IF n <= Len(L) THEN L[n] ELSE R[n - Len(L)]
      BY <1>1, <1>2, <1>3, ConcatProperties
    <2>2. CASE n < i
      BY <2>1, <2>2, <1>1, <1>2
    <2>3. CASE ~(n < i)
      <3>1. n - (i - 1) \in 1..(Len(s) - i) /\ i + (n - (i - 1)) = n + 1
        BY <2>3, <1>1
      <3> QED
        BY <3>1, <2>1, <2>3, <1>1, <1>2, <1>3
    <2> QED
      BY <2>2, <2>3
  <1> QED
    BY <1>4, <1>5, <1>6

\* The initial state satisfies the invariant.
LEMMA InitIInv == Init => IInv
  <1> SUFFICES ASSUME Init PROVE IInv
    OBVIOUS
  <1>1. TypeOK
    <2>1. <<>> \in Seq(Clients) /\ 0 \in 0..MaxCalls
      BY MaxCallsAssumption DEF MaxCallsAssumption
    <2> QED
      BY <2>1 DEF Init, TypeOK
  <1>2. LockInv
    BY NoClientAssumption DEF Init, LockInv, NoClientAssumption
  <1>3. QueueInv
    BY DEF Init, QueueInv
  <1>4. OrphansPoison /\ HolderNotPoisoned /\ OneUnstrayed
    BY DEF Init, OrphansPoison, HolderNotPoisoned, OneUnstrayed
  <1> QED
    BY <1>1, <1>2, <1>3, <1>4 DEF IInv

\* Every step keeps the types of the session's state.
LEMMA TypeStep == TypeOK /\ [Next]_vars => TypeOK'
  <1> SUFFICES ASSUME TypeOK, [Next]_vars PROVE TypeOK'
    OBVIOUS
  <1> USE NoClientAssumption, MaxCallsAssumption DEF TypeOK, CallId, Child
  <1>1. ASSUME NEW c \in Clients, Enqueue(c) PROVE TypeOK'
    BY <1>1 DEF Enqueue
  <1>2. ASSUME NEW c \in Clients, Acquire(c)
        PROVE  waiters' \in Seq(Clients) /\ asked' \in [Clients -> 0..MaxCalls]
    <2>1. CASE AcquireAtOnce(c)
      <3>1. asked[c] + 1 \in 0..MaxCalls
        BY <2>1 DEF AcquireAtOnce, MaxCallsAssumption
      <3> QED
        BY <2>1, <3>1 DEF AcquireAtOnce
    <2>2. CASE AcquireInTurn(c)
      BY <2>2, HeadTailProperties DEF AcquireInTurn
    <2> QED
      BY <1>2, <2>1, <2>2 DEF Acquire
  <1>3. ASSUME NEW c \in Clients, FailFast(c) PROVE TypeOK'
    BY <1>2, <1>3 DEF FailFast
  <1>4. ASSUME NEW c \in Clients, StartCall(c) PROVE TypeOK'
    <2>1. waiters' \in Seq(Clients) /\ asked' \in [Clients -> 0..MaxCalls]
      BY <1>2, <1>4 DEF StartCall
    <2>2. <<c, asked'[c]>> \in CallId
      BY <2>1
    <2> QED
      BY <1>4, <2>1, <2>2 DEF StartCall
  <1>5. ASSUME NEW c \in Clients, Answer(c) \/ Reaped(c) \/ GraceOver(c)
        PROVE TypeOK'
    BY <1>5 DEF Answer, Reaped, GraceOver, Release
  <1>6. ASSUME NEW c \in Clients, Deadline(c) PROVE TypeOK'
    BY <1>6 DEF Deadline
  <1>7. ASSUME NEW c \in Clients, CancelWaiting(c) PROVE TypeOK'
    BY <1>7, RemoveAtRest DEF CancelWaiting
  <1>8. ASSUME NEW c \in Clients, CancelCalling(c) \/ CancelReaping(c)
        PROVE TypeOK'
    BY <1>8 DEF CancelCalling, CancelReaping, Release
  <1>9. ASSUME NEW k \in live, ChildEnds(k) PROVE TypeOK'
    BY <1>9 DEF ChildEnds
  <1>10. CASE UNCHANGED vars
    BY <1>10 DEF vars
  <1> QED
    BY <1>1, <1>3, <1>4, <1>5, <1>6, <1>7, <1>8, <1>9, <1>10 DEF Next

\* Every step keeps the lock's body occupied by its holder alone.
LEMMA LockStep == TypeOK /\ LockInv /\ [Next]_vars => LockInv'
  <1> SUFFICES ASSUME TypeOK, LockInv, [Next]_vars PROVE LockInv'
    OBVIOUS
  <1> USE NoClientAssumption DEF TypeOK, LockInv, NoClientAssumption
  <1>1. ASSUME NEW c \in Clients, Enqueue(c) PROVE LockInv'
    BY <1>1 DEF Enqueue
  <1>2. ASSUME NEW c \in Clients, FailFast(c) PROVE LockInv'
    BY <1>2 DEF FailFast, Acquire
  <1>3. ASSUME NEW c \in Clients, StartCall(c) PROVE LockInv'
    BY <1>3 DEF StartCall, Acquire
  <1>4. ASSUME NEW c \in Clients, Release(c), holder = c PROVE LockInv'
    BY <1>4 DEF Release
  <1>5. ASSUME NEW c \in Clients,
               \/ Answer(c) \/ Reaped(c) \/ GraceOver(c)
               \/ CancelCalling(c) \/ CancelReaping(c)
        PROVE  LockInv'
    BY <1>4, <1>5
    DEF Answer, Reaped, GraceOver, CancelCalling, CancelReaping
  <1>6. ASSUME NEW c \in Clients, Deadline(c) PROVE LockInv'
    BY <1>6 DEF Deadline
  <1>7. ASSUME NEW c \in Clients, CancelWaiting(c) PROVE LockInv'
    BY <1>7 DEF CancelWaiting
  <1>8. ASSUME NEW k \in live, ChildEnds(k) PROVE LockInv'
    BY <1>8 DEF ChildEnds
  <1>9. CASE UNCHANGED vars
    BY <1>9 DEF vars
  <1> QED
    BY <1>1, <1>2, <1>3, <1>5, <1>6, <1>7, <1>8, <1>9 DEF Next

\* Every step keeps the queue the exact list of the suspended clients.
LEMMA QueueStep == TypeOK /\ QueueInv /\ [Next]_vars => QueueInv'
  <1> SUFFICES ASSUME TypeOK, QueueInv, [Next]_vars PROVE QueueInv'
    OBVIOUS
  <1> USE DEF TypeOK, QueueInv
  <1>1. ASSUME NEW c \in Clients, Enqueue(c) PROVE QueueInv'
    <2>1. /\ Len(waiters') = Len(waiters) + 1
          /\ waiters'[Len(waiters) + 1] = c
          /\ \A i \in 1..Len(waiters) : waiters'[i] = waiters[i]
      BY <1>1 DEF Enqueue
    <2>2. \A i \in 1..Len(waiters) : waiters[i] # c
      BY <1>1 DEF Enqueue
    <2> QED
      BY <1>1, <2>1, <2>2 DEF Enqueue
  <1>2. ASSUME NEW c \in Clients, AcquireAtOnce(c), pc' = [pc EXCEPT ![c] = "idle"]
                                              \/ pc' = [pc EXCEPT ![c] = "calling"]
        PROVE  QueueInv'
    BY <1>2 DEF AcquireAtOnce
  <1>3. ASSUME NEW c \in Clients, AcquireInTurn(c), pc' = [pc EXCEPT ![c] = "idle"]
                                              \/ pc' = [pc EXCEPT ![c] = "calling"]
        PROVE  QueueInv'
    <2>1. /\ Len(waiters') = Len(waiters) - 1
          /\ waiters[1] = c
          /\ \A i \in 1..Len(waiters') : waiters'[i] = waiters[i + 1]
          /\ Len(waiters) \in Nat \ {0}
      BY <1>3 DEF AcquireInTurn
    <2>2. ASSUME NEW d \in Clients, pc'[d] = "waiting"
          PROVE  \E i \in 1..Len(waiters') : waiters'[i] = d
      <3>1. PICK i \in 1..Len(waiters) : waiters[i] = d
        BY <1>3, <2>2
      <3>2. i # 1
        BY <1>3, <2>1, <2>2, <3>1
      <3>3. i - 1 \in 1..Len(waiters') /\ (i - 1) + 1 = i
        BY <2>1, <3>2
      <3>4. waiters'[i - 1] = d
        BY <2>1, <3>1, <3>3
      <3> QED
        BY <3>3, <3>4
    <2>3. ASSUME NEW i \in 1..Len(waiters') PROVE pc'[waiters'[i]] = "waiting"
      <3>1. i + 1 \in 1..Len(waiters) /\ waiters[i + 1] # c
        BY <2>1
      <3> QED
        BY <1>3, <2>1, <3>1
    <2>4. ASSUME NEW i \in 1..Len(waiters'), NEW j \in 1..Len(waiters'),
                 waiters'[i] = waiters'[j]
          PROVE  i = j
      <3>1. i + 1 \in 1..Len(waiters) /\ j + 1 \in 1..Len(waiters)
        BY <2>1
      <3>2. waiters[i + 1] = waiters[j + 1]
        BY <2>1, <2>4
      <3>3. i + 1 = j + 1
        BY <3>1, <3>2
      <3> QED
        BY <3>1, <3>3
    <2> QED
      BY <2>2, <2>3, <2>4
  <1>4. ASSUME NEW c \in Clients, FailFast(c) \/ StartCall(c) PROVE QueueInv'
    BY <1>2, <1>3, <1>4 DEF FailFast, StartCall, Acquire
  <1>5. ASSUME NEW c \in Clients, CancelWaiting(c) PROVE QueueInv'
    <2>1. PICK r \in 1..Len(waiters) :
            waiters[r] = c /\ waiters' = RemoveAt(waiters, r)
      BY <1>5 DEF CancelWaiting
    <2>2. /\ Len(waiters) \in Nat
          /\ Len(waiters') = Len(waiters) - 1
          /\ \A n \in 1..(Len(waiters) - 1) :
                waiters'[n] = IF n < r THEN waiters[n] ELSE waiters[n + 1]
      <3>1. waiters \in Seq(Clients)
        OBVIOUS
      <3> QED
        BY ONLY <2>1, <3>1, RemoveAtRest, LenProperties
    <2>3. pc' = [pc EXCEPT ![c] = "idle"]
      BY <1>5 DEF CancelWaiting
    <2> DEFINE From(n) == IF n < r THEN n ELSE n + 1
    <2>a. \A n \in 1..Len(waiters') :
            From(n) \in 1..Len(waiters) /\ From(n) # r
              /\ waiters'[n] = waiters[From(n)]
      BY <2>2
    <2>b. \A o \in 1..Len(waiters) :
            o # r => \E n \in 1..Len(waiters') : From(n) = o
      <3> SUFFICES ASSUME NEW o \in 1..Len(waiters), o # r
                   PROVE  \E n \in 1..Len(waiters') : From(n) = o
        OBVIOUS
      <3>1. CASE o < r
        <4>1. o \in 1..Len(waiters') /\ From(o) = o
          BY <2>2, <3>1
        <4> QED
          BY <4>1
      <3>2. CASE ~(o < r)
        <4>1. o - 1 \in 1..Len(waiters') /\ From(o - 1) = o
          BY <2>2, <3>2
        <4> QED
          BY <4>1
      <3> QED
        BY <3>1, <3>2
    <2>4. ASSUME NEW d \in Clients, pc'[d] = "waiting"
          PROVE  \E i \in 1..Len(waiters') : waiters'[i] = d
      <3>1. PICK o \in 1..Len(waiters) : waiters[o] = d
        BY <2>3, <2>4
      <3>2. o # r
        BY <2>1, <2>3, <2>4, <3>1
      <3>3. PICK n \in 1..Len(waiters') : From(n) = o
        BY <2>b, <3>2
      <3> QED
        BY <2>a, <3>1, <3>3
    <2>5. ASSUME NEW i \in 1..Len(waiters') PROVE pc'[waiters'[i]] = "waiting"
      <3>1. waiters[From(i)] # c /\ pc[waiters[From(i)]] = "waiting"
              /\ waiters[From(i)] \in Clients
        BY <2>1, <2>a
      <3> QED
        BY <2>3, <2>a, <3>1
    <2>6. ASSUME NEW i \in 1..Len(waiters'), NEW j \in 1..Len(waiters'),
                 waiters'[i] = waiters'[j]
          PROVE  i = j
      <3>1. /\ From(i) \in 1..Len(waiters) /\ From(j) \in 1..Len(waiters)
            /\ waiters[From(i)] = waiters[From(j)]
        BY <2>6, <2>a
      <3>2. From(i) = From(j)
        <4> HIDE DEF From
        <4> QED
          BY <3>1
      <3> QED
        BY <2>2, <3>2
    <2> QED
      BY <2>4, <2>5, <2>6
  <1>6. ASSUME NEW c \in Clients,
               UNCHANGED waiters, pc[c] # "waiting",
               \/ pc' = [pc EXCEPT ![c] = "idle"]
               \/ pc' = [pc EXCEPT ![c] = "reaping"]
        PROVE  QueueInv'
    <2>1. \A i \in 1..Len(waiters) : waiters[i] \in Clients /\ waiters[i] # c
      BY <1>6
    <2>2. \A d \in Clients :
            /\ pc'[d] = "waiting" => pc[d] = "waiting"
            /\ d # c => pc'[d] = pc[d]
      BY <1>6
    <2> QED
      BY <1>6, <2>1, <2>2
  <1>7. ASSUME NEW c \in Clients,
               \/ Answer(c) \/ Deadline(c) \/ Reaped(c) \/ GraceOver(c)
               \/ CancelCalling(c) \/ CancelReaping(c)
        PROVE  QueueInv'
    BY <1>6, <1>7 DEF Answer, Deadline, Reaped, GraceOver, CancelCalling,
                      CancelReaping, Release
  <1>8. ASSUME NEW k \in live, ChildEnds(k) PROVE QueueInv'
    BY <1>8 DEF ChildEnds
  <1>9. CASE UNCHANGED vars
    BY <1>9 DEF vars
  <1> QED
    BY <1>1, <1>4, <1>5, <1>7, <1>8, <1>9 DEF Next

\* The part of the invariant about what is live on the streams.
StreamInv == OrphansPoison /\ HolderNotPoisoned /\ OneUnstrayed

\* Every step keeps the account of the live calls: a call starts only when no
\* orphan is left, and whoever leaves a call alive poisons or strays it.
LEMMA StreamStep ==
    TypeOK /\ LockInv /\ StreamInv /\ [Next]_vars => StreamInv'
  <1> SUFFICES ASSUME TypeOK, LockInv, StreamInv, [Next]_vars
               PROVE  StreamInv'
    OBVIOUS
  <1> USE NoClientAssumption
      DEF TypeOK, LockInv, StreamInv, OrphansPoison, HolderNotPoisoned,
          OneUnstrayed, NoClientAssumption
  <1>1. ASSUME NEW c \in Clients, Enqueue(c) PROVE StreamInv'
    <2>1. holder # NoClient => asked'[holder] = asked[holder]
      BY <1>1 DEF Enqueue
    <2> QED
      BY <1>1, <2>1 DEF Enqueue, Child
  <1>2. ASSUME NEW c \in Clients, FailFast(c) PROVE StreamInv'
    BY <1>2 DEF FailFast, Acquire
  <1>3. ASSUME NEW c \in Clients, StartCall(c) PROVE StreamInv'
    <2>1. live \subseteq strayed
      BY <1>3 DEF StartCall, Acquire
    <2>2. /\ holder' = c /\ live' = live \union {<<c, asked'[c]>>}
          /\ ~poisoned' /\ strayed' = strayed
      BY <1>3 DEF StartCall
    <2>3. <<c, asked'[c]>> = Child(holder)'
      BY <2>2 DEF Child
    <2>4. \A k \in live' : k = Child(holder)' \/ k \in strayed'
      BY <2>1, <2>2, <2>3
    <2>5. c # NoClient
      OBVIOUS
    <2>6. OrphansPoison' /\ OneUnstrayed'
      BY <2>2, <2>4, <2>5
    <2> QED
      BY <2>2, <2>6
  <1>4. ASSUME NEW c \in Clients, Answer(c) \/ Reaped(c) PROVE StreamInv'
    <2>1. holder = c /\ Child(c) \notin live /\ holder' = NoClient
      BY <1>4 DEF Answer, Reaped, Release
    <2> QED
      BY <1>4, <2>1 DEF Answer, Reaped, Release
  <1>5. ASSUME NEW c \in Clients, Deadline(c) PROVE StreamInv'
    BY <1>5 DEF Deadline, Child
  <1>6. ASSUME NEW c \in Clients, GraceOver(c) \/ CancelCalling(c)
        PROVE  StreamInv'
    BY <1>6 DEF GraceOver, CancelCalling, Release
  <1>7. ASSUME NEW c \in Clients, CancelWaiting(c) PROVE StreamInv'
    BY <1>7 DEF CancelWaiting, Child
  <1>8. ASSUME NEW c \in Clients, CancelReaping(c) PROVE StreamInv'
    <2>1. holder = c /\ holder' = NoClient /\ live' = live /\ poisoned' = poisoned
      BY <1>8 DEF CancelReaping, Release
    <2>2. strayed' = strayed \union ({Child(c)} \intersect live)
      BY <1>8 DEF CancelReaping
    <2>3. c # NoClient
      OBVIOUS
    <2>4. OrphansPoison'
      BY <2>1, <2>2
    <2>5. OneUnstrayed'
      BY <2>1, <2>2
    <2> QED
      BY <2>1, <2>4, <2>5
  <1>9. ASSUME NEW k \in live, ChildEnds(k) PROVE StreamInv'
    BY <1>9 DEF ChildEnds, Child
  <1>10. CASE UNCHANGED vars
    BY <1>10 DEF vars, Child
  <1> QED
    BY <1>1, <1>2, <1>3, <1>4, <1>5, <1>6, <1>7, <1>8, <1>9, <1>10 DEF Next

\* The inductive invariant holds in every behaviour: types, one client in the
\* lock's body, the exact queue, and the account of every live call.
THEOREM SessionInvariant == Spec => []IInv
  <1>1. Init => IInv
    BY InitIInv
  <1>2. IInv /\ [Next]_vars => IInv'
    BY TypeStep, LockStep, QueueStep, StreamStep DEF IInv, StreamInv
  <1> QED
    BY <1>1, <1>2, PTL DEF Spec

\* call_tool is serialised on the shared session: as long as no cancel cut a
\* reap short (strayed is empty), at most one child is live on its streams.
THEOREM CallsSerialised == Spec => []NoConcurrentCallTool
  <1>1. IInv => NoConcurrentCallTool
    BY DEF IInv, OneUnstrayed, NoConcurrentCallTool
  <1> QED
    BY <1>1, SessionInvariant, PTL

\* Every orphan is accounted for: a live call that nobody waits for either
\* left the session poisoned or was left by a cancel during its reaping.
THEOREM OrphansAccounted == Spec => []OrphansPoison
  <1>1. IInv => OrphansPoison
    BY DEF IInv
  <1> QED
    BY <1>1, SessionInvariant, PTL

\* Once poisoned, always poisoned, and nothing new reaches the streams.
THEOREM PoisonFinal == Spec => PoisonIsFinal
  <1>1. ASSUME [Next]_vars PROVE [poisoned => poisoned' /\ live' \subseteq live]_vars
    <2> SUFFICES ASSUME Next, poisoned PROVE poisoned' /\ live' \subseteq live
      BY <1>1
    <2>1. ASSUME NEW c \in Clients,
                 \/ Enqueue(c) \/ FailFast(c) \/ StartCall(c)
                 \/ Deadline(c) \/ CancelWaiting(c)
          PROVE  poisoned' /\ live' \subseteq live
      BY <2>1 DEF Enqueue, FailFast, StartCall, Deadline, CancelWaiting
    <2>2. ASSUME NEW c \in Clients,
                 \/ Answer(c) \/ Reaped(c) \/ GraceOver(c)
                 \/ CancelCalling(c) \/ CancelReaping(c)
          PROVE  poisoned' /\ live' \subseteq live
      BY <2>2 DEF Answer, Reaped, GraceOver, CancelCalling, CancelReaping,
                  Release
    <2>3. ASSUME NEW k \in live, ChildEnds(k)
          PROVE  poisoned' /\ live' \subseteq live
      BY <2>3 DEF ChildEnds
    <2> QED
      BY <2>1, <2>2, <2>3 DEF Next
  <1> QED
    BY <1>1, PTL DEF Spec, PoisonIsFinal
=============================================================================
