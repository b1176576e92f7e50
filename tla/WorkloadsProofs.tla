-------------------------- MODULE WorkloadsProofs --------------------------
(***************************************************************************)
(* Proofs about Workloads, for all sets of experiments, agents and LLMs    *)
(* and any number of requests.                                             *)
(*                                                                         *)
(* The right to act on the tool's agent is handed on: from the deploy that *)
(* created the tool to the agent, from the agent to the teardown that      *)
(* deleted it.  It is created and ends with the tool.                      *)
(*                                                                         *)
(* On that rests what an experiment with one client relies on: its records *)
(* and the labels of its runs are about the agent that is there, although  *)
(* calls that were given up are still performed.                           *)
(***************************************************************************)
EXTENDS Workloads, TLAPS

USE NoneAssumption, AgentOfAssumption, ExclusiveAssumption
    DEF NoneAssumption, AgentOfAssumption, ExclusiveAssumption

\* Before the first request nobody holds the right.
LEMMA InitHolds == Init => WorkloadsInv
<1> SUFFICES ASSUME Init PROVE WorkloadsInv
  OBVIOUS
<1>1. TypeOK
  BY DEF Init, TypeOK, Maybe, Calls
<1>2. CallsMatch
  BY DEF Init, CallsMatch, CallsOf
<1>3. OneHolder
  BY DEF Init, OneHolder, Holds, DeployHolds, TeardownHolds, OneDeployment
<1> QED
  BY <1>1, <1>2, <1>3 DEF WorkloadsInv

-----------------------------------------------------------------------------
(* How a step can keep OneHolder.                                           *)

\* Nothing is created or deleted and nobody becomes a holder.
LEMMA NoNewHolder ==
    ASSUME OneHolder, UNCHANGED <<tool, agent>>,
           \A q \in Requests : DeployHolds(q)' => DeployHolds(q) /\ llm'[q] = llm[q],
           \A q \in Requests : TeardownHolds(q)' => TeardownHolds(q)
    PROVE OneHolder'
BY DEF OneHolder, OneDeployment, Holds

\* Only the request r is a holder after the step that was none before.
LEMMA OthersKept ==
    ASSUME TypeOK, NEW r \in Requests, NEW f,
           call' = call, llm' = llm, answer' = [answer EXCEPT ![r] = f]
    PROVE /\ \A q \in Requests : q # r => (DeployHolds(q)' <=> DeployHolds(q))
          /\ \A q \in Requests : q # r => (TeardownHolds(q)' <=> TeardownHolds(q))
          /\ answer'[r] = f
BY DEF TypeOK, DeployHolds, TeardownHolds

-----------------------------------------------------------------------------
(* Rossoctl performs a call.                                                *)

\* The tool is created where there is none: its deploy is the one holder now.
LEMMA CreateToolKeeps ==
    ASSUME WorkloadsInv, NEW r \in Requests, CreateTool(r)
    PROVE WorkloadsInv'
<1> USE DEF WorkloadsInv
<1>0. llm[r] \in LLMs /\ call[r] = "create_tool" /\ call' = call /\ llm' = llm
  BY DEF CreateTool, Waits, TypeOK, CallsMatch, CallsOf, Performed, asks
<1>1. TypeOK'
  BY <1>0 DEF TypeOK, CreateTool, Performed, Answers, asks, Maybe
<1>2. CallsMatch'
  BY <1>0 DEF TypeOK, CallsMatch, CallsOf, CreateTool, Performed, Answers, asks
<1>3. /\ \A q \in Requests : q # r => (DeployHolds(q)' <=> DeployHolds(q))
      /\ \A q \in Requests : q # r => (TeardownHolds(q)' <=> TeardownHolds(q))
      /\ answer'[r] = IF tool = None THEN "ok" ELSE "refused"
  BY <1>0, OthersKept DEF CreateTool, Answers
<1>4. CASE tool = None
  <2>1. \A q \in Requests : ~DeployHolds(q) /\ ~TeardownHolds(q)
    BY <1>4 DEF OneHolder, TypeOK, DeployHolds, TeardownHolds, CallsMatch, CallsOf
  <2>2. \A a \in Agents : agent[a] = None
    BY <1>4 DEF OneHolder, OneDeployment
  <2>3. tool' = llm[r] /\ agent' = agent /\ ~TeardownHolds(r)'
    BY <1>0, <1>4 DEF CreateTool, TeardownHolds
  <2>4. OneHolder'
    BY <1>0, <1>3, <2>1, <2>2, <2>3 DEF OneHolder, OneDeployment, Holds
  <2> QED
    BY <1>1, <1>2, <2>4
<1>5. CASE tool # None
  <2>1. ~DeployHolds(r)' /\ ~TeardownHolds(r)'
    BY <1>0, <1>3, <1>5 DEF DeployHolds, TeardownHolds
  <2>2. UNCHANGED <<tool, agent>>
    BY <1>5 DEF CreateTool
  <2>3. OneHolder'
    BY <1>0, <1>3, <2>1, <2>2, NoNewHolder
  <2> QED
    BY <1>1, <1>2, <2>3
<1> QED
  BY <1>4, <1>5

\* The deploy that holds the right passes it to the agent it creates.
LEMMA CreateAgentKeeps ==
    ASSUME WorkloadsInv, NEW r \in Requests, CreateAgent(r)
    PROVE WorkloadsInv'
<1> USE DEF WorkloadsInv
<1>0. /\ llm[r] \in LLMs /\ exp[r] \in Experiments /\ AgentOf[exp[r]] \in Agents
      /\ call[r] = "create_agent" /\ call' = call /\ llm' = llm /\ tool' = tool
      /\ DeployHolds(r)
  BY DEF CreateAgent, Waits, TypeOK, CallsMatch, CallsOf, Performed, asks, DeployHolds
<1>1. TypeOK'
  BY <1>0 DEF TypeOK, CreateAgent, Performed, Answers, asks, Maybe
<1>2. CallsMatch'
  BY <1>0 DEF TypeOK, CallsMatch, CallsOf, CreateAgent, Performed, Answers, asks
<1>3. /\ \A a \in Agents : agent[a] = None
      /\ tool = llm[r]
      /\ \A q \in Requests : q # r => ~DeployHolds(q) /\ ~TeardownHolds(q)
  BY <1>0 DEF OneHolder, Holds
<1>4. /\ \A q \in Requests : q # r => ~DeployHolds(q)' /\ ~TeardownHolds(q)'
      /\ answer'[r] = "ok"
  BY <1>0, <1>3, OthersKept DEF CreateAgent, Answers
<1>5. \A q \in Requests : ~DeployHolds(q)' /\ ~TeardownHolds(q)'
  BY <1>0, <1>4 DEF DeployHolds, TeardownHolds
<1>6. \A a \in Agents : agent'[a] = IF a = AgentOf[exp[r]] THEN llm[r] ELSE None
  BY <1>0, <1>3 DEF CreateAgent, TypeOK
<1>7. OneHolder'
  BY <1>0, <1>3, <1>5, <1>6 DEF OneHolder, OneDeployment, Holds
<1> QED
  BY <1>1, <1>2, <1>7

\* The agent passes the right to the teardown that deletes it.
LEMMA DeleteAgentKeeps ==
    ASSUME WorkloadsInv, NEW r \in Requests, DeleteAgent(r)
    PROVE WorkloadsInv'
<1> USE DEF WorkloadsInv
<1>0. /\ exp[r] \in Experiments /\ AgentOf[exp[r]] \in Agents
      /\ call[r] = "delete_agent" /\ call' = call /\ llm' = llm /\ tool' = tool
  BY DEF DeleteAgent, Waits, TypeOK, CallsMatch, CallsOf, Performed, asks
<1>1. TypeOK'
  BY <1>0 DEF TypeOK, DeleteAgent, Performed, Answers, asks, Maybe
<1>2. CallsMatch'
  BY <1>0 DEF TypeOK, CallsMatch, CallsOf, DeleteAgent, Performed, Answers, asks
<1>3. /\ \A q \in Requests : q # r => (DeployHolds(q)' <=> DeployHolds(q))
      /\ \A q \in Requests : q # r => (TeardownHolds(q)' <=> TeardownHolds(q))
      /\ answer'[r] = IF agent[AgentOf[exp[r]]] # None THEN "ok" ELSE "refused"
  BY <1>0, OthersKept DEF DeleteAgent, Answers
<1>4. CASE agent[AgentOf[exp[r]]] # None
  <2>1. \A q \in Requests : ~DeployHolds(q) /\ ~TeardownHolds(q)
    BY <1>0, <1>4 DEF OneHolder, Holds
  <2>2. tool # None /\ \A a \in Agents : agent[a] # None => a = AgentOf[exp[r]]
    BY <1>0, <1>4 DEF OneHolder, OneDeployment
  <2>3. \A a \in Agents : agent'[a] = None
    BY <1>0, <2>2 DEF DeleteAgent, TypeOK
  <2>4. ~DeployHolds(r)'
    BY <1>0 DEF DeployHolds
  <2>5. OneHolder'
    BY <1>0, <1>3, <2>1, <2>2, <2>3, <2>4 DEF OneHolder, OneDeployment, Holds
  <2> QED
    BY <1>1, <1>2, <2>5
<1>5. CASE agent[AgentOf[exp[r]]] = None
  <2>1. ~DeployHolds(r)' /\ ~TeardownHolds(r)'
    BY <1>0, <1>3, <1>5 DEF DeployHolds, TeardownHolds
  <2>2. agent' = agent
    BY <1>0, <1>5 DEF DeleteAgent, TypeOK
  <2>3. OneHolder'
    BY <1>0, <1>3, <2>1, <2>2, NoNewHolder
  <2> QED
    BY <1>1, <1>2, <2>3
<1> QED
  BY <1>4, <1>5

\* The teardown that holds the right gives it up with the tool.
LEMMA DeleteToolKeeps ==
    ASSUME WorkloadsInv, NEW r \in Requests, DeleteTool(r)
    PROVE WorkloadsInv'
<1> USE DEF WorkloadsInv
<1>0. /\ call[r] = "delete_tool" /\ call' = call /\ llm' = llm
      /\ tool' = None /\ agent' = agent /\ TeardownHolds(r)
  BY DEF DeleteTool, Waits, Performed, asks, TeardownHolds
<1>1. TypeOK'
  BY <1>0 DEF TypeOK, DeleteTool, Performed, Answers, asks, Maybe
<1>2. CallsMatch'
  BY <1>0 DEF TypeOK, CallsMatch, CallsOf, DeleteTool, Performed, Answers, asks
<1>3. /\ tool # None
      /\ \A a \in Agents : agent[a] = None
      /\ \A q \in Requests : q # r => ~DeployHolds(q) /\ ~TeardownHolds(q)
  BY <1>0 DEF OneHolder, Holds
<1>4. /\ \A q \in Requests : q # r => ~DeployHolds(q)' /\ ~TeardownHolds(q)'
      /\ answer'[r] = "ok"
  BY <1>0, <1>3, OthersKept DEF DeleteTool, Answers
<1>5. \A q \in Requests : ~DeployHolds(q)' /\ ~TeardownHolds(q)'
  BY <1>0, <1>4 DEF DeployHolds, TeardownHolds
<1>6. OneHolder'
  BY <1>0, <1>3, <1>5 DEF OneHolder, OneDeployment, Holds
<1> QED
  BY <1>1, <1>2, <1>6

\* The prechecks of a run only look.
LEMMA GetsKeep ==
    ASSUME WorkloadsInv, NEW r \in Requests, GetTool(r) \/ GetAgent(r)
    PROVE WorkloadsInv'
<1> USE DEF WorkloadsInv
<1>0. /\ exp[r] \in Experiments /\ AgentOf[exp[r]] \in Agents
      /\ call[r] \in {"get_tool", "get_agent"}
      /\ call' = call /\ llm' = llm /\ UNCHANGED <<tool, agent>>
  BY DEF GetTool, GetAgent, Waits, TypeOK, CallsMatch, CallsOf, Performed, asks, cluster
<1>1. TypeOK'
  BY <1>0 DEF TypeOK, GetTool, GetAgent, Performed, Answers, asks, cluster, Maybe
<1>2. CallsMatch'
  BY <1>0 DEF TypeOK, CallsMatch, CallsOf, GetTool, GetAgent, Performed, Answers, asks
<1>3. /\ \A q \in Requests : q # r => (DeployHolds(q)' <=> DeployHolds(q))
      /\ \A q \in Requests : q # r => (TeardownHolds(q)' <=> TeardownHolds(q))
  BY <1>0, OthersKept DEF GetTool, GetAgent, Answers
<1>4. ~DeployHolds(r)' /\ ~TeardownHolds(r)'
  BY <1>0 DEF DeployHolds, TeardownHolds
<1>5. OneHolder'
  BY <1>0, <1>3, <1>4, NoNewHolder
<1> QED
  BY <1>1, <1>2, <1>5

\* A call keeps the invariant, also when it is performed late.
LEMMA RossoctlKeeps ==
    ASSUME WorkloadsInv, NEW r \in Requests, Rossoctl(r)
    PROVE WorkloadsInv'
BY CreateToolKeeps, CreateAgentKeeps, DeleteAgentKeeps, DeleteToolKeeps, GetsKeep DEF Rossoctl

-----------------------------------------------------------------------------
(* The handlers: they hand the right on to themselves, or do not touch it.  *)

\* A handler goes on after an answer.
LEMMA HandlerKeeps ==
    ASSUME WorkloadsInv, NEW r \in Requests, Handler(r)
    PROVE WorkloadsInv'
<1> USE DEF WorkloadsInv
<1>1. CASE DeployToolDone(r)
  <2>0. call[r] = "create_tool" /\ answer[r] = "ok" /\ kind[r] = "deploy"
    BY <1>1 DEF DeployToolDone, Got, TypeOK, CallsMatch, CallsOf
  <2>1. TypeOK'
    BY <1>1 DEF TypeOK, DeployToolDone, Awaits, cluster, asks, runs, Calls
  <2>2. CallsMatch'
    BY <1>1, <2>0 DEF TypeOK, CallsMatch, CallsOf, DeployToolDone, Awaits, asks
  <2>3. OneHolder'
    BY <1>1, <2>0, NoNewHolder
       DEF TypeOK, DeployToolDone, Awaits, cluster, asks, DeployHolds, TeardownHolds
  <2> QED
    BY <2>1, <2>2, <2>3
<1>2. CASE TeardownAgentDone(r)
  <2>0. call[r] = "delete_agent" /\ answer[r] = "ok" /\ kind[r] = "teardown"
    BY <1>2 DEF TeardownAgentDone, Got, TypeOK, CallsMatch, CallsOf
  <2>1. TypeOK'
    BY <1>2 DEF TypeOK, TeardownAgentDone, Awaits, cluster, asks, runs, Calls
  <2>2. CallsMatch'
    BY <1>2, <2>0 DEF TypeOK, CallsMatch, CallsOf, TeardownAgentDone, Awaits, asks
  <2>3. OneHolder'
    BY <1>2, <2>0, NoNewHolder
       DEF TypeOK, TeardownAgentDone, Awaits, cluster, asks, DeployHolds, TeardownHolds
  <2> QED
    BY <2>1, <2>2, <2>3
<1>3. CASE PrecheckTool(r) \/ Register(r)
  <2>0. call[r] \in {"get_tool", "get_agent"} /\ kind[r] = "run"
    BY <1>3 DEF PrecheckTool, Register, Got, TypeOK, CallsMatch, CallsOf
  <2>1. TypeOK'
    BY <1>3 DEF TypeOK, PrecheckTool, Register, Awaits, cluster, asks, runs, Calls
  <2>2. CallsMatch'
    BY <1>3, <2>0 DEF TypeOK, CallsMatch, CallsOf, PrecheckTool, Register, Awaits, asks
  <2>3. OneHolder'
    BY <1>3, <2>0, NoNewHolder
       DEF TypeOK, PrecheckTool, Register, Awaits, cluster, asks, DeployHolds, TeardownHolds
  <2> QED
    BY <2>1, <2>2, <2>3
<1>4. CASE DeployDone(r)
  <2>0. llm[r] \in LLMs /\ exp[r] \in Experiments
    BY <1>4 DEF DeployDone, Got, TypeOK, CallsMatch, CallsOf
  <2>1. TypeOK'
    BY <1>4, <2>0 DEF TypeOK, DeployDone, Responds, cluster, asks, runs, Maybe
  <2>2. CallsMatch'
    BY <1>4 DEF CallsMatch, DeployDone, asks
  <2>3. OneHolder'
    BY <1>4, NoNewHolder DEF DeployDone, cluster, asks, DeployHolds, TeardownHolds
  <2> QED
    BY <2>1, <2>2, <2>3
<1>5. CASE \/ TeardownDone(r) \/ PrecheckUnready(r) \/ TracerCrashes(r)
           \/ Refused(r) \/ CallFails(r) \/ StartTask(r)
  <2>1. TypeOK'
    BY <1>5 DEF TypeOK, TeardownDone, PrecheckUnready, TracerCrashes, Refused, CallFails,
                StartTask, Responds, cluster, asks, runs
  <2>2. CallsMatch'
    BY <1>5 DEF CallsMatch, TeardownDone, PrecheckUnready, TracerCrashes, Refused,
                CallFails, StartTask, asks
  <2>3. OneHolder'
    BY <1>5, NoNewHolder
       DEF TeardownDone, PrecheckUnready, TracerCrashes, Refused, CallFails, StartTask,
           cluster, asks, DeployHolds, TeardownHolds
  <2> QED
    BY <2>1, <2>2, <2>3
<1> QED
  BY <1>1, <1>2, <1>3, <1>4, <1>5 DEF Handler

\* A request begins: it holds nothing yet.
LEMMA BeginKeeps ==
    ASSUME WorkloadsInv, NEW r \in Requests, NEW e \in Experiments, Begin(r, e)
    PROVE WorkloadsInv'
<1> USE DEF WorkloadsInv
<1>0. kind[r] = "none" /\ exp' = [exp EXCEPT ![r] = e] /\ UNCHANGED <<tool, agent>>
  BY DEF Begin, cluster
<1>1. CASE BeginTeardown(r, e)
  <2>1. TypeOK'
    BY <1>1 DEF TypeOK, Begin, BeginTeardown, Awaits, cluster, Maybe, Calls
  <2>2. CallsMatch'
    BY <1>1 DEF TypeOK, CallsMatch, CallsOf, BeginTeardown, Awaits
  <2>3. OneHolder'
    BY <1>0, <1>1, NoNewHolder DEF TypeOK, BeginTeardown, Awaits, DeployHolds, TeardownHolds
  <2> QED
    BY <2>1, <2>2, <2>3
<1>2. CASE BeginRun(r, e)
  <2>1. TypeOK'
    BY <1>2 DEF TypeOK, Begin, BeginRun, Awaits, cluster, Maybe, Calls
  <2>2. CallsMatch'
    BY <1>2 DEF TypeOK, CallsMatch, CallsOf, BeginRun, Awaits
  <2>3. OneHolder'
    BY <1>0, <1>2, NoNewHolder DEF TypeOK, BeginRun, Awaits, DeployHolds, TeardownHolds
  <2> QED
    BY <2>1, <2>2, <2>3
<1>3. ASSUME NEW l \in LLMs, BeginDeploy(r, e, l) PROVE WorkloadsInv'
  <2>1. TypeOK'
    BY <1>3 DEF TypeOK, Begin, BeginDeploy, Awaits, cluster, Maybe, Calls
  <2>2. CallsMatch'
    BY <1>3 DEF TypeOK, CallsMatch, CallsOf, BeginDeploy, Awaits
  <2>3. OneHolder'
    BY <1>0, <1>3, NoNewHolder DEF TypeOK, BeginDeploy, Awaits, DeployHolds, TeardownHolds
  <2> QED
    BY <2>1, <2>2, <2>3
<1> QED
  BY <1>1, <1>2, <1>3 DEF Begin

\* After a restart of the Service every request under way is an abandoned one.
LEMMA RestartKeeps ==
    ASSUME WorkloadsInv, Restart
    PROVE WorkloadsInv'
<1> USE DEF WorkloadsInv
<1>1. TypeOK'
  BY DEF TypeOK, Restart, cluster, asks, Maybe
<1>2. CallsMatch'
  BY DEF CallsMatch, Restart, asks
<1>3. OneHolder'
  BY NoNewHolder DEF Restart, cluster, asks, DeployHolds, TeardownHolds
<1> QED
  BY <1>1, <1>2, <1>3

-----------------------------------------------------------------------------
\* Every step keeps the invariant.
LEMMA WorkloadsStep == WorkloadsInv /\ [Next]_vars => WorkloadsInv'
<1> SUFFICES ASSUME WorkloadsInv, [Next]_vars PROVE WorkloadsInv'
  OBVIOUS
<1>1. CASE Next
  BY <1>1, RossoctlKeeps, HandlerKeeps, BeginKeeps, RestartKeeps DEF Next
<1>2. CASE UNCHANGED vars
  <2>1. TypeOK' /\ CallsMatch'
    BY <1>2 DEF WorkloadsInv, TypeOK, CallsMatch, vars, cluster, asks, runs
  <2>2. OneHolder'
    BY <1>2, NoNewHolder
       DEF WorkloadsInv, vars, cluster, asks, DeployHolds, TeardownHolds
  <2> QED
    BY <2>1, <2>2 DEF WorkloadsInv
<1> QED
  BY <1>1, <1>2

\* The inductive invariant, for any number of requests, experiments and LLMs
\* (benchmarks.py deploy_benchmark and teardown_benchmark).
THEOREM WorkloadsInvariant == Spec => []WorkloadsInv
BY InitHolds, WorkloadsStep, PTL DEF Spec

\* Whatever requests overlap, fail or are lost, at most one agent of a
\* benchmark is deployed, beside the tool of its own deployment.
THEOREM DeploymentsExclude == Spec => []OneDeployment
<1>1. WorkloadsInv => OneDeployment
  BY DEF WorkloadsInv, OneHolder
<1> QED
  BY WorkloadsInvariant, <1>1, PTL

-----------------------------------------------------------------------------
(* What an experiment with one client can rely on.                          *)

\* A teardown that was given up after it took the agent away: it holds for
\* ever, since nobody will ask for the tool's deletion.
Stuck(r) == call[r] = "delete_agent" /\ answer[r] = "ok" /\ r \notin InFlight

\* The agent of e is the one with LLM l, or none will be deployed any more.
Deployed(e, l) == agent[AgentOf[e]] = l \/ \E q \in Requests : Stuck(q)

\* What the one client of e relies on: nothing else is asked for e; a teardown
\* has forgotten the record, a run has read it; a record is of the agent; and
\* so is the deployment about to be recorded.
ClientInv(e) ==
    /\ \A q, r \in InFlight : exp[q] = e /\ exp[r] = e => q = r
    /\ \A r \in InFlight : exp[r] = e /\ kind[r] = "teardown" => records[e] = None
    /\ \A r \in InFlight : exp[r] = e /\ kind[r] = "run" => label[r] = records[e]
    /\ records[e] # None => Deployed(e, records[e])
    /\ \A r \in InFlight :
        exp[r] = e /\ call[r] = "create_agent" /\ answer[r] = "ok" => Deployed(e, llm[r])

\* The agent of the run that r starts was found.
Found(r) == call[r] = "tracer" \/ (call[r] = "get_agent" /\ answer[r] = "ok")

\* A run is registered past its prechecks, and what its label says is what the
\* agent found there calls.
LabelInv(r) ==
    /\ run[r] # "none" => call[r] = "tracer"
    /\ Found(r) /\ exp[r] \in Exclusive /\ label[r] # None => called[r] = label[r]

RecordsInv ==
    /\ WorkloadsInv
    /\ \A e \in Exclusive : ClientInv(e)
    /\ \A r \in Requests : LabelInv(r)

\* It holds before the first request.
LEMMA InitRecords == Init => RecordsInv
<1>1. Init => \A e \in Exclusive : ClientInv(e)
  BY DEF Init, ClientInv, InFlight
<1>2. Init => \A r \in Requests : LabelInv(r)
  BY DEF Init, LabelInv, Found
<1> QED
  BY <1>1, <1>2, InitHolds DEF RecordsInv

\* While a teardown is stuck nothing is deployed and nobody else holds.
LEMMA StuckHolds ==
    ASSUME OneHolder, NEW q \in Requests, Stuck(q)
    PROVE  /\ \A a \in Agents : agent[a] = None
           /\ \A r \in Requests : Holds(r) => r = q
BY DEF OneHolder, Holds, TeardownHolds, Stuck

\* What a call performed by Rossoctl leaves alone.
LEMMA RossoctlFrame ==
    ASSUME WorkloadsInv, NEW r \in Requests, Rossoctl(r)
    PROVE  /\ UNCHANGED <<records, kind, exp, llm, call, status, run, label>>
           /\ InFlight' = InFlight
           /\ answer[r] = "none"
           /\ \A q \in Requests \ {r} : answer'[q] = answer[q] /\ called'[q] = called[q]
           /\ \A q \in Requests : Stuck(q) => Stuck(q)'
<1>1. /\ UNCHANGED <<records, kind, exp, llm, call, status, run, label>>
      /\ answer[r] = "none"
      /\ \A q \in Requests \ {r} : answer'[q] = answer[q] /\ called'[q] = called[q]
  BY DEF WorkloadsInv, TypeOK, Rossoctl, CreateTool, CreateAgent, DeleteAgent, DeleteTool,
         GetTool, GetAgent, Performed, Waits, Answers, asks
<1>2. InFlight' = InFlight
  BY <1>1 DEF InFlight
<1> QED
  BY <1>1, <1>2 DEF Stuck

\* The agent of an experiment with one client appears by its own deploys ...
LEMMA CreateAgentClient ==
    ASSUME WorkloadsInv, NEW e \in Exclusive, ClientInv(e),
           NEW r \in Requests, CreateAgent(r)
    PROVE  ClientInv(e)'
<1> USE DEF WorkloadsInv
<1>1. /\ UNCHANGED <<records, kind, exp, llm, call, status, run, label>>
      /\ InFlight' = InFlight
      /\ \A q \in Requests \ {r} : answer'[q] = answer[q]
  BY RossoctlFrame DEF Rossoctl
<1>2. /\ DeployHolds(r) /\ call[r] = "create_agent"
      /\ llm[r] \in LLMs /\ exp[r] \in Experiments
  BY DEF CreateAgent, Waits, DeployHolds, TypeOK, CallsMatch, CallsOf
<1>3. /\ \A a \in Agents : agent[a] = None
      /\ \A q \in Requests : ~Stuck(q)
  BY <1>2, StuckHolds DEF OneHolder, Holds, Stuck
<1>4. \A l \in LLMs : ~Deployed(e, l)
  BY <1>3 DEF Deployed
<1>5. records[e] = None
  BY <1>4 DEF ClientInv, TypeOK, Maybe
<1>6. agent'[AgentOf[exp[r]]] = llm[r]
  BY <1>2, <1>3 DEF CreateAgent, TypeOK
<1>7. ASSUME NEW q \in InFlight, exp[q] = e, call[q] = "create_agent", answer'[q] = "ok"
      PROVE  Deployed(e, llm[q])'
  <2>1. q \in Requests /\ llm[q] \in LLMs
    BY <1>7 DEF InFlight, TypeOK, CallsMatch, CallsOf
  <2>2. q = r
    BY <1>1, <1>4, <1>7, <2>1 DEF ClientInv
  <2> QED
    BY <1>1, <1>6, <1>7, <2>2 DEF Deployed
<1> QED
  BY <1>1, <1>5, <1>7 DEF ClientInv

\* ... and disappears by its own teardowns, of which only one that was given
\* up finds the record of a later deploy.
LEMMA DeleteAgentClient ==
    ASSUME WorkloadsInv, NEW e \in Exclusive, ClientInv(e),
           NEW r \in Requests, DeleteAgent(r)
    PROVE  ClientInv(e)'
<1> USE DEF WorkloadsInv
<1>1. /\ UNCHANGED <<records, kind, exp, llm, call, status, run, label>>
      /\ InFlight' = InFlight
      /\ \A q \in Requests \ {r} : answer'[q] = answer[q]
      /\ \A q \in Requests : Stuck(q) => Stuck(q)'
  BY RossoctlFrame DEF Rossoctl
<1>2. call[r] = "delete_agent" /\ kind[r] = "teardown" /\ exp[r] \in Experiments
  BY DEF DeleteAgent, Waits, TypeOK, CallsMatch, CallsOf
<1>3. ASSUME NEW l \in Maybe, Deployed(e, l), ~Deployed(e, l)'
      PROVE  r \in InFlight /\ exp[r] = e
  <2>1. agent[AgentOf[e]] = l /\ agent'[AgentOf[e]] # l
    BY <1>1, <1>3 DEF Deployed
  <2>2. AgentOf[exp[r]] = AgentOf[e] /\ agent[AgentOf[e]] # None
    BY <1>2, <2>1 DEF DeleteAgent, TypeOK
  <2>3. exp[r] = e
    BY <1>2, <2>2
  <2>4. answer'[r] = "ok"
    BY <2>2 DEF DeleteAgent, Answers, TypeOK
  <2>5. ~Stuck(r)'
    BY <1>3 DEF Deployed
  <2> QED
    BY <1>1, <1>2, <2>3, <2>4, <2>5 DEF Stuck
<1>4. records[e] # None => Deployed(e, records[e])'
  BY <1>1, <1>2, <1>3 DEF ClientInv, TypeOK
<1>5. ASSUME NEW q \in InFlight, exp[q] = e, call[q] = "create_agent", answer'[q] = "ok"
      PROVE  Deployed(e, llm[q])'
  <2>1. q \in Requests /\ llm[q] \in Maybe /\ q # r
    BY <1>2, <1>5 DEF InFlight, TypeOK
  <2>2. Deployed(e, llm[q])
    BY <1>1, <1>5, <2>1 DEF ClientInv
  <2> QED
    BY <1>1, <1>3, <1>5, <2>1, <2>2 DEF ClientInv
<1> QED
  BY <1>1, <1>4, <1>5 DEF ClientInv

\* The other calls do not touch it.
LEMMA OtherCallsClient ==
    ASSUME WorkloadsInv, NEW e \in Exclusive, ClientInv(e), NEW r \in Requests,
           CreateTool(r) \/ DeleteTool(r) \/ GetTool(r) \/ GetAgent(r)
    PROVE  ClientInv(e)'
<1>1. /\ UNCHANGED <<records, kind, exp, llm, call, status, run, label>>
      /\ InFlight' = InFlight
      /\ \A q \in Requests \ {r} : answer'[q] = answer[q]
      /\ \A q \in Requests : Stuck(q) => Stuck(q)'
  BY RossoctlFrame DEF Rossoctl
<1>2. call[r] # "create_agent" /\ agent' = agent
  BY DEF CreateTool, DeleteTool, GetTool, GetAgent, Waits, cluster
<1>3. \A l : Deployed(e, l) => Deployed(e, l)'
  BY <1>1, <1>2 DEF Deployed
<1> QED
  BY <1>1, <1>2, <1>3 DEF ClientInv, InFlight

\* The agent a run finds is the one its label is about.
LEMMA RossoctlLabels ==
    ASSUME RecordsInv, NEW r \in Requests, Rossoctl(r), NEW q \in Requests
    PROVE  LabelInv(q)'
<1> USE DEF RecordsInv, WorkloadsInv
<1>1. /\ UNCHANGED <<records, kind, exp, llm, call, status, run, label>>
      /\ answer[r] = "none"
      /\ \A p \in Requests \ {r} : answer'[p] = answer[p] /\ called'[p] = called[p]
  BY RossoctlFrame
<1>2. CASE q # r
  BY <1>1, <1>2 DEF LabelInv, Found
<1>3. CASE q = r /\ call[r] # "get_agent"
  <2>1. call[r] # "tracer" /\ called' = called
    BY <1>3 DEF Rossoctl, CreateTool, CreateAgent, DeleteAgent, DeleteTool, GetTool,
                GetAgent, Waits
  <2> QED
    BY <1>1, <1>3, <2>1 DEF LabelInv, Found
<1>4. CASE q = r /\ call[r] = "get_agent"
  <2>1. GetAgent(r)
    BY <1>4 DEF Rossoctl, CreateTool, CreateAgent, DeleteAgent, DeleteTool, GetTool, Waits
  <2>2. /\ r \in InFlight /\ kind[r] = "run" /\ exp[r] \in Experiments
        /\ answer'[r] = "ok" => agent[AgentOf[exp[r]]] # None
        /\ called'[r] = agent[AgentOf[exp[r]]]
    BY <1>4, <2>1 DEF GetAgent, Answers, TypeOK, CallsMatch, CallsOf
  <2>3. ASSUME answer'[r] = "ok", exp[r] \in Exclusive, label[r] # None
        PROVE  called'[r] = label[r]
    <3>1. Deployed(exp[r], label[r])
      BY <2>2, <2>3 DEF ClientInv
    <3>2. \A p \in Requests : ~Stuck(p)
      BY <2>2, <2>3, StuckHolds
    <3> QED
      BY <2>2, <3>1, <3>2 DEF Deployed
  <2> QED
    BY <1>1, <1>4, <2>3 DEF LabelInv, Found
<1> QED
  BY <1>2, <1>3, <1>4

\* A handler goes on to its next call or responds: it is in flight before, and
\* nothing changes for the other requests.
LEMMA HandlerFrame ==
    ASSUME WorkloadsInv, NEW r \in Requests, Handler(r)
    PROVE  /\ r \in InFlight /\ InFlight' \subseteq InFlight
           /\ UNCHANGED <<tool, agent, kind, exp, llm, label, called>>
           /\ \A q \in Requests \ {r} :
                call'[q] = call[q] /\ answer'[q] = answer[q] /\ run'[q] = run[q]
           /\ \A q \in Requests : Stuck(q) => Stuck(q)'
<1> USE DEF WorkloadsInv
<1>1. r \in InFlight
  BY DEF Handler, DeployToolDone, DeployDone, TeardownAgentDone, TeardownDone,
         PrecheckTool, PrecheckUnready, Register, StartTask, TracerCrashes, Refused,
         CallFails, Got
<1>2. /\ UNCHANGED <<tool, agent, kind, exp, llm, label, called>>
      /\ \A q \in Requests \ {r} :
            /\ call'[q] = call[q] /\ answer'[q] = answer[q] /\ run'[q] = run[q]
            /\ status'[q] = status[q]
  <2>1. CASE DeployToolDone(r) \/ TeardownAgentDone(r) \/ PrecheckTool(r) \/ Register(r)
    BY <2>1 DEF DeployToolDone, TeardownAgentDone, PrecheckTool, Register, Awaits, TypeOK,
                cluster, asks, runs
  <2>2. CASE \/ DeployDone(r) \/ TeardownDone(r) \/ PrecheckUnready(r) \/ StartTask(r)
             \/ TracerCrashes(r) \/ Refused(r) \/ CallFails(r)
    BY <2>2 DEF DeployDone, TeardownDone, PrecheckUnready, StartTask, TracerCrashes, Refused,
                CallFails, Responds, TypeOK, cluster, asks, runs
  <2> QED
    BY <2>1, <2>2 DEF Handler
<1>3. InFlight' \subseteq InFlight
  BY <1>1, <1>2 DEF InFlight
<1> QED
  BY <1>1, <1>2, <1>3 DEF Stuck

\* Of the handlers, only a deploy's end touches a record.
LEMMA HandlerClient ==
    ASSUME WorkloadsInv, NEW e \in Exclusive, ClientInv(e), NEW r \in Requests, Handler(r)
    PROVE  ClientInv(e)'
<1> USE DEF WorkloadsInv
<1>1. /\ r \in InFlight /\ InFlight' \subseteq InFlight /\ InFlight \subseteq Requests
      /\ UNCHANGED <<tool, agent, kind, exp, llm, label, called>>
      /\ \A q \in Requests \ {r} : call'[q] = call[q] /\ answer'[q] = answer[q]
  BY HandlerFrame DEF InFlight
<1>2. \A l : Deployed(e, l) => Deployed(e, l)'
  BY HandlerFrame DEF Deployed
<1>3. CASE DeployDone(r) /\ exp[r] = e
  <2>1. records'[e] = llm[r] /\ r \notin InFlight'
    BY <1>3 DEF DeployDone, Responds, TypeOK, InFlight
  <2>2. Deployed(e, llm[r])
    BY <1>3 DEF DeployDone, Got, ClientInv
  <2>3. \A q \in InFlight' : exp[q] # e
    BY <1>1, <1>3, <2>1 DEF ClientInv
  <2> QED
    BY <1>1, <1>2, <2>1, <2>2, <2>3 DEF ClientInv
<1>4. CASE ~DeployDone(r) \/ exp[r] # e
  <2>1. records'[e] = records[e]
    BY <1>4 DEF Handler, DeployToolDone, DeployDone, TeardownAgentDone, TeardownDone,
                PrecheckTool, PrecheckUnready, Register, StartTask, TracerCrashes, Refused,
                CallFails, TypeOK
  <2>2. call'[r] = "create_agent" /\ answer'[r] = "ok" /\ r \in InFlight' =>
            call[r] = "create_agent" /\ answer[r] = "ok"
    BY DEF Handler, DeployToolDone, DeployDone, TeardownAgentDone, TeardownDone,
           PrecheckTool, PrecheckUnready, Register, StartTask, TracerCrashes, Refused,
           CallFails, Awaits, TypeOK
  <2> QED
    BY <1>1, <1>2, <2>1, <2>2 DEF ClientInv
<1> QED
  BY <1>3, <1>4

\* Register's run is one whose agent was found.
LEMMA HandlerLabels ==
    ASSUME RecordsInv, NEW r \in Requests, Handler(r), NEW q \in Requests
    PROVE  LabelInv(q)'
<1> USE DEF RecordsInv, WorkloadsInv
<1>1. /\ UNCHANGED <<exp, label, called>>
      /\ \A p \in Requests \ {r} :
            call'[p] = call[p] /\ answer'[p] = answer[p] /\ run'[p] = run[p]
  BY HandlerFrame
<1>2. CASE q # r
  BY <1>1, <1>2 DEF LabelInv, Found
<1>3. CASE q = r /\ Register(r)
  BY <1>1, <1>3 DEF Register, Got, Awaits, TypeOK, LabelInv, Found
<1>4. CASE q = r /\ StartTask(r)
  BY <1>1, <1>4 DEF StartTask, Got, TypeOK, LabelInv, Found
<1>5. CASE q = r /\ (DeployToolDone(r) \/ TeardownAgentDone(r) \/ PrecheckTool(r))
  <2>1. call'[r] # "tracer" /\ answer'[r] = "none" /\ run' = run /\ call[r] # "tracer"
    BY <1>5 DEF DeployToolDone, TeardownAgentDone, PrecheckTool, Got, Awaits, TypeOK, runs
  <2> QED
    BY <1>5, <2>1 DEF LabelInv, Found
<1>6. CASE q = r /\ (\/ DeployDone(r) \/ TeardownDone(r) \/ PrecheckUnready(r)
                     \/ TracerCrashes(r) \/ Refused(r) \/ CallFails(r))
  BY <1>1, <1>6 DEF DeployDone, TeardownDone, PrecheckUnready, TracerCrashes, Refused,
                    CallFails, LabelInv, Found, runs
<1> QED
  BY <1>2, <1>3, <1>4, <1>5, <1>6 DEF Handler

\* A request arrives: for an experiment with one client, when none is served.
LEMMA BeginClient ==
    ASSUME WorkloadsInv, NEW e \in Exclusive, ClientInv(e),
           NEW r \in Requests, NEW f \in Experiments, Begin(r, f)
    PROVE  ClientInv(e)'
<1> USE DEF WorkloadsInv
<1>1. /\ kind[r] = "none" /\ exp' = [exp EXCEPT ![r] = f]
      /\ UNCHANGED <<tool, agent, status>>
      /\ f \in Exclusive => \A q \in InFlight : exp[q] # f
      /\ \/ BeginTeardown(r, f) \/ BeginRun(r, f)
         \/ \E l \in LLMs : BeginDeploy(r, f, l)
  BY DEF Begin, cluster
<1>2. /\ \A q \in Requests \ {r} :
            /\ kind'[q] = kind[q] /\ exp'[q] = exp[q] /\ llm'[q] = llm[q]
            /\ call'[q] = call[q] /\ answer'[q] = answer[q] /\ label'[q] = label[q]
      /\ exp'[r] = f /\ answer'[r] = "none"
      /\ kind'[r] = "teardown" => records'[f] = None
      /\ kind'[r] = "run" => label'[r] = records[f] /\ records' = records
      /\ records'[e] # None => records'[e] = records[e]
      /\ f # e => records'[e] = records[e]
  BY <1>1 DEF BeginTeardown, BeginRun, BeginDeploy, Awaits, TypeOK
<1>3. InFlight' \subseteq InFlight \union {r} /\ InFlight \subseteq Requests
  BY <1>1, <1>2 DEF InFlight
<1>4. \A q \in Requests : Stuck(q) => Stuck(q)'
  <2>1. ~Stuck(r)
    BY <1>1 DEF Stuck, CallsMatch, CallsOf
  <2> QED
    BY <1>2, <1>3, <2>1 DEF Stuck
<1>5. \A l : Deployed(e, l) => Deployed(e, l)'
  BY <1>1, <1>4 DEF Deployed
<1>6. r \notin InFlight
  BY <1>1 DEF InFlight
<1>7. CASE f = e
  <2>1. \A q \in InFlight' : exp'[q] = e => q = r
    BY <1>1, <1>2, <1>3, <1>7
  <2> QED
    BY <1>2, <1>5, <1>7, <2>1 DEF ClientInv
<1>8. CASE f # e
  <2>1. \A q \in InFlight' : exp'[q] = e => q \in InFlight /\ q # r
    BY <1>2, <1>3, <1>8
  <2> QED
    BY <1>2, <1>3, <1>5, <1>8, <2>1 DEF ClientInv
<1> QED
  BY <1>7, <1>8

\* A request that arrives has no run and no agent found.
LEMMA BeginLabels ==
    ASSUME RecordsInv, NEW r \in Requests, NEW f \in Experiments, Begin(r, f),
           NEW q \in Requests
    PROVE  LabelInv(q)'
<1> USE DEF RecordsInv, WorkloadsInv
<1>1. /\ kind[r] = "none" /\ exp' = [exp EXCEPT ![r] = f] /\ UNCHANGED <<run, called>>
      /\ \/ BeginTeardown(r, f) \/ BeginRun(r, f)
         \/ \E l \in LLMs : BeginDeploy(r, f, l)
  BY DEF Begin
<1>2. /\ \A p \in Requests \ {r} :
            /\ exp'[p] = exp[p] /\ call'[p] = call[p] /\ answer'[p] = answer[p]
            /\ label'[p] = label[p]
      /\ answer'[r] = "none" /\ call'[r] # "tracer"
  BY <1>1 DEF BeginTeardown, BeginRun, BeginDeploy, Awaits, TypeOK
<1>3. run[r] = "none"
  BY <1>1 DEF LabelInv, Found, TypeOK, CallsMatch, CallsOf
<1> QED
  BY <1>1, <1>2, <1>3 DEF LabelInv, Found

\* After a restart there is no record, and nobody to rely on one.
LEMMA RestartRecords ==
    ASSUME RecordsInv, Restart
    PROVE  (\A e \in Exclusive : ClientInv(e)') /\ (\A r \in Requests : LabelInv(r)')
<1>1. InFlight' = {}
  BY DEF RecordsInv, WorkloadsInv, TypeOK, Restart, InFlight, asks
<1>2. \A e \in Exclusive : ClientInv(e)'
  BY <1>1 DEF ClientInv, Restart
<1>3. \A r \in Requests : LabelInv(r)'
  BY DEF RecordsInv, LabelInv, Found, Restart, asks
<1> QED
  BY <1>2, <1>3

\* Every step keeps what the clients rely on.
LEMMA RecordsKeep == RecordsInv /\ [Next]_vars => RecordsInv'
<1> SUFFICES ASSUME RecordsInv, [Next]_vars PROVE RecordsInv'
  OBVIOUS
<1>1. WorkloadsInv'
  BY WorkloadsStep DEF RecordsInv
<1>2. ASSUME NEW r \in Requests, Rossoctl(r) PROVE RecordsInv'
  BY <1>1, <1>2, CreateAgentClient, DeleteAgentClient, OtherCallsClient, RossoctlLabels
  DEF Rossoctl, RecordsInv
<1>3. ASSUME NEW r \in Requests, Handler(r) PROVE RecordsInv'
  BY <1>1, <1>3, HandlerClient, HandlerLabels DEF RecordsInv
<1>4. ASSUME NEW r \in Requests, NEW f \in Experiments, Begin(r, f) PROVE RecordsInv'
  BY <1>1, <1>4, BeginClient, BeginLabels DEF RecordsInv
<1>5. CASE Restart
  BY <1>1, <1>5, RestartRecords DEF RecordsInv
<1>6. CASE UNCHANGED vars
  <2>1. \A e \in Exclusive : ClientInv(e)'
    BY <1>6 DEF RecordsInv, ClientInv, Deployed, Stuck, InFlight, vars, cluster, asks, runs
  <2>2. \A r \in Requests : LabelInv(r)'
    BY <1>6 DEF RecordsInv, LabelInv, Found, vars, asks, runs
  <2> QED
    BY <1>1, <2>1, <2>2 DEF RecordsInv
<1> QED
  BY <1>2, <1>3, <1>4, <1>5, <1>6 DEF Next

\* What an experiment with one client relies on holds in every behaviour.
THEOREM RecordsInvariant == Spec => []RecordsInv
BY InitRecords, RecordsKeep, PTL DEF Spec

\* A record never contradicts the agent it is about, for an experiment with one
\* client: a late call of an earlier request cannot make it (deployments.py).
THEOREM RecordsTrue == Spec => []RecordTrue
<1>1. RecordsInv => RecordTrue
  <2> SUFFICES ASSUME RecordsInv, NEW e \in Exclusive, records[e] # None,
                      agent[AgentOf[e]] # None
               PROVE  agent[AgentOf[e]] = records[e]
    BY DEF RecordTrue
  <2>1. \A q \in Requests : ~Stuck(q)
    BY StuckHolds DEF RecordsInv, WorkloadsInv
  <2> QED
    BY <2>1 DEF RecordsInv, ClientInv, Deployed
<1> QED
  BY <1>1, RecordsInvariant, PTL

\* A run says that it called the LLM its agent calls, or says nothing, for an
\* experiment with one client (start_run reads the record before its prechecks
\* and writes run.llm after them).
THEOREM LabelsHonest == Spec => []LabelHonest
<1>1. RecordsInv => LabelHonest
  BY DEF RecordsInv, LabelInv, Found, LabelHonest
<1> QED
  BY <1>1, RecordsInvariant, PTL
=============================================================================
