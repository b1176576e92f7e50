----------------------------- MODULE Workloads -----------------------------
(***************************************************************************)
(* Deploying, tearing down and starting a run of one benchmark             *)
(* (autobench/routes/benchmarks.py, deployments.py, start_run of           *)
(* routes/runs.py).                                                        *)
(*                                                                         *)
(* A benchmark has one tool, shared by all experiments, and one agent per  *)
(* experiment.  Both live behind Rossoctl, outside the Service, which only *)
(* remembers, in memory, the LLM settings of each deployment it made.  A   *)
(* request is a coroutine that awaits one Rossoctl call at a time: between *)
(* its calls other requests run, and a call it has given up on, or that    *)
(* outlives the Service, may still be performed later.                     *)
(***************************************************************************)
EXTENDS Naturals, FiniteSets

CONSTANTS
    Experiments,   \* what requests name a deployment by: iss, agent, experiment
    Agents,        \* the names of agents
    AgentOf,       \* agent_name: [Experiments -> Agents]
    Exclusive,     \* experiments with one client, which waits for each answer
    LLMs,          \* gateway, model and key Secret of a deployment
    None,          \* absent
    NRequests,     \* bound: requests 1..NRequests are made, in this order
    MaxInFlight    \* bound: how many requests are served at once

ASSUME NoneAssumption == None \notin LLMs
ASSUME AgentOfAssumption == AgentOf \in [Experiments -> Agents]
ASSUME ExclusiveAssumption ==
    /\ Exclusive \subseteq Experiments
    /\ \A e \in Exclusive, f \in Experiments : AgentOf[f] = AgentOf[e] => f = e
ASSUME NRequestsAssumption == NRequests \in Nat /\ MaxInFlight \in Nat

Requests == 1..NRequests

VARIABLES
    tool,      \* the benchmark's tool: the LLM it was created with, or None
    agent,     \* [Agents -> the LLM the agent calls, or None]
    records,   \* DeploymentRecords: [Experiments -> LLMs or None]
    kind,      \* [Requests -> what is asked for, "none" before]
    exp,       \* [Requests -> for which experiment]
    llm,       \* [Requests -> with which LLM (deploy)]
    call,      \* [Requests -> the last call made]
    answer,    \* [Requests -> Rossoctl's answer to that call, or "none"]
    unready,   \* requests that found a workload that is not Ready
    status,    \* [Requests -> the response, "none" before]
    run,       \* [Requests -> "none", "pending" or "started"]
    label,     \* [Requests -> the record start_run read; then run.llm]
    called     \* history: what the agent that start_run found calls

cluster == <<tool, agent>>
asks == <<kind, exp, llm>>
runs == <<run, label, called>>
vars == <<cluster, records, asks, call, answer, unready, status, runs>>

Maybe == LLMs \union {None}
Calls == {"create_tool", "create_agent", "delete_agent", "delete_tool",
          "get_tool", "get_agent", "tracer"}

TypeOK ==
    /\ tool \in Maybe
    /\ agent \in [Agents -> Maybe]
    /\ records \in [Experiments -> Maybe]
    /\ kind \in [Requests -> {"none", "deploy", "teardown", "run"}]
    /\ \A r \in Requests : kind[r] # "none" => exp[r] \in Experiments
    /\ \A r \in Requests : kind[r] = "deploy" => llm[r] \in LLMs
    /\ exp \in [Requests -> Experiments \union {None}]
    /\ llm \in [Requests -> Maybe]
    /\ call \in [Requests -> Calls \union {"none"}]
    /\ answer \in [Requests -> {"none", "ok", "refused"}]
    /\ unready \subseteq Requests
    /\ status \in [Requests -> {"none", "ok", "conflict", "missing", "unready",
                                "upstream", "crashed", "lost"}]
    /\ run \in [Requests -> {"none", "pending", "started"}]
    /\ label \in [Requests -> Maybe]
    /\ called \in [Requests -> Maybe]

Init ==
    /\ tool = None
    /\ agent = [a \in Agents |-> None]
    /\ records = [e \in Experiments |-> None]
    /\ kind = [r \in Requests |-> "none"]
    /\ exp = [r \in Requests |-> None]
    /\ llm = [r \in Requests |-> None]
    /\ call = [r \in Requests |-> "none"]
    /\ answer = [r \in Requests |-> "none"]
    /\ unready = {}
    /\ status = [r \in Requests |-> "none"]
    /\ run = [r \in Requests |-> "none"]
    /\ label = [r \in Requests |-> None]
    /\ called = [r \in Requests |-> None]

InFlight == {r \in Requests : kind[r] # "none" /\ status[r] = "none"}

-----------------------------------------------------------------------------
(* Rossoctl, as src uses it: POST on an existing name is refused (409), GET *)
(* and DELETE on a missing one too (404).  A call is performed once, some   *)
(* time after it was sent, or never.                                        *)

Waits(r, c) == call[r] = c /\ answer[r] = "none"

Answers(r, found) ==
    answer' = [answer EXCEPT ![r] = IF found THEN "ok" ELSE "refused"]

Performed(r) == UNCHANGED <<records, asks, call, status, run, label>>

CreateTool(r) ==
    /\ Waits(r, "create_tool")
    /\ Answers(r, tool = None)
    /\ tool' = IF tool = None THEN llm[r] ELSE tool
    /\ UNCHANGED <<agent, unready, called>>
    /\ Performed(r)

CreateAgent(r) ==
    /\ Waits(r, "create_agent")
    /\ Answers(r, agent[AgentOf[exp[r]]] = None)
    /\ agent' = [agent EXCEPT ![AgentOf[exp[r]]] = IF @ = None THEN llm[r] ELSE @]
    /\ UNCHANGED <<tool, unready, called>>
    /\ Performed(r)

DeleteAgent(r) ==
    /\ Waits(r, "delete_agent")
    /\ Answers(r, agent[AgentOf[exp[r]]] # None)
    /\ agent' = [agent EXCEPT ![AgentOf[exp[r]]] = None]
    /\ UNCHANGED <<tool, unready, called>>
    /\ Performed(r)

DeleteTool(r) ==
    /\ Waits(r, "delete_tool")
    /\ Answers(r, tool # None)
    /\ tool' = None
    /\ UNCHANGED <<agent, unready, called>>
    /\ Performed(r)

\* What exists may or may not be Ready.  A GET nobody waits for changes nothing.
GetTool(r) ==
    /\ r \in InFlight
    /\ Waits(r, "get_tool")
    /\ Answers(r, tool # None)
    /\ unready' \in {unready, unready \union {r}}
    /\ UNCHANGED <<cluster, called>>
    /\ Performed(r)

GetAgent(r) ==
    /\ r \in InFlight
    /\ Waits(r, "get_agent")
    /\ Answers(r, agent[AgentOf[exp[r]]] # None)
    /\ unready' \in {unready, unready \union {r}}
    /\ called' = [called EXCEPT ![r] = agent[AgentOf[exp[r]]]]
    /\ UNCHANGED cluster
    /\ Performed(r)

-----------------------------------------------------------------------------
(* The handlers.                                                            *)

\* The handler of r is running and its last call c has been answered with a.
Got(r, c, a) == r \in InFlight /\ call[r] = c /\ answer[r] = a

\* The handler awaits its next call.
Awaits(r, c) ==
    /\ call' = [call EXCEPT ![r] = c]
    /\ answer' = [answer EXCEPT ![r] = "none"]

\* The handler responds.
Responds(r, s) == status' = [status EXCEPT ![r] = s]

\* Mutant: the deployment is recorded before its calls are made.
BeginDeployRecording(r, e, l) ==
    /\ kind' = [kind EXCEPT ![r] = "deploy"]
    /\ llm' = [llm EXCEPT ![r] = l]
    /\ Awaits(r, "create_tool")
    /\ records' = [records EXCEPT ![e] = l]
    /\ UNCHANGED label

\* POST /benchmarks/{name}/deploy, validated and logged in.
BeginDeploy(r, e, l) ==
    /\ kind' = [kind EXCEPT ![r] = "deploy"]
    /\ llm' = [llm EXCEPT ![r] = l]
    /\ Awaits(r, "create_tool")
    /\ UNCHANGED <<records, label>>

\* Mutant: the record is dropped by nobody.
BeginTeardownKeeping(r, e) ==
    /\ kind' = [kind EXCEPT ![r] = "teardown"]
    /\ Awaits(r, "delete_agent")
    /\ UNCHANGED <<llm, label, records>>

\* Mutant: the tool is deleted first.
BeginTeardownToolFirst(r, e) ==
    /\ kind' = [kind EXCEPT ![r] = "teardown"]
    /\ Awaits(r, "delete_tool")
    /\ records' = [records EXCEPT ![e] = None]
    /\ UNCHANGED <<llm, label>>

\* DELETE /benchmarks/{name}/deploy: what will be deleted is forgotten first.
BeginTeardown(r, e) ==
    /\ kind' = [kind EXCEPT ![r] = "teardown"]
    /\ Awaits(r, "delete_agent")
    /\ records' = [records EXCEPT ![e] = None]
    /\ UNCHANGED <<llm, label>>

\* POST /benchmarks/{name}/runs reads what was deployed, then prechecks.
BeginRun(r, e) ==
    /\ kind' = [kind EXCEPT ![r] = "run"]
    /\ Awaits(r, "get_tool")
    /\ label' = [label EXCEPT ![r] = records[e]]
    /\ UNCHANGED <<llm, records>>

\* A request arrives.
Begin(r, e) ==
    /\ kind[r] = "none"
    /\ \A q \in 1..(r - 1) : kind[q] # "none"
    /\ Cardinality(InFlight) < MaxInFlight
    /\ e \in Exclusive => \A q \in InFlight : exp[q] # e
    /\ exp' = [exp EXCEPT ![r] = e]
    /\ BeginTeardown(r, e) \/ BeginRun(r, e) \/ \E l \in LLMs : BeginDeploy(r, e, l)
    /\ UNCHANGED <<cluster, unready, status, run, called>>

DeployToolDone(r) ==
    /\ Got(r, "create_tool", "ok")
    /\ Awaits(r, "create_agent")
    /\ UNCHANGED <<cluster, records, asks, unready, status, runs>>

\* Both exist: the deployment is recorded and its settings are echoed.
DeployDone(r) ==
    /\ Got(r, "create_agent", "ok")
    /\ records' = [records EXCEPT ![exp[r]] = llm[r]]
    /\ Responds(r, "ok")
    /\ UNCHANGED <<cluster, asks, call, answer, unready, runs>>

TeardownAgentDone(r) ==
    /\ Got(r, "delete_agent", "ok")
    /\ Awaits(r, "delete_tool")
    /\ UNCHANGED <<cluster, records, asks, unready, status, runs>>

TeardownDone(r) ==
    /\ Got(r, "delete_tool", "ok")
    /\ Responds(r, "ok")
    /\ UNCHANGED <<cluster, records, asks, call, answer, unready, runs>>

\* The tool's readiness is judged together with the agent's.
PrecheckTool(r) ==
    /\ Got(r, "get_tool", "ok")
    /\ Awaits(r, "get_agent")
    /\ UNCHANGED <<cluster, records, asks, unready, status, runs>>

PrecheckUnready(r) ==
    /\ Got(r, "get_agent", "ok")
    /\ r \in unready
    /\ Responds(r, "unready")
    /\ UNCHANGED <<cluster, records, asks, call, answer, unready, runs>>

\* RunRegistry.create and run.llm, then the tracer is built.
Register(r) ==
    /\ Got(r, "get_agent", "ok")
    /\ r \notin unready
    /\ run' = [run EXCEPT ![r] = "pending"]
    /\ Awaits(r, "tracer")
    /\ UNCHANGED <<cluster, records, asks, unready, status, label, called>>

\* The tracer is built or goes without; _execute becomes a task of the run.
StartTask(r) ==
    /\ Got(r, "tracer", "none")
    /\ run' = [run EXCEPT ![r] = "started"]
    /\ Responds(r, "ok")
    /\ UNCHANGED <<cluster, records, asks, call, answer, unready, label, called>>

\* An exception that _build_run_tracer does not catch: a token endpoint that
\* answers no JSON, a malformed tracking or token URL.
TracerCrashes(r) ==
    /\ Got(r, "tracer", "none")
    /\ Responds(r, "crashed")
    /\ UNCHANGED <<cluster, records, asks, call, answer, unready, runs>>

\* A call is refused: _http_error and _workload_precheck stop the handler.
Refused(r) ==
    /\ \E c \in Calls : Got(r, c, "refused")
    /\ Responds(r, IF kind[r] = "teardown" THEN "missing" ELSE "conflict")
    /\ UNCHANGED <<cluster, records, asks, call, answer, unready, runs>>

\* A call fails, by its timeout or by an error answer, whether or not it has
\* been or will be performed.
CallFails(r) ==
    /\ \E c \in Calls \ {"tracer"} : Got(r, c, "none")
    /\ Responds(r, "upstream")
    /\ UNCHANGED <<cluster, records, asks, call, answer, unready, runs>>

\* The Service restarts: its records, runs and handlers are gone.
Restart ==
    /\ records' = [e \in Experiments |-> None]
    /\ run' = [r \in Requests |-> "none"]
    /\ status' = [r \in Requests |-> IF r \in InFlight THEN "lost" ELSE status[r]]
    /\ UNCHANGED <<cluster, asks, call, answer, unready, label, called>>

-----------------------------------------------------------------------------
Rossoctl(r) ==
    \/ CreateTool(r) \/ CreateAgent(r) \/ DeleteAgent(r) \/ DeleteTool(r)
    \/ GetTool(r) \/ GetAgent(r)

Handler(r) ==
    \/ DeployToolDone(r) \/ DeployDone(r)
    \/ TeardownAgentDone(r) \/ TeardownDone(r)
    \/ PrecheckTool(r) \/ PrecheckUnready(r) \/ Register(r)
    \/ StartTask(r) \/ TracerCrashes(r)
    \/ Refused(r) \/ CallFails(r)

Next ==
    \/ Restart
    \/ \E r \in Requests : Rossoctl(r) \/ Handler(r) \/ \E e \in Experiments : Begin(r, e)

Spec == Init /\ [][Next]_vars

-----------------------------------------------------------------------------
(* Properties.                                                              *)

\* The shared tool is the lock of a benchmark's deployments: whatever requests
\* overlap, fail or are lost, at most one agent is deployed, and always beside
\* the tool of its own deployment, with the same LLM settings.
OneDeployment ==
    \A a \in Agents :
        agent[a] # None =>
            /\ tool = agent[a]
            /\ \A b \in Agents : agent[b] # None => b = a

\* Who may act on the tool's agent next: the deploy that created the tool, the
\* agent, or the teardown that deleted the agent.
DeployHolds(r) ==
    \/ call[r] = "create_tool" /\ answer[r] = "ok"
    \/ call[r] = "create_agent" /\ answer[r] = "none"

TeardownHolds(r) ==
    \/ call[r] = "delete_agent" /\ answer[r] = "ok"
    \/ call[r] = "delete_tool" /\ answer[r] = "none"

Holds(r) == DeployHolds(r) \/ TeardownHolds(r)

\* There is one of them at most, and it keeps the tool.
OneHolder ==
    /\ \A q, r \in Requests : Holds(q) /\ Holds(r) => q = r
    /\ \A r \in Requests, a \in Agents : Holds(r) => agent[a] = None
    /\ \A r \in Requests : DeployHolds(r) => tool = llm[r]
    /\ \A r \in Requests : TeardownHolds(r) => tool # None
    /\ OneDeployment

\* Each kind of request makes its own calls.
CallsOf ==
    [none |-> {"none"},
     deploy |-> {"create_tool", "create_agent"},
     teardown |-> {"delete_agent", "delete_tool"},
     run |-> {"get_tool", "get_agent", "tracer"}]

CallsMatch ==
    \A r \in Requests :
        /\ call[r] \in CallsOf[kind[r]]
        /\ kind[r] = "none" => answer[r] = "none"

\* The inductive invariant.
WorkloadsInv == TypeOK /\ CallsMatch /\ OneHolder

\* A record never contradicts the agent it is about: "What each live
\* deployment's LLM calls go to", for an experiment with one client.
RecordTrue ==
    \A e \in Exclusive :
        records[e] # None /\ agent[AgentOf[e]] # None => agent[AgentOf[e]] = records[e]

\* A run is published with the LLM settings of the agent it found, or with
\* none ("empty rather than guessed"), for an experiment with one client.
LabelHonest ==
    \A r \in Requests :
        run[r] # "none" /\ label[r] # None /\ exp[r] \in Exclusive => called[r] = label[r]

\* "204 is success and 404 means it was already gone": when the last request
\* is a teardown with either answer, nothing is left to refuse a deploy.
TeardownLeavesNothing ==
    \A r \in Requests :
        kind[r] = "teardown" /\ status[r] \in {"ok", "missing"} /\ Cardinality(InFlight) = 0
            /\ (\A q \in Requests : q > r => kind[q] = "none")
            /\ (\A q \in Requests : \A c \in Calls \ {"tracer"} : ~Waits(q, c))
        => tool = None
=============================================================================
