------------------------------- MODULE Matrix -------------------------------
(***************************************************************************)
(* The Service's clients: the matrix driver (reference/run-12.py), which   *)
(* takes one leg after another, and `autobench-cli all` (autobench/cli.py),*)
(* which takes one.  A leg deletes the deployment, deploys, waits until it *)
(* is ready and stays so, starts a run and follows it to its end.          *)
(*                                                                         *)
(* The legs are of one benchmark: others have a deployment of their own    *)
(* and only take time.  The Service serves a request step by step, as in   *)
(* Workloads, also when its client no longer waits for the answer.         *)
(***************************************************************************)
EXTENDS Naturals, Sequences

CONSTANTS
    LLMs,         \* what a deployment's agent calls: a gateway with a model,
                  \* no two on one gateway, since only that is in the echo
    Instance,     \* the one of them deployed when a leg names none
    NoLLM,        \* absent; as a leg: no deploy_body, the deployment is reused
    SpecFiles,    \* sequences of legs, each an LLM or NoLLM
    Attempts,     \* teardown(attempts): 3
    RunAttempts,  \* POST /runs while it answers 424: 6
    StablePolls,  \* BM_STABLE_POLLS, --stable: 4
    Gap,          \* BM_CACHE_GAP, in ticks, the time a gateway caches answers
    MaxFlaps,     \* bound: how often a new agent is ready and crashes again
    MaxLost       \* bound: answers that are lost, all in all. With two, a
                  \* teardown and a deploy nobody waits for, performed late,
                  \* can replace a leg's deployment when it is ready

ASSUME InstanceAssumption == Instance \in LLMs /\ NoLLM \notin LLMs
ASSUME PlansAssumption == \A p \in SpecFiles : p \in Seq(LLMs \union {NoLLM}) /\ p # <<>>
ASSUME BoundsAssumption ==
    /\ {Attempts, RunAttempts, StablePolls} \subseteq Nat \ {0}
    /\ {Gap, MaxFlaps, MaxLost} \subseteq Nat

VARIABLES
    plan,      \* the legs, in order
    cli,       \* is the client the command line's, which takes the first leg?
    honours,   \* does the Service know the llm_* fields of a deploy?
    mirrored,  \* does MIRROR exist, where the driver writes its results?
    leg,       \* the leg at hand
    place,     \* what the client is doing for it
    tries,     \* attempts made of the request at hand
    again,     \* has the leg's deploy been retried?
    stable,    \* consecutive polls that found both workloads ready
    since,     \* last_finish: [LLMs -> ticks since a leg of this cache group]
    rec,       \* [legs -> the status recorded, "none" before]
    reply,     \* the answer to the request at hand, or "none"
    jobs,      \* requests the Service is serving
    lost,      \* how many answers have been lost
    tool,      \* the LLM the benchmark's tool was created with, or NoLLM
    agent,     \* the LLM the agent calls, or NoLLM
    flaps,     \* how often the agent will still crash
    down,      \* has it crashed?  Then the client's next reading finds it so
    streak,    \* readings that found it ready since, while it still will crash
    runs,      \* [legs -> state of its run, "none" before]
    ran,       \* [legs -> the LLM of the agent its run found]
    count,     \* [legs -> runs started for it]
    exported,  \* legs whose run has its artifacts
    quiet      \* [LLMs -> ticks since a run last called it]

client == <<leg, place, tries, again, stable, since, rec>>
wire == <<reply, jobs, lost>>
health == <<flaps, down, streak>>
cluster == <<tool, agent, health>>
service == <<runs, ran, count, exported>>
matrixVars == <<plan, cli, honours, mirrored, client, wire, cluster, service, quiet>>

Legs == DOMAIN plan
Deploys(k) == plan[k] # NoLLM
\* What the Service deploys for leg k: one that predates llm_* ignores them.
Enacted(k) == IF honours THEN plan[k] ELSE Instance
\* cache_group, of the benchmark at hand.
Group(k) == IF Deploys(k) THEN plan[k] ELSE Instance
Elapsed(n) == IF n < Gap THEN n + 1 ELSE Gap
Verdicts == {"succeeded", "failed"}

MatrixTypeOK ==
    /\ plan \in SpecFiles /\ {cli, honours, mirrored} \subseteq BOOLEAN
    /\ leg \in Legs
    /\ place \in {"rest", "teardown", "deploy", "ready", "warm", "run", "watch",
               "artifacts", "cleanup", "over", "aborted"}
    /\ tries \in 0..(Attempts + RunAttempts) /\ again \in BOOLEAN /\ stable \in 0..StablePolls
    /\ since \in [LLMs -> 0..Gap] /\ quiet \in [LLMs -> 0..Gap]
    /\ rec \in [Legs -> Verdicts \union {"none", "deploy_failed", "run_rejected", "open",
                                         "driver_exception"}]
    /\ reply \in {"none", "done", "missing", "conflict", "unready", "upstream"}
    /\ jobs \subseteq [op : {"teardown", "deploy", "run"}, leg : Legs, did : 0..1,
                       heard : BOOLEAN, no : Nat]
    /\ lost \in 0..MaxLost
    /\ {tool, agent} \subseteq LLMs \union {NoLLM}
    /\ flaps \in 0..MaxFlaps /\ down \in BOOLEAN /\ streak \in 0..(StablePolls - 1)
    /\ runs \in [Legs -> Verdicts \union {"none", "running"}]
    /\ ran \in [Legs -> LLMs \union {NoLLM}] /\ count \in [Legs -> Nat]
    /\ exported \subseteq Legs

\* A deployment, or half of one, may be left from before.
MatrixInit ==
    /\ plan \in SpecFiles /\ cli \in BOOLEAN /\ honours \in BOOLEAN /\ mirrored \in BOOLEAN
    /\ leg = 1 /\ place = "rest" /\ tries = 0 /\ again = FALSE /\ stable = 0
    /\ since = [l \in LLMs |-> Gap] /\ quiet = since
    /\ rec = [k \in Legs |-> "none"]
    /\ reply = "none" /\ jobs = {} /\ lost = 0
    /\ tool \in {NoLLM, Instance}
    /\ agent \in {NoLLM, tool}
    /\ flaps = 0 /\ down = FALSE /\ streak = 0
    /\ runs = rec /\ ran = [k \in Legs |-> NoLLM] /\ count = [k \in Legs |-> 0]
    /\ exported = {}

-----------------------------------------------------------------------------
\* The Service.

Becomes(j, more) == jobs' = (jobs \ {j}) \union more
Answers(j, r) == Becomes(j, {}) /\ reply' = IF j.heard THEN r ELSE reply
GoesOn(j) == Becomes(j, {[j EXCEPT !.did = 1]}) /\ UNCHANGED reply

\* DELETE .../deploy: the agent, then the tool.
DeleteAgent(j) ==
    /\ j.op = "teardown" /\ j.did = 0
    /\ agent' = NoLLM
    /\ IF agent = NoLLM THEN Answers(j, "missing") ELSE GoesOn(j)
    /\ UNCHANGED <<tool, health, service>>

DeleteTool(j) ==
    /\ j.op = "teardown" /\ j.did = 1
    /\ tool' = NoLLM
    /\ Answers(j, IF tool = NoLLM THEN "missing" ELSE "done")
    /\ UNCHANGED <<agent, health, service>>

\* POST .../deploy: the tool, then the agent.
CreateTool(j) ==
    /\ j.op = "deploy" /\ j.did = 0
    /\ IF tool = NoLLM
       THEN tool' = Enacted(j.leg) /\ GoesOn(j)
       ELSE Answers(j, "conflict") /\ UNCHANGED tool
    /\ UNCHANGED <<agent, health, service>>

\* An agent that does not find its tool serving exits, more than once perhaps.
CreateAgent(j) ==
    /\ j.op = "deploy" /\ j.did = 1
    /\ IF agent = NoLLM
       THEN /\ agent' = Enacted(j.leg)
            /\ flaps' \in 0..MaxFlaps /\ down' = FALSE /\ streak' = 0
            /\ Answers(j, "done")
       ELSE Answers(j, "conflict") /\ UNCHANGED <<agent, health>>
    /\ UNCHANGED <<tool, service>>

Missing == tool = NoLLM \/ agent = NoLLM

\* A client finds the agent crashed; by its next reading it may be back.
FoundDown ==
    /\ down
    /\ UNCHANGED streak
    /\ \/ UNCHANGED <<flaps, down>>
       \/ flaps' = flaps - 1 /\ down' = FALSE

\* POST .../runs: the tool and the agent are there, and ready.
Precheck(j) ==
    /\ j.op = "run"
    /\ \/ Missing /\ Answers(j, "conflict") /\ UNCHANGED health
       \/ /\ ~Missing /\ down /\ Answers(j, "unready")
          /\ IF j.heard THEN FoundDown ELSE UNCHANGED health
    /\ UNCHANGED <<tool, agent, service>>

Accept(j) ==
    /\ j.op = "run" /\ ~Missing /\ ~down
    /\ runs' = [runs EXCEPT ![j.leg] = "running"]
    /\ ran' = [ran EXCEPT ![j.leg] = agent]
    /\ count' = [count EXCEPT ![j.leg] = @ + 1]
    /\ Answers(j, "done")
    /\ UNCHANGED <<cluster, exported>>

\* A call to Rossoctl, or the login before, fails.  One that is performed all
\* the same, only its answer lost, is a ProxyTimeout: the client has its 502,
\* and the request performs the call some time and goes no further.
Upstream(j) == Answers(j, "upstream") /\ UNCHANGED <<cluster, service>>

Serve(j) ==
    /\ \/ DeleteAgent(j) \/ DeleteTool(j) \/ CreateTool(j) \/ CreateAgent(j)
       \/ Precheck(j) \/ Accept(j) \/ Upstream(j)
    /\ quiet' = [l \in LLMs |-> IF ran' # ran /\ ran'[j.leg] = l THEN 0 ELSE quiet[l]]
    /\ UNCHANGED <<plan, cli, honours, mirrored, client, lost>>

\* A run ends, and may fail as late as during its flush; then it is exported.
RunEnds(k) ==
    /\ runs[k] \in {"running", "succeeded"} /\ k \notin exported
    /\ \/ runs' = [runs EXCEPT ![k] = "failed"]
       \/ runs[k] = "running" /\ runs' = [runs EXCEPT ![k] = "succeeded"]
    /\ UNCHANGED <<plan, cli, honours, mirrored, client, wire, cluster, ran, count, exported, quiet>>

RunExported(k) ==
    /\ runs[k] \in Verdicts
    /\ exported' = exported \union {k}
    /\ UNCHANGED <<plan, cli, honours, mirrored, client, wire, cluster, runs, ran, count, quiet>>

\* What was ready crashes.
Crash ==
    /\ flaps > 0 /\ ~down
    /\ down' = TRUE /\ streak' = 0
    /\ UNCHANGED <<plan, cli, honours, mirrored, client, wire, tool, agent, flaps, service, quiet>>

Tick ==
    /\ since' = [l \in LLMs |-> Elapsed(since[l])]
    /\ quiet' = [l \in LLMs |->
                    IF \E k \in Legs : runs[k] = "running" /\ ran[k] = l
                    THEN 0 ELSE Elapsed(quiet[l])]
    /\ UNCHANGED <<plan, cli, honours, mirrored, leg, place, tries, again, stable, rec>>
    /\ UNCHANGED <<wire, cluster, service>>

-----------------------------------------------------------------------------
\* The client.

Still == UNCHANGED <<plan, cli, honours, mirrored, cluster, service, quiet>>

\* Mutant: only a leg that succeeded has warmed the cache.
NotedSucceeding(s) ==
    since' = IF s = "succeeded" THEN [since EXCEPT ![Group(leg)] = 0] ELSE since

\* last_finish, whatever became of the leg.
Noted(s) == since' = [since EXCEPT ![Group(leg)] = 0]

\* The leg is over with status s and noted; then the driver writes the results
\* so far, outside of what keeps one leg from ending all: without a directory
\* for them this ends the set.  Else it is the next leg's turn.
Over(s) ==
    /\ rec' = [rec EXCEPT ![leg] = s]
    /\ Noted(s)
    /\ place' = IF ~cli /\ ~mirrored THEN "aborted"
                ELSE IF cli \/ leg = Len(plan) THEN "over" ELSE "rest"
    /\ leg' = IF place' = "rest" THEN leg + 1 ELSE leg
    /\ tries' = 0 /\ again' = FALSE /\ stable' = 0
    /\ reply' = "none"

Send(op, n) ==
    /\ jobs' = jobs \union {[op |-> op, leg |-> leg, did |-> 0, heard |-> TRUE, no |-> n]}
    /\ reply' = "none" /\ tries' = n

\* wait_out_cache
Rested == cli \/ since[Group(leg)] = Gap

\* A leg begins with token().
LogIn ==
    /\ place = "rest" /\ Rested
    /\ \/ Deploys(leg) /\ Send("teardown", 1) /\ place' = "teardown"
       \/ ~Deploys(leg) /\ ~cli /\ Send("run", 1) /\ place' = "run"
       \/ ~Deploys(leg) /\ cli /\ place' = "ready" /\ UNCHANGED <<jobs, reply, tries>>
    /\ UNCHANGED <<leg, again, stable, since, rec, lost>> /\ Still

\* token() exits, outside of what keeps one leg from ending all.
LoginFails ==
    /\ place = "rest" /\ Rested
    /\ place' = "aborted"
    /\ UNCHANGED <<leg, tries, again, stable, since, rec, wire>> /\ Still

TeardownOver ==
    /\ place = "teardown" /\ reply # "none"
    /\ IF ~cli /\ reply \notin {"done", "missing"} /\ tries < Attempts
       THEN Send("teardown", tries + 1) /\ UNCHANGED place
       ELSE Send("deploy", 1) /\ place' = "deploy"
    /\ UNCHANGED <<leg, again, stable, since, rec, lost>> /\ Still

\* 409: leftovers of the teardown.  Tear down again and retry once.
Redeploy ==
    /\ place = "deploy" /\ reply = "conflict" /\ ~cli /\ ~again
    /\ again' = TRUE
    /\ Send("teardown", 1) /\ place' = "teardown"
    /\ UNCHANGED <<leg, stable, since, rec, lost>> /\ Still

DeployRefused ==
    /\ place = "deploy" /\ reply \notin {"none", "done"}
    /\ cli \/ again \/ reply # "conflict"
    /\ Over("deploy_failed")
    /\ UNCHANGED <<jobs, lost>> /\ Still

\* Mutant: the status is believed, not the echo.
EchoAgreesAlways == TRUE

\* The echo names the gateway that was asked for, if one was.
EchoAgrees == honours \/ plan[leg] = Instance

Deployed ==
    /\ place = "deploy" /\ reply = "done"
    /\ IF EchoAgrees
       THEN place' = "ready" /\ UNCHANGED <<leg, tries, again, stable, since, rec, reply>>
       ELSE Over("deploy_failed")
    /\ UNCHANGED <<jobs, lost>> /\ Still

PollReady ==
    /\ place = "ready" /\ ~Missing /\ ~down
    /\ flaps = 0 \/ streak < StablePolls - 1
    /\ streak' = IF flaps = 0 THEN streak ELSE streak + 1
    /\ stable' = stable + 1
    /\ place' = IF stable' >= StablePolls THEN "warm" ELSE "ready"
    /\ UNCHANGED <<leg, tries, again, since, rec, wire, tool, agent, flaps, down>>
    /\ UNCHANGED <<plan, cli, honours, mirrored, service, quiet>>

\* Mutant: what was counted before a flap still counts.
FlappedCounting == UNCHANGED stable

Flapped == stable' = 0

PollNotReady ==
    /\ place = "ready" /\ ~Missing
    /\ FoundDown
    /\ Flapped
    /\ UNCHANGED <<leg, place, tries, again, since, rec, wire, tool, agent>>
    /\ UNCHANGED <<plan, cli, honours, mirrored, service, quiet>>

\* 404: for the driver one more reading, for the command line the end.
PollMissing ==
    /\ place = "ready" /\ Missing
    /\ IF cli THEN Over("deploy_failed")
       ELSE Flapped /\ UNCHANGED <<leg, place, tries, again, since, rec, reply>>
    /\ UNCHANGED <<jobs, lost>> /\ Still

\* Mutant: nothing bounds the polls.
TimeIsUpNever(p) == FALSE

\* Time is up.
TimeIsUp(p) == place = p

NotReadyInTime ==
    /\ TimeIsUp("ready")
    /\ Over("deploy_failed")
    /\ UNCHANGED <<jobs, lost>> /\ Still

\* The agent's card is fetched, until the route serves it, if one is known.
WarmUp ==
    /\ place = "warm"
    /\ \/ Send("run", 1) /\ place' = "run" /\ UNCHANGED <<leg, again, stable, since, rec>>
       \/ Over("deploy_failed") /\ UNCHANGED jobs
    /\ UNCHANGED lost /\ Still

RunUnready ==
    /\ place = "run" /\ reply = "unready" /\ tries < RunAttempts
    /\ Send("run", tries + 1)
    /\ UNCHANGED <<leg, place, again, stable, since, rec, lost>> /\ Still

RunRejected ==
    /\ place = "run" /\ reply \notin {"none", "done"}
    /\ reply = "unready" => tries = RunAttempts
    /\ Over("run_rejected")
    /\ UNCHANGED <<jobs, lost>> /\ Still

RunStarted ==
    /\ place = "run" /\ reply = "done"
    /\ place' = "watch"
    /\ UNCHANGED <<leg, tries, again, stable, since, rec, wire>> /\ Still

RunTerminal ==
    /\ place = "watch" /\ runs[leg] \in Verdicts
    /\ rec' = [rec EXCEPT ![leg] = runs[leg]]
    /\ place' = "artifacts"
    /\ UNCHANGED <<leg, tries, again, stable, since, wire>> /\ Still

\* The driver records what it last read and asks for artifacts all the same.
RunNotInTime ==
    /\ TimeIsUp("watch")
    /\ IF cli THEN Over("open")
       ELSE /\ rec' = [rec EXCEPT ![leg] = "open"]
            /\ place' = "artifacts"
            /\ UNCHANGED <<leg, tries, again, stable, since, reply>>
    /\ UNCHANGED <<jobs, lost>> /\ Still

\* The artifacts are there: what they are mirrored to is made, MIRROR with it.
Mirror ==
    /\ place = "artifacts" /\ leg \in exported /\ ~cli /\ ~mirrored
    /\ mirrored' = TRUE
    /\ UNCHANGED <<plan, cli, honours, client, wire, cluster, service, quiet>>

\* The artifacts are mirrored, or time was up before they were found.
ArtifactsOver ==
    /\ place = "artifacts"
    /\ (leg \in exported /\ (cli \/ mirrored)) \/ TimeIsUp("artifacts")
    /\ \/ Over(rec[leg]) /\ UNCHANGED jobs
       \/ /\ cli /\ Send("teardown", 1) /\ place' = "cleanup"
          /\ UNCHANGED <<leg, again, stable, since, rec>>
    /\ UNCHANGED lost /\ Still

CleanedUp ==
    /\ place = "cleanup" /\ reply # "none"
    /\ Over(rec[leg])
    /\ UNCHANGED <<jobs, lost>> /\ Still

\* A request could not be sent, three times over, or a poll got no answer, or
\* one that is no JSON.
Unsent ==
    /\ \/ \E j \in jobs : j.heard /\ j.did = 0 /\ jobs' = jobs \ {j}
       \/ place \in {"ready", "watch", "artifacts"} /\ UNCHANGED jobs
    /\ Over("driver_exception")
    /\ UNCHANGED lost /\ Still

Unheard(j) == (jobs \ {j}) \union {[j EXCEPT !.heard = FALSE]}

\* Mutant: the request is sent again.
AnswerLostResending ==
    /\ lost < MaxLost
    /\ lost' = lost + 1
    /\ \E j \in jobs : j.heard /\ jobs' = Unheard(j) \union {[j EXCEPT !.no = @ + 1]}
    /\ UNCHANGED <<client, reply>> /\ Still

\* A request was sent and its answer never came: only what was not sent is
\* sent again (URLError); this ends the leg.
AnswerLost ==
    /\ lost < MaxLost
    /\ lost' = lost + 1
    /\ \E j \in jobs : j.heard /\ jobs' = Unheard(j)
    /\ Over("driver_exception")
    /\ Still

\* A proxy in front of the Service answers in its place (504); so does the
\* Service, when the answer to its call to Rossoctl is lost.
ProxyTimeout ==
    /\ lost < MaxLost
    /\ lost' = lost + 1
    /\ \E j \in jobs : j.heard /\ jobs' = Unheard(j)
    /\ reply' = "upstream"
    /\ UNCHANGED client /\ Still

Step ==
    \/ LogIn \/ LoginFails \/ TeardownOver \/ Redeploy \/ DeployRefused \/ Deployed
    \/ WarmUp \/ RunUnready \/ RunRejected \/ RunStarted \/ RunTerminal
    \/ ArtifactsOver \/ CleanedUp

MatrixNext ==
    \/ Step \/ PollReady \/ PollNotReady \/ PollMissing \/ NotReadyInTime \/ RunNotInTime
    \/ Mirror \/ Unsent \/ AnswerLost \/ ProxyTimeout
    \/ \E j \in jobs : Serve(j)
    \/ \E k \in Legs : RunEnds(k) \/ RunExported(k)
    \/ Crash \/ Tick

\* Time passes, deadlines are kept, and the Service answers what it was asked.
MatrixFairness ==
    /\ WF_matrixVars(Step) /\ WF_matrixVars(Tick)
    /\ WF_matrixVars(NotReadyInTime) /\ WF_matrixVars(RunNotInTime)
    /\ WF_matrixVars(\E j \in jobs : j.heard /\ Serve(j))

MatrixSpec == MatrixInit /\ [][MatrixNext]_matrixVars /\ MatrixFairness

-----------------------------------------------------------------------------
\* Properties.

Reported(k) == rec[k] \in Verdicts \union {"open"}

\* A leg is reported under the LLM its run was made with, whatever the Service
\* does with the fields it was sent, was left with before, or still does for
\* a request nobody waits for; a leg that reuses a deployment, under that of
\* the leg that made it, if that one got as far.
RanAsReported ==
    \A k \in Legs : Reported(k) =>
        IF Deploys(k) THEN ran[k] = plan[k]
        ELSE \A j \in 1..(k - 1) :
                Deploys(j) /\ Reported(j) /\ (\A i \in (j + 1)..k : ~Deploys(i))
                    => ran[k] = plan[j]

\* "A run accepted mid-flap dies": no leg that waited for readiness starts its
\* run on an agent that will crash once more, if an agent that will is never
\* ready for as many polls as the client asks for.
AcceptedSettled ==
    [][\A k \in Legs :
        count'[k] > count[k] /\ rec[k] = "none" /\ (Deploys(k) \/ cli)
            => flaps = 0]_matrixVars

\* A leg has one run at most, however often its request is made, and leaves
\* none behind, nor a request for one, when it is over with a verdict, never
\* got as far, or was refused by the Service itself.
LegsApart ==
    \A k \in Legs :
        /\ count[k] <= 1
        /\ rec[k] \in Verdicts => count[k] = 1
        /\ rec[k] = "deploy_failed" => count[k] = 0
        /\ rec[k] = "run_rejected" /\ lost = 0 => count[k] = 0
        /\ rec[k] \in Verdicts \union {"deploy_failed"} =>
             /\ runs[k] # "running"
             /\ \A j \in jobs : ~(j.op = "run" /\ j.leg = k)

\* "So every leg pays for real completions": no run starts before the cache of
\* its gateway has expired, unless an earlier leg left its run behind, or a
\* leg reuses a deployment with an LLM of its own, which cache_group misses.
CacheRested ==
    [][\A k \in Legs :
        count'[k] > count[k] /\ rec[k] = "none"
        /\ (\A j \in 1..(k - 1) : rec[j] \in Verdicts \union {"deploy_failed"})
        /\ (\A j \in 1..k : ~Deploys(j) /\ count'[j] > 0 => ran'[j] = Instance)
            => quiet[ran'[k]] = Gap]_matrixVars

\* "Never let one run abort the set": the client comes to an end, whatever is
\* lost, and then every leg has its status: unless a login failed, or a leg of
\* the driver ended before any artifacts made the directory of its results,
\* when the legs up to it have theirs.
MatrixEnds ==
    <>(/\ place \in {"over", "aborted"}
       /\ \A k \in 1..(leg - 1) : rec[k] # "none"
       /\ place = "over" => rec[leg] # "none" /\ (cli \/ leg = Len(plan))
       /\ place = "aborted" => rec[leg] = "none" \/ ~(cli \/ mirrored))
=============================================================================
