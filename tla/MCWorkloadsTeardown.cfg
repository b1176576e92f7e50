\* Workloads: a deploy fails half way, then a teardown.
SPECIFICATION Spec
CONSTANTS
    e1 = e1
    e2 = e2
    a1 = a1
    a2 = a2
    l1 = l1
    l2 = l2
    Experiments <- MCExperiments
    Agents <- MCAgents
    AgentOf <- MCAgentOf
    Exclusive = {e1}
    LLMs <- MCLLMs
    None = None
    NRequests = 3
    MaxInFlight = 3
SYMMETRY Symmetry
INVARIANT TeardownLeavesNothing
CHECK_DEADLOCK FALSE
