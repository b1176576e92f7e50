\* McpSession: three tasks, two calls each; every child may hang for ever.
SPECIFICATION Spec
CONSTANTS
    t1 = t1
    t2 = t2
    t3 = t3
    Clients <- MCClients
    NoClient = NoClient
    MaxCalls = 2
INVARIANT OrphansPoison
INVARIANT NoConcurrentCallTool
PROPERTY EveryCallReturns
CHECK_DEADLOCK FALSE
