\* MlflowHealth: a probe of a good server beside a probe and a run of a bad one.
SPECIFICATION HealthSpec
CONSTANTS
    p1 = p1
    p2 = p2
    run = run
    good = good
    bad = bad
    Probes = {p1, p2}
    Runs = {run}
    Servers = {good, bad}
    ServerOf <- MCServerOf
    Healthy = {good}
    MaxReads = 2
INVARIANT OkIsReadable
INVARIANT HealthyAccepted
PROPERTY ProbeAnswered
CHECK_DEADLOCK FALSE
