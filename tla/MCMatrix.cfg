\* Matrix: plans of up to two legs, one lost answer.
SPECIFICATION MatrixSpec
CONSTANTS
    i = i
    g = g
    h = h
    LLMs = {i, g, h}
    Instance = i
    NoLLM = NoLLM
    SpecFiles <- MCSpecFiles
    Attempts = 2
    RunAttempts = 2
    StablePolls = 3
    Gap = 1
    MaxFlaps = 2
    MaxLost = 1
INVARIANT RanAsReported
INVARIANT LegsApart
PROPERTY AcceptedSettled
PROPERTY CacheRested
PROPERTY MatrixEnds
CHECK_DEADLOCK FALSE
