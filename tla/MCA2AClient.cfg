\* A2AClient: up to three attempts, the task's timer before the deadline, in the grace, later.
SPECIFICATION Spec
CONSTANTS
    Attempts = 3
    Budget = 9
    MinBudget = 3
    Backoff = 1
    Grace = 2
    TaskTimers = {8, 10, 14}
INVARIANT TurnInTime
INVARIANT AloneOnSession
INVARIANT VerdictHonest
PROPERTY AnswersStand
PROPERTY TurnEnds
CHECK_DEADLOCK FALSE
