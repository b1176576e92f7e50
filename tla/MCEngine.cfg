\* Engine, safety: three tasks in two slots.
SPECIFICATION Spec
CONSTANTS
    NTasks = 3
    Slots = 2
INVARIANT BatchAccounted
INVARIANT HonestVerdicts
INVARIANT SessionsCleanedUp
INVARIANT SlotsBoundTheQueue
CHECK_DEADLOCK FALSE
