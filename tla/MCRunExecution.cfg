\* RunExecution: two tasks, one slot, so that one waits when the run is cut.
SPECIFICATION Spec
CONSTANTS
    NTasks = 2
    Slots = 1
INVARIANT BackstopHolds
INVARIANT ExportFaithful
PROPERTY FrozenAfterEnd
PROPERTY ViewSpec
PROPERTY RunSettles
CHECK_DEADLOCK FALSE
