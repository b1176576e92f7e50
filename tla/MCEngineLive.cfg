\* Engine, liveness and the use of the session: two tasks in two slots.
SPECIFICATION Spec
CONSTANTS
    NTasks = 2
    Slots = 2
PROPERTY SessionSpec
PROPERTY BatchSucceeds
PROPERTY RunReturns
CHECK_DEADLOCK FALSE
