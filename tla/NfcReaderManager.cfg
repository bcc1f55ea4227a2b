\* Two managers share an activity, and both threads may enter them at any time.
SPECIFICATION Spec
CONSTANTS
    Managers = {m1, m2}
    Activities = {a1}
    None = None
    MaxSessions = 3
    MaxSwitches = 2
INVARIANTS
    Monitors
    WorkOncePerSession
    NoNullField
\* the client may stop calling
CHECK_DEADLOCK FALSE
