\* The UI thread starts the next session of a manager while the binder thread ends the
\* one before.
SPECIFICATION Spec
CONSTANTS
    Managers = {m1}
    Activities = {a1}
    None = None
    MaxSessions = 2
    MaxSwitches = 0
INVARIANTS
    DisabledAfterSuccess
\* the client may stop calling
CHECK_DEADLOCK FALSE
