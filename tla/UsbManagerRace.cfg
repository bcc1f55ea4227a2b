\* A device goes while connectedReader runs.
CONSTANTS
    Devices = {a, b}
    NoDevice = none
    MaxEvents = 6
SPECIFICATION Spec
INVARIANT ReaderOrException
\* users may stop
CHECK_DEADLOCK FALSE
