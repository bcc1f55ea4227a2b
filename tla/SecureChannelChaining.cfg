\* Data beyond one secure messaging APDU.
SPECIFICATION Spec
CONSTANTS
    DataLengths <- MCBoundaryLengths
    MaxSegments = 2
    SscModulus = 13
INVARIANTS
    ChainingWorks
\* the client may stop calling, and the counter of the model runs out
CHECK_DEADLOCK FALSE
