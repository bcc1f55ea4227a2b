\* Both tokens, every operation with right and wrong codes, over a card that may fail or
\* lose its power.
CONSTANTS
    MaxTries = 3
    Hashes = {"h1", "h2"}
SPECIFICATION Spec
INVARIANTS AttemptsReported OneAttemptPerCall RightCodeRequired RightCodeWorks
           TheSignature
\* the client may stop calling
CHECK_DEADLOCK FALSE
