\* Four calls of tunnel(), with the right CAN or a wrong one, at one card: after
\* failures, and again through the tunnel they have opened.
SPECIFICATION FairSpec
CONSTANTS
    Cans = {right, wrong}
    CardCan = right
    NoCan = NoCan
    MaxAttempts = 4
INVARIANTS
    SessionUsable
    OnlyTheRightCan
    UndisturbedResult
    BlamesTheCan
PROPERTIES FreshKeys TunnelEnds
\* the client may stop calling
CHECK_DEADLOCK FALSE
