\* Chained commands and responses in pieces over a failing link, and AuthenticatedExchange.
SPECIFICATION FairSpec
CONSTANTS
    DataLengths <- MCDataLengths
    MaxSegments = 3
    MaxCalls = 3
    Faults = {}
INVARIANTS WholeCommands WholeAnswers UndisturbedReturns
PROPERTIES ImplementsExchange
\* the client may stop calling
CHECK_DEADLOCK FALSE
