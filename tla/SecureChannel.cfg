\* Short and chained calls, responses in up to three pieces, as many calls as the
\* counter has room for: safety, the end of every call, and AuthenticatedExchange.
SPECIFICATION FairSpec
CONSTANTS
    DataLengths <- MCDataLengths
    MaxSegments = 3
    SscModulus = 21
INVARIANTS
    CounterGap
    AnswersTheCall
    WholeCommands
    OneMissEndsTheChannel
    MacFailureMeansDamage
    FreshCounters
PROPERTIES
    CallsEnd
    ImplementsExchange
\* the client may stop calling, and the counter of the model runs out
CHECK_DEADLOCK FALSE
