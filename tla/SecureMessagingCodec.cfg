\* Commands and answers through the codec, and damaged answers.
CONSTANTS
    Commands <- MCCommands
    Answers <- MCAnswers
    Counters <- MCCounters
    NoLe = noLe
    Les <- MCLes
SPECIFICATION Spec
INVARIANTS CommandHeard AnswerReturned
\* one command
CHECK_DEADLOCK FALSE
