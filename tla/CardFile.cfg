\* Both loops, over files of all lengths that they can address.
CONSTANTS
    ByteValues = 8
    DefaultSize = 7
    FileLengths <- MCFileLengths
SPECIFICATION FairSpec
INVARIANTS WholeFile ThrowsOnFailure
PROPERTIES ReadEnds
\* reading ends
CHECK_DEADLOCK FALSE
