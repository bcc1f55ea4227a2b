\* Every answer, whole or cut off at any octet; cards with and without a date of birth,
\* and their personal codes.
CONSTANTS
    Fields <- MCFields
    Tags <- MCTags
    SizeIfNone = 229
    MaxFields = 3
    Dates <- MCDates
    Codes <- MCCodes
SPECIFICATION ParsersSpec
INVARIANTS SizeAnnounced FieldReported DigiIdRead
\* after the answer nothing more happens
CHECK_DEADLOCK FALSE
