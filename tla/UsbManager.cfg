\* Two devices, one vendor reader, races of receivers and polls; polling notices cards.
CONSTANTS
    Devices = {a, b}
    NoDevice = none
    MaxEvents = 6
SPECIFICATION FairSpec
INVARIANTS TypeOK LastChoiceWins OpenOnCurrent
PROPERTIES CardNoticed
\* users may stop
CHECK_DEADLOCK FALSE
