\* One fault: the card no longer follows.
SPECIFICATION FairSpec
CONSTANTS
    a0 = a0
    a1 = a1
    a2 = a2
    d2 = d2
    Asks = {a0}
    Deciders = {d1}
    CardType <- MCTypes
    Patterned <- NonePatterned
    Covers <- NoneCovers
    MaxFaults = 1
PROPERTIES CardFollowsRow
CHECK_DEADLOCK FALSE
