\* One slash_confirm card, two users and the sweep racing for it, two faults;
\* or two commands, the pattern of the first covers the second.
SPECIFICATION MCSpec
CONSTANTS
    a0 = a0
    a1 = a1
    a2 = a2
    d2 = d2
    Asks = {a0, a1, a2}
    Deciders = {d1, d2}
    CardType <- MCTypes
    Patterned = {a1, a2}
    Covers <- FirstCoversSecond
    MaxFaults = 2
INVARIANTS CardNeverContradicts EventTellsTheRow ConsentIsReal
PROPERTIES ConcludesOnce OverdueIsConcluded AskReturns CardFollowsUnlessFault
CHECK_DEADLOCK FALSE
