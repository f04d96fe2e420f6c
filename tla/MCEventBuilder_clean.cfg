\* The healthy detector: every interleaving of the cards, the ring and the EVID wrap.
CONSTANTS
    Mezz = {m1, m2}
    NSlots = 3
    EvidMod = 4
    NEvents = 7
    Faults = {}
    MaxFaults = 0
SPECIFICATION FairSpec
INVARIANTS TypeOK BuildsInOrder SlotsNotShared StopsOnlyWhenFull
PROPERTIES EventsAreBuilt
CHECK_DEADLOCK FALSE
