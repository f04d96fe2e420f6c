\* Any word is lost, whole triggers are missed, trailers are repeated.
CONSTANTS
    Mezz = {m1, m2}
    NSlots = 4
    EvidMod = 9
    NEvents = 6
    Faults = {"header", "hit", "trailer", "fragment", "repeat"}
    MaxFaults = 2
SPECIFICATION Spec
INVARIANTS DamageContained HealsAfterMiss WordsConserved
CHECK_DEADLOCK FALSE
