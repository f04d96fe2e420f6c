\* A repeated trailer completes an event too early.
CONSTANTS
    Mezz = {m1, m2}
    NSlots = 3
    EvidMod = 7
    NEvents = 4
    Faults = {"repeat"}
    MaxFaults = 1
SPECIFICATION Spec
INVARIANTS EndsWithAllTrailers
CHECK_DEADLOCK FALSE
