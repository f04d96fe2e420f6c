\* Every packing of small, largest and huge events, up to the size limit.
CONSTANTS
    MAXEVTRECORD = 20
    Sizes = {1, 8, 9}
    FileLimit = 125
    MaxEvents = 10
SPECIFICATION Spec
INVARIANTS TypeOK PacketFits FileInOrder HeaderAgrees
