\* Two channels, a saturating entry count, refinement and liveness.
CONSTANTS
    Chan = {1, 2}
    NBuf = 3
    FifoMod = 2
    Wraps = FALSE
    MaxBlocks = 4
SPECIFICATION FairSpec
PROPERTIES StreamSpec DeliveredIsAssembled
