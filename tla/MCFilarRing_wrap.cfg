\* One channel with the sizes of the code: 30 buffers, a 4-bit entry count that wraps, and
\* two trips around the ring.
CONSTANTS
    Chan = {1}
    NBuf = 30
    FifoMod = 16
    Wraps = TRUE
    MaxBlocks = 61
SPECIFICATION FairSpec
INVARIANTS TypeOK AckNeverReadEmpty CountNeverWidened LengthMatchesBuffer AssembledInOrder BuffersConserved
PROPERTIES StopEndsRun
