\* What is in the file when a run has ended.
CONSTANTS
    MAXEVTRECORD = 20
    Sizes = {1, 8, 9}
    FileLimit = 200
    MaxEvents = 4
SPECIFICATION Spec
INVARIANTS RunIsRecorded
