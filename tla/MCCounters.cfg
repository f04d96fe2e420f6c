\* A run with reports at any point, in its increments and after its end.
CONSTANTS
    Word = 3
    Steps = {1, 2}
    MaxCount = 5
    MaxReports = 2
SPECIFICATION Spec
INVARIANTS TypeOK SumsExact NothingLost HostFollows InformedExactly
CHECK_DEADLOCK FALSE
