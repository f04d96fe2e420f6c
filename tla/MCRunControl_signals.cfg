\* The host runs out of patience up to twice: answers may be late, commands given up.
CONSTANT MaxTimeouts = 2
SPECIFICATION FairSpec
INVARIANTS TypeOK AnswersItsCommand OnlyStopsAreMisread IdleMeansStopped
PROPERTIES ProceduresEnd SelfStopIsNoticed PauseIsLifted SignalsAreAnswered
