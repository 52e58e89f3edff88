\* Two candidates in a row and a worker that is restarted twice.
SPECIFICATION LiveSpec
CONSTANTS
    CallCount = 2
    MaxRestarts = 2
INVARIANTS OneLiveInference VerdictIsForItsCandidate BusyMeansAbandoned
PROPERTIES SlotIsFreed EverySendEnds ShutdownEnds
CHECK_DEADLOCK FALSE
