CONSTANTS
    MaxSilence = 24
    MaxMissed = 3
SPECIFICATION Spec
INVARIANTS DeadlinesKept SameNumberIsUp
PROPERTIES NoFalseAlarm SilentIsForgotten DeadPathEnds
