SPECIFICATION Spec
CONSTANTS
    Kinds = {"range"}
    MaxAttempts = 4
CHECK_DEADLOCK FALSE
INVARIANTS ShortOnlyPastEnd
