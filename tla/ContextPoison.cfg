SPECIFICATION Spec
CONSTANTS
    Readers = {r1}
    Cleared = Cleared
    NoAnswer = NoAnswer
    None = None
    MaxRetries = 1
    MaxEdits = 2
    MaxForeign = 3
PROPERTY CacheHitsKeepMeaning
CHECK_DEADLOCK FALSE
