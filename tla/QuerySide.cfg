SPECIFICATION PartSpec
CONSTANTS
    None = None
    Readers = {r1}
    Cleared = Cleared
    NoAnswer = NoAnswer
    MaxRetries = 1
    MaxEdits = 2
    MaxForeign = 3
    Threads = {t1, t2}
    sfMaxRetries = 1
    MaxGeneration = 2
    Paths = {x1, x2}
    Contents = {1}
    ovMaxEdits = 1
    ovMaxGeneration = 3
    MaxLives = 1
INVARIANTS PartTypes ContextInv  AnswersOfOneBase
PROPERTIES AtomicAnswers AnswersAreNotOlder OnlyOwnPublications RequestsEnd
PROPERTIES CallsReturn
CHECK_DEADLOCK FALSE
