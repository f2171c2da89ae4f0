SPECIFICATION Spec
CONSTANTS
    Calls = {a}
    Ids = {1, 2, 3}
    None = None
    Kinds = {"answer", "error", "busy", "flood", "badmsg"}
    Retries = 2
    BadMsgMax = 0
    BadSaltMax = 0
    FloodMax = 1
    MaxSalt = 1
INVARIANTS
    ResultsExact
PROPERTIES
    AnswerKept
    CallsEnd
