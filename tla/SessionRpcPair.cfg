SPECIFICATION Spec
CONSTANTS
    Calls = {a, b}
    Ids = {1, 2, 3, 4}
    None = None
    Kinds = {"answer"}
    Retries = 2
    BadMsgMax = 0
    BadSaltMax = 0
    FloodMax = 0
    MaxSalt = 0
PROPERTIES
    ImplementsCall
