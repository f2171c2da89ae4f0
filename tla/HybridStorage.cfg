SPECIFICATION Spec
CONSTANTS
    Durable = {auth_key, pts}
    Cache = {peer}
    QueueMax = 2
    MaxWrites = 4
    None = None
    Stop = Stop
INVARIANTS
    JoinExact
    
    PurgeFinal
PROPERTIES
    
    Drains
    CloseReturns
