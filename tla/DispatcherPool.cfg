SPECIFICATION Spec
CONSTANTS
    Base = {w1, w2}
    Relief = {r1, r2}
    QueueMax = 3
    ListenerMax = 2
INVARIANTS
    ParkedExact
    
    NoWorkerLeft
PROPERTIES
    StopReturns
