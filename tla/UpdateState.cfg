SPECIFICATION Spec
CONSTANTS
    Channels = {c1}
    Common = zero
    MaxChannel = 1
    MaxCommon = 2
    MaxQts = 1
    Tasks = {t1}
    MaxStale = 2
    BatchMax = 2
    MaxFaults = 1
    None = None

    
PROPERTIES
    StateAdvances
    
    RecoveryEnds
