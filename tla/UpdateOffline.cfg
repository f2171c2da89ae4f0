SPECIFICATION Spec
CONSTANTS
    Channels = {c1}
    Common = zero
    MaxChannel = 3
    MaxCommon = 1
    MaxQts = 0
    Tasks = {t1}
    MaxStale = 2
    BatchMax = 2
    MaxFaults = 2
    None = None
PROPERTIES
    MissedStaysAhead
