SPECIFICATION Spec
CONSTANTS
    Conns = {c1, c2, c3}
    Owner = Owner
    Closer = Closer
    Caller = Caller
    Background = Background
    None = None
    MaxAttempts = 2
    BrokenAnytime = FALSE

    
    
    
PROPERTIES
    
    StopEnds
