SPECIFICATION WalkSpec
CONSTANTS
    u1 = u1 u2 = u2 u3 = u3 r1 = r1 e1 = e1 e2 = e2
    Walkers = {w1}
    Updating = {u1, u2, u3}
    Raw = {r1}
    Error = {e1, e2}
    GroupOf <- MCGroupOf
    Registered <- MCRegistered
    MaxEdits = 4
    None = None
INVARIANTS
    
    OncePerGroup

    
