SPECIFICATION Spec
CONSTANTS
    Transfers = {s, f}
    s = s
    f = f
    Files = {f}
    Workers = {v, w}
    Last = 2
    Short <- MCShort
    Size = 2
INVARIANTS
    BudgetExact
    Complete
PROPERTY
    TransfersEnd
