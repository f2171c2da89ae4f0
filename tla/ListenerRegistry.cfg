SPECIFICATION Spec
CONSTANTS
    Clients = {a}
    Slots = {s1, s2}
    Feeds = {f1, f2}
    None = None
    Limit = 2
    Timeouts = {1, 2}
    CompactAt = 1
    StaleMax = 2
INVARIANTS
    LiveIsPending
    BudgetExact
    ClosedIsEmpty
PROPERTIES
    HeapPruned
    DeadlinesKept
