SPECIFICATION KeysSpec
CONSTANTS
    Waiters = {l1, l2}
    Chats = {c1, me}
    Users = {u1, me}
    Buttons = {b1}
    Absent = Absent
INVARIANTS
    BucketsExact
    LookupComplete
    StrangersSeen
