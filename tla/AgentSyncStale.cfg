SPECIFICATION Spec
CONSTANTS
    Agents = {a1}
    NoAgent = NoAgent
    Calls = {c1, c2}
    NoCall = NoCall
    NoPayload = NoPayload
    Freshness = 0
    MaxTime = 1
    MaxSequence = 2
INVARIANTS AcceptedIsPending
CHECK_DEADLOCK FALSE
