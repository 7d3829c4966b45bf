SPECIFICATION Spec
CONSTANTS
    Agents = {a1, a2}
    NoAgent = NoAgent
    Calls = {c1, c2}
    NoCall = NoCall
    NoPayload = NoPayload
    Freshness = 0
    MaxTime = 1
    MaxSequence = 2
INVARIANTS InStep AckedIsAudited
PROPERTIES LostAnswerRecovers
CHECK_DEADLOCK FALSE
