CONSTANTS
    Sessions = {1}
    Requests = {q1, q2}
    Coding = {m}
    Chat = {c}
    NoOne = NoOne
    MaxCrashes = 1

SPECIFICATION Spec
INVARIANTS  WoundUpOnce 
CHECK_DEADLOCK FALSE
