CONSTANTS
    Sessions = {1}
    Requests = {q1}
    Coding = {m}
    Chat = {}
    NoOne = NoOne
    MaxCrashes = 0

SPECIFICATION Spec
INVARIANT OpenRowsAreLive
CHECK_DEADLOCK FALSE
