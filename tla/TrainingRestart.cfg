CONSTANTS
    Runs = {a}
    Requests = {q1}
    Markers = {"step", "done", "error"}
    Poller = Poller
    NoOne = NoOne
    MaxPids = 2
    MaxCrashes = 1

SPECIFICATION Spec
INVARIANTS TypeOK CompletedIsReal
PROPERTY ImplementsLifecycle
CHECK_DEADLOCK FALSE
