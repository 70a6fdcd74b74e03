CONSTANTS
    Runs = {a, b}
    Requests = {q1}
    Markers = {"step", "done"}
    Poller = Poller
    NoOne = NoOne
    MaxPids = 2
    MaxCrashes = 0

SPECIFICATION FairSpec
INVARIANTS    ReservationHasRun
PROPERTY DeadRunSettles
CHECK_DEADLOCK FALSE
