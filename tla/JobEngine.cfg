\* The older job may stay blocked; both kinds of body occur.
CONSTANTS
    Jobs = {1, 2}
    Requests = {r1}
    Big = {1}
    Hooked = {1}
    MaxCrashes = 1
    NoJob = NoJob

SPECIFICATION FairSpec
INVARIANTS TypeOK InFlightIsDriven BodyAtMostOnce
PROPERTIES QueuedIsPicked EveryDriveRests
CHECK_DEADLOCK FALSE
