CONSTANTS
    Ids = {1, 2}
    Files = {f}
    Roles = {coding}
    Requests = {q1, q2}
    Worker = Worker
    NoOne = NoOne
    MaxRetries = 1
    MaxCalls = 3
    MaxCrashes = 1

SPECIFICATION FairSpec
INVARIANTS EnqueueOnce InProgressIsDriven 
 
CHECK_DEADLOCK FALSE
