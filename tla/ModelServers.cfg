CONSTANTS
    Supervisors <- MCSupervisors
    MaxRestarts = 1
    MaxExits = 3
    Models = {m1, m2}
    Callers = {c1, c2}
    Nobody = Nobody
    Attached = Attached
SPECIFICATION Spec
INVARIANTS
    TypeOK
PROPERTIES
    OneServerAtATime
    NoStrayServer
    CallsEnd
CHECK_DEADLOCK FALSE
