SPECIFICATION SidecarSpec
CONSTANTS
    Calls = {c1, c2, c3}
    NoCall = NoCall
    LongRequests <- MCLongRequests
    LongAnswers <- MCLongAnswers
INVARIANT OnlyAbandonedAnswersWait
PROPERTIES  CallsEnd
CHECK_DEADLOCK FALSE
