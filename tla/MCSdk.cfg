CONSTANTS
    Workers = {w1, w2}
    Acts = {idle, buy}
    Idle = idle
    MaxCalls = 3
    MaxFails = 1
    None = None
    Torn = Torn
SPECIFICATION MCSpec
CHECK_DEADLOCK FALSE
INVARIANT CallsAreTrue
INVARIANT ScoresFollowTheRecord
INVARIANT WorldsReproduce
INVARIANT PlayIsAccounted
PROPERTY CallsEnd
PROPERTY WhoIsInDecides
