SPECIFICATION FairSpec
CONSTANTS
    p1 = p1
    p2 = p2
    d1 = d1
    d2 = d2
    None = None
    Peer = {p1, p2}
    Writer = {p1, p2}
    Founders = {p1}
    Doc = {d1}
    FULL_PUBLISH_EVERY = 1
    MAX_DEP_WAIT_DRAINS = 2
    MAX_PENDING_CHUNKS = 2
    LimitAnswers = TRUE
    Tasks = 1
    MaxEdits = 2
    MaxEpochs = 4
    MaxRestarts = 1
CHECK_DEADLOCK FALSE
INVARIANTS TypeOK ParkedIsBlocked SeenIsAccountedFor UnattachedIsParked
 
