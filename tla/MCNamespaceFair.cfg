SPECIFICATION FairSpec
CONSTANTS
    a = a
    b = b
    c = c
    Peer <- Everyone
    Admin <- Administrators
    Ticket = {1, 2}
    MaxEpoch = 1
    MaxRemovals = 1
    MaxFaults = 0
    Lossy = TRUE
    NoPeer = NoPeer
PROPERTY
    Convergence
CHECK_DEADLOCK FALSE
