SPECIFICATION Spec
CONSTANTS
    a = a
    b = b
    c = c
    Peer <- Everyone
    Admin <- Administrators
    Ticket = {1, 2}
    MaxEpoch = 1
    MaxRemovals = 2
    MaxFaults = 1
    Lossy = FALSE
    NoPeer = NoPeer
INVARIANTS
    TicketCarriesRemovals
    ExcludedNeverLearns
SYMMETRY Symmetry
CHECK_DEADLOCK FALSE
