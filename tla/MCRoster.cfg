SPECIFICATION FairSpec
CONSTANTS
    f = f
    a = a
    b = b
    NoDevice = NoDevice
    Devices <- Everyone
    Founder = f
    Admins <- Founders
    Limits <- Scenarios
INVARIANTS
    
    Reachable

    
CHECK_DEADLOCK FALSE
