SPECIFICATION StoreSpec
CONSTANTS
    Member <- MCMember
    Founder = 1
    Bundle <- MCBundle
    Histories <- MCHistories
INVARIANTS
    StoreTypeOK
    OnlyFounderBootstraps
    ClosureIsLeast
PROPERTY AdmissionMonotone
CHECK_DEADLOCK FALSE
