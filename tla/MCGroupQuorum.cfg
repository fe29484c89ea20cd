SPECIFICATION Spec
CONSTANTS
    Member <- Three
    Founder = 1
    Threshold = 2
    Admitted <- SecondThird
    AdmittedAs <- BothAdmins
    Enrollees <- Nobody
    Subjects <- Third
    Directions <- Ascending
    Allowed <- CallQuorum
    Roles = {"Admin"}
    MaxIssues = 2
    MaxMints = 3
INVARIANTS
    QuorumHonoured
    NoPermanentSplit
CHECK_DEADLOCK FALSE
