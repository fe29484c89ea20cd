SPECIFICATION FairSpec
CONSTANTS
    Member <- Two
    Founder = 1
    Threshold = 2
    Admitted <- Second
    AdmittedAs <- SecondAdmin
    Enrollees <- Nobody
    Subjects <- Second
    Directions <- Ascending
    Allowed <- CallPropose
    Roles = {"Admin"}
    MaxIssues = 2
    MaxMints = 3
PROPERTIES
    
    QuorumPerformed
CHECK_DEADLOCK FALSE
