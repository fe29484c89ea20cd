SPECIFICATION Spec
CONSTANTS
    Member <- Three
    Founder = 1
    Threshold = 1
    Admitted <- Nobody
    AdmittedAs <- NoRoles
    Enrollees <- SecondThird
    Subjects <- SecondThird
    Directions <- Ascending
    Allowed <- CallAdmission
    Roles = {"Admin"}
    MaxIssues = 3
    MaxMints = 2
INVARIANTS
    TypeOK
    CausallyClosed
    ParkedAwaits
    MembersCertified
    MergePendingIsLoop
    InvitesRedeemable
CHECK_DEADLOCK FALSE
