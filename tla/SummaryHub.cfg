CONSTANTS
    MaxVisits = 1
    Automated = {TRUE, FALSE}
SPECIFICATION FairSpec
CHECK_DEADLOCK FALSE
INVARIANTS
    AutoContinueEarned
    NoForgottenNotReady
    OneCheck
    
    InitDoneOnceAfterAll
PROPERTIES
    InitDoneComes
