CONSTANTS
    MaxVisits = 1
    Automated = {TRUE, FALSE}
SPECIFICATION Spec
CHECK_DEADLOCK FALSE
INVARIANTS
    SkipsWhenDone
