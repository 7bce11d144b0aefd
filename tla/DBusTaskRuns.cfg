CONSTANTS
    MaxRuns = 2
    MaxIdle = 3
    None = None
SPECIFICATION FairSpec
CHECK_DEADLOCK FALSE
INVARIANTS
    SuccessIsEarned
    FinishTellsTheTruth
    AsyncWaitsForHandlers
PROPERTIES
    LifecycleImplemented
    ClientGetsDone
