CONSTANTS
    Cell <- MCCell
    MaxParts = 3
    MaxScans = 2
    MaxChanges = 2
    Selection = {none, d1, d2}
    NoDisks = none
    Garbage = Garbage
SPECIFICATION Spec
INVARIANTS
    AppliedIsOwnWork
    AppliedIsFresh
    ModulesFollow
    AppliedIsShown
    AppliedUsesSelection

    
CHECK_DEADLOCK FALSE
