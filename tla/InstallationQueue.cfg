CONSTANTS
    complete = complete
    storage = storage
    payload = payload
    t1 = t1
    t2 = t2
    Task = {t1, t2}
    Queue = {complete, storage, payload}
    Top = complete
    MaxEdits = 4
SPECIFICATION FairSpec
CHECK_DEADLOCK FALSE
INVARIANTS
    EachTaskRunsOnce
    CurrentTaskNumber
    BarIsTrue
PROPERTIES
    InstallationEnds
