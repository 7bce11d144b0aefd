CONSTANTS
    t1 = t1
    t2 = t2
    t3 = t3
    n1 = n1
    n2 = n2
    main = main
    None = None
    Thread = {t1, t2, t3}
    Name = {n1, n2}
    NameOf <- SharedName
    Fatal = {t3}
    AttrErr = {}
    Main = main
    Caller = {main, t3}
    Ops <- Waiting
SPECIFICATION Spec
INVARIANTS
    RegistryExact
    NoJoinBeforeStart
    RaisedOnce
PROPERTIES
    WaitedForTargets
