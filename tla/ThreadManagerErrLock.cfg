CONSTANTS
    t1 = t1
    t2 = t2
    t3 = t3
    n1 = n1
    n2 = n2
    main = main
    None = None
    Thread = {t1, t2}
    Name = {n1, n2}
    NameOf <- OwnName2
    Fatal = {t2}
    AttrErr = {}
    Main = main
    Caller = {main, t2}
    Ops <- ErrorWaits
SPECIFICATION Spec
INVARIANTS
    NoCircularWait
