SPECIFICATION FairSpec
CONSTANTS
    w1 = w1
    w2 = w2
    s1 = s1
    t1 = t1
    t2 = t2
    t3 = t3
    b1 = b1
    b2 = b2
    Socket = {w1, w2}
    Symbol = {s1}
    Thread = {t1, t2}
    Broadcast = {b1}
    None = None
    MaxFailures = 1
INVARIANTS
    TypeOK
    OneThreadAtWork
    DemandIsServed
PROPERTIES
    IdleThreadsEnd
CHECK_DEADLOCK FALSE
