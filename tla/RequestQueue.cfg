SPECIFICATION FairSpec
CONSTANTS
    Workers = {w1, w2}
    Conns = {c1, c2, c3, c4}
    MaxRequests = 2
    NoConn = NoConn
INVARIANTS TypeOK NoLostRequestSignal MasterSleepsOnlyWhenFull OneOwner
PROPERTIES ImplementsFIFO EveryRequestServed
