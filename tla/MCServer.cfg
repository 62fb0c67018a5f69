SPECIFICATION FairSpec
CONSTANTS
    Requests = {1, 2, 3}
    Users = {ann}
    Threads = 2
    PoolSize = 1
    Migrations = 2
    Life = 0
    MaxTime = 1
    System = System
    Forged = Forged
    Short = Short
    None = None
INVARIANTS TypeOK ServedOnNewSchema ConnectionsAccounted TokensDecide
PROPERTY EveryRequestEnds
