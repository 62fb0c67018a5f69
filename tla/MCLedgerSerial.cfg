SPECIFICATION SerialSpec
CONSTANTS
    Workers = {w1, w2}
    Accounts = {"a", "b"}
    Users = {"parent", "kid", "stranger"}
    Holder <- MCHolder
    AdminsOf <- MCAdminsOf
    Mailed = {"a"}
    Rates = {0, 50, 1000}
    StorableRates = {0, 50}
    DefaultRate = 50
    Growth <- MCGrowth
    Scale <- MCScale
    Day = 2
    MaxTime = 4
    Requests <- SerialCalls
    MaxRequests = 3
SYMMETRY WorkerSymmetry
INVARIANTS TypeOK RunningBalance ShownBalanceHolds
PROPERTY KeepsPromise
