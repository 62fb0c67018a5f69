SPECIFICATION Spec
CONSTANTS
    Workers = {w1, w2}
    Accounts = {"a"}
    Users = {"parent", "kid", "stranger"}
    Holder <- MCHolder
    AdminsOf <- MCAdminsOf
    Mailed = {"a"}
    Rates <- ConcurrentRates
    StorableRates <- ConcurrentRates
    DefaultRate = 50
    Growth <- MCGrowth
    Scale <- MCScale
    Day = 2
    MaxTime = 3
    Requests <- ConcurrentCalls
    MaxRequests = 3
INVARIANTS
    NonNegativeBalances
    InterestOncePerDay
    RateChangeNotRetroactive
    AnswersMatchLedger
SYMMETRY WorkerSymmetry
