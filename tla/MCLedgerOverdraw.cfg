SPECIFICATION Spec
CONSTANTS
    Workers = {w1, w2}
    Accounts = {"a"}
    Users = {"parent", "kid", "stranger"}
    Holder <- MCHolder
    AdminsOf <- MCAdminsOf
    Mailed = {}
    Rates = {0}
    StorableRates = {0}
    DefaultRate = 0
    Growth <- MCGrowth
    Scale <- MCScale
    Day = 2
    MaxTime = 0
    Requests <- OverdrawCalls
    MaxRequests = 3
INVARIANTS
    WithdrawalsCovered
