SPECIFICATION ViewSpec
CONSTANTS
    Workers = {w1}
    Accounts = {"a"}
    Users = {"parent", "kid", "stranger"}
    Holder <- MCHolder
    AdminsOf <- MCAdminsOf
    Mailed = {"a"}
    Rates = {0, 50}
    StorableRates = {0, 50}
    DefaultRate = 50
    Growth <- MCGrowth
    Scale <- MCScale
    Day = 2
    MaxTime = 3
    Requests <- ViewedCalls
    MaxRequests = 2
    Viewers = {v1}
    Sinces = {0, 1}
INVARIANTS ViewTypeOK ShownWasTrue LinesAgree
