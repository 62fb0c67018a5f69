SPECIFICATION PageSpec
CONSTANTS
    Calls = {c1}
    mum = mum
    dad = dad
    child = child
    acc = acc
    Users <- MCUsers
    Admins <- MCAdmins
    Accounts <- MCAccounts
    Holder <- MCHolder
    AdminsOf <- MCAdminsOf
    Mailed <- MCAccounts
    Amounts = {0, 5}
    MaxIds = 2
    Inputs <- MCElsewhere
    pm = pm
    NoPage = NoPage
    Pages = {pm}
    Owner <- MCOwner
INVARIANT AskedMailsReachAdmins
