SPECIFICATION PageSpec
CONSTANTS
    Calls = {c1, c2, c3, c4}
    mum = mum
    dad = dad
    child = child
    acc = acc
    pm = pm
    NoPage = NoPage
    Users <- MCUsers
    Admins <- MCAdmins
    Accounts <- MCAccounts
    Holder <- MCHolder
    AdminsOf <- MCAdminsOf
    Mailed <- MCAccounts
    Amounts = {0, 5}
    MaxIds = 2
    Inputs <- MCElsewhere
    Pages = {pm}
    Owner <- MCOwner
SYMMETRY Symmetry
INVARIANTS PageTypeOK LastMailTellsState DecisionsAccounted DecisionsShown
PROPERTY KeepsBook
