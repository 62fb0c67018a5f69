SPECIFICATION FairClientSpec
CONSTANTS
    Parts = {"account", "home", "forms", "session", "notifications", "requests"}
    PageAccounts = {a}
    AccountCalls = 3
    AccountFills = 1
    Investors = {i}
    HomeCalls = {1, 2, 3}
    FormCalls = 2
    FormFills = 1
    TabUsers = {"kid"}
    RoleOf <- MCRoleOf
    PublicPages <- MCPublicPages
    SessionPages <- MCSessionPages
    TabCalls = {t1, t2}
    MaxPending = 2
    DismissIn = 3
    MaxTime = 7
    MaxAdded = 4
    Calls = {1, 2, 3}
    Inputs <- MCAsks
    mum = mum
    dad = dad
    child = child
    acc = acc
    pm = pm
    NoPage = NoPage
    Users <- MCUsers
    Admins <- MCAdmins
    Accounts <- MCAccounts
    Holder <- MCHolder
    AdminsOf <- MCAdminsOf
    Mailed <- MCAccounts
    Amounts = {0, 5}
    MaxIds = 2
    Pages = {pm}
    Owner <- MCOwner
    None = None
PROPERTIES AllSpinnersGo SignedOutLeaves ScreenClears
