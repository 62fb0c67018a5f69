SPECIFICATION Spec
CONSTANTS
    Workers = {w1}
    Usernames = {n1, n2}
    ValidUsernames = {n1, n2}
    Emails = {e1, e2}
    None = None
    Kinds <- Redeeming
    MaxCalls = 3
INVARIANTS
    InviteesManage
