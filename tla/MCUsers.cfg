SPECIFICATION UsersSpec
CONSTANTS
    Workers = {w1, w2}
    Usernames = {n1, n2, short}
    ValidUsernames = {n1, n2}
    Emails = {e1, e2}
    Kinds <- AllKinds
    MaxCalls = 4
    Calls = {c1, c2, c3}
    ann = ann
    bob = bob
    nAnn = nAnn
    nBob = nBob
    nobody = nobody
    p1 = p1
    p2 = p2
    tooShort = tooShort
    None = None
    Users <- MCUserSet
    Emailed <- MCEmailed
    Names <- MCNames
    Called <- MCCalled
    Passwords <- MCPasswords
    Encryptable <- MCEncryptable
    FirstPassword <- MCFirstPassword
SYMMETRY UserSymmetry
INVARIANTS UsersTypeOK FamiliesNeverMix MailedLinksHold InvitationRedeemedOnce AccountsFit
    AnswersMatchRows NewestLinkCounts PasswordAnswersAreRight
