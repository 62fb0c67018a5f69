SPECIFICATION FairSpec
CONSTANTS
    d = d
    e = e
    bad = bad
    None = None
    Messages = {d, e, bad}
    Content <- MCContent
    Invocations = {1, 2, 3, 4}
    MaxRetries = 1
    MaxRedeliveries = 1
    MaxDeliveries = 2
INVARIANTS TypeOK MailsAccounted
PROPERTY PublishedIsSent
