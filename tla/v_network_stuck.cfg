SPECIFICATION FairSpec
CONSTANTS
    a1 = a1
    a2 = a2
    p1 = p1
    p2 = p2
    i1 = i1
    i2 = i2
    Net = Net
    Worker = Worker
    AppThreads = {a1, a2}
    Peers = {p1, p2}
    Unreliable = {}
    MaySay <- NoneTalks
    IDs = {i1, i2}
    IDOf <- Distinct
    NULL = NULL
    Calls <- TwoThreads
    Contacts = {p1}
    MaxSaid = 0
PROPERTY
    DisconnectReturns
