SPECIFICATION FairSpec
CONSTANTS
    a1 = a1
    a2 = a2
    w1 = w1
    w2 = w2
    l1 = l1
    l2 = l2
    AppThreads = {a1, a2}
    Workers = {w1, w2}
    Listeners = {l1, l2}
    Messages = {m1, m2}
    NULL = NULL
    Calls <- ContinuousCalls
    StartListeners <- OneListener
    StartContinuous = TRUE
    MaxRegistrations = 2
INVARIANTS
    OneWorker
PROPERTIES
    EventuallyDelivered
    RefusalStarvesNobody
