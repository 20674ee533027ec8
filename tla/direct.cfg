SPECIFICATION Spec
CONSTANTS
    n1 = n1
    l1 = l1
    l2 = l2
    Nets = {n1}
    Listeners = {l1, l2}
    Calls = {"connect", "listen", "sendMessage", "disconnect", "register", "unregister", "destroy"}
    MaxConnects = 1
    MaxSaid = 2
INVARIANTS
    TypeOK
    FurtherMessages
    OnceInOrder
    CalledAlive
PROPERTIES
    SilentAfterGoodbye
