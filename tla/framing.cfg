SPECIFICATION Spec
CONSTANTS
    s1 = s1
    s2 = s2
    Senders = {s1, s2}
    Loops = {"peer", "direct"}
    Kinds <- SmallKinds
    Registering = {"Standard", "Custom"}
    Header = 2
    Width = 2
    MaxRead = 4
    Capacity = 4
    MaxMessages = 2
CHECK_DEADLOCK FALSE
INVARIANTS
    TypeOK
    WholeMessages
    StaysInStep
PROPERTIES
    ImplementsMessageStream
    EverythingArrives
    BackToSelect
