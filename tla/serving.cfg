SPECIFICATION FairSpec
CONSTANTS
    l1 = l1
    l2 = l2
    Launchers <- MCLaunchers
    Probed <- MCProbed
    MaxDaemons = 2
    MaxCalls <- MCMaxCalls
    NoCall = NoCall
INVARIANTS
    TypeOK
    OneAtATime
    EachCallOnce
    BrokenHasCause
PROPERTIES
    ImplementsCalls
    CallsEnd
CHECK_DEADLOCK FALSE
