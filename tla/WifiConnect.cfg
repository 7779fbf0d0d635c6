CONSTANTS
    c1 = c1
    c2 = c2
    Callers = {c1}
    NoCaller = NoCaller
    CallKinds <- MCKinds
    Threaded = FALSE
    QueueSize = 1
SPECIFICATION FairSpec
INVARIANTS
    TypeOK
    WokenByVerdict
    ErrorNamesPhase
    ConnectingMeansCall
PROPERTY CallReturns
