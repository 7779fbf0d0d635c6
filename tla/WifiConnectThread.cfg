CONSTANTS
    c1 = c1
    c2 = c2
    Callers = {c1, c2}
    NoCaller = NoCaller
    CallKinds <- MCKindsOne
    Threaded = TRUE
    QueueSize = 2
SPECIFICATION Spec
INVARIANTS
    ResultOutlivesHandlers
    DisconnectSemaTransient
SYMMETRY MCSymmetry
