\* One server with two concurrent calls, one session, one crash.
CONSTANTS
    v1 = v1
    v2 = v2
    c1 = c1
    c2 = c2
    Sessions = {s1}
    Runs = {s1}
    NoRun = NoRun
    NoSession = NoSession
    Servers = {v1}
    NoServer = NoServer
    Calls = {c1, c2}
    Owner <- OneServer
    CancelReasons = {"user_requested"}
    CallKinds = {"cancel", "expire", "reconcile", "timedOut", "capture"}
    Supported = TRUE
    MaxTime = 2
    MaxCrashes = 1
SYMMETRY CallSymmetry
SPECIFICATION Spec
INVARIANTS StoreAccepts CancellationIsOwed ExpiredRunIsStopped OutcomeIsObserved
PROPERTIES UsesStoreAPI ResultIsKept
