\* Two servers on one store: user cancels and sweeps, one crash, no deadline.
CONSTANTS
    v1 = v1
    v2 = v2
    c1 = c1
    c2 = c2
    Sessions = {s1}
    Runs = {s1}
    NoRun = NoRun
    NoSession = NoSession
    Servers = {v1, v2}
    NoServer = NoServer
    Calls = {c1, c2}
    Owner <- TwoServers
    CancelReasons = {"user_requested"}
    CallKinds = {"cancel", "reconcile"}
    Supported = TRUE
    MaxTime = 0
    MaxCrashes = 1
SPECIFICATION FairSpec
INVARIANTS OneClaimant
PROPERTIES CancellationSettles
