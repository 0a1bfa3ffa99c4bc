\* Deadlines are enforced and late results collected: cancels, expiries and sweeps, one crash.
CONSTANTS
    v1 = v1
    v2 = v2
    c1 = c1
    c2 = c2
    Sessions = {s1}
    Runs = {s1}
    NoRun = NoRun
    NoSession = NoSession
    Servers = {v1}
    NoServer = NoServer
    Calls = {c1, c2}
    Owner <- OneServer
    CancelReasons = {"user_requested"}
    CallKinds = {"cancel", "expire", "timedOut"}
    Supported = TRUE
    MaxTime = 1
    MaxCrashes = 1
SPECIFICATION FairStopSpec
PROPERTIES DeadlineIsEnforced LateResultIsCollected
