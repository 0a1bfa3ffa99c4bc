\* One server, two assignments, one crash or stop; submissions through the tool, launch() and launchBatch().
CONSTANTS
    Sessions = {s1, s2}
    Runs = {s1, s2}
    NoRun = NoRun
    NoSession = NoSession
    Servers = {v1}
    CancelReasons = {"user_requested"}
    BatchKeys = {s1}
    Callers = {"launch", "tool"}
    Cancels = {s2}
    Deadlines = {}
    MaxCrashes = 1
SPECIFICATION FairSpec
PROPERTIES ReservedIsResolved BatchIsWhole
