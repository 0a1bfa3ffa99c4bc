\* Two servers on one state file, one assignment, two crashes or stops; submissions through the tool.
CONSTANTS
    Sessions = {s1}
    Runs = {s1}
    NoRun = NoRun
    NoSession = NoSession
    Servers = {v1, v2}
    CancelReasons = {"user_requested"}
    BatchKeys = {s1}
    Callers = {"tool"}
    Cancels = {s1}
    Deadlines = {s1}
    MaxCrashes = 2
SYMMETRY Symmetry
SPECIFICATION Spec
INVARIANTS WriteAhead CanceledNeverRuns BoundRunIsStopped
PROPERTIES LaunchSettlesOnce UsesStoreAPI
