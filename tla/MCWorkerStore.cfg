\* One session, two run identities, two cancellation reasons, one instant.
CONSTANTS
    Sessions = {s1}
    Runs = {r1, r2}
    NoRun = NoRun
    CancelReasons = {"user_requested", "superseded"}
    MaxTime = 1
SYMMETRY RunSymmetry
SPECIFICATION Spec
INVARIANTS TypeOK CancellationIsWhole
PROPERTIES ImplementsContract
