\* Three calls for one key in two servers, a call for another key.
CONSTANTS
    c1 = c1
    c2 = c2
    c3 = c3
    c4 = c4
    k1 = k1
    k2 = k2
    v1 = v1
    v2 = v2
    Calls = {c1, c2, c3, c4}
    Keys = {k1, k2}
    Key <- KeyOf
    NoRun = NoRun
    Request <- RequestOf
    Servers = {v1, v2}
    Server <- ServerOf
    Sweepers = {v2}
SPECIFICATION CoordinatorSpec
INVARIANTS IntentComesFirst BindingIsTheRun UnresolvedIsNotRetried AcceptedCanBeBound
PROPERTIES BindingLasts
CHECK_DEADLOCK FALSE
