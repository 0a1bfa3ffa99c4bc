\* Two keys in one workspace.
CONSTANTS
    Requests = {k1, k2}
    NoRequest = NoRequest
    Scope <- ScopeOf
    Policies <- PolicySet
SPECIFICATION FairSpec
INVARIANTS PermitHasOneHolder
PROPERTIES PermitOutlivesRun PermitComesBack
