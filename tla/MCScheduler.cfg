\* Two permits; two requests with one ID, three others, one recovered run.
CONSTANTS
    a1 = a1
    a2 = a2
    b = b
    c = c
    d = d
    e = e
    Requests = {a1, a2, b, c, d, e}
    NoRequest = NoRequest
    Id <- IdOf
    Scope <- ScopeOf
    Policies <- PolicySet
    Abortable = {a1, b, c}
    Existing = {e}
SPECIFICATION FairSpec
PROPERTIES LimitsHold NobodyIsOvertaken QueuedIsServed
