\* Two instances, two leases one after the other, locks that may be taken over.
CONSTANTS
    Instances = {i1, i2}
    Free = Free
    Leases = {l1, l2}
    NoLease = NoLease
    Targets = {1}
    Steals = TRUE
    MaxVersion = 3
SPECIFICATION Spec
SYMMETRY Symmetry
PROPERTIES FencedForGood ImplementsSingleWriter
