SPECIFICATION Spec
CONSTANTS
    Worker = {w1, w2, w3}
    Session = {s1, s2}
    Size = 2
    ProbeAfter = 1
    MaxRequests = 2
    MaxConfigures = 1
    VersionGiven = FALSE
SYMMETRY Symmetry
INVARIANTS TypeOK ExclusiveLending SessionsBounded NoLostWakeup
PROPERTIES HeardRecently ImplementsService
