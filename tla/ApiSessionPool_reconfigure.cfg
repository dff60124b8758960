SPECIFICATION Spec
CONSTANTS
    Worker = {w1}
    Session = {s1}
    Size = 1
    ProbeAfter = 2
    MaxRequests = 1
    MaxConfigures = 2
    VersionGiven = TRUE
PROPERTY HeardRecently
