SPECIFICATION FairSpec
CONSTANTS
    Apps = {a1}
    NoApp = NoApp
    Containers = {c1, c2}
    Bare = {c2}
    MaxLines = 2
    MaxFaults = 2
    MaxWritten = 3
    MaxKills = 1
INVARIANTS
    NothingSkipped
    NothingTwice
PROPERTIES
    EventuallySent
