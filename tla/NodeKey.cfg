SPECIFICATION Spec
CONSTANTS
    MaxRuns = 3
    MaxOrgKeys = 3
    MaxDeploys = 2
INVARIANTS
    PublishedKeyIsKept
    HashIsOfKeyInUse
    RejectedOnlyForWantOfKey
CHECK_DEADLOCK FALSE
