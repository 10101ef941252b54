SPECIFICATION RetrySpec
CONSTANTS
    a1 = a1
    a2 = a2
    id1 = id1
    id2 = id2
    Apps <- MCOneApp
    Images <- MCTags
    ImageIDs <- MCImageIDs
    IDOf <- MCIDOf
    Manifests <- MCVersions
    NoRecord = NoRecord
    NoApp = NoApp
    NoManifest = NoManifest
    MaxNetworkIndex = 1
    MaxFaults = 2
    MaxRestarts = 1
    ContainersDie = TRUE
    ContainersVanish = TRUE
INVARIANTS
    NoOrphans
    AtRest
PROPERTIES
    HandlerReturns
    Recoverable
