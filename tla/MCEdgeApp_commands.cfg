SPECIFICATION Spec
CONSTANTS
    a1 = a1
    a2 = a2
    id1 = id1
    id2 = id2
    Apps <- MCApps
    Images <- MCImages
    ImageIDs <- MCImageIDs
    IDOf <- MCIDOf
    Manifests <- MCManifests
    NoRecord = NoRecord
    NoApp = NoApp
    NoManifest = NoManifest
    MaxNetworkIndex = 2
    MaxFaults = 1
    MaxRestarts = 1
    ContainersDie = FALSE
    ContainersVanish = FALSE
INVARIANTS
    TypeOK
    NoOrphans
    DiskMissesOnlyInitiated
    ExactContainers
    AtRest
    UnusedStayUnused
    DistinctNetworkNumbers
PROPERTIES
    RefusedOnlyWhenFull
    Isolation
    StartsLastFirst
    NeverDowngrades
    UpdateKeepsNeededImages
    RemovalForgetsNoImage
    DeletedNodeForgetsNothing
    ImplementsLifecycle
