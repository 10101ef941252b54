SPECIFICATION FairSpec
CONSTANTS
    Apps = {a1, a2}
    NoApp = NoApp
    Reached = {"Unknown", "Initiated", "Running"}
    Modules = 0
    Containers = {}
    Reporters = {"heartbeat", "monitor"}
    Watched = {}
    MaxEntries = 2
    MaxFaults = 1
PROPERTIES
    RetainedBecomesTrue
    OneChangeNoticed
