SPECIFICATION Spec
CONSTANTS
    Apps = {a1}
    NoApp = NoApp
    Reached = {"Unknown", "Initiated", "Executing", "Running", "Stopped", "Error", "Deleted"}
    Modules = 2
    Containers = {c1, c2}
    Reporters = {"heartbeat"}
    Watched = {"heartbeat"}
    MaxEntries = 1
    MaxFaults = 0
PROPERTIES
    EntryWasTrue
