SPECIFICATION Spec
CONSTANTS
    Apps = {a1, a2}
    NoRecord = NoRecord
    Statuses = {"Running", "Undeployed"}
    MaxRead = 1
INVARIANTS
    UnreadableOnlyIfTorn
    FileIsCurrent
