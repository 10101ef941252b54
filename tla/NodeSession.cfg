SPECIFICATION FairSpec
CONSTANTS
    Commands = {c1, NodeDelete}
    NodeDelete = NodeDelete
    OrgKey = OrgKey
    NoMessage = NoMessage
    MayFail = {"orchestration"}
    MaxConnections = 2
INVARIANTS
    HandledInOrder
    TwiceOnlyIfCutOff
    DeletedIsReported
    DownIsDisconnected
PROPERTIES
    UpIsReported
    KeyComes
    CommandsComeThrough
CHECK_DEADLOCK FALSE
