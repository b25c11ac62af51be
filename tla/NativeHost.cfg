SPECIFICATION Spec
CONSTANTS
    Keys = {k1}
    MaxConnections = 2
    LastConn = 3
    LastReq = 4
CHECK_DEADLOCK FALSE
INVARIANTS
    TypeOK
    OneHelperTypes
    DownKeysHaveAHelper
    ConnectionsAreCounted
    AnsweredMeansOver
PROPERTIES
    EveryOperationEnds
