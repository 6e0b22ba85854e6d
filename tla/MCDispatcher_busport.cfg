CONSTANTS
    n1 = n1
    n2 = n2
    n3 = n3
    s1 = s1
    Nodes = {n1, n2, n3}
    Slots = {s1}
    StartupNodes = {n1, n2}
    ReadPrefer = "SLAVE"
    LocalNodes = {n1, n2}
    NodesBusPort = TRUE
    InitTopo <- OneRange
    MaxChanges = 3
    MaxTriggers = 2
    ReloadCanFail = TRUE
SPECIFICATION Spec
PROPERTY ReadsPreferReplicas
CHECK_DEADLOCK FALSE
