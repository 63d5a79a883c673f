SPECIFICATION Spec
CONSTANTS
    Peers = {"p", "q"}
    Outbound = {"p"}
    Whitelisted = {}
    Genesis = "g"
    Prev <- Tree
    Window = 1
    MaxHeaders = 2
    MaxAnnounce = 2
    MaxCompact = 1
    KeepBlocks = 2
    Recent = {FALSE}
    Worlds <- Situations
INVARIANTS
    QueuesMatchMap
    SlotsInUse
    CommonIsStored

    
CHECK_DEADLOCK FALSE
