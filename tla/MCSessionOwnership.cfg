SPECIFICATION FairSpec
CONSTANTS
    Nodes = {n1, n2}
    NoNode = NoNode
    First = n1
    MaxConnects = 2
    MaxFaults = 1
PROPERTY TakeoverEvictsSource
 
CHECK_DEADLOCK FALSE
