SPECIFICATION FairSpec
CONSTANTS
    Conv = {1, 2}
    Cids = {0, 1}
    MaxSess = 3
    MaxPkts = 4
    AcceptCap = 2
    InputCap = 1
INVARIANT ListedWhileLive
 
CHECK_DEADLOCK FALSE
