SPECIFICATION FairSpec
CONSTANTS
    MaxRounds = 7
    QueueMax = 2
    MaxLosses = 1
    MaxStrays = 2
    MaxMoves = 1
INVARIANTS
    KeyedAlike
    SettledOnPeer

    
CHECK_DEADLOCK FALSE
