SPECIFICATION Spec
CONSTANTS
    k1 = k1
    c1 = c1
    nobody = nobody
    Key <- OneKey
    Client <- OneClient
    Anonymous <- nobody
    SweepInterval = 2
    SessionTTL = 1
    Logs <- SmallLogs
    Meaning <- Replays
    Windows = {}
    CompactionThreshold = 2
    MaxTail = 1
    MaxFailures = 1
    MaxCrashes = 1
INVARIANTS
    TypeOK
    
    
    ExactlyOnce
    

    
