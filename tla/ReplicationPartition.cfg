SPECIFICATION Spec
CONSTANTS
    s1 = s1
    s2 = s2
    s3 = s3
    s4 = s4
    s5 = s5
    Server <- ThreeServers
    Config <- ThreeVoters
    Nil = Nil
    Windows = {"append", "round", "build"}
    MaxTerm = 3
    Contenders <- Alternate
    Links <- Partition
    MaxIndex = 2
    MaxFaults = 1
    MaxLate = 1
INVARIANTS LeaderComplete MatchIsHeld 
PROPERTY OneCommittedLog
CHECK_DEADLOCK FALSE
