SPECIFICATION Spec
CONSTANTS
    s1 = s1
    s2 = s2
    s3 = s3
    s4 = s4
    s5 = s5
    Server <- ThreeServers
    Config <- ThreeVoters
    Nil = Nil
    Windows = {}
    MaxTerm = 3
    Contenders <- TakeTurns
    Links <- AllLinks
    MaxIndex = 2
    MaxFaults = 0
    MaxLate = 0
INVARIANTS TypeOK LogMatching MatchIsHeld CommittedAgree
PROPERTIES OneCommittedLog LeaderAppendOnly
CHECK_DEADLOCK FALSE
