SPECIFICATION Spec
CONSTANTS
    s1 = s1
    s2 = s2
    s3 = s3
    s4 = s4
    s5 = s5
    Server <- FiveServers
    Config <- FiveVoters
    Nil = Nil
    Windows = {"build"}
    MaxTerm = 2
    Contenders <- Alternate
    Links <- Straggler
    MaxIndex = 2
    MaxFaults = 0
    MaxLate = 0
INVARIANT LogMatching
