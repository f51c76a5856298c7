SPECIFICATION Spec
CONSTANTS
    s1 = s1
    s2 = s2
    s3 = s3
    Server <- ThreeServers
    Config <- ThreeVoters
    Nil = Nil
    MaxTerm = 2
    MaxFaults = 1
    MaxRounds = 1
    Impatient <- Rivals
SYMMETRY RivalSymmetry
INVARIANTS
    TypeOK
    OneVotePerTerm
    ElectionSafety
    LeaderWasPromoted
PROPERTY TermNeverRegresses
