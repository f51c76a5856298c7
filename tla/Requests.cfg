SPECIFICATION Spec
CONSTANTS
    s1 = s1
    s2 = s2
    s3 = s3
    w1 = w1
    r1 = r1
    Server <- ThreeServers
    Self = s1
    Config <- ThreeVoters
    Nil = Nil
    Write = {w1}
    Read = {r1}
    Contender <- TwoTerms
    MaxRounds = 2
    MaxRequests = 1
    Windows = {}
INVARIANTS
    TypeOK
    AckedIsDecided
    LinearizableRead
    ReadIsApplied
PROPERTIES
    EveryRequestAnswered
    DeposedLeaderYields
