SPECIFICATION Spec
CONSTANTS
    s1 = s1
    s2 = s2
    s3 = s3
    Server <- ThreeServers
    Config <- ThreeVoters
    MaxTerm = 2
    MaxFaults = 1
    MaxPolls = 2
    Impatient <- Rivals
SYMMETRY RivalSymmetry
INVARIANTS
    TypeOK
    PolledCampaign
