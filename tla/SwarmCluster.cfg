SPECIFICATION Spec
CONSTANTS
    m1 = m1
    m2 = m2
    m3 = m3
    Members = {m1, m2, m3}
    NoMember = NoMember
    Rosters = {{m1, m2, m3}}
    Base <- MCBase
    Rank <- MCRank
    MaxDrift = 1
    Lease = 4
    Safety = 2
    Window = 2
    Margin = 0
    Renew = 2
    Stagger = 1
    MaxTerm = 2
    QuietEnrol = TRUE
    Inputs <- MCInputs
    MaxTime = 3
    MaxCampaigns = 2
    MaxEnrols = 1
INVARIANTS TypeOK OneLeader EpochFenced
PROPERTY ImplementsLease
CHECK_DEADLOCK FALSE
