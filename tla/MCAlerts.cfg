\* One engine or two, with late events, operators who open alerts again, and failures.
SPECIFICATION FairSpec
CONSTANTS
    e1 = e1
    e2 = e2
    e3 = e3
    ip1 = ip1
    n1 = n1
    n2 = n2
    s1 = s1
    u1 = u1
    g1 = g1
    g2 = g2
    Engines = {g1, g2}
    Deployments <- OneOrTwoEngines
    Events = {e1, e2, e3}
    Event <- TwoLoginsAndACommand
    Scores <- OneScore
    Window = 0
    Cooldown = 1
    BruteForceThreshold = 2
    CredentialSprayThreshold = 2
    MultiNodeScanThreshold = 2
    HighRiskScore = 75
    Statuses = {"open", "acknowledged"}
    MaxTime = 1
    MaxFailure = 1
    Null = Null
INVARIANTS
    Evidence
PROPERTIES
    CooldownRespected
    NeverRewritten
    SeenInTheEnd
