SPECIFICATION FairSpec
CONSTANTS
    Nodes <- MCNodes
    NoSeeder = "-"
    Tokens <- MCTokens
    NodeConfigs <- MCNodeConfigs
    MaxFaults = 1
    MaxResets = 1
INVARIANTS
    TypeOK
    ReadyMeansComplete
    FlannelReferences
PROPERTIES
    ApprovalRuleNeverReturns
    ApprovalRuleGoes
    CleanSeederBecomesReady
    CleanMinionJoins
