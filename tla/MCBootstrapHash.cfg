SPECIFICATION FairSpec
CONSTANTS
    Nodes <- MCNodes
    NoSeeder = "-"
    Tokens <- MCTokens
    NodeConfigs <- HashNodeConfigs
    MaxFaults = 0
    MaxResets = 0
PROPERTY
    HashedMinionJoins
