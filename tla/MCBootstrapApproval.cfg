SPECIFICATION Spec
CONSTANTS
    Nodes <- MCNodes
    NoSeeder = "-"
    Tokens <- MCTokens
    NodeConfigs <- ManualNodeConfigs
    MaxFaults = 0
    MaxResets = 0
INVARIANT
    ManualApprovalOnly
