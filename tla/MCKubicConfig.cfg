SPECIFICATION Spec
CONSTANTS
    Hosts <- MCHosts
    BadHosts <- MCBadHosts
    HttpHosts <- MCHttpHosts
    IPv6Hosts <- MCIPv6Hosts
    Ports <- MCPorts
    Strings <- MCStrings
    Files <- MCFiles
    Seeders <- MCSeeders
    VarLists <- MCVarLists
INVARIANTS
    TypeOK
    Precedence
    SeederIsEndpoint
    UploadReloads
