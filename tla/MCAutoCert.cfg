SPECIFICATION FairSpec
CONSTANTS
    Requesters <- MCRequesters
    Names <- MCNames
    NameOf <- MCNameOf
    CSRNames <- MCCSRNames
    CSRName <- MCCSRName
    References = {"reference"}
    Faulty <- MCFaulty
    MaxRequests <- MCMaxRequests
    MaxFaults = 1
    Nil = Nil
    Empty = Empty
INVARIANTS
    TypeOK
    CertMatchesKey
    NoCSRLeftBehind
    PollIsAnswered
PROPERTIES
    RequestReturns
