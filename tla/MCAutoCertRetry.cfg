SPECIFICATION Spec
CONSTANTS
    Requesters <- LoneRequester
    Names <- LoneName
    NameOf <- LoneNameOf
    CSRNames = {"own-csr"}
    CSRName <- LoneCSRName
    References = {}
    Faulty <- LoneFaulty
    MaxRequests <- LoneMaxRequests
    MaxFaults = 1
    Nil = Nil
    Empty = Empty
INVARIANT
    StoredPairMatches
