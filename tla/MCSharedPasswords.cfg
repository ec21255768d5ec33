SPECIFICATION PSpec
CONSTANTS
    Clients <- MCClients
    Names <- MCNames
    Specs <- MCSpecs
    Programs <- MCPrograms
    Loads <- MCLoads
    MaxFaults = 1
    Nil = Nil
    Pending = Pending
    Error = Error
INVARIANTS
    PasswordTypeOK
PROPERTIES
    ImplementsStore
    SettledPasswordStays
