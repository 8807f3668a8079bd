CONSTANTS
    a = a
    b = b
    None = None
    Unreadable = Unreadable
    Contents = {a, b}
    RegistryEdits = {a, b, None, Unreadable}
    Clients = {p1, p2}
    Confirmers = {p1, p2}
    Results <- MCResults
SPECIFICATION FairSpec
INVARIANTS
    TypeOK
    CommitAtomic
    RegistryFollowsAdoption
PROPERTIES
    PendingKeptUntilCommitted
    ImplementsAdoption
    PendingRecovered
