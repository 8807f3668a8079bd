CONSTANTS
    prompt = prompt
    stop = stop
    mine = mine
    None = None
    Unreadable = Unreadable
    Empty = Empty
    Contents = {a}
    RegistryEdits = {Unreadable}
    Clients = {p1, c1}
    Installers = {p1}
    Events = {prompt, stop}
    Others = {Empty, mine}
    HostEdits <- AllEdits
SPECIFICATION FairSpec
INVARIANTS
    TypeOK
    HooksFollowLifecycle
    AdoptedWasShown
    CreatedFileRemoved
PROPERTIES
    PendingKeptUntilCommitted
    OthersContentKept
    SetupResumed
