CONSTANTS
    a = a
    stop = stop
    None = None
    Unreadable = Unreadable
    Empty = Empty
    Contents = {a}
    RegistryEdits = {None, a}
    Clients = {s1, p1}
    Installers = {s1}
    Confirmers = {p1}
    Events = {stop}
    Others = {Empty}
    HostEdits <- MCHostEdits
    Results <- MCOneAdd
SPECIFICATION ManagedSpec
PROPERTIES
    ImplementsInstallation
    TrustMovesOnlyByConsent
