CONSTANTS
    prompt = prompt
    stop = stop
    mine = mine
    None = None
    Unreadable = Unreadable
    Empty = Empty
    Contents = {a}
    RegistryEdits = {}
    Clients = {p1}
    Installers = {p1}
    Events = {prompt, stop}
    Others = {Empty, mine}
    HostEdits <- FewEdits
SPECIFICATION FairSpec
PROPERTIES
    RepeatedDigestResumes
