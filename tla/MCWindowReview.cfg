CONSTANTS
    r = r
    f = f
    home = home
    other = other
    def = def
    call = call
    odd = odd
    Paths = {home, other}
    Sources = {def, call, odd}
    Undecodable = Undecodable
    Link = Link
    Absent = Absent
    Missing = Missing
    None = None
    Undo = FALSE
    MaxPast = 2
    Rules = {r}
    Home <- MCHome
    Functions = {f}
    Defines <- MCDefines
    Callers <- MCCallers
    Unclear <- MCUnclear
    Similar <- MCSimilar
    Commits <- MCCommits
    MaxDisturbed = 2
SPECIFICATION MCSpec
INVARIANTS
    TypeOK
    SnapshotIsInstant
    CompleteReportIsExact
    SelfModifiedNeverPasses
    AddedIsNew
    DeletionsTolerated
CHECK_DEADLOCK FALSE
