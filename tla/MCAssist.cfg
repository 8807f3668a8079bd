CONSTANTS
    x = x
    y = y
    z = z
    r1 = r1
    r2 = r2
    inventory_ = inventory_
    other_ = other_
    LastPath = 3
    Dir <- MCDir
    Contents <- MCContents
    Undecodable = Undecodable
    Absent = Absent
    Missing = Missing
    None = None
    Marks <- MCMarks
    Similar <- MCSimilar
    Commits <- MCCommits
    Registries = {r1, r2}
    Responses <- MCResponses
    MaxFiles = 2
    MaxText = 6
    MaxQuestions = 3
    MaxAnchors = 6
    MaxAnchorLines = 30
    MaxChanges = 1
SPECIFICATION Spec
INVARIANTS
    TypeOK
    CompletePacketShowsAll
    AnchoredIsExact
CHECK_DEADLOCK FALSE
