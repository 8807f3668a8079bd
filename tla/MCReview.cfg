CONSTANTS
    p = p
    q = q
    f = f
    g = g
    h = h
    s = s
    once = once
    twice = twice
    pair = pair
    trio = trio
    broken = broken
    None = None
    Symbols = {f, g, h}
    Paths = {p, q}
    Sources = {once, twice, pair, trio, broken}
    Facts <- MCFacts
    Broken = {broken}
    Undecodable = Undecodable
    Absent = Absent
    Missing = Missing
    Similar <- MCSimilar
    Commits <- MCCommits
    ExceptionSets <- MCExceptions
    Invalid = Invalid
    MaxDay = 1
    MaxDisturbed = 2
SPECIFICATION Spec
INVARIANTS
    TypeOK
    DeltaIsPartition
    GateMissesNothing
    IntroducedIsNew
CHECK_DEADLOCK FALSE
