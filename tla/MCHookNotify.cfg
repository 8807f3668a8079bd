CONSTANTS
    r = r
    q = q
    x = x
    y = y
    None = None
    Timeout = Timeout
    SlowChecks = TRUE
    Hooks = {h1, h2}
    Rules = {r, q}
    Sites = {x, y}
    Trees <- TwoTrees
SPECIFICATION FairSpec
INVARIANTS
    TypeOK
    SuppressedIsLogged
PROPERTIES
    StateConverges
    RepeatOnlyAfterOutdated
