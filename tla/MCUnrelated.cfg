CONSTANTS
    demo = demo
    old = old
    f = f
    g = g
    other = other
    Names = {demo, old, f, g, other}
    Nothing = Nothing
    Star = Star
    Targets <- MCTargets
    Definitions <- MCDefinitions
    Files <- MCFewFiles
SPECIFICATION CheckSpec
INVARIANT
    UnrelatedImportsIgnored
CHECK_DEADLOCK FALSE
