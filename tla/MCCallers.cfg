CONSTANTS
    demo = demo
    old = old
    f = f
    g = g
    other = other
    Names = {demo, old, f, g, other}
    Nothing = Nothing
    Star = Star
    Targets <- MCTargets
    Definitions <- MCDefinitions
    Files <- MCFiles
SPECIFICATION CheckSpec
INVARIANTS
    CallersFound
    ConsumersCall
CHECK_DEADLOCK FALSE
