CHECK_DEADLOCK FALSE
SPECIFICATION FairSpec
CONSTANTS
    w1 = w1
    w2 = w2
    a = a
    aPretty = aPretty
    b = b
    da = da
    db = db
    Invalid = Invalid
    None = None
    Writers <- TwoWriters
    Drafts <- TwoLayouts
    Proposals <- Canonical
    Digest <- Digests2
    HandEdits <- AllEdits
INVARIANT TypeOK
PROPERTY ConsentBeforeRegistry
PROPERTY DraftCleaned
