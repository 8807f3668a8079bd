CONSTANTS
    f = f
    padded = padded
    Symbols = {f}
    Canonical = Canonical
    Spellings = {Canonical, padded}
    MaxRules = 2
    Unreadable = Unreadable
    None = None
    Contents <- MCContents
    RegistryEdits <- MCRegistryEdits
SPECIFICATION Spec
INVARIANTS
    ChangesParse
PROPERTIES
    RegistryContinues
    AnswersUnderTrust
