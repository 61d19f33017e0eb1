SPECIFICATION Spec
CONSTANTS
    MaxMessage = 2
    MaxCalls = 2
    Handler = {h1, h2}
    NoThread = NoThread
    Unguarded = {}
    Teleports = {}
INVARIANTS
    LockHolderSets
