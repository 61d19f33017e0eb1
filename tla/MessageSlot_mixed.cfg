SPECIFICATION Spec
CONSTANTS
    MaxMessage = 3
    MaxCalls = 2
    Handler = {h1, h2}
    NoThread = NoThread
    Unguarded = {1}
    Teleports = {2}
SYMMETRY HandlerSymmetry
INVARIANTS
    GuardedOnce
