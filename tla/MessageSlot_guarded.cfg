SPECIFICATION FairSpec
CONSTANTS
    MaxMessage = 3
    MaxCalls = 2
    Handler = {h1, h2}
    NoThread = NoThread
    Unguarded = {}
    Teleports = {}
INVARIANTS
    TypeOK
    OneToken
PROPERTIES
    CommitsCurrent
    NoAnswerAfterDeadline
    ImplementsLine
    QuestionEnds
