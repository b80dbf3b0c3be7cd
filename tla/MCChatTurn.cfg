SPECIFICATION MCSpec
CONSTANTS
    q1 = q1
    q2 = q2
    Requests = {q1, q2}
    Deltas = 1
    MaxDeletes = 1
    MaxKeepalives = 1
    MaxRestarts = 1
    Chats = {ca, cb}
    NoChat = NoChat
    MaxScreen = 2
    Views = {v1, v2}
    Filters = {f1, f2}
    MaxLoads = 2
    MaxVersion = 2
    Pieces <- MCPieces
    MaxTurns = 2
    Rows = {m1, mf}
    FocusKeys = {mf}
    NoRow = NoRow
    MaxTexts = 1
    MaxRequests = 2
CHECK_DEADLOCK FALSE
INVARIANT ReadIsSaved
PROPERTY ImplementsTranscript
INVARIANT ScreenIsOneChat
INVARIANT ListIsCurrent
INVARIANT EditorKeepsCalls
INVARIANT EditsStayWithTheirRow
