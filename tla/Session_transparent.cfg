CONSTANTS
    PipeCap = 2
    BufCap = 3
    BUF_SIZE = 2
    NarEnd <- NarToken
    Newline <- NewlineWord
    Scripts <- PairScripts
    Answers <- MCAnswers
    Logs <- MCLogs
    MaxLogs = 2
    EarlyLogs = 1
    Crashing = {}
SPECIFICATION Spec
INVARIANTS TypeOK NoStrandedAnswer Aligned SameOperation HeldFits
PROPERTIES UpIsLink DownIsLink
