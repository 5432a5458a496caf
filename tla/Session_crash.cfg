CONSTANTS
    PipeCap = 2
    BufCap = 2
    BUF_SIZE = 2
    NarEnd <- NarToken
    Newline <- NewlineWord
    Scripts <- CrashNarScripts
    Answers <- MCAnswers
    Logs <- MCLogs
    MaxLogs = 1
    EarlyLogs = 1
    Crashing = {"client", "daemon"}
SPECIFICATION Spec
INVARIANTS Aligned SameOperation
PROPERTIES UpIsLink DownIsLink
