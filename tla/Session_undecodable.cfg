CONSTANTS
    PipeCap = 2
    BufCap = 2
    BUF_SIZE = 2
    NarEnd <- NarToken
    Newline <- NewlineWord
    Scripts <- UnknownScripts
    Answers <- MCAnswers
    Logs <- MCLogs
    MaxLogs = 1
    EarlyLogs = 0
    Crashing = {}
SPECIFICATION Spec
INVARIANTS ClosesOnUndecodable
