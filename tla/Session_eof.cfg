CONSTANTS
    PipeCap = 2
    BufCap = 2
    BUF_SIZE = 2
    NarEnd <- NarToken
    Newline <- NewlineWord
    Scripts <- WholeScripts
    Answers <- MCAnswers
    Logs <- MCLogs
    MaxLogs = 1
    EarlyLogs = 0
    Crashing = {}
SPECIFICATION FairSpec
PROPERTIES ClosesOnEof
