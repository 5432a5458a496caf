CONSTANTS
    PipeCap = 2
    BufCap = 2
    BUF_SIZE = 2
    NarEnd <- NarToken
    Newline <- NewlineWord
    Scripts <- CrashNewerScripts
    Answers <- NewerAnswers
    Logs <- NewerLogs
    MaxLogs = 1
    EarlyLogs = 1
    Crashing = {"client", "daemon"}
SPECIFICATION FairSpec
PROPERTIES OpAnswered DownIsLink
