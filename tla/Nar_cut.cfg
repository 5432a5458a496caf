CONSTANTS
    Sources <- CutContentsSources
    Nars <- NarsInMemory
    Modes = {"stream"}
    MaxDepth = 2
    BufLen = 3
    Align = 4
    NameOrder <- Names
SPECIFICATION FairSpec
PROPERTIES Ends
