CONSTANTS
    Sources <- AllSources
    Nars <- NarsInMemory
    Modes = {"stream", "whole"}
    MaxDepth = 2
    BufLen = 3
    Align = 4
    NameOrder <- Names
SPECIFICATION FairSpec
INVARIANTS TypeOK CopiesWhatItReads FindsTheEnd OverflowsOnlyTooDeep RefusesTheCut SortIsCanonical
PROPERTIES EndsUnlessCut
