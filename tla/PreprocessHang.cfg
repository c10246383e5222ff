\* Two macros that lead to each other, with an argument on the next line.
SPECIFICATION FairSpec
CONSTANTS
    Sources <- HangSources
    Files <- FilesVal
    MaxDepth = 3
PROPERTY Ends
CHECK_DEADLOCK FALSE
