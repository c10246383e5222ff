\* The preprocessor on programs whose meaning C fixes.
SPECIFICATION FairSpec
CONSTANTS
    Sources <- SourcesVal
    Files <- FilesVal
    MaxDepth = 20
INVARIANT ExpandsAsC
PROPERTY RunawayStopped
CHECK_DEADLOCK FALSE
