SPECIFICATION FairSpec
CONSTANTS
    Units <- UnitsVal
    Architectures = {"amd64", "aarch64"}
    StackWords = 60
INVARIANT RunsAsC
PROPERTY Halts
CHECK_DEADLOCK FALSE
