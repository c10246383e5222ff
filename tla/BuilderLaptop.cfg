CONSTANTS
  Pkgs = {1, 2, 3}
  Versions = {1, 2}
  Needs <- MCNeeds
  Tree <- MCTree
  Listed = {1, 2}
  BuildOnly <- MCBuildOnly
  Bases = {1, 2}
  Laptop = TRUE
  Typos = FALSE
  MaxEdits = 2
  MaxFaults = 1
SPECIFICATION Spec
INVARIANT RootFresh
