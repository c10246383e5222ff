SPECIFICATION Spec
CONSTANTS
  Procs = {lock, greeter}
  Owners = {lock}
  MaxStep = 3
  MaxGen = 1
PROPERTY MatchedCodeAccepted
