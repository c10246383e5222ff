SPECIFICATION Spec
CONSTANTS
  Procs = {lock, login}
  Owners = {lock, login}
  MaxStep = 2
  MaxGen = 2
PROPERTY NoReplay
