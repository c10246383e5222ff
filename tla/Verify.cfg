\* The session's lock and a console, both of which run as veron; two time steps,
\* the last accepted one and a later or an earlier one.
SPECIFICATION Spec
CONSTANTS
  Procs = {lock, login}
  Owners = {lock, login}
  MaxStep = 2
  MaxGen = 2
PROPERTIES ReplayNeedsRace NoFactorSkipped
