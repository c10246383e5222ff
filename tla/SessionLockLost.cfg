\* "THE EXIT CODE IS THE CONTRACT, AND 0 MEANS ONE THING" (lock.c:698), when the
\* connection is lost after try_unlock.
SPECIFICATION FairSpec
CONSTANTS
  Outputs = {o1, o2}
  MaxOutputs = 2
  MaxEntry = 3
  CodeLen = 0
  Sizes = {1, 2}
  AllocFaults = TRUE
  MaxQueue = 2
  MaxDeaths = 1
  NoOutput = NoOutput
PROPERTY ExitStatusHonest
