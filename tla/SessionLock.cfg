\* Two outputs, so that one can come or go while the other is being drawn, and
\* as many slots; a key file is enough, so that Enter alone decides.
SPECIFICATION FairSpec
CONSTANTS
  Outputs = {o1, o2}
  MaxOutputs = 2
  MaxEntry = 3
  CodeLen = 0
  Sizes = {1, 2}
  AllocFaults = TRUE
  MaxQueue = 2
  MaxDeaths = 1
  NoOutput = NoOutput
INVARIANTS NoProtocolError EveryOutputCovered KeyboardReturns
PROPERTIES ImplementsLocker FactorUnlocks
