SPECIFICATION FairSpec
CONSTANTS
  LegacyConf = "absent"
  MaxFaults = 3
  MaxBoots = 1
INVARIANT SessionVerified
PROPERTY GateOpens
