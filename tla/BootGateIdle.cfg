SPECIFICATION Spec
CONSTANTS
  LegacyConf = "absent"
  MaxFaults = 3
  MaxBoots = 1
PROPERTY IdleLocks
