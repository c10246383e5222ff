SPECIFICATION WindowSpec
CONSTANTS
  Disks = {1, 2, 3}
  Boot = 2
  Internal = {3}
  Veron = {1, 2}
  NoDisk = 0
  MaxAsk = 3
PROPERTIES FollowUpAfterVerify
CHECK_DEADLOCK FALSE
