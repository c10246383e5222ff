SPECIFICATION MediaSpec
CONSTANTS
  Devs = {1, 2, 3, 4}
  Boot = 1
  Unmountable = {4}
  Maintenance = TRUE
  MaxTry = 2
  NoDev = NoDev
INVARIANT BootDiskNeverMounted
