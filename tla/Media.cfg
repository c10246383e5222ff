SPECIFICATION KickedSpec
CONSTANTS
  Devs = {1, 2, 3, 4}
  Boot = 1
  Unmountable = {4}
  Maintenance = FALSE
  MaxTry = 2
  NoDev = NoDev
INVARIANT StaleMountNoticed
PROPERTIES YankReleases StoppedMounts
