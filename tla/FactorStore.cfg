SPECIFICATION Spec
CONSTANTS
  NumSlots = 2
  Paths = {p1, p2}
  Keys = {k1, k2}
  Removable = {p1, p2}
  AllowOndiskKeyfile = FALSE
  WriteFaults = {"enrol"}
  MaxMasters = 2
  NoPath = NoPath
  NoKey = NoKey
INVARIANTS EnrolledHasWrap GateHasKey TotpHasSeed
PROPERTIES OtherPathsKept ImplementsKeySlots
