SPECIFICATION Spec
CONSTANTS
  v1 = v1
  v2 = v2
  Applied <- DateAndTime
  Other <- TimeZone
  Value <- TwoValues
  Elsewhere = Elsewhere
  Null = Null
  NoBlock = NoBlock
  FaultPoints = {"read", "create", "update"}
SYMMETRY Symmetry
INVARIANT
  AskedIsDone
