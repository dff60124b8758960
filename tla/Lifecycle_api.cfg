SPECIFICATION Spec
CONSTANTS
  b1 = b1
  b2 = b2
  n1 = n1
  n2 = n2
  n3 = n3
  v1 = v1
  v2 = v2
  NoItem = NoItem
  NoId = NoId
  Block <- Blocks
  Name <- TwoNames
  Value <- TwoValues
  Transport = "API"
  IdType = "Id"
  UniqueNames = TRUE
  Importing = {}
  MaxObjects = 5
  MaxFaults = 2
  MaxOutside = 1
  MaxEdits = 1
SYMMETRY Symmetry
INVARIANTS
  TypeOK
  CreatedIsRecorded
  SuccessIsTrue
  SecondPlanIsEmpty
PROPERTIES
  OnlyOwnObjects
  CustodySpec
