SPECIFICATION Spec
CONSTANTS
  b1 = b1
  b2 = b2
  n1 = n1
  n2 = n2
  n3 = n3
  v1 = v1
  v2 = v2
  NoItem = NoItem
  NoId = NoId
  Block <- Blocks
  Name <- TwoNames
  Value <- OneValue
  Transport = "API"
  IdType = "Id"
  UniqueNames = FALSE
  Importing = {b1}
  MaxObjects = 5
  MaxFaults = 1
  MaxOutside = 2
  MaxEdits = 1
SYMMETRY Symmetry
PROPERTY ImportSucceeds
