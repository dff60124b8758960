SPECIFICATION FairSpec
CONSTANTS
  b1 = b1
  b2 = b2
  n1 = n1
  n2 = n2
  n3 = n3
  v1 = v1
  v2 = v2
  NoItem = NoItem
  NoId = NoId
  Block <- Blocks
  Name <- TwoNames
  Value <- TwoValues
  Transport = "REST"
  IdType = "Id"
  UniqueNames = FALSE
  Importing = {}
  MaxObjects = 5
  MaxFaults = 2
  MaxOutside = 0
  MaxEdits = 1
INVARIANTS
  CreatedIsRecorded
  SuccessIsTrue
PROPERTY
  Converges
