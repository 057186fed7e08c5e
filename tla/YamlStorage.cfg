SPECIFICATION Spec
CONSTANTS
  Keys <- PathKeys
  Fields <- EntryKeys
  Values <- TwoValues
  Documents <- SmallDocuments
  MaxLoads = 3
  MaxWrites = 1
INVARIANTS
  TypeOK
  MockFaithful
  LoadRepairs
CHECK_DEADLOCK FALSE
