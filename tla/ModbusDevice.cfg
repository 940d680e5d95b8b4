SPECIFICATION Spec
CONSTANTS
  None = None
  EventCap = 2
  WordMax = 3
  WordBits = 2
  PlusOne <- SmallPlusOne
  Addresses <- SmallAddresses
  Counts <- SmallCounts
  Limits <- ReadLimits
  Vectors <- SmallVectors
  LongVectors <- LimitVectors
  Masks <- SmallMasks
  Records <- SmallRecords
  Stores <- SmallStores
  Identities <- SmallIdentities
  Busy <- BusyKinds
INVARIANTS
  
  ReadsWhatWasWritten
  OnlyWritableChange
  WholeValues
  OnlyStringsHang
  LogIsCounted
  LengthsAgree
  NothingLost
CHECK_DEADLOCK FALSE
