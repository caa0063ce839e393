SPECIFICATION FairSpec
CONSTANTS
  o1 = o1
  o2 = o2
  Objects = {o1, o2}
  Appends = {a1, a2, a3}
  NoAppend = NoAppend
  TypeOf <- MCTypeOf
  RowExists = TRUE
INVARIANTS
  OneEntryPerObject
  SuccessfulAppendIsListed
PROPERTIES
  EntriesAreNeverLost
  BegunAppendsReturn
  ImplementsSddIndex
