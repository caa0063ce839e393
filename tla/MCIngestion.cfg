SPECIFICATION FairSpec
CONSTANTS
  Requests = {r1, r2, r3}
  NoRequest = NoRequest
  IdemKeys = {k1}
  NoKey = NoKey
  Locators = {l1}
  Contents = {c1, c2}
INVARIANTS
  FourRowsOrNone
  OneObjectPerIdentity
  DuplicatesNameTheirOriginal
  DistinctTextsAreKept
PROPERTIES
  BegunIngestsAreAnswered
  ImplementsIdentityStore
