SPECIFICATION Spec
CONSTANTS
  o1 = o1
  o2 = o2
  Objects = {o1, o2}
  Appends = {a1, a2}
  NoAppend = NoAppend
  TypeOf <- MCTypeOf
  RowExists = FALSE
PROPERTIES
  EntriesAreNeverLost
