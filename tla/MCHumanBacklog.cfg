SPECIFICATION BacklogSpec
CONSTANTS
  Items = {1, 2, 3}
  Updates = {u1}
  DefaultPageSize = 1
  MaxPageSize = 2
  MaxNow = 3
INVARIANTS
  UntouchedItemsAreWalkedOnce
CHECK_DEADLOCK FALSE
