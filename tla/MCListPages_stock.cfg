CONSTANTS
  PerMilli = 2
  NoSort = NoSort
  NoCursor = NoCursor
  RowIds = {1, 2}
  MaxTime = 2
  MaxShown = 3
  RawLists <- AllLists
  RawQueries <- mcQueries
SPECIFICATION Spec
INVARIANTS
  PagesShowEachOnce
CHECK_DEADLOCK FALSE
