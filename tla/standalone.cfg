CONSTANTS
  Rows = {0, 1, 3, 6}
  LinearBound = 13
  ExtendibleBound = 10
  TABLE_MAX_PAGES = 3
  Contents = {0, 1, 2}
SPECIFICATION Spec
INVARIANTS LoadBounded NoRowLost DirectoryWhole StoredIsFound SearchComplete WrittenBack
PROPERTIES OthersKept
CHECK_DEADLOCK FALSE
