CONSTANTS
  Threads = {a, b}
  Vectors = {v, w}
  Storages = {1, 2, 3, 4, 5, 6}
  Elements = {x}
  Calls = {"push_back", "remove", "removeFirst", "assign"}
  MaxLen = 3
  Null = Null
SPECIFICATION FairSpec
ACTION_CONSTRAINT LowestFree
INVARIANTS NoSharedWrite
PROPERTIES Isolated LockReleased
