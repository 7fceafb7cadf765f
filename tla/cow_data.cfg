CONSTANTS
  Threads = {a, b}
  Vectors = {v}
  Storages = {1, 2, 3, 4, 5}
  Elements = {x, y}
  Calls = {"push_back", "data", "keep"}
  MaxLen = 2
  Null = Null
SPECIFICATION Spec
PROPERTIES SnapshotsFrozen
