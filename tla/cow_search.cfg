CONSTANTS
  Threads = {a, b}
  Vectors = {v}
  Storages = {s1, s2, s3, s4}
  Elements = {x, y}
  Calls = {"push_front", "remove", "removeLast", "clear", "assign", "search", "data", "keep"}
  MaxLen = 3
  Null = Null
SPECIFICATION Spec
SYMMETRY SearchSymmetry
CONSTRAINT KeptShort
INVARIANTS TypeOK 
PROPERTIES OnlyDataThaws
CHECK_DEADLOCK FALSE
