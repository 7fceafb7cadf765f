CONSTANTS
  t1 = t1  t2 = t2  t3 = t3  one = one  word = word  long = long  cut = cut
  int = int  text = text  column = column  empty = empty  debris = debris
  Null = Null  NoFile = NoFile  NoQuery = NoQuery  NoReply = NoReply
  Misread = Misread
  Text <- MCText
  Cstr <- MCCstr
  IntOf <- MCIntOf
  Types = {int, text}
  IntType = int  NoText = empty  Debris = debris  ColumnText = column
  Numerals = {one, word}
  TableSlots = 13  TableWords = 2000
  PageWords = 300
  Names = {t1, t2, t3}
  Values = {one}
  Schemas <- MCMixed
  Kinds = {"create", "insert", "drop"}
  MaxRows = 1  Room = 370  MaxCrashes = 1
SPECIFICATION Spec
INVARIANTS TypeOK OnePagePerTable CatalogConsistent AllocatedPages FilesCurrent
PROPERTY KeepsPromise
SYMMETRY NameSymmetry
CHECK_DEADLOCK FALSE
CONSTRAINT OrderlyOrFew
