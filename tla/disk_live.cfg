CONSTANTS
  t1 = t1  t2 = t2  t3 = t3  one = one  word = word  long = long  cut = cut
  int = int  text = text  column = column  empty = empty  debris = debris
  Null = Null  NoFile = NoFile  NoQuery = NoQuery  NoReply = NoReply
  Misread = Misread
  Text <- MCText
  Cstr <- MCCstr
  IntOf <- MCIntOf
  Types = {int, text}
  IntType = int  NoText = empty  Debris = debris  ColumnText = column
  Numerals = {one, word}
  TableSlots = 13  TableWords = 2000
  PageWords = 600
  Names = {t1, t2}
  Values = {one}
  Schemas <- MCUniform
  Kinds = {"create", "insert", "drop", "select", "update", "unknown"}
  MaxRows = 2  Room = 210  MaxCrashes = 1
SPECIFICATION FairSpec

PROPERTIES Answered KeepsPromise
