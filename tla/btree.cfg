CONSTANTS
  Keys = {1, 2, 3}
  MinDegree = 2
  Nodes = {1, 2, 3, 4, 5, 6, 7, 8, 9, 10, 11, 12, 13, 14}
  MaxKeys = 10
  MaxCopies = 4
  Null = Null
SPECIFICATION Spec
INVARIANTS IsTree Filled Ordered SearchExact
PROPERTIES Descends IsBag
