CONSTANTS
  c1 = c1  c2 = c2  c3 = c3
  Clients = {c1, c2, c3}
  max_clients = 2
  Backlog = 2
  Kinds = {"plain", "silent", "broken", "endless"}
  MaxAlive = 3
SPECIFICATION FairSpec
INVARIANTS TypeOK PlacesSound NeverBlocksInRead OneInFlight
PROPERTIES LeftOutOnlyWhenFull EveryQueryAnswered PlaceFreed
CHECK_DEADLOCK FALSE
