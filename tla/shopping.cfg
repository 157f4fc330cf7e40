SPECIFICATION Spec
CONSTANTS
  w1 = w1  w2 = w2  s1 = s1  s2 = s2  milk = milk  rice = rice  l1 = l1  i1 = i1  i2 = i2  t1 = t1
  Workers = {w1, w2}
  StockIds = {s1, s2}
  Titles = {milk, rice}
  Deltas <- Steps
  MaxQty = 2
  ListIds = {l1}
  ItemIds = {i1, i2}
  TxIds = {t1}
  Prices = {1}
  Qtys = {1}
  MaxLists = 1
  MaxItems = 2
  Null = Null
SYMMETRY Symmetry
CONSTRAINT FewWhileOverlapping
INVARIANTS TitlesUnique NamesAreLive TripIsReconstructed
PROPERTIES AdjustIsExact TripIsOneCommit TripFillsStock BoughtIsKept
CHECK_DEADLOCK FALSE
