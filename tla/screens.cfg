\* Every page and section, two writes, two calls on the way.
CONSTANTS
  Tours <- AllTours
  MaxCalls = 2
  MaxWrites = 2
  MaxTravels = 2
  MaxTyping = 3
  MaxSpend = 1
  Balances <- SomeBalances
  Queries = {q1, q2}
  Null = Null
SPECIFICATION Spec
INVARIANTS BackWorks ScreensAreCurrent OnlyMeantAdjusts
CHECK_DEADLOCK FALSE
