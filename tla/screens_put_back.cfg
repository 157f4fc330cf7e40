\* The form of an account, and a number put back while others spend.
CONSTANTS
  Tours <- AccountTour
  MaxCalls = 2
  MaxWrites = 2
  MaxTravels = 2
  MaxTyping = 3
  MaxSpend = 1
  Balances <- SomeBalances
  Queries = {q1, q2}
  Null = Null
SPECIFICATION Spec
PROPERTIES PutBackIsUnticked
CHECK_DEADLOCK FALSE
