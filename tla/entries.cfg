SPECIFICATION Spec
CONSTANTS
  food = food  rent = rent  ali = ali  sara = sara  bank = bank  cash = cash
  m1 = m1  m2 = m2  milk = milk  rice = rice
  First <- MCFirst
  Drafts <- MCDrafts
  Messages <- MCMessages
  Initial <- MCInitial
  Budgets <- MCBudgets
  House <- MCHouse
  TOP = 1
  Today <- MCToday
  MaxShown = 1
  MaxOccurrences = 12
  MaxTaps = 2
  MaxOpen = 2
  None = None
INVARIANTS HandledHasEntry OneEntryPerSave DueIsSound ReportAddsUp
CHECK_DEADLOCK FALSE
