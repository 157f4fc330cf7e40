SPECIFICATION Spec
CONSTANTS
  w1 = w1  w2 = w2  ali = ali  sara = sara
  b1 = b1  b2 = b2  t1 = t1  t2 = t2
  Workers = {w1, w2}
  Members = {ali, sara}
  Admins = {ali}
  Owner = ali
  BillIds = {b1, b2}
  TxIds = {t1, t2}
  Amounts = {1}
  Null = Null
SYMMETRY Symmetry
INVARIANTS ExpenseHasItsBill NamedExpenseIsOurs
PROPERTIES PaymentIsOneCommit BookSpec
CHECK_DEADLOCK FALSE
