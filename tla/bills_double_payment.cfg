SPECIFICATION Spec
CONSTANTS
  w1 = w1  w2 = w2  ali = ali  sara = sara
  b1 = b1  b2 = b2  t1 = t1  t2 = t2
  Workers = {w1, w2}
  Members = {ali, sara}
  Admins = {ali}
  Owner = ali
  BillIds = {b1}
  TxIds = {t1, t2}
  Amounts = {1, 2}
  Null = Null
INVARIANT OneExpensePerBill
CHECK_DEADLOCK FALSE
