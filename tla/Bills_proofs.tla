---------------------------- MODULE Bills_proofs ----------------------------
(* Theorems about Bills, for every value of its constants. *)
EXTENDS Bills, TLAPS

LEMMA FlushBill ==
  ASSUME NEW r \in BillRow, NEW l \in BillRow, NEW e \in BillRow
  PROVE  /\ Flush(r, l, e) \in BillRow
         /\ Flush(r, l, e).state = IF e.state = l.state THEN r.state ELSE e.state
         /\ Flush(r, l, e).expense = IF e.expense = l.expense THEN r.expense ELSE e.expense
  BY DEF BillRow, Flush, Dirty

LEMMA FlushTx ==
  ASSUME NEW r \in TxRow, NEW l \in TxRow, NEW e \in TxRow
  PROVE  /\ Flush(r, l, e) \in TxRow
         /\ Flush(r, l, e).origin = IF e.origin = l.origin THEN r.origin ELSE e.origin
  BY DEF TxRow, Flush, Dirty

LEMMA EditedBill ==
  ASSUME NEW r \in BillRequest, NEW t \in TxIds \cup {Null}, r.op # "remove"
  PROVE  Edited(r, t) \in BillRow
  BY DEF BillRequest, BillRow, BillOps, Edited

LEMMA SetNullType ==
  ASSUME NEW table \in [BillIds -> BillRow \cup {Null}], NEW gone
  PROVE  SetNull(table, gone) \in [BillIds -> BillRow \cup {Null}]
  BY DEF SetNull, BillRow

LEMMA TypingStep == TypeOK /\ [Next]_vars => TypeOK'
  <2> SUFFICES ASSUME TypeOK, [Next]_vars PROVE TypeOK'
    OBVIOUS
  <2> USE NullAssumption DEF TypeOK
  <2>1. ASSUME NEW w \in Workers, NEW m \in Members, NEW b \in BillIds,
               NEW a \in Amounts, NEW op \in BillOps, NEW step \in {"read", "write"},
               Load(w, m, op, step, b, a)
        PROVE  TypeOK'
    BY <2>1 DEF Load, BillRequest
  <2>2. ASSUME NEW w \in Workers, NEW m \in Members, NEW t \in TxIds,
               NEW op \in TxOps, NEW e \in TxRow, LoadTx(w, m, op, t, e)
        PROVE  TypeOK'
    BY <2>2 DEF LoadTx, TxRequest
  <2>3. ASSUME NEW w \in Workers, BillStep(w) PROVE TypeOK'
    <3>1. ASSUME NEW m \in Members, NEW b \in BillIds, NEW a \in Amounts, BeginUpdate(w, m, b, a)
          PROVE  TypeOK'
      BY <2>1, <3>1 DEF BeginUpdate, BillOps
    <3>2. ASSUME NEW m \in Members, NEW b \in BillIds,
                 BeginRemove(w, m, b) \/ BeginCancel(w, m, b) \/ BeginPay(w, m, b) \/ BeginUnpay(w, m, b)
          PROVE  TypeOK'
      <4>1. bill[b] # Null => bill[b].amount \in Amounts
        BY DEF BillRow
      <4> QED
        BY <2>1, <3>2, <4>1 DEF BeginRemove, BeginCancel, BeginPay, BeginUnpay, BillOps, Load
    <3>3. CASE FindExpense(w)
      BY <3>3 DEF FindExpense, Serving, Idle, BillRequest, TxRequest, BillOps, TxOps
    <3>4. CASE CommitUpdate(w) \/ CommitCancel(w)
      <4>1. req[w] \in BillRequest /\ req[w].op # "remove" /\ bill[req[w].bill] \in BillRow
        BY <3>4 DEF CommitUpdate, CommitCancel, Serving, Idle, BillRequest, TxRequest, TxOps
      <4>2. Flush(bill[req[w].bill], req[w].row, Edited(req[w], Null)) \in BillRow
        BY <4>1, EditedBill, FlushBill DEF BillRequest
      <4> QED
        BY <3>4, <4>1, <4>2 DEF CommitUpdate, CommitCancel, Done, BillRequest
    <3>5. CASE CommitRemove(w)
      BY <3>5 DEF CommitRemove, Done
    <3>6. CASE CommitUnpay(w)
      <4> DEFINE b == req[w].bill
                 T == SetNull(bill, {req[w].row.expense} \ {Null})
      <4>1. req[w] \in BillRequest /\ req[w].op # "remove" /\ bill[b] \in BillRow
        BY <3>6 DEF CommitUnpay, Serving, Idle, BillRequest, TxRequest, TxOps
      <4>2. T \in [BillIds -> BillRow \cup {Null}]
        BY SetNullType
      <4>3. T[b] \in BillRow
        BY <4>1 DEF SetNull, BillRequest, BillRow
      <4>4. Flush(T[b], req[w].row, Edited(req[w], Null)) \in BillRow
        BY <4>1, <4>3, EditedBill, FlushBill DEF BillRequest
      <4>5. bill' \in [BillIds -> BillRow \cup {Null}]
        BY <3>6, <4>2, <4>4 DEF CommitUnpay
      <4>6. tx' \in [TxIds -> TxRow \cup {Null}]
        BY <3>6 DEF CommitUnpay, Delete
      <4> QED
        BY <3>6, <4>5, <4>6 DEF CommitUnpay, Done
    <3>7. ASSUME NEW t \in TxIds, CommitPay(w, t) PROVE TypeOK'
      <4>1. req[w] \in BillRequest /\ req[w].op # "remove" /\ bill[req[w].bill] \in BillRow
        BY <3>7 DEF CommitPay, Serving, Idle, BillRequest, TxRequest, TxOps
      <4>2. Flush(bill[req[w].bill], req[w].row, Edited(req[w], t)) \in BillRow
        BY <4>1, EditedBill, FlushBill DEF BillRequest
      <4>3. tx' \in [TxIds -> TxRow \cup {Null}]
        BY <3>7, <4>1 DEF CommitPay, TxRow, BillRow, BillRequest
      <4> QED
        BY <3>7, <4>1, <4>2, <4>3 DEF CommitPay, Done, BillRequest
    <3> QED
      BY <2>3, <3>1, <3>2, <3>3, <3>4, <3>5, <3>6, <3>7 DEF BillStep
  <2>4. ASSUME NEW w \in Workers, TxStep(w) PROVE TypeOK'
    <3>1. ASSUME NEW m \in Members, NEW t \in TxIds, NEW for \in Members, NEW a \in Amounts,
                 BeginTxUpdate(w, m, t, for, a)
          PROVE  TypeOK'
      <4>1. tx[t] # Null => [tx[t] EXCEPT !.member = for, !.amount = a] \in TxRow
        BY DEF TxRow
      <4> QED
        BY <2>2, <3>1, <4>1 DEF BeginTxUpdate, TxOps, LoadTx
    <3>2. ASSUME NEW m \in Members, NEW t \in TxIds, BeginTxDelete(w, m, t) PROVE TypeOK'
      BY <2>2, <3>2 DEF BeginTxDelete, TxOps, LoadTx
    <3>3. CASE CommitTxUpdate(w)
      <4>1. req[w] \in TxRequest /\ tx[req[w].expense] \in TxRow
        BY <3>3 DEF CommitTxUpdate, Serving, Idle, BillRequest, TxRequest, BillOps
      <4>2. Flush(tx[req[w].expense], req[w].row, req[w].edited) \in TxRow
        BY <4>1, FlushTx DEF TxRequest
      <4> QED
        BY <3>3, <4>1, <4>2 DEF CommitTxUpdate, Done, TxRequest
    <3>4. CASE CommitTxDelete(w)
      <4>1. bill' \in [BillIds -> BillRow \cup {Null}]
        BY <3>4, SetNullType DEF CommitTxDelete
      <4> QED
        BY <3>4, <4>1 DEF CommitTxDelete, Delete, Done
    <3> QED
      BY <2>4, <3>1, <3>2, <3>3, <3>4 DEF TxStep
  <2>5. ASSUME NEW w \in Workers, Rollback(w) PROVE TypeOK'
    BY <2>5 DEF Rollback, Done
  <2>6. ASSUME NEW m \in Members, NEW b \in BillIds, NEW a \in Amounts, CreateBill(m, b, a)
        PROVE  TypeOK'
    BY <2>6 DEF CreateBill, BillRow
  <2>7. ASSUME NEW m \in Members, NEW t \in TxIds, NEW a \in Amounts, CreateTx(m, t, a)
        PROVE  TypeOK'
    BY <2>7 DEF CreateTx, TxRow
  <2>8. ASSUME NEW m \in Members, RemoveMember(m) PROVE TypeOK'
    <3> DEFINE gone == {t \in TxIds : tx[t] # Null /\ tx[t].member = m}
               left == SetNull(bill, gone)
    <3>1. left \in [BillIds -> BillRow \cup {Null}]
      BY SetNullType
    <3>2. \A b \in BillIds : left[b] # Null => [left[b] EXCEPT !.paid_by = Null] \in BillRow
      BY <3>1 DEF BillRow
    <3>3. bill' = [b \in BillIds |-> IF left[b] # Null /\ left[b].paid_by = m
                                    THEN [left[b] EXCEPT !.paid_by = Null] ELSE left[b]]
      BY <2>8 DEF RemoveMember
    <3>4. bill' \in [BillIds -> BillRow \cup {Null}]
      BY <3>1, <3>2, <3>3
    <3> QED
      BY <2>8, <3>4 DEF RemoveMember, Delete
  <2>9. CASE UNCHANGED vars
    BY <2>9 DEF vars
  <2> QED
    BY <2>3, <2>4, <2>5, <2>6, <2>7, <2>8, <2>9 DEF Next

\* Every table and every request keeps its type, whatever overlaps.
THEOREM Typing == Spec => []TypeOK
<1>1. Init => TypeOK
  BY DEF Init, TypeOK
<1> QED
  BY <1>1, TypingStep, PTL DEF Spec

-----------------------------------------------------------------------------
(* Any number of overlapping requests.                                     *)

\* Keys are used once: a live expense, and the one a request has loaded, were
\* inserted before, so a payment that commits now draws another key.
KeysAreUsed ==
  /\ \A t \in TxIds : Live(t) => t \in issued
  /\ \A w \in Workers : req[w] \in BillRequest /\ req[w].row.expense # Null
                            => req[w].row.expense \in issued

\* What the guards of the handlers leave in a request.
Guarded(w) ==
  /\ Serving(w, "pay") => req[w].row.state = "unpaid"
  /\ Serving(w, "unpay") => req[w].row.state = "paid"
  /\ Serving(w, "txUpdate") => req[w].edited.origin = req[w].row.origin

RequestsAreGuarded == \A w \in Workers : Guarded(w)

IInv == TypeOK /\ KeysAreUsed /\ RequestsAreGuarded /\ NamedExpenseIsOurs

LEMMA GuardsStep == TypeOK /\ RequestsAreGuarded /\ [Next]_vars => RequestsAreGuarded'
<1> SUFFICES ASSUME TypeOK, RequestsAreGuarded, [Next]_vars, NEW w \in Workers
             PROVE  Guarded(w)'
  BY DEF RequestsAreGuarded
<1>1. CASE req'[w] = Null
  BY <1>1 DEF Guarded, Serving, Idle
<1>2. CASE req'[w] = req[w]
  BY <1>2 DEF RequestsAreGuarded, Guarded, Serving, Idle
<1>3. CASE req'[w] # Null /\ req'[w] # req[w]
  <2>1. PICK v \in Workers : BillStep(v) \/ TxStep(v)
    BY <1>3 DEF Next, vars, Rollback, Done, CreateBill, CreateTx, RemoveMember, TypeOK
  <2> USE <1>3 DEF TypeOK, Guarded, Serving, Idle
  <2>2. ASSUME NEW m \in Members, NEW b \in BillIds, NEW a \in Amounts, BeginUpdate(v, m, b, a)
        PROVE  Guarded(w)'
    BY <2>2 DEF BeginUpdate, Load
  <2>3. ASSUME NEW m \in Members, NEW b \in BillIds, BeginRemove(v, m, b) \/ BeginCancel(v, m, b)
        PROVE  Guarded(w)'
    BY <2>3 DEF BeginRemove, BeginCancel, Load
  <2>4. ASSUME NEW m \in Members, NEW b \in BillIds, BeginPay(v, m, b) \/ BeginUnpay(v, m, b)
        PROVE  Guarded(w)'
    BY <2>4 DEF BeginPay, BeginUnpay, Load, BillRow
  <2>5. CASE FindExpense(v)
    BY <2>5 DEF FindExpense, RequestsAreGuarded, BillRequest, TxRequest, TxOps
  <2>6. ASSUME NEW m \in Members, NEW t \in TxIds, NEW for \in Members, NEW a \in Amounts,
               BeginTxUpdate(v, m, t, for, a)
        PROVE  Guarded(w)'
    BY <2>6 DEF BeginTxUpdate, LoadTx, TxRow
  <2>7. ASSUME NEW m \in Members, NEW t \in TxIds, BeginTxDelete(v, m, t)
        PROVE  Guarded(w)'
    BY <2>7 DEF BeginTxDelete, LoadTx
  <2>8. \/ CommitUpdate(v) \/ CommitRemove(v) \/ CommitCancel(v) \/ CommitUnpay(v)
        \/ (\E t \in TxIds : CommitPay(v, t)) \/ CommitTxUpdate(v) \/ CommitTxDelete(v)
        => FALSE
    BY DEF CommitUpdate, CommitRemove, CommitCancel, CommitUnpay, CommitPay,
           CommitTxUpdate, CommitTxDelete, Done
  <2>9. BillStep(v) => Guarded(w)'
    BY ONLY <2>2, <2>3, <2>4, <2>5, <2>8 DEF BillStep
  <2>10. TxStep(v) => Guarded(w)'
    BY ONLY <2>6, <2>7, <2>8 DEF TxStep
  <2> QED
    BY ONLY <2>1, <2>9, <2>10
<1> QED
  BY <1>1, <1>2, <1>3

\* The steps that write to the tables.
LEMMA Writers ==
  [Next]_vars => \/ UNCHANGED <<bill, tx, members, issued>>
                 \/ \E w \in Workers :
                      \/ CommitUpdate(w) \/ CommitRemove(w) \/ CommitCancel(w) \/ CommitUnpay(w)
                      \/ \E t \in TxIds : CommitPay(w, t)
                      \/ CommitTxUpdate(w) \/ CommitTxDelete(w)
                 \/ \E m \in Members, b \in BillIds, a \in Amounts : CreateBill(m, b, a)
                 \/ \E m \in Members, t \in TxIds, a \in Amounts : CreateTx(m, t, a)
                 \/ \E m \in Members : RemoveMember(m)
<1>1. ASSUME NEW w \in Workers, BillStep(w)
      PROVE  \/ UNCHANGED <<bill, tx, members, issued>>
             \/ CommitUpdate(w) \/ CommitRemove(w) \/ CommitCancel(w) \/ CommitUnpay(w)
             \/ \E t \in TxIds : CommitPay(w, t)
  BY <1>1 DEF BillStep, BeginUpdate, BeginRemove, BeginCancel, BeginPay, BeginUnpay, Load, FindExpense
<1>2. ASSUME NEW w \in Workers, TxStep(w)
      PROVE  \/ UNCHANGED <<bill, tx, members, issued>>
             \/ CommitTxUpdate(w) \/ CommitTxDelete(w)
  BY <1>2 DEF TxStep, BeginTxUpdate, BeginTxDelete, LoadTx
<1>3. (\E w \in Workers : Rollback(w)) \/ UNCHANGED vars => UNCHANGED <<bill, tx, members, issued>>
  BY DEF Rollback, vars
<1> QED
  BY <1>1, <1>2, <1>3 DEF Next

\* A request on a bill that appears in a worker has loaded a row of the table.
LEMMA Loaded ==
  ASSUME TypeOK, [Next]_vars, NEW w \in Workers, req'[w] \in BillRequest
  PROVE  \/ req[w] \in BillRequest /\ req'[w].row = req[w].row /\ req'[w].bill = req[w].bill
         \/ \E b \in BillIds : bill[b] # Null /\ req'[w].row = bill[b] /\ req'[w].bill = b
<1> DEFINE Goal == \/ req[w] \in BillRequest /\ req'[w].row = req[w].row /\ req'[w].bill = req[w].bill
                   \/ \E b \in BillIds : bill[b] # Null /\ req'[w].row = bill[b] /\ req'[w].bill = b
<1>1. req'[w] # Null /\ req'[w].op \in BillOps
  BY NullAssumption DEF BillRequest
<1>2. req'[w] = req[w] => Goal
  OBVIOUS
<1>3. ASSUME NEW v \in Workers, NEW m \in Members, NEW b \in BillIds, NEW a, NEW op, NEW step,
             Load(v, m, op, step, b, a)
      PROVE  Goal
  BY <1>1, <1>2, <1>3 DEF Load, TypeOK
<1>4. ASSUME NEW v \in Workers, FindExpense(v) PROVE Goal
  BY <1>1, <1>2, <1>4 DEF FindExpense, Serving, Idle, TypeOK, BillRequest, TxRequest, TxOps
<1>5. ASSUME NEW v \in Workers, NEW m \in Members, NEW t \in TxIds, NEW op \in TxOps, NEW e,
             LoadTx(v, m, op, t, e)
      PROVE  Goal
  <2>1. op \notin BillOps
    BY DEF BillOps, TxOps
  <2> QED
    BY <1>1, <1>2, <1>5, <2>1 DEF LoadTx, TypeOK
<1>6. ASSUME NEW v \in Workers, Done(v) PROVE Goal
  BY <1>1, <1>2, <1>6 DEF Done, TypeOK
<1>7. ASSUME NEW v \in Workers, BillStep(v) PROVE Goal
  BY ONLY <1>3, <1>4, <1>6, <1>7
  DEF BillStep, BeginUpdate, BeginRemove, BeginCancel, BeginPay, BeginUnpay,
      CommitUpdate, CommitRemove, CommitCancel, CommitUnpay, CommitPay
<1>8. ASSUME NEW v \in Workers, TxStep(v) PROVE Goal
  BY ONLY <1>5, <1>6, <1>8
  DEF TxStep, BeginTxUpdate, BeginTxDelete, CommitTxUpdate, CommitTxDelete, TxOps
<1> HIDE DEF Goal
<1>9. Goal
  BY <1>2, <1>6, <1>7, <1>8 DEF Next, vars, Rollback, CreateBill, CreateTx, RemoveMember
<1> QED
  BY <1>9 DEF Goal

LEMMA KeysStep == IInv /\ [Next]_vars => KeysAreUsed'
<1> SUFFICES ASSUME IInv, [Next]_vars PROVE KeysAreUsed'
  OBVIOUS
<1> USE DEF IInv
<1> DEFINE Grows == issued \subseteq issued' /\ \A t \in TxIds : tx'[t] # Null /\ tx[t] = Null => t \in issued'
<1>1. Grows
  <2> USE DEF TypeOK
  <2>1. ASSUME NEW w \in Workers,
               CommitUpdate(w) \/ CommitRemove(w) \/ CommitCancel(w) \/ CommitUnpay(w)
        PROVE  Grows
    BY <2>1 DEF CommitUpdate, CommitRemove, CommitCancel, CommitUnpay, Delete
  <2>2. ASSUME NEW w \in Workers, NEW t \in TxIds, CommitPay(w, t) PROVE Grows
    BY <2>2 DEF CommitPay
  <2>3. ASSUME NEW w \in Workers, CommitTxUpdate(w) \/ CommitTxDelete(w) PROVE Grows
    BY <2>3 DEF CommitTxUpdate, CommitTxDelete, Delete
  <2>4. ASSUME NEW m \in Members, RemoveMember(m) PROVE Grows
    BY <2>4 DEF RemoveMember, Delete
  <2> QED
    BY Writers, <2>1, <2>2, <2>3, <2>4 DEF CreateBill, CreateTx
<1>2. ASSUME NEW t \in TxIds, Live(t)' PROVE t \in issued'
  BY <1>1, <1>2 DEF KeysAreUsed, Live
<1>3. ASSUME NEW w \in Workers, req'[w] \in BillRequest, req'[w].row.expense # Null
      PROVE  req'[w].row.expense \in issued'
  <2>1. CASE req[w] \in BillRequest /\ req'[w].row = req[w].row
    BY <1>1, <1>3, <2>1 DEF KeysAreUsed
  <2>2. ASSUME NEW b \in BillIds, bill[b] # Null, req'[w].row = bill[b]
        PROVE  req'[w].row.expense \in issued'
    <3>1. bill[b].expense \in ExpensesOf(b)
      BY <1>3, <2>2 DEF NamedExpenseIsOurs
    <3> QED
      BY <1>1, <2>2, <3>1 DEF ExpensesOf, KeysAreUsed
  <2> QED
    BY <1>3, <2>1, <2>2, Loaded
<1> QED
  BY <1>2, <1>3 DEF KeysAreUsed

LEMMA NamedStep == IInv /\ [Next]_vars => NamedExpenseIsOurs'
<1> SUFFICES ASSUME IInv, [Next]_vars,
                    NEW b \in BillIds, bill'[b] # Null, bill'[b].expense # Null
             PROVE  bill'[b].expense \in TxIds /\ tx'[bill'[b].expense] # Null
                    /\ tx'[bill'[b].expense].origin = b
  BY DEF NamedExpenseIsOurs, ExpensesOf, Live
<1> DEFINE Ours == bill'[b].expense \in TxIds /\ tx'[bill'[b].expense] # Null
                   /\ tx'[bill'[b].expense].origin = b
<1> USE DEF IInv, TypeOK
<1>1. bill[b] # Null /\ bill[b].expense # Null
      => bill[b].expense \in TxIds /\ tx[bill[b].expense] # Null /\ tx[bill[b].expense].origin = b
  BY DEF NamedExpenseIsOurs, ExpensesOf, Live
<1>2. ASSUME NEW w \in Workers, CommitUpdate(w) \/ CommitCancel(w) PROVE Ours
  <2> DEFINE c == req[w].bill
  <2>1. req[w] \in BillRequest /\ req[w].op \in {"update", "cancel"} /\ bill[c] \in BillRow
    BY <1>2 DEF CommitUpdate, CommitCancel, Serving, Idle, BillRequest, TxRequest, TxOps
  <2>2. Edited(req[w], Null) \in BillRow /\ Edited(req[w], Null).expense = req[w].row.expense
    BY <2>1, EditedBill DEF Edited, BillRequest, BillRow
  <2>3. Flush(bill[c], req[w].row, Edited(req[w], Null)).expense = bill[c].expense
    BY <2>1, <2>2, FlushBill DEF BillRequest
  <2>4. bill' = [bill EXCEPT ![c] = Flush(@, req[w].row, Edited(req[w], Null))] /\ tx' = tx /\ bill[c] # Null
    BY <1>2 DEF CommitUpdate, CommitCancel
  <2> QED
    BY <1>1, <2>1, <2>3, <2>4 DEF BillRequest
<1>3. ASSUME NEW w \in Workers, CommitRemove(w) PROVE Ours
  BY <1>1, <1>3 DEF CommitRemove
<1>4. ASSUME NEW gone, NEW table \in [BillIds -> BillRow \cup {Null}],
             table = SetNull(bill, gone), table[b] # Null, table[b].expense # Null
      PROVE  bill[b] # Null /\ table[b].expense = bill[b].expense /\ table[b].expense \notin gone
  BY <1>4 DEF SetNull, BillRow
<1>5. ASSUME NEW w \in Workers, CommitUnpay(w) PROVE Ours
  <2> DEFINE c == req[w].bill
             gone == {req[w].row.expense} \ {Null}
             table == SetNull(bill, gone)
             row == Flush(table[c], req[w].row, Edited(req[w], Null))
  <2>1. req[w] \in BillRequest /\ req[w].op = "unpay" /\ bill[c] \in BillRow
    BY <1>5 DEF CommitUnpay, Serving, Idle, BillRequest, TxRequest, TxOps
  <2>2. Edited(req[w], Null) \in BillRow /\ Edited(req[w], Null).expense = Null
    BY <2>1, EditedBill DEF Edited, BillRequest, BillRow
  <2>3. table \in [BillIds -> BillRow \cup {Null}] /\ table[c] \in BillRow
    BY <2>1, SetNullType DEF SetNull, BillRequest, BillRow
  <2>4. row.expense = table[c].expense \/ row.expense = Null
    <3>1. req[w].row \in BillRow
      BY <2>1 DEF BillRequest
    <3> QED
      BY ONLY <2>2, <2>3, <3>1, FlushBill
  <2>5. bill' = [table EXCEPT ![c] = row] /\ tx' = Delete(tx, {req[w].row.expense})
    BY <1>5 DEF CommitUnpay
  <2>6. table[b] # Null /\ table[b].expense = bill'[b].expense
    BY <2>1, <2>3, <2>4, <2>5, NullAssumption DEF BillRequest
  <2>7. bill[b] # Null /\ bill'[b].expense = bill[b].expense /\ bill[b].expense \notin gone
    BY <1>4, <2>3, <2>6
  <2> QED
    BY <1>1, <2>5, <2>7 DEF Delete
<1>6. ASSUME NEW w \in Workers, NEW t \in TxIds, CommitPay(w, t) PROVE Ours
  <2> DEFINE c == req[w].bill
  <2>1. req[w] \in BillRequest /\ req[w].op = "pay" /\ bill[c] \in BillRow
    BY <1>6 DEF CommitPay, Serving, Idle, BillRequest, TxRequest, TxOps
  <2>2. Edited(req[w], t) \in BillRow /\ Edited(req[w], t).expense = t
    BY <2>1, EditedBill DEF Edited, BillRequest, BillRow
  <2>3. t \notin issued /\ t # Null
    BY <1>6, NullAssumption DEF CommitPay
  <2>4. req[w].row.expense # Null => req[w].row.expense \in issued
    BY <1>6, <2>1 DEF KeysAreUsed
  <2>5. Flush(bill[c], req[w].row, Edited(req[w], t)).expense = t
    BY <2>1, <2>2, <2>3, <2>4, FlushBill DEF BillRequest
  <2>6. tx'[t].origin = c /\ tx'[t] # Null
    BY <1>6, <2>1, NullAssumption DEF CommitPay, TxRow, BillRequest, BillRow
  <2>7. CASE b = c
    <3>1. bill'[b].expense = t
      BY <1>6, <2>5, <2>7 DEF CommitPay
    <3> QED
      BY <2>6, <2>7, <3>1
  <2>8. CASE b # c
    <3>1. bill'[b] = bill[b]
      BY <1>6, <2>8 DEF CommitPay
    <3>2. bill[b].expense # t
      BY <1>1, <1>6, <3>1 DEF CommitPay, KeysAreUsed, Live
    <3> QED
      BY <1>1, <1>6, <3>1, <3>2 DEF CommitPay
  <2> QED
    BY <2>7, <2>8
<1>7. ASSUME NEW w \in Workers, CommitTxUpdate(w) PROVE Ours
  <2> DEFINE s == req[w].expense
  <2>1. req[w] \in TxRequest /\ req[w].op = "txUpdate" /\ tx[s] \in TxRow
    BY <1>7 DEF CommitTxUpdate, Serving, Idle, BillRequest, TxRequest, BillOps
  <2>2. Flush(tx[s], req[w].row, req[w].edited) \in TxRow
        /\ Flush(tx[s], req[w].row, req[w].edited).origin = tx[s].origin
    BY <1>7, <2>1, FlushTx DEF TxRequest, RequestsAreGuarded, Guarded, CommitTxUpdate
  <2> QED
    BY <1>1, <1>7, <2>2, NullAssumption DEF CommitTxUpdate
<1>8. ASSUME NEW w \in Workers, CommitTxDelete(w) PROVE Ours
  BY <1>1, <1>4, <1>8, SetNullType DEF CommitTxDelete, Delete
<1>9. ASSUME NEW m \in Members, NEW c \in BillIds, NEW a \in Amounts, CreateBill(m, c, a)
      PROVE  Ours
  BY <1>1, <1>9 DEF CreateBill
<1>10. ASSUME NEW m \in Members, NEW t \in TxIds, NEW a \in Amounts, CreateTx(m, t, a)
       PROVE  Ours
  BY <1>1, <1>10 DEF CreateTx, KeysAreUsed, Live
<1>11. ASSUME NEW m \in Members, RemoveMember(m) PROVE Ours
  <2> DEFINE gone == {t \in TxIds : tx[t] # Null /\ tx[t].member = m}
             left == SetNull(bill, gone)
  <2>1. left \in [BillIds -> BillRow \cup {Null}] /\ tx' = Delete(tx, gone)
    BY <1>11, SetNullType DEF RemoveMember
  <2>2. left[b] # Null /\ left[b].expense = bill'[b].expense
    BY <1>11, <2>1, NullAssumption DEF RemoveMember, BillRow
  <2>3. bill[b] # Null /\ bill'[b].expense = bill[b].expense /\ bill[b].expense \notin gone
    BY <1>4, <2>1, <2>2
  <2> QED
    BY <1>1, <2>1, <2>3 DEF Delete
<1>12. ASSUME UNCHANGED <<bill, tx, members, issued>> PROVE Ours
  BY <1>1, <1>12
<1> HIDE DEF Ours
<1>13. Ours
  <2>1. ASSUME NEW w \in Workers, 
                      \/ CommitUpdate(w) \/ CommitRemove(w) \/ CommitCancel(w) \/ CommitUnpay(w)
                      \/ \E t \in TxIds : CommitPay(w, t)
                      \/ CommitTxUpdate(w) \/ CommitTxDelete(w)
        PROVE Ours
    BY ONLY <2>1, <1>2, <1>3, <1>5, <1>6, <1>7, <1>8
  <2>2. ASSUME NEW m \in Members, NEW c \in BillIds, NEW a \in Amounts, CreateBill(m, c, a) PROVE Ours
    BY ONLY <2>2, <1>9
  <2>3. ASSUME \E m \in Members, t \in TxIds, a \in Amounts : CreateTx(m, t, a) PROVE Ours
    BY ONLY <2>3, <1>10
  <2>4. ASSUME \E m \in Members : RemoveMember(m) PROVE Ours
    BY ONLY <2>4, <1>11
  <2> QED BY ONLY Writers, [Next]_vars, <2>1, <2>2, <2>3, <2>4, <1>12
<1> QED
  BY <1>13 DEF Ours

\* However many requests overlap, a bill never names an expense that is gone or
\* that another bill was charged.
THEOREM NamedExpense == Spec => []NamedExpenseIsOurs
<1>1. Init => IInv
  BY NullAssumption DEF Init, IInv, TypeOK, KeysAreUsed, RequestsAreGuarded, Guarded, NamedExpenseIsOurs,
         Live, Serving, Idle
<1>2. IInv /\ [Next]_vars => IInv'
  BY TypingStep, GuardsStep, KeysStep, NamedStep DEF IInv
<1>3. IInv => NamedExpenseIsOurs
  BY DEF IInv
<1> QED
  BY <1>1, <1>2, <1>3, PTL DEF Spec

-----------------------------------------------------------------------------
(* One request at a time.                                                  *)

\* Only the workers of the deployment hold a request.
OnlyPool == \A w \in Workers : ~Idle(w) => w \in pool

LEMMA PoolFixed == [Next]_vars => pool' = pool
<1> SUFFICES ASSUME [Next]_vars PROVE pool' = pool
  OBVIOUS
<1>1. ASSUME NEW w \in Workers, BillStep(w) PROVE pool' = pool
  <2>1. ASSUME NEW m \in Members, NEW b \in BillIds, NEW a, NEW op, NEW step, Load(w, m, op, step, b, a)
        PROVE  pool' = pool
    BY <2>1 DEF Load
  <2>2. ASSUME NEW m \in Members, NEW b \in BillIds,
               \/ \E a \in Amounts : BeginUpdate(w, m, b, a)
               \/ BeginRemove(w, m, b) \/ BeginCancel(w, m, b)
               \/ BeginPay(w, m, b) \/ BeginUnpay(w, m, b)
        PROVE  pool' = pool
    BY <2>1, <2>2 DEF BeginUpdate, BeginRemove, BeginCancel, BeginPay, BeginUnpay
  <2>3. \/ FindExpense(w) \/ CommitUpdate(w) \/ CommitRemove(w) \/ CommitCancel(w)
        \/ CommitUnpay(w) \/ (\E t \in TxIds : CommitPay(w, t))
        => pool' = pool
    BY DEF FindExpense, CommitUpdate, CommitRemove, CommitCancel, CommitUnpay, CommitPay
  <2> QED
    BY <1>1, <2>2, <2>3 DEF BillStep
<1>2. ASSUME NEW w \in Workers, TxStep(w) PROVE pool' = pool
  BY <1>2 DEF TxStep, BeginTxUpdate, BeginTxDelete, LoadTx, CommitTxUpdate, CommitTxDelete
<1> QED
  BY <1>1, <1>2 DEF Next, vars, Rollback, CreateBill, CreateTx, RemoveMember

LEMMA InPool ==
  ASSUME OnlyPool, NEW w \in Workers, BillStep(w) \/ TxStep(w) \/ Rollback(w)
  PROVE  w \in pool
BY DEF OnlyPool, Idle, BillStep, TxStep, Rollback, FindExpense, Serving, BeginUpdate, BeginRemove,
       BeginCancel, BeginPay, BeginUnpay, Load, CommitUpdate, CommitRemove, CommitCancel, CommitUnpay,
       CommitPay, BeginTxUpdate, BeginTxDelete, LoadTx, CommitTxUpdate, CommitTxDelete

LEMMA OnlyPoolStep == TypeOK /\ OnlyPool /\ [Next]_vars => OnlyPool'
<1> SUFFICES ASSUME TypeOK, OnlyPool, [Next]_vars, NEW v \in Workers, ~Idle(v)'
             PROVE  v \in pool'
  BY DEF OnlyPool
<1> USE DEF TypeOK, OnlyPool, Idle
<1>1. pool' = pool
  BY PoolFixed
<1>2. CASE req'[v] = req[v]
  BY <1>1, <1>2
<1>3. CASE req'[v] # req[v]
  <2>1. PICK w \in Workers : BillStep(w) \/ TxStep(w) \/ Rollback(w)
    BY <1>3 DEF Next, vars, CreateBill, CreateTx, RemoveMember
  <2>2. w \in pool
    BY <2>1, InPool
  <2>3. v # w => req'[v] = req[v]
    BY <2>1 DEF BillStep, TxStep, Rollback, Done, FindExpense, BeginUpdate, BeginRemove, BeginCancel,
         BeginPay, BeginUnpay, Load, CommitUpdate, CommitRemove, CommitCancel, CommitUnpay, CommitPay,
         BeginTxUpdate, BeginTxDelete, LoadTx, CommitTxUpdate, CommitTxDelete
  <2> QED
    BY <1>1, <1>3, <2>2, <2>3
<1> QED
  BY <1>2, <1>3

\* What a request decided on still holds when it commits.  The member who pays
\* may be removed meanwhile, which can only take the expense away.
Fresh(w) ==
  LET b == req[w].bill IN
  req[w] \in BillRequest =>
    /\ bill[b] # Null
    /\ bill[b].state = req[w].row.state
    /\ bill[b].expense \in {Null, req[w].row.expense}
    /\ req[w].op # "unpay" => req[w].row.state # "paid"

BillKeysAreUsed == \A b \in BillIds : bill[b] # Null => b \in issued

HasItsBill ==
  \A b \in BillIds : \A t \in ExpensesOf(b) :
    bill[b] # Null /\ bill[b].state = "paid" /\ bill[b].expense = t

OneInv == /\ IInv /\ BillKeysAreUsed /\ OnlyPool
          /\ HasItsBill /\ \A w \in Workers : Fresh(w)

\* While a request stays in its worker, no other worker commits.
LEMMA QuietTables ==
  ASSUME OneAtATime, OnlyPool, TypeOK, [Next]_vars, NEW w \in Workers, req'[w] # Null
  PROVE  \/ UNCHANGED bill
         \/ \E m \in Members, b \in BillIds, a \in Amounts : CreateBill(m, b, a)
         \/ \E m \in Members : RemoveMember(m)
<1>1. ASSUME NEW v \in Workers, ~Idle(v), Done(v) PROVE FALSE
  BY <1>1 DEF Done, OneAtATime, OnlyPool, Idle, TypeOK
<1>2. ~\E v \in Workers :
        \/ CommitUpdate(v) \/ CommitRemove(v) \/ CommitCancel(v) \/ CommitUnpay(v)
        \/ \E t \in TxIds : CommitPay(v, t)
        \/ CommitTxUpdate(v) \/ CommitTxDelete(v)
  BY <1>1 DEF CommitUpdate, CommitRemove, CommitCancel, CommitUnpay, CommitPay,
              CommitTxUpdate, CommitTxDelete, Serving
<1> QED
  BY <1>2, Writers DEF CreateTx

LEMMA RemoveMemberKeeps ==
  ASSUME TypeOK, NEW m \in Members, RemoveMember(m), NEW b \in BillIds, bill[b] # Null
  PROVE  bill'[b] # Null /\ bill'[b].state = bill[b].state /\ bill'[b].expense \in {Null, bill[b].expense}
<1> DEFINE gone == {t \in TxIds : tx[t] # Null /\ tx[t].member = m}
           left == SetNull(bill, gone)
<1>1. left[b] \in BillRow /\ left[b].state = bill[b].state /\ left[b].expense \in {Null, bill[b].expense}
  BY DEF SetNull, BillRow, TypeOK
<1>2. bill'[b] = IF left[b] # Null /\ left[b].paid_by = m
                 THEN [left[b] EXCEPT !.paid_by = Null] ELSE left[b]
  BY DEF RemoveMember
<1> HIDE DEF left
<1>3. bill'[b] \in BillRow /\ bill'[b].state = left[b].state /\ bill'[b].expense = left[b].expense
  BY <1>1, <1>2 DEF BillRow
<1> QED
  BY <1>1, <1>3, NullAssumption

LEMMA FreshStep ==
  ASSUME OneAtATime, OneInv, [Next]_vars, NEW w \in Workers
  PROVE  Fresh(w)'
<1> SUFFICES ASSUME req'[w] \in BillRequest PROVE Fresh(w)'
  BY DEF Fresh
<1> DEFINE b == req'[w].bill
           row == req'[w].row
<1> USE DEF OneInv, IInv
<1>1. req'[w] # Null /\ b \in BillIds /\ TypeOK'
  BY NullAssumption, TypingStep DEF BillRequest
<1>2. bill[b] # Null /\ bill[b].state = row.state /\ bill[b].expense \in {Null, row.expense}
  BY Loaded DEF Fresh
<1>3. bill'[b] # Null /\ bill'[b].state = row.state /\ bill'[b].expense \in {Null, row.expense}
  <2>1. CASE UNCHANGED bill
    BY <1>2, <2>1
  <2>2. ASSUME NEW m \in Members, NEW c \in BillIds, NEW a \in Amounts, CreateBill(m, c, a)
        PROVE  bill'[b] = bill[b]
    BY <1>1, <1>2, <2>2 DEF CreateBill, BillKeysAreUsed
  <2>3. ASSUME NEW m \in Members, RemoveMember(m)
        PROVE  bill'[b] # Null /\ bill'[b].state = bill[b].state /\ bill'[b].expense \in {Null, bill[b].expense}
    BY <1>1, <1>2, <2>3, RemoveMemberKeeps
  <2> QED
    BY <1>1, <1>2, <2>1, <2>2, <2>3, QuietTables
<1>4. req'[w].op # "unpay" => row.state # "paid"
  <2>1. CASE req'[w] = req[w]
    BY <2>1 DEF Fresh
  <2>2. CASE req'[w] # req[w]
    <3>1. PICK v \in Workers : BillStep(v) \/ TxStep(v)
      BY <1>1, <2>2 DEF Next, vars, Rollback, Done, CreateBill, CreateTx, RemoveMember, TypeOK
    <3>2. v = w /\ ~Done(v)
      <4>1. pool' = pool /\ w \in pool
        BY <1>1, OnlyPoolStep, PoolFixed DEF OnlyPool, Idle
      <4>2. v \in pool
        BY <3>1, InPool DEF OnlyPool
      <4> QED
        BY <1>1, <4>1, <4>2 DEF OneAtATime, Done, TypeOK
    <3>3. ASSUME NEW m \in Members, NEW t \in TxIds, NEW op \in TxOps, NEW e, LoadTx(v, m, op, t, e)
          PROVE  FALSE
      <4>1. req'[w].op = op
        BY <3>2, <3>3 DEF LoadTx, TypeOK
      <4> QED
        BY <4>1 DEF BillRequest, BillOps, TxOps
    <3>4. BillStep(v)
      BY <3>1, <3>2, <3>3 DEF TxStep, BeginTxUpdate, BeginTxDelete, CommitTxUpdate, CommitTxDelete, TxOps
    <3>5. CASE FindExpense(v)
      BY <1>1, <3>2, <3>5 DEF FindExpense, Serving, Idle, TypeOK, BillRequest, TxRequest, TxOps
    <3>6. ASSUME NEW m \in Members, NEW c \in BillIds, NEW a \in Amounts, BeginUpdate(v, m, c, a)
          PROVE  req'[w].op # "unpay" => row.state # "paid"
      BY <3>2, <3>6 DEF BeginUpdate, Load, TypeOK
    <3>7. ASSUME NEW m \in Members, NEW c \in BillIds,
                 \/ BeginRemove(v, m, c) \/ BeginCancel(v, m, c)
                 \/ BeginPay(v, m, c) \/ BeginUnpay(v, m, c)
          PROVE  req'[w].op # "unpay" => row.state # "paid"
      BY <3>2, <3>7 DEF BeginRemove, BeginCancel, BeginPay, BeginUnpay, Load, TypeOK
    <3>8. ~(CommitUpdate(v) \/ CommitRemove(v) \/ CommitCancel(v) \/ CommitUnpay(v) \/ \E t \in TxIds : CommitPay(v, t))
      BY <3>2 DEF CommitUpdate, CommitRemove, CommitCancel, CommitUnpay, CommitPay
    <3> QED
      BY ONLY <3>4, <3>5, <3>6, <3>7, <3>8 DEF BillStep
  <2> QED
    BY <2>1, <2>2
<1> QED
  BY <1>3, <1>4 DEF Fresh

LEMMA HasBillStep ==
  ASSUME OneAtATime, OneInv, [Next]_vars
  PROVE  HasItsBill'
<1> SUFFICES ASSUME NEW b \in BillIds, NEW t \in TxIds, tx'[t] # Null, tx'[t].origin = b
             PROVE  bill'[b] # Null /\ bill'[b].state = "paid" /\ bill'[b].expense = t
  BY DEF HasItsBill, ExpensesOf, Live
<1> DEFINE Charged == bill'[b] # Null /\ bill'[b].state = "paid" /\ bill'[b].expense = t
<1> USE DEF OneInv, IInv, TypeOK
<1>1. tx[t] # Null /\ tx[t].origin = b => bill[b] # Null /\ bill[b].state = "paid" /\ bill[b].expense = t
  BY DEF HasItsBill, ExpensesOf, Live
<1>2. ASSUME NEW w \in Workers, req[w] \in BillRequest, req[w].op # "unpay", req[w].bill = b
      PROVE  bill[b].state # "paid"
  BY <1>2 DEF Fresh
<1>3. ASSUME NEW gone, bill[b].expense = t, bill[b] # Null, t \notin gone
      PROVE  SetNull(bill, gone)[b] = bill[b]
  BY <1>3 DEF SetNull
<1>4. ASSUME NEW w \in Workers, CommitUpdate(w) \/ CommitCancel(w) \/ CommitRemove(w) PROVE Charged
  <2>1. req[w] \in BillRequest /\ req[w].op # "unpay" /\ tx' = tx
    BY <1>4 DEF CommitUpdate, CommitCancel, CommitRemove, Serving, Idle, BillRequest, TxRequest, TxOps
  <2>2. req[w].bill # b
    BY <1>1, <1>2, <2>1
  <2>3. bill'[b] = bill[b]
    BY <1>4, <2>2 DEF CommitUpdate, CommitCancel, CommitRemove
  <2> QED
    BY <1>1, <2>1, <2>3
<1>5. ASSUME NEW w \in Workers, NEW s \in TxIds, CommitPay(w, s) PROVE Charged
  <2> DEFINE c == req[w].bill
  <2>1. req[w] \in BillRequest /\ req[w].op = "pay" /\ bill[c] \in BillRow /\ req[w].row.state = "unpaid"
    BY <1>5 DEF CommitPay, Serving, Idle, BillRequest, TxRequest, TxOps, RequestsAreGuarded, Guarded
  <2>2. Edited(req[w], s) \in BillRow /\ Edited(req[w], s).expense = s /\ Edited(req[w], s).state = "paid"
    BY <2>1, EditedBill DEF Edited, BillRequest, BillRow
  <2>3. s \notin issued /\ s # Null /\ (req[w].row.expense # Null => req[w].row.expense \in issued)
    BY <1>5, <2>1, NullAssumption DEF CommitPay, KeysAreUsed
  <2>4. /\ Flush(bill[c], req[w].row, Edited(req[w], s)) \in BillRow
        /\ Flush(bill[c], req[w].row, Edited(req[w], s)).expense = s
        /\ Flush(bill[c], req[w].row, Edited(req[w], s)).state = "paid"
    BY <2>1, <2>2, <2>3, FlushBill DEF BillRequest
  <2>5. tx'[s].origin = c /\ (t # s => tx'[t] = tx[t])
    BY <1>5 DEF CommitPay
  <2>6. CASE t = s
    <3>1. bill'[b] = Flush(bill[c], req[w].row, Edited(req[w], s))
      BY <1>5, <2>5, <2>6 DEF CommitPay
    <3> QED
      BY <2>4, <2>6, <3>1, NullAssumption
  <2>7. CASE t # s
    <3>1. c # b
      BY <1>1, <1>2, <2>1, <2>5, <2>7
    <3>2. bill'[b] = bill[b]
      BY <1>5, <3>1 DEF CommitPay
    <3> QED
      BY <1>1, <2>5, <2>7, <3>2
  <2> QED
    BY <2>6, <2>7
<1>6. ASSUME NEW w \in Workers, CommitUnpay(w) PROVE Charged
  <2> DEFINE gone == {req[w].row.expense} \ {Null}
  <2>1. req[w] \in BillRequest
    BY <1>6 DEF CommitUnpay, Serving, Idle, BillRequest, TxRequest, TxOps
  <2>2. tx'[t] = tx[t] /\ t # req[w].row.expense
    BY <1>6 DEF CommitUnpay, Delete
  <2>3. bill[b].expense = t /\ bill[b] # Null /\ t # Null
    BY <1>1, <2>2, NullAssumption
  <2>4. req[w].bill # b
    BY <2>1, <2>2, <2>3 DEF Fresh
  <2>5. bill'[b] = SetNull(bill, gone)[b]
    BY <1>6, <2>4, SetNullType DEF CommitUnpay
  <2> QED
    BY <1>1, <1>3, <2>2, <2>3, <2>5
<1>7. ASSUME NEW w \in Workers, CommitTxUpdate(w) PROVE Charged
  <2> DEFINE s == req[w].expense
  <2>1. req[w] \in TxRequest /\ req[w].op = "txUpdate" /\ tx[s] \in TxRow
    BY <1>7 DEF CommitTxUpdate, Serving, Idle, BillRequest, TxRequest, BillOps
  <2>2. Flush(tx[s], req[w].row, req[w].edited).origin = tx[s].origin
    BY <1>7, <2>1, FlushTx DEF TxRequest, RequestsAreGuarded, Guarded, CommitTxUpdate
  <2>3. tx[t] # Null /\ tx[t].origin = b /\ bill' = bill
    BY <1>7, <2>1, <2>2 DEF CommitTxUpdate
  <2> QED
    BY <1>1, <2>3
<1>8. ASSUME NEW w \in Workers, CommitTxDelete(w) PROVE Charged
  <2>1. tx'[t] = tx[t] /\ t \notin {req[w].expense} /\ bill' = SetNull(bill, {req[w].expense})
    BY <1>8 DEF CommitTxDelete, Delete
  <2> QED
    BY <1>1, <1>3, <2>1
<1>9. ASSUME NEW m \in Members, NEW c \in BillIds, NEW a \in Amounts, CreateBill(m, c, a) PROVE Charged
  BY <1>1, <1>9 DEF CreateBill, BillKeysAreUsed
<1>10. ASSUME NEW m \in Members, NEW s \in TxIds, NEW a \in Amounts, CreateTx(m, s, a) PROVE Charged
  BY <1>1, <1>10, NullAssumption DEF CreateTx
<1>11. ASSUME NEW m \in Members, RemoveMember(m) PROVE Charged
  <2> DEFINE gone == {s \in TxIds : tx[s] # Null /\ tx[s].member = m}
  <2>1. tx'[t] = tx[t] /\ t \notin gone
    BY <1>11 DEF RemoveMember, Delete
  <2>2. SetNull(bill, gone)[b] = bill[b] /\ bill[b] \in BillRow /\ bill[b].state = "paid" /\ bill[b].expense = t
    BY <1>1, <1>3, <2>1
  <2>3. bill'[b] \in {bill[b], [bill[b] EXCEPT !.paid_by = Null]}
    BY <1>11, <2>2 DEF RemoveMember
  <2> QED
    BY <2>2, <2>3, NullAssumption DEF BillRow
<1>12. ASSUME UNCHANGED <<bill, tx, members, issued>> PROVE Charged
  BY <1>1, <1>12
<1> HIDE DEF Charged
<1>13. ASSUME NEW w \in Workers,
              \/ CommitUpdate(w) \/ CommitRemove(w) \/ CommitCancel(w) \/ CommitUnpay(w)
              \/ \E s \in TxIds : CommitPay(w, s)
              \/ CommitTxUpdate(w) \/ CommitTxDelete(w)
       PROVE  Charged
  BY ONLY <1>4, <1>5, <1>6, <1>7, <1>8, <1>13
<1>14. ASSUME \E m \in Members, c \in BillIds, a \in Amounts : CreateBill(m, c, a) PROVE Charged
  BY ONLY <1>9, <1>14
<1>15. ASSUME \E m \in Members, s \in TxIds, a \in Amounts : CreateTx(m, s, a) PROVE Charged
  BY ONLY <1>10, <1>15
<1>16. ASSUME \E m \in Members : RemoveMember(m) PROVE Charged
  BY ONLY <1>11, <1>16
<1>17. Charged
  BY ONLY Writers, [Next]_vars, <1>12, <1>13, <1>14, <1>15, <1>16
<1> QED
  BY <1>17 DEF Charged

LEMMA BillKeysStep ==
  ASSUME IInv, BillKeysAreUsed, [Next]_vars
  PROVE  BillKeysAreUsed'
<1> SUFFICES ASSUME NEW b \in BillIds, bill'[b] # Null PROVE b \in issued'
  BY DEF BillKeysAreUsed
<1> USE DEF IInv, TypeOK
<1>1. bill[b] # Null => b \in issued
  BY DEF BillKeysAreUsed
<1>2. ASSUME NEW w \in Workers,
             \/ CommitUpdate(w) \/ CommitRemove(w) \/ CommitCancel(w) \/ CommitUnpay(w)
             \/ \E s \in TxIds : CommitPay(w, s)
             \/ CommitTxUpdate(w) \/ CommitTxDelete(w)
      PROVE  bill[b] # Null /\ issued \subseteq issued'
  <2>1. CASE CommitUpdate(w) \/ CommitCancel(w) \/ CommitRemove(w)
    BY <2>1 DEF CommitUpdate, CommitCancel, CommitRemove
  <2>2. CASE CommitUnpay(w)
    BY <2>2 DEF CommitUnpay, SetNull
  <2>3. CASE \E s \in TxIds : CommitPay(w, s)
    BY <2>3 DEF CommitPay
  <2>4. CASE CommitTxUpdate(w) \/ CommitTxDelete(w)
    BY <2>4 DEF CommitTxUpdate, CommitTxDelete, SetNull
  <2> QED
    BY <1>2, <2>1, <2>2, <2>3, <2>4
<1>3. (\E m \in Members : RemoveMember(m)) => bill[b] # Null /\ issued' = issued
  BY DEF RemoveMember, SetNull
<1> QED
  BY <1>1, <1>2, <1>3, Writers DEF CreateBill, CreateTx

\* Requests served one after the other never leave an expense without its paid
\* bill, however they fail and whoever is removed from the family meanwhile.
THEOREM ExpenseHasBill == Spec => []ExpenseHasItsBill
<1> DEFINE Inv == /\ IInv /\ BillKeysAreUsed /\ OnlyPool
                  /\ OneAtATime => HasItsBill /\ \A w \in Workers : Fresh(w)
<1>1. Init => Inv
  BY NullAssumption DEF Init, IInv, TypeOK, KeysAreUsed, RequestsAreGuarded, Guarded, OnlyPool, Idle,
     NamedExpenseIsOurs, BillKeysAreUsed, HasItsBill, ExpensesOf, Fresh, Live, Serving
<1>2. Inv /\ [Next]_vars => Inv'
  <2> SUFFICES ASSUME Inv, [Next]_vars PROVE Inv'
    OBVIOUS
  <2>1. IInv' /\ BillKeysAreUsed' /\ OnlyPool'
    BY TypingStep, GuardsStep, KeysStep, NamedStep, BillKeysStep, OnlyPoolStep DEF IInv
  <2>2. OneAtATime' => OneAtATime
    BY PoolFixed DEF OneAtATime
  <2>3. ASSUME OneAtATime PROVE HasItsBill' /\ \A w \in Workers : Fresh(w)'
    BY <2>3, FreshStep, HasBillStep DEF OneInv
  <2> QED
    BY <2>1, <2>2, <2>3
<1>3. Inv => ExpenseHasItsBill
  BY DEF HasItsBill, ExpenseHasItsBill
<1> QED
  BY <1>1, <1>2, <1>3, PTL DEF Spec

-----------------------------------------------------------------------------
(* The commits, one by one.                                                *)

\* What the commit of a payment does to the two tables.
LEMMA PayCommits ==
  ASSUME IInv, NEW w \in Workers, NEW t \in TxIds, CommitPay(w, t)
  PROVE  LET c == req[w].bill IN
         /\ req[w] \in BillRequest /\ c \in BillIds /\ bill[c] # Null
         /\ bill'[c] # Null /\ bill'[c].state = "paid" /\ bill'[c].expense = t
         /\ \A b \in BillIds : b # c => bill'[b] = bill[b]
         /\ ~Live(t) /\ tx'[t] # Null /\ tx'[t].origin = c
         /\ \A s \in TxIds : s # t => tx'[s] = tx[s]
<1> DEFINE c == req[w].bill
           row == Flush(bill[c], req[w].row, Edited(req[w], t))
<1> USE DEF IInv, TypeOK
<1>1. /\ req[w] \in BillRequest /\ req[w].op = "pay" /\ bill[c] \in BillRow
      /\ req[w].row.state = "unpaid" /\ c \in BillIds /\ bill[c] # Null
  BY DEF CommitPay, Serving, Idle, BillRequest, TxRequest, TxOps, RequestsAreGuarded, Guarded
<1>2. /\ Edited(req[w], t) \in BillRow
      /\ Edited(req[w], t).expense = t /\ Edited(req[w], t).state = "paid"
  BY <1>1, EditedBill DEF Edited, BillRequest, BillRow
<1>3. t \notin issued /\ t # Null /\ (req[w].row.expense # Null => req[w].row.expense \in issued)
  BY <1>1, NullAssumption DEF CommitPay, KeysAreUsed
<1>4. row \in BillRow /\ row.expense = t /\ row.state = "paid"
  BY <1>1, <1>2, <1>3, FlushBill DEF BillRequest
<1>5. bill'[c] = row /\ \A b \in BillIds : b # c => bill'[b] = bill[b]
  BY <1>1 DEF CommitPay
<1>6. tx'[t].origin = c /\ tx'[t] # Null /\ \A s \in TxIds : s # t => tx'[s] = tx[s]
  BY <1>1, NullAssumption DEF CommitPay, TxRow, BillRequest, BillRow
<1>7. ~Live(t)
  BY <1>3 DEF KeysAreUsed
<1> HIDE DEF row
<1> QED
  BY <1>1, <1>4, <1>5, <1>6, <1>7, NullAssumption

\* What every other commit leaves of a bill: its state moves as the request says,
\* and it names the expense it named or none.
Moves(b, states) ==
  /\ bill[b] # Null => bill'[b] # Null /\ bill'[b].state \in states
                       /\ bill'[b].expense \in {Null, bill[b].expense}
  /\ bill[b] = Null => bill'[b] = Null

\* A bill that loses its expense keeps its state.
LEMMA SetNullKeeps ==
  ASSUME TypeOK, NEW gone, NEW b \in BillIds
  PROVE  /\ bill[b] = Null <=> SetNull(bill, gone)[b] = Null
         /\ bill[b] # Null => /\ SetNull(bill, gone)[b] \in BillRow
                              /\ SetNull(bill, gone)[b].state = bill[b].state
                              /\ SetNull(bill, gone)[b].expense \in {Null, bill[b].expense}
BY NullAssumption DEF TypeOK, SetNull, BillRow

LEMMA EditCommits ==
  ASSUME IInv, NEW w \in Workers, CommitUpdate(w) \/ CommitCancel(w), NEW b \in BillIds
  PROVE  /\ tx' = tx /\ req[w].bill \in BillIds /\ bill[req[w].bill] # Null
         /\ b # req[w].bill => bill'[b] = bill[b]
         /\ b = req[w].bill =>
              Moves(b, IF Serving(w, "update") \/ req[w].row.state = "cancelled"
                       THEN {bill[b].state} ELSE {"cancelled"})
<1> DEFINE c == req[w].bill
           e == Edited(req[w], Null)
<1> USE DEF IInv, TypeOK
<1>1. req[w] \in BillRequest /\ bill[c] \in BillRow /\ c \in BillIds /\ bill[c] # Null
  BY DEF CommitUpdate, CommitCancel, Serving, Idle, BillRequest, TxRequest, TxOps
<1>2. /\ e \in BillRow /\ e.expense = req[w].row.expense
      /\ e.state = IF Serving(w, "update") THEN req[w].row.state ELSE "cancelled"
  BY <1>1, EditedBill DEF CommitUpdate, CommitCancel, Serving, Idle, Edited, BillRequest, BillRow
<1>3. /\ Flush(bill[c], req[w].row, e) \in BillRow
      /\ Flush(bill[c], req[w].row, e).expense = bill[c].expense
      /\ Flush(bill[c], req[w].row, e).state
           = IF e.state = req[w].row.state THEN bill[c].state ELSE e.state
  BY <1>1, <1>2, FlushBill DEF BillRequest
<1>4. /\ bill' = [bill EXCEPT ![c] = Flush(@, req[w].row, e)] /\ tx' = tx
  BY DEF CommitUpdate, CommitCancel
<1>5. b # c => bill'[b] = bill[b]
  BY <1>1, <1>4
<1>6. bill'[c] = Flush(bill[c], req[w].row, e)
  BY <1>1, <1>4
<1> HIDE DEF c, e
<1> QED
  BY <1>1, <1>2, <1>3, <1>4, <1>5, <1>6, NullAssumption DEF Moves, c

\* What the commit that takes a payment back does: the expense it found goes, and
\* the bill of the request no longer names one.
LEMMA UnpayCommits ==
  ASSUME IInv, NEW w \in Workers, CommitUnpay(w)
  PROVE  LET c == req[w].bill IN
         /\ req[w] \in BillRequest /\ c \in BillIds /\ bill[c] # Null
         /\ bill'[c] # Null /\ bill'[c].state = "unpaid"
         /\ bill'[c].expense \in {Null, bill[c].expense}
         /\ \A b \in BillIds : b # c => Moves(b, {bill[b].state})
         /\ tx' = Delete(tx, {req[w].row.expense})
<1> DEFINE c == req[w].bill
           gone == {req[w].row.expense} \ {Null}
           table == SetNull(bill, gone)
           row == Flush(table[c], req[w].row, Edited(req[w], Null))
<1> USE DEF IInv, TypeOK
<1>1. /\ req[w] \in BillRequest /\ req[w].op = "unpay" /\ bill[c] \in BillRow
      /\ req[w].row.state = "paid" /\ c \in BillIds /\ bill[c] # Null
  BY DEF CommitUnpay, Serving, Idle, BillRequest, TxRequest, TxOps, RequestsAreGuarded, Guarded
<1>2. /\ Edited(req[w], Null) \in BillRow
      /\ Edited(req[w], Null).expense = Null /\ Edited(req[w], Null).state = "unpaid"
  BY <1>1, EditedBill DEF Edited, BillRequest, BillRow
<1>3. table \in [BillIds -> BillRow \cup {Null}]
  BY SetNullType
<1>4. \A b \in BillIds :
        /\ bill[b] = Null <=> table[b] = Null
        /\ bill[b] # Null => /\ table[b] \in BillRow /\ table[b].state = bill[b].state
                             /\ table[b].expense \in {Null, bill[b].expense}
  BY SetNullKeeps
<1>5. row \in BillRow /\ row.state = "unpaid" /\ row.expense \in {Null, table[c].expense}
  <2>1. req[w].row \in BillRow /\ table[c] \in BillRow
    BY <1>1, <1>4 DEF BillRequest
  <2> QED
    BY ONLY <1>1, <1>2, <2>1, FlushBill
<1>6. bill' = [table EXCEPT ![c] = row] /\ tx' = Delete(tx, {req[w].row.expense})
  BY DEF CommitUnpay
<1> HIDE DEF row, table
<1>7. bill'[c] = row /\ \A b \in BillIds : b # c => bill'[b] = table[b]
  BY <1>1, <1>3, <1>6
<1> QED
  BY <1>1, <1>4, <1>5, <1>6, <1>7, NullAssumption DEF Moves

\* Removing a member or a transaction takes expenses away, no more.
LEMMA LossCommits ==
  ASSUME IInv, NEW b \in BillIds,
         \/ \E w \in Workers : CommitTxDelete(w)
         \/ \E m \in Members : RemoveMember(m)
  PROVE  /\ Moves(b, {bill[b].state})
         /\ \E gone \in SUBSET TxIds : tx' = Delete(tx, gone)
<1> USE DEF IInv
<1>1. ASSUME NEW w \in Workers, CommitTxDelete(w)
      PROVE  /\ Moves(b, {bill[b].state})
             /\ \E gone \in SUBSET TxIds : tx' = Delete(tx, gone)
  <2>1. bill' = SetNull(bill, {req[w].expense}) /\ tx' = Delete(tx, {req[w].expense})
    BY <1>1 DEF CommitTxDelete
  <2>2. req[w].expense \in TxIds
    BY <1>1 DEF CommitTxDelete, Serving, Idle, TypeOK, BillRequest, TxRequest, BillOps
  <2>3. Moves(b, {bill[b].state})
    BY <2>1, SetNullKeeps, NullAssumption DEF Moves
  <2> QED
    BY <2>1, <2>2, <2>3
<1>2. ASSUME NEW m \in Members, RemoveMember(m)
      PROVE  /\ Moves(b, {bill[b].state})
             /\ \E gone \in SUBSET TxIds : tx' = Delete(tx, gone)
  <2> DEFINE gone == {t \in TxIds : tx[t] # Null /\ tx[t].member = m}
  <2>1. tx' = Delete(tx, gone) /\ gone \in SUBSET TxIds
    BY <1>2 DEF RemoveMember
  <2>2. bill[b] = Null => bill'[b] = Null
    BY <1>2, SetNullKeeps DEF RemoveMember
  <2>3. bill[b] # Null => bill'[b] # Null /\ bill'[b].state = bill[b].state
                          /\ bill'[b].expense \in {Null, bill[b].expense}
    BY <1>2, RemoveMemberKeeps
  <2> HIDE DEF gone
  <2> QED
    BY <2>1, <2>2, <2>3 DEF Moves
<1> QED
  BY <1>1, <1>2

\* An edited transaction keeps the bill it was inserted for.
LEMMA TxUpdateCommits ==
  ASSUME IInv, NEW w \in Workers, CommitTxUpdate(w)
  PROVE  /\ bill' = bill
         /\ \A t \in TxIds : /\ tx'[t] # Null <=> tx[t] # Null
                             /\ tx[t] # Null => tx'[t].origin = tx[t].origin
<1> DEFINE s == req[w].expense
<1> USE DEF IInv, TypeOK
<1>1. /\ req[w] \in TxRequest /\ req[w].op = "txUpdate" /\ tx[s] \in TxRow /\ s \in TxIds
      /\ tx[s] # Null
  BY DEF CommitTxUpdate, Serving, Idle, BillRequest, TxRequest, BillOps
<1>2. /\ Flush(tx[s], req[w].row, req[w].edited) \in TxRow
      /\ Flush(tx[s], req[w].row, req[w].edited).origin = tx[s].origin
  BY <1>1, FlushTx DEF TxRequest, RequestsAreGuarded, Guarded, CommitTxUpdate
<1>3. tx' = [tx EXCEPT ![s] = Flush(@, req[w].row, req[w].edited)] /\ bill' = bill
  BY DEF CommitTxUpdate
<1> QED
  BY <1>1, <1>2, <1>3, NullAssumption

-----------------------------------------------------------------------------
(* Payment is one commit.                                                  *)

\* An expense for a bill appears only in a payment of that bill, and a bill begins
\* to name an expense only there.
LEMMA PaymentStep ==
  ASSUME IInv, [Next]_vars, NEW b \in BillIds, NEW t \in TxIds
  PROVE  (~Live(t) /\ tx'[t] # Null /\ tx'[t].origin = b)
           <=> (/\ bill'[b] # Null /\ bill'[b].expense = t
                /\ (bill[b] = Null \/ bill[b].expense # t)
                /\ bill'[b].state = "paid")
<1> DEFINE Appears == ~Live(t) /\ tx'[t] # Null /\ tx'[t].origin = b
           Closes == /\ bill'[b] # Null /\ bill'[b].expense = t
                     /\ (bill[b] = Null \/ bill[b].expense # t)
                     /\ bill'[b].state = "paid"
           Neither == ~Appears /\ ~Closes
<1> USE DEF IInv
<1>1. t # Null /\ b # Null
  BY NullAssumption
<1>2. ASSUME NEW w \in Workers, NEW s \in TxIds, CommitPay(w, s) PROVE Appears <=> Closes
  <2> DEFINE c == req[w].bill
  <2>1. /\ c \in BillIds /\ bill'[c] # Null /\ bill'[c].state = "paid" /\ bill'[c].expense = s
        /\ \A d \in BillIds : d # c => bill'[d] = bill[d]
        /\ ~Live(s) /\ tx'[s] # Null /\ tx'[s].origin = c
        /\ \A u \in TxIds : u # s => tx'[u] = tx[u]
    BY <1>2, PayCommits
  <2>2. \A d \in BillIds : bill[d] # Null => bill[d].expense # s
    BY <2>1, NullAssumption DEF NamedExpenseIsOurs, ExpensesOf
  <2> HIDE DEF c
  <2>3. Appears => t = s /\ b = c
    BY <2>1 DEF Live
  <2>4. Closes => t = s /\ b = c
    BY <2>1
  <2>5. t = s /\ b = c => Appears /\ Closes
    BY <2>1, <2>2
  <2> HIDE DEF Appears, Closes
  <2> QED
    BY <2>3, <2>4, <2>5
<1>3. ASSUME tx' = tx PROVE ~Appears
  BY <1>3 DEF Live
<1>4. ASSUME NEW states, Moves(b, states) PROVE ~Closes
  BY <1>1, <1>4 DEF Moves
<1>5. ASSUME NEW gone, tx' = Delete(tx, gone) PROVE ~Appears
  BY <1>5 DEF Delete, Live
<1>6. ASSUME bill'[b] = bill[b] PROVE ~Closes
  BY <1>6
<1> HIDE DEF Appears, Closes
<1>7. ASSUME NEW w \in Workers, CommitUpdate(w) \/ CommitCancel(w) PROVE Neither
  BY <1>3, <1>4, <1>6, <1>7, EditCommits
<1>8. ASSUME NEW w \in Workers, CommitRemove(w) PROVE Neither
  <2>1. tx' = tx /\ (bill'[b] = Null \/ bill'[b] = bill[b])
    BY <1>8 DEF CommitRemove, TypeOK
  <2> QED
    BY <1>3, <2>1 DEF Closes
<1>9. ASSUME NEW w \in Workers, CommitUnpay(w) PROVE Neither
  <2> DEFINE c == req[w].bill
  <2>1. /\ bill'[c].state = "unpaid" /\ tx' = Delete(tx, {req[w].row.expense})
        /\ b # c => Moves(b, {bill[b].state})
    BY <1>9, UnpayCommits
  <2>2. b = c => ~Closes
    BY <2>1 DEF Closes
  <2> QED
    BY <1>4, <1>5, <2>1, <2>2
<1>10. ASSUME NEW w \in Workers, CommitTxUpdate(w) PROVE Neither
  BY <1>6, <1>10, TxUpdateCommits DEF Appears, Live
<1>11. ASSUME \/ \E w \in Workers : CommitTxDelete(w)
              \/ \E m \in Members : RemoveMember(m)
       PROVE  Neither
  <2>1. Moves(b, {bill[b].state}) /\ \E gone \in SUBSET TxIds : tx' = Delete(tx, gone)
    BY <1>11, LossCommits
  <2> QED
    BY <1>4, <1>5, <2>1
<1>12. ASSUME NEW m \in Members, NEW c \in BillIds, NEW a \in Amounts, CreateBill(m, c, a)
       PROVE  Neither
  <2>1. tx' = tx /\ (bill'[b] = bill[b] \/ bill'[b].expense = Null)
    BY <1>12 DEF CreateBill, TypeOK
  <2> QED
    BY <1>1, <1>3, <1>6, <2>1 DEF Closes
<1>13. ASSUME NEW m \in Members, NEW s \in TxIds, NEW a \in Amounts, CreateTx(m, s, a)
       PROVE  Neither
  <2>1. bill' = bill /\ (tx'[t] = tx[t] \/ tx'[t].origin = Null)
    BY <1>13 DEF CreateTx, TypeOK
  <2> QED
    BY <1>1, <1>6, <2>1 DEF Appears, Live
<1>14. ASSUME UNCHANGED <<bill, tx, members, issued>> PROVE Neither
  BY <1>3, <1>6, <1>14
<1> HIDE DEF Neither
<1>15. ASSUME NEW w \in Workers,
              \/ CommitUpdate(w) \/ CommitRemove(w) \/ CommitCancel(w) \/ CommitUnpay(w)
              \/ \E s \in TxIds : CommitPay(w, s)
              \/ CommitTxUpdate(w) \/ CommitTxDelete(w)
       PROVE  (Appears <=> Closes) \/ Neither
  BY ONLY <1>2, <1>7, <1>8, <1>9, <1>10, <1>11, <1>15
<1>16. (Appears <=> Closes) \/ Neither
  BY ONLY Writers, [Next]_vars, <1>11, <1>12, <1>13, <1>14, <1>15
<1> QED
  BY <1>16 DEF Appears, Closes, Neither

\* Every step keeps the invariant of overlapping requests.
LEMMA IInvHolds == Spec => []IInv
<1>1. Init => IInv
  BY NullAssumption DEF Init, IInv, TypeOK, KeysAreUsed, RequestsAreGuarded, Guarded, NamedExpenseIsOurs,
         Live, Serving, Idle
<1>2. IInv /\ [Next]_vars => IInv'
  BY TypingStep, GuardsStep, KeysStep, NamedStep DEF IInv
<1> QED
  BY <1>1, <1>2, PTL DEF Spec

\* However many requests overlap and wherever one dies, an expense for a bill
\* appears in exactly the step that closes the bill and makes it name the expense.
THEOREM OneCommit == Spec => PaymentIsOneCommit
<1>1. IInv /\ [Next]_vars
        => [\A b \in BillIds, t \in TxIds :
              (~Live(t) /\ tx'[t] # Null /\ tx'[t].origin = b)
                <=> (/\ bill'[b] # Null /\ bill'[b].expense = t
                     /\ (bill[b] = Null \/ bill[b].expense # t)
                     /\ bill'[b].state = "paid")]_vars
  BY PaymentStep
<1> QED
  BY <1>1, IInvHolds, PTL DEF Spec, PaymentIsOneCommit

-----------------------------------------------------------------------------
(* The bills are a book.                                                   *)

\* A live transaction keeps its origin, and a new one takes a new key.
LEMMA TxKept ==
  ASSUME IInv, [Next]_vars, NEW t \in TxIds, tx'[t] # Null
  PROVE  \/ Live(t) /\ tx'[t].origin = tx[t].origin
         \/ ~Live(t) /\ t \notin issued
<1> DEFINE Goal == \/ Live(t) /\ tx'[t].origin = tx[t].origin
                   \/ ~Live(t) /\ t \notin issued
<1> USE DEF IInv
<1>1. tx'[t] = tx[t] => Goal
  BY DEF Live
<1>2. ASSUME NEW gone, tx' = Delete(tx, gone) PROVE Goal
  BY <1>1, <1>2 DEF Delete
<1>3. ASSUME NEW w \in Workers, NEW s \in TxIds, CommitPay(w, s) PROVE Goal
  <2>1. (t # s => tx'[t] = tx[t]) /\ ~Live(s) /\ s \notin issued
    BY <1>3, PayCommits DEF CommitPay
  <2> QED
    BY <1>1, <2>1
<1>4. ASSUME NEW w \in Workers, CommitTxUpdate(w) PROVE Goal
  BY <1>4, TxUpdateCommits DEF Live
<1>5. ASSUME NEW m \in Members, NEW s \in TxIds, NEW a \in Amounts, CreateTx(m, s, a) PROVE Goal
  BY <1>1, <1>5 DEF CreateTx, KeysAreUsed, TypeOK
<1> HIDE DEF Goal
<1>6. ASSUME NEW w \in Workers,
             \/ CommitUpdate(w) \/ CommitRemove(w) \/ CommitCancel(w) \/ CommitUnpay(w)
             \/ \E s \in TxIds : CommitPay(w, s)
             \/ CommitTxUpdate(w) \/ CommitTxDelete(w)
      PROVE  Goal
  BY <1>1, <1>2, <1>3, <1>4, <1>6
     DEF CommitUpdate, CommitRemove, CommitCancel, CommitUnpay, CommitTxDelete
<1>7. (\E m \in Members : RemoveMember(m)) => Goal
  BY <1>2 DEF RemoveMember
<1>8. Goal
  BY ONLY Writers, [Next]_vars, <1>1, <1>5, <1>6, <1>7 DEF CreateBill
<1> QED
  BY <1>8 DEF Goal

\* An expense a request has loaded, if it is still there, is its own bill's.
ClaimsAreOurs ==
  \A w \in Workers :
    req[w] \in BillRequest /\ req[w].row.expense # Null /\ Live(req[w].row.expense)
      => tx[req[w].row.expense].origin = req[w].bill

LEMMA ClaimsStep == IInv /\ ClaimsAreOurs /\ [Next]_vars => ClaimsAreOurs'
<1> SUFFICES ASSUME IInv, ClaimsAreOurs, [Next]_vars, NEW w \in Workers,
                    req'[w] \in BillRequest, req'[w].row.expense # Null,
                    tx'[req'[w].row.expense] # Null
             PROVE  tx'[req'[w].row.expense].origin = req'[w].bill
  BY DEF ClaimsAreOurs, Live
<1> DEFINE t == req'[w].row.expense
<1> USE DEF IInv
<1>1. t \in TxIds
  BY DEF BillRequest, BillRow
<1>2. \/ Live(t) /\ tx'[t].origin = tx[t].origin
      \/ ~Live(t) /\ t \notin issued
  BY <1>1, TxKept
<1>3. CASE req[w] \in BillRequest /\ req'[w].row = req[w].row /\ req'[w].bill = req[w].bill
  BY <1>2, <1>3 DEF ClaimsAreOurs, KeysAreUsed
<1>4. ASSUME NEW b \in BillIds, bill[b] # Null, req'[w].row = bill[b], req'[w].bill = b
      PROVE  tx'[t].origin = b
  <2>1. bill[b].expense \in ExpensesOf(b)
    BY <1>4 DEF NamedExpenseIsOurs
  <2> QED
    BY <1>2, <1>4, <2>1 DEF ExpensesOf
<1> QED
  BY <1>3, <1>4, Loaded

\* The book as the tables show it, requests one after the other.
Status == [b \in BillIds |-> IF bill[b] = Null THEN "absent" ELSE bill[b].state]
Charged == [b \in BillIds |-> ExpensesOf(b)]

Moved(b, from, to) == Status[b] \in from /\ Status' = [Status EXCEPT ![b] = to]

\* What a step does to the book, action by action of BillBook.
Turns ==
  \/ UNCHANGED <<Status, Charged>>
  \/ \E b \in BillIds :
       \/ Moved(b, {"absent"}, "unpaid") /\ UNCHANGED Charged
       \/ Moved(b, {"unpaid", "cancelled"}, "cancelled") /\ UNCHANGED Charged
       \/ Moved(b, {"unpaid", "cancelled"}, "absent") /\ UNCHANGED Charged
       \/ Moved(b, {"paid"}, "unpaid") /\ Charged' = [Charged EXCEPT ![b] = {}]
       \/ \E t \in TxIds :
            /\ Moved(b, {"unpaid"}, "paid")
            /\ \A c \in BillIds : t \notin Charged[c]
            /\ Charged' = [Charged EXCEPT ![b] = {t}]
  \/ \E lost \in SUBSET TxIds :
       Charged' = [b \in BillIds |-> Charged[b] \ lost] /\ UNCHANGED Status

\* A commit that leaves every other bill alone moves one line of the book.
LEMMA OneLine ==
  ASSUME NEW c \in BillIds, NEW to,
         \A b \in BillIds : b # c => (bill'[b] = Null <=> bill[b] = Null)
                                     /\ (bill[b] # Null => bill'[b].state = bill[b].state),
         to = IF bill'[c] = Null THEN "absent" ELSE bill'[c].state
  PROVE  Status' = [Status EXCEPT ![c] = to]
BY DEF Status

LEMMA SameCharges ==
  ASSUME \A t \in TxIds : /\ tx'[t] # Null /\ tx'[t].origin \in BillIds
                             <=> tx[t] # Null /\ tx[t].origin \in BillIds
                          /\ tx[t] # Null /\ tx[t].origin \in BillIds => tx'[t].origin = tx[t].origin
  PROVE  Charged' = Charged
<1>1. \A b \in BillIds : ExpensesOf(b)' = ExpensesOf(b)
  BY DEF ExpensesOf, Live
<1> QED
  BY <1>1 DEF Charged

\* Deleted transactions leave the book.
LEMMA LostCharges ==
  ASSUME NEW gone, tx' = Delete(tx, gone)
  PROVE  Charged' = [b \in BillIds |-> Charged[b] \ gone]
<1>1. \A b \in BillIds : ExpensesOf(b)' = ExpensesOf(b) \ gone
  BY DEF ExpensesOf, Live, Delete
<1> QED
  BY <1>1 DEF Charged

\* The request that commits is the only one, and what it loaded still holds.
LEMMA CommitIsFresh ==
  ASSUME OneInv, NEW w \in Workers, req[w] \in BillRequest
  PROVE  LET c == req[w].bill IN
         /\ c \in BillIds /\ bill[c] # Null /\ bill[c] \in BillRow
         /\ bill[c].state = req[w].row.state
         /\ bill[c].expense \in {Null, req[w].row.expense}
         /\ req[w].op # "unpay" => bill[c].state \in {"unpaid", "cancelled"}
BY DEF OneInv, IInv, TypeOK, Fresh, BillRequest, BillRow

LEMMA BookTurns ==
  ASSUME OneAtATime, OneInv, ClaimsAreOurs, [Next]_vars
  PROVE  Turns
<1> USE DEF OneInv, IInv
<1>1. ASSUME NEW w \in Workers, CommitUpdate(w) PROVE Turns
  <2> DEFINE c == req[w].bill
  <2>1. req[w] \in BillRequest
    BY <1>1 DEF CommitUpdate, Serving, Idle, TypeOK, BillRequest, TxRequest, TxOps
  <2>2. c \in BillIds /\ bill[c] # Null
    BY <2>1, CommitIsFresh
  <2>3. tx' = tx /\ Moves(c, {bill[c].state}) /\ \A b \in BillIds : b # c => bill'[b] = bill[b]
    BY <1>1, <2>2, EditCommits DEF CommitUpdate
  <2>4. Status' = Status
    BY <2>2, <2>3 DEF Status, Moves
  <2>5. Charged' = Charged
    BY <2>3, SameCharges
  <2> QED
    BY <2>4, <2>5 DEF Turns
<1>2. ASSUME NEW w \in Workers, CommitCancel(w) PROVE Turns
  <2> DEFINE c == req[w].bill
  <2>1. req[w] \in BillRequest /\ req[w].op = "cancel" /\ ~Serving(w, "update")
    BY <1>2 DEF CommitCancel, Serving, Idle, TypeOK, BillRequest, TxRequest, TxOps
  <2>2. /\ c \in BillIds /\ bill[c] # Null
        /\ bill[c].state = req[w].row.state /\ bill[c].state \in {"unpaid", "cancelled"}
    BY <2>1, CommitIsFresh
  <2>3. tx' = tx /\ \A b \in BillIds : b # c => bill'[b] = bill[b]
    BY <1>2, <2>2, EditCommits
  <2>4. bill'[c] # Null /\ bill'[c].state = "cancelled"
    <3>1. Moves(c, IF Serving(w, "update") \/ req[w].row.state = "cancelled"
                   THEN {bill[c].state} ELSE {"cancelled"})
      BY <1>2, <2>2, EditCommits
    <3>2. Moves(c, {"cancelled"})
      BY <2>1, <2>2, <3>1
    <3> QED
      BY <2>2, <3>2 DEF Moves
  <2> HIDE DEF c
  <2>5. Status' = [Status EXCEPT ![c] = "cancelled"]
    BY <2>2, <2>3, <2>4, OneLine
  <2>6. Status[c] \in {"unpaid", "cancelled"}
    BY <2>2 DEF Status
  <2>7. Charged' = Charged
    BY <2>3, SameCharges
  <2> QED
    BY <2>2, <2>5, <2>6, <2>7 DEF Turns, Moved
<1>3. ASSUME NEW w \in Workers, CommitRemove(w) PROVE Turns
  <2> DEFINE c == req[w].bill
  <2>1. req[w] \in BillRequest /\ req[w].op = "remove"
    BY <1>3 DEF CommitRemove, Serving, Idle, TypeOK, BillRequest, TxRequest, TxOps
  <2>2. c \in BillIds /\ bill[c] # Null /\ bill[c].state \in {"unpaid", "cancelled"}
    BY <2>1, CommitIsFresh
  <2>3. tx' = tx /\ bill'[c] = Null /\ \A b \in BillIds : b # c => bill'[b] = bill[b]
    BY <1>3, <2>2 DEF CommitRemove, TypeOK
  <2> HIDE DEF c
  <2>4. Status' = [Status EXCEPT ![c] = "absent"]
    BY <2>2, <2>3, OneLine
  <2>5. Status[c] \in {"unpaid", "cancelled"}
    BY <2>2 DEF Status
  <2>6. Charged' = Charged
    BY <2>3, SameCharges
  <2> QED
    BY <2>2, <2>4, <2>5, <2>6 DEF Turns, Moved
<1>4. ASSUME NEW w \in Workers, NEW t \in TxIds, CommitPay(w, t) PROVE Turns
  <2> DEFINE c == req[w].bill
  <2>1. /\ req[w] \in BillRequest /\ bill'[c] # Null /\ bill'[c].state = "paid"
        /\ \A b \in BillIds : b # c => bill'[b] = bill[b]
        /\ ~Live(t) /\ tx'[t] # Null /\ tx'[t].origin = c
        /\ \A s \in TxIds : s # t => tx'[s] = tx[s]
    BY <1>4, PayCommits
  <2>2. req[w].row.state = "unpaid" /\ req[w].op = "pay"
    BY <1>4 DEF CommitPay, RequestsAreGuarded, Guarded, Serving
  <2>3. c \in BillIds /\ bill[c] # Null /\ bill[c].state = "unpaid"
    BY <2>1, <2>2, CommitIsFresh
  <2> HIDE DEF c
  <2>4. Status' = [Status EXCEPT ![c] = "paid"]
    BY <2>1, <2>3, OneLine
  <2>5. Status[c] = "unpaid"
    BY <2>3 DEF Status
  <2>6. \A b \in BillIds : t \notin Charged[b]
    BY <2>1 DEF Charged, ExpensesOf
  <2>7. ExpensesOf(c) = {}
    BY <2>3 DEF HasItsBill
  <2>8. \A b \in BillIds : ExpensesOf(b)' = IF b = c THEN {t} ELSE ExpensesOf(b)
    BY <2>1, <2>7 DEF ExpensesOf, Live
  <2>9. Charged' = [Charged EXCEPT ![c] = {t}]
    BY <2>3, <2>8 DEF Charged
  <2> QED
    BY <2>3, <2>4, <2>5, <2>6, <2>9 DEF Turns, Moved
<1>5. ASSUME NEW w \in Workers, CommitUnpay(w) PROVE Turns
  <2> DEFINE c == req[w].bill
             e == req[w].row.expense
  <2>1. /\ req[w] \in BillRequest /\ bill'[c] # Null /\ bill'[c].state = "unpaid"
        /\ \A b \in BillIds : b # c => Moves(b, {bill[b].state})
        /\ tx' = Delete(tx, {e})
    BY <1>5, UnpayCommits
  <2>2. req[w].row.state = "paid"
    BY <1>5 DEF CommitUnpay, RequestsAreGuarded, Guarded, Serving
  <2>3. /\ c \in BillIds /\ bill[c] # Null /\ bill[c].state = "paid"
        /\ bill[c].expense \in {Null, e}
    BY <2>1, <2>2, CommitIsFresh
  <2>4. e # Null /\ Live(e) => tx[e].origin = c
    BY <2>1 DEF ClaimsAreOurs
  <2> HIDE DEF c, e
  <2>5. Status' = [Status EXCEPT ![c] = "unpaid"]
    BY <2>1, <2>3, OneLine DEF Moves
  <2>6. Status[c] = "paid"
    BY <2>3 DEF Status
  <2>7. \A t \in ExpensesOf(c) : t = e
    BY <2>3, NullAssumption DEF HasItsBill, ExpensesOf
  <2>8. \A b \in BillIds : ExpensesOf(b)' = IF b = c THEN {} ELSE ExpensesOf(b)
    <3>1. \A b \in BillIds : ExpensesOf(b)' = ExpensesOf(b) \ {e}
      BY <2>1 DEF ExpensesOf, Live, Delete
    <3>2. \A b \in BillIds : b # c => e \notin ExpensesOf(b)
      BY <2>4, NullAssumption DEF ExpensesOf
    <3> QED
      BY <2>7, <3>1, <3>2
  <2>9. Charged' = [Charged EXCEPT ![c] = {}]
    BY <2>3, <2>8 DEF Charged
  <2> QED
    BY <2>3, <2>5, <2>6, <2>9 DEF Turns, Moved
<1>6. ASSUME NEW w \in Workers, CommitTxUpdate(w) PROVE Turns
  <2>1. bill' = bill /\ \A t \in TxIds : /\ tx'[t] # Null <=> tx[t] # Null
                                         /\ tx[t] # Null => tx'[t].origin = tx[t].origin
    BY <1>6, TxUpdateCommits
  <2>2. Charged' = Charged
    BY <2>1, SameCharges
  <2> QED
    BY <2>1, <2>2 DEF Turns, Status
<1>7. ASSUME \/ \E w \in Workers : CommitTxDelete(w)
             \/ \E m \in Members : RemoveMember(m)
      PROVE  Turns
  <2>1. Status' = Status
    BY <1>7, LossCommits DEF Status, Moves
  <2>2. CASE BillIds = {}
    BY <2>1, <2>2 DEF Turns, Charged
  <2>3. CASE BillIds # {}
    <3>1. PICK gone \in SUBSET TxIds : tx' = Delete(tx, gone)
      BY <1>7, <2>3, LossCommits
    <3> QED
      BY <2>1, <3>1, LostCharges DEF Turns
  <2> QED
    BY <2>2, <2>3
<1>8. ASSUME NEW m \in Members, NEW c \in BillIds, NEW a \in Amounts, CreateBill(m, c, a)
      PROVE  Turns
  <2>1. bill[c] = Null /\ tx' = tx
    BY <1>8 DEF CreateBill, BillKeysAreUsed
  <2>2. /\ bill'[c] # Null /\ bill'[c].state = "unpaid"
        /\ \A b \in BillIds : b # c => bill'[b] = bill[b]
    BY <1>8, TypingStep, NullAssumption DEF CreateBill, TypeOK, BillRow
  <2>3. Status' = [Status EXCEPT ![c] = "unpaid"]
    BY <2>2, OneLine
  <2>4. Charged' = Charged
    BY <2>1, SameCharges
  <2> QED
    BY <2>1, <2>3, <2>4 DEF Turns, Moved, Status
<1>9. ASSUME NEW m \in Members, NEW s \in TxIds, NEW a \in Amounts, CreateTx(m, s, a) PROVE Turns
  <2>1. /\ bill' = bill /\ ~Live(s) /\ tx'[s].origin = Null
        /\ \A t \in TxIds : t # s => tx'[t] = tx[t]
    BY <1>9 DEF CreateTx, KeysAreUsed, TypeOK
  <2>2. Charged' = Charged
    BY <2>1, SameCharges, NullAssumption DEF Live
  <2> QED
    BY <2>1, <2>2 DEF Turns, Status
<1>10. ASSUME UNCHANGED <<bill, tx, members, issued>> PROVE Turns
  BY <1>10 DEF Turns, Status, Charged, ExpensesOf, Live
<1>11. ASSUME NEW w \in Workers,
              \/ CommitUpdate(w) \/ CommitRemove(w) \/ CommitCancel(w) \/ CommitUnpay(w)
              \/ \E s \in TxIds : CommitPay(w, s)
              \/ CommitTxUpdate(w) \/ CommitTxDelete(w)
       PROVE  Turns
  BY ONLY <1>1, <1>2, <1>3, <1>4, <1>5, <1>6, <1>7, <1>11
<1> QED
  BY ONLY Writers, [Next]_vars, <1>7, <1>8, <1>9, <1>10, <1>11

\* Where requests do not overlap the bills are a BillBook: a bill is charged to the
\* family by one expense while it is paid and by none otherwise, every request being
\* one step of the book or none.
THEOREM BillsAreABook == Spec => BookSpec
<1> DEFINE Inv == /\ IInv /\ BillKeysAreUsed /\ OnlyPool /\ ClaimsAreOurs
                  /\ OneAtATime => HasItsBill /\ \A w \in Workers : Fresh(w)
           St == [b \in BillIds |-> IF bill[b] = Null \/ ~OneAtATime THEN "absent" ELSE bill[b].state]
           Ch == [b \in BillIds |-> IF OneAtATime THEN ExpensesOf(b) ELSE {}]
<1>1. Init => Inv
  BY NullAssumption DEF Init, IInv, TypeOK, KeysAreUsed, RequestsAreGuarded, Guarded, OnlyPool, Idle,
     NamedExpenseIsOurs, BillKeysAreUsed, HasItsBill, ExpensesOf, Fresh, Live, Serving, ClaimsAreOurs
<1>2. Inv /\ [Next]_vars => Inv'
  <2> SUFFICES ASSUME Inv, [Next]_vars PROVE Inv'
    OBVIOUS
  <2>1. IInv' /\ BillKeysAreUsed' /\ OnlyPool' /\ ClaimsAreOurs'
    BY TypingStep, GuardsStep, KeysStep, NamedStep, BillKeysStep, OnlyPoolStep, ClaimsStep DEF IInv
  <2>2. OneAtATime' => OneAtATime
    BY PoolFixed DEF OneAtATime
  <2>3. ASSUME OneAtATime PROVE HasItsBill' /\ \A w \in Workers : Fresh(w)'
    BY <2>3, FreshStep, HasBillStep DEF OneInv
  <2> QED
    BY <2>1, <2>2, <2>3
<1>3. Init => Book!Init
  BY DEF Init, Book!Init, ExpensesOf, Live
<1>4. Inv /\ [Next]_vars => [Book!Next]_<<St, Ch>>
  <2> SUFFICES ASSUME Inv, [Next]_vars PROVE [Book!Next]_<<St, Ch>>
    OBVIOUS
  <2>1. OneAtATime' <=> OneAtATime
    BY PoolFixed DEF OneAtATime
  <2>2. CASE ~OneAtATime
    BY <2>1, <2>2
  <2>3. CASE OneAtATime
    <3>1. /\ St = Status /\ Ch = Charged
          /\ St' = Status' /\ Ch' = Charged'
      BY <2>1, <2>3 DEF Status, Charged
    <3>2. Turns
      BY <2>3, BookTurns DEF OneInv
    <3> QED
      BY <3>1, <3>2 DEF Turns, Moved, Book!Next, Book!Open, Book!Cancel, Book!Remove, Book!Unpay,
         Book!Pay, Book!Lose, Book!Move
  <2> QED
    BY <2>2, <2>3
<1> QED
  BY <1>1, <1>2, <1>3, <1>4, PTL DEF Spec, BookSpec, Book!Spec
=============================================================================
