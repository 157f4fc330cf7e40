------------------------------- MODULE Bills --------------------------------
(***************************************************************************)
(* Bills and the expenses that pay them: services/bills.py, with the part  *)
(* of services/transactions.py and of the foreign keys that touches the    *)
(* same rows.                                                              *)
(*                                                                         *)
(* A request is served by a thread (a member of Workers) in the steps that *)
(* another request can see: it loads the row and decides on it (Begin...), *)
(* then commits (Commit...).  Between the two, any other request may       *)
(* commit.  A create has nothing to load and is one step.                  *)
(***************************************************************************)
EXTENDS Orm

CONSTANTS
  Workers,   \* threads that can serve a request at the same time
  Members,   \* members of the family
  Admins,    \* those with role 'admin'
  Owner,     \* the member who created the family
  BillIds,   \* keys of bills, each inserted at most once
  TxIds,     \* keys of transactions, each inserted at most once
  Amounts,
  Null       \* SQL NULL, no row, no request

ASSUME RolesAssumption == Admins \subseteq Members /\ Owner \in Admins

VARIABLES
  bill,      \* table bills
  tx,        \* table transactions
  members,   \* table members
  issued,    \* keys already used by an INSERT (a uuid is never drawn twice)
  req,       \* what each worker holds in memory
  pool       \* the workers this deployment runs, fixed when it starts

vars == <<bill, tx, members, issued, req, pool>>

-----------------------------------------------------------------------------
\* A bill; its title, kind, due date and numbers are not told apart, amount
\* stands for the columns PATCH may edit.
BillRow == [state: {"unpaid", "paid", "cancelled"}, amount: Amounts,
            paid_by: Members \cup {Null}, expense: TxIds \cup {Null}]

\* A transaction.  origin is not a column: it remembers the bill whose payment
\* inserted the row, Null for one a member entered.
TxRow == [member: Members, amount: Amounts, origin: BillIds \cup {Null}]

BillOps == {"update", "remove", "cancel", "pay", "unpay"}
TxOps == {"txUpdate", "txDelete"}

BillRequest == [op: BillOps, step: {"read", "write"}, actor: Members,
                bill: BillIds, row: BillRow, amount: Amounts]
TxRequest == [op: TxOps, actor: Members, expense: TxIds, row: TxRow, edited: TxRow]

ASSUME NullAssumption ==
  /\ Null \notin Members \cup BillIds \cup TxIds
  /\ Null \notin BillRow \cup TxRow \cup BillRequest \cup TxRequest

TypeOK ==
  /\ bill \in [BillIds -> BillRow \cup {Null}]
  /\ tx \in [TxIds -> TxRow \cup {Null}]
  /\ members \subseteq Members
  /\ issued \subseteq BillIds \cup TxIds
  /\ req \in [Workers -> BillRequest \cup TxRequest \cup {Null}]
  /\ pool \subseteq Workers

Init ==
  /\ bill = [b \in BillIds |-> Null]
  /\ tx = [t \in TxIds |-> Null]
  /\ members = Members
  /\ issued = {}
  /\ req = [w \in Workers |-> Null]
  /\ pool \in SUBSET Workers

-----------------------------------------------------------------------------
Idle(w) == req[w] = Null
Done(w) == req' = [req EXCEPT ![w] = Null]
Serving(w, op) == ~Idle(w) /\ req[w].op = op

\* _get and the handler's first guard have passed; row is the loaded copy.
Load(w, m, op, step, b, a) ==
  /\ w \in pool /\ Idle(w) /\ m \in members /\ bill[b] # Null
  /\ req' = [req EXCEPT ![w] = [op |-> op, step |-> step, actor |-> m, bill |-> b,
                                row |-> bill[b], amount |-> a]]
  /\ UNCHANGED <<bill, tx, members, issued, pool>>

\* The handler raises, its session is rolled back: an UPDATE that matches no
\* row, a broken foreign key, a database error, a killed process.
Rollback(w) ==
  /\ ~Idle(w)
  /\ Done(w)
  /\ UNCHANGED <<bill, tx, members, issued, pool>>

\* A foreign key without ON DELETE SET NULL.
SetNullMutant(table, gone) == table

\* bills.transaction_id REFERENCES transactions ON DELETE SET NULL.
SetNull(table, gone) ==
  [b \in BillIds |-> IF table[b] # Null /\ table[b].expense \in gone
                     THEN [table[b] EXCEPT !.expense = Null] ELSE table[b]]

Delete(table, gone) == [t \in TxIds |-> IF t \in gone THEN Null ELSE table[t]]

-----------------------------------------------------------------------------
CreateBill(m, b, a) ==
  /\ m \in members /\ b \notin issued
  /\ bill' = [bill EXCEPT ![b] = [state |-> "unpaid", amount |-> a,
                                  paid_by |-> Null, expense |-> Null]]
  /\ issued' = issued \cup {b}
  /\ UNCHANGED <<tx, members, req, pool>>

BeginUpdate(w, m, b, a) ==
  /\ Load(w, m, "update", "write", b, a)
  /\ bill[b].state # "paid"

\* The guard of remove is forgotten.
BeginRemoveMutant(w, m, b) == Load(w, m, "remove", "write", b, bill[b].amount)

BeginRemove(w, m, b) ==
  /\ Load(w, m, "remove", "write", b, bill[b].amount)
  /\ bill[b].state # "paid"

\* The guard of cancel is forgotten.
BeginCancelMutant(w, m, b) == Load(w, m, "cancel", "write", b, bill[b].amount)

BeginCancel(w, m, b) ==
  /\ Load(w, m, "cancel", "write", b, bill[b].amount)
  /\ bill[b].state # "paid"

BeginPay(w, m, b) ==
  /\ Load(w, m, "pay", "write", b, bill[b].amount)
  /\ bill[b].state \notin {"paid", "cancelled"}

BeginUnpay(w, m, b) ==
  /\ Load(w, m, "unpay", IF bill[b].expense = Null THEN "write" ELSE "read",
          b, bill[b].amount)
  /\ bill[b].state = "paid"
  /\ m \in Admins \/ bill[b].paid_by = m

\* unpay's second SELECT: delete_uncommitted finds the expense, if the member
\* may delete it; otherwise it raises NOT_FOUND.
FindExpense(w) ==
  /\ Serving(w, "unpay") /\ req[w].step = "read"
  /\ LET t == req[w].row.expense IN
       req' = [req EXCEPT ![w] =
                 IF tx[t] # Null /\ (req[w].actor \in Admins \/ tx[t].member = req[w].actor)
                 THEN [req[w] EXCEPT !.step = "write"] ELSE Null]
  /\ UNCHANGED <<bill, tx, members, issued, pool>>

\* unpay writes a state the CHECK of the table does not list.
EditedMutant(r, t) ==
  IF r.op = "unpay" THEN [r.row EXCEPT !.state = "due", !.paid_by = Null, !.expense = Null]
  ELSE IF r.op = "pay" THEN [r.row EXCEPT !.state = "paid", !.paid_by = r.actor, !.expense = t]
  ELSE r.row

\* The row a bill handler leaves in its session.
Edited(r, t) ==
  CASE r.op = "update" -> [r.row EXCEPT !.amount = r.amount]
    [] r.op = "cancel" -> [r.row EXCEPT !.state = "cancelled"]
    [] r.op = "pay"    -> [r.row EXCEPT !.state = "paid", !.paid_by = r.actor, !.expense = t]
    [] r.op = "unpay"  -> [r.row EXCEPT !.state = "unpaid", !.paid_by = Null, !.expense = Null]

CommitUpdate(w) ==
  /\ Serving(w, "update") /\ bill[req[w].bill] # Null
  /\ bill' = [bill EXCEPT ![req[w].bill] = Flush(@, req[w].row, Edited(req[w], Null))]
  /\ Done(w)
  /\ UNCHANGED <<tx, members, issued, pool>>

\* A DELETE that matches no row is not an error.
CommitRemove(w) ==
  /\ Serving(w, "remove")
  /\ bill' = [bill EXCEPT ![req[w].bill] = Null]
  /\ Done(w)
  /\ UNCHANGED <<tx, members, issued, pool>>

CommitCancel(w) ==
  /\ Serving(w, "cancel") /\ bill[req[w].bill] # Null
  /\ bill' = [bill EXCEPT ![req[w].bill] = Flush(@, req[w].row, Edited(req[w], Null))]
  /\ Done(w)
  /\ UNCHANGED <<tx, members, issued, pool>>

\* The expense is committed by itself, the bill to be closed by a later commit.
CommitPayMutant(w, t) ==
  /\ Serving(w, "pay") /\ bill[req[w].bill] # Null
  /\ req[w].actor \in members /\ t \notin issued
  /\ tx' = [tx EXCEPT ![t] = [member |-> req[w].actor, amount |-> req[w].row.amount,
                              origin |-> req[w].bill]]
  /\ issued' = issued \cup {t}
  /\ Done(w)
  /\ UNCHANGED <<bill, members, pool>>

\* INSERT of the expense and UPDATE of the bill, one commit.  The amount is the
\* one loaded; the member must still exist (foreign key).
CommitPay(w, t) ==
  /\ Serving(w, "pay") /\ bill[req[w].bill] # Null
  /\ req[w].actor \in members /\ t \notin issued
  /\ tx' = [tx EXCEPT ![t] = [member |-> req[w].actor, amount |-> req[w].row.amount,
                              origin |-> req[w].bill]]
  /\ bill' = [bill EXCEPT ![req[w].bill] = Flush(@, req[w].row, Edited(req[w], t))]
  /\ issued' = issued \cup {t}
  /\ Done(w)
  /\ UNCHANGED <<members, pool>>

\* DELETE of the expense found, then UPDATE of the bill, one commit.
CommitUnpay(w) ==
  /\ Serving(w, "unpay") /\ req[w].step = "write" /\ bill[req[w].bill] # Null
  /\ tx' = Delete(tx, {req[w].row.expense})
  /\ bill' = [SetNull(bill, {req[w].row.expense} \ {Null}) EXCEPT
                ![req[w].bill] = Flush(@, req[w].row, Edited(req[w], Null))]
  /\ Done(w)
  /\ UNCHANGED <<members, issued, pool>>

-----------------------------------------------------------------------------
\* The transactions API on the same rows.

CreateTx(m, t, a) ==
  /\ m \in members /\ t \notin issued
  /\ tx' = [tx EXCEPT ![t] = [member |-> m, amount |-> a, origin |-> Null]]
  /\ issued' = issued \cup {t}
  /\ UNCHANGED <<bill, members, req, pool>>

LoadTx(w, m, op, t, edited) ==
  /\ w \in pool /\ Idle(w) /\ m \in members /\ tx[t] # Null
  /\ req' = [req EXCEPT ![w] = [op |-> op, actor |-> m, expense |-> t,
                                row |-> tx[t], edited |-> edited]]
  /\ UNCHANGED <<bill, tx, members, issued, pool>>

\* Any member may edit any transaction of the family, its member included.
BeginTxUpdate(w, m, t, for, a) ==
  /\ for \in members
  /\ LoadTx(w, m, "txUpdate", t, [tx[t] EXCEPT !.member = for, !.amount = a])

BeginTxDelete(w, m, t) ==
  /\ LoadTx(w, m, "txDelete", t, tx[t])
  /\ m \in Admins \/ tx[t].member = m

CommitTxUpdate(w) ==
  /\ Serving(w, "txUpdate") /\ tx[req[w].expense] # Null
  /\ tx' = [tx EXCEPT ![req[w].expense] = Flush(@, req[w].row, req[w].edited)]
  /\ tx'[req[w].expense].member \in members
  /\ Done(w)
  /\ UNCHANGED <<bill, members, issued, pool>>

CommitTxDelete(w) ==
  /\ Serving(w, "txDelete")
  /\ tx' = Delete(tx, {req[w].expense})
  /\ bill' = SetNull(bill, {req[w].expense})
  /\ Done(w)
  /\ UNCHANGED <<members, issued, pool>>

\* family.remove_member: transactions.member_id cascades, bills.paid_by and,
\* through the transactions, bills.transaction_id become NULL.
RemoveMember(m) ==
  /\ m \in members \ {Owner}
  /\ LET gone == {t \in TxIds : tx[t] # Null /\ tx[t].member = m}
         left == SetNull(bill, gone) IN
       /\ tx' = Delete(tx, gone)
       /\ bill' = [b \in BillIds |-> IF left[b] # Null /\ left[b].paid_by = m
                                     THEN [left[b] EXCEPT !.paid_by = Null] ELSE left[b]]
  /\ members' = members \ {m}
  /\ UNCHANGED <<issued, req, pool>>

-----------------------------------------------------------------------------
BillStep(w) ==
  \/ \E m \in Members, b \in BillIds :
       \/ \E a \in Amounts : BeginUpdate(w, m, b, a)
       \/ BeginRemove(w, m, b) \/ BeginCancel(w, m, b)
       \/ BeginPay(w, m, b) \/ BeginUnpay(w, m, b)
  \/ FindExpense(w)
  \/ CommitUpdate(w) \/ CommitRemove(w) \/ CommitCancel(w) \/ CommitUnpay(w)
  \/ \E t \in TxIds : CommitPay(w, t)

TxStep(w) ==
  \/ \E m \in Members, t \in TxIds :
       \/ \E for \in Members, a \in Amounts : BeginTxUpdate(w, m, t, for, a)
       \/ BeginTxDelete(w, m, t)
  \/ CommitTxUpdate(w) \/ CommitTxDelete(w)

Next ==
  \/ \E w \in Workers : BillStep(w) \/ TxStep(w) \/ Rollback(w)
  \/ \E m \in Members, b \in BillIds, a \in Amounts : CreateBill(m, b, a)
  \/ \E m \in Members, t \in TxIds, a \in Amounts : CreateTx(m, t, a)
  \/ \E m \in Members : RemoveMember(m)

Spec == Init /\ [][Next]_vars

-----------------------------------------------------------------------------
Live(t) == tx[t] # Null
ExpensesOf(b) == {t \in TxIds : Live(t) /\ tx[t].origin = b}

\* Paying a bill charges the family once: at no time do two expenses of one
\* bill stand in the ledger (bills.py:16-17).
OneExpensePerBill ==
  \A b \in BillIds : \A s, t \in ExpensesOf(b) : s = t

\* Requests are served one after the other.
OneAtATime == \A v, w \in pool : v = w

\* No expense is left behind by a payment that was taken back, a bill that was
\* cancelled or removed, or a failed request: where requests do not overlap, an
\* expense charged for a bill is the one that bill names, and the bill is paid
\* (bills.py:11-14, 243-245).
ExpenseHasItsBill ==
  OneAtATime =>
    \A b \in BillIds : \A t \in ExpensesOf(b) :
      bill[b] # Null /\ bill[b].state = "paid" /\ bill[b].expense = t

\* Whatever requests overlap, a bill names a live expense that its own payment
\* inserted, never one that was deleted or that another bill was charged.
NamedExpenseIsOurs ==
  \A b \in BillIds :
    bill[b] # Null /\ bill[b].expense # Null => bill[b].expense \in ExpensesOf(b)

\* Payment is one commit (bills.py:11-14): an expense for a bill appears in
\* exactly the step that closes the bill and makes the bill name it, however
\* requests overlap and wherever one of them dies.
PaymentIsOneCommit ==
  [][\A b \in BillIds, t \in TxIds :
       (~Live(t) /\ tx'[t] # Null /\ tx'[t].origin = b)
         <=> (/\ bill'[b] # Null /\ bill'[b].expense = t
              /\ (bill[b] = Null \/ bill[b].expense # t)
              /\ bill'[b].state = "paid")]_vars

\* Where requests do not overlap the bills are a BillBook; elsewhere the book
\* stays shut.
Book == INSTANCE BillBook WITH
  status  <- [b \in BillIds |-> IF bill[b] = Null \/ ~OneAtATime THEN "absent" ELSE bill[b].state],
  charged <- [b \in BillIds |-> IF OneAtATime THEN ExpensesOf(b) ELSE {}]
BookSpec == Book!Spec
=============================================================================
