------------------------------ MODULE Inventory -----------------------------
(***************************************************************************)
(* The family's stock at home: services/inventory.py.                      *)
(*                                                                         *)
(* As in Bills, a request loads (Begin...) and later commits (Commit...).  *)
(* A title is unique in the family by a constraint of the table; the       *)
(* handler's own test only words the refusal.  Unit, threshold and note    *)
(* are not told apart.                                                     *)
(*                                                                         *)
(* Shopping composes these actions with those of the lists and the trips,  *)
(* which write the stock too; the assumptions on the constants and the     *)
(* properties of the stock are stated there.                               *)
(***************************************************************************)
EXTENDS Orm, Integers

CONSTANTS
  Workers,
  StockIds,  \* keys of the rows, each inserted at most once
  Titles,
  Deltas,    \* steps a client may send to adjust
  MaxQty,    \* _MAX_QTY
  Null

VARIABLES
  stock,     \* table inventory_items
  issued,    \* keys already used by an INSERT
  req        \* what each worker holds in memory

-----------------------------------------------------------------------------
Quantity == 0..MaxQty
StockRow == [title: Titles, quantity: Quantity]
RowOps == {"update", "adjust", "remove"}

\* row is the copy loaded, edited the copy as the handler leaves it; delta is
\* what the client asked of adjust.
StockRequest ==
  [op: {"create"}, edited: StockRow]
    \cup [op: RowOps, id: StockIds, row: StockRow, edited: StockRow, delta: Int]

Init ==
  /\ stock = [i \in StockIds |-> Null]
  /\ issued = {}
  /\ req = [w \in Workers |-> Null]

-----------------------------------------------------------------------------
Idle(w) == req[w] = Null
Done(w) == req' = [req EXCEPT ![w] = Null]
Serving(w, op) == ~Idle(w) /\ req[w].op = op
InStock(i) == stock[i] # Null

\* The unique constraint, and _assert_unique: no other row has the title.
TitleFree(title, i) == \A j \in StockIds \ {i} : InStock(j) => stock[j].title # title

\* Below zero is zero; above the maximum is the maximum (bump_uncommitted).
Clamp(n) == IF n < 0 THEN 0 ELSE IF n > MaxQty THEN MaxQty ELSE n

Rollback(w) ==
  /\ ~Idle(w)
  /\ Done(w)
  /\ UNCHANGED <<stock, issued>>

BeginCreate(w, title, q) ==
  /\ Idle(w) /\ TitleFree(title, Null)
  /\ req' = [req EXCEPT ![w] = [op |-> "create",
                                edited |-> [title |-> title, quantity |-> q]]]
  /\ UNCHANGED <<stock, issued>>

\* The INSERT without the unique constraint.
CommitCreateMutant(w, i) ==
  /\ Serving(w, "create") /\ i \notin issued
  /\ stock' = [stock EXCEPT ![i] = req[w].edited]
  /\ issued' = issued \cup {i}
  /\ Done(w)

CommitCreate(w, i) ==
  /\ Serving(w, "create") /\ i \notin issued
  /\ TitleFree(req[w].edited.title, i)
  /\ stock' = [stock EXCEPT ![i] = req[w].edited]
  /\ issued' = issued \cup {i}
  /\ Done(w)

\* _get found the row and the guards have passed.
Load(w, op, i, edited, d) ==
  /\ Idle(w) /\ InStock(i)
  /\ req' = [req EXCEPT ![w] = [op |-> op, id |-> i, row |-> stock[i],
                                edited |-> edited, delta |-> d]]
  /\ UNCHANGED <<stock, issued>>

BeginUpdate(w, i, title, q) ==
  /\ Load(w, "update", i, [title |-> title, quantity |-> q], 0)
  /\ TitleFree(title, i)

\* The result is not taken to zero when it is negative.
BeginAdjustMutant(w, i, d) ==
  /\ d # 0 /\ -MaxQty <= d /\ d <= MaxQty
  /\ InStock(i) /\ stock[i].quantity + d <= MaxQty
  /\ Load(w, "adjust", i, [stock[i] EXCEPT !.quantity = @ + d], d)

\* A zero step writes nothing, a step or a result above _MAX_QTY is refused.
BeginAdjust(w, i, d) ==
  /\ d # 0 /\ -MaxQty <= d /\ d <= MaxQty
  /\ InStock(i) /\ stock[i].quantity + d <= MaxQty
  /\ Load(w, "adjust", i, [stock[i] EXCEPT !.quantity = Clamp(@ + d)], d)

BeginRemove(w, i) == Load(w, "remove", i, stock[i], 0)

\* The UPDATE names the columns the handler changed, and updated_at; it must
\* still find the row and keep the title unique.
Store(w, op) ==
  LET i == req[w].id
      row == Flush(stock[i], req[w].row, req[w].edited) IN
  /\ Serving(w, op) /\ InStock(i) /\ TitleFree(row.title, i)
  /\ stock' = [stock EXCEPT ![i] = row]
  /\ Done(w)
  /\ UNCHANGED issued

CommitUpdate(w) == Store(w, "update")

CommitAdjust(w) == Store(w, "adjust")

CommitRemove(w) ==
  /\ Serving(w, "remove")
  /\ stock' = [stock EXCEPT ![req[w].id] = Null]
  /\ Done(w)
  /\ UNCHANGED issued
=============================================================================
