------------------------------ MODULE Shopping ------------------------------
(***************************************************************************)
(* Shopping lists, and the trip that turns the ticked items of a list into *)
(* an expense and into stock: services/shopping.py over Inventory, with    *)
(* the expenses of the transactions table a trip inserts.                  *)
(*                                                                         *)
(* Requests load (Begin...) and commit (Commit...) as in Inventory, whose  *)
(* workers they share.  Who asks, names of lists, units and notes are not  *)
(* told apart.                                                             *)
(***************************************************************************)
EXTENDS Orm, Integers, FiniteSets, Functions

CONSTANTS
  Workers, StockIds, Titles, Deltas, MaxQty, Null,   \* as in Inventory
  ListIds, ItemIds, TxIds,  \* keys, each inserted at most once
  Prices,                   \* price of a line, 0 when none is given
  Qtys,                     \* quantity of a line
  MaxLists, MaxItems        \* _MAX_LISTS, _MAX_ITEMS

ASSUME StockAssumption == MaxQty \in Nat /\ Deltas \subseteq Int
ASSUME KeysAssumption == IsFiniteSet(ItemIds)
ASSUME PricesAssumption == Prices \subseteq Nat /\ Qtys \subseteq Nat \ {0}
ASSUME LimitsAssumption == MaxLists \in Nat /\ MaxItems \in Nat

VARIABLES
  lists,     \* keys in table shopping_lists
  item,      \* table shopping_items
  tx,        \* the trips' expenses in table transactions
  stock, issued, req,
  pool       \* the workers this deployment runs, fixed when it starts

own == <<lists, item, tx, pool>>
vars == <<lists, item, tx, stock, issued, req, pool>>

Stock == INSTANCE Inventory

-----------------------------------------------------------------------------
ItemRow == [list: ListIds, title: Titles, qty: Qtys, price: Prices,
            link: StockIds \cup {Null}, checked: BOOLEAN, bought: BOOLEAN,
            expense: TxIds \cup {Null}]

\* An expense and, not a column, what it was charged for.
TxRow == [items: SUBSET ItemIds, charged: Nat]

ItemOps == {"updateItem", "checkItem", "deleteItem"}
ShoppingRequest ==
  [op: {"createList"}] \cup [op: {"addItem"}, edited: ItemRow]
    \cup [op: ItemOps, id: ItemIds, row: ItemRow, edited: ItemRow]
    \cup [op: {"trip"}, left: SUBSET StockIds, charge: BOOLEAN,
          rows: [ItemIds -> ItemRow \cup {Null}],
          found: [StockIds -> Stock!StockRow \cup {Null}]]

ASSUME NullAssumption ==
  Null \notin ListIds \cup ItemIds \cup TxIds \cup StockIds \cup ItemRow \cup TxRow
                \cup Stock!StockRow \cup Stock!StockRequest \cup ShoppingRequest

TypeOK ==
  /\ lists \subseteq ListIds
  /\ item \in [ItemIds -> ItemRow \cup {Null}]
  /\ tx \in [TxIds -> TxRow \cup {Null}]
  /\ stock \in [StockIds -> Stock!StockRow \cup {Null}]
  /\ issued \subseteq StockIds \cup ListIds \cup ItemIds \cup TxIds
  /\ pool \subseteq Workers
  /\ req \in [Workers -> Stock!StockRequest \cup ShoppingRequest \cup {Null}]

Init ==
  /\ lists = {}
  /\ item = [i \in ItemIds |-> Null]
  /\ tx = [t \in TxIds |-> Null]
  /\ pool \in SUBSET Workers
  /\ Stock!Init

-----------------------------------------------------------------------------
InLists(i) == item[i] # Null
Pending(l) == {i \in ItemIds : InLists(i) /\ item[i].list = l /\ ~item[i].bought}
PendingTitleFree(l, title, i) == \A j \in Pending(l) \ {i} : item[j].title # title

\* A linked row of the stock must exist: when the handler looks and, by the
\* foreign key, when it writes.
LinkExists(s) == s # Null => Stock!InStock(s)

Ask(w, request) ==
  /\ w \in pool /\ Stock!Idle(w)
  /\ req' = [req EXCEPT ![w] = request]
  /\ UNCHANGED <<own, stock, issued>>

BeginCreateList(w) ==
  /\ Cardinality(lists) < MaxLists
  /\ Ask(w, [op |-> "createList"])

CommitCreateList(w, l) ==
  /\ Stock!Serving(w, "createList") /\ l \notin issued
  /\ lists' = lists \cup {l}
  /\ issued' = issued \cup {l}
  /\ Stock!Done(w)
  /\ UNCHANGED <<item, tx, stock, pool>>

\* The items go with the list by ON DELETE CASCADE, their expenses stay.  What
\* delete_list loads does not bear on what it deletes.
DeleteList(l) ==
  /\ l \in lists
  /\ lists' = lists \ {l}
  /\ item' = [i \in ItemIds |-> IF InLists(i) /\ item[i].list = l THEN Null ELSE item[i]]
  /\ UNCHANGED <<tx, stock, issued, req, pool>>

BeginAddItem(w, l, title, qty, price, s) ==
  /\ l \in lists /\ LinkExists(s)
  /\ PendingTitleFree(l, title, Null)
  /\ Cardinality(Pending(l)) < MaxItems
  /\ Ask(w, [op |-> "addItem",
             edited |-> [list |-> l, title |-> title, qty |-> qty, price |-> price, link |-> s,
                         checked |-> FALSE, bought |-> FALSE, expense |-> Null]])

CommitAddItem(w, i) ==
  LET row == req[w].edited IN
  /\ Stock!Serving(w, "addItem") /\ i \notin issued
  /\ row.list \in lists /\ LinkExists(row.link)
  /\ item' = [item EXCEPT ![i] = row]
  /\ issued' = issued \cup {i}
  /\ Stock!Done(w)
  /\ UNCHANGED <<lists, tx, stock, pool>>

LoadItem(w, op, i, edited) ==
  /\ InLists(i) /\ ~item[i].bought
  /\ Ask(w, [op |-> op, id |-> i, row |-> item[i], edited |-> edited])

BeginUpdateItem(w, i, title, qty, price, s) ==
  /\ InLists(i) /\ LinkExists(s)
  /\ PendingTitleFree(item[i].list, title, i)
  /\ LoadItem(w, "updateItem", i, [item[i] EXCEPT !.title = title, !.qty = qty,
                                                  !.price = price, !.link = s])

BeginCheckItem(w, i, checked) ==
  InLists(i) /\ LoadItem(w, "checkItem", i, [item[i] EXCEPT !.checked = checked])

\* An item already bought may be deleted.
BeginDeleteItemMutant(w, i) ==
  InLists(i) /\ Ask(w, [op |-> "deleteItem", id |-> i, row |-> item[i], edited |-> item[i]])

BeginDeleteItem(w, i) == InLists(i) /\ LoadItem(w, "deleteItem", i, item[i])

StoreItem(w, op) ==
  LET i == req[w].id
      row == Flush(item[i], req[w].row, req[w].edited) IN
  /\ Stock!Serving(w, op) /\ InLists(i) /\ LinkExists(row.link)
  /\ item' = [item EXCEPT ![i] = row]
  /\ Stock!Done(w)
  /\ UNCHANGED <<lists, tx, stock, issued, pool>>

CommitUpdateItem(w) == StoreItem(w, "updateItem")
CommitCheckItem(w) == StoreItem(w, "checkItem")

CommitDeleteItem(w) ==
  /\ Stock!Serving(w, "deleteItem")
  /\ item' = [item EXCEPT ![req[w].id] = Null]
  /\ Stock!Done(w)
  /\ UNCHANGED <<lists, tx, stock, issued, pool>>

-----------------------------------------------------------------------------
\* complete_trip.

\* The rows of the stock the items of a cart are linked to.
Rows(cart) == {item[i].link : i \in cart} \ {Null}

\* The trip takes every item of the list, bought ones included.
BeginTripMutant(w, l, charge) ==
  LET cart == {i \in ItemIds : InLists(i) /\ item[i].list = l /\ item[i].checked} IN
  /\ l \in lists /\ cart # {}
  /\ Ask(w, [op |-> "trip", left |-> Rows(cart), charge |-> charge,
             rows |-> [i \in ItemIds |-> IF i \in cart THEN item[i] ELSE Null],
             found |-> [s \in StockIds |-> Null]])

\* It loads the items ticked and not yet bought; charge is create_transaction.
BeginTrip(w, l, charge) ==
  LET cart == {i \in Pending(l) : item[i].checked} IN
  /\ l \in lists /\ cart # {}
  /\ Ask(w, [op |-> "trip", left |-> Rows(cart), charge |-> charge,
             rows |-> [i \in ItemIds |-> IF i \in cart THEN item[i] ELSE Null],
             found |-> [s \in StockIds |-> Null]])

Cart(w) == {i \in ItemIds : req[w].rows[i] # Null}
CartOf(w, s) == {i \in Cart(w) : req[w].rows[i].link = s}
Total(w) == SumFunction([i \in Cart(w) |-> req[w].rows[i].price])
Bought(w, s) == SumFunction([i \in CartOf(w, s) |-> req[w].rows[i].qty])

\* bump_uncommitted: one linked row after the other is read, and others commit in
\* between; a row that is gone is passed over.
ReadRow(trip, s) == [trip EXCEPT !.left = @ \ {s}, !.found[s] = stock[s]]

ReadStock(w) ==
  /\ Stock!Serving(w, "trip")
  /\ \E s \in req[w].left : req' = [req EXCEPT ![w] = ReadRow(req[w], s)]
  /\ UNCHANGED <<own, stock, issued>>

\* The row of an item after the trip's UPDATE, naming expense t.
Stamped(w, i, t) ==
  Flush(item[i], req[w].rows[i], [req[w].rows[i] EXCEPT !.bought = TRUE, !.expense = t])

\* Several items of one row of the stock overwrite each other.
BumpedMutant(w, s) ==
  LET one == CHOOSE i \in CartOf(w, s) : TRUE IN
  [stock[s] EXCEPT !.quantity = Stock!Clamp(@ + req[w].rows[one].qty)]

\* The row of the stock after the trip's UPDATE: several items of one row add
\* up in the session before it is written.
Bumped(w, s) ==
  LET row == req[w].found[s] IN
  Flush(stock[s], row, [row EXCEPT !.quantity = Stock!Clamp(@ + Bought(w, s))])

\* The expense is committed before the items and the stock are touched.
CommitTripMutant(w, t) ==
  /\ Stock!Serving(w, "trip") /\ req[w].left = {}
  /\ t # Null => t \notin issued
  /\ item' = item
  /\ tx' = IF t = Null THEN tx
           ELSE [tx EXCEPT ![t] = [items |-> Cart(w), charged |-> Total(w)]]
  /\ issued' = issued \cup ({t} \ {Null})
  /\ Stock!Done(w)
  /\ UNCHANGED <<lists, stock, pool>>

\* INSERT of the expense (t, or Null when there is nothing to charge), UPDATE
\* of the items and of the stock, one commit.  Every row must still be there.
CommitTrip(w, t) ==
  /\ Stock!Serving(w, "trip") /\ req[w].left = {}
  /\ IF req[w].charge /\ Total(w) > 0 THEN t \in TxIds \ issued ELSE t = Null
  /\ \A i \in Cart(w) : InLists(i)
  /\ \A s \in StockIds : req[w].found[s] # Null => Stock!InStock(s)
  /\ item' = [i \in ItemIds |-> IF i \in Cart(w) THEN Stamped(w, i, t) ELSE item[i]]
  /\ stock' = [s \in StockIds |-> IF req[w].found[s] # Null THEN Bumped(w, s) ELSE stock[s]]
  /\ tx' = IF t = Null THEN tx
           ELSE [tx EXCEPT ![t] = [items |-> Cart(w), charged |-> Total(w)]]
  /\ issued' = issued \cup ({t} \ {Null})
  /\ Stock!Done(w)
  /\ UNCHANGED <<lists, pool>>

-----------------------------------------------------------------------------
\* shopping_items.transaction_id without ON DELETE SET NULL.
DropExpenseMutant(t) ==
  /\ tx[t] # Null
  /\ tx' = [tx EXCEPT ![t] = Null]
  /\ UNCHANGED <<lists, item, stock, issued, req, pool>>

\* An expense is deleted through the transactions API or with its member; the
\* items it paid stay, shopping_items.transaction_id becomes NULL.
DropExpense(t) ==
  /\ tx[t] # Null
  /\ tx' = [tx EXCEPT ![t] = Null]
  /\ item' = [i \in ItemIds |-> IF InLists(i) /\ item[i].expense = t
                                THEN [item[i] EXCEPT !.expense = Null] ELSE item[i]]
  /\ UNCHANGED <<lists, stock, issued, req, pool>>

\* shopping_items.inventory_item_id without ON DELETE SET NULL.
RemoveStockMutant(w) == Stock!CommitRemove(w) /\ UNCHANGED own

\* inventory.remove; shopping_items.inventory_item_id becomes NULL.
RemoveStock(w) ==
  /\ Stock!CommitRemove(w)
  /\ item' = [i \in ItemIds |-> IF InLists(i) /\ item[i].link = req[w].id
                                THEN [item[i] EXCEPT !.link = Null] ELSE item[i]]
  /\ UNCHANGED <<lists, tx, pool>>

\* The other steps of Inventory leave the lists alone.
OtherStockStep(w) ==
  /\ w \in pool
  /\ \/ \E title \in Titles, q \in Stock!Quantity : Stock!BeginCreate(w, title, q)
     \/ \E s \in StockIds :
          \/ Stock!CommitCreate(w, s)
          \/ \E title \in Titles, q \in Stock!Quantity : Stock!BeginUpdate(w, s, title, q)
          \/ \E d \in Deltas : Stock!BeginAdjust(w, s, d)
          \/ Stock!BeginRemove(w, s)
     \/ Stock!CommitUpdate(w) \/ Stock!CommitAdjust(w) \/ Stock!Rollback(w)
  /\ UNCHANGED own

ListStep(w) ==
  \/ BeginCreateList(w)
  \/ \E l \in ListIds :
       \/ CommitCreateList(w, l)
       \/ \E charge \in BOOLEAN : BeginTrip(w, l, charge)
       \/ \E title \in Titles, qty \in Qtys, price \in Prices, s \in StockIds \cup {Null} :
            BeginAddItem(w, l, title, qty, price, s)
  \/ ReadStock(w)
  \/ \E t \in TxIds \cup {Null} : CommitTrip(w, t)

ItemStep(w) ==
  \/ \E i \in ItemIds :
       \/ CommitAddItem(w, i)
       \/ \E title \in Titles, qty \in Qtys, price \in Prices, s \in StockIds \cup {Null} :
            BeginUpdateItem(w, i, title, qty, price, s)
       \/ \E checked \in BOOLEAN : BeginCheckItem(w, i, checked)
       \/ BeginDeleteItem(w, i)
  \/ CommitUpdateItem(w) \/ CommitCheckItem(w) \/ CommitDeleteItem(w)

Next ==
  \/ \E w \in Workers : ListStep(w) \/ ItemStep(w) \/ OtherStockStep(w) \/ RemoveStock(w)
  \/ \E l \in ListIds : DeleteList(l)
  \/ \E t \in TxIds : DropExpense(t)

Spec == Init /\ [][Next]_vars

-----------------------------------------------------------------------------
Live(t) == tx[t] # Null
PaidBy(t) == {i \in ItemIds : InLists(i) /\ item[i].expense = t}
Closes(w) == Stock!Serving(w, "trip") /\ req'[w] = Null /\ item' # item

\* Requests are served one after the other.
OneAtATime == \A v, w \in pool : v = w

\* Two rows of one name never stand in the stock, although every handler tests
\* the name before, and not when, it writes (inventory.py:19-21).
TitlesUnique ==
  \A i, j \in StockIds :
    Stock!InStock(i) /\ Stock!InStock(j) /\ stock[i].title = stock[j].title => i = j

\* The commit of an adjustment.
Adjusts(w) == Stock!Serving(w, "adjust") /\ req'[w] = Null /\ stock' # stock

MovedByStep(w) ==
  LET i == req[w].id IN stock'[i].quantity = Stock!Clamp(stock[i].quantity + req[w].delta)

\* An adjustment keeps the name somebody else gave the row meanwhile ("one less"
\* is not a rewrite of the row), and if nobody wrote in front of it, another
\* request of the stock or a trip, it moves the quantity by exactly its step, down
\* to zero at most: a step is lost only to a write between the load and the commit.
AdjustIsExact ==
  [][\A w \in Workers : Adjusts(w) =>
       /\ stock'[req[w].id].title = stock[req[w].id].title
       /\ stock[req[w].id] = req[w].row => MovedByStep(w)]_vars

\* An adjustment moves the quantity in the table by its step, down to zero at
\* most, whatever other request committed since it loaded the row
\* (inventory.py:15-17): true where requests do not overlap.
AdjustIsRelative ==
  [][OneAtATime => \A w \in Workers : Adjusts(w) => MovedByStep(w)]_vars

\* However requests overlap, an item names a live expense that was charged for
\* it, a live list and a live row of the stock, and is bought if it is paid.
NamesAreLive ==
  \A i \in ItemIds : InLists(i) =>
    /\ item[i].list \in lists
    /\ LinkExists(item[i].link)
    /\ item[i].expense # Null => /\ Live(item[i].expense)
                                 /\ i \in tx[item[i].expense].items
                                 /\ item[i].bought

\* A trip is one commit (shopping.py:11-15): an expense appears in the step that
\* stamps everything it was charged for, and no item is stamped apart from it,
\* however requests overlap and wherever one of them dies.
TripIsOneCommit ==
  [][\A t \in TxIds :
       /\ ~Live(t) /\ tx'[t] # Null
            => tx'[t].items # {}
               /\ \A i \in tx'[t].items : item'[i] # Null /\ item'[i].bought /\ item'[i].expense = t
       /\ \A i \in ItemIds :
            item'[i] # Null /\ item'[i].expense = t /\ ~(InLists(i) /\ item[i].expense = t)
              => ~Live(t) /\ i \in tx'[t].items]_vars

\* The items of a trip are those that name its expense (shopping.py:17-19): where
\* requests do not overlap, no expense is orphaned and no item is charged twice.
TripIsReconstructed ==
  OneAtATime => \A t \in TxIds : Live(t) => PaidBy(t) = {i \in tx[t].items : InLists(i)}

\* Where requests do not overlap, closing a trip puts into the stock exactly
\* what it stamps as bought.
TripFillsStock ==
  [][OneAtATime => \A w \in Workers : Closes(w) =>
       \A s \in StockIds : Stock!InStock(s) =>
         LET stamped == {i \in ItemIds : /\ InLists(i) /\ item'[i] # Null
                                         /\ ~item[i].bought /\ item'[i].bought
                                         /\ item[i].link = s} IN
         stock'[s].quantity =
           Stock!Clamp(stock[s].quantity + SumFunction([i \in stamped |-> item[i].qty]))]_vars

\* Where requests do not overlap, a bought item leaves only with its list
\* (shopping.py:21-22, 367).
BoughtIsKept ==
  [][OneAtATime => \A i \in ItemIds :
       InLists(i) /\ item[i].bought /\ item'[i] = Null => item[i].list \notin lists']_vars
=============================================================================
