--------------------------- MODULE Shopping_proofs --------------------------
(* Theorems about Shopping, for every value of its constants: first about
   lists, items and trips, then about the stock. *)
EXTENDS Shopping, FiniteSetTheorems, WellFoundedInduction, TLAPS

-----------------------------------------------------------------------------
\* Sums of a trip.  Induction over data, by the least counterexample.

\* A set of naturals that holds zero and every successor holds all of them.
LEMMA NatSet ==
  ASSUME NEW T \in SUBSET Nat, 0 \in T, \A n \in T : n + 1 \in T
  PROVE  T = Nat
  <1> DEFINE R == OpToRel(<, Nat)
             U == Nat \ T
  <1>1. SUFFICES ASSUME U # {} PROVE FALSE
    OBVIOUS
  <1>2. PICK x \in U : \A y \in U : ~ (<<y, x>> \in R)
    BY <1>1, NatLessThanWellFounded, WFMin
  <1>3. \A y \in Nat : y < x => <<y, x>> \in R
    BY DEF OpToRel
  <1> HIDE DEF R
  <1>4. x # 0 /\ x \in Nat /\ x \notin T
    OBVIOUS
  <1>5. x - 1 \in Nat /\ x - 1 < x /\ x = (x - 1) + 1
    BY <1>4
  <1>6. x - 1 \in T
    BY <1>2, <1>3, <1>5
  <1> QED
    BY <1>4, <1>5, <1>6

\* The sum of finitely many naturals is a natural.  The fold is a recursive
\* function on the subsets of D: that there is one (<1>7), by induction on their
\* size, and then that its values are naturals (<1>6).
LEMMA SumIsNat ==
  ASSUME NEW D, IsFiniteSet(D), NEW f \in [D -> Nat]
  PROVE  SumFunction(f) \in Nat
  <1> DEFINE Pick(s) == CHOOSE x \in s : TRUE
             Upto(n) == {s \in SUBSET D : Cardinality(s) <= n}
             Sums(g, V) == g = [s \in V |-> IF s = {} THEN 0 ELSE f[Pick(s)] + g[s \ {Pick(s)}]]
  <1>1. \A s \in SUBSET D : s # {} => Pick(s) \in s
    OBVIOUS
  <1>2. \A n \in Nat : \A s \in Upto(n + 1) : s # {} => s \ {Pick(s)} \in Upto(n)
    <2> TAKE n \in Nat
    <2> TAKE s \in Upto(n + 1)
    <2> HAVE s # {}
    <2>1. IsFiniteSet(s) /\ Cardinality(s) \in Nat
      BY FS_Subset, FS_CardinalityType
    <2>2. Pick(s) \in s
      BY <1>1
    <2> HIDE DEF Pick
    <2>3. Cardinality(s \ {Pick(s)}) = Cardinality(s) - 1
      BY <2>1, <2>2, FS_RemoveElement
    <2> QED
      BY <2>1, <2>3
  <1>3. \A s \in Upto(0) : s = {}
    BY FS_Subset, FS_CardinalityType, FS_EmptySet
  <1>4. \A n \in Nat : \E g : Sums(g, Upto(n))
    <2> DEFINE T == {n \in Nat : \E g : Sums(g, Upto(n))}
    <2>1. 0 \in T
      <3>1. Sums([s \in Upto(0) |-> 0], Upto(0))
        BY <1>3
      <3> QED
        BY <3>1
    <2>2. ASSUME NEW n \in T PROVE n + 1 \in T
      <3>1. PICK g : Sums(g, Upto(n))
        OBVIOUS
      <3> DEFINE h == [s \in Upto(n + 1) |->
                         IF s = {} THEN 0 ELSE f[Pick(s)] + g[s \ {Pick(s)}]]
      <3>2. \A s \in Upto(n) : s \in Upto(n + 1)
        BY FS_Subset, FS_CardinalityType
      <3> HIDE DEF Upto, Pick
      <3>3. \A s \in Upto(n) : h[s] = g[s]
        BY <3>1, <3>2
      <3>4. \A s \in Upto(n + 1) : s # {} => g[s \ {Pick(s)}] = h[s \ {Pick(s)}]
        BY <1>2, <3>3
      <3>5. Sums(h, Upto(n + 1))
        BY <3>4
      <3> HIDE DEF h, Sums
      <3> QED
        BY <3>5
    <2> HIDE DEF T
    <2>3. T = Nat
      BY <2>1, <2>2, NatSet DEF T
    <2> QED
      BY <2>3 DEF T
  <1>5. D \in Upto(Cardinality(D)) /\ Upto(Cardinality(D)) = SUBSET D /\ Cardinality(D) \in Nat
    BY FS_Subset, FS_CardinalityType
  <1>6. ASSUME NEW g, Sums(g, SUBSET D) PROVE g[D] \in Nat
    <2> DEFINE T == {n \in Nat : \A s \in Upto(n) : g[s] \in Nat}
    <2>1. 0 \in T
      BY <1>3, <1>6
    <2>2. ASSUME NEW n \in T PROVE n + 1 \in T
      <3> SUFFICES ASSUME NEW s \in Upto(n + 1), s # {} PROVE g[s] \in Nat
        BY <1>6
      <3>1. s \ {Pick(s)} \in Upto(n)
        BY <1>2
      <3>2. g[s \ {Pick(s)}] \in Nat
        BY <3>1
      <3>3. f[Pick(s)] \in Nat
        BY <1>1
      <3> HIDE DEF Pick
      <3>4. g[s] = f[Pick(s)] + g[s \ {Pick(s)}]
        BY <1>6
      <3> QED
        BY <3>2, <3>3, <3>4
    <2> HIDE DEF T
    <2>3. T = Nat
      BY <2>1, <2>2, NatSet DEF T
    <2> QED
      BY <1>5, <2>3 DEF T
  <1>7. \E g : Sums(g, SUBSET D)
    <2> HIDE DEF Sums, Upto
    <2> QED
      BY <1>4, <1>5
  <1> DEFINE total == CHOOSE g : Sums(g, SUBSET D)
  <1>8. Sums(total, SUBSET D)
    BY <1>7
  <1>9. SumFunction(f) = total[D]
    BY DEF SumFunction, SumFunctionOnSet, FoldFunctionOnSet, MapThenFoldSet
  <1> HIDE DEF total
  <1> QED
    BY <1>6, <1>8, <1>9

\* The sum of nothing is zero.
LEMMA SumOfNothing == \A f : DOMAIN f = {} => SumFunction(f) = 0
  <1> SUFFICES ASSUME NEW f, DOMAIN f = {} PROVE SumFunction(f) = 0
    OBVIOUS
  <1> DEFINE Pick(s) == CHOOSE x \in s : TRUE
             Sums(g) == g = [s \in SUBSET {} |-> IF s = {} THEN 0 ELSE f[Pick(s)] + g[s \ {Pick(s)}]]
             total == CHOOSE g : Sums(g)
  <1>1. Sums([s \in SUBSET {} |-> 0])
    OBVIOUS
  <1>2. Sums(total)
    BY <1>1
  <1>3. SumFunction(f) = total[{}]
    BY DEF SumFunction, SumFunctionOnSet, FoldFunctionOnSet, MapThenFoldSet
  <1> HIDE DEF total
  <1> QED
    BY <1>2, <1>3

-----------------------------------------------------------------------------
\* Each column is the edited one if the handler changed it, the table's if not.
LEMMA FlushItem ==
  ASSUME NEW r \in ItemRow, NEW l \in ItemRow, NEW e \in ItemRow
  PROVE  /\ Flush(r, l, e) \in ItemRow
         /\ Flush(r, l, e).list = IF e.list = l.list THEN r.list ELSE e.list
         /\ Flush(r, l, e).link = IF e.link = l.link THEN r.link ELSE e.link
         /\ Flush(r, l, e).qty = IF e.qty = l.qty THEN r.qty ELSE e.qty
         /\ Flush(r, l, e).bought = IF e.bought = l.bought THEN r.bought ELSE e.bought
         /\ Flush(r, l, e).expense = IF e.expense = l.expense THEN r.expense ELSE e.expense
  BY DEF ItemRow, Flush, Dirty

LEMMA FlushStock ==
  ASSUME NEW r \in Stock!StockRow, NEW l \in Stock!StockRow, NEW e \in Stock!StockRow
  PROVE  /\ Flush(r, l, e) \in Stock!StockRow
         /\ Stock!Flush(r, l, e) = Flush(r, l, e)
         /\ Flush(r, l, e).title = IF e.title = l.title THEN r.title ELSE e.title
         /\ Flush(r, l, e).quantity = IF e.quantity = l.quantity THEN r.quantity ELSE e.quantity
  BY DEF Stock!StockRow, Flush, Dirty, Stock!Flush, Stock!Dirty

LEMMA ClampBounds == \A n \in Int : Stock!Clamp(n) \in Stock!Quantity
  BY StockAssumption DEF Stock!Clamp, Stock!Quantity

\* What a worker holds, by what it serves.
LEMMA HeldStock ==
  ASSUME TypeOK, NEW w \in Workers, ~Stock!Idle(w), req[w].op \in {"update", "adjust", "remove"}
  PROVE  /\ req[w].id \in StockIds
         /\ req[w].row \in Stock!StockRow
         /\ req[w].edited \in Stock!StockRow
  BY DEF TypeOK, Stock!Idle, Stock!StockRequest, Stock!RowOps, ShoppingRequest, ItemOps

LEMMA HeldItem ==
  ASSUME TypeOK, NEW w \in Workers, ~Stock!Idle(w), req[w].op \in ItemOps
  PROVE  req[w].id \in ItemIds /\ req[w].row \in ItemRow /\ req[w].edited \in ItemRow
  BY DEF TypeOK, Stock!Idle, Stock!StockRequest, Stock!RowOps, ShoppingRequest, ItemOps

LEMMA HeldNew ==
  ASSUME TypeOK, NEW w \in Workers, Stock!Serving(w, "addItem")
  PROVE  req[w].edited \in ItemRow
  BY DEF TypeOK, Stock!Serving, Stock!Idle, Stock!StockRequest, Stock!RowOps, ShoppingRequest, ItemOps

LEMMA HeldTrip ==
  ASSUME TypeOK, NEW w \in Workers, Stock!Serving(w, "trip")
  PROVE  /\ req[w] \in [op: {"trip"}, left: SUBSET StockIds, charge: BOOLEAN,
                        rows: [ItemIds -> ItemRow \cup {Null}],
                        found: [StockIds -> Stock!StockRow \cup {Null}]]
         /\ req[w].rows \in [ItemIds -> ItemRow \cup {Null}]
         /\ req[w].found \in [StockIds -> Stock!StockRow \cup {Null}]
         /\ req[w].left \subseteq StockIds
         /\ Cart(w) \subseteq ItemIds
         /\ \A i \in Cart(w) : req[w].rows[i] \in ItemRow
  <1>1. req[w] \in [op: {"trip"}, left: SUBSET StockIds, charge: BOOLEAN,
                    rows: [ItemIds -> ItemRow \cup {Null}],
                    found: [StockIds -> Stock!StockRow \cup {Null}]]
    BY DEF TypeOK, Stock!Serving, Stock!Idle, Stock!StockRequest, Stock!RowOps, ShoppingRequest, ItemOps
  <1>2. /\ req[w].rows \in [ItemIds -> ItemRow \cup {Null}]
        /\ req[w].found \in [StockIds -> Stock!StockRow \cup {Null}]
        /\ req[w].left \subseteq StockIds
    BY <1>1
  <1> QED
    BY <1>1, <1>2 DEF Cart

\* What a trip adds to a row of the stock, and what it charges, are naturals.
LEMMA TripSums ==
  ASSUME TypeOK, NEW w \in Workers, Stock!Serving(w, "trip")
  PROVE  Total(w) \in Nat /\ \A s : Bought(w, s) \in Nat
  <1>1. \A i \in Cart(w) : req[w].rows[i] \in ItemRow
    BY HeldTrip
  <1>2. \A i \in Cart(w) : req[w].rows[i].price \in Nat /\ req[w].rows[i].qty \in Nat
    BY <1>1, PricesAssumption DEF ItemRow
  <1>3. IsFiniteSet(Cart(w)) /\ \A s : IsFiniteSet(CartOf(w, s)) /\ CartOf(w, s) \subseteq Cart(w)
    <2>1. Cart(w) \in SUBSET ItemIds /\ \A s : CartOf(w, s) \in SUBSET Cart(w)
      BY HeldTrip DEF CartOf
    <2> QED
      BY <2>1, KeysAssumption, FS_Subset
  <1>4. Total(w) \in Nat
    <2> DEFINE f == [i \in Cart(w) |-> req[w].rows[i].price]
    <2>1. f \in [Cart(w) -> Nat]
      BY <1>2
    <2> HIDE DEF f
    <2>2. SumFunction(f) \in Nat
      BY <1>3, <2>1, SumIsNat
    <2> QED
      BY <2>2 DEF f, Total
  <1>5. ASSUME NEW s PROVE Bought(w, s) \in Nat
    <2> DEFINE f == [i \in CartOf(w, s) |-> req[w].rows[i].qty]
    <2>1. f \in [CartOf(w, s) -> Nat]
      BY <1>2, <1>3
    <2> HIDE DEF f
    <2>2. SumFunction(f) \in Nat
      BY <1>3, <2>1, SumIsNat
    <2> QED
      BY <2>2 DEF f, Bought
  <1> QED
    BY <1>4, <1>5

\* The rows a trip writes.
LEMMA StampedRow ==
  ASSUME TypeOK, NEW w \in Workers, Stock!Serving(w, "trip"), NEW t \in TxIds \cup {Null},
         NEW i \in Cart(w), InLists(i)
  PROVE  /\ i \in ItemIds /\ Stamped(w, i, t) \in ItemRow
         /\ Stamped(w, i, t).list = item[i].list
         /\ Stamped(w, i, t).link = item[i].link
         /\ ~req[w].rows[i].bought => Stamped(w, i, t).bought
         /\ Stamped(w, i, t).expense = IF t = req[w].rows[i].expense THEN item[i].expense ELSE t
  <1>1. i \in ItemIds /\ req[w].rows[i] \in ItemRow
    BY HeldTrip
  <1>2. item[i] \in ItemRow
    BY <1>1 DEF TypeOK, InLists
  <1>3. req[w].rows[i].bought \in BOOLEAN /\ item[i].bought \in BOOLEAN
    BY <1>1, <1>2 DEF ItemRow
  <1> QED
    BY <1>1, <1>2, <1>3 DEF Stamped, Flush, Dirty, ItemRow

LEMMA BumpedRow ==
  ASSUME TypeOK, NEW w \in Workers, Stock!Serving(w, "trip"), NEW s \in StockIds,
         req[w].found[s] # Null, Stock!InStock(s)
  PROVE  /\ Bumped(w, s) \in Stock!StockRow
         /\ Bumped(w, s).title = stock[s].title
         /\ req[w].found[s] = stock[s] =>
              Bumped(w, s).quantity = Stock!Clamp(stock[s].quantity + Bought(w, s))
  <1> DEFINE r == req[w].found[s]
             n == Stock!Clamp(r.quantity + Bought(w, s))
             e == [r EXCEPT !.quantity = n]
  <1>1. r \in Stock!StockRow /\ stock[s] \in Stock!StockRow
    BY HeldTrip DEF TypeOK, Stock!InStock
  <1>2. n \in Stock!Quantity
    <2>1. r.quantity + Bought(w, s) \in Int
      BY <1>1, TripSums, StockAssumption DEF Stock!StockRow, Stock!Quantity
    <2> QED
      BY <2>1, ClampBounds
  <1>3. e \in Stock!StockRow /\ e.quantity = n /\ e.title = r.title
    BY <1>1, <1>2 DEF Stock!StockRow
  <1>4. Bumped(w, s) = Flush(stock[s], r, e)
    BY DEF Bumped
  <1> HIDE DEF r, e, n
  <1>5. /\ Bumped(w, s) \in Stock!StockRow /\ Bumped(w, s).title = stock[s].title
        /\ r = stock[s] => Bumped(w, s).quantity = n
    BY <1>1, <1>3, <1>4, FlushStock
  <1> QED
    BY <1>5 DEF r, n

-----------------------------------------------------------------------------
\* Types of what a step writes.
LEMMA AskTypes ==
  ASSUME TypeOK, NEW w \in Workers, NEW r \in ShoppingRequest, Ask(w, r)
  PROVE  TypeOK'
  BY DEF Ask, own, TypeOK

\* The worker is free again; keys written are of a table.
LEMMA DoneTypes ==
  ASSUME TypeOK, NEW w, Stock!Done(w)
  PROVE  (req \in [Workers -> Stock!StockRequest \cup ShoppingRequest \cup {Null}])'
  BY DEF Stock!Done, TypeOK

LEMMA ListStepTypes ==
  ASSUME TypeOK, NEW w \in Workers, ListStep(w)
  PROVE  TypeOK'
  <1>1. CASE BeginCreateList(w)
    <2>1. [op |-> "createList"] \in ShoppingRequest
      BY DEF ShoppingRequest
    <2> QED
      BY <1>1, <2>1, AskTypes DEF BeginCreateList
  <1>2. ASSUME NEW l \in ListIds, CommitCreateList(w, l) PROVE TypeOK'
    BY <1>2, DoneTypes DEF CommitCreateList, TypeOK
  <1>3. ASSUME NEW l \in ListIds, NEW charge \in BOOLEAN, BeginTrip(w, l, charge) PROVE TypeOK'
    <2> DEFINE cart == {i \in Pending(l) : item[i].checked}
               rows == [i \in ItemIds |-> IF i \in cart THEN item[i] ELSE Null]
               found == [s \in StockIds |-> Null]
               left == Rows(cart)
               r == [op |-> "trip", left |-> left, charge |-> charge, rows |-> rows, found |-> found]
    <2>1. rows \in [ItemIds -> ItemRow \cup {Null}]
      BY DEF TypeOK
    <2>2. found \in [StockIds -> Stock!StockRow \cup {Null}]
      OBVIOUS
    <2>3. left \subseteq StockIds
      BY DEF Rows, Pending, InLists, TypeOK, ItemRow
    <2>4. Ask(w, r)
      BY <1>3 DEF BeginTrip
    <2> HIDE DEF rows, found, left
    <2>5. r \in ShoppingRequest
      BY <2>1, <2>2, <2>3 DEF ShoppingRequest
    <2> HIDE DEF r
    <2> QED
      BY <2>4, <2>5, AskTypes
  <1>4. ASSUME NEW l \in ListIds, NEW title \in Titles, NEW qty \in Qtys, NEW price \in Prices,
               NEW s \in StockIds \cup {Null}, BeginAddItem(w, l, title, qty, price, s)
        PROVE  TypeOK'
    <2> DEFINE e == [list |-> l, title |-> title, qty |-> qty, price |-> price, link |-> s,
                     checked |-> FALSE, bought |-> FALSE, expense |-> Null]
               r == [op |-> "addItem", edited |-> e]
    <2>1. e \in ItemRow
      BY DEF ItemRow
    <2>2. Ask(w, r)
      BY <1>4 DEF BeginAddItem
    <2> HIDE DEF e
    <2>3. r \in ShoppingRequest
      BY <2>1 DEF ShoppingRequest
    <2> HIDE DEF r
    <2> QED
      BY <2>2, <2>3, AskTypes
  <1>5. CASE ReadStock(w)
    <2>1. PICK s \in req[w].left : req' = [req EXCEPT ![w] = ReadRow(req[w], s)]
      BY <1>5 DEF ReadStock
    <2>2. req[w].left \ {s} \subseteq StockIds /\ s \in StockIds
      BY <1>5, HeldTrip DEF ReadStock
    <2> DEFINE found == [req[w].found EXCEPT ![s] = stock[s]]
    <2>3. found \in [StockIds -> Stock!StockRow \cup {Null}]
      BY <1>5, <2>2, HeldTrip DEF ReadStock, TypeOK
    <2> DEFINE left == req[w].left \ {s}
               r == [req[w] EXCEPT !.left = left, !.found = found]
    <2>4. req' = [req EXCEPT ![w] = r]
      BY <2>1 DEF ReadRow
    <2> HIDE DEF found, left
    <2>5. left \in SUBSET StockIds
      BY <2>2 DEF left
    <2>6. r \in ShoppingRequest
      <3>1. Stock!Serving(w, "trip")
        BY <1>5 DEF ReadStock
      <3>2. r \in [op: {"trip"}, left: SUBSET StockIds, charge: BOOLEAN,
                   rows: [ItemIds -> ItemRow \cup {Null}],
                   found: [StockIds -> Stock!StockRow \cup {Null}]]
        BY <2>3, <2>5, <3>1, HeldTrip
      <3> QED
        BY <3>2 DEF ShoppingRequest
    <2> HIDE DEF r
    <2> QED
      BY <1>5, <2>4, <2>6 DEF ReadStock, own, TypeOK
  <1>6. ASSUME NEW t \in TxIds \cup {Null}, CommitTrip(w, t) PROVE TypeOK'
    <2>1. Stock!Serving(w, "trip") /\ Cart(w) \subseteq ItemIds
      BY <1>6, HeldTrip DEF CommitTrip
    <2>2. item' \in [ItemIds -> ItemRow \cup {Null}]
      BY <1>6, <2>1, StampedRow DEF CommitTrip, TypeOK
    <2>3. stock' \in [StockIds -> Stock!StockRow \cup {Null}]
      BY <1>6, <2>1, BumpedRow DEF CommitTrip, TypeOK
    <2>4. tx' \in [TxIds -> TxRow \cup {Null}]
      BY <1>6, <2>1, TripSums DEF CommitTrip, TypeOK, TxRow
    <2>5. issued' \subseteq StockIds \cup ListIds \cup ItemIds \cup TxIds
      BY <1>6 DEF CommitTrip, TypeOK
    <2> QED
      BY <1>6, <2>2, <2>3, <2>4, <2>5, DoneTypes DEF CommitTrip, TypeOK
  <1> QED
    BY <1>1, <1>2, <1>3, <1>4, <1>5, <1>6 DEF ListStep

LEMMA LoadItemTypes ==
  ASSUME TypeOK, NEW w \in Workers, NEW op \in ItemOps, NEW i \in ItemIds, NEW e,
         InLists(i) => e \in ItemRow, LoadItem(w, op, i, e)
  PROVE  TypeOK'
  <1> DEFINE r == [op |-> op, id |-> i, row |-> item[i], edited |-> e]
  <1>1. item[i] \in ItemRow /\ e \in ItemRow
    BY DEF LoadItem, InLists, TypeOK
  <1>2. r \in ShoppingRequest
    BY <1>1 DEF ShoppingRequest
  <1>3. Ask(w, r)
    BY DEF LoadItem
  <1> HIDE DEF r
  <1> QED
    BY <1>2, <1>3, AskTypes

LEMMA StoreItemTypes ==
  ASSUME TypeOK, NEW w \in Workers, NEW op \in ItemOps, StoreItem(w, op)
  PROVE  TypeOK'
  <1>1. req[w].id \in ItemIds /\ req[w].row \in ItemRow /\ req[w].edited \in ItemRow
    BY HeldItem DEF StoreItem, Stock!Serving
  <1>2. item[req[w].id] \in ItemRow
    BY <1>1 DEF StoreItem, InLists, TypeOK
  <1>3. Flush(item[req[w].id], req[w].row, req[w].edited) \in ItemRow
    BY <1>1, <1>2, FlushItem
  <1> QED
    BY <1>1, <1>3, DoneTypes DEF StoreItem, TypeOK

LEMMA ItemStepTypes ==
  ASSUME TypeOK, NEW w \in Workers, ItemStep(w)
  PROVE  TypeOK'
  <1>1. ASSUME NEW i \in ItemIds, CommitAddItem(w, i) PROVE TypeOK'
    <2>1. req[w].edited \in ItemRow
      BY <1>1, HeldNew DEF CommitAddItem
    <2>2. item' \in [ItemIds -> ItemRow \cup {Null}]
      BY <1>1, <2>1 DEF CommitAddItem, TypeOK
    <2> QED
      BY <1>1, <2>2, DoneTypes DEF CommitAddItem, TypeOK
  <1>2. ASSUME NEW i \in ItemIds, NEW title \in Titles, NEW qty \in Qtys, NEW price \in Prices,
               NEW s \in StockIds \cup {Null}, BeginUpdateItem(w, i, title, qty, price, s)
        PROVE  TypeOK'
    <2>1. InLists(i) => item[i] \in ItemRow
      BY DEF InLists, TypeOK
    <2>2. InLists(i) => [item[i] EXCEPT !.title = title, !.qty = qty,
                                        !.price = price, !.link = s] \in ItemRow
      BY <2>1 DEF ItemRow
    <2> QED
      BY <1>2, <2>2, LoadItemTypes DEF BeginUpdateItem, ItemOps
  <1>3. ASSUME NEW i \in ItemIds, NEW checked \in BOOLEAN, BeginCheckItem(w, i, checked)
        PROVE  TypeOK'
    <2>1. InLists(i) => item[i] \in ItemRow
      BY DEF InLists, TypeOK
    <2>2. InLists(i) => [item[i] EXCEPT !.checked = checked] \in ItemRow
      BY <2>1 DEF ItemRow
    <2> QED
      BY <1>3, <2>2, LoadItemTypes DEF BeginCheckItem, ItemOps
  <1>4. ASSUME NEW i \in ItemIds, BeginDeleteItem(w, i) PROVE TypeOK'
    <2>1. InLists(i) => item[i] \in ItemRow
      BY DEF InLists, TypeOK
    <2> QED
      BY <1>4, <2>1, LoadItemTypes DEF BeginDeleteItem, ItemOps
  <1>5. CASE CommitUpdateItem(w) \/ CommitCheckItem(w)
    BY <1>5, StoreItemTypes DEF CommitUpdateItem, CommitCheckItem, ItemOps
  <1>6. CASE CommitDeleteItem(w)
    BY <1>6, DoneTypes DEF CommitDeleteItem, TypeOK
  <1> QED
    BY <1>1, <1>2, <1>3, <1>4, <1>5, <1>6 DEF ItemStep

LEMMA LoadStockTypes ==
  ASSUME TypeOK, NEW w \in Workers, NEW op \in {"update", "adjust", "remove"}, NEW s \in StockIds,
         NEW d \in Int, NEW e, Stock!InStock(s) => e \in Stock!StockRow,
         Stock!Load(w, op, s, e, d), UNCHANGED own
  PROVE  TypeOK'
  <1> DEFINE r == [op |-> op, id |-> s, row |-> stock[s], edited |-> e, delta |-> d]
  <1>1. stock[s] \in Stock!StockRow /\ e \in Stock!StockRow
    BY DEF Stock!Load, Stock!InStock, TypeOK
  <1>2. r \in Stock!StockRequest
    BY <1>1 DEF Stock!StockRequest, Stock!RowOps
  <1>3. req' = [req EXCEPT ![w] = r] /\ UNCHANGED <<stock, issued>>
    BY DEF Stock!Load
  <1> HIDE DEF r
  <1> QED
    BY <1>2, <1>3 DEF own, TypeOK

LEMMA StoreStockTypes ==
  ASSUME TypeOK, NEW w \in Workers, NEW op \in {"update", "adjust"}, Stock!Store(w, op)
  PROVE  /\ stock' \in [StockIds -> Stock!StockRow \cup {Null}]
         /\ \A s \in StockIds : Stock!InStock(s) => Stock!InStock(s)'
  <1>1. /\ req[w].id \in StockIds
        /\ req[w].row \in Stock!StockRow
        /\ req[w].edited \in Stock!StockRow
    BY HeldStock DEF Stock!Store, Stock!Serving
  <1>2. stock[req[w].id] \in Stock!StockRow
    BY <1>1 DEF Stock!Store, Stock!InStock, TypeOK
  <1>3. Stock!Flush(stock[req[w].id], req[w].row, req[w].edited) \in Stock!StockRow
    BY <1>1, <1>2, FlushStock
  <1> QED
    BY <1>1, <1>3, NullAssumption DEF Stock!Store, Stock!InStock, TypeOK

LEMMA StockStepTypes ==
  ASSUME TypeOK, NEW w \in Workers, OtherStockStep(w)
  PROVE  TypeOK'
  <1>1. ASSUME NEW title \in Titles, NEW q \in Stock!Quantity, Stock!BeginCreate(w, title, q)
        PROVE  TypeOK'
    <2> DEFINE e == [title |-> title, quantity |-> q]
               r == [op |-> "create", edited |-> e]
    <2>1. r \in Stock!StockRequest
      BY DEF Stock!StockRequest, Stock!StockRow
    <2>2. req' = [req EXCEPT ![w] = r] /\ UNCHANGED <<stock, issued>>
      BY <1>1 DEF Stock!BeginCreate
    <2> HIDE DEF r
    <2> QED
      BY <2>1, <2>2 DEF OtherStockStep, own, TypeOK
  <1>2. ASSUME NEW s \in StockIds, Stock!CommitCreate(w, s) PROVE TypeOK'
    <2>1. req[w].edited \in Stock!StockRow
      BY <1>2 DEF TypeOK, Stock!CommitCreate, Stock!Serving, Stock!Idle, Stock!StockRequest,
                  Stock!RowOps, ShoppingRequest, ItemOps
    <2> QED
      BY <1>2, <2>1, DoneTypes DEF Stock!CommitCreate, OtherStockStep, own, TypeOK
  <1>3. ASSUME NEW s \in StockIds, NEW title \in Titles, NEW q \in Stock!Quantity,
               Stock!BeginUpdate(w, s, title, q)
        PROVE  TypeOK'
    <2>1. [title |-> title, quantity |-> q] \in Stock!StockRow
      BY DEF Stock!StockRow
    <2> QED
      BY <1>3, <2>1, LoadStockTypes DEF Stock!BeginUpdate, OtherStockStep
  <1>4. ASSUME NEW s \in StockIds, NEW d \in Deltas, Stock!BeginAdjust(w, s, d) PROVE TypeOK'
    <2>1. d \in Int
      BY StockAssumption
    <2>2. ASSUME Stock!InStock(s)
          PROVE  [stock[s] EXCEPT !.quantity = Stock!Clamp(@ + d)] \in Stock!StockRow
      <3>1. stock[s] \in Stock!StockRow
        BY <2>2 DEF Stock!InStock, TypeOK
      <3>2. stock[s].quantity + d \in Int
        BY <2>1, <3>1, StockAssumption DEF Stock!StockRow, Stock!Quantity
      <3>3. Stock!Clamp(stock[s].quantity + d) \in Stock!Quantity
        BY <3>2, ClampBounds
      <3> QED
        BY <3>1, <3>3 DEF Stock!StockRow
    <2> QED
      BY <1>4, <2>1, <2>2, LoadStockTypes DEF Stock!BeginAdjust, OtherStockStep
  <1>5. ASSUME NEW s \in StockIds, Stock!BeginRemove(w, s) PROVE TypeOK'
    <2>1. Stock!InStock(s) => stock[s] \in Stock!StockRow
      BY DEF Stock!InStock, TypeOK
    <2> QED
      BY <1>5, <2>1, LoadStockTypes DEF Stock!BeginRemove, OtherStockStep
  <1>6. CASE Stock!CommitUpdate(w) \/ Stock!CommitAdjust(w)
    <2>1. PICK op \in {"update", "adjust"} : Stock!Store(w, op)
      BY <1>6 DEF Stock!CommitUpdate, Stock!CommitAdjust
    <2>2. stock' \in [StockIds -> Stock!StockRow \cup {Null}]
      BY <2>1, StoreStockTypes
    <2> QED
      BY <2>1, <2>2, DoneTypes DEF Stock!Store, OtherStockStep, own, TypeOK
  <1>7. CASE Stock!Rollback(w)
    BY <1>7, DoneTypes DEF Stock!Rollback, OtherStockStep, own, TypeOK
  <1> QED
    BY <1>1, <1>2, <1>3, <1>4, <1>5, <1>6, <1>7 DEF OtherStockStep

LEMMA TypingStep == TypeOK /\ [Next]_vars => TypeOK'
  <1> SUFFICES ASSUME TypeOK, [Next]_vars PROVE TypeOK'
    OBVIOUS
  <1>1. ASSUME NEW w \in Workers, RemoveStock(w) PROVE TypeOK'
    <2>1. item' \in [ItemIds -> ItemRow \cup {Null}]
      BY <1>1 DEF RemoveStock, InLists, TypeOK, ItemRow
    <2>2. stock' \in [StockIds -> Stock!StockRow \cup {Null}] /\ Stock!Done(w) /\ issued' = issued
      BY <1>1 DEF RemoveStock, Stock!CommitRemove, TypeOK
    <2> QED
      BY <1>1, <2>1, <2>2, DoneTypes DEF RemoveStock, TypeOK
  <1>2. ASSUME NEW l \in ListIds, DeleteList(l) PROVE TypeOK'
    BY <1>2 DEF DeleteList, TypeOK
  <1>3. ASSUME NEW t \in TxIds, DropExpense(t) PROVE TypeOK'
    <2>1. item' \in [ItemIds -> ItemRow \cup {Null}]
      BY <1>3 DEF DropExpense, InLists, TypeOK, ItemRow
    <2>2. tx' \in [TxIds -> TxRow \cup {Null}]
      BY <1>3 DEF DropExpense, TypeOK
    <2> QED
      BY <1>3, <2>1, <2>2 DEF DropExpense, TypeOK
  <1>4. CASE UNCHANGED vars
    BY <1>4 DEF vars, TypeOK
  <1> QED
    BY <1>1, <1>2, <1>3, <1>4, ListStepTypes, ItemStepTypes, StockStepTypes DEF Next

\* Tables and requests keep their shape, quantities stay in bounds and the
\* amount of an expense is a natural, for any number of requests at a time.
THEOREM Typing == Spec => []TypeOK
  <1>1. Init => TypeOK
    BY DEF Init, Stock!Init, TypeOK
  <1> QED
    BY <1>1, TypingStep, PTL DEF Spec

-----------------------------------------------------------------------------
\* Why NamesAreLive holds.  Keys are never used twice: what is in a table or was
\* charged has a key that was inserted.
KeysAreUsed ==
  /\ \A i \in ItemIds : InLists(i) => i \in issued
  /\ \A t \in TxIds : Live(t) => t \in issued /\ tx[t].items \subseteq issued

\* What a worker holds: only workers of the deployment hold anything; a new item
\* is not bought; an edit concerns an item that was not bought when it was
\* loaded and leaves its list, its expense and whether it is bought alone; a cart
\* is of items that were not bought.
Holds(w) ==
  /\ ~Stock!Idle(w) => w \in pool
  /\ Stock!Serving(w, "addItem") => ~req[w].edited.bought /\ req[w].edited.expense = Null
  /\ ~Stock!Idle(w) /\ req[w].op \in ItemOps =>
       /\ req[w].id \in issued
       /\ ~req[w].row.bought
       /\ req[w].edited.list = req[w].row.list
       /\ req[w].edited.bought = req[w].row.bought
       /\ req[w].edited.expense = req[w].row.expense
  /\ Stock!Serving(w, "trip") =>
       /\ Cart(w) # {} /\ Cart(w) \subseteq issued
       /\ \A i \in Cart(w) : ~req[w].rows[i].bought /\ req[w].rows[i].expense = Null

RequestsHold == \A w \in Workers : Holds(w)

IInv == TypeOK /\ KeysAreUsed /\ RequestsHold /\ NamesAreLive

\* What the tables of the lists see of a step that is not one of their writers.
Quiet ==
  /\ UNCHANGED <<item, tx>>
  /\ lists \subseteq lists'
  /\ \A s \in StockIds : Stock!InStock(s) => Stock!InStock(s)'

LEMMA QuietStockStep ==
  ASSUME TypeOK, NEW w \in Workers, OtherStockStep(w)
  PROVE  Quiet /\ issued \subseteq issued' /\ pool' = pool
  <1>1. UNCHANGED own
    BY DEF OtherStockStep
  <1>2. ASSUME NEW s \in StockIds, Stock!CommitCreate(w, s)
        PROVE  issued \subseteq issued' /\ \A r \in StockIds : Stock!InStock(r) => Stock!InStock(r)'
    <2>1. req[w].edited \in Stock!StockRow
      BY <1>2 DEF TypeOK, Stock!CommitCreate, Stock!Serving, Stock!Idle, Stock!StockRequest,
                  Stock!RowOps, ShoppingRequest, ItemOps
    <2> QED
      BY <1>2, <2>1, NullAssumption DEF Stock!CommitCreate, Stock!InStock, TypeOK
  <1>3. ASSUME NEW op \in {"update", "adjust"}, Stock!Store(w, op)
        PROVE  issued' = issued /\ \A r \in StockIds : Stock!InStock(r) => Stock!InStock(r)'
    BY <1>3, StoreStockTypes DEF Stock!Store
  <1>4. ASSUME ~ \E s \in StockIds : Stock!CommitCreate(w, s),
               ~ \E op \in {"update", "adjust"} : Stock!Store(w, op)
        PROVE  UNCHANGED <<stock, issued>>
    BY <1>4 DEF OtherStockStep, Stock!BeginCreate, Stock!BeginUpdate, Stock!BeginAdjust,
                Stock!BeginRemove, Stock!Load, Stock!CommitUpdate, Stock!CommitAdjust, Stock!Rollback
  <1> QED
    BY <1>1, <1>2, <1>3, <1>4 DEF Quiet, own, Stock!InStock

LEMMA Writers ==
  ASSUME TypeOK, [Next]_vars
  PROVE  \/ Quiet
         \/ \E w \in Workers :
              \/ \E i \in ItemIds : CommitAddItem(w, i)
              \/ \E op \in {"updateItem", "checkItem"} : StoreItem(w, op)
              \/ CommitDeleteItem(w)
              \/ \E t \in TxIds \cup {Null} : CommitTrip(w, t)
              \/ RemoveStock(w)
         \/ \E l \in ListIds : DeleteList(l)
         \/ \E t \in TxIds : DropExpense(t)
  <1>1. ASSUME NEW w, NEW r, Ask(w, r) PROVE Quiet
    BY <1>1 DEF Ask, own, Quiet, Stock!InStock
  <1>2. ASSUME NEW w \in Workers, ListStep(w)
        PROVE  Quiet \/ \E t \in TxIds \cup {Null} : CommitTrip(w, t)
    <2>1. ASSUME NEW l \in ListIds, CommitCreateList(w, l) PROVE Quiet
      BY <2>1 DEF CommitCreateList, Quiet, Stock!InStock
    <2>2. CASE ReadStock(w)
      BY <2>2 DEF ReadStock, own, Quiet, Stock!InStock
    <2> QED
      BY <1>1, <1>2, <2>1, <2>2 DEF ListStep, BeginCreateList, BeginTrip, BeginAddItem
  <1>3. ASSUME NEW w \in Workers, ItemStep(w)
        PROVE  \/ Quiet
               \/ \E i \in ItemIds : CommitAddItem(w, i)
               \/ \E op \in {"updateItem", "checkItem"} : StoreItem(w, op)
               \/ CommitDeleteItem(w)
    BY <1>1, <1>3 DEF ItemStep, BeginUpdateItem, BeginCheckItem, BeginDeleteItem, LoadItem,
                      CommitUpdateItem, CommitCheckItem
  <1>4. CASE UNCHANGED vars
    BY <1>4 DEF vars, Quiet, Stock!InStock
  <1> QED
    BY <1>2, <1>3, <1>4, QuietStockStep DEF Next

\* Keys stay used and the deployment stays the same.
LEMMA KeysGrow ==
  ASSUME TypeOK, [Next]_vars
  PROVE  issued \subseteq issued' /\ pool' = pool
  <1>1. ASSUME NEW w \in Workers, ListStep(w) PROVE issued \subseteq issued' /\ pool' = pool
    BY <1>1 DEF ListStep, BeginCreateList, CommitCreateList, BeginTrip, BeginAddItem, ReadStock,
                CommitTrip, Ask, own
  <1>2. ASSUME NEW w \in Workers, ItemStep(w) PROVE issued \subseteq issued' /\ pool' = pool
    BY <1>2 DEF ItemStep, CommitAddItem, BeginUpdateItem, BeginCheckItem, BeginDeleteItem, LoadItem,
                CommitUpdateItem, CommitCheckItem, StoreItem, CommitDeleteItem, Ask, own
  <1>3. ASSUME NEW w \in Workers, RemoveStock(w) PROVE issued \subseteq issued' /\ pool' = pool
    BY <1>3 DEF RemoveStock, Stock!CommitRemove
  <1>4. CASE (\E l \in ListIds : DeleteList(l)) \/ (\E t \in TxIds : DropExpense(t)) \/ UNCHANGED vars
    BY <1>4 DEF DeleteList, DropExpense, vars
  <1> QED
    BY <1>1, <1>2, <1>3, <1>4, QuietStockStep DEF Next

\* A worker keeps what it holds, lets it go, reads the stock for its trip, or
\* asks for something sound.
Sound(r) ==
  /\ r.op = "addItem" => ~r.edited.bought /\ r.edited.expense = Null
  /\ r.op \in ItemOps =>
       /\ r.id \in issued
       /\ ~r.row.bought /\ ~item[r.id].bought
       /\ r.edited.list = r.row.list
       /\ r.edited.bought = r.row.bought
       /\ r.edited.expense = r.row.expense
  /\ r.op = "trip" =>
       LET cart == {i \in ItemIds : r.rows[i] # Null} IN
       /\ cart # {} /\ cart \subseteq issued
       /\ r.left = {s \in StockIds : \E i \in cart : r.rows[i].link = s}
       /\ \A s \in StockIds : r.found[s] = Null
       /\ \A i \in cart : ~r.rows[i].bought /\ r.rows[i].expense = Null /\ r.rows[i] = item[i]

RequestChange(v) ==
  \/ req'[v] = req[v]
  \/ req'[v] = Null
  \/ ReadStock(v) /\ \E s \in req[v].left : req'[v] = ReadRow(req[v], s)
  \/ v \in pool /\ Stock!Idle(v) /\ Sound(req'[v]) /\ UNCHANGED <<own, stock, issued>>

LEMMA RequestChanges ==
  ASSUME IInv, [Next]_vars, NEW v \in Workers
  PROVE  RequestChange(v)
  <1>1. ASSUME NEW w \in Workers, NEW r, Ask(w, r), Sound(r) PROVE RequestChange(v)
    BY <1>1 DEF IInv, TypeOK, Ask, RequestChange
  <1>2. ASSUME NEW w \in Workers, Stock!Done(w) PROVE RequestChange(v)
    BY <1>2 DEF IInv, TypeOK, Stock!Done, RequestChange
  <1>3. ASSUME req' = req PROVE RequestChange(v)
    BY <1>3 DEF RequestChange
  <1>4. ASSUME NEW w \in Workers, NEW r, req' = [req EXCEPT ![w] = r], w \in pool, Stock!Idle(w),
               r.op \in {"create", "update", "adjust", "remove"}, UNCHANGED <<own, stock, issued>>
        PROVE  RequestChange(v)
    BY <1>4 DEF IInv, TypeOK, RequestChange, Sound, ItemOps
  <1>5. ASSUME NEW w \in Workers, ListStep(w) PROVE RequestChange(v)
    <2>1. CASE BeginCreateList(w)
      <3>1. Sound([op |-> "createList"])
        BY DEF Sound, ItemOps
      <3> QED
        BY <1>1, <2>1, <3>1 DEF BeginCreateList
    <2>2. ASSUME NEW l \in ListIds, NEW charge \in BOOLEAN, BeginTrip(w, l, charge)
          PROVE  RequestChange(v)
      <3> DEFINE cart == {i \in Pending(l) : item[i].checked}
                 rows == [i \in ItemIds |-> IF i \in cart THEN item[i] ELSE Null]
                 left == Rows(cart)
                 found == [s \in StockIds |-> Null]
                 r == [op |-> "trip", left |-> left, charge |-> charge, rows |-> rows,
                       found |-> found]
      <3>1. {i \in ItemIds : rows[i] # Null} = cart /\ \A i \in cart : rows[i] = item[i]
        BY DEF Pending, InLists
      <3>2. cart # {} /\ Ask(w, r)
        BY <2>2 DEF BeginTrip
      <3>3. \A i \in cart : i \in issued /\ ~item[i].bought /\ item[i].expense = Null
        BY DEF Pending, IInv, KeysAreUsed, NamesAreLive
      <3>4. \A i \in cart : i \in ItemIds /\ item[i].link \in StockIds \cup {Null}
        BY DEF Pending, InLists, IInv, TypeOK, ItemRow
      <3> HIDE DEF cart
      <3>5. left = {s \in StockIds : \E i \in cart : rows[i].link = s}
        <4>1. Null \notin StockIds
          BY NullAssumption
        <4> HIDE DEF rows
        <4> QED
          BY <3>1, <3>4, <4>1 DEF Rows
      <3>6. \A s \in StockIds : found[s] = Null
        OBVIOUS
      <3> HIDE DEF rows, left, found
      <3>7. Sound(r)
        BY <3>1, <3>2, <3>3, <3>5, <3>6 DEF Sound, ItemOps
      <3> HIDE DEF r
      <3> QED
        BY <1>1, <3>2, <3>7
    <2>3. ASSUME NEW l \in ListIds, NEW title \in Titles, NEW qty \in Qtys, NEW price \in Prices,
                 NEW s \in StockIds \cup {Null}, BeginAddItem(w, l, title, qty, price, s)
          PROVE  RequestChange(v)
      <3> DEFINE r == [op |-> "addItem",
                       edited |-> [list |-> l, title |-> title, qty |-> qty, price |-> price,
                                   link |-> s, checked |-> FALSE, bought |-> FALSE,
                                   expense |-> Null]]
      <3>1. Sound(r)
        BY DEF Sound, ItemOps
      <3>2. Ask(w, r)
        BY <2>3 DEF BeginAddItem
      <3> HIDE DEF r
      <3> QED
        BY <1>1, <3>1, <3>2
    <2>4. CASE ReadStock(w)
      <3>1. PICK s \in req[w].left :
              req' = [req EXCEPT ![w] = ReadRow(req[w], s)]
        BY <2>4 DEF ReadStock
      <3>2. v # w => req'[v] = req[v]
        BY <3>1 DEF IInv, TypeOK
      <3>3. v = w => req'[v] = ReadRow(req[v], s)
        BY <3>1 DEF IInv, TypeOK
      <3> QED
        BY <2>4, <3>1, <3>2, <3>3 DEF RequestChange
    <2> QED
      BY <1>2, <1>5, <2>1, <2>2, <2>3, <2>4 DEF ListStep, CommitCreateList, CommitTrip
  <1>6. ASSUME NEW w \in Workers, ItemStep(w) PROVE RequestChange(v)
    <2>1. ASSUME NEW op \in ItemOps, NEW i \in ItemIds, NEW e, LoadItem(w, op, i, e),
                 e.list = item[i].list, e.bought = item[i].bought, e.expense = item[i].expense
          PROVE  RequestChange(v)
      <3> DEFINE r == [op |-> op, id |-> i, row |-> item[i], edited |-> e]
      <3>1. Sound(r)
        BY <2>1 DEF LoadItem, Sound, ItemOps, IInv, KeysAreUsed
      <3>2. Ask(w, r)
        BY <2>1 DEF LoadItem
      <3> HIDE DEF r
      <3> QED
        BY <1>1, <3>1, <3>2
    <2>2. ASSUME NEW i \in ItemIds, NEW title \in Titles, NEW qty \in Qtys, NEW price \in Prices,
                 NEW s \in StockIds \cup {Null}, BeginUpdateItem(w, i, title, qty, price, s)
          PROVE  RequestChange(v)
      <3> DEFINE e == [item[i] EXCEPT !.title = title, !.qty = qty, !.price = price, !.link = s]
      <3>1. item[i] \in ItemRow
        BY <2>2 DEF BeginUpdateItem, InLists, IInv, TypeOK
      <3>2. e.list = item[i].list /\ e.bought = item[i].bought /\ e.expense = item[i].expense
        BY <3>1 DEF ItemRow
      <3>3. LoadItem(w, "updateItem", i, e)
        BY <2>2 DEF BeginUpdateItem
      <3> HIDE DEF e
      <3> QED
        BY <2>1, <3>2, <3>3 DEF ItemOps
    <2>3. ASSUME NEW i \in ItemIds, NEW checked \in BOOLEAN, BeginCheckItem(w, i, checked)
          PROVE  RequestChange(v)
      <3> DEFINE e == [item[i] EXCEPT !.checked = checked]
      <3>1. item[i] \in ItemRow
        BY <2>3 DEF BeginCheckItem, InLists, IInv, TypeOK
      <3>2. e.list = item[i].list /\ e.bought = item[i].bought /\ e.expense = item[i].expense
        BY <3>1 DEF ItemRow
      <3>3. LoadItem(w, "checkItem", i, e)
        BY <2>3 DEF BeginCheckItem
      <3> HIDE DEF e
      <3> QED
        BY <2>1, <3>2, <3>3 DEF ItemOps
    <2>4. ASSUME NEW i \in ItemIds, BeginDeleteItem(w, i) PROVE RequestChange(v)
      BY <2>1, <2>4 DEF BeginDeleteItem, ItemOps
    <2> QED
      BY <1>2, <1>6, <2>2, <2>3, <2>4 DEF ItemStep, CommitAddItem, CommitUpdateItem, CommitCheckItem,
                                          StoreItem, CommitDeleteItem
  <1>7. ASSUME NEW w \in Workers, OtherStockStep(w) PROVE RequestChange(v)
    <2>1. w \in pool /\ UNCHANGED own
      BY <1>7 DEF OtherStockStep
    <2>2. ASSUME NEW title, NEW q, Stock!BeginCreate(w, title, q) PROVE RequestChange(v)
      <3> DEFINE r == [op |-> "create", edited |-> [title |-> title, quantity |-> q]]
      <3>1. req' = [req EXCEPT ![w] = r] /\ Stock!Idle(w) /\ UNCHANGED <<stock, issued>>
        BY <2>2 DEF Stock!BeginCreate
      <3> QED
        BY <1>4, <2>1, <3>1
    <2>3. ASSUME NEW op \in {"update", "adjust", "remove"}, NEW s, NEW e, NEW d,
                 Stock!Load(w, op, s, e, d)
          PROVE  RequestChange(v)
      <3> DEFINE r == [op |-> op, id |-> s, row |-> stock[s], edited |-> e, delta |-> d]
      <3>1. req' = [req EXCEPT ![w] = r] /\ Stock!Idle(w) /\ UNCHANGED <<stock, issued>>
        BY <2>3 DEF Stock!Load
      <3> QED
        BY <1>4, <2>1, <3>1
    <2> QED
      BY <1>2, <1>7, <2>2, <2>3
      DEF OtherStockStep, Stock!CommitCreate, Stock!BeginUpdate, Stock!BeginAdjust, Stock!BeginRemove,
          Stock!CommitUpdate, Stock!CommitAdjust, Stock!Store, Stock!Rollback
  <1>8. ASSUME NEW w \in Workers, RemoveStock(w) PROVE RequestChange(v)
    BY <1>2, <1>8 DEF RemoveStock, Stock!CommitRemove
  <1>9. (\E l \in ListIds : DeleteList(l)) \/ (\E t \in TxIds : DropExpense(t)) \/ UNCHANGED vars
          => req' = req
    BY DEF DeleteList, DropExpense, vars
  <1> QED
    BY <1>3, <1>5, <1>6, <1>7, <1>8, <1>9 DEF Next

LEMMA RequestsStep == IInv /\ [Next]_vars => RequestsHold'
  <1> SUFFICES ASSUME IInv, [Next]_vars, NEW v \in Workers PROVE Holds(v)'
    BY DEF RequestsHold
  <1>1. issued \subseteq issued' /\ pool' = pool
    BY KeysGrow DEF IInv
  <1>2. Holds(v)
    BY DEF IInv, RequestsHold
  <1>3. CASE req'[v] = req[v]
    BY <1>1, <1>2, <1>3 DEF Holds, Cart, Stock!Idle, Stock!Serving
  <1>4. CASE req'[v] = Null
    BY <1>4 DEF Holds, Stock!Idle, Stock!Serving
  <1>5. ASSUME ReadStock(v), NEW s \in req[v].left, req'[v] = ReadRow(req[v], s) PROVE Holds(v)'
    <2>1. Stock!Serving(v, "trip")
      BY <1>5 DEF ReadStock
    <2>2. req'[v].op = "trip" /\ req'[v].rows = req[v].rows
      BY <1>5, <2>1, HeldTrip DEF IInv, ReadRow
    <2> QED
      BY <1>1, <1>2, <2>1, <2>2 DEF Holds, Cart, Stock!Idle, Stock!Serving, ItemOps
  <1>6. CASE v \in pool /\ Sound(req'[v]) /\ UNCHANGED <<own, stock, issued>>
    BY <1>1, <1>6 DEF Sound, Holds, Cart, Stock!Idle, Stock!Serving
  <1> QED
    BY <1>3, <1>4, <1>5, <1>6, RequestChanges DEF RequestChange

-----------------------------------------------------------------------------
\* What the writers do to the tables of the lists.
LEMMA AddEffect ==
  ASSUME IInv, NEW w \in Workers, NEW i \in ItemIds, CommitAddItem(w, i)
  PROVE  /\ i \notin issued /\ ~InLists(i) /\ issued' = issued \cup {i}
         /\ item' = [item EXCEPT ![i] = req[w].edited]
         /\ \A j \in ItemIds \ {i} : item'[j] = item[j]
         /\ item'[i] = req[w].edited /\ item'[i] \in ItemRow
         /\ item'[i].list \in lists /\ LinkExists(item'[i].link)
         /\ ~item'[i].bought /\ item'[i].expense = Null
         /\ UNCHANGED <<lists, tx, stock, pool>> /\ Stock!Done(w)
  <1>1. Stock!Serving(w, "addItem")
    BY DEF CommitAddItem
  <1>2. req[w].edited \in ItemRow
    BY <1>1, HeldNew DEF IInv
  <1>3. ~req[w].edited.bought /\ req[w].edited.expense = Null
    BY <1>1 DEF IInv, RequestsHold, Holds
  <1>4. ~InLists(i)
    BY DEF CommitAddItem, IInv, KeysAreUsed
  <1> QED
    BY <1>2, <1>3, <1>4 DEF CommitAddItem, IInv, TypeOK

LEMMA StoreEffect ==
  ASSUME IInv, NEW w \in Workers, NEW op \in {"updateItem", "checkItem"}, StoreItem(w, op)
  PROVE  LET i == req[w].id IN
         /\ i \in ItemIds /\ InLists(i)
         /\ item' = [item EXCEPT ![i] = item'[i]]
         /\ \A j \in ItemIds \ {i} : item'[j] = item[j]
         /\ item'[i] \in ItemRow
         /\ item'[i].list = item[i].list
         /\ item'[i].bought = item[i].bought
         /\ item'[i].expense = item[i].expense
         /\ LinkExists(item'[i].link)
         /\ UNCHANGED <<lists, tx, stock, issued, pool>> /\ Stock!Done(w)
  <1>1. ~Stock!Idle(w) /\ req[w].op \in ItemOps /\ InLists(req[w].id)
    BY DEF StoreItem, Stock!Serving, ItemOps
  <1>2. req[w].id \in ItemIds /\ req[w].row \in ItemRow /\ req[w].edited \in ItemRow
    BY <1>1, HeldItem DEF IInv
  <1>3. item[req[w].id] \in ItemRow
    BY <1>1, <1>2 DEF InLists, IInv, TypeOK
  <1>4. /\ req[w].edited.list = req[w].row.list
        /\ req[w].edited.bought = req[w].row.bought
        /\ req[w].edited.expense = req[w].row.expense
    BY <1>1 DEF IInv, RequestsHold, Holds
  <1> DEFINE i == req[w].id
             r == Flush(item[i], req[w].row, req[w].edited)
  <1>5. /\ item' = [item EXCEPT ![i] = r] /\ LinkExists(r.link) /\ Stock!Done(w)
        /\ UNCHANGED <<lists, tx, stock, issued, pool>>
    BY DEF StoreItem
  <1>6. r \in ItemRow /\ r.list = item[i].list /\ r.bought = item[i].bought /\ r.expense = item[i].expense
    BY <1>2, <1>3, <1>4, FlushItem
  <1> HIDE DEF r
  <1>7. item'[i] = r /\ \A j \in ItemIds \ {i} : item'[j] = item[j]
    BY <1>2, <1>5 DEF IInv, TypeOK
  <1> QED
    BY <1>1, <1>2, <1>5, <1>6, <1>7

LEMMA TripEffect ==
  ASSUME IInv, NEW w \in Workers, NEW t \in TxIds \cup {Null}, CommitTrip(w, t)
  PROVE  /\ Cart(w) # {} /\ Cart(w) \subseteq ItemIds /\ Cart(w) \subseteq issued
         /\ \A i \in Cart(w) :
              /\ InLists(i) /\ item'[i] \in ItemRow
              /\ item'[i].list = item[i].list /\ item'[i].link = item[i].link
              /\ item'[i].bought
              /\ item'[i].expense = IF t = Null THEN item[i].expense ELSE t
         /\ \A i \in ItemIds \ Cart(w) : item'[i] = item[i]
         /\ t # Null => t \in TxIds /\ t \notin issued /\ ~Live(t)
         /\ tx' = IF t = Null THEN tx
                  ELSE [tx EXCEPT ![t] = [items |-> Cart(w), charged |-> Total(w)]]
         /\ issued' = issued \cup ({t} \ {Null})
         /\ \A s \in StockIds : Stock!InStock(s) => Stock!InStock(s)'
         /\ UNCHANGED <<lists, pool>> /\ Stock!Done(w)
  <1>1. Stock!Serving(w, "trip")
    BY DEF CommitTrip
  <1>2. /\ Cart(w) # {} /\ Cart(w) \subseteq issued
        /\ \A i \in Cart(w) : ~req[w].rows[i].bought /\ req[w].rows[i].expense = Null
    BY <1>1 DEF IInv, RequestsHold, Holds
  <1>3. Cart(w) \subseteq ItemIds
    BY <1>1, HeldTrip DEF IInv
  <1>4. ASSUME NEW i \in Cart(w)
        PROVE  /\ InLists(i) /\ item'[i] \in ItemRow
               /\ item'[i].list = item[i].list /\ item'[i].link = item[i].link
               /\ item'[i].bought
               /\ item'[i].expense = IF t = Null THEN item[i].expense ELSE t
    <2>1. InLists(i) /\ item'[i] = Stamped(w, i, t)
      BY <1>3 DEF CommitTrip
    <2>2. /\ Stamped(w, i, t) \in ItemRow
          /\ Stamped(w, i, t).list = item[i].list
          /\ Stamped(w, i, t).link = item[i].link
          /\ Stamped(w, i, t).bought
          /\ Stamped(w, i, t).expense = IF t = req[w].rows[i].expense THEN item[i].expense ELSE t
      BY <1>1, <1>2, <2>1, StampedRow DEF IInv
    <2> HIDE DEF Stamped
    <2> QED
      BY <1>2, <2>1, <2>2
  <1>5. t # Null => t \in TxIds /\ t \notin issued
    BY DEF CommitTrip
  <1>6. ASSUME NEW s \in StockIds, Stock!InStock(s) PROVE Stock!InStock(s)'
    <2>1. CASE req[w].found[s] = Null
      BY <1>6, <2>1 DEF CommitTrip, Stock!InStock
    <2>2. CASE req[w].found[s] # Null
      <3>1. Bumped(w, s) \in Stock!StockRow /\ stock'[s] = Bumped(w, s)
        BY <1>1, <1>6, <2>2, BumpedRow DEF CommitTrip, IInv
      <3> QED
        BY <3>1, NullAssumption DEF Stock!InStock
    <2> QED
      BY <2>1, <2>2
  <1>7. t # Null => ~Live(t)
    BY <1>5 DEF IInv, KeysAreUsed
  <1> QED
    BY <1>2, <1>3, <1>4, <1>5, <1>6, <1>7 DEF CommitTrip

\* The expense of a trip is new, names the cart, and is the only one it writes.
LEMMA TripExpense ==
  ASSUME IInv, NEW w \in Workers, NEW t \in TxIds \cup {Null}, CommitTrip(w, t)
  PROVE  /\ \A u \in TxIds : u # t => tx'[u] = tx[u]
         /\ \A u \in TxIds : Live(u) => tx'[u] = tx[u]
         /\ t # Null => tx'[t] # Null /\ tx'[t].items = Cart(w)
  <1>1. CASE t = Null
    BY <1>1, TripEffect
  <1>2. CASE t # Null
    <2> DEFINE r == [items |-> Cart(w), charged |-> Total(w)]
    <2>1. t \in TxIds /\ ~Live(t) /\ tx' = [tx EXCEPT ![t] = r]
      BY <1>2, TripEffect
    <2>2. r \in TxRow
      <3>1. Stock!Serving(w, "trip")
        BY DEF CommitTrip
      <3>2. Total(w) \in Nat
        BY <3>1, TripSums DEF IInv
      <3>3. Cart(w) \subseteq ItemIds
        BY TripEffect
      <3> QED
        BY <3>2, <3>3 DEF TxRow
    <2>3. r # Null /\ r.items = Cart(w)
      BY <2>2, NullAssumption
    <2> HIDE DEF r
    <2> QED
      BY <2>1, <2>3 DEF IInv, TypeOK
  <1> QED
    BY <1>1, <1>2

LEMMA KeysStep == IInv /\ [Next]_vars => KeysAreUsed'
  <1> SUFFICES ASSUME IInv, [Next]_vars PROVE KeysAreUsed'
    OBVIOUS
  <1>1. issued \subseteq issued'
    BY KeysGrow DEF IInv
  <1>2. CASE Quiet
    BY <1>1, <1>2 DEF Quiet, IInv, KeysAreUsed, InLists, Live
  <1>3. ASSUME NEW w \in Workers, NEW i \in ItemIds, CommitAddItem(w, i) PROVE KeysAreUsed'
    BY <1>1, <1>3, AddEffect DEF IInv, TypeOK, KeysAreUsed, InLists, Live
  <1>4. ASSUME NEW w \in Workers, NEW op \in {"updateItem", "checkItem"}, StoreItem(w, op)
        PROVE  KeysAreUsed'
    BY <1>1, <1>4, StoreEffect DEF IInv, TypeOK, KeysAreUsed, InLists, Live
  <1>5. ASSUME NEW w \in Workers, CommitDeleteItem(w) PROVE KeysAreUsed'
    BY <1>1, <1>5 DEF CommitDeleteItem, IInv, TypeOK, KeysAreUsed, InLists, Live
  <1>6. ASSUME NEW w \in Workers, NEW t \in TxIds \cup {Null}, CommitTrip(w, t) PROVE KeysAreUsed'
    <2>1. \A i \in ItemIds : InLists(i)' => i \in issued'
      BY <1>1, <1>6, TripEffect DEF IInv, KeysAreUsed, InLists
    <2>2. \A u \in TxIds : Live(u)' => u \in issued' /\ tx'[u].items \subseteq issued'
      BY <1>1, <1>6, TripEffect DEF IInv, TypeOK, KeysAreUsed, Live
    <2> QED
      BY <2>1, <2>2 DEF KeysAreUsed
  <1>7. ASSUME NEW w \in Workers, RemoveStock(w) PROVE KeysAreUsed'
    BY <1>1, <1>7 DEF RemoveStock, IInv, TypeOK, KeysAreUsed, InLists, Live
  <1>8. ASSUME NEW l \in ListIds, DeleteList(l) PROVE KeysAreUsed'
    BY <1>1, <1>8 DEF DeleteList, IInv, TypeOK, KeysAreUsed, InLists, Live
  <1>9. ASSUME NEW t \in TxIds, DropExpense(t) PROVE KeysAreUsed'
    BY <1>1, <1>9 DEF DropExpense, IInv, TypeOK, KeysAreUsed, InLists, Live
  <1> QED
    BY <1>2, <1>3, <1>4, <1>5, <1>6, <1>7, <1>8, <1>9, Writers DEF IInv

\* What NamesAreLive says of one item.
Names(i) ==
  InLists(i) =>
    /\ item[i].list \in lists
    /\ LinkExists(item[i].link)
    /\ item[i].expense # Null => /\ Live(item[i].expense)
                                 /\ i \in tx[item[i].expense].items
                                 /\ item[i].bought

LEMMA NamesStep == IInv /\ [Next]_vars => NamesAreLive'
  <1> SUFFICES ASSUME IInv, [Next]_vars, NEW i \in ItemIds PROVE Names(i)'
    BY DEF NamesAreLive, Names
  <1>1. Names(i)
    BY DEF IInv, NamesAreLive, Names
  <1>2. InLists(i) => item[i] \in ItemRow
    BY DEF InLists, IInv, TypeOK
  <1>3. InLists(i) => item[i].expense \in TxIds \cup {Null} /\ item[i].link \in StockIds \cup {Null}
    BY <1>2 DEF ItemRow
  \* A row nobody writes, while the tables it names keep what it names.
  <1>4. ASSUME item'[i] = item[i], lists \subseteq lists',
               \A s \in StockIds : Stock!InStock(s) => Stock!InStock(s)',
               InLists(i) /\ item[i].expense # Null => tx'[item[i].expense] = tx[item[i].expense]
        PROVE  Names(i)'
    BY <1>1, <1>3, <1>4 DEF Names, InLists, LinkExists, Live
  <1>5. CASE Quiet
    BY <1>4, <1>5 DEF Quiet
  <1>6. ASSUME NEW w \in Workers, NEW j \in ItemIds, CommitAddItem(w, j) PROVE Names(i)'
    <2>1. CASE i = j
      BY <1>6, <2>1, AddEffect DEF Names, LinkExists, Stock!InStock
    <2>2. CASE i # j
      <3>1. item'[i] = item[i] /\ UNCHANGED <<lists, tx, stock>>
        BY <1>6, <2>2, AddEffect
      <3> QED
        BY <1>4, <3>1 DEF Stock!InStock
    <2> QED
      BY <2>1, <2>2
  <1>7. ASSUME NEW w \in Workers, NEW op \in {"updateItem", "checkItem"}, StoreItem(w, op)
        PROVE  Names(i)'
    <2>1. CASE i = req[w].id
      BY <1>1, <1>7, <2>1, StoreEffect DEF Names, LinkExists, Stock!InStock, Live
    <2>2. CASE i # req[w].id
      <3>1. item'[i] = item[i] /\ UNCHANGED <<lists, tx, stock>>
        BY <1>7, <2>2, StoreEffect
      <3> QED
        BY <1>4, <3>1 DEF Stock!InStock
    <2> QED
      BY <2>1, <2>2
  <1>8. ASSUME NEW w \in Workers, CommitDeleteItem(w) PROVE Names(i)'
    <2>1. (item'[i] = item[i] \/ item'[i] = Null) /\ UNCHANGED <<lists, tx, stock>>
      BY <1>8 DEF CommitDeleteItem, IInv, TypeOK
    <2>2. CASE item'[i] = Null
      BY <2>2 DEF Names, InLists
    <2> QED
      BY <1>4, <2>1, <2>2 DEF Stock!InStock
  <1>9. ASSUME NEW w \in Workers, NEW t \in TxIds \cup {Null}, CommitTrip(w, t) PROVE Names(i)'
    <2>1. /\ \A u \in TxIds : Live(u) => tx'[u] = tx[u]
          /\ t # Null => tx'[t] # Null /\ tx'[t].items = Cart(w)
      BY <1>9, TripExpense
    <2>2. UNCHANGED lists /\ \A s \in StockIds : Stock!InStock(s) => Stock!InStock(s)'
      BY <1>9, TripEffect
    <2>3. CASE i \in Cart(w)
      <3>1. /\ InLists(i)
            /\ item'[i].list = item[i].list /\ item'[i].link = item[i].link
            /\ item'[i].bought
            /\ item'[i].expense = IF t = Null THEN item[i].expense ELSE t
        BY <1>9, <2>3, TripEffect
      <3>2. (item[i].list \in lists /\ LinkExists(item[i].link))'
        BY <1>1, <1>3, <2>2, <3>1 DEF Names, LinkExists
      <3>3. (item[i].expense # Null => Live(item[i].expense) /\ i \in tx[item[i].expense].items)'
        BY <1>1, <1>3, <2>1, <2>3, <3>1 DEF Names, Live
      <3> QED
        BY <3>1, <3>2, <3>3 DEF Names
    <2>4. CASE i \notin Cart(w)
      <3>1. item'[i] = item[i]
        BY <1>9, <2>4, TripEffect
      <3> QED
        BY <1>1, <1>3, <1>4, <2>1, <2>2, <3>1 DEF Names
    <2> QED
      BY <2>3, <2>4
  <1>10. ASSUME NEW w \in Workers, RemoveStock(w) PROVE Names(i)'
    <2>1. /\ stock' = [stock EXCEPT ![req[w].id] = Null] /\ UNCHANGED <<lists, tx>>
          /\ item'[i] = IF InLists(i) /\ item[i].link = req[w].id
                        THEN [item[i] EXCEPT !.link = Null] ELSE item[i]
      BY <1>10 DEF RemoveStock, Stock!CommitRemove
    <2>2. CASE InLists(i) /\ item[i].link = req[w].id
      <3>1. /\ item'[i].link = Null /\ item'[i].list = item[i].list
            /\ item'[i].bought = item[i].bought /\ item'[i].expense = item[i].expense
        BY <1>2, <2>1, <2>2 DEF ItemRow
      <3> QED
        BY <1>1, <2>1, <2>2, <3>1 DEF Names, LinkExists, Live
    <2>3. CASE ~(InLists(i) /\ item[i].link = req[w].id)
      BY <1>1, <1>3, <2>1, <2>3 DEF Names, InLists, LinkExists, Live, Stock!InStock, IInv, TypeOK
    <2> QED
      BY <2>2, <2>3
  <1>11. ASSUME NEW l \in ListIds, DeleteList(l) PROVE Names(i)'
    BY <1>1, <1>11 DEF DeleteList, Names, InLists, LinkExists, Live, Stock!InStock
  <1>12. ASSUME NEW t \in TxIds, DropExpense(t) PROVE Names(i)'
    <2>1. /\ tx' = [tx EXCEPT ![t] = Null] /\ UNCHANGED <<lists, stock>>
          /\ item'[i] = IF InLists(i) /\ item[i].expense = t
                        THEN [item[i] EXCEPT !.expense = Null] ELSE item[i]
      BY <1>12 DEF DropExpense
    <2>2. CASE InLists(i) /\ item[i].expense = t
      <3>1. /\ item'[i].link = item[i].link /\ item'[i].list = item[i].list
            /\ item'[i].expense = Null
        BY <1>2, <2>1, <2>2 DEF ItemRow
      <3> QED
        BY <1>1, <2>1, <2>2, <3>1 DEF Names, LinkExists, Stock!InStock
    <2>3. CASE ~(InLists(i) /\ item[i].expense = t)
      BY <1>1, <1>3, <2>1, <2>3 DEF Names, InLists, LinkExists, Live, Stock!InStock, IInv, TypeOK
    <2> QED
      BY <2>2, <2>3
  <1> QED
    BY <1>5, <1>6, <1>7, <1>8, <1>9, <1>10, <1>11, <1>12, Writers DEF IInv

LEMMA Inductive == Spec => []IInv
  <1>1. Init => IInv
    BY DEF Init, Stock!Init, IInv, TypeOK, KeysAreUsed, InLists, Live, RequestsHold, Holds,
           Stock!Idle, Stock!Serving, NamesAreLive
  <1>2. IInv /\ [Next]_vars => IInv'
    BY TypingStep, KeysStep, RequestsStep, NamesStep DEF IInv
  <1> QED
    BY <1>1, <1>2, PTL DEF Spec

\* An item names only what is there, and only what was charged for it, however
\* many requests overlap.
THEOREM NamedIsLive == Spec => []NamesAreLive
  <1>1. IInv => NamesAreLive
    BY DEF IInv
  <1> QED
    BY <1>1, Inductive, PTL

-----------------------------------------------------------------------------
\* What a step does to the expense an item names: nothing, unless it is the trip
\* that charges it, or the row goes, appears unpaid, or loses its expense.
Unstamped(i) ==
  item'[i] # Null => \/ item'[i].expense = Null
                     \/ InLists(i) /\ item[i].expense = item'[i].expense

LEMMA OnlyTripsStamp ==
  ASSUME IInv, [Next]_vars
  PROVE  \/ /\ \A i \in ItemIds : Unstamped(i)
            /\ \A t \in TxIds : tx'[t] # Null => Live(t)
         \/ \E w \in Workers : \E t \in TxIds \cup {Null} : CommitTrip(w, t)
  <1> DEFINE P == /\ \A i \in ItemIds : Unstamped(i)
                  /\ \A t \in TxIds : tx'[t] # Null => Live(t)
  <1>1. \A i \in ItemIds : InLists(i) => item[i] \in ItemRow
    BY DEF InLists, IInv, TypeOK
  <1>2. CASE Quiet
    BY <1>2 DEF Quiet, Unstamped, InLists, Live
  <1>3. ASSUME NEW w \in Workers, NEW i \in ItemIds, CommitAddItem(w, i) PROVE P
    BY <1>3, AddEffect DEF Unstamped, InLists, Live
  <1>4. ASSUME NEW w \in Workers, NEW op \in {"updateItem", "checkItem"}, StoreItem(w, op) PROVE P
    BY <1>4, StoreEffect DEF Unstamped, InLists, Live
  <1>5. ASSUME NEW w \in Workers, CommitDeleteItem(w) PROVE P
    BY <1>5 DEF CommitDeleteItem, IInv, TypeOK, Unstamped, InLists, Live
  <1>6. ASSUME NEW w \in Workers, RemoveStock(w) PROVE P
    <2>1. ASSUME NEW i \in ItemIds PROVE Unstamped(i)
      <3>1. item'[i] = IF InLists(i) /\ item[i].link = req[w].id
                       THEN [item[i] EXCEPT !.link = Null] ELSE item[i]
        BY <1>6 DEF RemoveStock
      <3> QED
        BY <1>1, <3>1 DEF Unstamped, InLists, ItemRow
    <2> QED
      BY <1>6, <2>1 DEF RemoveStock, Live
  <1>7. ASSUME NEW l \in ListIds, DeleteList(l) PROVE P
    BY <1>7 DEF DeleteList, Unstamped, InLists, Live
  <1>8. ASSUME NEW t \in TxIds, DropExpense(t) PROVE P
    <2>1. ASSUME NEW i \in ItemIds PROVE Unstamped(i)
      <3>1. item'[i] = IF InLists(i) /\ item[i].expense = t
                       THEN [item[i] EXCEPT !.expense = Null] ELSE item[i]
        BY <1>8 DEF DropExpense
      <3> QED
        BY <1>1, <3>1 DEF Unstamped, InLists, ItemRow
    <2> QED
      BY <1>8, <2>1 DEF DropExpense, IInv, TypeOK, Live
  <1> QED
    BY <1>2, <1>3, <1>4, <1>5, <1>6, <1>7, <1>8, Writers DEF IInv

\* What TripIsOneCommit says of one expense.
OneCommit(t) ==
  /\ ~Live(t) /\ tx'[t] # Null
       => tx'[t].items # {}
          /\ \A i \in tx'[t].items : item'[i] # Null /\ item'[i].bought /\ item'[i].expense = t
  /\ \A i \in ItemIds :
       item'[i] # Null /\ item'[i].expense = t /\ ~(InLists(i) /\ item[i].expense = t)
         => ~Live(t) /\ i \in tx'[t].items

\* A trip is one commit: expense and stamps come in the same step, whatever
\* other requests do meanwhile.
THEOREM OneCommitPerTrip == Spec => TripIsOneCommit
  <1>1. ASSUME IInv, [Next]_vars, NEW t \in TxIds PROVE OneCommit(t)
    <2>1. t # Null
      BY NullAssumption
    <2>2. CASE (\A i \in ItemIds : Unstamped(i)) /\ \A u \in TxIds : tx'[u] # Null => Live(u)
      BY <2>1, <2>2 DEF OneCommit, Unstamped
    <2>3. ASSUME NEW w \in Workers, NEW u \in TxIds \cup {Null}, CommitTrip(w, u)
          PROVE  OneCommit(t)
      <3>1. /\ Cart(w) # {} /\ Cart(w) \subseteq ItemIds
            /\ \A i \in Cart(w) :
                 /\ InLists(i) /\ item'[i] \in ItemRow /\ item'[i].bought
                 /\ item'[i].expense = IF u = Null THEN item[i].expense ELSE u
            /\ \A i \in ItemIds \ Cart(w) : item'[i] = item[i]
            /\ u # Null => ~Live(u)
        BY <1>1, <2>3, TripEffect
      <3>2. /\ u # t => tx'[t] = tx[t]
            /\ u # Null => tx'[u].items = Cart(w)
        BY <1>1, <2>3, TripExpense
      <3>3. \A i \in Cart(w) : item'[i] # Null
        BY <3>1, NullAssumption
      <3>4. CASE u = t
        BY <2>1, <3>1, <3>2, <3>3, <3>4 DEF OneCommit, InLists
      <3>5. CASE u # t
        BY <3>1, <3>2, <3>5 DEF OneCommit, Live, InLists
      <3> QED
        BY <3>4, <3>5
    <2> QED
      BY <1>1, <2>2, <2>3, OnlyTripsStamp
  <1>2. IInv /\ [Next]_vars => [\A t \in TxIds : OneCommit(t)]_vars
    BY <1>1
  <1>3. Spec => [][\A t \in TxIds : OneCommit(t)]_vars
    BY <1>2, Inductive, PTL DEF Spec
  <1> QED
    BY <1>3 DEF TripIsOneCommit, OneCommit

-----------------------------------------------------------------------------
\* Where requests do not overlap.  What a worker has loaded is still what the
\* tables hold, however the rest of the request goes: an edited item is not
\* bought, the rows of a cart are as they were read, and so are the rows of the
\* stock a trip has read so far.
Fresh(w) ==
  /\ ~Stock!Idle(w) /\ req[w].op \in ItemOps /\ InLists(req[w].id) => ~item[req[w].id].bought
  /\ Stock!Serving(w, "trip") =>
       /\ \A i \in Cart(w) : InLists(i) => item[i] = req[w].rows[i]
       /\ \A s \in StockIds :
            req[w].found[s]
              = IF CartOf(w, s) # {} /\ s \notin req[w].left THEN stock[s] ELSE Null
       /\ \A s \in req[w].left : CartOf(w, s) # {}

OneInv == IInv /\ (OneAtATime => \A w \in Workers : Fresh(w)) /\ TripIsReconstructed

LEMMA Busy == ASSUME IInv, NEW w \in Workers, ~Stock!Idle(w) PROVE w \in pool
  BY DEF IInv, RequestsHold, Holds

\* While a request is served, only it, the deletion of a list or that of an
\* expense write.
LEMMA Alone ==
  ASSUME IInv, OneAtATime, [Next]_vars, NEW v \in Workers, ~Stock!Idle(v)
  PROVE  \/ req'[v] = Null
         \/ ReadStock(v)
         \/ UNCHANGED vars
         \/ \E l \in ListIds : DeleteList(l)
         \/ \E t \in TxIds : DropExpense(t)
  <1> DEFINE P == req'[v] = Null \/ ReadStock(v)
  <1>1. v \in pool
    BY Busy
  <1>2. ASSUME NEW w \in Workers, NEW r, Ask(w, r) PROVE FALSE
    BY <1>1, <1>2 DEF Ask, OneAtATime
  <1>3. ASSUME NEW w \in Workers, ~Stock!Idle(w) PROVE w = v
    BY <1>1, <1>3, Busy DEF OneAtATime
  <1>4. ASSUME NEW w \in Workers, ~Stock!Idle(w), Stock!Done(w) PROVE P
    BY <1>3, <1>4 DEF Stock!Done, IInv, TypeOK
  <1>5. ASSUME NEW w \in Workers, ListStep(w) PROVE P
    BY <1>2, <1>3, <1>4, <1>5 DEF ListStep, BeginCreateList, BeginTrip, BeginAddItem,
                                  CommitCreateList, CommitTrip, ReadStock, Stock!Serving
  <1>6. ASSUME NEW w \in Workers, ItemStep(w) PROVE P
    BY <1>2, <1>4, <1>6 DEF ItemStep, BeginUpdateItem, BeginCheckItem, BeginDeleteItem, LoadItem,
                            CommitAddItem, CommitUpdateItem, CommitCheckItem, StoreItem,
                            CommitDeleteItem, Stock!Serving
  <1>7. ASSUME NEW w \in Workers, OtherStockStep(w) PROVE P
    <2>1. w = v
      BY <1>1, <1>7 DEF OtherStockStep, OneAtATime
    <2> QED
      BY <1>4, <1>7, <2>1 DEF OtherStockStep, Stock!BeginCreate, Stock!BeginUpdate,
        Stock!BeginAdjust, Stock!BeginRemove, Stock!Load, Stock!CommitCreate, Stock!CommitUpdate,
        Stock!CommitAdjust, Stock!Store, Stock!Serving, Stock!Rollback
  <1>8. ASSUME NEW w \in Workers, RemoveStock(w) PROVE P
    BY <1>4, <1>8 DEF RemoveStock, Stock!CommitRemove, Stock!Serving
  <1> QED
    BY <1>5, <1>6, <1>7, <1>8 DEF Next

LEMMA FreshStep ==
  ASSUME OneInv, OneAtATime, [Next]_vars, NEW v \in Workers
  PROVE  Fresh(v)'
  <1>1. IInv /\ Fresh(v)
    BY DEF OneInv
  \* The request goes on while rows it holds go, or stay as they are.
  <1>2. ASSUME req' = req, stock' = stock,
               \A i \in ItemIds : item'[i] = Null \/ (item'[i] = item[i] /\ InLists(i))
                                  \/ (InLists(i) /\ item[i].expense # Null)
        PROVE  Fresh(v)'
    <2>1. \A i \in ItemIds : InLists(i) /\ ~item[i].bought => item[i].expense = Null
      BY <1>1 DEF IInv, NamesAreLive
    <2>2. ASSUME ~Stock!Idle(v), req[v].op \in ItemOps, InLists(req[v].id)'
          PROVE  ~item'[req[v].id].bought
      <3>1. req[v].id \in ItemIds
        BY <1>1, <2>2, HeldItem DEF IInv
      <3> QED
        BY <1>1, <1>2, <2>1, <2>2, <3>1 DEF Fresh, InLists
    <2>3. ASSUME Stock!Serving(v, "trip"), NEW i \in Cart(v), InLists(i)'
          PROVE  item'[i] = req[v].rows[i]
      <3>1. i \in ItemIds /\ ~req[v].rows[i].bought /\ req[v].rows[i].expense = Null
        BY <1>1, <2>3, HeldTrip DEF IInv, RequestsHold, Holds
      <3> QED
        BY <1>1, <1>2, <2>3, <3>1 DEF Fresh, InLists
    <2> QED
      BY <1>1, <1>2, <2>2, <2>3 DEF Fresh, Cart, CartOf, InLists, Stock!Idle, Stock!Serving
  <1>3. CASE Stock!Idle(v)
    <2>1. CASE req'[v] = req[v] \/ req'[v] = Null
      BY <1>3, <2>1 DEF Fresh, Stock!Idle, Stock!Serving
    <2>2. CASE ReadStock(v)
      BY <1>3, <2>2 DEF ReadStock, Stock!Serving
    <2>3. CASE Sound(req'[v]) /\ UNCHANGED <<own, stock, issued>>
      BY <2>3 DEF Sound, Fresh, Cart, CartOf, InLists, own, Stock!Idle, Stock!Serving
    <2> QED
      BY <1>1, <2>1, <2>2, <2>3, RequestChanges DEF RequestChange
  <1>4. CASE req'[v] = Null
    BY <1>4 DEF Fresh, Stock!Idle, Stock!Serving
  <1>5. CASE ReadStock(v)
    <2>1. Stock!Serving(v, "trip") /\ UNCHANGED <<item, stock>>
      BY <1>5 DEF ReadStock, own
    <2>2. PICK s \in req[v].left :
            req'[v] = ReadRow(req[v], s)
      <3>1. PICK s \in req[v].left :
              req' = [req EXCEPT ![v] = ReadRow(req[v], s)]
        BY <1>5 DEF ReadStock
      <3>2. req'[v] = ReadRow(req[v], s)
        BY <1>1, <3>1 DEF IInv, TypeOK
      <3> QED
        BY <3>2
    <2>3. /\ req'[v].op = "trip" /\ req'[v].rows = req[v].rows
          /\ req'[v].left = req[v].left \ {s} /\ s \in StockIds
          /\ req'[v].found = [req[v].found EXCEPT ![s] = stock[s]]
      BY <1>1, <2>1, <2>2, HeldTrip DEF IInv, ReadRow
    <2>4. Cart(v)' = Cart(v) /\ \A u : CartOf(v, u)' = CartOf(v, u)
      BY <2>3 DEF Cart, CartOf
    <2>5. CartOf(v, s) # {}
      BY <1>1, <2>1, <2>2 DEF Fresh
    <2>6. ASSUME NEW u \in StockIds
          PROVE  req'[v].found[u]
                   = IF CartOf(v, u) # {} /\ u \notin req'[v].left THEN stock[u] ELSE Null
      BY <1>1, <2>1, <2>3, <2>5, HeldTrip DEF Fresh, IInv
    <2> QED
      BY <1>1, <2>1, <2>3, <2>4, <2>6 DEF Fresh, InLists, Stock!Idle, Stock!Serving, ItemOps
  <1>6. CASE UNCHANGED vars
    BY <1>2, <1>6 DEF vars, InLists
  <1>7. ASSUME NEW l \in ListIds, DeleteList(l) PROVE Fresh(v)'
    BY <1>2, <1>7 DEF DeleteList, InLists
  <1>8. ASSUME NEW t \in TxIds, DropExpense(t) PROVE Fresh(v)'
    <2>1. t # Null
      BY NullAssumption
    <2> QED
      BY <1>2, <1>8, <2>1 DEF DropExpense, InLists
  <1> QED
    BY <1>1, <1>3, <1>4, <1>5, <1>6, <1>7, <1>8, Alone

\* What TripIsReconstructed says of one expense.
Reconstructed(t) == Live(t) => PaidBy(t) = {i \in tx[t].items : InLists(i)}

LEMMA ReconstructedStep ==
  ASSUME OneInv, OneAtATime, [Next]_vars, NEW t \in TxIds
  PROVE  Reconstructed(t)'
  <1>1. IInv /\ Reconstructed(t)
    BY DEF OneInv, TripIsReconstructed, Reconstructed
  <1>2. Live(t) => tx[t].items \subseteq ItemIds /\ tx[t].items \subseteq issued
    BY <1>1 DEF IInv, TypeOK, TxRow, KeysAreUsed, Live
  <1>3. \A i \in ItemIds : InLists(i) => item[i] \in ItemRow
    BY <1>1 DEF IInv, TypeOK, InLists
  \* The expense is not written, and what it paid goes or stays.
  <1>4. ASSUME tx'[t] = tx[t],
               \A i \in ItemIds :
                 \/ item'[i] = Null
                 \/ ~InLists(i) /\ i \notin issued /\ item'[i].expense = Null
                 \/ InLists(i) /\ (item'[i].expense = t <=> item[i].expense = t)
        PROVE  Reconstructed(t)'
    <2>1. t # Null
      BY NullAssumption
    <2> SUFFICES ASSUME Live(t)
                 PROVE  PaidBy(t)' = {i \in tx'[t].items : InLists(i)'}
      BY <1>4 DEF Reconstructed, Live
    <2>2. tx'[t].items = tx[t].items
      BY <1>4
    <2>3. ASSUME NEW i \in ItemIds
          PROVE  i \in PaidBy(t)' <=> i \in tx[t].items /\ InLists(i)'
      BY <1>1, <1>2, <1>4, <2>1 DEF Reconstructed, PaidBy, InLists
    <2> QED
      BY <1>2, <2>2, <2>3 DEF PaidBy
  <1>5. CASE Quiet
    BY <1>4, <1>5 DEF Quiet, InLists
  <1>6. ASSUME NEW w \in Workers, NEW i \in ItemIds, CommitAddItem(w, i) PROVE Reconstructed(t)'
    BY <1>1, <1>4, <1>6, AddEffect DEF InLists
  <1>7. ASSUME NEW w \in Workers, NEW op \in {"updateItem", "checkItem"}, StoreItem(w, op)
        PROVE  Reconstructed(t)'
    BY <1>1, <1>4, <1>7, StoreEffect DEF InLists
  <1>8. ASSUME NEW w \in Workers, CommitDeleteItem(w) PROVE Reconstructed(t)'
    <2>1. tx' = tx /\ \A i \in ItemIds : item'[i] = Null \/ item'[i] = item[i]
      BY <1>1, <1>8 DEF CommitDeleteItem, IInv, TypeOK
    <2> QED
      BY <1>4, <2>1 DEF InLists
  <1>9. ASSUME NEW w \in Workers, NEW u \in TxIds \cup {Null}, CommitTrip(w, u)
        PROVE  Reconstructed(t)'
    <2>1. /\ Cart(w) \subseteq ItemIds
          /\ \A i \in Cart(w) :
               /\ InLists(i) /\ item'[i] \in ItemRow
               /\ item'[i].expense = IF u = Null THEN item[i].expense ELSE u
          /\ \A i \in ItemIds \ Cart(w) : item'[i] = item[i]
          /\ u # Null => ~Live(u)
      BY <1>1, <1>9, TripEffect
    <2>2. /\ u # t => tx'[t] = tx[t]
          /\ u # Null => tx'[u].items = Cart(w)
      BY <1>1, <1>9, TripExpense
    <2>3. \A i \in Cart(w) : item[i].expense = Null
      BY <1>1, <1>9, <2>1 DEF CommitTrip, OneInv, Fresh, IInv, RequestsHold, Holds
    <2>4. t # Null
      BY NullAssumption
    <2>5. CASE u # t
      BY <1>4, <2>1, <2>2, <2>3, <2>4, <2>5 DEF InLists
    <2>6. CASE u = t
      <3>1. \A i \in ItemIds : InLists(i) => item[i].expense # t
        BY <1>1, <2>1, <2>4, <2>6 DEF IInv, NamesAreLive
      <3>2. ASSUME NEW i \in ItemIds PROVE i \in PaidBy(t)' <=> i \in Cart(w)
        BY <2>1, <2>4, <2>6, <3>1, NullAssumption DEF PaidBy, InLists
      <3>3. \A i \in Cart(w) : InLists(i)'
        BY <2>1, NullAssumption DEF InLists
      <3> QED
        BY <2>1, <2>2, <2>4, <2>6, <3>2, <3>3 DEF Reconstructed, PaidBy
    <2> QED
      BY <2>5, <2>6
  <1>10. ASSUME NEW w \in Workers, RemoveStock(w) PROVE Reconstructed(t)'
    <2>1. ASSUME NEW i \in ItemIds
          PROVE  item'[i] = IF InLists(i) /\ item[i].link = req[w].id
                            THEN [item[i] EXCEPT !.link = Null] ELSE item[i]
      BY <1>10 DEF RemoveStock
    <2>2. ASSUME NEW i \in ItemIds, InLists(i) PROVE item'[i].expense = item[i].expense
      BY <1>3, <2>1, <2>2 DEF ItemRow
    <2> QED
      BY <1>4, <1>10, <2>1, <2>2 DEF RemoveStock, InLists
  <1>11. ASSUME NEW l \in ListIds, DeleteList(l) PROVE Reconstructed(t)'
    BY <1>4, <1>11 DEF DeleteList, InLists
  <1>12. ASSUME NEW u \in TxIds, DropExpense(u) PROVE Reconstructed(t)'
    <2>1. CASE u = t
      BY <1>1, <1>12, <2>1 DEF DropExpense, Reconstructed, Live, IInv, TypeOK
    <2>2. CASE u # t
      <3>1. ASSUME NEW i \in ItemIds
            PROVE  item'[i] = IF InLists(i) /\ item[i].expense = u
                              THEN [item[i] EXCEPT !.expense = Null] ELSE item[i]
        BY <1>12 DEF DropExpense
      <3>2. ASSUME NEW i \in ItemIds, InLists(i)
            PROVE  item'[i].expense = t <=> item[i].expense = t
        BY <1>3, <2>2, <3>1, <3>2, NullAssumption DEF ItemRow
      <3>3. tx'[t] = tx[t]
        BY <1>12, <2>2 DEF DropExpense
      <3> QED
        BY <1>4, <3>1, <3>2, <3>3 DEF InLists
    <2> QED
      BY <2>1, <2>2
  <1> QED
    BY <1>1, <1>5, <1>6, <1>7, <1>8, <1>9, <1>10, <1>11, <1>12, Writers DEF IInv

LEMMA OneInductive == Spec => []OneInv
  <1>1. IInv /\ Init => OneInv
    BY DEF Init, Stock!Init, OneInv, Fresh, Stock!Idle, Stock!Serving, TripIsReconstructed, Live
  <1>2. OneInv /\ IInv' /\ [Next]_vars => OneInv'
    <2> SUFFICES ASSUME OneInv, IInv', [Next]_vars PROVE OneInv'
      OBVIOUS
    <2>1. OneAtATime' => OneAtATime
      BY KeysGrow DEF OneInv, IInv, OneAtATime
    <2>2. (OneAtATime => \A w \in Workers : Fresh(w))'
      BY <2>1, FreshStep
    <2>3. TripIsReconstructed'
      BY <2>1, ReconstructedStep DEF TripIsReconstructed, Reconstructed
    <2> QED
      BY <2>2, <2>3 DEF OneInv
  <1> QED
    BY <1>1, <1>2, Inductive, PTL DEF Spec

\* Where requests do not overlap, the items of a trip are those that name its
\* expense, for as long as the expense and the items are there.
THEOREM Reconstruction == Spec => []TripIsReconstructed
  <1>1. OneInv => TripIsReconstructed
    BY DEF OneInv
  <1> QED
    BY <1>1, OneInductive, PTL

\* Where requests do not overlap, a bought item leaves only with its list: no
\* delete of an item, however it was started, reaches one that was bought since.
THEOREM BoughtStays == Spec => BoughtIsKept
  <1>1. ASSUME OneInv, [Next]_vars, OneAtATime, NEW i \in ItemIds, InLists(i), item[i].bought,
               item'[i] = Null
        PROVE  item[i].list \notin lists'
    <2>1. IInv /\ item[i] \in ItemRow
      BY <1>1 DEF OneInv, IInv, TypeOK, InLists
    <2>2. CASE Quiet
      BY <1>1, <2>2 DEF Quiet, InLists
    <2>3. ASSUME NEW w \in Workers, NEW j \in ItemIds, CommitAddItem(w, j) PROVE FALSE
      BY <1>1, <2>1, <2>3, AddEffect DEF InLists
    <2>4. ASSUME NEW w \in Workers, NEW op \in {"updateItem", "checkItem"}, StoreItem(w, op)
          PROVE  FALSE
      BY <1>1, <2>1, <2>4, StoreEffect, NullAssumption DEF InLists
    <2>5. ASSUME NEW w \in Workers, CommitDeleteItem(w) PROVE FALSE
      <3>1. ~Stock!Idle(w) /\ req[w].op \in ItemOps /\ item' = [item EXCEPT ![req[w].id] = Null]
        BY <2>5 DEF CommitDeleteItem, Stock!Serving, ItemOps
      <3>2. req[w].id = i
        BY <1>1, <2>1, <3>1 DEF InLists, IInv, TypeOK
      <3> QED
        BY <1>1, <3>1, <3>2 DEF OneInv, Fresh
    <2>6. ASSUME NEW w \in Workers, NEW t \in TxIds \cup {Null}, CommitTrip(w, t) PROVE FALSE
      BY <1>1, <2>1, <2>6, TripEffect, NullAssumption DEF InLists
    <2>7. ASSUME NEW w \in Workers, RemoveStock(w) PROVE FALSE
      <3>1. item'[i] = item[i] \/ item'[i] = [item[i] EXCEPT !.link = Null]
        BY <2>7 DEF RemoveStock
      <3>2. [item[i] EXCEPT !.link = Null] \in ItemRow
        BY <2>1 DEF ItemRow
      <3> QED
        BY <1>1, <3>1, <3>2, NullAssumption DEF InLists
    <2>8. ASSUME NEW l \in ListIds, DeleteList(l) PROVE item[i].list \notin lists'
      BY <1>1, <2>8 DEF DeleteList, InLists
    <2>9. ASSUME NEW t \in TxIds, DropExpense(t) PROVE FALSE
      <3>1. item'[i] = item[i] \/ item'[i] = [item[i] EXCEPT !.expense = Null]
        BY <2>9 DEF DropExpense
      <3>2. [item[i] EXCEPT !.expense = Null] \in ItemRow
        BY <2>1 DEF ItemRow
      <3> QED
        BY <1>1, <3>1, <3>2, NullAssumption DEF InLists
    <2> QED
      BY <1>1, <2>1, <2>2, <2>3, <2>4, <2>5, <2>6, <2>7, <2>8, <2>9, Writers DEF IInv
  <1>2. OneInv /\ [Next]_vars =>
          [OneAtATime => \A i \in ItemIds :
             InLists(i) /\ item[i].bought /\ item'[i] = Null => item[i].list \notin lists']_vars
    BY <1>1
  <1> QED
    BY <1>2, OneInductive, PTL DEF Spec, BoughtIsKept

\* What a trip stamps as bought of one row of the stock.
StampedOf(s) == {i \in ItemIds : /\ InLists(i) /\ item'[i] # Null
                                 /\ ~item[i].bought /\ item'[i].bought
                                 /\ item[i].link = s}

\* Where requests do not overlap, a trip stamps the cart it has loaded.
LEMMA CartIsStamped ==
  ASSUME OneInv, OneAtATime, NEW w \in Workers, NEW t \in TxIds \cup {Null}, CommitTrip(w, t),
         NEW s \in StockIds
  PROVE  /\ StampedOf(s) = CartOf(w, s)
         /\ SumFunction([i \in StampedOf(s) |-> item[i].qty]) = Bought(w, s)
  <1>1. IInv /\ Fresh(w) /\ Stock!Serving(w, "trip")
    BY DEF OneInv, CommitTrip
  <1>2. /\ Cart(w) \subseteq ItemIds
        /\ \A i \in Cart(w) : InLists(i) /\ item'[i] \in ItemRow /\ item'[i].bought
        /\ \A i \in ItemIds \ Cart(w) : item'[i] = item[i]
    BY <1>1, TripEffect
  <1>3. \A i \in Cart(w) : item[i] = req[w].rows[i] /\ ~item[i].bought
    BY <1>1, <1>2 DEF Fresh, IInv, RequestsHold, Holds
  <1>4. StampedOf(s) = CartOf(w, s)
    <2>1. ASSUME NEW i PROVE i \in StampedOf(s) <=> i \in CartOf(w, s)
      BY <1>2, <1>3, NullAssumption DEF StampedOf, CartOf
    <2> QED
      BY <2>1
  <1>5. [i \in StampedOf(s) |-> item[i].qty] = [i \in CartOf(w, s) |-> req[w].rows[i].qty]
    BY <1>3, <1>4 DEF CartOf
  <1> QED
    BY <1>4, <1>5 DEF Bought

\* Where requests do not overlap, the stock grows by what a trip stamps as
\* bought, within its bounds.
THEOREM StockIsFilled == Spec => TripFillsStock
  <1> DEFINE Filled(s) ==
        stock'[s].quantity =
          Stock!Clamp(stock[s].quantity + SumFunction([i \in StampedOf(s) |-> item[i].qty]))
  <1>1. ASSUME OneInv, [Next]_vars, OneAtATime, NEW w \in Workers, Closes(w),
               NEW s \in StockIds, Stock!InStock(s)
        PROVE  Filled(s)
    <2>1. IInv /\ Stock!Serving(w, "trip") /\ ~Stock!Idle(w) /\ req'[w] # req[w] /\ item' # item
      BY <1>1 DEF Closes, OneInv, Stock!Serving, Stock!Idle
    <2>2. \A v \in Workers : ~Stock!Idle(v) => v = w
      BY <1>1, <2>1, Busy DEF OneAtATime
    <2>3. PICK t \in TxIds \cup {Null} : CommitTrip(w, t)
      <3>1. ASSUME NEW v \in Workers, ~Stock!Idle(v), req[v].op # "trip" PROVE FALSE
        BY <2>1, <2>2, <3>1 DEF Stock!Serving
      <3>2. ~Quiet
        BY <2>1 DEF Quiet
      <3>3. ~ \E l \in ListIds : DeleteList(l)
        BY <2>1 DEF DeleteList
      <3>4. ~ \E t \in TxIds : DropExpense(t)
        BY <2>1 DEF DropExpense
      <3>5. ASSUME NEW v \in Workers,
                   \/ \E i \in ItemIds : CommitAddItem(v, i)
                   \/ \E op \in {"updateItem", "checkItem"} : StoreItem(v, op)
                   \/ CommitDeleteItem(v)
                   \/ RemoveStock(v)
            PROVE  FALSE
        BY <3>1, <3>5 DEF CommitAddItem, StoreItem, CommitDeleteItem, RemoveStock,
                          Stock!CommitRemove, Stock!Serving
      <3>6. PICK v \in Workers, t \in TxIds \cup {Null} : CommitTrip(v, t)
        BY <1>1, <2>1, <3>2, <3>3, <3>4, <3>5, Writers DEF IInv
      <3> QED
        BY <2>2, <3>6 DEF CommitTrip, Stock!Serving
    <2>4. SumFunction([i \in StampedOf(s) |-> item[i].qty]) = Bought(w, s)
      BY <1>1, <2>3, CartIsStamped
    <2>5. req[w].found[s] = IF CartOf(w, s) # {} THEN stock[s] ELSE Null
      BY <1>1, <2>3 DEF OneInv, Fresh, CommitTrip
    <2>6. stock'[s] = IF req[w].found[s] # Null THEN Bumped(w, s) ELSE stock[s]
      BY <2>3 DEF CommitTrip
    <2>7. CASE CartOf(w, s) # {}
      <3>1. req[w].found[s] = stock[s] /\ stock[s] # Null
        BY <1>1, <2>5, <2>7 DEF Stock!InStock
      <3>2. stock'[s].quantity = Stock!Clamp(stock[s].quantity + Bought(w, s))
        BY <1>1, <2>1, <2>6, <3>1, BumpedRow DEF IInv
      <3> QED
        BY <2>4, <3>2
    <2>8. CASE CartOf(w, s) = {}
      <3>1. stock'[s] = stock[s]
        BY <2>5, <2>6, <2>8
      <3>2. Bought(w, s) = 0
        BY <2>8, SumOfNothing DEF Bought
      <3>3. stock[s].quantity \in 0..MaxQty
        BY <1>1, <2>1 DEF IInv, TypeOK, Stock!InStock, Stock!StockRow, Stock!Quantity
      <3>4. Stock!Clamp(stock[s].quantity + 0) = stock[s].quantity
        BY <3>3, StockAssumption DEF Stock!Clamp
      <3> QED
        BY <2>4, <3>1, <3>2, <3>4
    <2> QED
      BY <2>7, <2>8
  <1>2. OneInv /\ [Next]_vars =>
          [OneAtATime => \A w \in Workers : Closes(w) =>
             \A s \in StockIds : Stock!InStock(s) => Filled(s)]_vars
    BY <1>1
  <1>3. OneInv /\ [Next]_vars =>
          [OneAtATime => \A w \in Workers : Closes(w) =>
             \A s \in StockIds : Stock!InStock(s) =>
               LET stamped == {i \in ItemIds : /\ InLists(i) /\ item'[i] # Null
                                               /\ ~item[i].bought /\ item'[i].bought
                                               /\ item[i].link = s} IN
               stock'[s].quantity =
                 Stock!Clamp(stock[s].quantity + SumFunction([i \in stamped |-> item[i].qty]))]_vars
    BY <1>2 DEF StampedOf
  <1> QED
    BY <1>3, OneInductive, PTL DEF Spec, TripFillsStock

-----------------------------------------------------------------------------
\* The stock.  Only its own requests and the trips write it.
LEMMA StockWriters ==
  ASSUME [Next]_vars, stock' # stock
  PROVE  \E w \in Workers :
           \/ \E s \in StockIds : Stock!CommitCreate(w, s)
           \/ \E op \in {"update", "adjust"} : Stock!Store(w, op)
           \/ Stock!CommitRemove(w)
           \/ \E t \in TxIds \cup {Null} : CommitTrip(w, t)
  <1>1. ASSUME NEW w, NEW r, Ask(w, r) PROVE stock' = stock
    BY <1>1 DEF Ask
  <1>2. ASSUME NEW w \in Workers, ListStep(w)
        PROVE  \E t \in TxIds \cup {Null} : CommitTrip(w, t)
    BY <1>1, <1>2 DEF ListStep, BeginCreateList, CommitCreateList, BeginTrip, BeginAddItem, ReadStock
  <1>3. ASSUME NEW w \in Workers, ItemStep(w) PROVE FALSE
    BY <1>1, <1>3 DEF ItemStep, CommitAddItem, BeginUpdateItem, BeginCheckItem, BeginDeleteItem,
                      LoadItem, CommitUpdateItem, CommitCheckItem, StoreItem, CommitDeleteItem
  <1>4. ASSUME NEW w \in Workers, OtherStockStep(w)
        PROVE  \/ \E s \in StockIds : Stock!CommitCreate(w, s)
               \/ \E op \in {"update", "adjust"} : Stock!Store(w, op)
    BY <1>4 DEF OtherStockStep, Stock!BeginCreate, Stock!BeginUpdate, Stock!BeginAdjust,
                Stock!BeginRemove, Stock!Load, Stock!CommitUpdate, Stock!CommitAdjust, Stock!Rollback
  <1>5. (\E l \in ListIds : DeleteList(l)) \/ (\E t \in TxIds : DropExpense(t)) \/ UNCHANGED vars
          => stock' = stock
    BY DEF DeleteList, DropExpense, vars
  <1> QED
    BY <1>2, <1>3, <1>4, <1>5 DEF Next, RemoveStock

LEMMA TitlesStep ==
  ASSUME TypeOK, TitlesUnique, [Next]_vars
  PROVE  TitlesUnique'
  <1> SUFFICES ASSUME stock' # stock PROVE TitlesUnique'
    BY DEF TitlesUnique, Stock!InStock
  <1>1. ASSUME NEW w \in Workers, NEW i \in StockIds, Stock!CommitCreate(w, i)
        PROVE  TitlesUnique'
    BY <1>1 DEF Stock!CommitCreate, Stock!TitleFree, TitlesUnique, Stock!InStock, TypeOK
  <1>2. ASSUME NEW w \in Workers, NEW op \in {"update", "adjust"}, Stock!Store(w, op)
        PROVE  TitlesUnique'
    <2> DEFINE i == req[w].id
               row == Stock!Flush(stock[i], req[w].row, req[w].edited)
    <2>1. i \in StockIds /\ stock' = [stock EXCEPT ![i] = row] /\ Stock!TitleFree(row.title, i)
      BY <1>2, HeldStock DEF Stock!Store, Stock!Serving
    <2> HIDE DEF i, row
    <2> QED
      BY <2>1 DEF Stock!TitleFree, TitlesUnique, Stock!InStock, TypeOK
  <1>3. ASSUME NEW w \in Workers, Stock!CommitRemove(w) PROVE TitlesUnique'
    BY <1>3 DEF Stock!CommitRemove, TitlesUnique, Stock!InStock, TypeOK
  \* A trip changes quantities.
  <1>4. ASSUME NEW w \in Workers, NEW t \in TxIds \cup {Null}, CommitTrip(w, t)
        PROVE  TitlesUnique'
    <2>1. ASSUME NEW s \in StockIds, Stock!InStock(s)'
          PROVE  Stock!InStock(s) /\ stock'[s].title = stock[s].title
      <3>1. CASE req[w].found[s] = Null
        BY <1>4, <2>1, <3>1 DEF CommitTrip, Stock!InStock
      <3>2. CASE req[w].found[s] # Null
        <4>1. Stock!InStock(s) /\ stock'[s] = Bumped(w, s) /\ Stock!Serving(w, "trip")
          BY <1>4, <3>2 DEF CommitTrip
        <4>2. Bumped(w, s).title = stock[s].title
          BY <3>2, <4>1, BumpedRow
        <4> QED
          BY <4>1, <4>2
      <3> QED
        BY <3>1, <3>2
    <2> QED
      BY <2>1 DEF TitlesUnique
  <1> QED
    BY <1>1, <1>2, <1>3, <1>4, StockWriters

\* Two rows of one name never stand in the stock, however requests overlap.
THEOREM UniqueTitles == Spec => []TitlesUnique
  <1>1. Init => TypeOK /\ TitlesUnique
    <2>1. Init => TitlesUnique
      BY DEF Init, Stock!Init, TitlesUnique, Stock!InStock
    <2> QED
      BY <2>1 DEF Init, Stock!Init, TypeOK
  <1>2. TypeOK /\ TitlesUnique /\ [Next]_vars => (TypeOK /\ TitlesUnique)'
    BY TypingStep, TitlesStep
  <1> QED
    BY <1>1, <1>2, PTL DEF Spec

-----------------------------------------------------------------------------
\* What a request to adjust holds: its edited copy is the loaded one with the
\* quantity moved by the step.
StepApplied ==
  \A w \in Workers : Stock!Serving(w, "adjust") =>
    req[w].edited = [req[w].row EXCEPT !.quantity = Stock!Clamp(@ + req[w].delta)]

\* Where requests do not overlap, the copy is the row in the table.
CopyIsFresh ==
  OneAtATime => \A w \in Workers : Stock!Serving(w, "adjust") => stock[req[w].id] = req[w].row

\* Only BeginAdjust starts to adjust.
LEMMA Adjusting ==
  ASSUME IInv, [Next]_vars, NEW v \in Workers, Stock!Serving(v, "adjust")'
  PROVE  \/ req'[v] = req[v]
         \/ \E i \in StockIds : \E d \in Deltas : Stock!BeginAdjust(v, i, d)
  <1> SUFFICES ASSUME req'[v] # req[v]
               PROVE  \E i \in StockIds : \E d \in Deltas : Stock!BeginAdjust(v, i, d)
    OBVIOUS
  <1>0. req'[v] # Null /\ req'[v].op = "adjust" /\ TypeOK
    BY DEF Stock!Serving, Stock!Idle, IInv
  <1>1. ASSUME NEW w \in Workers, NEW r, Ask(w, r), r.op # "adjust" PROVE FALSE
    BY <1>0, <1>1 DEF Ask, TypeOK
  <1>2. ASSUME NEW w \in Workers, Stock!Done(w) PROVE FALSE
    BY <1>0, <1>2 DEF Stock!Done, TypeOK
  <1>3. ASSUME NEW w \in Workers, NEW r, req' = [req EXCEPT ![w] = r]
        PROVE  w = v /\ r.op = "adjust"
    BY <1>0, <1>3 DEF TypeOK
  <1>4. ASSUME NEW w \in Workers, ReadStock(w) PROVE FALSE
    <2>1. w = v
      BY <1>3, <1>4 DEF ReadStock
    <2>2. Stock!Serving(v, "trip")
      BY <1>4, <2>1 DEF ReadStock
    <2>3. req'[v].op = "trip"
      <3>1. PICK s \in req[v].left : req' = [req EXCEPT ![v] = ReadRow(req[v], s)]
        BY <1>4, <2>1 DEF ReadStock
      <3>2. req'[v] = ReadRow(req[v], s)
        BY <1>0, <3>1 DEF TypeOK
      <3> QED
        BY <1>0, <2>2, <3>2, HeldTrip DEF ReadRow
    <2> QED
      BY <1>0, <2>3
  <1>5. ASSUME NEW w \in Workers, ListStep(w) PROVE FALSE
    BY <1>1, <1>2, <1>4, <1>5
       DEF ListStep, BeginCreateList, CommitCreateList, BeginTrip, BeginAddItem, CommitTrip
  <1>6. ASSUME NEW w \in Workers, ItemStep(w) PROVE FALSE
    BY <1>1, <1>2, <1>6
       DEF ItemStep, CommitAddItem, BeginUpdateItem, BeginCheckItem, BeginDeleteItem, LoadItem,
           CommitUpdateItem, CommitCheckItem, StoreItem, CommitDeleteItem
  <1>7. ASSUME NEW w \in Workers, OtherStockStep(w)
        PROVE  \E i \in StockIds : \E d \in Deltas : Stock!BeginAdjust(v, i, d)
    <2>1. ASSUME NEW title, NEW q, Stock!BeginCreate(w, title, q) PROVE FALSE
      <3> DEFINE r == [op |-> "create", edited |-> [title |-> title, quantity |-> q]]
      <3>1. req' = [req EXCEPT ![w] = r] /\ r.op = "create"
        BY <2>1 DEF Stock!BeginCreate
      <3> HIDE DEF r
      <3> QED
        BY <1>3, <3>1
    <2>2. ASSUME NEW i, NEW e, NEW d, NEW op, Stock!Load(w, op, i, e, d)
          PROVE  w = v /\ op = "adjust"
      <3> DEFINE r == [op |-> op, id |-> i, row |-> stock[i], edited |-> e, delta |-> d]
      <3>1. req' = [req EXCEPT ![w] = r] /\ r.op = op
        BY <2>2 DEF Stock!Load
      <3> HIDE DEF r
      <3> QED
        BY <1>3, <3>1
    <2>3. \A i \in StockIds, d \in Deltas : Stock!BeginAdjust(w, i, d) => w = v
      BY <2>2 DEF Stock!BeginAdjust
    <2>4. \A i \in StockIds :
            /\ ~Stock!BeginRemove(w, i)
            /\ \A title, q : ~Stock!BeginUpdate(w, i, title, q)
      BY <2>2 DEF Stock!BeginUpdate, Stock!BeginRemove
    <2> QED
      BY <1>2, <1>7, <2>1, <2>3, <2>4
         DEF OtherStockStep, Stock!CommitCreate, Stock!CommitUpdate, Stock!CommitAdjust, Stock!Store,
             Stock!Rollback
  <1>8. ASSUME NEW w \in Workers, RemoveStock(w) PROVE FALSE
    BY <1>2, <1>8 DEF RemoveStock, Stock!CommitRemove
  <1>9. (\E l \in ListIds : DeleteList(l)) \/ (\E t \in TxIds : DropExpense(t)) \/ UNCHANGED vars
          => req' = req
    BY DEF DeleteList, DropExpense, vars
  <1> QED
    BY <1>5, <1>6, <1>7, <1>8, <1>9 DEF Next

LEMMA AdjustBegins ==
  ASSUME IInv, NEW v \in Workers, NEW i \in StockIds, NEW d \in Deltas, Stock!BeginAdjust(v, i, d)
  PROVE  /\ stock' = stock /\ req'[v].id = i /\ req'[v].row = stock[i]
         /\ req'[v].edited = [req'[v].row EXCEPT !.quantity = Stock!Clamp(@ + req'[v].delta)]
  BY DEF Stock!BeginAdjust, Stock!Load, IInv, TypeOK

LEMMA StepAppliedStep ==
  ASSUME IInv, StepApplied, [Next]_vars
  PROVE  StepApplied'
  <1> SUFFICES ASSUME NEW v \in Workers, Stock!Serving(v, "adjust")'
               PROVE  req'[v].edited
                        = [req'[v].row EXCEPT !.quantity = Stock!Clamp(@ + req'[v].delta)]
    BY DEF StepApplied
  <1>1. CASE req'[v] = req[v]
    BY <1>1 DEF StepApplied, Stock!Serving, Stock!Idle
  <1> QED
    BY <1>1, Adjusting, AdjustBegins

LEMMA CopyIsFreshStep ==
  ASSUME IInv, CopyIsFresh, [Next]_vars
  PROVE  CopyIsFresh'
  <1> SUFFICES ASSUME OneAtATime', NEW v \in Workers, Stock!Serving(v, "adjust")'
               PROVE  stock'[req'[v].id] = req'[v].row
    BY DEF CopyIsFresh
  <1>1. OneAtATime
    BY KeysGrow DEF IInv, OneAtATime
  <1>2. CASE req'[v] = req[v]
    <2>1. Stock!Serving(v, "adjust") /\ ~Stock!Idle(v) /\ req'[v] # Null
      BY <1>2 DEF Stock!Serving, Stock!Idle
    <2>2. ~ReadStock(v)
      BY <2>1 DEF ReadStock, Stock!Serving
    <2>3. stock' = stock
      BY <1>1, <2>1, <2>2, Alone DEF vars, DeleteList, DropExpense
    <2> QED
      BY <1>1, <1>2, <2>1, <2>3 DEF CopyIsFresh
  <1> QED
    BY <1>2, Adjusting, AdjustBegins

StockInv == IInv /\ StepApplied /\ CopyIsFresh

LEMMA StockInductive == Spec => []StockInv
  <1>1. Init => StepApplied /\ CopyIsFresh
    BY DEF Init, Stock!Init, StepApplied, CopyIsFresh, Stock!Serving, Stock!Idle
  <1>2. StockInv /\ [Next]_vars => (StepApplied /\ CopyIsFresh)'
    BY StepAppliedStep, CopyIsFreshStep DEF StockInv
  <1> QED
    BY <1>1, <1>2, Inductive, PTL DEF Spec, StockInv

\* What the commit of an adjustment does.
LEMMA AdjustCommits ==
  ASSUME StockInv, [Next]_vars, NEW w \in Workers, Adjusts(w)
  PROVE  LET i == req[w].id IN
         /\ i \in StockIds /\ req[w].row \in Stock!StockRow /\ stock[i] \in Stock!StockRow
         /\ stock'[i].title = stock[i].title
         /\ stock[i] = req[w].row => MovedByStep(w)
  <1> DEFINE i == req[w].id
  <1>1. Stock!Serving(w, "adjust") /\ req'[w] = Null /\ stock' # stock /\ TypeOK /\ ~Stock!Idle(w)
    BY DEF Adjusts, StockInv, IInv, Stock!Serving
  <1>2. i \in StockIds /\ req[w].row \in Stock!StockRow /\ req[w].edited \in Stock!StockRow
    BY <1>1, HeldStock DEF Stock!Serving
  <1>3. ASSUME NEW v \in Workers, Stock!Done(v) PROVE v = w
    BY <1>1, <1>3 DEF Stock!Done, Stock!Idle, TypeOK
  <1>4. Stock!Store(w, "adjust")
    BY <1>1, <1>3, StockWriters
       DEF Stock!CommitCreate, Stock!Store, Stock!CommitRemove, CommitTrip, Stock!Serving
  <1>5. stock[i] \in Stock!StockRow /\ stock'[i] = Stock!Flush(stock[i], req[w].row, req[w].edited)
    BY <1>1, <1>2, <1>4 DEF Stock!Store, Stock!InStock, TypeOK
  <1>6. /\ req[w].edited.title = req[w].row.title
        /\ req[w].edited.quantity = Stock!Clamp(req[w].row.quantity + req[w].delta)
    BY <1>1, <1>2 DEF StockInv, StepApplied, Stock!StockRow
  <1>7. /\ stock'[i].title = stock[i].title
        /\ stock[i] = req[w].row => stock'[i].quantity = req[w].edited.quantity
    BY <1>2, <1>5, <1>6, FlushStock
  <1> QED
    BY <1>2, <1>5, <1>6, <1>7 DEF MovedByStep

\* An adjustment never takes back a name somebody gave the row meanwhile, and one
\* that nobody wrote in front of moves the quantity by exactly its step, for any
\* number of requests and trips at a time.
THEOREM ExactStep == Spec => AdjustIsExact
  <1>1. StockInv /\ [Next]_vars =>
          [\A w \in Workers : Adjusts(w) =>
             /\ stock'[req[w].id].title = stock[req[w].id].title
             /\ stock[req[w].id] = req[w].row => MovedByStep(w)]_vars
    BY AdjustCommits
  <1> QED
    BY <1>1, StockInductive, PTL DEF Spec, AdjustIsExact

\* Served one after the other, adjustments add up: each moves the quantity by
\* its step, between zero and the maximum.
THEOREM RelativeStep == Spec => AdjustIsRelative
  <1>1. StockInv /\ [Next]_vars =>
          [OneAtATime => \A w \in Workers : Adjusts(w) => MovedByStep(w)]_vars
    <2> SUFFICES ASSUME StockInv, [Next]_vars, OneAtATime, NEW w \in Workers, Adjusts(w)
                 PROVE  MovedByStep(w)
      OBVIOUS
    <2>1. stock[req[w].id] = req[w].row
      BY DEF StockInv, CopyIsFresh, Adjusts
    <2> QED
      BY <2>1, AdjustCommits
  <1> QED
    BY <1>1, StockInductive, PTL DEF Spec, AdjustIsRelative
=============================================================================
