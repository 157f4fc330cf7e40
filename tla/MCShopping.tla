----------------------------- MODULE MCShopping -----------------------------
(* A small instance of Shopping. *)
EXTENDS Shopping, TLC

CONSTANTS w1, w2, s1, s2, milk, rice, l1, i1, i2, t1

Steps == {-2, 1}   \* to zero or below, up
Symmetry == Permutations({i1, i2}) \cup Permutations({w1, w2}) \cup Permutations({s1, s2})

NoItems == \A i \in ItemIds : ~InLists(i)
Serves(w, ops) == Stock!Idle(w) \/ req[w].op \in ops
ServeOnly(ops) == \A w \in Workers : Serves(w, ops)

\* One request at a time, all of them are followed. Two at a time: with both rows and both
\* titles of the stock while nothing stands in a list; with items and a stock of one title
\* while one row of the stock has been made; and over a second row the trips that charge for
\* what they buy, with what puts items into a cart.
FewWhileOverlapping ==
  \/ OneAtATime
  \/ NoItems /\ ServeOnly({"create", "update", "adjust", "remove"})
  \/ /\ \A i \in ItemIds : InLists(i) => item[i].title = milk
     /\ \/ /\ Cardinality(issued \cap StockIds) <= 1
           /\ \A s \in StockIds : Stock!InStock(s) => stock[s].title = milk
        \/ \A w \in Workers :
             \/ Serves(w, {"addItem", "checkItem"})
             \/ req[w].op = "trip" /\ req[w].charge
=============================================================================
