----------------------------- MODULE MCEntries ------------------------------
(* A small instance of Entries. *)
EXTENDS Entries

CONSTANTS food, rent, ali, sara, bank, cash, m1, m2, milk, rice

\* Dates are Gregorian, as the app keeps them: today is the 20th of April.
MCToday == <<1405, 1, 31>>

Tx(type, amount, category, member, account, to, date) ==
  [type |-> type, amount |-> amount, category |-> category, member |-> member,
   account |-> account, to |-> to, date |-> date, repeat |-> "none", until |-> None]

Repeats(tx, repeat, until) == [tx EXCEPT !.repeat = repeat, !.until = until]

Given(tx, id) ==
  [f \in DOMAIN tx \cup {"id", "handled"} |->
     IF f = "id" THEN id ELSE IF f = "handled" THEN {} ELSE tx[f]]

\* Paid every 31st since 1404/6/31, past the shorter months and again today; paid every last
\* day of the year since 1403/12/30, of a leap year; moved between accounts in the month
\* before this one.
Ledger ==
  {Given(Repeats(Tx("expense", 5, rent, ali, bank, None, <<2025, 9, 22>>),
                   "monthly", <<2026, 4, 21>>), 1),
   Given(Repeats(Tx("expense", 9, rent, sara, bank, None, <<2025, 3, 20>>),
                   "yearly", <<2031, 3, 21>>), 2),
   Given(Tx("transfer", 3, rent, ali, bank, cash, <<2026, 3, 20>>), 3)}

\* Paid today; earned every week since 1405/1/12.
Entry ==
  {Tx("expense", 2, food, sara, cash, None, <<2026, 4, 20>>),
   Repeats(Tx("income", 4, rent, ali, bank, None, <<2026, 4, 1>>), "weekly", <<2026, 4, 15>>)}

MCMessages == <<m1, m2>>
MCInitial == [a \in {bank, cash} |-> IF a = bank THEN 10 ELSE 0]
MCBudgets == [c \in {food, rent} |-> IF c = food THEN 3 ELSE 0]

\* Bills and events on both sides of today and of the horizons of 3 and 30 days; of two
\* items that are low one is on a list.
Household ==
  LET Bill(id, date, state) == [id |-> id, state |-> state, amount |-> id, date |-> date]
      Event(id, date) == [id |-> id, date |-> date]
      Item(id, stock, checked, price) ==
        [id |-> id, stock |-> stock, checked |-> checked, price |-> price]
  IN [bills |-> {Bill(1, <<2026, 4, 19>>, "unpaid"), Bill(2, <<2026, 4, 20>>, "unpaid"),
                 Bill(3, <<2026, 4, 23>>, "unpaid"), Bill(4, <<2026, 4, 24>>, "unpaid"),
                 Bill(5, <<2026, 4, 19>>, "paid")},
      events |-> {Event(1, <<2026, 4, 19>>), Event(2, <<2026, 4, 20>>), Event(3, <<2026, 4, 23>>),
                  Event(4, <<2026, 4, 23>>), Event(5, <<2026, 5, 20>>), Event(6, <<2026, 5, 21>>)},
      stock |-> {[id |-> milk, quantity |-> 1, threshold |-> 1],
                 [id |-> rice, quantity |-> 0, threshold |-> 2],
                 [id |-> food, quantity |-> 0, threshold |-> 0]},
      lists |-> {{Item(1, milk, TRUE, 5), Item(2, None, FALSE, None)}, {Item(3, None, TRUE, None)}},
      requests |-> {[id |-> 1, state |-> "pending"], [id |-> 2, state |-> "rejected"]},
      dismissed |-> {<<4, <<2026, 4, 23>>>>}]

\* TLC evaluates a definition once, but what replaces a constant at every use.
MCFirst == Ledger
MCDrafts == Entry
MCHouse == Household
=============================================================================
