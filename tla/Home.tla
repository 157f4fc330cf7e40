--------------------------------- MODULE Home --------------------------------
(***************************************************************************)
(* What the pages and widgets show of the data the app holds: the tiles    *)
(* and banners of the hub, the dashboard and its widgets, the report of a  *)
(* month, the list, the calendar, and the notices behind the bell          *)
(* (notification.rules.ts, calendar.rules.ts, shopping.rules.ts).          *)
(*                                                                         *)
(* A house is a record of the bills, events, stock, lists and requests to  *)
(* join.  Texts, colours and units of money are left out; so is the order  *)
(* of equals, and an order is kept only where something is cut off by it.  *)
(***************************************************************************)
EXTENDS Reports

CONSTANT TOP  \* categories, or members, shown by name: 4 in the code

MAX_LEAD_DAYS == 60

\* Math.round of a percentage.
Percent(part, whole) == IF whole = 0 THEN 0 ELSE (200 * part + whole) \div (2 * whole)

deltaPercent(current, previous) ==
  CASE previous = 0 -> None
    [] previous # 0 /\ current >= previous -> Percent(current - previous, previous)
    [] previous # 0 /\ current < previous  -> -Percent(previous - current, previous)

\* The n keys with the largest amounts.
Largest(amounts, n) ==
  CHOOSE S \in SUBSET DOMAIN amounts :
    /\ Cardinality(S) = Min({n, Cardinality(DOMAIN amounts)})
    /\ \A k \in S, l \in DOMAIN amounts \ S : amounts[k] >= amounts[l]

\* mutant: the rest is what is left after the first one
TopAndRestMutant(amounts) ==
  LET of(k) == amounts[k]
      top == Largest(amounts, TOP)
  IN [top |-> [k \in top |-> amounts[k]], rest |-> Sum(of, DOMAIN amounts \ Largest(amounts, 0))]

TopAndRest(amounts) ==
  LET of(k) == amounts[k]
      top == Largest(amounts, TOP)
  IN [top |-> [k \in top |-> amounts[k]], rest |-> Sum(of, DOMAIN amounts \ top)]

-----------------------------------------------------------------------------
(* Shopping, stock and the calendar.                                       *)

isLow(item) == item.threshold > 0 /\ item.quantity <= item.threshold
lowItems(stock) == {item \in stock : isLow(item)}
checkedOf(list) == {item \in list : item.checked}
sumPrice(items) ==
  LET price(item) == IF item.price = None THEN 0 ELSE item.price IN Sum(price, items)

summarize(list) ==
  [pending |-> Cardinality(list), checked |-> Cardinality(checkedOf(list)),
   checkedTotal |-> sumPrice(checkedOf(list)),
   missingPrice |-> Cardinality({item \in checkedOf(list) : item.price = None})]

totalPending(lists) == Total([list \in lists |-> Cardinality(list)])
queuedInventoryIds(lists) == {item.stock : item \in UNION lists} \ {None}

\* The squares of a month: None before its first day.
monthCells(jy, jm) ==
  LET lead == weekdayIndex(<<jy, jm, 1>>)
  IN [i \in 1..(lead + daysInMonth(jy, jm)) |-> IF i <= lead THEN None ELSE i - lead]

eventCountByDay(events, jy, jm) ==
  LET days == {isoToJalali(e.date) : e \in {x \in events : InMonth(x, jy, jm)}}
  IN [d \in {j[3] : j \in days} |->
        Cardinality({e \in events : isoToJalali(e.date) = <<jy, jm, d>>})]

eventsOnDay(events, j) == {e \in events : isoToJalali(e.date) = j}

upcomingEvents(events, today, days) ==
  {e \in events : LET when == isoToJalali(e.date)
                  IN UpTo(today, when) /\ UpTo(when, addDays(today, days))}

-----------------------------------------------------------------------------
(* The notices behind the bell.                                            *)

Note(domain, severity, date, ref) ==
  [domain |-> domain, severity |-> severity, date |-> date, ref |-> ref]

safeLead(lead) == Min({MAX_LEAD_DAYS, Max({0, lead})})

\* by: [role, lead, off, enabled], the member and what she has set.
\* mutant: what is due today is not due yet
recurringNotesMutant(T, by, today) ==
  {Note("recurring", IF Before(isoToJalali(p.due), today) THEN "overdue" ELSE "soon", p.due, p) :
     p \in IF by.role = "owner"
           THEN pendingDueList(T, addDays(today, safeLead(by.lead))) ELSE {}}

recurringNotes(T, by, today) ==
  {Note("recurring", IF Before(today, isoToJalali(p.due)) THEN "soon" ELSE "overdue", p.due, p) :
     p \in IF by.role = "owner"
           THEN pendingDueList(T, addDays(today, safeLead(by.lead))) ELSE {}}

billNotes(house, by, today) ==
  LET horizon == addDays(today, safeLead(by.lead))
      due(b) == isoToJalali(b.date)
      shown == {b \in house.bills : b.state = "unpaid" /\ UpTo(due(b), horizon)}
  IN {Note("bills", IF Before(due(b), today) THEN "overdue" ELSE "soon", b.date, b.id) :
        b \in shown}

\* An event is dismissed with its date: next year's is another.
eventNotes(house, by, today) ==
  {Note("event", IF isoToJalali(e.date) = today THEN "pending" ELSE "soon", e.date, e.id) :
     e \in {x \in upcomingEvents(house.events, today, safeLead(by.lead)) :
              <<x.id, x.date>> \notin house.dismissed}}

membershipNotes(house, by) ==
  {Note("membership", "pending", None, r.id) :
     r \in {x \in house.requests : by.role = "owner" /\ x.state = "pending"}}

inventoryNotes(house) ==
  {Note("inventory", "pending", None, i.id) :
     i \in {x \in lowItems(house.stock) : x.id \notin queuedInventoryIds(house.lists)}}

deriveNotifications(T, house, by, today) ==
  LET all == recurringNotes(T, by, today) \cup billNotes(house, by, today)
             \cup eventNotes(house, by, today) \cup membershipNotes(house, by)
             \cup inventoryNotes(house)
  IN {n \in all : by.enabled /\ n.domain \notin by.off}

\* What a row of the list is looked up in, and the groups of the rows.
Known(T, house) ==
  [recurring |-> {[tx |-> t.id] : t \in T}, bills |-> {b.id : b \in house.bills},
   event |-> {e.id : e \in house.events}, membership |-> {r.id : r \in house.requests},
   inventory |-> {i.id : i \in house.stock}]

Row(n, T, house) ==
  LET key == IF n.domain = "recurring" THEN [tx |-> n.ref.tx] ELSE n.ref
  IN key \in Known(T, house)[n.domain]

NoticeGroups(notes) ==
  [d \in {n.domain : n \in notes} |-> {n \in notes : n.domain = d}]

-----------------------------------------------------------------------------
(* The hub.                                                                *)

\* The categories of a level: the code names the first of them.
AtLevel(T, budgets, level, jy, jm) ==
  LET spend == monthCategorySpend(T, jy, jm)
      spent(c) == IF c \in DOMAIN spend THEN spend[c] ELSE 0
  IN {c \in DOMAIN budgets : budgetStatus(budgets[c], spent(c)).level = level}

HubStats(T, house, budgets, today) ==
  LET month  == txsInJalaliMonth(T, today[1], today[2])
      unpaid == {b \in house.bills : b.state = "unpaid"}
      owed(b) == b.amount
      ahead  == {e \in house.events : UpTo(today, isoToJalali(e.date))}
      days(e) == DayNumber(e.date) - DayNumber(jalaliToIso(today))
  IN [monthCount |-> Cardinality(month), monthExpense |-> monthTotals(month).expense,
      balance |-> totalBalance(T),
      overBudget |-> AtLevel(T, budgets, "over", today[1], today[2]),
      warnBudget |-> AtLevel(T, budgets, "warn", today[1], today[2]),
      unpaidBills |-> Cardinality(unpaid), unpaidTotal |-> Sum(owed, unpaid),
      nextEventDays |-> IF ahead = {} THEN None ELSE Min({days(e) : e \in ahead}),
      shoppingPending |-> totalPending(house.lists),
      lowStock |-> Cardinality(lowItems(house.stock))]

\* All of them; the page keeps the first three.
Banners(members, accounts, budgets, stats) ==
  LET If(condition, id) == IF condition THEN <<id>> ELSE <<>>
      over == stats.overBudget # {}
  IN If(Cardinality(members) < 2, "invite") \o If(accounts = {}, "account")
     \o If(over, "over") \o If(~over /\ stats.warnBudget # {}, "warn")
     \o If(DOMAIN budgets = {}, "budget")

-----------------------------------------------------------------------------
(* The dashboard, its widgets and the pages of budgets, reports and the list. *)

\* The Gregorian month and day of an event are taken for Jalali ones.
DashboardNotices(T, house, budgets, today) ==
  LET target(e) == LET same == <<today[1], e.date[2], e.date[3]>>
                   IN IF Before(same, today) THEN [same EXCEPT ![1] = @ + 1] ELSE same
  IN [events |-> {e \in house.events : UpTo(target(e), addDays(today, 30))},
      over |-> AtLevel(T, budgets, "over", today[1], today[2]),
      warn |-> AtLevel(T, budgets, "warn", today[1], today[2])]

HomeSummary(T, budgets, today) ==
  LET before == prevMonth(today[1], today[2])
      soFar  == monthTotals(txsInJalaliMonthUpToDay(T, today[1], today[2], today[3]))
      prev   == monthTotals(txsInJalaliMonthUpToDay(T, before[1], before[2], today[3]))
  IN [balance |-> totalBalance(T),
      totals |-> monthTotals(txsInJalaliMonth(T, today[1], today[2])),
      dIncome |-> deltaPercent(soFar.income, prev.income),
      dExpense |-> deltaPercent(soFar.expense, prev.expense),
      cap |-> spendCapacity(budgets, monthCategorySpend(T, today[1], today[2]),
                            daysLeftInMonth(today))]

MonthExpenses(T, jy, jm) ==
  LET month == txsInJalaliMonth(T, jy, jm)
  IN [slices |-> TopAndRest(categoryBreakdown(month)), total |-> monthTotals(month).expense]

\* Nothing is shown of fewer than two members.
MemberSpend(T, jy, jm) ==
  LET share == memberExpenseShare(txsInJalaliMonth(T, jy, jm))
  IN IF Cardinality(DOMAIN share) < 2 THEN None ELSE TopAndRest(share)

BudgetCircles(T, budgets, jy, jm) ==
  LET spend == monthCategorySpend(T, jy, jm)
      spent(c) == IF c \in DOMAIN spend THEN spend[c] ELSE 0
  IN [c \in DOMAIN budgets |->
        [spent |-> spent(c), cap |-> budgets[c],
         level |-> budgetStatus(budgets[c], spent(c)).level]]

WeeklyFlow(T, today) ==
  LET flow == weekFlow(T, today)
      in  == Total([i \in 1..7 |-> flow[i].income])
      out == Total([i \in 1..7 |-> flow[i].expense])
  IN [totalIn |-> in, totalOut |-> out, net |-> in - out]

\* A transaction made later has the larger id.
recentTransactions(T, n) ==
  LET later(t, u) == Before(u.date, t.date) \/ (u.date = t.date /\ u.id < t.id)
  IN {t \in T : Cardinality({u \in T : later(u, t)}) < n}

RecentTx(T) == recentTransactions(T, 3)

\* The totals of the budgets page count what is spent in any category.
BudgetTotals(T, budgets, cap, jy, jm) ==
  LET sum   == Total(budgets)
      spent == Total(monthCategorySpend(T, jy, jm))
  IN [budgetSum |-> sum, spentSum |-> spent, remaining |-> sum - spent,
      overCap |-> cap > 0 /\ sum > cap]

\* The report of the month it has been turned to, with a percentage for each part.
MonthlyReport(T, jy, jm) ==
  LET month == txsInJalaliMonth(T, jy, jm)
      total == monthTotals(month).expense
      Shares(f) == [k \in DOMAIN f |-> [value |-> f[k], pct |-> Percent(f[k], total)]]
  IN [daily |-> dailyExpenses(month), series |-> sixMonthSeries(T, jy, jm),
      cats |-> Shares(categoryBreakdown(month)), shares |-> Shares(memberExpenseShare(month)),
      total |-> total]

\* The chart of the accounts page; a stretch that ends before it begins is empty.
WealthChart(T, range, from, to, today, initial) ==
  CASE range = "custom" -> IF UpTo(from, to) THEN wealthSeriesBetween(T, from, to, 3650, initial)
                           ELSE <<>>
    [] range = "7d" -> wealthSeries(T, 7, today, initial)
    [] range = "1m" -> wealthSeries(T, 30, today, initial)
    [] range = "1y" -> wealthSeries(T, 365, today, initial)

NoFilter == [type |-> "all", range |-> "all", account |-> None, category |-> None]

\* The list page: its groups, and the chip that says a filter is on.
TransactionList(T, filter, today) ==
  [groups |-> Groups(Listed(T, filter, today)),
   chip |-> [filter EXCEPT !.type = "all"] # NoFilter]
=============================================================================
