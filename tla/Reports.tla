-------------------------------- MODULE Reports ------------------------------
(***************************************************************************)
(* What the app computes from the transactions it holds: the occurrences   *)
(* of recurring ones that are due (recurring.rules.ts), the list and its   *)
(* filters, the reports (report.rules.ts) and the state of the budgets     *)
(* (budget.rules.ts).  Transactions are a set of records with an id:       *)
(* their order in a list, labels and rounding of percentages are left out. *)
(***************************************************************************)
EXTENDS Jalali, Sequences, FiniteSets

CONSTANTS
  MaxOccurrences,  \* most occurrences of one recurring transaction that are looked at
  None             \* no account, no end of repeating, no day

Sum(amount(_), S) == MapThenSumSet(amount, S)
Total(f) == LET at(k) == f[k] IN Sum(at, DOMAIN f)
Amounts(T) == LET amount(t) == t.amount IN Sum(amount, T)
OfType(T, type) == {t \in T : t.type = type}

-----------------------------------------------------------------------------
(* Transactions and months.                                                *)

\* validateTransaction, without the checks of single fields.
Valid(t) ==
  /\ t.amount > 0
  /\ t.type = "transfer" => None \notin {t.account, t.to} /\ t.account # t.to
  /\ t.repeat # "none" => t.until # None /\ UpTo(t.date, t.until)

InMonth(t, jy, jm) == LET j == isoToJalali(t.date) IN j[1] = jy /\ j[2] = jm

txsInJalaliMonth(T, jy, jm) == {t \in T : InMonth(t, jy, jm)}

txsInJalaliMonthUpToDay(T, jy, jm, day) ==
  {t \in T : InMonth(t, jy, jm) /\ isoToJalali(t.date)[3] <= day}

-----------------------------------------------------------------------------
(* Recurring transactions.                                                 *)

\* mutant: the day is fitted into the month of the start
stepJalaliMutant(j, repeat, n) ==
  LET clamped(jy, jm) == <<jy, jm, Min({j[3], daysInMonth(j[1], j[2])})>>
      index == j[1] * 12 + j[2] - 1 + n
  IN CASE n <= 0 \/ repeat = "none" -> j
       [] n > 0 /\ repeat = "weekly"  -> addDays(j, 7 * n)
       [] n > 0 /\ repeat = "monthly" -> clamped(index \div 12, (index % 12) + 1)
       [] n > 0 /\ repeat = "yearly"  -> clamped(j[1] + n, j[2])

stepJalali(j, repeat, n) ==
  LET clamped(jy, jm) == <<jy, jm, Min({j[3], daysInMonth(jy, jm)})>>
      index == j[1] * 12 + j[2] - 1 + n
  IN CASE n <= 0 \/ repeat = "none" -> j
       [] n > 0 /\ repeat = "weekly"  -> addDays(j, 7 * n)
       [] n > 0 /\ repeat = "monthly" -> clamped(index \div 12, (index % 12) + 1)
       [] n > 0 /\ repeat = "yearly"  -> clamped(j[1] + n, j[2])

\* Steps are counted from the start up to the first one past the limit: today, or
\* the end of repeating.
dueOccurrences(start, repeat, until, today) ==
  LET end   == IF until = None THEN today ELSE isoToJalali(until)
      limit == IF Before(end, today) THEN end ELSE today
      from  == isoToJalali(start)
      steps == [n \in 1..MaxOccurrences |-> stepJalali(from, repeat, n)]
      past  == {n \in 1..MaxOccurrences : Before(limit, steps[n])}
      last  == IF past = {} THEN MaxOccurrences ELSE Min(past) - 1
  IN IF repeat = "none" THEN <<>> ELSE [n \in 1..last |-> jalaliToIso(steps[n])]

\* The set of what pendingDueList sorts by date and id.
pendingDueList(T, horizon) ==
  UNION {LET due == dueOccurrences(t.date, t.repeat, t.until, horizon)
         IN {[tx |-> t.id, due |-> due[n]] :
               n \in {m \in DOMAIN due : due[m] \notin t.handled}} : t \in T}

-----------------------------------------------------------------------------
(* Reports.                                                                *)

totalBalance(T) == Amounts(OfType(T, "income")) - Amounts(OfType(T, "expense"))

monthTotals(T) ==
  [income |-> Amounts(OfType(T, "income")), expense |-> Amounts(OfType(T, "expense"))]

\* One amount for each key an expense has.
Breakdown(T, key(_)) ==
  LET spent == OfType(T, "expense")
  IN [k \in {key(t) : t \in spent} |-> Amounts({t \in spent : key(t) = k})]

categoryBreakdown(T) == LET category(t) == t.category IN Breakdown(T, category)
dailyExpenses(T)     == LET day(t) == isoToJalali(t.date)[3] IN Breakdown(T, day)
memberExpenseShare(T) == LET member(t) == t.member IN Breakdown(T, member)

MonthsBack(jy, jm) ==
  LET back[n \in 0..5] ==
        IF n = 0 THEN <<jy, jm>> ELSE prevMonth(back[n - 1][1], back[n - 1][2])
  IN back

sixMonthSeries(T, jy, jm) ==
  LET m == MonthsBack(jy, jm)
  IN [i \in 1..6 |-> monthTotals(txsInJalaliMonth(T, m[6 - i][1], m[6 - i][2]))]

\* Every type but income counts as an expense here.
weekFlow(T, end) ==
  [i \in 1..7 |->
     LET iso == jalaliToIso(addDays(end, i - 7))
         day == {t \in T : t.date = iso}
     IN [income |-> Amounts(OfType(day, "income")),
         expense |-> Amounts(day \ OfType(day, "income"))]]

\* mutant: the account a transfer goes to is forgotten
accountBalancesMutant(T, initial) ==
  [a \in DOMAIN initial |->
     initial[a]
     + Amounts({t \in T : t.account = a /\ t.type = "income"})
     - Amounts({t \in T : t.account = a /\ t.type \in {"expense", "transfer"}})]

accountBalances(T, initial) ==
  [a \in DOMAIN initial |->
     initial[a]
     + Amounts({t \in T : t.account = a /\ t.type = "income"})
     - Amounts({t \in T : t.account = a /\ t.type \in {"expense", "transfer"}})
     + Amounts({t \in T : t.to = a /\ t.type = "transfer"})]

\* wealthSeriesDays: the running sum at the end of each of `days` days.
wealthSeries(T, days, end, initial) ==
  [i \in 1..days |->
     LET day == jalaliToIso(addDays(end, i - days))
     IN initial + totalBalance({t \in T : UpTo(t.date, day)})]

\* The days of a chosen stretch are counted one by one.
DaysBetween(from, to, most) ==
  Min({most} \cup {n \in 1..most : ~Before(addDays(from, n - 1), to)})

wealthSeriesBetween(T, from, to, most, initial) ==
  wealthSeries(T, DaysBetween(from, to, most), to, initial)

-----------------------------------------------------------------------------
(* Budgets.                                                                *)

budgetStatus(budget, spent) ==
  IF budget <= 0 THEN [active |-> FALSE, level |-> "ok"]
  ELSE [active |-> TRUE,
        level |-> CASE spent > budget -> "over"
                    [] spent <= budget /\ spent * 100 > budget * 80 -> "warn"
                    [] spent <= budget /\ spent * 100 <= budget * 80 -> "ok"]

monthCategorySpend(T, jy, jm) == categoryBreakdown(txsInJalaliMonth(T, jy, jm))

spendCapacity(budgets, spend, daysLeft) ==
  LET active == {c \in DOMAIN budgets : budgets[c] > 0}
      cap   == Total([c \in active |-> budgets[c]])
      spent == Total([c \in active \cap DOMAIN spend |-> spend[c]])
      days  == Max({1, daysLeft})
  IN [cap |-> cap, spent |-> spent, remaining |-> cap - spent,
      level |-> budgetStatus(cap, spent).level,
      perDay |-> IF cap > spent THEN (cap - spent) \div days ELSE 0]

-----------------------------------------------------------------------------
(* The list: filters and the groups by day.                                *)

\* filter: [type, range, account, category]; "all" and None let everything through.
Listed(T, filter, today) ==
  {t \in T :
     /\ filter.type \in {"all", t.type}
     /\ filter.account = None \/ filter.account \in {t.account, t.to}
     /\ filter.category = None \/ t.category = filter.category
     /\ LET j == isoToJalali(t.date)
            back == (today[1] - j[1]) * 12 + today[2] - j[2]
        IN CASE filter.range = "all"   -> TRUE
             [] filter.range = "month" -> back = 0
             [] filter.range = "3m"    -> back \in 0..2}

Groups(L) ==
  [d \in {t.date : t \in L} |-> monthTotals({t \in L : t.date = d})]
=============================================================================
