------------------------------- MODULE Entries -------------------------------
(***************************************************************************)
(* Entering transactions on the page of a manager: the form (useTxFormModel *)
(* and TransactionFormFeature), the question whether a recurring one was   *)
(* paid (DueRecurringWidget) and the bank messages waiting for an answer   *)
(* (usePendingSmsModel), with the server they write to.                    *)
(*                                                                         *)
(* A tap starts a chain of calls, each made when the last is answered; what *)
(* the chain writes was read at the tap.  Taps come in between.  A draft   *)
(* stands for the fields of a form.  Dates, occurrences that are due and   *)
(* the reports shown of the transactions are in Reports, what the pages    *)
(* show of them in Home.                                                   *)
(***************************************************************************)
EXTENDS Home

CONSTANTS
  First,     \* transactions at first
  Drafts,    \* transactions, without id, a user may enter
  Messages,  \* bank messages, in the order of the list (a sequence)
  Initial,   \* accounts, with the balance each began with
  Budgets,   \* categories, with the budget of each
  Today,     \* a Jalali date
  House,     \* the bills, events, stock, lists and requests, which stay as they are
  MaxShown,  \* questions shown at a time: 6 in the code
  MaxTaps,   \* bound: chains started by taps
  MaxOpen    \* bound: openings of the form

ASSUME NoneAssumption == None \notin {"ok", "error", "pending", "recorded", "ignored"}

\* Transactions are numbered in the order they were made, and none of the first
\* has been handled; what the user enters is neither.
ASSUME FirstAssumption ==
  /\ IsFiniteSet(First) /\ {t.id : t \in First} = 1..Cardinality(First)
  /\ \A t \in First : {"id", "handled"} \subseteq DOMAIN t /\ t.handled = {}

ASSUME DraftsAssumption == \A d \in Drafts : {"id", "handled"} \cap DOMAIN d = {}

\* Amounts are counted in the smallest unit (the server keeps two decimals), accounts are
\* there; the transactions there are at first were let through by the checks of the form.
ASSUME MoneyAssumption ==
  /\ IsFiniteSet(DOMAIN Initial) /\ Initial \in [DOMAIN Initial -> Int]
  /\ \A t \in First \cup Drafts :
       /\ {"type", "amount", "account", "to"} \subseteq DOMAIN t
       /\ t.type \in {"income", "expense", "transfer"} /\ t.amount \in Int
       /\ {t.account, t.to} \subseteq DOMAIN Initial \cup {None}
  /\ \A t \in First : Valid(t)

ASSUME TopAssumption == TOP \in Nat

\* A date the app works with, and the one it keeps for it.
Dates == {j \in Int \X (1..12) \X (1..31) : j[1] > 979 /\ IsDate(j)}
IsKept(g) == isoToJalali(g) \in Dates /\ jalaliToIso(isoToJalali(g)) = g

\* A transaction has a date, and what repeats may have an end.  Reports go back 30 days
\* from today.
ASSUME DatesAssumption ==
  /\ MaxOccurrences \in Nat \ {0} /\ Today \in Dates /\ Today[1] > 980
  /\ \A t \in First \cup Drafts :
       /\ {"date", "repeat", "until"} \subseteq DOMAIN t
       /\ t.repeat \in {"none", "weekly", "monthly", "yearly"}
       /\ IsKept(t.date) /\ (t.until # None => IsKept(t.until))

ASSUME BudgetsAssumption ==
  IsFiniteSet(DOMAIN Budgets) /\ Budgets \in [DOMAIN Budgets -> Int]

\* What else the family has is finite; bills and events have their dates.
ASSUME HouseAssumption ==
  /\ \A S \in {House.bills, House.events, House.stock, House.requests} : IsFiniteSet(S)
  /\ \A x \in House.bills \cup House.events : IsKept(x.date)

VARIABLES
  calm,         \* fixed: no call fails; labels and photos are not entered
  ledger,       \* server: the transactions, each with its handled dates
  status,       \* server: what became of a message, None before it arrives
  seen,         \* transactions the page has
  form, saving, skipping, box,
  calls,        \* chains under way
  origin,       \* history: for each id made, where it came from
  skipped,      \* history: occurrences the user said No to
  taps, openings

server == <<ledger, status, origin, skipped>>
screen == <<form, saving, skipping, box>>
vars == <<calm, server, seen, screen, calls, taps, openings>>

-----------------------------------------------------------------------------
Ids(T) == {t.id : t \in T}
Occurrence == [tx: Nat, due: Nat \X Nat \X Nat]
Origin(opening, due, message) == [opening |-> opening, due |-> due, message |-> message]

NewForm(opening, editing, due) ==
  [open |-> TRUE, opening |-> opening, editing |-> editing, due |-> due]

Closed == [open |-> FALSE, list |-> <<>>, index |-> 1]

\* stage: the call that is out; answer: None while it is.
Call(op, stage) ==
  [op |-> op, number |-> taps + 1, stage |-> stage, answer |-> None, from |-> NewForm(0, 0, None),
   draft |-> None, photo |-> FALSE, id |-> 0, message |-> None, list |-> <<>>, index |-> 1]

Init ==
  /\ calm \in BOOLEAN
  /\ ledger = First /\ seen = First
  /\ status = [m \in {Messages[i] : i \in DOMAIN Messages} |-> None]
  /\ form = [NewForm(0, 0, None) EXCEPT !.open = FALSE]
  /\ saving = FALSE /\ skipping = None /\ box = Closed
  /\ taps = 0 /\ openings = 0 /\ calls = {}
  /\ origin = [i \in Ids(First) |-> Origin(0, None, None)]
  /\ skipped = {}

CanTap == taps < MaxTaps

Tap(c) == CanTap /\ taps' = taps + 1 /\ calls' = calls \cup {c}

-----------------------------------------------------------------------------
(* The form.                                                               *)

\* A sheet covers the page, and the card of a message covers a sheet.
OnPage  == ~form.open /\ ~box.open
OnSheet == form.open /\ ~box.open

CanOpen == OnPage /\ openings < MaxOpen

OpenForm(editing, due) ==
  /\ CanOpen /\ openings' = openings + 1
  /\ form' = NewForm(openings + 1, editing, due)
  /\ UNCHANGED <<calm, server, seen, saving, skipping, box, calls, taps>>

openNew == OpenForm(0, None)

openEdit == \E t \in seen : OpenForm(t.id, None)

\* The questions on the home page, oldest first; the buttons of the one being skipped
\* are closed.
Asked ==
  LET due == pendingDueList(seen, Today)
  IN {d \in due : Cardinality({e \in due : Before(e.due, d.due)
                                          \/ (e.due = d.due /\ e.tx < d.tx)}) < MaxShown}

Answerable == Asked \ {skipping}

openForOccurrence == CanOpen /\ \E d \in Answerable : OpenForm(0, d)

close ==
  /\ OnSheet /\ form' = [form EXCEPT !.open = FALSE]
  /\ UNCHANGED <<calm, server, seen, saving, skipping, box, calls, taps, openings>>

\* The header of the sheet; its fields, which leave no account to move money to but
\* another one; labels, which a transfer has not; photos.
CanSave   == OnSheet /\ ~saving
CanRemove == OnSheet /\ form.editing # 0
Fields    == {d \in Drafts : Valid(d)}
Labels(d) == IF calm \/ d.type = "transfer" THEN {FALSE} ELSE BOOLEAN
Photos    == IF calm THEN {FALSE} ELSE BOOLEAN

\* What save lets through: an account is named unless an occurrence is paid, which is
\* written as a transaction that does not repeat.
Entered ==
  {d \in Fields : /\ d.account # None \/ form.due # None
                  /\ form.due # None => d.repeat = "none"}

\* mutant: a form that is busy saves again
saveMutant ==
  /\ OnSheet
  /\ \E d \in Entered, photo \in Photos : \E label \in Labels(d) :
       /\ saving' = ~label
       /\ Tap([Call("save", IF label THEN "label" ELSE "write") EXCEPT
                 !.from = form, !.draft = d, !.photo = photo, !.id = form.editing])
  /\ UNCHANGED <<calm, server, seen, form, skipping, box, openings>>

\* The label of a transaction is made before the form is busy.
save ==
  /\ CanSave
  /\ \E d \in Entered, photo \in Photos : \E label \in Labels(d) :
       /\ saving' = ~label
       /\ Tap([Call("save", IF label THEN "label" ELSE "write") EXCEPT
                 !.from = form, !.draft = d, !.photo = photo, !.id = form.editing])
  /\ UNCHANGED <<calm, server, seen, form, skipping, box, openings>>

remove ==
  /\ CanRemove
  /\ Tap([Call("remove", "remove") EXCEPT !.id = form.editing])
  /\ UNCHANGED <<calm, server, seen, screen, openings>>

-----------------------------------------------------------------------------
(* No, to an occurrence.                                                   *)

skip ==
  /\ OnPage /\ skipping = None /\ CanTap
  /\ \E d \in Asked : /\ skipping' = d
                      /\ Tap([Call("skip", "mark") EXCEPT !.from = NewForm(0, 0, d)])
  /\ UNCHANGED <<calm, server, seen, form, saving, box, openings>>

-----------------------------------------------------------------------------
(* Bank messages, one after another.  Nothing is closed while a call is out. *)

\* The card of a message, with its buttons.
OnCard == box.open /\ box.index \in DOMAIN box.list

record ==
  /\ OnCard
  /\ \E d \in {e \in Fields : e.type # "transfer" /\ e.repeat = "none" /\ e.account # None} :
     \E label \in Labels(d) :
       /\ Tap([Call("record", IF label THEN "label" ELSE "write") EXCEPT
                 !.message = box.list[box.index], !.draft = d,
                 !.list = box.list, !.index = box.index])
  /\ UNCHANGED <<calm, server, seen, screen, openings>>

ignore ==
  /\ OnCard
  /\ Tap([Call("ignore", "status") EXCEPT !.message = box.list[box.index],
                                          !.list = box.list, !.index = box.index])
  /\ UNCHANGED <<calm, server, seen, screen, openings>>

later ==
  /\ box.open /\ box' = [box EXCEPT !.open = FALSE]
  /\ UNCHANGED <<calm, server, seen, form, saving, skipping, calls, taps, openings>>

\* Messages come in by import or by the reader on the phone, which both refresh.
Arrive ==
  /\ \E new \in SUBSET {m \in DOMAIN status : status[m] = None} \ {{}} :
       status' = [m \in DOMAIN status |-> IF m \in new THEN "pending" ELSE status[m]]
  /\ Tap(Call("bump", "refresh"))
  /\ UNCHANGED <<calm, ledger, origin, skipped, seen, screen, openings>>

-----------------------------------------------------------------------------
(* The server.                                                             *)

Made(c, due) ==
  LET id == 1 + Cardinality(DOMAIN origin)
      tx == [f \in DOMAIN c.draft \cup {"id", "handled"} |->
               IF f = "id" THEN id ELSE IF f = "handled" THEN {} ELSE c.draft[f]]
  IN /\ ledger' = ledger \cup {tx}
     /\ origin' = [i \in DOMAIN origin \cup {id} |->
                     IF i = id THEN Origin(c.from.opening, due, c.message) ELSE origin[i]]
     /\ calls' = (calls \ {c}) \cup {[c EXCEPT !.answer = "ok", !.id = id]}
     /\ UNCHANGED <<status, skipped>>

Changed(c, T) ==
  /\ ledger' = T
  /\ calls' = (calls \ {c}) \cup {[c EXCEPT !.answer = "ok"]}
  /\ UNCHANGED <<status, origin>>

\* Labels and photos have rows of their own, and what a refresh reads is what is there
\* when it is answered: the server's part of these calls is not a step of its own.
Plain == {"label", "photo", "refresh"}
Answered(c) == c.answer = IF c.stage \in Plain THEN None ELSE "ok"

\* create, update, delete, mark_occurrence, set_sms_status and the list of the messages.
Serve(c) ==
  /\ c.answer = None /\ c.stage \notin Plain
  /\ CASE c.stage = "write" /\ c.id = 0 -> Made(c, c.from.due)
       [] c.stage = "write" /\ c.id \in Ids(ledger) ->
            /\ Changed(c, {IF t.id # c.id THEN t
                           ELSE [f \in DOMAIN t |-> IF f \in DOMAIN c.draft THEN c.draft[f]
                                                    ELSE t[f]] : t \in ledger})
            /\ UNCHANGED skipped
       [] c.stage = "remove" /\ c.id \in Ids(ledger) ->
            Changed(c, {t \in ledger : t.id # c.id}) /\ UNCHANGED skipped
       [] c.stage = "mark" /\ (\E t \in ledger : t.id = c.from.due.tx /\ t.repeat # "none") ->
            /\ Changed(c, {IF t.id # c.from.due.tx THEN t
                           ELSE [t EXCEPT !.handled = @ \cup {c.from.due.due}] : t \in ledger})
            /\ skipped' = IF c.op = "skip" THEN skipped \cup {c.from.due} ELSE skipped
       [] c.stage = "status" ->
            /\ status' = [status EXCEPT ![c.message] = IF c.op = "record" THEN "recorded"
                                                       ELSE "ignored"]
            /\ calls' = (calls \ {c}) \cup {[c EXCEPT !.answer = "ok"]}
            /\ UNCHANGED <<ledger, origin, skipped>>
       [] c.stage = "list" ->
            /\ calls' = (calls \ {c}) \cup
                 {[c EXCEPT !.answer = "ok",
                            !.list = SelectSeq(Messages, LAMBDA m : status[m] = "pending")]}
            /\ UNCHANGED server
       [] OTHER ->
            /\ calls' = (calls \ {c}) \cup {[c EXCEPT !.answer = "error"]}
            /\ UNCHANGED server
  /\ UNCHANGED <<calm, seen, screen, taps, openings>>

\* The call does not arrive, or its answer is lost after the server has done it.
Lose(c) ==
  /\ ~calm /\ c.answer \in {None, "ok"}
  /\ calls' = (calls \ {c}) \cup {[c EXCEPT !.answer = "error"]}
  /\ UNCHANGED <<calm, server, seen, screen, taps, openings>>

-----------------------------------------------------------------------------
(* Answers.                                                                *)

Goes(c, stage) == calls' = (calls \ {c}) \cup {[c EXCEPT !.stage = stage, !.answer = None]}
Ends(c) == calls' = calls \ {c}

\* save, after each of its calls: the label, the transaction, the occurrence (whose
\* failure is not looked at), the photos, and then the sheet closes and data is read.
SaveGoesOn(c) ==
  LET last == c.stage = "photo" \/ ~c.photo
      marks == c.from.due # None /\ c.stage = "write"
      stage == CASE c.stage = "label"                      -> "write"
                 [] c.stage # "label" /\ marks             -> "mark"
                 [] c.stage # "label" /\ ~marks /\ ~last   -> "photo"
                 [] c.stage # "label" /\ ~marks /\ last    -> "refresh"
  IN /\ c.op = "save" /\ c.stage # "refresh"
     /\ Answered(c) \/ (c.answer = "error" /\ c.stage = "mark")
     /\ Goes(c, stage)
     /\ saving' = TRUE
     /\ form' = IF stage = "refresh" THEN [form EXCEPT !.open = FALSE] ELSE form
     /\ UNCHANGED <<calm, server, seen, skipping, box, taps, openings>>

RemoveGoesOn(c) ==
  /\ c.op = "remove" /\ c.stage = "remove" /\ Answered(c)
  /\ Goes(c, "refresh")
  /\ form' = [form EXCEPT !.open = FALSE]
  /\ UNCHANGED <<calm, server, seen, saving, skipping, box, taps, openings>>

SkipGoesOn(c) ==
  /\ c.op = "skip" /\ c.stage = "mark" /\ Answered(c) /\ Goes(c, "refresh")
  /\ UNCHANGED <<calm, server, seen, screen, taps, openings>>

\* The next message of the list the tap read, or the end of it.
Advance(c) ==
  box' = IF c.index + 1 > Len(c.list) THEN [box EXCEPT !.open = FALSE]
         ELSE [box EXCEPT !.index = c.index + 1]

\* mutant: the message is marked before the transaction is written
RecordGoesOnMutant(c) ==
  /\ c.op = "record" /\ Answered(c)
  /\ \/ c.stage = "label" /\ Goes(c, "status") /\ UNCHANGED box
     \/ c.stage = "status" /\ Goes(c, "write") /\ UNCHANGED box
     \/ c.stage = "write" /\ Goes(c, "refresh") /\ Advance(c)
  /\ UNCHANGED <<calm, server, seen, form, saving, skipping, taps, openings>>

\* RecordSmsUseCase: the transaction, then the status of the message.
RecordGoesOn(c) ==
  /\ c.op = "record" /\ Answered(c)
  /\ \/ c.stage = "label" /\ Goes(c, "write") /\ UNCHANGED box
     \/ c.stage = "write" /\ Goes(c, "status") /\ UNCHANGED box
     \/ c.stage = "status" /\ Goes(c, "refresh") /\ Advance(c)
  /\ UNCHANGED <<calm, server, seen, form, saving, skipping, taps, openings>>

IgnoreEnds(c) ==
  /\ c.op = "ignore" /\ Answered(c) /\ Ends(c) /\ Advance(c)
  /\ UNCHANGED <<calm, server, seen, form, saving, skipping, taps, openings>>

\* load: an empty list opens nothing.
LoadEnds(c) ==
  /\ c.op = "load" /\ Answered(c) /\ Ends(c)
  /\ box' = IF c.list = <<>> THEN box ELSE [open |-> TRUE, list |-> c.list, index |-> 1]
  /\ UNCHANGED <<calm, server, seen, form, saving, skipping, taps, openings>>

\* refreshData is the end of every chain but two; what it reads is what is there when
\* it is answered.  A bump lets the messages be listed again, if none are on the screen.
Refreshed(c) ==
  /\ c.stage = "refresh" /\ Answered(c)
  /\ seen' = ledger
  /\ calls' = (calls \ {c}) \cup
       IF c.op = "bump" /\ ~box.open
       THEN {[Call("load", "list") EXCEPT !.number = c.number]} ELSE {}
  /\ saving' = (saving /\ c.op # "save")
  /\ skipping' = IF c.op = "skip" THEN None ELSE skipping
  /\ UNCHANGED <<calm, server, form, box, taps, openings>>

\* catch and finally.
Failed(c) ==
  /\ c.answer = "error" /\ ~(c.op = "save" /\ c.stage = "mark")
  /\ Ends(c)
  /\ saving' = (saving /\ ~(c.op = "save" /\ c.stage # "label"))
  /\ skipping' = IF c.op = "skip" THEN None ELSE skipping
  /\ UNCHANGED <<calm, server, seen, form, box, taps, openings>>

-----------------------------------------------------------------------------
Next ==
  \/ openNew \/ openEdit \/ openForOccurrence \/ close \/ save \/ remove
  \/ skip \/ record \/ ignore \/ later \/ Arrive
  \/ \E c \in calls :
       \/ Serve(c) \/ Lose(c)
       \/ SaveGoesOn(c) \/ RemoveGoesOn(c) \/ SkipGoesOn(c) \/ RecordGoesOn(c)
       \/ IgnoreEnds(c) \/ LoadEnds(c) \/ Refreshed(c) \/ Failed(c)

Spec == Init /\ [][Next]_vars

-----------------------------------------------------------------------------
(* Properties.                                                             *)

\* A date is marked as handled, and a message as recorded, only after the transaction
\* it stands for was written, or the user has said No: an expense never goes missing
\* because its question went away first.
HandledHasEntry ==
  /\ \A t \in ledger : \A day \in t.handled :
       LET due == [tx |-> t.id, due |-> day]
       IN due \in skipped \/ \E i \in DOMAIN origin : origin[i].due = due
  /\ \A m \in DOMAIN status : status[m] = "recorded" =>
       \E i \in DOMAIN origin : origin[i].message = m

\* Where no call fails and no label is made first, an opening of the form writes at
\* most one transaction, however often the user taps.
OneEntryPerSave ==
  calm => \A i, j \in DOMAIN origin \ Ids(First) :
            i # j /\ origin[i].opening = origin[j].opening => origin[i].opening = 0

\* Nothing is under way, nothing is open, and the page has what the server has.  No ledger
\* is lost by the last two: failures only add to them, and a form may be opened for nothing.
AtRest ==
  calls = {} /\ ~form.open /\ ~box.open /\ seen = ledger /\ ~calm /\ openings = MaxOpen

\* A date on the day of the start, or on the last day of a month too short for it.
FallsOn(j, start, repeat) ==
  LET last == j[3] = daysInMonth(j[1], j[2])
      sameDay == j[3] = start[3] \/ (last /\ start[3] > j[3])
  IN CASE repeat = "none"    -> FALSE
       [] repeat = "weekly"  -> weekdayIndex(j) = weekdayIndex(start)
       [] repeat = "monthly" -> sameDay
       [] repeat = "yearly"  -> sameDay /\ j[2] = start[2]

\* How a transaction repeats, and the days after its start, up to today and to its end, on
\* which it falls.
Repeating(t) == [date |-> t.date, repeat |-> t.repeat, until |-> t.until]

Falls ==
  [r \in {Repeating(t) : t \in First \cup Drafts} |->
     LET today == DayNumber(jalaliToIso(Today))
         after == {CivilDate(n) : n \in (DayNumber(r.date) + 1)..today}
     IN {d \in after : /\ r.until # None => UpTo(d, r.until)
                       /\ FallsOn(isoToJalali(d), isoToJalali(r.date), r.repeat)}]

DueDays(t) ==
  LET due  == dueOccurrences(t.date, t.repeat, t.until, Today)
      days == Falls[Repeating(t)]
  IN /\ \A m, n \in DOMAIN due : m < n => Before(due[m], due[n])
     /\ \A n \in DOMAIN due : due[n] \in days
     /\ \A d \in days : \/ \E n \in DOMAIN due : due[n] = d
                        \/ Len(due) = MaxOccurrences /\ Before(due[MaxOccurrences], d)

Lead == 3

BellAgrees(T) ==
  LET notes(role, lead) ==
        deriveNotifications(T, House, [role |-> role, lead |-> lead, off |-> {}, enabled |-> TRUE],
                            Today)
      notices == notes("owner", Lead)
      Of(severity) == {n \in notices : n.domain = "recurring" /\ n.severity = severity}
      unpaid == {b \in House.bills : b.state = "unpaid"}
  IN /\ {n.ref : n \in Of("overdue")} = pendingDueList(T, Today)
     /\ \A n \in Of("soon") : \E day \in 1..Lead : n.date = jalaliToIso(addDays(Today, day))
     /\ notes("owner", -1) = notes("owner", 0) /\ notes("owner", 0) \subseteq notices
     /\ {b.id : b \in {x \in unpaid : Before(isoToJalali(x.date), Today)}}
          \subseteq {n.ref : n \in {m \in notes("member", 0) : m.severity = "overdue"}}
     /\ \A n \in notices : Row(n, T, House)
     /\ notes("member", Lead) = {n \in notices : n.domain \notin {"recurring", "membership"}}
     /\ LET groups == NoticeGroups(notices)
        IN Total([d \in DOMAIN groups |-> Cardinality(groups[d])]) = Cardinality(notices)

CalendarAgrees(jy, jm) ==
  LET cells == monthCells(jy, jm)
      counts == eventCountByDay(House.events, jy, jm)
      month == {e \in House.events : InMonth(e, jy, jm)}
  IN /\ \A i \in DOMAIN cells :
          cells[i] # None => (i - 1) % 7 = weekdayIndex(<<jy, jm, cells[i]>>)
     /\ cells[Len(cells)] = daysInMonth(jy, jm)
     /\ \A d \in DOMAIN counts :
          counts[d] = Cardinality(eventsOnDay(House.events, <<jy, jm, d>>))
     /\ Total(counts) = Cardinality(month)
     /\ upcomingEvents(House.events, Today, 30)
          = UNION {eventsOnDay(House.events, addDays(Today, n)) : n \in 0..30}

\* The occurrences of a recurring transaction that are due are, in ascending order,
\* exactly the days after its start, up to today and to its end, that fall on its day
\* of the week, of the month or of the year, where a month too short has its last day
\* instead, but for those past the last one looked at; after a short month the day comes
\* back.  What is due and not handled is what the bell calls overdue, a longer lead only
\* adds to what the bell shows, and the days of the calendar stand under their weekdays.
\* (Of the transactions the page has at rest.)
DueIsSound ==
  AtRest => (\A t \in seen : DueDays(t)) /\ BellAgrees(seen) /\ CalendarAgrees(Today[1], Today[2])

\* The parts make the whole, and so do those a widget names and the rest.
MakeUp(parts, whole) ==
  LET slices == TopAndRest(parts)
  IN Total(parts) = whole /\ Total(slices.top) + slices.rest = whole

\* What is spent in transactions is what is spent of it by category, by day of the month,
\* by member and by date.
PartsMakeTheWhole(T) ==
  LET spent == monthTotals(T).expense
      days  == Groups(T)
  IN /\ MakeUp(categoryBreakdown(T), spent)
     /\ MakeUp(dailyExpenses(T), spent)
     /\ MakeUp(memberExpenseShare(T), spent)
     /\ MakeUp([d \in DOMAIN days |-> days[d].expense], spent)

\* What the accounts hold is what they began with, what came in and what went out: what is
\* moved between accounts is neither.
AccountsHoldIt(T) ==
  (\A t \in T : t.account # None) =>
     Total(accountBalances(T, Initial)) = Total(Initial) + totalBalance(T)

PagesAgree(T, wealth) ==
  LET jy == Today[1]
      jm == Today[2]
      stats == HubStats(T, House, Budgets, Today)
      home == HomeSummary(T, Budgets, Today)
      board == DashboardNotices(T, House, Budgets, Today)
      month == MonthExpenses(T, jy, jm)
      members == MemberSpend(T, jy, jm)
      circles == BudgetCircles(T, Budgets, jy, jm)
      totals == BudgetTotals(T, Budgets, Total(Budgets), jy, jm)
      cats == MonthlyReport(T, jy, jm).cats
      off == Total([c \in DOMAIN cats |-> cats[c].pct]) - 100
  IN /\ stats.monthExpense = home.totals.expense /\ stats.balance = home.balance
     /\ Total(month.slices.top) + month.slices.rest = month.total
     /\ members # None => Total(members.top) + members.rest = month.total
     /\ month.total > 0 => 2 * off \in -Cardinality(DOMAIN cats)..Cardinality(DOMAIN cats)
     /\ board.over = {c \in DOMAIN circles : circles[c].level = "over"}
     /\ home.cap.remaining < 0 => stats.overBudget # {}
     /\ \A bs \in {Budgets, <<>>} :
          LET hub == HubStats(T, House, bs, Today)
          IN \A ms \in {{1}, {1, 2}}, as \in {{}, DOMAIN Initial} :
               LET shown == Banners(ms, as, bs, hub)
               IN /\ Len(shown) <= 3
                  /\ (bs = Budgets /\ board.over # {})
                       <=> "over" \in {shown[i] : i \in DOMAIN shown}
     /\ stats.shoppingPending = Total([list \in House.lists |-> summarize(list).pending])
     /\ totals.remaining <= home.cap.remaining /\ ~totals.overCap
     /\ \A t \in RecentTx(T), u \in T : Before(t.date, u.date) => u \in RecentTx(T)
     /\ (\A t \in T : t.type # "transfer") =>
          WeeklyFlow(T, Today).net = wealth[30] - wealth[23]
     /\ WealthChart(T, "7d", Today, Today, Today, Total(Initial)) = SubSeq(wealth, 24, 30)
     /\ WealthChart(T, "custom", Today, addDays(Today, -1), Today, 0) = <<>>
     /\ LET list == TransactionList(T, NoFilter, Today)
        IN ~list.chip /\ DOMAIN list.groups = {t.date : t \in T}

\* The reports agree with each other and with the balances: the parts of a month's
\* expenses by category, by day and by member are its expenses, six months are the
\* months they are made of, transfers between accounts change no sum, the last point of
\* the wealth of the family is what its accounts hold, and what a budget has left and
\* what is spent of it make the budget.  The pages agree too: the parts a widget names
\* and the rest are the whole, the hub and the dashboard give the same sums and warn of
\* the same budgets, and no banner of the hub is cut off.  (At rest.)
ReportAddsUp ==
  LET jy == Today[1]
      jm == Today[2]
      month == txsInJalaliMonth(seen, jy, jm)
      series == sixMonthSeries(seen, jy, jm)
      week == weekFlow(seen, Today)
      past == {t \in seen : UpTo(t.date, jalaliToIso(Today))}
      wealth == wealthSeries(past, 30, Today, Total(Initial))
      budget == spendCapacity(Budgets, monthCategorySpend(seen, jy, jm), daysLeftInMonth(Today))
  IN AtRest =>
     /\ PartsMakeTheWhole(month) /\ AccountsHoldIt(past)
     /\ series[6] = monthTotals(month)
     /\ LET whole == [type |-> "all", range |-> "month", account |-> None, category |-> None]
        IN Listed(seen, whole, Today) = month
     /\ wealthSeriesBetween(past, addDays(Today, -29), Today, 60, Total(Initial)) = wealth
     /\ month \ txsInJalaliMonthUpToDay(seen, jy, jm, Today[3])
          = {t \in month : Before(jalaliToIso(Today), t.date)}
     /\ (\A t \in past : t.account # None) =>
          wealth[30] = Total(accountBalances(past, Initial))
     /\ (\A t \in seen : t.type # "transfer") =>
          \A i \in 1..7 : week[i].income - week[i].expense = wealth[23 + i] - wealth[22 + i]
     /\ PagesAgree(past, wealth)
     /\ budget.remaining + budget.spent = budget.cap
     /\ budget.remaining > 0 => budget.perDay * daysLeftInMonth(Today) <= budget.remaining
     /\ (budget.level = "over") <=> (budget.remaining < 0 /\ budget.cap > 0)
=============================================================================
