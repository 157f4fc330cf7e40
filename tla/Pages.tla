-------------------------------- MODULE Pages -------------------------------
(***************************************************************************)
(* What the pages of the app do when a button is pressed: which handler    *)
(* runs, the flag that keeps it from running twice, what it writes, and    *)
(* what it awaits before it says it is done.                               *)
(*                                                                         *)
(* A handler awaits one step after another; after a step it may, before    *)
(* the next await, close the sheet it was started from ("close"; "shut"    *)
(* when that is the import sheet over the form), put the answer into its   *)
(* own list ("patch"), give its flag back ("free") or note that a refresh  *)
(* is due ("dirty").                                                       *)
(* Nothing else of a handler differs between pages: what is sent, and the  *)
(* forms it is read from, are in the modules of the components they write. *)
(*                                                                         *)
(* family is what AppProvider holds for everyone, own the list a page      *)
(* reads for itself, bell what useNotificationsModel holds.                *)
(***************************************************************************)
EXTENDS Sequences

Await(do, then) == [do |-> do, then |-> then]

\* writes: what the server changes; leaves: what of it the handler does not read again;
\* recover: what it awaits when a call fails.
Handler(flag, writes, steps) ==
  [flag |-> flag, writes |-> writes, leaves |-> {}, steps |-> steps, recover |-> <<>>]

\* The four shapes: the sheet stays open until the data is here; it closes at once; there
\* is no sheet; the answer itself is shown.
RefreshThenCloseMutant ==
  <<Await("refresh", {}), Await("call", {"close"})>>

RefreshThenClose == <<Await("call", {}), Await("refresh", {"close"})>>
CloseThenRefresh == <<Await("call", {"close"}), Await("refresh", {})>>
CallThenRefresh == <<Await("call", {}), Await("refresh", {})>>
CallThenPatch(then) == <<Await("call", {"patch"} \cup then)>>

Refresh == Handler("none", {}, <<Await("refresh", {})>>)
Reload == Handler("none", {}, <<Await("reload", {})>>)

\* A screen: the handlers of its own buttons and of its sheets, whether a date picker
\* opens over them, and whether it reads a list of its own.
Screen(page, sheet, picker, own) ==
  [page |-> page, sheet |-> sheet, picker |-> picker, own |-> own]

-----------------------------------------------------------------------------
InventorySave == Handler("busy", {"family"}, RefreshThenClose)
InventoryStep == Handler("busy", {"family"}, CallThenRefresh)
InventoryRemove == Handler("busy", {"family"}, CallThenRefresh)
InventoryAddTo == Handler("busy", {"family"}, RefreshThenClose)
InventorySheet == {InventorySave}
AddToSheet == {InventoryAddTo}
InventoryRow == {InventoryStep, InventoryRemove, InventoryAddTo}
InventoryPage == Screen(InventoryRow, InventorySheet \cup AddToSheet, FALSE, FALSE)

-----------------------------------------------------------------------------
BillSave == Handler("busy", {"family"}, RefreshThenClose)
BillRemove == Handler("busy", {"family"}, CallThenRefresh)
ConfirmPay == Handler("busy", {"family"}, RefreshThenClose)
BillUndo == Handler("busy", {"family"}, CallThenRefresh)
CancelBill == Handler("busy", {"family"}, CallThenRefresh)
BillSheet == {BillSave}
PaySheet == {ConfirmPay}
BillRow == {BillRemove, BillUndo, CancelBill}
BillsPage == Screen(BillRow, BillSheet \cup PaySheet, TRUE, FALSE)

-----------------------------------------------------------------------------
SaveList == Handler("busy", {"family"}, RefreshThenClose)
RemoveList == Handler("busy", {"family"}, CallThenRefresh)
QuickAdd == Handler("busy", {"family"}, CallThenRefresh)
SaveItem == Handler("busy", {"family"}, RefreshThenClose)
ToggleItem == Handler("busy", {"family"}, CallThenRefresh)
RemoveItem == Handler("busy", {"family"}, CallThenRefresh)
ConfirmTrip == Handler("busy", {"family"}, RefreshThenClose)
ActiveList == {RemoveList, QuickAdd}
ShoppingRow == {ToggleItem, RemoveItem}
ListSheet == {SaveList}
ItemSheet == {SaveItem}
TripSheet == {ConfirmTrip}
ShoppingPage ==
  Screen(ActiveList \cup ShoppingRow, ListSheet \cup ItemSheet \cup TripSheet, FALSE, FALSE)

-----------------------------------------------------------------------------
AddEvent == Handler("busy", {"family"}, RefreshThenClose)
RemoveEvent == Handler("none", {"family"}, CallThenRefresh)
SyncBirthdays == Handler("syncing", {"family"}, CallThenRefresh)
EventSheet == {AddEvent}
EventRow == {RemoveEvent}
CalendarPage == Screen(EventRow \cup {SyncBirthdays}, EventSheet, TRUE, FALSE)

-----------------------------------------------------------------------------
Persist == Handler("busy", {"family"}, CloseThenRefresh)
RaiseCapAndSave == Handler("busy", {"family"}, <<Await("call", {})>> \o CloseThenRefresh)
SyncCapToSum == Handler("busy", {"family"}, CallThenRefresh)
RemoveBudget == Handler("busy", {"family"}, CloseThenRefresh)
BudgetSummary == {SyncCapToSum}
BudgetSheet == {Persist, RaiseCapAndSave, RemoveBudget}
BudgetsPage == Screen(BudgetSummary, BudgetSheet, FALSE, FALSE)

-----------------------------------------------------------------------------
\* useHoldings.run: the answer carries no price, so the list is read again.
RunHolding == Handler("holdingBusy", {"own"}, <<Await("call", {}), Await("reload", {"close"})>>)
RemoveHolding == Handler("none", {"own"}, <<Await("call", {}), Await("reload", {})>>)
HoldingSheet == {RunHolding}
HoldingsCard == {RemoveHolding}
PriceGrid == Screen({}, HoldingSheet, FALSE, FALSE)
MarketPage == Screen({}, {}, FALSE, TRUE)

\* useAccountsModel.save: a changed balance is a second call, between the account's and
\* the refresh. The switch of the account's messages leaves the refresh to close().
SaveAccount == Handler("busy", {"family"}, CloseThenRefresh)
AdjustAccount ==
  Handler("busy", {"family"},
          <<Await("call", {}), Await("adjust", {"close"}), Await("refresh", {})>>)
ToggleSms == Handler("smsBusy", {"family"}, <<Await("call", {"dirty"})>>)
RemoveAccount == Handler("none", {"family"}, CallThenRefresh)
AccountsPage == Screen({RemoveAccount} \cup HoldingsCard, HoldingSheet, FALSE, TRUE)

-----------------------------------------------------------------------------
\* SettingsPage, and the cards that are its sections.
SaveBudget == Handler("saving", {"family"}, RefreshThenClose)
ToggleRial == Handler("pendingRial", {}, CallThenPatch({}))
MonthlyBudgetSheet == {SaveBudget}
SettingsPage == Screen({ToggleRial}, MonthlyBudgetSheet, FALSE, FALSE)

\* The birthday's event is written by a second call and not read again.
SaveProfile ==
  [Handler("busy", {"family"}, <<Await("call", {"patch"}), Await("call", {})>>)
     EXCEPT !.leaves = {"family"}]
SaveOwnRelation == Handler("savingRelation", {}, CallThenPatch({}))
ProfileCard == Screen({SaveProfile, SaveOwnRelation}, {}, TRUE, FALSE)

SaveRelation == Handler("busy", {"family"}, CallThenPatch({"close"}))
AddMember == Handler("busy", {"family"}, CloseThenRefresh)
RelationSheet == {SaveRelation}
MemberSheet == {AddMember}
MembersCard == Screen({}, RelationSheet \cup MemberSheet, FALSE, FALSE)

CardAddEvent == Handler("busy", {"family"}, CloseThenRefresh)
CardRemoveEvent == Handler("none", {"family"}, CallThenRefresh)
CardEventSheet == {CardAddEvent}
EventsCard == Screen({CardRemoveEvent}, CardEventSheet, TRUE, FALSE)

SaveScheduled == Handler("busy", {"family"}, CloseThenRefresh)
RemoveScheduled == Handler("none", {"family"}, CallThenRefresh)
ScheduledSheet == {SaveScheduled}
ScheduledTxsCard == Screen({RemoveScheduled}, ScheduledSheet, TRUE, FALSE)

AddCategory == Handler("busy", {"family"}, CallThenRefresh)
RemoveCategory == Handler("busy", {"family"}, CallThenRefresh)
CategoriesCard == Screen({AddCategory, RemoveCategory}, {}, FALSE, FALSE)

AddLabel == Handler("busy", {"family"}, CallThenRefresh)
RemoveLabel == Handler("busy", {"family"}, CallThenRefresh)
LabelsCard == Screen({AddLabel, RemoveLabel}, {}, FALSE, FALSE)

-----------------------------------------------------------------------------
ToggleAccount == Handler("busyId", {"family"}, CallThenRefresh)
ResetAccount ==
  Handler("busyId", {"family", "own"}, <<Await("call", {"patch"}), Await("refresh", {})>>)
AddSender == Handler("busyId", {"own"}, CallThenPatch({"close"}))
RemoveSender == Handler("busyId", {"own"}, CallThenPatch({}))
AddNumber == Handler("busyId", {"own"}, CallThenPatch({"close"}))
ToggleNumber == Handler("busyId", {"own"}, CallThenPatch({}))
RemoveNumber == Handler("busyId", {"own"}, CallThenPatch({}))
CreateBridge == Handler("busy", {}, CallThenPatch({}))
SmsAccountRow == {ToggleAccount, ResetAccount, RemoveSender}
SmsNumberRow == {ToggleNumber, RemoveNumber}
SmsBridgeCard == {CreateBridge}
SenderSheet == {AddSender}
NumberSheet == {AddNumber}
SmsSection ==
  Screen(SmsAccountRow \cup SmsNumberRow \cup SmsBridgeCard, SenderSheet \cup NumberSheet,
         FALSE, TRUE)

\* A decision refreshes the family, and the bell goes on showing the request.
Decide ==
  [Handler("busyId", {"family", "own", "bell"}, <<Await("call", {"patch"}), Await("refresh", {})>>)
     EXCEPT !.leaves = {"bell"}, !.recover = <<Await("reload", {})>>]
JoinRequests == Screen({Decide}, {}, FALSE, TRUE)

SavePrefs == Handler("busy", {"bell"}, <<Await("call", {"free"}), Await("ring", {})>>)
NotificationSettings == Screen({SavePrefs}, {}, FALSE, FALSE)

\* The item leaves the bell before the server has answered.
Dismiss ==
  [Handler("bellBusy", {"bell"}, <<Await("call", {"patch"})>>)
     EXCEPT !.leaves = {"bell"}, !.recover = <<Await("ring", {})>>]
NotificationCenter == {Dismiss}

-----------------------------------------------------------------------------
\* The transaction form, and the import sheet that opens over it: App.bumpRefresh makes
\* the bell read again, and the form closes after it.
SaveForm == Handler("formBusy", {"family"}, CloseThenRefresh)
SaveImport ==
  Handler("importBusy", {},
          <<Await("call", {"shut"}), Await("refresh", {"close", "free"}), Await("ring", {})>>)
ImportedByReader == Handler("none", {}, <<Await("refresh", {}), Await("ring", {})>>)

-----------------------------------------------------------------------------
\* usePendingSmsModel: a message is recorded or ignored, and the next one is shown; after
\* the last one the box closes.
RecordMessage == Handler("none", {"family"}, CallThenRefresh)
RecordLast == Handler("none", {"family"}, CloseThenRefresh)
IgnoreMessage == Handler("none", {}, CallThenPatch({}))
IgnoreLast == Handler("none", {}, CallThenPatch({"close"}))
PendingBox == {RecordMessage, RecordLast, IgnoreMessage, IgnoreLast}

-----------------------------------------------------------------------------
\* App.MainShell and SettingsPage: what a route and a section show.
NoButtons == Screen({}, {}, FALSE, FALSE)
HubPage == NoButtons
DashboardPage == NoButtons
TransactionsPage == NoButtons
ReportsPage == NoButtons
StockSearch == NoButtons

PageOf ==
  [hub |-> HubPage, dashboard |-> DashboardPage, transactions |-> TransactionsPage,
   reports |-> ReportsPage, accounts |-> AccountsPage, budgets |-> BudgetsPage,
   bills |-> BillsPage, calendar |-> CalendarPage, shopping |-> ShoppingPage,
   inventory |-> InventoryPage, market |-> MarketPage, settings |-> SettingsPage]

SectionOf ==
  [profile |-> ProfileCard, family |-> MembersCard, joinRequests |-> JoinRequests,
   events |-> EventsCard, accounts |-> AccountsPage, scheduled |-> ScheduledTxsCard,
   categories |-> CategoriesCard, labels |-> LabelsCard, sms |-> SmsSection,
   notifications |-> NotificationSettings, grid |-> PriceGrid, stock |-> StockSearch]
=============================================================================
