# Khaneyar: specification of the family finance app

Khaneyar is a finance app for one household: a React app (also packaged for Android), a
FastAPI service and PostgreSQL.  This directory models the parts of it in which requests, phones,
tabs or screens act on the same data, checks them with TLC on small families, and proves the
properties that matter most with TLAPS for families of any size.

Every definition is translated from the code; `PROJECT.json` (`map`) names the lines of each.
Paths below leave out `src/`: `backend/app/services` is `services/`, the app's `src/src` is `app:`.

## 1. The system

```
 app: pages, AppProvider, use cases ── RestClient (15 s, no retry) ──► routes ► services ► PostgreSQL
   │      ▲                                                          │
   │      └─ refreshData: eleven lists after most changes            ├─ market sources (HTTP)
   ├─ IndexedDB: the session, encrypted; shared by all tabs          ├─ object store (photos)
   ├─ history of the browser: one entry per open layer               └─ SMS gateway (codes)
   └─ Android plugin: bank messages ──► POST /sms/native
 SMS forwarder, no session ───────────► POST /sms/bridge/<token>
```

What the models rest on:

* A route is a synchronous function on a thread of the pool, with a database session of its own.
  Two requests, of two members or of one member who taps twice, run at the same time.
* Handlers load rows, test them, change the loaded objects and commit.  They take no lock
  (`SELECT ... FOR UPDATE` is used nowhere) and the isolation level is PostgreSQL's default,
  READ COMMITTED: between load and commit any other request may commit.
* The ORM writes only the columns a handler changed, and an UPDATE that matches no row makes the
  commit fail; a DELETE that matches no row does not.
* Unique indexes and foreign keys hold at the commit, whatever the handler saw.
* A process may die, a commit fail or the client go away between any two commits.
* In the app nothing runs in parallel, but every `await` is a place where taps, other answers and
  other tabs come in.  A call is given up after 15 seconds without headers although the
  server may have carried it out; the body of its answer has no bound (`restClient.ts:239-262`).

### Components

| component | state | operations | who it meets | what is hard | correct when |
|---|---|---|---|---|---|
| Bills (`bills.py`) | bills, the expense each names | create, update, delete, cancel, pay, unpay | transactions, members (foreign keys) | payment twice; an expense deleted beneath its bill; one commit for two tables | an expense and its bill change together |
| Stock (`inventory.py`) | titles, quantities | create, update, adjust, remove | shopping adds to it | relative steps from a stale copy; a unique title | one row per title, no step lost |
| Shopping (`shopping.py`) | lists, items, who paid what | lists, items, tick, trip | stock, transactions | a trip writes three tables; links to rows that go away | what is charged, stamped and stocked agrees |
| Membership (`family.py`, `auth.py` in part) | members, roles, invitations, requests to join | invite, join, approve, reject, promote, demote, remove, add, complete | sessions, all other tables | two administrators decide at once; a limit counted before an insert | the family keeps its creator; nobody has a role before approval |
| Access (`auth.py`, `passwords.py`, `attempts.py`, `otp.py`, `password_reset.py`, `sessions.py`) | password, codes, failures, sessions | request a code, log in, reset, change, log out, log out everywhere | membership | handlers that commit several times on their way | a lock stops guessing, a code is used once, removal ends sessions |
| Reading messages on the phone (`app:app/useNativeSmsReader.ts`, `SmsReaderPlugin.java`) | two effects, permission, listener, receiver, filter | the hook's runs and cleanups | settings of the family, the session, page loads | a cleanup at every await | silent without consent, once per message, listening in the end |
| Session and data in the app (`AppProvider.tsx`, `auth.usecases.ts`, `sessionRepository.ts`, `restClient.ts`) | phase, lists, stored session and its key | restore, refresh, log in, log out | every list of the service | answers after a logout; two tabs; a storage that fails | one member never sees another's data |
| Sign-in (`useAuthModel.ts`, `App.tsx`, onboarding) | step of the form, flow, numbers, cool-down | enter, codes, forgotten password, join, introduction | Access | ways back that stay open while a call is under way | the screen is about the number it names |
| Entering transactions (`useTxFormModel.ts`, `DueRecurringWidget`, `usePendingSmsModel.ts`) | form, question, box of messages | save, delete, skip, record, ignore | transactions, messages, `refreshData` | chains of calls of which one fails; taps in between | what is handled has its entry, an entry is made once |
| Rules (`app:domain/*.rules.ts`, `jalali.ts`) and what pages show | none: functions of the data | dates, occurrences, reports, budgets, notices | all pages and widgets | months without the day; the same sum made by different functions | figures agree with each other and with the balances |
| Pages, sheets, back button (`app:pages`, `app:features`, `backGuard.ts`, `App.tsx`) | route, section, sheets, history, handlers under way | every button | `refreshData`, the browser | history entries taken back later; handlers that end late; a balance that moves under a form | back closes the top, what is shown is what the server holds |
| Messages and bridges (`messaging.py`, `sms_settings.py`) | messages, bridges, senders | ingest three ways, record, ignore | accounts, transactions | the same message twice; consent read before the insert | recorded once |
| Market (`market.py`) | prices per source, locks, times | read, with a time to live and a fall back | two HTTP sources | threads behind one lock; old prices | the time shown is that of what is shown |
| Categories, events, notifications, accounts (services) | categories, budgets, events, preferences, balances | check then insert; read, merge and write | transactions, members | no index behind some checks | no duplicates, no lost preference |

The remaining parts (files, limits per address, gateway, routes and schemas, row policies,
migrations, export and theme, retired code) are in `PROJECT.json` with the reason each is left
out.  `hazards` there lists what is hardest to test, at its line.  Smaller ones of the same kinds
are: limits of senders, lists and items counted before an insert; any status of a message
replacing any other; two active bridges of one member; the consent of an account read before a
message is inserted; the list of handled dates and the preferences of notices read and written
whole; the uses of a category counted before it is deleted; two equal events; photos uploaded
after the transaction was created.

## 2. Modules

| module | models | code |
|---|---|---|
| `Orm` | writing the dirty columns of a loaded row | SQLAlchemy's unit of work, as the services use it |
| `Bills` | bills with their expenses | `bills.py`, part of `transactions.py`, foreign keys |
| `BillBook` | what Bills promises: a book in which a bill is paid by exactly one expense | abstract |
| `Inventory` | the actions of the stock; Shopping composes them and states what they keep, so its run is theirs | `inventory.py` |
| `Shopping` | lists and trips, over an `INSTANCE` of Inventory | `shopping.py` |
| `Membership` | members, roles, invitations and decisions | `family.py`, part of `auth.py` |
| `Access` | password, codes, lock, sessions | six services, see its head |
| `SmsReader` | the phone's hook and plugin | `useNativeSmsReader.ts`, `SmsReaderPlugin.java` |
| `AppSession` | tabs of one device, their storage and the sessions of the server | `AppProvider.tsx`, use cases, `secureStorage.adapter.ts`, `restClient.ts` |
| `SignIn` | the way in on one page, with the server's answers | `useAuthModel.ts`, `App.tsx`, onboarding, `features/auth` |
| `Jalali` | the calendar: conversions, steps, month lengths | `shared/lib/jalali.ts` |
| `Reports` | due occurrences, filters, reports, budgets | `recurring.rules.ts`, `report.rules.ts`, `budget.rules.ts` |
| `Home` | the figures of the hub, dashboard, widgets, list, calendar and bell | pages, widgets, `notification.rules.ts`, `calendar.rules.ts` |
| `Entries` | form, questions and box of messages with the server they write to, over Home | `useTxFormModel.ts`, `DueRecurringWidget`, `usePendingSmsModel.ts` |
| `BackGuard` | the stack of layers over the history of the browser: the cleanups of the layers that go (`Cleanup`), then the mounts of those that come (`Mount`) | `backGuard.ts`, `useBackGuard.ts` |
| `Pages` | every handler of every page: its flag, what it writes, what it awaits | `app:pages`, `app:features`, models |
| `Screens` | one person going through the app: layers, handlers under way, balances, search | `App.tsx`, `SettingsPage.tsx`, `useAccountsModel.ts`, over BackGuard and Pages |
| `X_proofs` | theorems about module X; `Shopping_proofs` also about the stock, `Entries_proofs` also about SmsReader, whose specification is `ReaderSpec`, and about Jalali, Reports and Home | |
| `MCX` | model values, symmetry and instances for TLC | |

### How a request of the service is modelled

`Workers` are the threads that may serve at the same time; `req[w]` is what worker `w` holds in
memory.  `Begin...` is everything up to the last SELECT, with its guards in the order of the code's
early returns; `Commit...` is the rest, up to and with the commit.  A handler that commits
several times (Access) or loads more than once (Membership, Access, Shopping) has a step for each
stretch between two points where another request can be seen; a trip reads the rows of the stock
its items are linked to one by one (`ReadRow`).  `Rollback(w)` drops the request at any
point: a crash, a lost connection, a failed commit.  A handler that refuses leaves no trace and
is therefore the same as a request that was never sent.

Keys (`BillIds`, `TxIds`...) are used once, as a uuid is.  `Null` stands for SQL's NULL, a row
that is not there, and an idle worker.  The set of workers in use, `pool`, is chosen in the
initial state, so one run checks both a deployment that serves one request at a time and one
that overlaps them; `OneAtATime` names the former where a property only holds there.

`Access` treats a session that has expired as deleted, because every request that reads
one first deletes the dead ones, and it counts the failures inside the window
(`WindowPasses` lets all of them age out).  The member waits, is let in or is refused
(`membership_state`): a decision loads the request to join and then the member, and its commit writes
the column only if its verdict differs from the copy it holds.  The gate of the routes
(`deps.py:39-60`, `Admitted`) lets an active member through; logging out and changing the
password go by the session alone.  A code ages by a step from "new" (inside the
cooldown) to "old" to "expired".

### How the app is modelled

`SmsReader` steps are React's passive effects (`RunEffects`), the answers the hook waits for
(`SendersArrive`, `PermissionAnswers`, `ListenerAdded`), and what it reacts to.
`ran1` and `ran2` are the dependencies with which each effect last ran, so an effect is due when
they differ from `Due1` and `Due2`.  A run of the second effect is cancelled as soon as it is not
`current`.  A refresh of the accounts that arrives late or after a logout is a refresh in a
later or signed-out state.  An address comes as its sender is stored, with the code of the
country, or spelt with what `normalize_sender` (`sms_settings.py:59-75`) drops or rewrites: spaces,
hyphens, parentheses, Persian digits (`Addresses`); the plugin looks for the stored form in
the address as it came (`Contains`).  The model takes three things from Capacitor and Android: calls of a
plugin are carried out in order, a page that is loaded again loses its listeners but not the
plugin's receiver, and taking a permission back kills the process.

`AppSession` has one record per tab.  `step` is where the page awaits, `reads` and `ends` hold the
refreshes and the `finish()` runs under way with the token each took.  `record` and `storedKey`
are what IndexedDB holds for all tabs; `alive` is what the server accepts.  The eleven lists
are one, for they are read and cleared together.  A device's kind says which tabs are open,
whether its storage fails, and whether logins need a code.

`SignIn` has one page.  A tap adds a call to `calls`; `Serve...` actions are the server, the
others the page hearing of it, and `BodyNeverEnds` an answer of which nobody ever hears.  Text
typed is chosen at the tap, except the two numbers a late answer meets (`regPhone`, `preReg`).

`Entries` has chains: a tap reads what it needs, and `Call.stage` says which of its calls is out.
`ledger` and `status` are the server's, `seen` is what the page has.  `calm` says that no call fails
and that no label or photo is entered first, where a property needs it.  The pure
modules below it are operators over `seen`, evaluated in every state in which the page is at rest
and holds what the server holds, so each property of them is checked on every ledger the
chains can produce.  Percentages that are rounded, orders among equals and texts are left out; an
order is kept where something is cut off by it.  A transaction made later has the larger id.

`Pages` is a table: a handler is a record of its flag, what it writes, what of it it leaves unread,
and the list of what it awaits, with what it does before the next await.  `Screens` interprets it:
`Press` starts a handler of the screen she is on unless its flag is taken, `Arrive` and
`Fail` end its awaits.  `hist` is the history (BackGuard) and follows the layers in `Effects`.
A tour (`tour`) says which pages she may open, so a run visits every page and section and not their
product.  Assumed: taps flush React's effects, while those of answers run later; a back of the
user is delivered after the module's own `history.back()`.  `calm` is first in, first out and no failure.

Over everything lies the box of the messages nobody has registered (`PendingSmsFeature`), which no tap
but an answer opens (`loads`, `BoxOpens`): when the app starts, and after each `bumpRefresh` while it is
closed (`Bumps`).  It has buttons (`PendingBox`) and a date picker of its own, and closes itself after the last
message.  The form of an account keeps the number typed, the one it was filled with and the tick; typing,
ticking and taking the tick back are free at any time, and the tick goes where the code drops it: when
number and balance agree (`Unticked`).  `stands` is history: the tick was given for a difference and
there has been one ever since.

Left out, because they write no data of the family: theme, export, the premium card, the check for a
version, and sheets that only show (list filter, custom range, notices of the dashboard).

## 3. What the runs check

| run | instance | distinct states | what it shows |
|---|---|---|---|
| `bills` | 1 or 2 workers, 2 bills, 2 expenses, 2 members | 556 243 | With overlap a bill never names an expense that is gone or another bill's (`NamedExpenseIsOurs`) and a payment is one commit (`PaymentIsOneCommit`); one at a time, with failures and removals at any point, a charged expense has its paid bill (`ExpenseHasItsBill`) and the whole implements `BillBook` (`BookSpec`) |
| `bills_double_payment` | 2 workers, 1 bill | violation | Two overlapping payments charge the family twice (`OneExpensePerBill`) |
| `shopping` | 1 or 2 workers, 1 list, 2 items, 2 titles, 2 rows of stock, steps of -2 and 1 | 2 081 749 | Titles stay unique and an adjustment loses a step only to a write it did not see; links never dangle, a trip is one commit, a bought item stays as it was; one at a time, the items of a trip add up to its expense, carry its name and reach the stock, once |
| `membership` | 3 members, 2 invitations, 1 or 2 workers | 121 093 | Creator, phones, roles, decisions, the cap of administrators and invitations |
| `access` | 1 or 2 workers, 2 passwords, 2 codes, 2 sessions, lock after 1 | 3 537 450 | The lock, codes, sessions after a reset, a refusal and a removal |
| `sms_reader` | 2 accounts, a short and a mobile sender, 3 spellings, 2 runs alive | 909 632 | Silence, once per message, a filter that lets through what it should and nothing else, and liveness |
| `sms_reader_filter` | as above | violation | A sender added while the filter is on is held back (`NothingIsLost`) |
| `app_session` | 1 or 2 tabs, 2 sessions, with and without codes and a failing storage | 607 354 | A tab shows its own member's data, a logout is final, a session survives a reload, the loading screen ends |
| `entrance` | 2 numbers, 3 submits, 2 page loads, 4 settings | 1 791 858 | Codes, cool-downs and locked families belong to the number shown; buttons open again |
| `entries` | 3 transactions, 2 drafts, 2 chains, 2 openings, 2 messages, one house | 590 474 | What is handled has its entry, an entry is made once, due dates fall on their days, figures agree |
| `screens` | every page and section, 2 writes, 2 calls, 2 history moves on the way, 1 expense of another | 978 931 | Back closes the top layer, what is shown is current, no balance moves by a tick that has not stood |
| `screens_put_back` | the form of an account | violation | A number put back keeps its tick once the balance has moved (`PutBackIsUnticked`) |

**Bounds.**  Two workers are enough to show a stale copy, since each handler's decision depends on
rows that one other request changes; the proofs lift what holds to any number.  Two of each key give
"the same row" and "another row".  `MaxFails = 1` makes the lock one failure away, with a theorem
for every limit.  Quantities 0..2 put clamping at both ends in reach; in Shopping prices and
quantities are single values because which items are summed matters, and two rows of the stock put
another request between the two a trip reads.  The constraint `FewWhileOverlapping` follows
overlapping requests in three cases: those of the stock, with both titles and both rows, while nothing
stands in a list; all of them while one title is in use and one row of the stock has been made; and
over a second row the trips that charge, with what fills their carts.
Membership's three members are the creator, one administrator and one that is decided upon.  Two
`RunIds` suffice because the plugin answers in order: at most one cancelled run can still wait for
its listener.

In the app two tabs are a writer and a late reader; two sessions are "hers" and "the next one's".
`entrance` needs three submits for a code that is asked for, asked for again and used, and two page
loads for a draft and a form left behind.  `entries` needs two openings for the second to meet the
first one's answer; its monthly transaction starts on a 31st and passes months of 30 and 29 days, the
yearly one starts on the 30th of Esfand of a leap year, the weekly one ends before today, and bills
and events lie on both sides of every horizon (`Household` in `MCEntries`).  `TOP = 1` and
`MaxShown = 1` stand for 4 and 6 and put the cut between two categories and two questions.
`screens` has a tour per page and per section; a handler acts on one page, the bell and the
history, so pairs of pages would repeat what is already there.  The box of messages comes over three
tours: the form and its import with the reader of messages, a page with sheets, a section of the
settings.

`CHECK_DEADLOCK FALSE` appears where the members may stop asking: keys, taps and submits are
finite, so a behaviour ends when all are used.  The runs of SmsReader check deadlock.
`SYMMETRY` is used only without liveness; `BookSpec` is a safety property that treats keys alike.

**Fairness** is assumed in three modules.

* SmsReader: React runs due effects; the plugin answers `addListener` and, once the permission is there,
  `checkPermissions`.  A dialogue need not be answered, nor need a call of the server end: nothing
  bounds its body.  `ConsentIsHeard` asks for listening only if the app keeps showing the
  consent, the member stays and the permission stays, and unless the call for the senders stays out.
* AppSession: IndexedDB answers or fails, and a call without headers is given up.  `BootEnds`
  leaves out what the code does not bound: a body that never ends (the timer stops at the
  headers) and a storage that fails where nothing catches it.
* SignIn: a call that a button awaits is given up after 15 seconds without headers, and heard if the
  body of its answer ends.  `BusyEnds` leaves out only the body that never ends (`BodyNeverEnds`), which does
  keep the buttons closed.  Nobody must tap, and calls that nobody awaits need not end.

**Reading the properties.**

* `BookSpec`: each commit of Bills is a step of BillBook (open, pay, unpay, cancel, remove, lose an expense) or
  changes nothing there.  It is claimed for one request at a time; `bills_double_payment` shows why.
* `AdjustIsExact`: an adjustment that nobody wrote in front of moves the row by exactly its step.
* `LockHolds`: at most `MaxFails - 1 + Cardinality(pool)` failures, as each worker may have passed
  the test before the last failure was recorded.  The limit in the settings is exact only for one
  request at a time.
* `SessionsAreOfMembers`: a live session is of a member who is there and whose request to join was
  answered, however requests overlap; of an active one where they do not.  See below for the refused
  member who is let in where they do.
* `CodeLetsOneThrough`: an action property.  Of all requests that found the code valid, the step
  that spends it is taken by one (`UPDATE ... WHERE used = false`, checked by its row count).
* `DecisionIsTheMembership`: a member is active exactly when the request to join was approved.  Two
  workers; with three overlapping decisions it fails.
* `SilentWithoutConsent`: once the effects have run without consent, nothing reaches a listener,
  although an earlier run may still wait for the plugin.
* `FilterIsExact`: once the effects have settled, with no sender changed since the filter was
  computed, a message passes whose address is its sender as stored, with or without the code of the
  country, and every message if an account has no sender; and through a filter nothing passes but the
  messages of senders of consenting accounts, in such a spelling.  For other spellings see below.
* `ShownIsOwn`: lists, member and token of a tab belong together in whatever order refreshes,
  logouts and logins end.  It excludes logins with a code, of which nobody awaits `finish()`.
* `HandledHasEntry`: an expense never goes missing because its question, or its message, was marked
  first.
* `DueIsSound` compares the code's steps with the days of the calendar themselves (`Falls`), but for those
  past the last of `MaxOccurrences` (1200 in the code, 12 in the run), and the bell,
  the questions and the calendar page with each other; `ReportAddsUp` compares each figure with
  another way to the same figure: parts with the whole, a series with its months, the wealth
  curve with the balances, the hub with the dashboard.  Both hold at rest (`AtRest`).
* `BackWorks`: once the history has caught up, each open layer has one guard and one entry, in order.
* `ScreensAreCurrent`: when all handlers are through, what is shown is what the server holds, but for
  what `Pages` lists as left behind.
* `OnlyMeantAdjusts`: a balance is adjusted only by a tick that has stood: where number and balance agreed
  since it was given, by her typing or by a refresh while others spend, it is gone.  She may put the
  first number back once the balance has moved; then the tick stands, and `screens_put_back` shows it.

### Disagreements found

Each of the three violation runs is an entry in `findings`:

* a bill can be paid twice (`bills.py:16-17`);
* a sender that is added is held back (`useNativeSmsReader.ts:57-60`);
* a number put back to the one the form was filled with keeps its tick, if the balance has moved
  meanwhile, and saving it undoes what others spent (`useAccountsModel.ts:151`).

Others were met while modelling.  On the server:

* Two adjustments can lose a step (`AdjustIsRelative`, which no run checks, fails with overlap).
* Deleting the expense of a paid bill leaves the bill paid; editing its amount
  (`transactions.py:200`) leaves the two apart.
* Two overlapping trips of one list leave an expense without items; an item bought meanwhile can
  still be edited or deleted by a request that loaded it before; titles pending twice; limits of
  lists and items exceeded (`shopping.py:310`).
* With three overlapping decisions, a request to join and the membership can disagree; overlapping
  promotions exceed the cap of two administrators; an invitation serves two who join at once.
* A refusal loaded before the approval of the same request commits after it, and after a login: a live
  session of a refused member (`family.py:303-312`).  `deps.py:39-46` stops it at every route that asks for
  the member; logging out and changing the password (`get_principal`) do not ask.
* A login under way when the password was reset opens its session afterwards.
* The upgrade of an old hash (`passwords.py:41`) can overwrite a password set meanwhile; a change of
  password ends the other sessions in a second commit (`auth.py:207`), which may not come.
* The list of handled dates (`transactions.py:242`) is written whole; of two marks one is lost.

In the app:

* Back from the screen a notice leads to closes the page first: the guard of the section
  (`SettingsPage.tsx:283`) is pushed before that of its page (`App.tsx:323`), against the comment above
  it.  `BackWorks` leaves that way in out (`deep`).
* `backend/README.md:393` and `:483` describe sessions that are renewed; the client reacts to 401 by
  failing the call only (`restClient.ts:10`, `:33`).
* Two tabs of a fresh device can each make a key; what the first stored is then unreadable.
* A check of a number answered late locks the form to another number's family.
* The relation typed at a join by code is not sent (`useAuthModel.ts:457`, `authRepository.ts:129`).
* With a label or after a failed photo, a second tap enters a transaction twice; the form opened
  after a category was added keeps the old list (`TransactionFormFeature.tsx:214`).
* `toggleSms` answered after the section was closed leaves its refresh out; a decision on a request
  to join leaves the bell as it was.
* A short sender that the operator spells with a hyphen or a space, `BANK-MELLAT` stored as
  `bankmellat`, is held back by the filter: the comment at `useNativeSmsReader.ts:26-27` takes both for the
  same.  The second part of `FilterIsExact` says it of every filter.
* A correction of a balance that others spend from does not end at the number typed, as the comment at
  `useAccountsModel.ts:262-263` has it: the difference is from the balance last shown.
* Retrying a failed save of an account adjusts from the balance read before the first try
  (`useAccountsModel.ts:279`); the comment at `:151` speaks of the balance shown live.
* `App.tsx:290` and `PendingSmsFeature.tsx:28` say `refreshKey` follows every refresh; it moves when
  the app becomes ready, after an import and after the native reader.
* `weekFlow` (`report.rules.ts:133`) counts a transfer as an expense; `DashboardPage.tsx:49-75` takes the
  Gregorian month and day of an event for Jalali ones, where its comment promises the next 30
  days; what the budgets page calls remaining counts spending in categories without a budget, what
  the home page calls so does not.
* `onLoggedOut` clears eight lists and forgets the shopping lists and the stock;
  `smsRepository.ts:33` says the service recognises a duplicate message, which it does not.

## 4. What is proved

Each theorem is of the form `Spec => []P` or `Spec => [][A]_vars`, but for two about the calendar alone,
and holds for every value of the constants that the assumptions allow.  Every safety property that a
run finds to hold is proved.

| module | theorem | statement |
|---|---|---|
| `Bills_proofs` | `Typing`, `NamedExpense`, `OneCommit` | `TypeOK`, `NamedExpenseIsOurs` and `PaymentIsOneCommit`, for any number of overlapping requests |
| | `ExpenseHasBill` | `ExpenseHasItsBill`, with one request at a time |
| | `BillsAreABook` | `BookSpec`: Bills implements `BillBook` where requests do not overlap |
| `Shopping_proofs` | `Typing`, `NamedIsLive`, `OneCommitPerTrip` | `TypeOK`, `NamesAreLive` and `TripIsOneCommit`, for any number of requests |
| | `Reconstruction`, `BoughtStays`, `StockIsFilled` | `TripIsReconstructed`, `BoughtIsKept` and `TripFillsStock`, with one request at a time |
| | `UniqueTitles`, `ExactStep` | `TitlesUnique` and `AdjustIsExact` of the stock, for any number of requests, trips among them |
| | `RelativeStep` | `AdjustIsRelative`, no step is lost, with one request at a time |
| `Membership_proofs` | `Typing`, `Phone`, `CreatorRemains`, `NoRoleBeforeApproval` | for any number of requests |
| | `OneDecision` | `DecisionIsTheMembership`, with up to two requests at a time |
| | `Limits` | `LimitsHold`, with one request at a time and any limit |
| `Access_proofs` | `Typing`, `CodeOnce`, `Lock`, `Sessions` | for any number of requests, codes, sessions and any limit |
| | `Resets` | `ResetEndsSessions`, with one request at a time |
| `AppSession_proofs` | `Typing`, `Own`, `Out`, `Reload` | `TypeOK`, `ShownIsOwn`, `LoggedOutIsOut`, `ReloadKeeps`, for any number of tabs and sessions, as far as the property itself reaches (logins that are awaited; one tab) |
| `SignIn_proofs` | `Typing`, `CodeOfPhone`, `ResendIsSent`, `LockedFamily` | `TypeOK`, `CodeIsForThisPhone`, `ResendIsHeard`, `LockedToItsFamily`, for any numbers, waits and number of taps |
| `Entries_proofs` | `Typing`, `Once`, `Silent`, `FilterExact` | of SmsReader: `TypeOK`, `SentOnce`, `SilentWithoutConsent`, `FilterIsExact`, for any accounts, senders and number of runs |
| | `NothingGoesMissing`, `OneEntry` | `HandledHasEntry` and `OneEntryPerSave`, for any transactions, drafts, messages and number of taps |
| | `PartsOfReports`, `AccountsOfReports` | for every set of the transactions a page has: parts make the whole, transfers make no money |
| | `DatesKeep`, `DaysAdded` | the calendar: there and back is the same date; n days later is n days later |
| | `DueDates`, `DueHolds` | occurrences fall on their days, and `DueIsSound`: the bell and the calendar page as well |
| | `ReportsHold` | `ReportAddsUp`: every figure of reports, budgets and pages, for any transactions, house and budgets |
| `Screens_proofs` | `HistHolds`, `BackWorksHolds` | the history has its guards in order, and `BackWorks`, for any number of layers, backs and handlers on the way |
| | `TypeHolds`, `OnlyMeantAdjustsHolds` | types and steps of the handlers, and `OnlyMeantAdjusts`, for any numbers |
| | `ScreensAreCurrentHolds` | `ScreensAreCurrent`, for any number of handlers under way |

**Assumptions.**  The named `ASSUME`s of the modules, which TLC evaluates in every run.  `NullAssumption` says
of each module that `Null` is no key and no row.  The others are those of the code: the owner is an
administrator, the limits are numbers (of failures and administrators at least one), steps are
integers and prices numbers.  Three ask for finiteness: of `Workers` in Access and Membership, as a
pool of threads is, and of `ItemIds` in Shopping, where sums are taken.  `BoundsAssumption` of SignIn says that
the cool-down and the bound on taps are natural numbers.  Screens asks that no query and no layer is `Null`
(`NullIsNoValue`), that tours name pages there are (`ToursAssumption`) and that balances are integers
(`FormsAssumption`).  Entries asks for what the app's data are: transactions numbered as they were made
(`FirstAssumption`, `DraftsAssumption`), amounts in the smallest unit of the server's two decimals and
accounts that are there (`MoneyAssumption`), dates the calendar has after the year 979, from which
`jalali.ts` counts, with today a year later at least, since reports look back
(`DatesAssumption`), whole budgets (`BudgetsAssumption`), a finite house whose bills and events have dates
(`HouseAssumption`), and no status that is None (`NoneAssumption`).

Each proof about steps has the same outline.  `Typed` or `TypeOK` is inductive; an invariant that explains the
property is inductive with it; one lemma says what a step may do, one step of its proof per
action; and a theorem joins them.  TLC checked the strengthened invariants before they were proved.

*Bills.*  `NamedExpenseIsOurs` is not inductive: a commit writes what an earlier load decided.  `IInv` adds
what the guards leave in a request (a payment holds an unpaid copy, an edited expense keeps its
origin) and that every expense loaded or live was given its key before, so a payment that
commits now draws another one.  For `ExpenseHasItsBill`, `OneInv` adds `Fresh`: the only request in flight still
agrees with the row it decided on, but for an expense that a removed member took along.
`OneCommit` goes through the commits (`PayCommits`, `EditCommits`, `UnpayCommits`, ...) and shows that only a payment
names a new expense, with a key that no bill can name yet.  `BillsAreABook` is the step simulation:
`BookTurns` takes each step to a turn of the book or to a stutter, with `ClaimsAreOurs`, that the
expenses a request is about are its own bill's, and `SameCharges` and `LostCharges` for what a bill is charged
before and after.

*Shopping.*  `RequestsHold` says what a handler tested and still carries: an item being edited was not bought
when it was loaded and keeps its list and its expense, a cart is of items that were not bought,
and keys are never used twice (`KeysAreUsed`).  `NamesAreLive` is inductive with these.  A commit reaches the lists
in one of few ways (`Writers`), so `OneCommitPerTrip` needs one case per way.  With one request at a time
`Fresh` says that what was loaded is what the tables still hold, for the rows of the stock that a trip has
read so far as well; from
it follow the items of a trip, that a bought item stays, and the stock.  The sum in
`TripFillsStock` is over any finite set of items: `SumIsNat` shows that it is a number, from the recursion of
the fold and a least set for which it would not be one.

*Stock.*  The unique title is a constraint at every commit that writes one, a trip's too, and inductive with the
types.  `StockInv` adds that the copy an adjustment carries differs from the row it loaded by its step and in
the quantity alone (`StepApplied`), and that the copy is the row where nothing overlaps (`CopyIsFresh`);
from the first follows `ExactStep`, from the second `RelativeStep`.

*Membership.*  `CreatorInv` says that no request in flight aims at the creator, since each guard
refuses it at the load; only then does no commit touch the creator.  `RoleInv` does the same for
members who wait: a request that promotes loaded an active member, and nobody goes back to waiting.
`DecisionInv` is why two overlapping decisions end well and three do not: of two workers that decide on one
request to join, at most one is left once it is decided (`DecidedOnce`), and a membership it loaded
decided has not changed since (`LoadedDecided`).  `LimitsInv` says that what a handler counted before its insert
still holds at the commit while it is alone (`StillTested`), and `InvitesInv` that an open invitation let in
nobody.

*Access.*  `LockInv` counts: the failures recorded and the requests that passed the lock and have not yet
recorded theirs (`Testing`) stay below the bound together; a request enters `Testing` only while the
phone is not locked, and each recorded failure takes one out.  `SessionsInv` says that a login about to
open its session is of a member who was answered, if the member is still there, since no decision
makes one wait again; and where nothing overlaps, that the member is as the only decision found it, so
that a refusal can only meet one without a session.  `AccessStep` lists what a step may do to the
member, the sessions, a login and a decision.  `CodeOnce` needs no more than the types: the step that lets a request on
is the one that finds the code unused and marks it, in one statement.  `TrustInv` follows the secret a login
was checked against through its steps: where nothing overlaps it is one no reset has replaced.

*SmsReader.*  The hard case is a run that is cancelled between asking for its listener and getting it: it has a
listener and no cleanup left.  `RunsEnd` says that there is at most one such run and that every other
run is the current one; `ListenersAreOfRuns` that no listener is left behind; `ReceiverIsCurrent` that
a registered receiver has no listener but the current run's, and that without consent there is no
current run.  `RerunStep` shows that a cleanup followed by a start keeps all three, and that a name
for the new run is always free.  `FilterExact` adds that a run that watches has started
the receiver with the filter it ran with (`Watching`), and that a filter computed since the last change of a
sender is that of the accounts the first effect ran with, or they are asked for again (`Computed`);
the needle of a sender is then part of each address that is spelt as stored, and of no other.

*AppSession.*  `OwnPage` says what may be on its way at each phase: out of sight refreshes go out without a token,
and where logins are awaited the page is busy until the one it began has shown its member.
`OutPage` says why a page loaded after a logout cannot find the session: what is stored was never left, a page
without a key holds a session that is stored nowhere, and what a page waits for was not left
when the page was loaded; it holds for any number of tabs that write one storage.  `KeepPage` ties the
session of the only tab to the record and to the key the tab has had since it was loaded.

*SignIn.*  Every step is a stutter or has one of ten shapes (`Shapes`; a call that stays out is one of them),
and every answer is a form with at most one call that goes on (`Answering`); the four theorems go by these.  `ResendIsHeard` rests on the race between two clocks:
`WaitCovers` says that the countdown of the page outlasts the cool-down of the server, but while the answer
that starts it anew is under way, and `OneAtATime` that no second request can start the cool-down then,
because the buttons are closed.  That is false where the page came by an invitation, whose button
stays open, and needs that nobody asks for a reset code there.  `LastCheckCounts` says that the last check of
a number is about the last whole number typed, however many are under way.

*Entries, the chains.*  `EntryInv` says of each call what it has done by its stage: one that marks a question or a message as
handled has written its entry before (`Earned`), so nothing handled goes missing whichever call fails.
`SaveInv` counts openings of the form: a number is never used twice, while nothing fails there is one save at most, and
an opening that has its entry is closed or the save that wrote it goes on.  `TxInv` says that the ledger
and the page hold finitely many transactions, each with the money, the date and the repeating of one that
was entered; all that is proved about reports, dates and the bell starts from it.

*Entries, the sums.*  A sum of the code is a fold that takes elements in an order nobody chose.  `SumTakes` shows that
any element may be taken first, so sums split over parts (`AmountsSplit`), over the keys of a breakdown
(`PartsMake`), and keep an order between terms (`SumOrder`).  Inductions over sets go by a least
element, with the set that holds the claim as a defined set.  `WealthStep` follows the wealth from day to
day; `WeekAdds` and `ChartsAgree` are seven and thirty of them.  `WealthIsHeld` sums the accounts the other way.  A rounded
percentage is within half of one of what it rounds (`Rounded`), so n of them are off by n halves
(`PercentagesAre`).  A budget overrun in all is overrun in some category (`OverIsSomewhere`), and what
the budgets page calls remaining is never more than what the home page does (`LessIsLeft`).  The banners are
at most three because the two about budgets exclude each other, and exclude the one that asks for budgets.

*Entries, the calendar.*  Every date is given its number of days since the base year, in the Jalali calendar
(`Day`) and in the Gregorian one (`DayNumber`), from the lengths of its years in cycles of 33, and of 4, 100
and 400.  The conversions keep the number (`Kept`), the order of dates is that of numbers (`DayOrder`,
`KeptOrder`), and each number has its date (`DateOfDay`); `DatesKeep` and `DaysAdded` follow.  An occurrence is
counted by weeks, months or years from the start (`StepsAscend`), reaches every day that it falls on
(`StepsReach`), and the first step past the limit cuts the list where it should be cut (`UpToTheLimit`).

*Entries, the bell.*  The questions of a transaction do not depend on how far ahead the bell looks: a horizon
cuts one list (`QuestionsUpTo`), so a longer lead only adds notes (`LongerLead`), what is overdue is what is
due today, and what is soon is at most the lead ahead (`SoonIsAhead`).  Groups of notes and the events of days
are counted as sums of parts (`PartsCount`).

*Screens, the back button.*  `HistInv` says that each open layer has its guard (`Covered`), that guards lie in the
order of the layers (`Ordered`), and that the entries of the history are the guards and the backs still to be
taken (`Counted`).  The box of messages alone may be open without a guard, until the effects of the answer
that opened it have run; then it has one (`SettledIs`).  A cleanup takes a guard out of the stack and owes a back, a mount puts one on
top; both are folds over the layers, followed by the least number of them for which they would not keep the
order.  A step keeps it if what it opens lies over what stays (`RenderedKeeps`), which is a step about each
button.  Two stacks in one order are equal as soon as they have the same layers.

*Screens, the data.*  `TypeInv` carries, with the types, that a tick there is has stood (`FormAtIs`) and that the steps of
a call are those of its handler, from which `OnlyMeantAdjusts` follows.  `CalmInv` is about each kind of data
separately: it is excused (a handler that was left before its refresh, a form still open), or a call under way
will read it, or the last read on its way carries what the server holds, or it is shown as it is.  Reads answer in the order they
were sent (`GotInv`), and a handler that is alive belongs to the page in sight (`OwnInv`).  What closes an account's form
is not the box and reads the family afterwards (`Finishes`).  For the search a
turn that was answered is the last one typed (`SearchInv`).

**What the proofs changed.**  Proofs that did not go through showed where a model was wrong.  In AppSession a
login now leaves a logout in flight, a removal from the storage can fail wherever one is awaited, and
`NotFinishedRejects` is the login whose clean-up fails.  In SignIn the failure of what follows a
code, which `verifyOtp` does not await (`useAuthModel.ts:469`), no longer opens the buttons that a later
tap has closed (`Awaited`).  In Screens and SignIn two CASEs had overlapping guards, where TLC takes the
first and a proof may take none; they are now IF/ELSE, in the order of the code.

**Model-checked only.**  `WithdrawalSilences` and `ConsentIsHeard` of SmsReader, `BootEnds` of AppSession and
`BusyEnds` of SignIn: liveness under fairness is outside what TLAPS proves.

## 5. What is not modelled

* Formats, wording, colours, the parser of bank messages (a pure function of a text), amounts
  beyond a few values.  Dates are modelled, as the app and nothing else computes with them.
* Row policies of PostgreSQL: each request runs in the context of one family, so one family is
  modelled.
* The limits per address: a refused request is one that was never sent.
* The server's side of messages, market prices, categories, events, notifications and accounts.
  What the app does with their answers is in Entries, Home, Pages and Screens.
* Components marked `not_modelled` in `PROJECT.json`, with a reason each.

## 6. Plan

Done: Bills, Inventory, Shopping, Membership, Access, SmsReader; AppSession, SignIn, Jalali, Reports, Home,
Entries, BackGuard, Pages, Screens, and the proofs of their safety properties.  To come, by importance:

1. **SmsIngest** (`messaging.py`, `sms_settings.py`): three ways in, the consent read before the
   insert, bridges that are switched off and added.
2. **MarketCache** (`market.py`): threads, one lock per source, time to live, fall back.
3. Categories, events and notifications of the service: check then insert, merge of preferences.
