------------------------------- MODULE Screens ------------------------------
(***************************************************************************)
(* The pages of the app around one person: App.MainShell, the settings and *)
(* their sections, the sheets, the back button, and the handlers of Pages  *)
(* whose answers arrive while she goes on tapping.                         *)
(*                                                                         *)
(* A tap is handled and its effects are run before the next one, as React  *)
(* does for the events of the user; the state an answer sets is rendered   *)
(* at once, and its effects (which move the history) run later, in         *)
(* Effects. Of a page's sheets and of a screen's rows one stands for all.  *)
(*                                                                         *)
(* tour and calm do not change: the part of the app she goes through, and  *)
(* whether the calls are answered in order and without failure.            *)
(***************************************************************************)
EXTENDS BackGuard, Pages

CONSTANTS Tours, MaxCalls, MaxWrites, MaxTravels, MaxTyping, MaxSpend, Balances, Queries,
          Null

\* The sheets of the app, what opens over one or over a page, and over everything the box
\* of the messages nobody has registered, with the date picker in it.
Sheets == {"sheet", "account", "bell", "form"}
Overs == {"picker", "import"}

ASSUME NullIsNoValue ==
  Null \notin Queries \cup DOMAIN SectionOf \cup {"page", "section", "box", "date"} \cup Sheets \cup Overs

ASSUME ToursAssumption ==
  Tours \subseteq [pages: SUBSET (DOMAIN PageOf \ {"hub"}),
                   section: DOMAIN SectionOf \cup {Null}, also: SUBSET STRING]

\* The form of an account: the number in it, the one it was filled with, and the tick.
\* stands is history: a tick was given and has stood, with a difference to see, ever since.
Forms == [typed: Int, filled: Int, ack: BOOLEAN, stands: BOOLEAN]

ASSUME FormsAssumption == Balances \subseteq Int /\ Null \notin Forms

VARIABLES tour,    \* [pages, section, also]: what she may open
          calm, route,
          ui,      \* [section, sheet, over, box, date]
          deep,    \* App.settingsSection
          hist,    \* BackGuard
          calls,   \* what the handlers await, in the order it was sent
          server,  \* how often each kind of data was changed, and an account's balance
          shown,   \* the same, as it was last read
          behind,  \* what a handler wrote and did not read again
          writes, form, smsDirty, spent,
          search,  \* useStockSearch
          loads    \* answers to PendingSmsFeature.load that are still to come

vars == <<tour, calm, route, ui, deep, hist, calls, server, shown, behind, writes, form,
          smsDirty, spent, search, loads>>
pool == <<tour, calm, loads>>

Data == {"family", "own", "bell"}
Blank == [section |-> Null, sheet |-> Null, over |-> Null, box |-> Null, date |-> Null]

\* What is open over the hub, the outermost first.
Open(l) == IF l = Null THEN <<>> ELSE <<l>>
Layers(r, u) ==
  Open(IF r = "hub" THEN Null ELSE "page")
    \o Open(IF u.section = Null THEN Null ELSE "section") \o Open(u.sheet) \o Open(u.over)
    \o Open(u.box) \o Open(u.date)

ScreenAt(r, u) == IF u.section = Null THEN PageOf[r] ELSE SectionOf[u.section]
Showing == ScreenAt(route, ui)

Settled == ToSet(hist.guards) = ToSet(Layers(route, ui))
Tapped == Settled /\ hist.travels < MaxTravels

NoSearch == [query |-> Null, turn |-> 0, data |-> Null, loading |-> FALSE,
             error |-> FALSE, due |-> FALSE, asks |-> {}]

Init ==
  /\ tour \in Tours /\ calm \in BOOLEAN
  /\ route = "hub" /\ ui = Blank /\ deep = Null /\ hist = NoGuards
  /\ calls = <<>> /\ writes = 0 /\ behind = {}
  /\ server = [family |-> 0, own |-> 0, bell |-> 0, balance |-> 0]
  /\ shown = [family |-> 0, own |-> Null, bell |-> 0, balance |-> 0]
  /\ form = Null /\ smsDirty = FALSE /\ spent = 0 /\ search = NoSearch
  /\ loads = IF "box" \in tour.also THEN 1 ELSE 0

-----------------------------------------------------------------------------
(***************************************************************************)
(* A call: its handler, the steps left, what the server held when the      *)
(* first of them got there, and the part of the interface that awaits it.  *)
(***************************************************************************)
Call(h, part, adj) ==
  [h |-> h, todo |-> h.steps, part |-> part, sheet |-> ui.sheet, alive |-> TRUE,
   got |-> server, adj |-> adj, saved |-> IF adj = 0 THEN Null ELSE form]

\* The first step of c is sent, after those of cs; unread is what was behind till now.
Send(cs, c, unread) ==
  LET do    == Head(c.todo).do
      wrote == [server EXCEPT
                  !.family = @ + (IF "family" \in c.h.writes THEN 1 ELSE 0),
                  !.own = @ + (IF "own" \in c.h.writes THEN 1 ELSE 0),
                  !.bell = @ + (IF "bell" \in c.h.writes THEN 1 ELSE 0),
                  !.balance = @ + (IF do = "adjust" THEN c.adj ELSE 0)]
  IN /\ Len(cs) < MaxCalls
     /\ server' = IF do \in {"call", "adjust"} THEN wrote ELSE server
     /\ calls' = Append(cs, [c EXCEPT !.got = server'])
     /\ behind' = IF do \in {"call", "adjust"} THEN unread \cup c.h.leaves ELSE unread

Busy(h, part) ==
  /\ h.flag # "none"
  /\ \E i \in DOMAIN calls :
       calls[i].alive /\ calls[i].part = part /\ calls[i].h.flag = h.flag

\* key={route} and the branch of a section: what goes takes its state along, and what
\* comes reads its list. (A tile of the market is no component with a list of its own.)
Gone(r, u) ==
  (IF r # route THEN {"page", "section"} ELSE IF u.section # ui.section THEN {"section"} ELSE {})
    \cup (IF u.sheet # "form" THEN {"import"} ELSE {})

Unmounted(cs, parts) ==
  [i \in DOMAIN cs |-> IF cs[i].part \in parts THEN [cs[i] EXCEPT !.alive = FALSE] ELSE cs[i]]

Remounts(r, u) == r # route \/ (r = "settings" /\ u.section # ui.section)

\* useAccountsModel.close: a refresh the switch of the messages has put off is started.
ClosesAccount(u) == form # Null /\ u.sheet # "account"

Move(r, u) ==
  LET left == Unmounted(calls, Gone(r, u))
  IN /\ route' = r /\ ui' = u
     /\ shown' = [shown EXCEPT !.own = IF Remounts(r, u) THEN Null ELSE @]
     /\ IF Remounts(r, u) /\ ScreenAt(r, u).own
        THEN Send(left, Call(Reload, IF u.section = Null THEN "page" ELSE "section", 0), behind)
        ELSE IF ClosesAccount(u) /\ smsDirty THEN Send(left, Call(Refresh, "page", 0), behind)
        ELSE calls' = left /\ UNCHANGED <<server, behind>>
     /\ smsDirty' = (smsDirty /\ ~ClosesAccount(u) /\ ~Remounts(r, u))
     /\ form' = IF ClosesAccount(u) THEN Null ELSE form
     /\ search' = IF u.section = "stock" THEN search ELSE NoSearch
     /\ UNCHANGED <<pool, writes, spent>>

\* A tap that moves: what it renders is followed by its effects.
Show(r, u) == Tapped /\ Move(r, u) /\ hist' = Rendered(hist, Layers(r, u))

-----------------------------------------------------------------------------
\* App.nav and the tiles of the hub, the links of the dashboard.
Nav(r) == Show(r, Blank) /\ deep' = Null

EnterFromHub == route = "hub" /\ ui = Blank /\ \E r \in tour.pages : Nav(r)

LinkOfDashboard ==
  /\ route = "dashboard" /\ ui = Blank
  /\ \E r \in tour.pages \cap {"transactions", "budgets"} : Nav(r)

\* NotificationCenterFeature: the bell's sheet, and where its items lead.
OpenBell ==
  /\ route = "hub" /\ ui = Blank /\ "bell" \in tour.also
  /\ Show(route, [ui EXCEPT !.sheet = "bell"]) /\ UNCHANGED deep

FromBell ==
  /\ ui.sheet = "bell" /\ ui.box = Null
  /\ \E r \in tour.pages \cap {"bills", "inventory"} : Nav(r)

\* App.navSettingsSection
FromBellToRequests ==
  /\ ui.sheet = "bell" /\ ui.box = Null
  /\ "settings" \in tour.pages /\ tour.section = "joinRequests"
  /\ deep' = "joinRequests"
  /\ Show("settings", [Blank EXCEPT !.section = "joinRequests"])

FromBellToForm ==
  /\ ui.sheet = "bell" /\ ui.box = Null /\ "form" \in tour.also
  /\ Show(route, [ui EXCEPT !.sheet = "form"]) /\ UNCHANGED deep

\* useTxFormModel.openNew, openEdit and openForOccurrence, from where they are called.
OpenForm ==
  /\ route \in {"hub", "dashboard", "transactions"} /\ ui = Blank /\ "form" \in tour.also
  /\ Show(route, [ui EXCEPT !.sheet = "form"]) /\ UNCHANGED deep

OpenImport ==
  /\ ui.sheet = "form" /\ ui.over = Null /\ ui.box = Null /\ "import" \in tour.also
  /\ Show(route, [ui EXCEPT !.over = "import"]) /\ UNCHANGED deep

\* The list of the settings, and the tiles of the market.
OpenSection ==
  /\ route \in {"settings", "market"} /\ ui = Blank /\ tour.section # Null
  /\ Show(route, [ui EXCEPT !.section = tour.section]) /\ UNCHANGED deep

OpenSheet ==
  /\ ui.sheet = Null /\ ui.box = Null /\ Showing.sheet # {}
  /\ Show(route, [ui EXCEPT !.sheet = "sheet"]) /\ UNCHANGED deep

\* JalaliDatePicker, in a sheet with a date or on a page that has one, or in the box.
OpenDate ==
  /\ ui.box # Null /\ ui.date = Null
  /\ Show(route, [ui EXCEPT !.date = "date"]) /\ UNCHANGED deep

OpenPicker ==
  /\ ui.over = Null /\ ui.box = Null
  /\ \/ ui.sheet = "form"
     \/ Showing.picker /\ (ui.sheet = "sheet" \/ (ui.sheet = Null /\ Showing.sheet = {}))
  /\ Show(route, [ui EXCEPT !.over = "picker"]) /\ UNCHANGED deep

Unboxed(u) == [u EXCEPT !.box = Null, !.date = Null]

Under(u) ==
  IF u.date # Null THEN [u EXCEPT !.date = Null]
  ELSE IF u.box # Null THEN Unboxed(u)
  ELSE IF u.over # Null THEN [u EXCEPT !.over = Null]
  ELSE [u EXCEPT !.sheet = Null]

\* Modal, JalaliDatePicker: the button, the backdrop, Escape or a drag; only the top.
Cancel ==
  /\ ui.sheet # Null \/ ui.over # Null \/ ui.box # Null
  /\ Show(route, Under(ui)) /\ UNCHANGED deep

\* SettingsSubPage and the header of a market tile.
BackArrow ==
  /\ ui.section # Null /\ ui.sheet = Null /\ ui.over = Null /\ ui.box = Null
  /\ Show(route, Blank) /\ UNCHANGED deep

-----------------------------------------------------------------------------
\* The close() of a layer, called by the back button of the phone or the browser. The box
\* is the shell's: it stays if its guard has not been pushed yet.
CloseLayer(l) ==
  /\ CASE l = "page" -> Move("hub", [Blank EXCEPT !.box = ui.box, !.date = ui.date])
       [] l = "section" -> Move(route, [ui EXCEPT !.section = Null])
       [] l \in Overs -> Move(route, [ui EXCEPT !.over = Null])
       [] l \in Sheets -> Move(route, [ui EXCEPT !.sheet = Null, !.over = Null])
       [] l = "box" -> Move(route, Unboxed(ui))
       [] l = "date" -> Move(route, [ui EXCEPT !.date = Null])
       [] OTHER -> Move(route, ui)
  /\ deep' = IF l = "page" THEN Null ELSE deep

\* The browser goes back in the order it was asked to: the user's back comes after the
\* module's own. On the hub with nothing open it leaves the app, and is not followed.
UserBack ==
  /\ hist.travels = 0 /\ hist.depth > 0
  /\ CloseLayer(Closes(hist, Null))
  /\ hist' = GoBack(hist)

\* The module's own history.back() gets there.
Travelled ==
  /\ hist.travels > 0
  /\ CloseLayer(Closes(hist, Null))
  /\ hist' = GoBack([hist EXCEPT !.travels = @ - 1])

\* useBackGuard, after the render of an answer or of a back.
Effects ==
  /\ ~Settled
  /\ hist' = Rendered(hist, Layers(route, ui))
  /\ UNCHANGED <<pool, route, ui, deep, calls, server, shown, behind, writes, form, smsDirty,
                 spent, search>>

-----------------------------------------------------------------------------
\* A button: who answers to it is the top of what is shown.
Buttons ==
  IF ui.date # Null THEN {}
  ELSE IF ui.box # Null THEN PendingBox
  ELSE IF ui.over = "import" THEN {SaveImport}
  ELSE IF ui.over # Null THEN {}
  ELSE CASE ui.sheet = "form" -> {SaveForm}
         [] ui.sheet = "bell" -> NotificationCenter
         [] ui.sheet = "sheet" -> Showing.sheet
         [] ui.sheet = "account" -> {ToggleSms}
         [] OTHER -> Showing.page

Part ==
  IF ui.box # Null THEN "box"
  ELSE IF ui.over = "import" THEN "import"
  ELSE IF ui.sheet \in {"form", "bell"} THEN "shell"
  ELSE IF route = "settings" /\ ui.section # Null THEN "section"
  ELSE "page"

Start(h, adj) ==
  /\ Settled /\ writes < MaxWrites /\ ~Busy(h, Part)
  /\ writes' = writes + 1
  /\ Send(calls, Call(h, Part, adj), behind)
  /\ UNCHANGED <<pool, route, ui, deep, hist, shown, form, smsDirty, spent, search>>

Press == \E h \in Buttons : Start(h, 0)

\* useNativeSmsReader, when it has added messages: App.bumpRefresh.
ReaderImports ==
  /\ "reader" \in tour.also /\ writes < MaxWrites
  /\ writes' = writes + 1
  /\ Send(calls, Call(ImportedByReader, "shell", 0), behind)
  /\ UNCHANGED <<pool, route, ui, deep, hist, shown, form, smsDirty, spent, search>>

-----------------------------------------------------------------------------
\* The answer of a step: what it shows, and what it closes.
AfterRead(c, do, then) ==
  LET patched == IF "patch" \in then THEN c.h.writes ELSE {}
  IN [family |-> IF do = "refresh" \/ "family" \in patched THEN c.got.family ELSE shown.family,
      own |-> IF c.alive /\ (do = "reload" \/ "own" \in patched) THEN c.got.own ELSE shown.own,
      bell |-> IF do = "ring" \/ "bell" \in patched THEN c.got.bell ELSE shown.bell,
      balance |-> IF do = "refresh" THEN c.got.balance ELSE shown.balance]

AfterClose(c, then) ==
  IF c.part = "box" THEN IF "close" \in then THEN Unboxed(ui) ELSE ui
  ELSE IF "close" \in then /\ ui.sheet = c.sheet /\ (c.alive \/ c.part = "import")
  THEN [ui EXCEPT !.sheet = Null, !.over = Null]
  ELSE IF "shut" \in then /\ c.alive /\ ui.over = "import" THEN [ui EXCEPT !.over = Null]
  ELSE ui

\* useAccountsModel: the tick goes when the number is back at the balance.
UntickedMutant(f, balance) == f

Unticked(f, balance) ==
  IF f # Null /\ f.typed = balance THEN [f EXCEPT !.ack = FALSE] ELSE f

\* The form at a balance: a tick has not stood if there was nothing to tick.
FormAt(f, balance) ==
  IF f # Null /\ f.typed = balance THEN [Unticked(f, balance) EXCEPT !.stands = FALSE]
  ELSE Unticked(f, balance)

\* What is behind after the answer: the read has caught up with its kind of data, and a
\* refresh that was put off is missed, if the account it was put off for is closed.
StillBehind(c, step) ==
  LET read == {d \in {"family"} : step.do = "refresh"} \cup {d \in {"bell"} : step.do = "ring"}
                \cup {d \in {"own"} : step.do = "reload"}
      late == {d \in {"family"} : "dirty" \in step.then /\ ~(c.alive /\ form # Null)}
  IN (behind \cup late) \ {d \in read : c.got[d] = server[d]}

\* App.bumpRefresh: after its refresh the bell is read again, and the messages nobody has
\* registered, unless their box is open.
Bumps(todo) == Len(todo) > 1 /\ todo[1].do = "refresh" /\ todo[2].do = "ring"

\* The answers of a calm connection come in the order the calls were sent.
Arrive ==
  \E i \in DOMAIN calls :
    LET c    == calls[i]
        step == Head(c.todo)
        u    == AfterClose(c, step.then)
        left == Unmounted(RemoveAt(calls, i), IF u.sheet # "form" THEN {"import"} ELSE {})
        flag == IF "free" \in step.then THEN "none" ELSE c.h.flag
    IN /\ calm => i = 1
       /\ ui' = u
       /\ shown' = AfterRead(c, step.do, step.then)
       /\ form' = IF u.sheet # "account" THEN Null ELSE FormAt(form, shown'.balance)
       /\ smsDirty' = IF u.sheet # ui.sheet THEN FALSE
                      ELSE smsDirty \/ ("dirty" \in step.then /\ c.alive)
       /\ IF Len(c.todo) = 1
          THEN calls' = left /\ server' = server /\ behind' = StillBehind(c, step)
          ELSE Send(left, [c EXCEPT !.todo = Tail(@), !.h.flag = flag], StillBehind(c, step))
       /\ loads' = IF Bumps(c.todo) /\ "box" \in tour.also /\ u.box = Null THEN loads + 1
                   ELSE loads
       /\ UNCHANGED <<tour, calm, route, deep, hist, writes, spent, search>>

\* A call fails: what the handler's catch awaits, if anything.
Fail ==
  /\ ~calm
  /\ \E i \in DOMAIN calls :
       LET c == calls[i]
       IN IF c.h.recover = <<>>
          THEN calls' = RemoveAt(calls, i) /\ UNCHANGED <<server, behind>>
          ELSE Send(RemoveAt(calls, i),
                    [c EXCEPT !.todo = c.h.recover, !.h.recover = <<>>, !.h.writes = {}], behind)
  /\ UNCHANGED <<pool, route, ui, deep, hist, shown, writes, form, smsDirty, spent, search>>

\* PendingSmsFeature: the messages asked for when the app starts, or after a bump, open
\* their box over whatever is shown. (A box that was closed has run its effects by then.)
BoxOpens ==
  /\ loads > 0 /\ loads' = loads - 1
  /\ ui.box = Null => "box" \notin ToSet(hist.guards)
  /\ ui' = [ui EXCEPT !.box = "box"]
  /\ UNCHANGED <<tour, calm, route, deep, hist, calls, server, shown, behind, writes, form,
                 smsDirty, spent, search>>

-----------------------------------------------------------------------------
(***************************************************************************)
(* useAccountsModel: the balance of an account in the form. The number is  *)
(* filled in when the form opens; a save adds the difference from the      *)
(* balance shown at that moment, if its change has been ticked.            *)
(***************************************************************************)
OpenAccount ==
  /\ Showing = AccountsPage /\ ui.sheet = Null /\ ui.box = Null /\ "account" \in tour.also
  /\ Tapped
  /\ ui' = [ui EXCEPT !.sheet = "account"]
  /\ form' = [typed |-> shown.balance, filled |-> shown.balance, ack |-> FALSE,
              stands |-> FALSE]
  /\ hist' = Rendered(hist, Layers(route, ui'))
  /\ UNCHANGED <<pool, route, deep, calls, server, shown, behind, writes, smsDirty, spent,
                 search>>

Edit(f) ==
  /\ Settled /\ ui.box = Null
  /\ form' = f
  /\ UNCHANGED <<pool, route, ui, deep, hist, calls, server, shown, behind, writes, smsDirty,
                 spent, search>>

TypeBalance ==
  /\ form # Null
  /\ \E n \in Balances \ {form.typed} : Edit(FormAt([form EXCEPT !.typed = n], shown.balance))

Changed == form.typed # shown.balance

\* The tick is offered for any difference, and can be taken back.
TickChange ==
  /\ form # Null /\ Changed
  /\ Edit([form EXCEPT !.ack = ~@, !.stands = ~form.ack])

SaveTheAccount ==
  /\ form # Null /\ ui.box = Null /\ (Changed => form.ack)
  /\ IF Changed THEN Start(AdjustAccount, form.typed - shown.balance) ELSE Start(SaveAccount, 0)

\* Another member, or her own phone's reader, spends from the account.
OtherSpends ==
  /\ "account" \in tour.also /\ spent < MaxSpend
  /\ spent' = spent + 1
  /\ server' = [server EXCEPT !.balance = @ - 1]
  /\ UNCHANGED <<pool, route, ui, deep, hist, calls, shown, behind, writes, form, smsDirty,
                 search>>

-----------------------------------------------------------------------------
(***************************************************************************)
(* useStockSearch: 350 ms after the last key the query is asked, and only  *)
(* the answer to the last turn is shown. Null is a query of one letter.    *)
(***************************************************************************)
Searching(s) ==
  /\ ui.section = "stock"
  /\ search' = s
  /\ UNCHANGED <<pool, route, ui, deep, hist, calls, server, shown, behind, writes, form,
                 smsDirty, spent>>

\* clear() is the same with nothing typed.
TypeQuery ==
  /\ search.turn < MaxTyping /\ ui.box = Null
  /\ \E q \in (Queries \cup {Null}) \ {search.query} :
       Searching([search EXCEPT !.query = q, !.turn = @ + 1, !.error = FALSE,
                                !.loading = (q # Null), !.due = (q # Null),
                                !.data = IF q = Null THEN Null ELSE @])

Ask ==
  /\ search.due
  /\ Searching([search EXCEPT !.due = FALSE,
                              !.asks = @ \cup {[turn |-> search.turn, query |-> search.query]}])

Found ==
  \E a \in search.asks :
    Searching([search EXCEPT !.asks = @ \ {a},
                            !.data = IF a.turn = search.turn THEN a.query ELSE @,
                            !.loading = (@ /\ a.turn # search.turn)])

NotFound ==
  \E a \in search.asks :
    Searching([search EXCEPT !.asks = @ \ {a},
                            !.error = (@ \/ a.turn = search.turn),
                            !.loading = (@ /\ a.turn # search.turn)])

-----------------------------------------------------------------------------
Taps == EnterFromHub \/ LinkOfDashboard \/ OpenBell \/ FromBell \/ FromBellToRequests
          \/ FromBellToForm \/ OpenForm \/ OpenImport \/ OpenSection \/ OpenSheet
          \/ OpenPicker \/ OpenDate \/ Cancel \/ BackArrow \/ UserBack \/ Press
Account == OpenAccount \/ TypeBalance \/ TickChange \/ SaveTheAccount \/ OtherSpends
Search == TypeQuery \/ Ask \/ Found \/ NotFound
Answers == Arrive \/ Fail \/ ReaderImports \/ BoxOpens \/ Travelled \/ Effects

Next == Taps \/ Account \/ Search \/ Answers
Spec == Init /\ [][Next]_vars

-----------------------------------------------------------------------------
\* When the history has caught up, each open layer has its guard and its one entry, in the
\* order of the layers: a back closes the top, and none does nothing. (Not for the section
\* a notice of the bell leads to: its guard is pushed before that of its page.)
BackWorks ==
  Settled /\ hist.travels = 0 /\ deep = Null =>
    /\ hist.guards = Layers(route, ui)
    /\ hist.depth = Len(hist.guards) /\ hist.internalBacks = 0

\* When every handler is through, what is shown is what the server holds: of the family,
\* of a page's own list and of the bell, but for what a handler leaves behind; and the
\* stocks under the box are those of the query in it.
ScreensAreCurrent ==
  /\ calm /\ calls = <<>> =>
       \A d \in Data \ behind :
         \/ shown[d] = server[d]
         \/ d = "own" /\ shown.own = Null
         \/ d = "family" /\ smsDirty
  /\ ~search.loading /\ ~search.error => search.data = search.query

\* A balance is adjusted only by a tick that has stood: where number and balance have
\* agreed since it was given, by her typing or by a refresh while others spend, it must
\* not come back with the next difference (useAccountsModel.ts:146-154, 273-279).
OnlyMeantAdjusts ==
  \A i \in DOMAIN calls : calls[i].adj # 0 => calls[i].saved # Null /\ calls[i].saved.stands

\* "If the user returns the number to its initial value, the earlier confirmation must be
\* void" (useAccountsModel.ts:151): violated, the number is compared with the balance.
PutBackIsUnticked ==
  [][form # Null /\ form' # Null /\ form'.typed # form.typed /\ form'.typed = form'.filled
       => ~form'.ack]_vars
=============================================================================
