------------------------------ MODULE AppSession -----------------------------
(***************************************************************************)
(* The session of the app on one device: AppProvider, the use cases of     *)
(* auth.usecases.ts, sessionRepository.ts over secureStorage.adapter.ts,   *)
(* restClient.ts, and the places that start them (App, AuthFeature,        *)
(* useAuthModel, SettingsPage).                                            *)
(*                                                                         *)
(* The tabs of the device share one IndexedDB and ask one server.  Every   *)
(* await is a place where another tab, the server or an answer comes in.   *)
(* Each session is told apart from every other, so it stands for its       *)
(* member and family as well.                                              *)
(***************************************************************************)
CONSTANTS
  Tabs,
  Sessions,  \* tokens the server issues, each once
  Devices,   \* the kinds of device that are looked at
  Null       \* nothing stored, nothing shown, no token

VARIABLES
  page,      \* the memory of each tab
  storedKey, \* IndexedDB: the key, named by the tab that made it
  record,    \* IndexedDB: the session, encrypted
  issued, alive, \* the server's table of sessions
  device,    \* the device, fixed
  left       \* history: sessions a member has logged out of

vars == <<page, storedKey, record, issued, alive, device, left>>

-----------------------------------------------------------------------------
Token == Sessions \cup {Null}

\* step is where the page awaits; asks is a login in flight; ends holds the
\* finish() runs that validate, reads the refreshes, under the tokens they took.
Page == [phase: {"closed", "boot", "auth", "ready"},
         step: {"key", "newKey", "load", "validate", "body", "stuck",
                "form", "use", "logout"},
         key: Tabs \cup {Null}, cache: Token, member: Token, lists: Token,
         asks: BOOLEAN, busy: BOOLEAN, ends: SUBSET Sessions, reads: SUBSET Token,
         seen: SUBSET Sessions]

Record == [session: Sessions, key: Tabs]

ASSUME NullAssumption == Null \notin Tabs \cup Sessions \cup Record

\* The tabs that are ever open, whether operations of IndexedDB may fail, and
\* whether the server wants a code at a login.
Device == [tabs: SUBSET Tabs, broken: BOOLEAN, codes: BOOLEAN]

ASSUME DevicesAssumption == Devices \subseteq Device

TypeOK ==
  /\ page \in [Tabs -> Page]
  /\ storedKey \in Tabs \cup {Null}
  /\ record \in {Null} \cup Record
  /\ alive \subseteq issued /\ issued \subseteq Sessions
  /\ device \in Devices /\ left \subseteq Sessions

\* A page just loaded; seen is history: the sessions logged out of by then.
NewPage(phase) ==
  [phase |-> phase, step |-> "key", key |-> Null, cache |-> Null, member |-> Null,
   lists |-> Null, asks |-> FALSE, busy |-> FALSE, ends |-> {}, reads |-> {},
   seen |-> left]

Init ==
  /\ left = {}
  /\ page = [t \in Tabs |-> NewPage("closed")]
  /\ storedKey = Null /\ record = Null
  /\ issued = {} /\ alive = {}
  /\ device \in Devices

At(t, phase, step) == page[t].phase = phase /\ page[t].step = step
Becomes(t, p) == page' = [page EXCEPT ![t] = p]
Server == <<issued, alive>>
Disk == <<storedKey, record>>

\* A session is stored under the key of the page; in memory when there is none.
Put(t, s) == record' = IF page[t].key = Null THEN record ELSE [session |-> s, key |-> page[t].key]
Remove(t) == record' = IF page[t].key = Null THEN record ELSE Null

-----------------------------------------------------------------------------
\* Opening, killing and closing a tab.
Open(t) ==
  /\ t \in device.tabs /\ page[t].phase = "closed"
  /\ Becomes(t, NewPage("boot"))
  /\ UNCHANGED <<Disk, Server, device, left>>

Close(t) ==
  /\ page[t].phase # "closed"
  /\ Becomes(t, NewPage("closed"))
  /\ UNCHANGED <<Disk, Server, device, left>>

\* createSecureStorage: the key is read, or made and then written.
ReadKey(t) ==
  /\ At(t, "boot", "key")
  /\ Becomes(t, [page[t] EXCEPT !.key = storedKey,
                                !.step = IF storedKey = Null THEN "newKey" ELSE "load"])
  /\ UNCHANGED <<Disk, Server, device, left>>

WriteKey(t) ==
  /\ At(t, "boot", "newKey")
  /\ storedKey' = t
  /\ Becomes(t, [page[t] EXCEPT !.key = t, !.step = "load"])
  /\ UNCHANGED <<record, Server, device, left>>

\* No IndexedDB: the page keeps its session in memory.
NoDatabase(t) ==
  /\ device.broken /\ (At(t, "boot", "key") \/ At(t, "boot", "newKey"))
  /\ Becomes(t, [page[t] EXCEPT !.step = "load"])
  /\ UNCHANGED <<Disk, Server, device, left>>

\* get: a record that cannot be decrypted is like none.
Readable(t) == page[t].key # Null /\ record # Null /\ record.key = page[t].key

\* load rejects outside the try of restoreSession, and nothing catches it.
LoadRejects(t) ==
  /\ device.broken /\ At(t, "boot", "load") /\ page[t].key # Null
  /\ Becomes(t, [page[t] EXCEPT !.step = "stuck"])
  /\ UNCHANGED <<Disk, Server, device, left>>

Load(t) ==
  /\ At(t, "boot", "load")
  /\ Becomes(t, IF Readable(t)
                THEN [page[t] EXCEPT !.cache = record.session, !.step = "validate"]
                ELSE [page[t] EXCEPT !.phase = "auth", !.step = "form"])
  /\ UNCHANGED <<Disk, Server, device, left>>

\* The headers of the answer arrive and stop the timer of the call; the body
\* may never come.
HeadersArrive(t) ==
  /\ At(t, "boot", "validate") /\ page[t].cache \in alive
  /\ Becomes(t, [page[t] EXCEPT !.step = "body"])
  /\ UNCHANGED <<Disk, Server, device, left>>

\* The page as the member of session s sees it; the effect on the phase starts a
\* refresh, finish() another one, both under the token in the cache.  A logout on
\* its way goes on.
Authenticated(p, s) ==
  [p EXCEPT !.phase = "ready", !.step = IF @ = "logout" THEN @ ELSE "use", !.member = s,
            !.reads = @ \cup {p.cache}]

Restored(t) ==
  /\ At(t, "boot", "body")
  /\ Becomes(t, Authenticated(page[t], page[t].cache))
  /\ UNCHANGED <<Disk, Server, device, left>>

\* The call is not given up after 15 seconds.
NotRestoredMutant(t) ==
  /\ At(t, "boot", "validate") /\ page[t].cache \notin alive
  /\ Becomes(t, [page[t] EXCEPT !.cache = Null, !.phase = "auth", !.step = "form"])
  /\ Remove(t)
  /\ UNCHANGED <<storedKey, Server, device, left>>

\* validateSession fails, refused or not answered within 15 seconds, and
\* whatever is stored is removed.
NotRestored(t) ==
  /\ At(t, "boot", "validate")
  /\ Becomes(t, [page[t] EXCEPT !.cache = Null, !.phase = "auth", !.step = "form"])
  /\ Remove(t)
  /\ UNCHANGED <<storedKey, Server, device, left>>

\* The connection breaks in the body.
BodyBreaks(t) ==
  /\ At(t, "boot", "body")
  /\ Becomes(t, [page[t] EXCEPT !.cache = Null, !.phase = "auth", !.step = "form"])
  /\ Remove(t)
  /\ UNCHANGED <<storedKey, Server, device, left>>

\* The removal rejects in the catch: the boot never goes on.
NotRestoredRejects(t) ==
  /\ device.broken /\ page[t].key # Null
  /\ At(t, "boot", "validate") \/ At(t, "boot", "body")
  /\ Becomes(t, [page[t] EXCEPT !.cache = Null, !.step = "stuck"])
  /\ UNCHANGED <<Disk, Server, device, left>>

-----------------------------------------------------------------------------
\* submitLogin, submitRegister and verifyOtp, with what follows: saveSession, then
\* finish().  The first two await finish() and stay busy; with a code nobody does.
Login(t) ==
  /\ At(t, "auth", "form") /\ ~page[t].busy
  /\ Becomes(t, [page[t] EXCEPT !.asks = TRUE, !.busy = TRUE])
  /\ UNCHANGED <<Disk, Server, device, left>>

\* The server opens a session under a token it has never issued.
Opened == CHOOSE s \in Sessions : s \notin issued
OpensSession ==
  /\ issued # Sessions
  /\ issued' = issued \cup {Opened} /\ alive' = alive \cup {Opened}

\* The session is not written to the storage.
LoggedInMutant(t) ==
  /\ page[t].asks /\ OpensSession
  /\ Becomes(t, [page[t] EXCEPT !.asks = FALSE, !.cache = Opened, !.busy = ~device.codes,
                                !.ends = @ \cup {Opened}])
  /\ UNCHANGED <<Disk, device, left>>

LoggedIn(t) ==
  /\ page[t].asks /\ OpensSession
  /\ Becomes(t, [page[t] EXCEPT !.asks = FALSE, !.cache = Opened, !.busy = ~device.codes,
                                !.ends = @ \cup {Opened}])
  /\ Put(t, Opened)
  /\ UNCHANGED <<storedKey, device, left>>

\* The cache is set before the write that rejects; finish() does not run.
NotSaved(t) ==
  /\ device.broken /\ page[t].asks /\ page[t].key # Null /\ OpensSession
  /\ Becomes(t, [page[t] EXCEPT !.asks = FALSE, !.cache = Opened, !.busy = FALSE])
  /\ UNCHANGED <<Disk, device, left>>

\* The login is refused, or its answer is lost and the server may have opened a
\* session that nobody knows.
LoginFails(t) ==
  /\ page[t].asks
  /\ Becomes(t, [page[t] EXCEPT !.asks = FALSE, !.busy = FALSE])
  /\ OpensSession \/ UNCHANGED Server
  /\ UNCHANGED <<Disk, device, left>>

\* finish(): restoreSession has found s in the cache and validates it.
Finished(t, s) ==
  /\ s \in page[t].ends /\ s \in alive
  /\ Becomes(t, Authenticated([page[t] EXCEPT !.ends = @ \ {s}, !.busy = FALSE], s))
  /\ UNCHANGED <<Disk, Server, device, left>>

\* The validation fails, and the session just saved is removed again; the refresh
\* that follows goes out without a token.
NotFinished(t, s) ==
  /\ s \in page[t].ends
  /\ Becomes(t, [page[t] EXCEPT !.ends = @ \ {s}, !.busy = FALSE, !.cache = Null,
                                !.reads = @ \cup {Null}])
  /\ Remove(t)
  /\ UNCHANGED <<storedKey, Server, device, left>>

\* The removal rejects: no refresh follows.
NotFinishedRejects(t, s) ==
  /\ device.broken /\ page[t].key # Null /\ s \in page[t].ends
  /\ Becomes(t, [page[t] EXCEPT !.ends = @ \ {s}, !.busy = FALSE, !.cache = Null])
  /\ UNCHANGED <<Disk, Server, device, left>>

\* Step 2 of a forgotten password: the server ends the sessions of that member,
\* whose they are, and whatever is stored here is removed, if it can be.
ResetPassword(t, ended) ==
  /\ At(t, "auth", "form") /\ ~page[t].busy
  /\ alive' = alive \ ended
  /\ Becomes(t, [page[t] EXCEPT !.cache = Null])
  /\ Remove(t) \/ (device.broken /\ UNCHANGED record)
  /\ UNCHANGED <<storedKey, issued, device, left>>

-----------------------------------------------------------------------------
\* refreshData: eleven lists in one Promise.all, started by the pages after every
\* write; the answers replace what is shown whenever they come.
Refresh(t) ==
  /\ page[t].phase = "ready"
  /\ Becomes(t, [page[t] EXCEPT !.reads = @ \cup {page[t].cache}])
  /\ UNCHANGED <<Disk, Server, device, left>>

Refreshed(t, s) ==
  /\ s \in page[t].reads /\ s \in alive
  /\ Becomes(t, [page[t] EXCEPT !.reads = @ \ {s}, !.lists = s])
  /\ UNCHANGED <<Disk, Server, device, left>>

\* A list fails, or is refused with SESSION_EXPIRED: the caller shows a message, no more.
RefreshFails(t, s) ==
  /\ s \in page[t].reads
  /\ Becomes(t, [page[t] EXCEPT !.reads = @ \ {s}])
  /\ UNCHANGED <<Disk, Server, device, left>>

-----------------------------------------------------------------------------
\* SettingsPage.logout: the server is told, then the device forgets.
Logout(t) ==
  /\ At(t, "ready", "use")
  /\ Becomes(t, [page[t] EXCEPT !.step = "logout"])
  /\ UNCHANGED <<Disk, Server, device, left>>

\* onLoggedOut alone: the lists it does not empty, and the refreshes in flight,
\* stay with the page.
LoggedOutMutant(t) ==
  /\ page[t].step = "logout"
  /\ alive' \in {alive, alive \ {page[t].cache}}
  /\ left' = left \cup ({page[t].cache} \ {Null})
  /\ Remove(t)
  /\ Becomes(t, [page[t] EXCEPT !.phase = "auth", !.step = "form", !.cache = Null,
                                !.member = Null, !.lists = Null])
  /\ UNCHANGED <<storedKey, issued, device>>

\* An error of the server keeps the session on the device.
LoggedOutMutant2(t) ==
  /\ page[t].step = "logout"
  /\ left' = left \cup ({page[t].cache} \ {Null})
  /\ \/ alive' = alive \ {page[t].cache} /\ Remove(t)
     \/ UNCHANGED <<alive, record>>
  /\ page' = [page EXCEPT ![t] = [NewPage("boot") EXCEPT !.seen = left']]
  /\ UNCHANGED <<storedKey, issued, device>>

\* Whatever the server answers, the record goes, the memory is emptied and the
\* page loads again.
LoggedOut(t) ==
  /\ page[t].step = "logout"
  /\ alive' \in {alive, alive \ {page[t].cache}}
  /\ left' = left \cup ({page[t].cache} \ {Null})
  /\ Remove(t)
  /\ page' = [page EXCEPT ![t] = [NewPage("boot") EXCEPT !.seen = left']]
  /\ UNCHANGED <<storedKey, issued, device>>

\* The record cannot be removed: SettingsPage goes on all the same.
LoggedOutRejects(t) ==
  /\ device.broken /\ page[t].step = "logout" /\ page[t].key # Null
  /\ alive' \in {alive, alive \ {page[t].cache}}
  /\ page' = [page EXCEPT ![t] = NewPage("boot")]
  /\ UNCHANGED <<Disk, issued, device, left>>

\* The server ends a session: it expires, another device logs out everywhere or
\* sets a new password, an administrator removes the member.
ServerEnds(s) ==
  /\ s \in alive
  /\ alive' = alive \ {s}
  /\ UNCHANGED <<page, Disk, issued, device, left>>

-----------------------------------------------------------------------------
Boots(t) ==
  \/ ReadKey(t) \/ WriteKey(t) \/ NoDatabase(t) \/ Load(t) \/ LoadRejects(t)
  \/ NotRestored(t) \/ NotRestoredRejects(t)

Answers(t) ==
  \/ HeadersArrive(t) \/ Restored(t) \/ BodyBreaks(t)
  \/ LoggedIn(t) \/ NotSaved(t) \/ LoginFails(t)
  \/ \E s \in Sessions : Finished(t, s) \/ NotFinished(t, s) \/ NotFinishedRejects(t, s)
  \/ \E s \in Token : Refreshed(t, s) \/ RefreshFails(t, s)
  \/ LoggedOut(t) \/ LoggedOutRejects(t)

Acts(t) ==
  \/ Open(t) \/ Close(t) \/ Login(t) \/ Refresh(t) \/ Logout(t)
  \/ \E ended \in SUBSET Sessions : ResetPassword(t, ended)

Next ==
  \/ \E t \in Tabs : Boots(t) \/ Answers(t) \/ Acts(t)
  \/ \E s \in Sessions : ServerEnds(s)

\* IndexedDB answers or fails, and a call without headers is given up after 15
\* seconds (restClient.ts:234-246).  Nobody must act, and no answer need arrive.
Fairness == \A t \in Tabs : WF_vars(Boots(t))

Spec == Init /\ [][Next]_vars /\ Fairness

-----------------------------------------------------------------------------
\* Where logins are awaited, what a tab shows and what it sends belong together:
\* the lists are those of the member shown and the token is that member's, in
\* whatever order refreshes, logouts and logins of several tabs end
\* (AppProvider.tsx:141-151, 187-199).
ShownIsOwn ==
  ~device.codes =>
    \A t \in Tabs : page[t].phase = "ready" =>
      page[t].cache = page[t].member /\ page[t].lists \in {Null, page[t].member}

\* A logout is definite on the device, whatever the server answers
\* (auth.usecases.ts:174-180): no page loaded after it shows that session again.
LoggedOutIsOut ==
  \A t \in Tabs : page[t].phase = "ready" => page[t].member \notin page[t].seen

OneTab == \A t, u \in device.tabs : t = u

\* On a device with one tab and a working storage the session survives a reload:
\* in the app, what is stored can be read and is the session shown.
ReloadKeeps ==
  OneTab /\ ~device.broken /\ ~device.codes =>
    \A t \in Tabs : page[t].phase = "ready" =>
      Readable(t) /\ record.session = page[t].member

\* The app always gets past its loading screen, unless the storage itself fails or
\* an answer begins and never ends.
BootEnds ==
  \A t \in Tabs :
    page[t].phase = "boot" ~> \/ page[t].phase # "boot" \/ page[t].step = "body"
                              \/ device.broken /\ page[t].step = "stuck"
=============================================================================
