------------------------------ MODULE SmsReader ------------------------------
(***************************************************************************)
(* The app on an Android phone that reads the bank's messages: the hook    *)
(* src/app/useNativeSmsReader.ts, the plugin SmsReaderPlugin.java it       *)
(* drives, and what the hook sees of the family's settings.                *)
(*                                                                         *)
(* Two React effects follow each other's state.  The first asks the server *)
(* for the senders of the consenting accounts and computes the filter; the *)
(* second asks for permission, adds a listener and starts the receiver, in *)
(* that order and with an await between them, and its cleanup may come at  *)
(* any await.  Native calls run one after the other on the plugin's thread *)
(* and their answers come back in that order.                              *)
(*                                                                         *)
(* Wallets are not told apart: they can never consent.  What the server    *)
(* does with a text it is sent is not part of this module.                 *)
(***************************************************************************)
EXTENDS Integers, FiniteSets

CONSTANTS
  Accounts,
  Senders,    \* senders as the server stores them
  Mobiles,    \* those that are mobile numbers, 09xxxxxxxxx
  RunIds,     \* runs of the second effect that can be alive at a time
  Null

ASSUME MobilesAssumption == Mobiles \subseteq Senders
ASSUME RunIdsAssumption == \E q, r \in RunIds : q # r   \* one that ends, one that starts

VARIABLES
  consent,      \* accounts.sms_enabled in the database
  bound,        \* table sms_senders
  signedIn,     \* phase = "ready"
  known,        \* consentedIds: what the app's list of accounts says
  ran1, ran2,   \* what each effect last ran with; {} and Null when unarmed
  fetch,        \* the first effect waits for the senders
  filter,       \* senderFilter, Null while unknown, {} for none
  runs,         \* the async functions of the second effect, by the await they are at
  current,      \* the run whose cleanup is due; any other is cancelled
  granted,      \* the SMS permission
  receiver,     \* the filter of the plugin's receiver, Null while unregistered
  listeners,    \* the runs whose listener the plugin calls
  fresh         \* history: no sender changed since the filter was computed

settings == <<consent, bound>>
app == <<signedIn, known>>
effects == <<ran1, ran2, fetch, filter, runs, current>>
native == <<receiver, listeners>>
readerVars == <<settings, app, effects, native, granted, fresh>>

-----------------------------------------------------------------------------
\* The leading zero is kept.
NeedleMutant(s) == [of |-> s, cut |-> FALSE]
\* nativeSenderNeedle: a mobile number loses its leading zero.
Needle(s) == [of |-> s, cut |-> s \in Mobiles]

\* The address the operator delivers: as the server stores the sender, with the code of
\* the country, or with something inside that normalize_sender drops (BANK-MELLAT,
\* 0912 345 6789: spaces, hyphens, parentheses) or rewrites (Persian digits).
Addresses == [of: Senders, form: {"local", "international", "washed"}]

\* senderAllowed: the needle is a part of the address as it came, in small letters.
\* 09... is not a part of +989..., 9... is; a short number is a part of both forms;
\* bankmellat is not a part of bank-mellat.
Contains(m, n) ==
  /\ m.of = n.of /\ m.form # "washed"
  /\ n.cut \/ m.of \notin Mobiles \/ m.form = "local"
Passes(m) == receiver # Null /\ (receiver = {} \/ \E n \in receiver : Contains(m, n))

Filters == SUBSET [of: Senders, cut: BOOLEAN]
Awaits == {"permission", "listener", "watching", "refused"}

ASSUME NullAssumption ==
  /\ Null \notin RunIds /\ Null \notin Awaits
  /\ \A filters \in Filters : Null # filters

TypeOK ==
  /\ consent \subseteq Accounts
  /\ bound \in [Accounts -> SUBSET Senders]
  /\ signedIn \in BOOLEAN /\ fetch \in BOOLEAN /\ granted \in BOOLEAN
  /\ fresh \in BOOLEAN
  /\ known \subseteq Accounts /\ ran1 \subseteq Accounts
  /\ ran2 \in {Null} \cup Filters /\ filter \in {Null} \cup Filters
  /\ runs \in [RunIds -> {Null} \cup Awaits]
  /\ current \in {r \in RunIds : runs[r] # Null} \cup {Null}
  /\ receiver \in {Null} \cup Filters
  /\ listeners \subseteq RunIds

ReaderInit ==
  /\ consent = {} /\ bound = [a \in Accounts |-> {}]
  /\ granted = FALSE /\ receiver = Null /\ fresh = FALSE
  /\ signedIn = FALSE /\ known = {} /\ ran1 = {} /\ ran2 = Null
  /\ fetch = FALSE /\ filter = Null
  /\ runs = [r \in RunIds |-> Null] /\ current = Null /\ listeners = {}

-----------------------------------------------------------------------------
\* The settings, changed on this phone or another.
SetEnabled(a, enabled) ==
  /\ consent' = IF enabled THEN consent \cup {a} ELSE consent \ {a}
  /\ UNCHANGED <<bound, app, effects, native, granted, fresh>>

Bind(a, senders) ==
  /\ bound' = [bound EXCEPT ![a] = senders]
  /\ fresh' = FALSE
  /\ UNCHANGED <<app, effects, native, granted>>

AddSender(a, s) == Bind(a, bound[a] \cup {s}) /\ UNCHANGED consent
RemoveSender(a, s) == Bind(a, bound[a] \ {s}) /\ UNCHANGED consent
ResetAccount(a) == Bind(a, {}) /\ consent' = consent \ {a}

-----------------------------------------------------------------------------
\* The app's session and its list of accounts.
SignIn ==
  /\ ~signedIn
  /\ signedIn' = TRUE
  /\ UNCHANGED <<settings, known, effects, native, granted, fresh>>

SignOut ==
  /\ signedIn
  /\ signedIn' = FALSE /\ known' = {}
  /\ UNCHANGED <<settings, effects, native, granted, fresh>>

\* refreshData shows the accounts; one in flight at the sign-out is not stopped.
Refresh ==
  /\ known' = consent
  /\ UNCHANGED <<settings, signedIn, effects, native, granted, fresh>>

\* The page is loaded again (location.reload, pwaUpdate.tsx) or the process is
\* killed and started again, as when the user takes the permission back.  The plugin
\* outlives the first and drops its listeners.
LoadPage(killed) ==
  /\ signedIn' = FALSE /\ known' = {} /\ ran1' = {} /\ ran2' = Null
  /\ fetch' = FALSE /\ filter' = Null
  /\ runs' = [r \in RunIds |-> Null] /\ current' = Null /\ listeners' = {}
  /\ receiver' = IF killed THEN Null ELSE receiver
  /\ granted' \in IF killed THEN {granted, FALSE} ELSE {granted}
  /\ fresh' = FALSE
  /\ UNCHANGED settings

-----------------------------------------------------------------------------
Armed == signedIn /\ known # {}

\* What the effects would run with now; unarmed, both only clean up.
Due1 == IF Armed THEN known ELSE {}
Due2 == IF Armed THEN filter ELSE Null

\* The cleanup of the second effect.  A run cancelled while it asks for the permission
\* ends without a trace; one that waits for its listener has no handle to remove.
LeftBy(run) == [r \in RunIds |-> IF r = run /\ runs[r] # "listener" THEN Null ELSE runs[r]]

\* The cleanup leaves the listener of a run that watches.
CleanUpMutant == receiver' = Null /\ UNCHANGED listeners
CleanUp ==
  /\ receiver' = Null
  /\ listeners' = {r \in listeners : r = current => runs[r] = "listener"}

\* The second effect, run again: the current run is cleaned up and, if there is a
\* filter, another one starts, under the name of one that is over.
Rerun ==
  /\ IF current = Null THEN UNCHANGED native ELSE CleanUp
  /\ \/ /\ Due2 = Null
        /\ current' = Null /\ runs' = LeftBy(current)
     \/ /\ Due2 # Null
        /\ current' = CHOOSE r \in RunIds : LeftBy(current)[r] = Null /\ r \notin listeners'
        /\ runs' = [LeftBy(current) EXCEPT ![current'] = "permission"]

\* The effects run only while the member is in and an account consents.
RunEffectsMutant ==
  /\ Armed
  /\ ran1 # Due1 \/ ran2 # Due2
  /\ ran1' = Due1 /\ ran2' = Due2
  /\ fetch' = IF ran1 = Due1 THEN fetch ELSE Armed
  /\ filter' = IF Armed THEN filter ELSE Null
  /\ IF ran2 = Due2 THEN UNCHANGED <<runs, current, native>> ELSE Rerun
  /\ UNCHANGED <<settings, app, granted, fresh>>

\* React runs the effects whose dependencies changed since they last ran, with the
\* values of one render; setSenderFilter(null) is seen by the next.
RunEffects ==
  /\ ran1 # Due1 \/ ran2 # Due2
  /\ ran1' = Due1 /\ ran2' = Due2
  /\ fetch' = IF ran1 = Due1 THEN fetch ELSE Armed
  /\ filter' = IF Armed THEN filter ELSE Null
  /\ IF ran2 = Due2 THEN UNCHANGED <<runs, current, native>> ELSE Rerun
  /\ UNCHANGED <<settings, app, granted, fresh>>

\* One account with senders is enough for a filter.
FilterOfMutant(ids) ==
  IF \E a \in ids : bound[a] # {} THEN {Needle(s) : s \in UNION {bound[a] : a \in ids}} ELSE {}
\* A filter only if every consenting account has a sender.
FilterOf(ids) ==
  IF \A a \in ids : bound[a] # {} THEN {Needle(s) : s \in UNION {bound[a] : a \in ids}} ELSE {}

\* A call that fails leaves the filter unknown.
SendersArriveMutant(failed) ==
  /\ fetch
  /\ fetch' = FALSE
  /\ filter' = IF failed THEN filter ELSE FilterOf(ran1)
  /\ fresh' = TRUE
  /\ UNCHANGED <<settings, app, ran1, ran2, runs, current, native, granted>>

\* The senders of the accounts the effect ran with arrive, or the call fails.
SendersArrive(failed) ==
  /\ fetch
  /\ fetch' = FALSE
  /\ filter' = IF failed THEN {} ELSE FilterOf(ran1)
  /\ fresh' = TRUE
  /\ UNCHANGED <<settings, app, ran1, ran2, runs, current, native, granted>>

\* checkPermissions and, if need be, the user answer; the listener is added at once.
\* The plugin answers in the order of the calls.
PermissionAnswers(r, yes) ==
  /\ runs[r] = "permission"
  /\ \A q \in RunIds : runs[q] # "listener"
  /\ granted => yes
  /\ granted' = yes
  /\ runs' = [runs EXCEPT ![r] = IF yes THEN "listener" ELSE "refused"]
  /\ listeners' = IF yes THEN listeners \cup {r} ELSE listeners
  /\ UNCHANGED <<settings, app, ran1, ran2, fetch, filter, current, receiver, fresh>>

\* addListener's answer is not checked against a cleanup that came before it.
ListenerAddedMutant(r) ==
  /\ runs[r] = "listener"
  /\ runs' = [runs EXCEPT ![r] = "watching"]
  /\ receiver' = IF ran2 = Null THEN {} ELSE ran2
  /\ UNCHANGED <<settings, app, ran1, ran2, fetch, filter, current, listeners, granted, fresh>>

\* addListener has answered; startWatching follows unless a cleanup came first.
ListenerAdded(r) ==
  /\ runs[r] = "listener"
  /\ \/ /\ r = current
        /\ runs' = [runs EXCEPT ![r] = "watching"]
        /\ receiver' = ran2
        /\ UNCHANGED listeners
     \/ /\ r # current
        /\ runs' = [runs EXCEPT ![r] = Null]
        /\ listeners' = listeners \ {r}
        /\ UNCHANGED receiver
  /\ UNCHANGED <<settings, app, ran1, ran2, fetch, filter, current, granted, fresh>>

-----------------------------------------------------------------------------
SettingsStep ==
  \E a \in Accounts :
    \/ \E enabled \in BOOLEAN : SetEnabled(a, enabled)
    \/ \E s \in Senders : AddSender(a, s) \/ RemoveSender(a, s)
    \/ ResetAccount(a)

AppStep ==
  \/ SignIn \/ SignOut \/ Refresh
  \/ \E killed \in BOOLEAN : LoadPage(killed)

HookStep ==
  \/ RunEffects
  \/ \E failed \in BOOLEAN : SendersArrive(failed)
  \/ \E r \in RunIds : ListenerAdded(r) \/ \E yes \in BOOLEAN : PermissionAnswers(r, yes)

ReaderNext == SettingsStep \/ AppStep \/ HookStep

\* React runs effects and the plugin answers.  The user need not answer a dialogue, nor
\* need the call for the senders end: the client's timer stops at the headers of the
\* answer and nothing bounds its body (restClient.ts:239-262).
Fairness ==
  /\ WF_readerVars(RunEffects)
  /\ WF_readerVars(\E r \in RunIds : ListenerAdded(r))
  /\ WF_readerVars(granted /\ \E r \in RunIds : PermissionAnswers(r, TRUE))

ReaderSpec == ReaderInit /\ [][ReaderNext]_readerVars /\ Fairness

-----------------------------------------------------------------------------
\* The runs whose listener a message from m reaches; each sends the text to the server.
Delivered(m) == IF Passes(m) THEN listeners ELSE {}
Hearing == receiver # Null /\ listeners # {}

\* However starts and cleanups interleave, a message is sent to the server at most
\* once.
SentOnce == \A m \in Addresses : Cardinality(Delivered(m)) <= 1

\* Once the effects have run for a list without a consenting account, or for a member
\* who left, no text leaves the phone (useNativeSmsReader.ts:3-10).
SilentWithoutConsent == ran1 = {} => \A m \in Addresses : Delivered(m) = {}

\* The second effect watches with the filter last computed, and nothing is due.
Settled ==
  /\ current # Null /\ runs[current] = "watching"
  /\ ran1 = Due1 /\ ran2 = Due2 /\ ~fetch

\* What the server would attribute by one of the senders asked for, or by the text
\* where an account has none, leaves the phone.
LetsThrough(forms) ==
  \A a \in known, m \in Addresses :
    bound[a] = {} \/ (m.of \in bound[a] /\ m.form \in forms) => Delivered(m) # {}

\* As long as no sender was added or removed since the filter was computed, nothing is
\* held back whose address contains its sender as stored, the code of the country apart;
\* and with a filter on, what leaves the phone is of a sender of a consenting account, in
\* such a spelling: a short sender the operator spells with a hyphen does not come through.
FilterIsExact ==
  Settled /\ fresh =>
    /\ LetsThrough({"local", "international"})
    /\ receiver # {} => \A m \in Addresses : Delivered(m) # {} =>
                          m.form # "washed" /\ \E a \in known : m.of \in bound[a]

\* Adding or removing a sender loses nothing, although the filter is not computed
\* again (useNativeSmsReader.ts:56-60).
NothingIsLost == Settled => LetsThrough({"local", "international"})

\* Withdrawing consent, or leaving, ends the listening.
WithdrawalSilences == ~Armed ~> (~Hearing \/ Armed)

\* Consent that stays, with the permission, starts the listening for good, whatever
\* was in flight, unless the call for the senders stays out for ever.
ConsentIsHeard ==
  \A ids \in SUBSET Accounts \ {{}} :
    <>[](signedIn /\ known = ids /\ granted) => <>[](Hearing \/ fetch)
=============================================================================
