--------------------------- MODULE Entries_proofs ----------------------------
(***************************************************************************)
(* What holds of the phone's hook for any accounts, senders and runs; of   *)
(* the entering of transactions, messages among them, for any              *)
(* transactions, drafts and messages; and of the calendar, the bell, the   *)
(* sums of the reports, the budgets and the pages, for any transactions a  *)
(* page has, any dates, any house and any budgets.                         *)
(***************************************************************************)
EXTENDS Entries, SmsReader, FiniteSetTheorems, SequenceTheorems, TLAPS

-----------------------------------------------------------------------------
(* Which run owns what.                                                    *)

\* Only a run that waits for its listener outlives its cleanup, and there is at most
\* one such run.
RunsEnd ==
  /\ \A r \in RunIds : runs[r] \notin {Null, "listener"} => r = current
  /\ \A q, r \in RunIds : runs[q] = "listener" /\ runs[r] = "listener" => q = r

\* A listener belongs to a run that asked for it and was not cleaned up since.
ListenersAreOfRuns == \A r \in listeners : runs[r] \in {"listener", "watching"}

\* Consent is what a run has, and a registered receiver talks to the current run.
ReceiverIsCurrent ==
  /\ ran1 = {} => ran2 = Null
  /\ ran2 = Null => current = Null
  /\ receiver # Null => listeners \subseteq {current}

IInv == TypeOK /\ RunsEnd /\ ListenersAreOfRuns /\ ReceiverIsCurrent

LEMMA NullIsNothing ==
  /\ Null \notin RunIds
  /\ Null \notin {"permission", "listener", "watching", "refused"}
  /\ Null \notin Filters
  BY NullAssumption DEF Awaits

-----------------------------------------------------------------------------
\* What the second effect leaves behind, and that it finds a name for its next run.
Restarted ==
  /\ listeners' \subseteq listeners
  /\ \A r \in listeners' : runs'[r] = runs[r] /\ (r = current => runs[r] = "listener")
  /\ current' \in {Null} \cup RunIds
  /\ current' = Null <=> Due2 = Null
  /\ runs' \in [RunIds -> {Null} \cup Awaits]
  /\ current' # Null => runs'[current'] = "permission"
  /\ \A r \in RunIds : r # current' => runs'[r] = Null \/ (runs'[r] = runs[r] /\ runs[r] = "listener")
  /\ receiver' = Null \/ (current = Null /\ receiver' = receiver)

LEMMA RerunStep ==
  ASSUME IInv, Rerun
  PROVE  Restarted
  <1> DEFINE left == LeftBy(current)
             Free(r) == left[r] = Null /\ r \notin listeners'
  <1>1. left \in [RunIds -> {Null} \cup Awaits]
    BY DEF LeftBy, IInv, TypeOK
  <1>2. \A r \in RunIds : left[r] = Null \/ (left[r] = runs[r] /\ runs[r] = "listener")
    BY DEF LeftBy, IInv, RunsEnd
  <1>3. /\ listeners' \subseteq listeners
        /\ \A r \in listeners' : r = current => runs[r] = "listener"
        /\ receiver' = Null \/ (current = Null /\ receiver' = receiver)
    <2>1. CASE current = Null
      BY <2>1, NullIsNothing DEF Rerun, native, IInv, TypeOK
    <2>2. CASE current # Null
      BY <2>2 DEF Rerun, CleanUp
    <2> QED
      BY <2>1, <2>2
  <1>4. \A r \in listeners' : left[r] = runs[r] /\ left[r] # Null
    BY <1>3, NullIsNothing DEF LeftBy, IInv, TypeOK, ListenersAreOfRuns
  <1>5. \E r \in RunIds : Free(r)
    <2>1. PICK q \in RunIds, r \in RunIds : q # r
      BY RunIdsAssumption
    <2>2. left[q] = Null \/ left[r] = Null
      BY <1>2, <2>1 DEF IInv, RunsEnd
    <2> QED
      BY <1>4, <2>1, <2>2
  <1>6. CASE Due2 = Null
    <2>1. current' = Null /\ runs' = left
      BY <1>6 DEF Rerun
    <2> HIDE DEF left
    <2> QED
      BY <1>1, <1>2, <1>3, <1>4, <1>6, <2>1 DEF Restarted
  <1>7. CASE Due2 # Null
    <2>1. /\ current' = CHOOSE r \in RunIds : Free(r)
          /\ runs' = [left EXCEPT ![current'] = "permission"]
      BY <1>7 DEF Rerun
    <2> HIDE DEF Free
    <2>2. current' \in RunIds /\ Free(current')
      BY <1>5, <2>1
    <2> USE DEF Free
    <2> HIDE DEF left
    <2>3. /\ runs' \in [RunIds -> {Null} \cup Awaits]
          /\ runs'[current'] = "permission"
          /\ \A r \in RunIds : r # current' => runs'[r] = left[r]
      BY <1>1, <2>1, <2>2 DEF Awaits
    <2>4. \A r \in listeners' : r \in RunIds /\ r # current'
      BY <1>3, <2>2 DEF IInv, TypeOK
    <2> QED
      BY <1>2, <1>3, <1>4, <1>7, <2>2, <2>3, <2>4, NullIsNothing DEF Restarted
  <1> QED
    BY <1>6, <1>7

-----------------------------------------------------------------------------
LEMMA FilterType == ASSUME TypeOK, NEW ids \in SUBSET Accounts PROVE FilterOf(ids) \in Filters
  <1>1. {Needle(s) : s \in UNION {bound[a] : a \in ids}} \in Filters
    <2>1. ASSUME NEW s \in UNION {bound[a] : a \in ids} PROVE Needle(s) \in [of: Senders, cut: BOOLEAN]
      <3>1. s \in Senders
        BY <2>1 DEF TypeOK
      <3> QED
        BY <3>1 DEF Needle
    <2> QED
      BY <2>1 DEF Filters
  <1>2. {} \in Filters
    BY DEF Filters
  <1> QED
    BY <1>1, <1>2 DEF FilterOf

LEMMA EffectsStep == IInv /\ RunEffects => IInv'
  <1> SUFFICES ASSUME IInv, RunEffects PROVE IInv'
    OBVIOUS
  <1>1. /\ ran1' = Due1 /\ ran2' = Due2 /\ Due1 \subseteq Accounts /\ Due2 \in {Null} \cup Filters
        /\ Due1 = {} => Due2 = Null
        /\ filter' \in {Null} \cup Filters /\ fetch' \in BOOLEAN
        /\ UNCHANGED <<settings, app, granted, fresh>>
    BY DEF RunEffects, Due1, Due2, Armed, IInv, TypeOK
  <1>2. CASE ran2 = Due2
    <2>1. UNCHANGED <<runs, current, receiver, listeners>>
      BY <1>2 DEF RunEffects, native
    <2> QED
      BY <1>1, <1>2, <2>1 DEF IInv, TypeOK, RunsEnd, ListenersAreOfRuns, ReceiverIsCurrent, settings, app
  <1>3. CASE ran2 # Due2
    <2>1. Restarted
      BY <1>3, RerunStep DEF RunEffects
    <2>2. TypeOK'
      BY <1>1, <2>1, NullIsNothing DEF IInv, TypeOK, Restarted, settings, app
    <2>3. RunsEnd'
      BY <2>1, NullIsNothing DEF IInv, RunsEnd, Restarted
    <2>4. ListenersAreOfRuns'
      BY <2>1 DEF IInv, ListenersAreOfRuns, Restarted
    <2>5. ReceiverIsCurrent'
      <3>1. receiver' # Null => listeners' = {}
        BY <2>1, NullIsNothing DEF IInv, TypeOK, ReceiverIsCurrent, Restarted
      <3> QED
        BY <1>1, <2>1, <3>1 DEF ReceiverIsCurrent, Restarted
    <2> QED
      BY <2>2, <2>3, <2>4, <2>5 DEF IInv
  <1> QED
    BY <1>2, <1>3

LEMMA AnswersStep ==
  ASSUME IInv, NEW r \in RunIds, NEW yes \in BOOLEAN, PermissionAnswers(r, yes)
  PROVE  IInv'
  <1> USE DEF PermissionAnswers
  <1>1. /\ runs' \in [RunIds -> {Null} \cup Awaits]
        /\ runs'[r] \in {"listener", "refused"} /\ (r \in listeners' => runs'[r] = "listener")
        /\ \A q \in RunIds \ {r} : runs'[q] = runs[q]
    BY DEF IInv, TypeOK, Awaits, ListenersAreOfRuns
  <1>2. r = current
    BY NullIsNothing DEF IInv, RunsEnd
  <1>3. TypeOK'
    BY <1>1, <1>2, NullIsNothing DEF IInv, TypeOK, settings, app
  <1>4. RunsEnd'
    BY <1>1, <1>2 DEF IInv, RunsEnd
  <1>5. ListenersAreOfRuns'
    BY <1>1 DEF IInv, TypeOK, ListenersAreOfRuns
  <1>6. ReceiverIsCurrent'
    BY <1>2 DEF IInv, ReceiverIsCurrent
  <1> QED
    BY <1>3, <1>4, <1>5, <1>6 DEF IInv

LEMMA ListenerStep ==
  ASSUME IInv, NEW r \in RunIds, ListenerAdded(r)
  PROVE  IInv'
  <1> USE DEF ListenerAdded
  <1>1. /\ runs' \in [RunIds -> {Null} \cup Awaits]
        /\ runs'[r] = IF r = current THEN "watching" ELSE Null
        /\ \A q \in RunIds \ {r} : runs'[q] = runs[q]
    BY DEF IInv, TypeOK, Awaits
  <1>2. ASSUME NEW q \in listeners PROVE q = r \/ q = current
    <2>1. q \in RunIds /\ runs[q] \in {"listener", "watching"}
      BY DEF IInv, TypeOK, ListenersAreOfRuns
    <2> QED
      BY <2>1, NullIsNothing DEF IInv, RunsEnd
  <1>3. current # Null => ran2 \in Filters
    BY DEF IInv, TypeOK, ReceiverIsCurrent
  <1>4. TypeOK'
    BY <1>1, <1>3, NullIsNothing DEF IInv, TypeOK, settings, app
  <1>5. RunsEnd'
    BY <1>1, NullIsNothing DEF IInv, RunsEnd
  <1>6. ListenersAreOfRuns'
    BY <1>1 DEF IInv, TypeOK, ListenersAreOfRuns
  <1>7. ReceiverIsCurrent'
    BY <1>2, <1>3 DEF IInv, ReceiverIsCurrent
  <1> QED
    BY <1>4, <1>5, <1>6, <1>7 DEF IInv

LEMMA LoadStep == ASSUME IInv, NEW killed \in BOOLEAN, LoadPage(killed) PROVE IInv'
  <1>1. TypeOK'
    BY DEF LoadPage, IInv, TypeOK, settings
  <1>2. RunsEnd' /\ ListenersAreOfRuns' /\ ReceiverIsCurrent'
    BY NullIsNothing DEF LoadPage, RunsEnd, ListenersAreOfRuns, ReceiverIsCurrent
  <1> QED
    BY <1>1, <1>2 DEF IInv

LEMMA InductiveStep == IInv /\ [ReaderNext]_readerVars => IInv'
  <1> SUFFICES ASSUME IInv, [ReaderNext]_readerVars PROVE IInv'
    OBVIOUS
  <1> DEFINE Hook == <<ran1, ran2, runs, current, receiver, listeners>>
  <1>1. UNCHANGED Hook => (RunsEnd /\ ListenersAreOfRuns /\ ReceiverIsCurrent)'
    BY DEF IInv, RunsEnd, ListenersAreOfRuns, ReceiverIsCurrent
  <1>2. CASE SettingsStep
    <2>1. TypeOK' /\ UNCHANGED Hook
      BY <1>2 DEF SettingsStep, SetEnabled, AddSender, RemoveSender, ResetAccount, Bind,
             app, effects, native, IInv, TypeOK
    <2> QED
      BY <1>1, <2>1 DEF IInv
  <1>3. CASE AppStep
    <2>1. ASSUME SignIn \/ SignOut \/ Refresh PROVE IInv'
      <3>1. TypeOK' /\ UNCHANGED Hook
        BY <2>1 DEF SignIn, SignOut, Refresh, settings, effects, native, IInv, TypeOK
      <3> QED
        BY <1>1, <3>1 DEF IInv
    <2> QED
      BY <1>3, <2>1, LoadStep DEF AppStep
  <1>4. CASE HookStep
    <2>1. ASSUME NEW failed \in BOOLEAN, SendersArrive(failed) PROVE IInv'
      <3>1. filter' \in {Null} \cup Filters
        BY <2>1, FilterType DEF SendersArrive, IInv, TypeOK, Filters
      <3>2. TypeOK' /\ UNCHANGED Hook
        BY <2>1, <3>1 DEF SendersArrive, settings, app, native, IInv, TypeOK
      <3> QED
        BY <1>1, <3>2 DEF IInv
    <2> QED
      BY <1>4, <2>1, EffectsStep, AnswersStep, ListenerStep DEF HookStep
  <1>5. CASE UNCHANGED readerVars
    <2>1. TypeOK' /\ UNCHANGED Hook
      BY <1>5 DEF readerVars, settings, app, effects, native, IInv, TypeOK
    <2> QED
      BY <1>1, <2>1 DEF IInv
  <1> QED
    BY <1>2, <1>3, <1>4, <1>5 DEF ReaderNext

LEMMA Inductive == ReaderSpec => []IInv
  <1>1. ReaderInit => IInv
    BY NullIsNothing DEF ReaderInit, IInv, TypeOK, RunsEnd, ListenersAreOfRuns, ReceiverIsCurrent
  <1> QED
    BY <1>1, InductiveStep, PTL DEF ReaderSpec

-----------------------------------------------------------------------------
\* Every reachable state is well typed, for any accounts, senders and runs.
THEOREM Typing == ReaderSpec => []TypeOK
  <1>1. IInv => TypeOK
    BY DEF IInv
  <1> QED
    BY <1>1, Inductive, PTL

\* However starts and cleanups interleave, a message is sent at most once: a listener
\* that a cancelled run still holds hears nothing.
THEOREM Once == ReaderSpec => []SentOnce
  <1>1. IInv => SentOnce
    <2> SUFFICES ASSUME IInv, NEW m \in Addresses PROVE Cardinality(Delivered(m)) <= 1
      BY DEF SentOnce
    <2>1. Delivered(m) = {} \/ Delivered(m) = {current}
      BY DEF IInv, ReceiverIsCurrent, Delivered, Passes
    <2>2. Cardinality({}) = 0
      BY FS_EmptySet
    <2>3. Cardinality({current}) = 1
      BY FS_Singleton
    <2> QED
      BY <2>1, <2>2, <2>3
  <1> QED
    BY <1>1, Inductive, PTL

\* Once the effects have run without consent, nothing reaches a listener, whatever an
\* earlier run still waits for.
THEOREM Silent == ReaderSpec => []SilentWithoutConsent
  <1>1. IInv => SilentWithoutConsent
    <2> SUFFICES ASSUME IInv, ran1 = {}, NEW m \in Addresses PROVE Delivered(m) = {}
      BY DEF SilentWithoutConsent
    <2> QED
      BY NullIsNothing DEF IInv, TypeOK, ReceiverIsCurrent, Delivered, Passes
  <1> QED
    BY <1>1, Inductive, PTL

-----------------------------------------------------------------------------
(* What is held back.                                                      *)

\* A run holds the listener it waits for; one that watches has started the receiver
\* with the filter it ran with.
Watching ==
  /\ \A r \in RunIds : runs[r] = "listener" => r \in listeners
  /\ current # Null /\ runs[current] = "watching" => receiver = ran2 /\ current \in listeners

\* A filter computed since the last change of a sender is that of the accounts the
\* first effect ran with, unless these changed and the senders are asked for again.
Computed == fresh /\ ~fetch => filter = Null \/ filter = {} \/ filter = FilterOf(ran1)

LEMMA WatchingStep == IInv /\ Watching /\ [ReaderNext]_readerVars => Watching'
  <1> SUFFICES ASSUME IInv, Watching, [ReaderNext]_readerVars PROVE Watching'
    OBVIOUS
  <1> DEFINE Hook == <<ran1, ran2, runs, current, receiver, listeners>>
  <1>1. UNCHANGED Hook => Watching'
    BY DEF Watching
  <1>2. CASE SettingsStep \/ SignIn \/ SignOut \/ Refresh \/ UNCHANGED readerVars
             \/ \E failed \in BOOLEAN : SendersArrive(failed)
    BY <1>1, <1>2 DEF SettingsStep, SetEnabled, AddSender, RemoveSender, ResetAccount, Bind,
       SignIn, SignOut, Refresh, SendersArrive, readerVars, effects, native
  <1>3. ASSUME NEW killed \in BOOLEAN, LoadPage(killed) PROVE Watching'
    BY <1>3, NullIsNothing DEF LoadPage, Watching
  <1>4. CASE RunEffects
    <2>1. CASE ran2 = Due2
      <3>1. UNCHANGED <<runs, current, receiver, listeners>> /\ ran2' = ran2
        BY <1>4, <2>1 DEF RunEffects, native
      <3> QED
        BY <3>1 DEF Watching
    <2>2. CASE ran2 # Due2
      <3>1. Rerun
        BY <1>4, <2>2 DEF RunEffects
      <3>2. Restarted
        BY <3>1, RerunStep
      <3>3. current' # Null => runs'[current'] = "permission"
        BY <3>2 DEF Restarted
      <3>4. ASSUME NEW r \in RunIds, runs'[r] = "listener" PROVE r \in listeners'
        <4>1. runs[r] = "listener"
          BY <3>2, <3>4, NullIsNothing DEF Restarted
        <4>2. r \in listeners
          BY <4>1 DEF Watching
        <4> QED
          BY <3>1, <4>1, <4>2 DEF Rerun, CleanUp, native
      <3> QED
        BY <3>3, <3>4 DEF Watching
    <2> QED
      BY <2>1, <2>2
  <1>5. ASSUME NEW r \in RunIds, NEW yes \in BOOLEAN, PermissionAnswers(r, yes) PROVE Watching'
    <2>1. /\ runs'[r] = IF yes THEN "listener" ELSE "refused"
          /\ \A q \in RunIds \ {r} : runs'[q] = runs[q]
          /\ listeners \subseteq listeners' /\ (yes => r \in listeners')
          /\ UNCHANGED <<current, ran2, receiver>>
      BY <1>5 DEF PermissionAnswers, IInv, TypeOK
    <2> QED
      BY <2>1 DEF Watching, IInv, TypeOK
  <1>6. ASSUME NEW r \in RunIds, ListenerAdded(r) PROVE Watching'
    <2>1. /\ runs'[r] = IF r = current THEN "watching" ELSE Null
          /\ \A q \in RunIds \ {r} : runs'[q] = runs[q]
          /\ listeners \ {r} \subseteq listeners'
          /\ r = current => receiver' = ran2 /\ listeners' = listeners
          /\ r # current => receiver' = receiver
          /\ UNCHANGED <<current, ran2>>
      BY <1>6 DEF ListenerAdded, IInv, TypeOK
    <2>2. r \in listeners
      BY <1>6 DEF ListenerAdded, Watching
    <2> QED
      BY <2>1, <2>2, NullIsNothing DEF Watching, IInv, TypeOK
  <1> QED
    BY <1>2, <1>3, <1>4, <1>5, <1>6 DEF ReaderNext, AppStep, HookStep

LEMMA ComputedStep == IInv /\ Computed /\ [ReaderNext]_readerVars => Computed'
  <1> SUFFICES ASSUME IInv, Computed, [ReaderNext]_readerVars PROVE Computed'
    OBVIOUS
  <1>1. bound' = bound /\ ran1' = ran1 => FilterOf(ran1)' = FilterOf(ran1)
    BY DEF FilterOf
  <1>2. CASE UNCHANGED <<bound, ran1, fetch, filter, fresh>>
    BY <1>1, <1>2 DEF Computed
  <1>3. CASE ~fresh'
    BY <1>3 DEF Computed
  <1>4. CASE RunEffects
    <2>1. /\ ran1' = Due1 /\ bound' = bound /\ fresh' = fresh
          /\ fetch' = IF ran1 = Due1 THEN fetch ELSE Armed
          /\ filter' = IF Armed THEN filter ELSE Null
      BY <1>4 DEF RunEffects, settings
    <2>2. CASE ran1 = Due1
      BY <1>1, <2>1, <2>2 DEF Computed
    <2>3. CASE ran1 # Due1
      BY <2>1, <2>3 DEF Computed
    <2> QED
      BY <2>2, <2>3
  <1>5. ASSUME NEW failed \in BOOLEAN, SendersArrive(failed) PROVE Computed'
    BY <1>1, <1>5 DEF SendersArrive, Computed, settings
  <1>6. CASE SettingsStep
    BY <1>2, <1>3, <1>6 DEF SettingsStep, SetEnabled, AddSender, RemoveSender, ResetAccount, Bind, effects
  <1>7. CASE AppStep
    BY <1>2, <1>3, <1>7 DEF AppStep, SignIn, SignOut, Refresh, LoadPage, settings, effects
  <1>8. (\E r \in RunIds : ListenerAdded(r) \/ \E yes \in BOOLEAN : PermissionAnswers(r, yes)) => Computed'
    BY <1>2 DEF ListenerAdded, PermissionAnswers, settings
  <1>9. UNCHANGED readerVars => Computed'
    BY <1>2 DEF readerVars, settings, effects
  <1> QED
    BY <1>4, <1>5, <1>6, <1>7, <1>8, <1>9 DEF ReaderNext, HookStep

\* Once the effects have settled, unless a sender changed since the filter was computed, a
\* text passes whose address contains its sender as stored, but for the code of the country,
\* and any text while an account has no sender; and through a filter nothing passes but
\* texts of the senders of consenting accounts, none that normalize_sender changes inside:
\* for any accounts and senders.
THEOREM FilterExact == ReaderSpec => []FilterIsExact
  <1> DEFINE Inv == IInv /\ Watching /\ Computed
  <1>1. ReaderInit => Inv
    BY NullIsNothing
    DEF ReaderInit, IInv, TypeOK, RunsEnd, ListenersAreOfRuns, ReceiverIsCurrent, Watching, Computed
  <1>2. Inv /\ [ReaderNext]_readerVars => Inv'
    BY InductiveStep, WatchingStep, ComputedStep
  <1>3. Inv => FilterIsExact
    <2> SUFFICES ASSUME Inv, Settled, fresh
                 PROVE  /\ LetsThrough({"local", "international"})
                        /\ receiver # {} => \A m \in Addresses : Delivered(m) # {} =>
                             m.form # "washed" /\ \E a \in known : m.of \in bound[a]
      BY DEF FilterIsExact
    <2>1. /\ ran2 # Null /\ ran2 = Due2 /\ ran1 = Due1
          /\ receiver = ran2 /\ current \in listeners
      BY DEF Settled, Watching, IInv, ReceiverIsCurrent
    <2>2. ran2 = filter /\ ran1 = known
      BY <2>1 DEF Due1, Due2
    <2>3. receiver # Null /\ (receiver = {} \/ receiver = FilterOf(known))
      BY <2>1, <2>2 DEF Computed, Settled
    <2>4. receiver # {} => /\ \A b \in known : bound[b] # {}
                           /\ receiver = {Needle(s) : s \in UNION {bound[b] : b \in known}}
      BY <2>3 DEF FilterOf
    <2>5. LetsThrough({"local", "international"})
      <3> SUFFICES ASSUME NEW a \in known, NEW m \in Addresses,
                          \/ bound[a] = {}
                          \/ m.of \in bound[a] /\ m.form \in {"local", "international"}
                   PROVE  Delivered(m) # {}
        BY DEF LetsThrough
      <3>1. CASE receiver = {}
        BY <2>1, <2>3, <3>1 DEF Delivered, Passes
      <3>2. CASE receiver # {}
        <4>1. m.of \in bound[a] /\ m.form # "washed"
          BY <2>4, <3>2
        <4>2. Needle(m.of) \in receiver
          BY <2>4, <3>2, <4>1
        <4>3. Contains(m, Needle(m.of))
          BY <4>1 DEF Contains, Needle
        <4>4. Passes(m)
          BY <2>3, <4>2, <4>3 DEF Passes
        <4> QED
          BY <2>1, <4>4 DEF Delivered
      <3> QED
        BY <3>1, <3>2
    <2>6. ASSUME receiver # {}, NEW m \in Addresses, Delivered(m) # {}
          PROVE  m.form # "washed" /\ \E a \in known : m.of \in bound[a]
      <3>0. Passes(m)
        BY <2>6 DEF Delivered
      <3>1. PICK n \in receiver : Contains(m, n)
        BY <2>6, <3>0 DEF Passes
      <3>2. PICK s \in UNION {bound[b] : b \in known} : n = Needle(s)
        BY <2>4, <2>6, <3>1
      <3>3. PICK a \in known : s \in bound[a]
        BY <3>2
      <3>4. m.of = s /\ m.form # "washed"
        BY <3>1, <3>2 DEF Contains, Needle
      <3> QED
        BY <3>3, <3>4
    <2> QED
      BY <2>5, <2>6
  <1> QED
    BY <1>1, <1>2, <1>3, PTL DEF ReaderSpec

-----------------------------------------------------------------------------
\* Entries.  The records, and the calls there are: an occurrence is entered as a
\* new transaction, and what is not made yet has no number.
CallFields ==
  {"op", "number", "stage", "answer", "from", "draft", "photo", "id", "message", "list", "index"}

IsDue(d) == d = [tx |-> d.tx, due |-> d.due]

CallShape(c) ==
  /\ DOMAIN c = CallFields
  /\ c.op \in {"save", "record"} => c.draft \in Fields
  /\ c.from.due # None => IsDue(c.from.due)
  /\ c.stage = "write" => c.op \in {"save", "record"}
  /\ c.stage = "status" => c.op \in {"record", "ignore"}
  /\ c.stage = "mark" => c.op \in {"save", "skip"} /\ IsDue(c.from.due)
  /\ c.op = "save" /\ c.stage = "mark" => c.from.due # None
  /\ c.stage \in {"label", "write"} /\ c.answer = None =>
       (c.op = "record" \/ c.from.due # None => c.id = 0)

FormShape ==
  /\ DOMAIN form = {"open", "opening", "editing", "due"}
  /\ form.due # None => IsDue(form.due) /\ form.editing = 0

\* Numbers are never used twice.
Numbered ==
  /\ Cardinality(DOMAIN origin) \in Nat
  /\ DOMAIN origin = 1..Cardinality(DOMAIN origin)
  /\ Ids(First) \subseteq DOMAIN origin
  /\ \A t \in ledger : {"id", "handled"} \subseteq DOMAIN t /\ t.id \in DOMAIN origin

Paid(due) == \E i \in DOMAIN origin : origin[i].due = due
EnteredFor(message) == \E i \in DOMAIN origin : origin[i].message = message

\* Who marks a date or a message as done has written the transaction.
Written(c) == (c.stage = "write" /\ c.answer = "ok") \/ c.stage \in {"mark", "status"}

Earned(c) ==
  /\ c.op = "save" /\ c.from.due # None /\ Written(c) => Paid(c.from.due)
  /\ c.op = "record" /\ Written(c) => EnteredFor(c.message)

ShapeInv == FormShape /\ Numbered /\ \A c \in calls : CallShape(c)

EntryInv == ShapeInv /\ HandledHasEntry /\ \A c \in calls : Earned(c)

\* An opening of the form that has written its transaction is closed, or its save goes on.
MadeFor(opening) == opening # 0 /\ \E i \in DOMAIN origin \ Ids(First) : origin[i].opening = opening

Numbers ==
  /\ openings \in Nat /\ form.opening \in 0..openings
  /\ \A i \in DOMAIN origin : origin[i].opening \in 0..openings
  /\ \A c \in calls : c.from.opening \in 0..openings

SavesInv ==
  /\ \A c \in calls :
       IF c.op = "save"
       THEN /\ saving /\ ~c.photo /\ c.stage \in {"write", "mark", "refresh"}
            /\ c.stage = "write" /\ c.answer = None /\ c.id = 0 => ~MadeFor(c.from.opening)
       ELSE c.from.opening = 0
  /\ \A c, d \in calls : c.op = "save" /\ d.op = "save" => c = d
  /\ form.open /\ MadeFor(form.opening) =>
       \E c \in calls : c.op = "save" /\ Written(c) /\ c.from.opening = form.opening

SaveInv == Numbers /\ (calm => SavesInv) /\ OneEntryPerSave

-----------------------------------------------------------------------------

LEMMA CallIsShaped ==
  ASSUME NEW op, NEW stage, NEW c, c = Call(op, stage)
  PROVE  /\ DOMAIN c = CallFields /\ c.op = op /\ c.stage = stage /\ c.answer = None
         /\ c.from = NewForm(0, 0, None) /\ c.draft = None /\ c.id = 0
         /\ c.message = None
  BY DEF Call, CallFields

LEMMA NewFormIsShaped ==
  ASSUME NEW opening, NEW editing, NEW due, NEW f, f = NewForm(opening, editing, due)
  PROVE  /\ DOMAIN f = {"open", "opening", "editing", "due"}
         /\ f.opening = opening /\ f.editing = editing /\ f.due = due
  BY DEF NewForm

\* The questions asked are records, and No is said to one of them.
LEMMA AskedAreDue ==
  ASSUME NEW d \in Asked PROVE IsDue(d)
  BY DEF Asked, pendingDueList, IsDue

\* The number of a transaction that is made is new.
LEMMA NextNumber ==
  ASSUME Numbered
  PROVE  LET id == 1 + Cardinality(DOMAIN origin)
         IN /\ id \notin DOMAIN origin /\ 0 \notin DOMAIN origin
            /\ Cardinality(DOMAIN origin \cup {id}) \in Nat
            /\ DOMAIN origin \cup {id} = 1..Cardinality(DOMAIN origin \cup {id})
<1> DEFINE n == Cardinality(DOMAIN origin)
<1>1. n \in Nat /\ DOMAIN origin = 1..n
  BY DEF Numbered
<1> HIDE DEF n
<1>2. DOMAIN origin \cup {1 + n} = 1..(n + 1)
  BY <1>1, SMT
<1>3. Cardinality(1..(n + 1)) = n + 1
  BY <1>1, FS_Interval
<1>4. 1 + n \notin DOMAIN origin /\ 0 \notin DOMAIN origin /\ n + 1 \in Nat
  BY <1>1, SMT
<1> QED
  BY <1>2, <1>3, <1>4 DEF n

LEMMA EntryInit == Init => EntryInv
<1> SUFFICES ASSUME Init PROVE EntryInv
  OBVIOUS
<1>1. FormShape
  BY DEF Init, FormShape, NewForm
<1>2. Numbered
  <2>1. DOMAIN origin = Ids(First) /\ ledger = First
    BY DEF Init
  <2>2. Ids(First) = 1..Cardinality(First) /\ Cardinality(First) \in Nat
    BY FirstAssumption, FS_CardinalityType DEF Ids
  <2>3. Cardinality(1..Cardinality(First)) = Cardinality(First)
    BY <2>2, FS_Interval
  <2>4. \A t \in First : {"id", "handled"} \subseteq DOMAIN t /\ t.id \in Ids(First)
    BY FirstAssumption DEF Ids
  <2> QED
    BY <2>1, <2>2, <2>3, <2>4 DEF Numbered
<1>3. HandledHasEntry
  BY FirstAssumption, NoneAssumption DEF Init, HandledHasEntry
<1> QED
  BY <1>1, <1>2, <1>3 DEF Init, EntryInv, ShapeInv

\* A step that writes nothing, and after which each call is one of before or is sound.
LEMMA ScreenStep ==
  ASSUME EntryInv, UNCHANGED <<ledger, origin, skipped>>, FormShape',
         \A m \in DOMAIN status' : status'[m] = "recorded" =>
           m \in DOMAIN status /\ status[m] = "recorded",
         \A d \in calls' : d \in calls \/ (CallShape(d) /\ Earned(d))
  PROVE  EntryInv'
<1>1. Numbered'
  BY DEF EntryInv, ShapeInv, Numbered
<1>2. \A d \in calls' : CallShape(d) /\ Earned(d)
  BY DEF EntryInv, ShapeInv
<1>3. \A d \in calls' : CallShape(d)' /\ Earned(d)'
  BY <1>2 DEF CallShape, Earned, Paid, EnteredFor, Written, IsDue
<1>4. HandledHasEntry'
  BY DEF EntryInv, HandledHasEntry
<1> QED
  BY <1>1, <1>3, <1>4 DEF EntryInv, ShapeInv

\* A call that goes on, is answered, or is given its number or its list.
LEMMA Turned ==
  ASSUME NEW c, DOMAIN c = CallFields, NEW stage, NEW answer
  PROVE  LET d == [c EXCEPT !.stage = stage, !.answer = answer]
         IN /\ DOMAIN d = CallFields /\ d.stage = stage /\ d.answer = answer /\ d.id = c.id
            /\ d.op = c.op /\ d.from = c.from /\ d.draft = c.draft /\ d.photo = c.photo
            /\ d.message = c.message
  BY DEF CallFields

LEMMA TurnedAnswer ==
  ASSUME NEW c, DOMAIN c = CallFields, NEW answer
  PROVE  LET d == [c EXCEPT !.answer = answer]
         IN /\ DOMAIN d = CallFields /\ d.stage = c.stage /\ d.answer = answer /\ d.id = c.id
            /\ d.op = c.op /\ d.from = c.from /\ d.draft = c.draft /\ d.photo = c.photo
            /\ d.message = c.message
  BY DEF CallFields

\* An answer, or its loss, leaves a call sound.
LEMMA AnsweredIsSound ==
  ASSUME NEW c, CallShape(c), Earned(c), NEW answer \in {"ok", "error"},
         ~(answer = "ok" /\ c.stage = "write")
  PROVE  LET d == [c EXCEPT !.answer = answer] IN CallShape(d) /\ Earned(d)
<1> DEFINE d == [c EXCEPT !.answer = answer]
<1>1. DOMAIN c = CallFields
  BY DEF CallShape
<1>2. /\ DOMAIN d = CallFields /\ d.stage = c.stage /\ d.answer = answer /\ d.id = c.id
      /\ d.op = c.op /\ d.from = c.from /\ d.draft = c.draft /\ d.message = c.message
  BY <1>1, TurnedAnswer
<1> HIDE DEF d
<1>3. CallShape(d)
  BY <1>2, NoneAssumption DEF CallShape
<1>4. Earned(d)
  BY <1>2 DEF Earned, Written
<1> QED
  BY <1>3, <1>4 DEF d

LEMMA OpenStep ==
  ASSUME EntryInv, NEW editing, NEW due, due # None => IsDue(due) /\ editing = 0,
         OpenForm(editing, due)
  PROVE  EntryInv'
<1>1. UNCHANGED <<ledger, origin, skipped, status, calls>> /\ form' = NewForm(openings + 1, editing, due)
  BY DEF OpenForm, server
<1>2. FormShape'
  BY <1>1, NewFormIsShaped DEF FormShape, IsDue
<1> QED
  BY <1>1, <1>2, ScreenStep

LEMMA TapStep ==
  ASSUME EntryInv, save \/ remove \/ skip \/ record \/ ignore \/ Arrive
  PROVE  EntryInv'
<1>0. FormShape
  BY DEF EntryInv, ShapeInv
<1>1. CASE save
  <2>1. UNCHANGED <<ledger, origin, skipped, status, form>>
    BY <1>1 DEF save, server
  <2>2. PICK d \in Entered, photo \in Photos, stage \in {"label", "write"} :
          calls' = calls \cup {[Call("save", stage) EXCEPT
                                  !.from = form, !.draft = d, !.photo = photo, !.id = form.editing]}
    BY <1>1 DEF save, Tap
  <2> DEFINE c == Call("save", stage)
             e == [c EXCEPT !.from = form, !.draft = d, !.photo = photo, !.id = form.editing]
  <2>3. DOMAIN c = CallFields /\ c.op = "save" /\ c.stage = stage /\ c.answer = None
    BY CallIsShaped
  <2> HIDE DEF c
  <2>4. /\ DOMAIN e = CallFields /\ e.op = "save" /\ e.stage = stage /\ e.answer = None
        /\ e.from = form /\ e.draft = d /\ e.id = form.editing
    BY <2>3 DEF CallFields
  <2>5. d \in Fields
    BY DEF Entered
  <2> HIDE DEF e
  <2>6. CallShape(e) /\ Earned(e)
    BY <1>0, <2>4, <2>5, NoneAssumption DEF CallShape, Earned, Written, FormShape
  <2> QED
    BY <1>0, <2>1, <2>2, <2>6, ScreenStep DEF FormShape, e, c
<1>2. CASE remove
  <2>1. UNCHANGED <<ledger, origin, skipped, status, form>>
    BY <1>2 DEF remove, server, screen
  <2> DEFINE c == Call("remove", "remove")
             e == [c EXCEPT !.id = form.editing]
  <2>2. calls' = calls \cup {e}
    BY <1>2 DEF remove, Tap
  <2>3. /\ DOMAIN c = CallFields /\ c.op = "remove" /\ c.stage = "remove"
        /\ c.from = NewForm(0, 0, None)
    BY CallIsShaped
  <2> HIDE DEF c
  <2>4. /\ DOMAIN e = CallFields /\ e.op = "remove" /\ e.stage = "remove" /\ e.from.due = None
    BY <2>3, NewFormIsShaped DEF CallFields
  <2> HIDE DEF e
  <2>5. CallShape(e) /\ Earned(e)
    BY <2>4 DEF CallShape, Earned
  <2> QED
    BY <1>0, <2>1, <2>2, <2>5, ScreenStep DEF FormShape
<1>3. CASE skip
  <2>1. UNCHANGED <<ledger, origin, skipped, status, form>>
    BY <1>3 DEF skip, server
  <2>2. PICK d \in Asked : calls' = calls \cup {[Call("skip", "mark") EXCEPT !.from = NewForm(0, 0, d)]}
    BY <1>3 DEF skip, Tap
  <2> DEFINE c == Call("skip", "mark")
             e == [c EXCEPT !.from = NewForm(0, 0, d)]
  <2>3. DOMAIN c = CallFields /\ c.op = "skip" /\ c.stage = "mark"
    BY CallIsShaped
  <2> HIDE DEF c
  <2>4. /\ DOMAIN e = CallFields /\ e.op = "skip" /\ e.stage = "mark" /\ e.from.due = d
    BY <2>3, NewFormIsShaped DEF CallFields
  <2>5. IsDue(d)
    BY AskedAreDue
  <2> HIDE DEF e
  <2>6. CallShape(e) /\ Earned(e)
    BY <2>4, <2>5 DEF CallShape, Earned
  <2> QED
    BY <1>0, <2>1, <2>2, <2>6, ScreenStep DEF FormShape, e, c
<1>4. CASE record
  <2>1. UNCHANGED <<ledger, origin, skipped, status, form>>
    BY <1>4 DEF record, server, screen
  <2>2. PICK d \in Fields, stage \in {"label", "write"} :
          calls' = calls \cup {[Call("record", stage) EXCEPT
                                  !.message = box.list[box.index], !.draft = d,
                                  !.list = box.list, !.index = box.index]}
    BY <1>4 DEF record, Tap
  <2> DEFINE c == Call("record", stage)
             e == [c EXCEPT !.message = box.list[box.index], !.draft = d,
                            !.list = box.list, !.index = box.index]
  <2>3. /\ DOMAIN c = CallFields /\ c.op = "record" /\ c.stage = stage /\ c.answer = None
        /\ c.from = NewForm(0, 0, None) /\ c.id = 0
    BY CallIsShaped
  <2> HIDE DEF c
  <2>4. /\ DOMAIN e = CallFields /\ e.op = "record" /\ e.stage = stage /\ e.answer = None
        /\ e.from.due = None /\ e.draft = d /\ e.id = 0
    BY <2>3, NewFormIsShaped DEF CallFields
  <2>5. d \in Fields
    OBVIOUS
  <2> HIDE DEF e
  <2>6. CallShape(e) /\ Earned(e)
    BY <2>4, <2>5, NoneAssumption DEF CallShape, Earned, Written
  <2> QED
    BY <1>0, <2>1, <2>2, <2>6, ScreenStep DEF FormShape, e, c
<1>5. CASE ignore
  <2>1. UNCHANGED <<ledger, origin, skipped, status, form>>
    BY <1>5 DEF ignore, server, screen
  <2> DEFINE c == Call("ignore", "status")
             e == [c EXCEPT !.message = box.list[box.index], !.list = box.list, !.index = box.index]
  <2>2. calls' = calls \cup {e}
    BY <1>5 DEF ignore, Tap
  <2>3. /\ DOMAIN c = CallFields /\ c.op = "ignore" /\ c.stage = "status"
        /\ c.from = NewForm(0, 0, None)
    BY CallIsShaped
  <2> HIDE DEF c
  <2>4. DOMAIN e = CallFields /\ e.op = "ignore" /\ e.stage = "status" /\ e.from.due = None
    BY <2>3, NewFormIsShaped DEF CallFields
  <2> HIDE DEF e
  <2>5. CallShape(e) /\ Earned(e)
    BY <2>4 DEF CallShape, Earned
  <2> QED
    BY <1>0, <2>1, <2>2, <2>5, ScreenStep DEF FormShape
<1>6. CASE Arrive
  <2>1. UNCHANGED <<ledger, origin, skipped, form>>
    BY <1>6 DEF Arrive, screen
  <2> DEFINE c == Call("bump", "refresh")
  <2>2. calls' = calls \cup {c}
    BY <1>6 DEF Arrive, Tap
  <2>3. \A m \in DOMAIN status' : status'[m] = "recorded" =>
           m \in DOMAIN status /\ status[m] = "recorded"
    BY <1>6 DEF Arrive
  <2>4. /\ DOMAIN c = CallFields /\ c.op = "bump" /\ c.stage = "refresh" /\ c.from.due = None
    BY CallIsShaped, NewFormIsShaped
  <2> HIDE DEF c
  <2>5. CallShape(c) /\ Earned(c)
    BY <2>4 DEF CallShape, Earned
  <2> QED
    BY <1>0, <2>1, <2>2, <2>3, <2>5, ScreenStep DEF FormShape
<1> QED
  BY <1>1, <1>2, <1>3, <1>4, <1>5, <1>6

\* Numbers stay in use while the ledger keeps its transactions, changed or not.
LEMMA NumberedStays ==
  ASSUME Numbered, UNCHANGED origin,
         \A u \in ledger' : \E t \in ledger : u.id = t.id /\ {"id", "handled"} \subseteq DOMAIN u
  PROVE  Numbered'
  BY DEF Numbered

LEMMA MadeStep ==
  ASSUME EntryInv, NEW c \in calls, c.stage = "write", c.answer = None,
         Made(c, c.from.due), UNCHANGED form
  PROVE  EntryInv'
<1> DEFINE id == 1 + Cardinality(DOMAIN origin)
           tx == [f \in DOMAIN c.draft \cup {"id", "handled"} |->
                    IF f = "id" THEN id ELSE IF f = "handled" THEN {} ELSE c.draft[f]]
           mine == Origin(c.from.opening, c.from.due, c.message)
           o == [c EXCEPT !.answer = "ok"]
           d == [o EXCEPT !.id = id]
<1>1. /\ ledger' = ledger \cup {tx}
      /\ origin' = [i \in DOMAIN origin \cup {id} |-> IF i = id THEN mine ELSE origin[i]]
      /\ calls' = (calls \ {c}) \cup {[c EXCEPT !.answer = "ok", !.id = id]}
      /\ UNCHANGED <<status, skipped>>
  BY DEF Made
<1>2. tx.id = id /\ tx.handled = {} /\ {"id", "handled"} \subseteq DOMAIN tx
  OBVIOUS
<1>3. /\ id \notin DOMAIN origin /\ Cardinality(DOMAIN origin \cup {id}) \in Nat
      /\ DOMAIN origin \cup {id} = 1..Cardinality(DOMAIN origin \cup {id})
  BY NextNumber DEF EntryInv, ShapeInv
<1>4. mine.due = c.from.due /\ mine.message = c.message
  BY DEF Origin
<1>5. CallShape(c) /\ Earned(c) /\ DOMAIN c = CallFields
  BY DEF EntryInv, ShapeInv, CallShape
<1>6. /\ DOMAIN d = CallFields /\ d.stage = c.stage /\ d.answer = "ok" /\ d.op = c.op
      /\ d.from = c.from /\ d.draft = c.draft /\ d.message = c.message
  BY <1>5 DEF CallFields
<1>7. d = [c EXCEPT !.answer = "ok", !.id = id]
  BY <1>5 DEF CallFields
<1> HIDE DEF id, tx, mine, o, d
<1>8. DOMAIN origin' = DOMAIN origin \cup {id} /\ origin'[id] = mine
  BY <1>1
<1>9. \A i \in DOMAIN origin : origin'[i] = origin[i]
  BY <1>1, <1>3
<1>10. \A due : Paid(due) => Paid(due)'
  BY <1>8, <1>9 DEF Paid
<1>11. \A m : EnteredFor(m) => EnteredFor(m)'
  BY <1>8, <1>9 DEF EnteredFor
<1>12. Paid(c.from.due)' /\ EnteredFor(c.message)'
  BY <1>4, <1>8 DEF Paid, EnteredFor
<1>13. Numbered'
  BY <1>1, <1>2, <1>3, <1>8 DEF EntryInv, ShapeInv, Numbered
<1>14. HandledHasEntry'
  <2>1. \A t \in ledger' : \A day \in t.handled :
          LET due == [tx |-> t.id, due |-> day]
          IN due \in skipped \/ Paid(due)
    BY <1>1, <1>2 DEF EntryInv, HandledHasEntry, Paid
  <2>2. \A m \in DOMAIN status : status[m] = "recorded" => EnteredFor(m)
    BY DEF EntryInv, HandledHasEntry, EnteredFor
  <2>3. \A t \in ledger' : \A day \in t.handled :
          LET due == [tx |-> t.id, due |-> day]
          IN due \in skipped' \/ Paid(due)'
    BY <1>1, <1>10, <2>1
  <2>4. \A m \in DOMAIN status' : status'[m] = "recorded" => EnteredFor(m)'
    BY <1>1, <1>11, <2>2
  <2> QED
    BY <2>3, <2>4 DEF HandledHasEntry, Paid, EnteredFor
<1>15. CallShape(d)
  BY <1>5, <1>6, NoneAssumption DEF CallShape
<1>16. \A e \in calls' : CallShape(e)
  BY <1>1, <1>7, <1>15 DEF EntryInv, ShapeInv
<1>17. \A e \in calls' : CallShape(e)'
  BY <1>16 DEF CallShape, IsDue
<1>18. \A e \in calls' : Earned(e)'
  <2>1. ASSUME NEW e, e = d PROVE Earned(e)'
    BY <2>1, <1>6, <1>12 DEF Earned
  <2>2. \A e \in calls : Earned(e)'
    BY <1>10, <1>11 DEF EntryInv, Earned, Written
  <2> QED
    BY <1>1, <1>7, <2>1, <2>2
<1> QED
  BY <1>13, <1>14, <1>17, <1>18 DEF EntryInv, ShapeInv, FormShape, IsDue

\* Which calls the server can answer how: a call that makes a transaction has no number.
LEMMA ServedAs ==
  ASSUME EntryInv, NEW c \in calls, Serve(c)
  PROVE  /\ c.answer = None /\ UNCHANGED form
         /\ \/ c.stage = "write" /\ c.id = 0 /\ Made(c, c.from.due)
            \/ /\ c.stage = "write" /\ c.id # 0 /\ UNCHANGED skipped
               /\ Changed(c, {IF t.id # c.id THEN t
                              ELSE [f \in DOMAIN t |-> IF f \in DOMAIN c.draft THEN c.draft[f]
                                                       ELSE t[f]] : t \in ledger})
            \/ /\ c.stage = "remove" /\ UNCHANGED skipped
               /\ Changed(c, {t \in ledger : t.id # c.id})
            \/ /\ c.stage = "mark"
               /\ Changed(c, {IF t.id # c.from.due.tx THEN t
                              ELSE [t EXCEPT !.handled = @ \cup {c.from.due.due}] : t \in ledger})
               /\ skipped' = IF c.op = "skip" THEN skipped \cup {c.from.due} ELSE skipped
            \/ /\ c.stage = "status"
               /\ status' = [status EXCEPT ![c.message] = IF c.op = "record" THEN "recorded"
                                                          ELSE "ignored"]
               /\ calls' = (calls \ {c}) \cup {[c EXCEPT !.answer = "ok"]}
               /\ UNCHANGED <<ledger, origin, skipped>>
            \/ /\ c.stage = "list" /\ UNCHANGED server
               /\ \E list : calls' = (calls \ {c}) \cup {[c EXCEPT !.answer = "ok", !.list = list]}
            \/ /\ calls' = (calls \ {c}) \cup {[c EXCEPT !.answer = "error"]}
               /\ UNCHANGED server
<1>1. c.answer = None /\ UNCHANGED form
  BY DEF Serve, screen
<1>2. 0 \notin Ids(ledger)
  <2>1. 0 \notin DOMAIN origin
    BY NextNumber DEF EntryInv, ShapeInv
  <2> QED
    BY <2>1 DEF EntryInv, ShapeInv, Numbered, Ids
<1>3. CASE c.stage = "write" /\ c.id = 0
  BY <1>1, <1>2, <1>3 DEF Serve
<1>4. CASE c.stage = "write" /\ c.id \in Ids(ledger)
  BY <1>1, <1>2, <1>4 DEF Serve
<1>5. CASE c.stage = "remove" /\ c.id \in Ids(ledger)
  BY <1>1, <1>5 DEF Serve
<1>6. CASE c.stage = "mark" /\ \E t \in ledger : t.id = c.from.due.tx /\ t.repeat # "none"
  BY <1>1, <1>6 DEF Serve
<1>7. CASE c.stage = "status"
  BY <1>1, <1>7 DEF Serve
<1>8. CASE c.stage = "list"
  BY <1>1, <1>8 DEF Serve
<1>9. CASE /\ ~(c.stage = "write" /\ c.id = 0) /\ ~(c.stage = "write" /\ c.id \in Ids(ledger))
           /\ ~(c.stage = "remove" /\ c.id \in Ids(ledger))
           /\ ~(c.stage = "mark" /\ \E t \in ledger : t.id = c.from.due.tx /\ t.repeat # "none")
           /\ c.stage # "status" /\ c.stage # "list"
  BY <1>1, <1>9 DEF Serve
<1> QED
  BY <1>3, <1>4, <1>5, <1>6, <1>7, <1>8, <1>9

LEMMA ServeStep ==
  ASSUME EntryInv, NEW c \in calls, Serve(c)
  PROVE  EntryInv'
<1> DEFINE d == [c EXCEPT !.answer = "ok"]
<1>1. CallShape(c) /\ Earned(c) /\ DOMAIN c = CallFields /\ Numbered /\ FormShape /\ UNCHANGED form
  BY ServedAs DEF EntryInv, ShapeInv, CallShape
<1>2. /\ DOMAIN d = CallFields /\ d.stage = c.stage /\ d.answer = "ok" /\ d.op = c.op
      /\ d.from = c.from /\ d.draft = c.draft /\ d.message = c.message /\ d.id = c.id
  BY <1>1, TurnedAnswer
<1>3. CallShape(d)
  BY <1>1, <1>2, NoneAssumption DEF CallShape
<1>4. c.stage # "write" \/ (c.op = "save" /\ c.from.due = None) => Earned(d)
  BY <1>1, <1>2 DEF Earned, Written
<1>5. FormShape'
  BY <1>1 DEF FormShape, IsDue
<1>6. \A day, t : [tx |-> t.id, due |-> day].tx = t.id
  OBVIOUS
<1> HIDE DEF d
<1>7. CASE c.stage = "write" /\ c.id = 0 /\ Made(c, c.from.due)
  BY <1>1, <1>7, ServedAs, MadeStep
<1>8. ASSUME NEW T, Changed(c, T), UNCHANGED <<status, origin>>, Earned(d),
             \A u \in T : \E t \in ledger : u.id = t.id /\ {"id", "handled"} \subseteq DOMAIN u,
             \A s \in skipped : s \in skipped',
             \A u \in T : \A day \in u.handled :
               LET due == [tx |-> u.id, due |-> day]
               IN due \in skipped' \/ Paid(due)
      PROVE  EntryInv'
  <2>1. ledger' = T /\ calls' = (calls \ {c}) \cup {d}
    BY <1>8 DEF Changed, d
  <2>2. Numbered'
    BY <1>1, <1>8, <2>1, NumberedStays
  <2>3. HandledHasEntry'
    BY <1>8, <2>1 DEF EntryInv, HandledHasEntry, Paid
  <2>4. \A e \in calls' : CallShape(e) /\ Earned(e)
    BY <1>3, <1>8, <2>1 DEF EntryInv, ShapeInv
  <2>5. \A e \in calls' : CallShape(e)' /\ Earned(e)'
    BY <1>8, <2>4 DEF CallShape, Earned, Paid, EnteredFor, Written, IsDue
  <2> QED
    BY <1>5, <2>2, <2>3, <2>5 DEF EntryInv, ShapeInv
<1>9. \A t \in ledger : \A day \in t.handled :
        LET due == [tx |-> t.id, due |-> day] IN due \in skipped \/ Paid(due)
  BY DEF EntryInv, HandledHasEntry, Paid
<1>10. \A t \in ledger : {"id", "handled"} \subseteq DOMAIN t
  BY <1>1 DEF Numbered
<1>11. CASE /\ c.stage = "write" /\ c.id # 0 /\ UNCHANGED skipped
            /\ Changed(c, {IF t.id # c.id THEN t
                           ELSE [f \in DOMAIN t |-> IF f \in DOMAIN c.draft THEN c.draft[f]
                                                    ELSE t[f]] : t \in ledger})
  <2> DEFINE New(t) == IF t.id # c.id THEN t
                       ELSE [f \in DOMAIN t |-> IF f \in DOMAIN c.draft THEN c.draft[f] ELSE t[f]]
             T == {New(t) : t \in ledger}
  <2>1. c.op = "save" /\ c.from.due = None /\ c.draft \in Drafts
    BY <1>1, <1>11, ServedAs DEF CallShape, Fields
  <2>2. {"id", "handled"} \cap DOMAIN c.draft = {}
    BY <2>1, DraftsAssumption
  <2>3. \A t \in ledger : /\ New(t).id = t.id /\ New(t).handled = t.handled
                          /\ {"id", "handled"} \subseteq DOMAIN New(t)
    BY <1>10, <2>2
  <2> HIDE DEF New
  <2>4. \A u \in T : \E t \in ledger : u.id = t.id /\ {"id", "handled"} \subseteq DOMAIN u
    BY <2>3
  <2>5. \A u \in T : \A day \in u.handled :
               LET due == [tx |-> u.id, due |-> day]
               IN due \in skipped' \/ Paid(due)
    BY <1>9, <1>11, <2>3
  <2>6. Changed(c, T)
    BY <1>11 DEF New
  <2>7. UNCHANGED <<status, origin>>
    BY <2>6 DEF Changed
  <2> HIDE DEF T
  <2> QED
    BY <1>4, <1>8, <1>11, <2>1, <2>4, <2>5, <2>6, <2>7
<1>12. CASE c.stage = "remove" /\ UNCHANGED skipped /\ Changed(c, {t \in ledger : t.id # c.id})
  <2> DEFINE T == {t \in ledger : t.id # c.id}
  <2>1. UNCHANGED <<status, origin>>
    BY <1>12 DEF Changed
  <2>2. \A u \in T : u \in ledger
    OBVIOUS
  <2> HIDE DEF T
  <2> QED
    BY <1>4, <1>8, <1>9, <1>10, <1>12, <2>1, <2>2 DEF T
<1>13. CASE /\ c.stage = "mark"
            /\ Changed(c, {IF t.id # c.from.due.tx THEN t
                           ELSE [t EXCEPT !.handled = @ \cup {c.from.due.due}] : t \in ledger})
            /\ skipped' = IF c.op = "skip" THEN skipped \cup {c.from.due} ELSE skipped
  <2> DEFINE New(t) == IF t.id # c.from.due.tx THEN t
                       ELSE [t EXCEPT !.handled = @ \cup {c.from.due.due}]
             T == {New(t) : t \in ledger}
  <2>1. /\ c.op \in {"save", "skip"} /\ c.from.due = [tx |-> c.from.due.tx, due |-> c.from.due.due]
        /\ c.op = "save" => Paid(c.from.due)
    BY <1>1, <1>13 DEF CallShape, IsDue, Earned, Written
  <2>2. c.from.due \in skipped' \/ Paid(c.from.due)
    BY <1>13, <2>1
  <2>3. \A t \in ledger : /\ New(t).id = t.id
                          /\ {"id", "handled"} \subseteq DOMAIN New(t)
                          /\ \A day \in New(t).handled :
                               day \in t.handled \/ (t.id = c.from.due.tx /\ day = c.from.due.due)
    BY <1>10
  <2> HIDE DEF New
  <2>4. \A u \in T : \E t \in ledger : u.id = t.id /\ {"id", "handled"} \subseteq DOMAIN u
    BY <2>3
  <2>5. \A s \in skipped : s \in skipped'
    BY <1>13
  <2>6. \A u \in T : \A day \in u.handled :
               LET due == [tx |-> u.id, due |-> day]
               IN due \in skipped' \/ Paid(due)
    BY <1>9, <2>1, <2>2, <2>3, <2>5
  <2>7. Changed(c, T)
    BY <1>13 DEF New
  <2>8. UNCHANGED <<status, origin>>
    BY <2>7 DEF Changed
  <2> HIDE DEF T
  <2> QED
    BY <1>4, <1>8, <1>13, <2>4, <2>5, <2>6, <2>7, <2>8
<1>14. CASE /\ c.stage = "status"
            /\ status' = [status EXCEPT ![c.message] = IF c.op = "record" THEN "recorded"
                                                       ELSE "ignored"]
            /\ calls' = (calls \ {c}) \cup {[c EXCEPT !.answer = "ok"]}
            /\ UNCHANGED <<ledger, origin, skipped>>
  <2>1. c.op = "record" => EnteredFor(c.message)
    BY <1>1, <1>14 DEF Earned, Written
  <2>2. \A m \in DOMAIN status : status[m] = "recorded" => EnteredFor(m)
    BY DEF EntryInv, HandledHasEntry, EnteredFor
  <2>3. \A m \in DOMAIN status' : status'[m] = "recorded" => EnteredFor(m)
    BY <1>14, <2>1, <2>2
  <2>4. HandledHasEntry'
    BY <1>14, <2>3 DEF EntryInv, HandledHasEntry, EnteredFor
  <2>5. \A e \in calls' : CallShape(e) /\ Earned(e)
    BY <1>3, <1>4, <1>14 DEF EntryInv, ShapeInv, d
  <2>6. origin' = origin
    BY <1>14
  <2>7. \A e \in calls' : CallShape(e)' /\ Earned(e)'
    BY <2>5, <2>6 DEF CallShape, Earned, Paid, EnteredFor, Written, IsDue
  <2>8. Numbered'
    BY <1>1, <1>14 DEF Numbered
  <2> QED
    BY <1>5, <2>4, <2>7, <2>8 DEF EntryInv, ShapeInv
<1>15. CASE /\ c.stage = "list" /\ UNCHANGED server
            /\ \E list : calls' = (calls \ {c}) \cup {[c EXCEPT !.answer = "ok", !.list = list]}
  <2>1. PICK list : calls' = (calls \ {c}) \cup {[c EXCEPT !.answer = "ok", !.list = list]}
    BY <1>15
  <2> DEFINE e == [c EXCEPT !.answer = "ok", !.list = list]
  <2>2. /\ DOMAIN e = CallFields /\ e.stage = c.stage /\ e.answer = "ok" /\ e.op = c.op
        /\ e.from = c.from /\ e.draft = c.draft /\ e.message = c.message /\ e.id = c.id
    BY <1>1 DEF CallFields
  <2>3. UNCHANGED <<ledger, origin, skipped, status>>
    BY <1>15 DEF server
  <2>4. calls' = (calls \ {c}) \cup {e}
    BY <2>1
  <2> HIDE DEF e
  <2>5. CallShape(e) /\ Earned(e)
    BY <1>1, <1>15, <2>2, NoneAssumption DEF CallShape, Earned, Written
  <2> QED
    BY <1>5, <2>3, <2>4, <2>5, ScreenStep
<1>16. CASE /\ calls' = (calls \ {c}) \cup {[c EXCEPT !.answer = "error"]}
            /\ UNCHANGED server
  <2> DEFINE e == [c EXCEPT !.answer = "error"]
  <2>1. CallShape(e) /\ Earned(e)
    BY <1>1, AnsweredIsSound
  <2>2. calls' = (calls \ {c}) \cup {e}
    BY <1>16
  <2> HIDE DEF e
  <2> QED
    BY <1>5, <1>16, <2>1, <2>2, ScreenStep DEF server
<1> QED
  BY ServedAs, <1>7, <1>11, <1>12, <1>13, <1>14, <1>15, <1>16

\* The steps of the chains on the page.
LEMMA AnswerStep ==
  ASSUME EntryInv, NEW c \in calls,
         \/ SaveGoesOn(c) \/ RemoveGoesOn(c) \/ SkipGoesOn(c) \/ RecordGoesOn(c)
         \/ IgnoreEnds(c) \/ LoadEnds(c) \/ Refreshed(c) \/ Failed(c) \/ Lose(c)
  PROVE  EntryInv'
<1>1. CallShape(c) /\ Earned(c) /\ DOMAIN c = CallFields /\ FormShape
  BY DEF EntryInv, ShapeInv, CallShape
<1>2. UNCHANGED <<ledger, origin, skipped, status>>
  BY DEF SaveGoesOn, RemoveGoesOn, SkipGoesOn, RecordGoesOn, IgnoreEnds, LoadEnds, Refreshed,
         Failed, Lose, server
<1>3. form' = form \/ form' = [form EXCEPT !.open = FALSE]
  BY DEF SaveGoesOn, RemoveGoesOn, SkipGoesOn, RecordGoesOn, IgnoreEnds, LoadEnds, Refreshed,
         Failed, Lose, screen
<1>4. FormShape'
  <2>1. CASE form' = form
    BY <1>1, <2>1 DEF FormShape, IsDue
  <2>2. CASE form' = [form EXCEPT !.open = FALSE]
    <3>1. DOMAIN form' = DOMAIN form /\ form'.due = form.due /\ form'.editing = form.editing
      BY <1>1, <2>2 DEF FormShape
    <3> QED
      BY <1>1, <3>1 DEF FormShape, IsDue
  <2> QED
    BY <1>3, <2>1, <2>2
<1>5. ASSUME NEW stage, Goes(c, stage), stage \in {"photo", "refresh"}
      PROVE  EntryInv'
  <2> DEFINE d == [c EXCEPT !.stage = stage, !.answer = None]
  <2>1. DOMAIN d = CallFields /\ d.stage = stage /\ d.op = c.op /\ d.from = c.from /\ d.draft = c.draft
    BY <1>1, Turned
  <2>2. calls' = (calls \ {c}) \cup {d}
    BY <1>5 DEF Goes
  <2> HIDE DEF d
  <2>3. CallShape(d) /\ Earned(d)
    BY <1>1, <1>5, <2>1 DEF CallShape, Earned, Written
  <2> QED
    BY <1>2, <1>4, <2>2, <2>3, ScreenStep
<1>6. ASSUME Goes(c, "write"), c.stage = "label", c.answer = None, c.op \in {"save", "record"}
      PROVE  EntryInv'
  <2> DEFINE d == [c EXCEPT !.stage = "write", !.answer = None]
  <2>1. /\ DOMAIN d = CallFields /\ d.stage = "write" /\ d.answer = None /\ d.op = c.op
        /\ d.from = c.from /\ d.draft = c.draft /\ d.id = c.id
    BY <1>1, Turned
  <2>2. calls' = (calls \ {c}) \cup {d}
    BY <1>6 DEF Goes
  <2> HIDE DEF d
  <2>3. CallShape(d) /\ Earned(d)
    BY <1>1, <1>6, <2>1, NoneAssumption DEF CallShape, Earned, Written
  <2> QED
    BY <1>2, <1>4, <2>2, <2>3, ScreenStep
<1>7. CASE SaveGoesOn(c)
  <2> DEFINE last == c.stage = "photo" \/ ~c.photo
             marks == c.from.due # None /\ c.stage = "write"
  <2>1. c.op = "save" /\ (Answered(c) \/ (c.answer = "error" /\ c.stage = "mark"))
    BY <1>7 DEF SaveGoesOn
  <2>2. CASE c.stage = "label"
    <3>1. Goes(c, "write")
      BY <1>7, <2>2 DEF SaveGoesOn
    <3>2. c.answer = None
      BY <2>1, <2>2 DEF Answered, Plain
    <3> QED
      BY <1>6, <2>1, <2>2, <3>1, <3>2
  <2>3. CASE c.stage # "label" /\ marks
    <3> DEFINE d == [c EXCEPT !.stage = "mark", !.answer = None]
    <3>1. calls' = (calls \ {c}) \cup {d}
      BY <1>7, <2>3 DEF SaveGoesOn, Goes
    <3>2. c.answer = "ok"
      BY <2>1, <2>3 DEF Answered, Plain
    <3>3. DOMAIN d = CallFields /\ d.stage = "mark" /\ d.op = c.op /\ d.from = c.from /\ d.draft = c.draft
      BY <1>1, Turned
    <3> HIDE DEF d
    <3>4. CallShape(d) /\ Earned(d)
      BY <1>1, <2>1, <2>3, <3>2, <3>3 DEF CallShape, Earned, Written
    <3> QED
      BY <1>2, <1>4, <3>1, <3>4, ScreenStep
  <2>4. CASE c.stage # "label" /\ ~marks /\ ~last
    BY <1>5, <1>7, <2>4 DEF SaveGoesOn
  <2>5. CASE c.stage # "label" /\ ~marks /\ last
    BY <1>5, <1>7, <2>5 DEF SaveGoesOn
  <2> QED
    BY <2>2, <2>3, <2>4, <2>5
<1>8. CASE RemoveGoesOn(c) \/ SkipGoesOn(c)
  BY <1>5, <1>8 DEF RemoveGoesOn, SkipGoesOn
<1>9. CASE RecordGoesOn(c)
  <2>1. c.op = "record" /\ Answered(c)
    BY <1>9 DEF RecordGoesOn
  <2>2. CASE c.stage = "label" /\ Goes(c, "write")
    BY <1>6, <2>1, <2>2 DEF Answered, Plain
  <2>3. CASE c.stage = "write" /\ Goes(c, "status")
    <3> DEFINE d == [c EXCEPT !.stage = "status", !.answer = None]
    <3>1. calls' = (calls \ {c}) \cup {d}
      BY <2>3 DEF Goes
    <3>2. c.answer = "ok"
      BY <2>1, <2>3 DEF Answered, Plain
    <3>3. /\ DOMAIN d = CallFields /\ d.stage = "status" /\ d.op = c.op /\ d.from = c.from
          /\ d.draft = c.draft /\ d.message = c.message
      BY <1>1, Turned
    <3> HIDE DEF d
    <3>4. CallShape(d) /\ Earned(d)
      BY <1>1, <2>1, <2>3, <3>2, <3>3 DEF CallShape, Earned, Written
    <3> QED
      BY <1>2, <1>4, <3>1, <3>4, ScreenStep
  <2>4. CASE c.stage = "status" /\ Goes(c, "refresh")
    BY <1>5, <2>4
  <2> QED
    BY <1>9, <2>2, <2>3, <2>4 DEF RecordGoesOn
<1>10. CASE IgnoreEnds(c) \/ LoadEnds(c) \/ Failed(c)
  <2>1. \A e \in calls' : e \in calls
    BY <1>10 DEF IgnoreEnds, LoadEnds, Failed, Ends
  <2> QED
    BY <1>2, <1>4, <2>1, ScreenStep
<1>11. CASE Refreshed(c)
  <2> DEFINE n == Call("load", "list")
             d == [n EXCEPT !.number = c.number]
  <2>1. \A e \in calls' : e \in calls \/ e = d
    BY <1>11 DEF Refreshed
  <2>2. DOMAIN n = CallFields /\ n.op = "load" /\ n.stage = "list" /\ n.from.due = None
    BY CallIsShaped, NewFormIsShaped
  <2> HIDE DEF n
  <2>3. DOMAIN d = CallFields /\ d.op = "load" /\ d.stage = "list" /\ d.from.due = None
    BY <2>2 DEF CallFields
  <2> HIDE DEF d
  <2>4. CallShape(d) /\ Earned(d)
    BY <2>3 DEF CallShape, Earned
  <2> QED
    BY <1>2, <1>4, <2>1, <2>4, ScreenStep
<1>12. CASE Lose(c)
  <2> DEFINE d == [c EXCEPT !.answer = "error"]
  <2>1. CallShape(d) /\ Earned(d)
    BY <1>1, AnsweredIsSound
  <2>2. calls' = (calls \ {c}) \cup {d}
    BY <1>12 DEF Lose
  <2> HIDE DEF d
  <2> QED
    BY <1>2, <1>4, <2>1, <2>2, ScreenStep
<1> QED
  BY <1>7, <1>8, <1>9, <1>10, <1>11, <1>12

LEMMA EntryStep == EntryInv /\ [Next]_vars => EntryInv'
<1> SUFFICES ASSUME EntryInv, [Next]_vars PROVE EntryInv'
  OBVIOUS
<1>0. FormShape
  BY DEF EntryInv, ShapeInv
<1>1. CASE openNew
  BY <1>1, OpenStep DEF openNew
<1>2. CASE openEdit
  BY <1>2, OpenStep DEF openEdit
<1>3. CASE openForOccurrence
  <2>1. PICK d \in Answerable : OpenForm(0, d)
    BY <1>3 DEF openForOccurrence
  <2>2. IsDue(d)
    BY AskedAreDue DEF Answerable
  <2> QED
    BY <2>1, <2>2, OpenStep
<1>4. CASE close
  <2>1. UNCHANGED <<ledger, origin, skipped, status, calls>> /\ form' = [form EXCEPT !.open = FALSE]
    BY <1>4 DEF close, server
  <2>2. DOMAIN form' = DOMAIN form /\ form'.due = form.due /\ form'.editing = form.editing
    BY <1>0, <2>1 DEF FormShape
  <2>3. FormShape'
    BY <1>0, <2>2 DEF FormShape, IsDue
  <2> QED
    BY <2>1, <2>3, ScreenStep
<1>5. CASE save \/ remove \/ skip \/ record \/ ignore \/ Arrive
  BY <1>5, TapStep
<1>6. CASE later \/ UNCHANGED vars
  <2>1. UNCHANGED <<ledger, origin, skipped, status, calls, form>>
    BY <1>6 DEF later, vars, server, screen
  <2>2. FormShape'
    BY <1>0, <2>1 DEF FormShape, IsDue
  <2> QED
    BY <2>1, <2>2, ScreenStep
<1>7. CASE \E c \in calls : Serve(c)
  BY <1>7, ServeStep
<1>8. CASE \E c \in calls :
        \/ SaveGoesOn(c) \/ RemoveGoesOn(c) \/ SkipGoesOn(c) \/ RecordGoesOn(c)
        \/ IgnoreEnds(c) \/ LoadEnds(c) \/ Refreshed(c) \/ Failed(c) \/ Lose(c)
  BY <1>8, AnswerStep
<1> QED
  BY <1>1, <1>2, <1>3, <1>4, <1>5, <1>6, <1>7, <1>8 DEF Next

\* A date is marked as handled, and a message as recorded, only after the transaction it
\* stands for was written or the user has said No.
THEOREM NothingGoesMissing == Spec => []HandledHasEntry
<1>1. EntryInv => HandledHasEntry
  BY DEF EntryInv
<1> QED
  BY <1>1, EntryInit, EntryStep, PTL DEF Spec

-----------------------------------------------------------------------------
\* One entry of an opening of the form.
LEMMA SaveInit == Init => SaveInv
<1> SUFFICES ASSUME Init PROVE SaveInv
  OBVIOUS
<1>1. DOMAIN form = {"open", "opening", "editing", "due"} /\ form.opening = 0 /\ ~form.open
  BY DEF Init, NewForm
<1>2. openings = 0 /\ calls = {} /\ DOMAIN origin = Ids(First)
  BY DEF Init
<1>3. \A i \in DOMAIN origin : origin[i].opening = 0
  BY DEF Init, Origin
<1> QED
  BY <1>1, <1>2, <1>3 DEF SaveInv, Numbers, SavesInv, OneEntryPerSave

LEMMA MadeStays == UNCHANGED origin => \A opening : MadeFor(opening)' <=> MadeFor(opening)
  BY DEF MadeFor

\* A step of the screen, or a tap that is no save.
LEMMA OtherTap ==
  ASSUME SaveInv, UNCHANGED <<calm, origin, openings, saving>>,
         form'.opening = form.opening, form'.open => form.open,
         \A e \in calls : e \in calls',
         \A e \in calls' : e \in calls \/ (e.op # "save" /\ e.from.opening = 0)
  PROVE  SaveInv'
<1>1. Numbers'
  BY DEF SaveInv, Numbers
<1>2. OneEntryPerSave'
  BY DEF SaveInv, OneEntryPerSave
<1>3. calm => SavesInv'
  BY MadeStays DEF SaveInv, SavesInv, Written
<1> QED
  BY <1>1, <1>2, <1>3 DEF SaveInv

\* A chain goes on; where no call fails, the one of a save keeps the form busy.
LEMMA ChainGoesOn ==
  ASSUME SaveInv, NEW c \in calls, NEW d, calls' = (calls \ {c}) \cup {d},
         d.op = c.op, d.from = c.from,
         UNCHANGED <<calm, origin, openings>>,
         form'.opening = form.opening, form'.open => form.open,
         saving => saving',
         calm /\ c.op = "save" =>
           /\ ~d.photo /\ d.stage \in {"write", "mark", "refresh"}
           /\ d.stage = "write" => d.answer # None
           /\ Written(c) /\ form'.open => Written(d)
  PROVE  SaveInv'
<1>1. Numbers'
  BY DEF SaveInv, Numbers
<1>2. OneEntryPerSave'
  BY DEF SaveInv, OneEntryPerSave
<1>3. ASSUME calm PROVE SavesInv'
  <2>1. SavesInv
    BY <1>3 DEF SaveInv
  <2>2. \A e \in calls' :
          IF e.op = "save"
          THEN /\ saving' /\ ~e.photo /\ e.stage \in {"write", "mark", "refresh"}
               /\ e.stage = "write" /\ e.answer = None /\ e.id = 0 => ~MadeFor(e.from.opening)
          ELSE e.from.opening = 0
    BY <1>3, <2>1 DEF SavesInv
  <2>3. \A e, f \in calls' : e.op = "save" /\ f.op = "save" => e = f
    BY <2>1 DEF SavesInv
  <2>4. form'.open /\ MadeFor(form.opening) =>
          \E e \in calls' : e.op = "save" /\ Written(e) /\ e.from.opening = form.opening
    BY <1>3, <2>1 DEF SavesInv
  <2> QED
    BY <2>2, <2>3, <2>4, MadeStays DEF SavesInv, Written
<1> QED
  BY <1>1, <1>2, <1>3 DEF SaveInv

\* A chain ends, and the form whose save it was has been closed before, or has nothing.
LEMMA ChainEnds ==
  ASSUME SaveInv, NEW c \in calls,
         UNCHANGED <<calm, origin, openings, form>>,
         \A e \in calls : e = c \/ e \in calls',
         \A e \in calls' : (e \in calls /\ e # c) \/ (e.op # "save" /\ e.from.opening = 0),
         c.op # "save" /\ saving => saving',
         calm /\ c.op = "save" => ~Written(c)
  PROVE  SaveInv'
<1>1. Numbers'
  BY DEF SaveInv, Numbers
<1>2. OneEntryPerSave'
  BY DEF SaveInv, OneEntryPerSave
<1>3. ASSUME calm PROVE SavesInv'
  <2>1. SavesInv
    BY <1>3 DEF SaveInv
  <2>2. \A e \in calls' :
          IF e.op = "save"
          THEN /\ saving' /\ ~e.photo /\ e.stage \in {"write", "mark", "refresh"}
               /\ e.stage = "write" /\ e.answer = None /\ e.id = 0 => ~MadeFor(e.from.opening)
          ELSE e.from.opening = 0
    BY <1>3, <2>1 DEF SavesInv
  <2>3. \A e, f \in calls' : e.op = "save" /\ f.op = "save" => e = f
    BY <2>1 DEF SavesInv
  <2>4. form.open /\ MadeFor(form.opening) =>
          \E e \in calls' : e.op = "save" /\ Written(e) /\ e.from.opening = form.opening
    BY <1>3, <2>1 DEF SavesInv
  <2> QED
    BY <2>2, <2>3, <2>4, MadeStays DEF SavesInv, Written
<1> QED
  BY <1>1, <1>2, <1>3 DEF SaveInv

\* An opening has a number of its own.
LEMMA OpenSaves ==
  ASSUME SaveInv, NEW editing, NEW due, OpenForm(editing, due)
  PROVE  SaveInv'
<1>1. /\ UNCHANGED <<calm, origin, saving, calls>> /\ openings' = openings + 1
      /\ form' = NewForm(openings + 1, editing, due)
  BY DEF OpenForm, server
<1>2. form'.opening = openings + 1
  BY <1>1, NewFormIsShaped
<1>3. ~MadeFor(openings + 1)
  BY DEF SaveInv, Numbers, MadeFor
<1>4. Numbers'
  BY <1>1, <1>2 DEF SaveInv, Numbers
<1>5. OneEntryPerSave'
  BY <1>1 DEF SaveInv, OneEntryPerSave
<1>6. calm => SavesInv'
  BY <1>1, <1>2, <1>3, MadeStays DEF SaveInv, SavesInv, Written
<1> QED
  BY <1>1, <1>4, <1>5, <1>6 DEF SaveInv

\* A save begins when no other is under way, of an opening that has written nothing yet.
LEMMA SaveBegins ==
  ASSUME SaveInv, EntryInv, save
  PROVE  SaveInv'
<1>0. UNCHANGED <<calm, origin, openings, form>>
  BY DEF save, server
<1>1. form.open /\ ~saving
  BY DEF save, CanSave, OnSheet
<1>2a. PICK d \in Entered, photo \in Photos : \E label \in Labels(d) :
         /\ saving' = ~label
         /\ calls' = calls \cup
              {[Call("save", IF label THEN "label" ELSE "write") EXCEPT
                  !.from = form, !.draft = d, !.photo = photo, !.id = form.editing]}
  BY DEF save, Tap
<1>2. PICK label \in Labels(d) :
        /\ saving' = ~label
        /\ calls' = calls \cup
             {[Call("save", IF label THEN "label" ELSE "write") EXCEPT
                 !.from = form, !.draft = d, !.photo = photo, !.id = form.editing]}
  BY <1>2a
<1> DEFINE stage == IF label THEN "label" ELSE "write"
           c == Call("save", stage)
           e == [c EXCEPT !.from = form, !.draft = d, !.photo = photo, !.id = form.editing]
<1>3. DOMAIN c = CallFields /\ c.op = "save" /\ c.stage = stage
  BY CallIsShaped
<1> HIDE DEF c
<1>4. e.op = "save" /\ e.stage = stage /\ e.from = form
  BY <1>3 DEF CallFields
<1>5. e.photo = photo
  BY <1>3 DEF CallFields
<1>6. calm => label = FALSE /\ photo = FALSE
  BY DEF Labels, Photos
<1>7. calm => saving' /\ ~e.photo /\ e.stage = "write"
  BY <1>2, <1>4, <1>5, <1>6
<1>8. calls' = calls \cup {e}
  BY <1>2 DEF c
<1> HIDE DEF e
<1>9. Numbers'
  BY <1>0, <1>4, <1>8 DEF SaveInv, Numbers
<1>10. OneEntryPerSave'
  BY <1>0 DEF SaveInv, OneEntryPerSave
<1>11. ASSUME calm PROVE SavesInv'
  <2>1. SavesInv
    BY <1>11 DEF SaveInv
  <2>2. \A f \in calls : f.op # "save"
    BY <1>1, <2>1 DEF SavesInv
  <2>3. ~MadeFor(form.opening)
    BY <1>1, <2>1, <2>2 DEF SavesInv
  <2>4. \A f \in calls' :
          IF f.op = "save"
          THEN /\ saving' /\ ~f.photo /\ f.stage \in {"write", "mark", "refresh"}
               /\ f.stage = "write" /\ f.answer = None /\ f.id = 0 => ~MadeFor(f.from.opening)
          ELSE f.from.opening = 0
    BY <1>4, <1>7, <1>8, <1>11, <2>1, <2>2, <2>3 DEF SavesInv
  <2>5. \A f, g \in calls' : f.op = "save" /\ g.op = "save" => f = g
    BY <1>8, <2>2
  <2> QED
    BY <1>0, <2>3, <2>4, <2>5, MadeStays DEF SavesInv
<1> QED
  BY <1>0, <1>9, <1>10, <1>11 DEF SaveInv

\* What is made for an opening is the first of it.
LEMMA MadeSaves ==
  ASSUME SaveInv, EntryInv, NEW c \in calls, c.stage = "write", c.answer = None, c.id = 0,
         Made(c, c.from.due), UNCHANGED <<calm, screen, openings>>
  PROVE  SaveInv'
<1> DEFINE id == 1 + Cardinality(DOMAIN origin)
           mine == Origin(c.from.opening, c.from.due, c.message)
           o == [c EXCEPT !.answer = "ok"]
           d == [o EXCEPT !.id = id]
<1>1. /\ origin' = [i \in DOMAIN origin \cup {id} |-> IF i = id THEN mine ELSE origin[i]]
      /\ calls' = (calls \ {c}) \cup {[c EXCEPT !.answer = "ok", !.id = id]}
  BY DEF Made
<1>2. id \notin DOMAIN origin
  BY NextNumber DEF EntryInv, ShapeInv
<1>3. mine.opening = c.from.opening
  BY DEF Origin
<1>4. DOMAIN c = CallFields
  BY DEF EntryInv, ShapeInv, CallShape
<1>5. d = [c EXCEPT !.answer = "ok", !.id = id] /\ DOMAIN d = CallFields
  BY <1>4 DEF CallFields
<1>6. d.stage = "write" /\ d.answer = "ok" /\ d.op = c.op /\ d.from = c.from
  BY <1>4 DEF CallFields
<1>7. d.photo = c.photo
  BY <1>4 DEF CallFields
<1> HIDE DEF id, mine, o, d
<1>8. /\ DOMAIN origin' = DOMAIN origin \cup {id} /\ origin'[id] = mine
      /\ \A i \in DOMAIN origin : origin'[i] = origin[i]
  BY <1>1, <1>2
<1>9. calls' = (calls \ {c}) \cup {d}
  BY <1>1, <1>5
<1>10. UNCHANGED <<form, saving>>
  BY DEF screen
<1>11. Ids(First) \subseteq DOMAIN origin
  BY DEF EntryInv, ShapeInv, Numbered
<1>12. \A opening : MadeFor(opening)' => MadeFor(opening) \/ opening = c.from.opening
  BY <1>3, <1>8 DEF MadeFor
<1>13. Numbers'
  BY <1>3, <1>6, <1>8, <1>9, <1>10 DEF SaveInv, Numbers
<1>14. ASSUME calm PROVE OneEntryPerSave' /\ SavesInv'
  <2>1. SavesInv
    BY <1>14 DEF SaveInv
  <2>2. ~MadeFor(c.from.opening)
    BY <2>1 DEF SavesInv, MadeFor
  <2>3. OneEntryPerSave'
    <3> SUFFICES ASSUME NEW i \in DOMAIN origin' \ Ids(First), NEW j \in DOMAIN origin' \ Ids(First),
                        i # j, origin'[i].opening = origin'[j].opening
                 PROVE  origin'[i].opening = 0
      BY DEF OneEntryPerSave, Ids
    <3>1. CASE i = id
      BY <1>3, <1>8, <2>2, <3>1 DEF MadeFor
    <3>2. CASE j = id
      BY <1>3, <1>8, <2>2, <3>2 DEF MadeFor
    <3>3. CASE i # id /\ j # id
      BY <1>8, <1>14, <3>3 DEF SaveInv, OneEntryPerSave
    <3> QED
      BY <3>1, <3>2, <3>3
  <2>4. \A f \in calls' : f.op # "save" => f.from.opening = 0
    BY <1>6, <1>9, <2>1 DEF SavesInv
  <2>5. ASSUME NEW f \in calls', f.op = "save"
        PROVE  /\ saving' /\ ~f.photo /\ f.stage \in {"write", "mark", "refresh"}
               /\ f.stage = "write" /\ f.answer = None /\ f.id = 0 => ~MadeFor(f.from.opening)'
    <3>1. CASE f = d
      BY <1>6, <1>7, <1>10, <2>1, <2>5, <3>1, NoneAssumption DEF SavesInv
    <3>2. CASE f \in calls /\ f # c
      <4>1. c.op # "save"
        BY <2>1, <2>5, <3>2 DEF SavesInv
      <4>2. c.from.opening = 0
        BY <2>1, <4>1 DEF SavesInv
      <4>3. MadeFor(f.from.opening)' => MadeFor(f.from.opening)
        BY <1>12, <4>2 DEF MadeFor
      <4> QED
        BY <1>10, <2>1, <2>5, <3>2, <4>3 DEF SavesInv
    <3> QED
      BY <1>9, <2>5, <3>1, <3>2
  <2>6. \A f, g \in calls' : f.op = "save" /\ g.op = "save" => f = g
    BY <1>6, <1>9, <2>1 DEF SavesInv
  <2>7. ASSUME form.open, MadeFor(form.opening)'
        PROVE  \E f \in calls' : f.op = "save" /\ Written(f) /\ f.from.opening = form.opening
    <3>1. CASE MadeFor(form.opening)
      <4>1. PICK f \in calls : f.op = "save" /\ Written(f) /\ f.from.opening = form.opening
        BY <2>1, <2>7, <3>1 DEF SavesInv
      <4>2. f # c
        BY <4>1, NoneAssumption DEF Written
      <4> QED
        BY <1>9, <4>1, <4>2
    <3>2. CASE form.opening = c.from.opening
      <4>1. c.op = "save"
        BY <1>10, <2>1, <2>7, <3>2 DEF SavesInv, MadeFor
      <4> QED
        BY <1>6, <1>9, <3>2, <4>1 DEF Written
    <3> QED
      BY <1>10, <1>12, <2>7, <3>1, <3>2
  <2>8. SavesInv'
    BY <1>10, <2>4, <2>5, <2>6, <2>7 DEF SavesInv, Written
  <2> QED
    BY <2>3, <2>8
<1> QED
  BY <1>13, <1>14 DEF SaveInv, OneEntryPerSave

LEMMA ServeSaves ==
  ASSUME SaveInv, EntryInv, NEW c \in calls, Serve(c)
  PROVE  SaveInv'
<1>1. c.answer = None /\ UNCHANGED <<calm, screen, openings>>
  BY DEF Serve
<1>2. UNCHANGED <<form, saving>>
  BY <1>1 DEF screen
<1>3. DOMAIN c = CallFields
  BY DEF EntryInv, ShapeInv, CallShape
<1>4. CASE c.stage = "write" /\ c.id = 0 /\ Made(c, c.from.due)
  BY <1>1, <1>4, MadeSaves
<1>5. ASSUME NEW answer \in {"ok", "error"}, UNCHANGED origin,
             calls' = (calls \ {c}) \cup {[c EXCEPT !.answer = answer]}
      PROVE  SaveInv'
  <2> DEFINE d == [c EXCEPT !.answer = answer]
  <2>1. d.stage = c.stage /\ d.answer = answer /\ d.op = c.op /\ d.from = c.from
    BY <1>3, TurnedAnswer
  <2>2. d.photo = c.photo
    BY <1>3 DEF CallFields
  <2>3. calls' = (calls \ {c}) \cup {d}
    BY <1>5
  <2> HIDE DEF d
  <2>4. ASSUME calm, c.op = "save"
        PROVE  /\ ~d.photo /\ d.stage \in {"write", "mark", "refresh"}
               /\ d.stage = "write" => d.answer # None
               /\ Written(c) => Written(d)
    <3>1. ~c.photo /\ c.stage \in {"write", "mark", "refresh"}
      BY <2>4 DEF SaveInv, SavesInv
    <3> QED
      BY <1>1, <2>1, <2>2, <3>1, NoneAssumption DEF Written
  <2> QED
    BY <1>1, <1>2, <1>5, <2>1, <2>3, <2>4, ChainGoesOn
<1>6. CASE \E T : Changed(c, T)
  BY <1>5, <1>6 DEF Changed
<1>7. CASE /\ c.stage = "status" /\ UNCHANGED <<ledger, origin, skipped>>
           /\ calls' = (calls \ {c}) \cup {[c EXCEPT !.answer = "ok"]}
  BY <1>5, <1>7
<1>8. CASE /\ c.stage = "list" /\ UNCHANGED server
           /\ \E list : calls' = (calls \ {c}) \cup {[c EXCEPT !.answer = "ok", !.list = list]}
  <2>1. PICK list : calls' = (calls \ {c}) \cup {[c EXCEPT !.answer = "ok", !.list = list]}
    BY <1>8
  <2> DEFINE d == [c EXCEPT !.answer = "ok", !.list = list]
  <2>2. d.op = c.op /\ d.from = c.from
    BY <1>3 DEF CallFields
  <2>3. calls' = (calls \ {c}) \cup {d} /\ UNCHANGED origin
    BY <1>8, <2>1 DEF server
  <2>4. ~(calm /\ c.op = "save")
    BY <1>8 DEF SaveInv, SavesInv
  <2> HIDE DEF d
  <2> QED
    BY <1>1, <1>2, <2>2, <2>3, <2>4, ChainGoesOn
<1>9. CASE calls' = (calls \ {c}) \cup {[c EXCEPT !.answer = "error"]} /\ UNCHANGED server
  BY <1>5, <1>9 DEF server
<1>10. \/ c.stage = "write" /\ c.id = 0 /\ Made(c, c.from.due)
       \/ \E T : Changed(c, T)
       \/ /\ c.stage = "status" /\ UNCHANGED <<ledger, origin, skipped>>
          /\ calls' = (calls \ {c}) \cup {[c EXCEPT !.answer = "ok"]}
       \/ /\ c.stage = "list" /\ UNCHANGED server
          /\ \E list : calls' = (calls \ {c}) \cup {[c EXCEPT !.answer = "ok", !.list = list]}
       \/ calls' = (calls \ {c}) \cup {[c EXCEPT !.answer = "error"]} /\ UNCHANGED server
  BY ServedAs
<1> QED
  BY <1>4, <1>6, <1>7, <1>8, <1>9, <1>10

LEMMA AnswerSaves ==
  ASSUME SaveInv, EntryInv, NEW c \in calls,
         \/ SaveGoesOn(c) \/ RemoveGoesOn(c) \/ SkipGoesOn(c) \/ RecordGoesOn(c)
         \/ IgnoreEnds(c) \/ LoadEnds(c) \/ Refreshed(c) \/ Failed(c) \/ Lose(c)
  PROVE  SaveInv'
<1>1. DOMAIN c = CallFields /\ FormShape
  BY DEF EntryInv, ShapeInv, CallShape
<1>2. UNCHANGED <<calm, origin, openings>>
  BY DEF SaveGoesOn, RemoveGoesOn, SkipGoesOn, RecordGoesOn, IgnoreEnds, LoadEnds, Refreshed,
         Failed, Lose, server
<1>3. form' = form \/ form' = [form EXCEPT !.open = FALSE]
  BY DEF SaveGoesOn, RemoveGoesOn, SkipGoesOn, RecordGoesOn, IgnoreEnds, LoadEnds, Refreshed,
         Failed, Lose, screen
<1>4. ASSUME form' = [form EXCEPT !.open = FALSE] PROVE form'.opening = form.opening /\ ~form'.open
  BY <1>1, <1>4 DEF FormShape
<1>5. form'.opening = form.opening /\ (form'.open => form.open)
  BY <1>3, <1>4
<1>6. calm /\ c.op = "save" => saving /\ ~c.photo /\ c.stage \in {"write", "mark", "refresh"}
  BY DEF SaveInv, SavesInv
<1>7. ASSUME c.op # "save", UNCHANGED saving, NEW stage, Goes(c, stage)
      PROVE  SaveInv'
  <2> DEFINE d == [c EXCEPT !.stage = stage, !.answer = None]
  <2>1. d.op = c.op /\ d.from = c.from
    BY <1>1, Turned
  <2>2. calls' = (calls \ {c}) \cup {d}
    BY <1>7 DEF Goes
  <2> HIDE DEF d
  <2> QED
    BY <1>2, <1>5, <1>7, <2>1, <2>2, ChainGoesOn
<1>8. CASE SaveGoesOn(c)
  <2> DEFINE last == c.stage = "photo" \/ ~c.photo
             marks == c.from.due # None /\ c.stage = "write"
             stage == CASE c.stage = "label"                      -> "write"
                        [] c.stage # "label" /\ marks             -> "mark"
                        [] c.stage # "label" /\ ~marks /\ ~last   -> "photo"
                        [] c.stage # "label" /\ ~marks /\ last    -> "refresh"
             d == [c EXCEPT !.stage = stage, !.answer = None]
  <2>1. /\ c.op = "save" /\ saving' = TRUE /\ calls' = (calls \ {c}) \cup {d}
        /\ form' = IF stage = "refresh" THEN [form EXCEPT !.open = FALSE] ELSE form
    BY <1>8 DEF SaveGoesOn, Goes
  <2>2. calm => stage \in {"mark", "refresh"}
    BY <1>6, <2>1
  <2>3. d.op = c.op /\ d.from = c.from /\ d.stage = stage
    BY <1>1, Turned
  <2>4. d.photo = c.photo
    BY <1>1 DEF CallFields
  <2> HIDE DEF d, stage
  <2>5. calm => ~d.photo /\ d.stage \in {"mark", "refresh"} /\ (form'.open => Written(d))
    BY <1>4, <1>6, <2>1, <2>2, <2>3, <2>4 DEF Written
  <2> QED
    BY <1>2, <1>5, <2>1, <2>3, <2>5, ChainGoesOn
<1>9. CASE RemoveGoesOn(c) \/ SkipGoesOn(c) \/ RecordGoesOn(c)
  <2>1. c.op # "save" /\ UNCHANGED saving
    BY <1>9 DEF RemoveGoesOn, SkipGoesOn, RecordGoesOn, screen
  <2>2. \E stage : Goes(c, stage)
    BY <1>9 DEF RemoveGoesOn, SkipGoesOn, RecordGoesOn
  <2> QED
    BY <1>7, <2>1, <2>2
<1>10. CASE IgnoreEnds(c) \/ LoadEnds(c)
  <2>1. c.op # "save" /\ UNCHANGED <<saving, form>> /\ calls' = calls \ {c}
    BY <1>10 DEF IgnoreEnds, LoadEnds, Ends
  <2> QED
    BY <1>2, <2>1, ChainEnds
<1>11. CASE Failed(c)
  <2>1. /\ UNCHANGED form /\ calls' = calls \ {c} /\ c.answer = "error"
        /\ ~(c.op = "save" /\ c.stage = "mark")
    BY <1>11 DEF Failed, Ends
  <2>2. c.op # "save" /\ saving => saving'
    BY <1>11 DEF Failed
  <2>3. calm /\ c.op = "save" => ~Written(c)
    BY <1>6, <2>1 DEF Written
  <2> QED
    BY <1>2, <2>1, <2>2, <2>3, ChainEnds
<1>12. CASE Refreshed(c)
  <2> DEFINE n == Call("load", "list")
             d == [n EXCEPT !.number = c.number]
  <2>1. /\ UNCHANGED form /\ c.stage = "refresh"
        /\ \A e \in calls' : (e \in calls /\ e # c) \/ e = d
        /\ \A e \in calls : e = c \/ e \in calls'
    BY <1>12 DEF Refreshed
  <2>2. c.op # "save" /\ saving => saving'
    BY <1>12 DEF Refreshed
  <2>3. DOMAIN n = CallFields /\ n.op = "load" /\ n.from.opening = 0
    BY CallIsShaped, NewFormIsShaped
  <2> HIDE DEF n
  <2>4. d.op = "load" /\ d.from.opening = 0
    BY <2>3 DEF CallFields
  <2> HIDE DEF d
  <2>5. ~Written(c)
    BY <2>1 DEF Written
  <2> QED
    BY <1>2, <2>1, <2>2, <2>4, <2>5, ChainEnds
<1>13. CASE Lose(c)
  <2> DEFINE d == [c EXCEPT !.answer = "error"]
  <2>1. d.op = c.op /\ d.from = c.from
    BY <1>1, TurnedAnswer
  <2>2. calls' = (calls \ {c}) \cup {d} /\ ~calm /\ UNCHANGED <<saving, form>>
    BY <1>13 DEF Lose, screen
  <2> HIDE DEF d
  <2> QED
    BY <1>2, <1>5, <2>1, <2>2, ChainGoesOn
<1> QED
  BY <1>8, <1>9, <1>10, <1>11, <1>12, <1>13

LEMMA SaveStep == EntryInv /\ SaveInv /\ [Next]_vars => SaveInv'
<1> SUFFICES ASSUME EntryInv, SaveInv, [Next]_vars PROVE SaveInv'
  OBVIOUS
<1>0. FormShape
  BY DEF EntryInv, ShapeInv
<1>1. CASE openNew \/ openEdit \/ openForOccurrence
  BY <1>1, OpenSaves DEF openNew, openEdit, openForOccurrence
<1>2. CASE close
  <2>1. UNCHANGED <<calm, origin, openings, saving, calls>> /\ form' = [form EXCEPT !.open = FALSE]
    BY <1>2 DEF close, server
  <2>2. form'.opening = form.opening /\ ~form'.open
    BY <1>0, <2>1 DEF FormShape
  <2> QED
    BY <2>1, <2>2, OtherTap
<1>3. CASE save
  BY <1>3, SaveBegins
<1>4. CASE remove
  <2> DEFINE c == Call("remove", "remove")
             e == [c EXCEPT !.id = form.editing]
  <2>1. UNCHANGED <<calm, origin, openings, saving, form>> /\ calls' = calls \cup {e}
    BY <1>4 DEF remove, Tap, server, screen
  <2>2. DOMAIN c = CallFields /\ c.op = "remove" /\ c.from.opening = 0
    BY CallIsShaped, NewFormIsShaped
  <2> HIDE DEF c
  <2>3. e.op = "remove" /\ e.from.opening = 0
    BY <2>2 DEF CallFields
  <2> HIDE DEF e
  <2> QED
    BY <2>1, <2>3, OtherTap
<1>5. CASE skip
  <2>1. PICK d : calls' = calls \cup {[Call("skip", "mark") EXCEPT !.from = NewForm(0, 0, d)]}
    BY <1>5 DEF skip, Tap
  <2> DEFINE c == Call("skip", "mark")
             e == [c EXCEPT !.from = NewForm(0, 0, d)]
  <2>2. UNCHANGED <<calm, origin, openings, saving, form>>
    BY <1>5 DEF skip, server
  <2>3. DOMAIN c = CallFields /\ c.op = "skip"
    BY CallIsShaped
  <2> HIDE DEF c
  <2>4. e.op = "skip" /\ e.from.opening = 0
    BY <2>3, NewFormIsShaped DEF CallFields
  <2>5. calls' = calls \cup {e}
    BY <2>1 DEF c
  <2> HIDE DEF e
  <2> QED
    BY <2>2, <2>4, <2>5, OtherTap
<1>6. CASE record
  <2>1. PICK d, stage : calls' = calls \cup {[Call("record", stage) EXCEPT
                                               !.message = box.list[box.index], !.draft = d,
                                               !.list = box.list, !.index = box.index]}
    BY <1>6 DEF record, Tap
  <2> DEFINE c == Call("record", stage)
             e == [c EXCEPT !.message = box.list[box.index], !.draft = d,
                            !.list = box.list, !.index = box.index]
  <2>2. UNCHANGED <<calm, origin, openings, saving, form>>
    BY <1>6 DEF record, server, screen
  <2>3. DOMAIN c = CallFields /\ c.op = "record" /\ c.from.opening = 0
    BY CallIsShaped, NewFormIsShaped
  <2> HIDE DEF c
  <2>4. e.op = "record" /\ e.from.opening = 0
    BY <2>3 DEF CallFields
  <2>5. calls' = calls \cup {e}
    BY <2>1 DEF c
  <2> HIDE DEF e
  <2> QED
    BY <2>2, <2>4, <2>5, OtherTap
<1>7. CASE ignore
  <2> DEFINE c == Call("ignore", "status")
             e == [c EXCEPT !.message = box.list[box.index], !.list = box.list, !.index = box.index]
  <2>1. UNCHANGED <<calm, origin, openings, saving, form>> /\ calls' = calls \cup {e}
    BY <1>7 DEF ignore, Tap, server, screen
  <2>2. DOMAIN c = CallFields /\ c.op = "ignore" /\ c.from.opening = 0
    BY CallIsShaped, NewFormIsShaped
  <2> HIDE DEF c
  <2>3. e.op = "ignore" /\ e.from.opening = 0
    BY <2>2 DEF CallFields
  <2> HIDE DEF e
  <2> QED
    BY <2>1, <2>3, OtherTap
<1>8. CASE Arrive
  <2> DEFINE c == Call("bump", "refresh")
  <2>1. UNCHANGED <<calm, origin, openings, saving, form>> /\ calls' = calls \cup {c}
    BY <1>8 DEF Arrive, Tap, screen
  <2>2. c.op = "bump" /\ c.from.opening = 0
    BY CallIsShaped, NewFormIsShaped
  <2> HIDE DEF c
  <2> QED
    BY <2>1, <2>2, OtherTap
<1>9. CASE later \/ UNCHANGED vars
  <2>1. UNCHANGED <<calm, origin, openings, saving, form, calls>>
    BY <1>9 DEF later, vars, server, screen
  <2> QED
    BY <2>1, OtherTap
<1>10. CASE \E c \in calls : Serve(c)
  BY <1>10, ServeSaves
<1>11. CASE \E c \in calls :
        \/ SaveGoesOn(c) \/ RemoveGoesOn(c) \/ SkipGoesOn(c) \/ RecordGoesOn(c)
        \/ IgnoreEnds(c) \/ LoadEnds(c) \/ Refreshed(c) \/ Failed(c) \/ Lose(c)
  BY <1>11, AnswerSaves
<1> QED
  BY <1>1, <1>2, <1>3, <1>4, <1>5, <1>6, <1>7, <1>8, <1>9, <1>10, <1>11 DEF Next

\* Where no call fails and no label is made first, an opening of the form writes at most
\* one transaction, however often the user taps.
THEOREM OneEntry == Spec => []OneEntryPerSave
<1>1. Init => EntryInv /\ SaveInv
  BY EntryInit, SaveInit
<1>2. EntryInv /\ SaveInv /\ [Next]_vars => (EntryInv /\ SaveInv)'
  BY EntryStep, SaveStep
<1>3. SaveInv => OneEntryPerSave
  BY DEF SaveInv
<1> QED
  BY <1>1, <1>2, <1>3, PTL DEF Spec

-----------------------------------------------------------------------------
\* Sums.  A set of naturals that holds zero and every successor holds all of them.
LEMMA NatSet ==
  ASSUME NEW T \in SUBSET Nat, 0 \in T, \A n \in T : n + 1 \in T
  PROVE  T = Nat
<1> DEFINE R == OpToRel(<, Nat)
           U == Nat \ T
<1>1. SUFFICES ASSUME U # {} PROVE FALSE
  OBVIOUS
<1>2. PICK x \in U : \A y \in U : ~ (<<y, x>> \in R)
  BY <1>1, NatLessThanWellFounded, WFMin
<1>3. \A y \in Nat : y < x => <<y, x>> \in R
  BY DEF OpToRel
<1> HIDE DEF R
<1>4. x # 0 /\ x \in Nat /\ x \notin T
  OBVIOUS
<1>5. x - 1 \in Nat /\ x - 1 < x /\ x = (x - 1) + 1
  BY <1>4
<1>6. x - 1 \in T
  BY <1>2, <1>3, <1>5
<1> QED
  BY <1>4, <1>5, <1>6

LEMMA TakenOut ==
  ASSUME NEW S, IsFiniteSet(S), NEW A \in SUBSET S
  PROVE  /\ IsFiniteSet(A) /\ Cardinality(A) \in Nat /\ (Cardinality(A) = 0 <=> A = {})
         /\ \A y \in A : Cardinality(A \ {y}) = Cardinality(A) - 1
<1>1. IsFiniteSet(A)
  BY FS_Subset
<1> QED
  BY <1>1, FS_CardinalityType, FS_EmptySet, FS_RemoveElement

\* A set of sets that holds the empty one, and a set whenever it holds it without one of
\* its elements, holds every subset of a finite set.
LEMMA Subsets ==
  ASSUME NEW S, IsFiniteSet(S), NEW U, {} \in U,
         \A A \in SUBSET S : \A y \in A : A \ {y} \in U => A \in U
  PROVE  \A A \in SUBSET S : A \in U
<1> DEFINE T == {k \in Nat : \A A \in SUBSET S : Cardinality(A) = k => A \in U}
<1>1. 0 \in T
  BY TakenOut
<1>2. ASSUME NEW k \in T PROVE k + 1 \in T
  <2> SUFFICES ASSUME NEW A \in SUBSET S, Cardinality(A) = k + 1 PROVE A \in U
    OBVIOUS
  <2>1. A # {}
    BY TakenOut
  <2>2. PICK y \in A : TRUE
    BY <2>1
  <2>3. Cardinality(A \ {y}) = k /\ A \ {y} \in SUBSET S
    BY TakenOut
  <2> QED
    BY <2>2, <2>3
<1> HIDE DEF T
<1>3. T = Nat
  BY <1>1, <1>2, NatSet DEF T
<1> QED
  BY <1>3, TakenOut DEF T

Pick(s) == CHOOSE x \in s : TRUE

\* g is the recursive function of a sum: g[s] is the sum of f over s.
IsSum(g, f, S) ==
  /\ g \in [SUBSET S -> Int]
  /\ \A s \in SUBSET S : g[s] = IF s = {} THEN 0 ELSE f[Pick(s)] + g[s \ {Pick(s)}]

LEMMA SumExists ==
  ASSUME NEW S, IsFiniteSet(S), NEW f, \A x \in S : f[x] \in Int
  PROVE  \E g : IsSum(g, f, S)
<1> DEFINE Is(g, k) ==
             /\ g \in [SUBSET S -> Int]
             /\ \A s \in SUBSET S : Cardinality(s) <= k =>
                  g[s] = IF s = {} THEN 0 ELSE f[Pick(s)] + g[s \ {Pick(s)}]
           T == {k \in Nat : \E g : Is(g, k)}
<1>1. 0 \in T
  <2>1. \A s \in SUBSET S : Cardinality(s) <= 0 => s = {}
    BY TakenOut
  <2> DEFINE g == [s \in SUBSET S |-> 0]
  <2>2. Is(g, 0)
    BY <2>1
  <2> QED
    BY <2>2
<1>2. ASSUME NEW k \in T PROVE k + 1 \in T
  <2>1. PICK g : Is(g, k)
    OBVIOUS
  <2> DEFINE h == [s \in SUBSET S |-> IF Cardinality(s) <= k THEN g[s]
                                      ELSE f[Pick(s)] + g[s \ {Pick(s)}]]
  <2>2. ASSUME NEW s \in SUBSET S, s # {}
        PROVE  /\ Pick(s) \in s /\ s \ {Pick(s)} \in SUBSET S
               /\ f[Pick(s)] \in Int /\ g[s \ {Pick(s)}] \in Int
               /\ Cardinality(s) <= k + 1 => Cardinality(s \ {Pick(s)}) <= k
    <3>1. Pick(s) \in s
      BY <2>2 DEF Pick
    <3>2. Cardinality(s \ {Pick(s)}) = Cardinality(s) - 1 /\ Cardinality(s) \in Nat
      BY <3>1, TakenOut
    <3> QED
      BY <2>1, <3>1, <3>2
  <2>3. Cardinality({}) = 0 /\ Cardinality({}) <= k
    BY FS_EmptySet
  <2>4. h \in [SUBSET S -> Int]
    <3> SUFFICES ASSUME NEW s \in SUBSET S PROVE h[s] \in Int
      OBVIOUS
    <3>1. CASE Cardinality(s) <= k
      BY <2>1, <3>1
    <3>2. CASE ~(Cardinality(s) <= k)
      <4>1. s # {}
        BY <2>3, <3>2
      <4>2. h[s] = f[Pick(s)] + g[s \ {Pick(s)}]
        BY <3>2
      <4>3. f[Pick(s)] \in Int /\ g[s \ {Pick(s)}] \in Int
        BY <2>2, <4>1
      <4> HIDE DEF h
      <4> QED
        BY <4>2, <4>3
    <3> QED
      BY <3>1, <3>2
  <2>5. ASSUME NEW s \in SUBSET S, Cardinality(s) <= k + 1
        PROVE  h[s] = IF s = {} THEN 0 ELSE f[Pick(s)] + h[s \ {Pick(s)}]
    <3>1. CASE s = {}
      BY <2>1, <2>3, <3>1
    <3>2. CASE s # {}
      <4>1. h[s \ {Pick(s)}] = g[s \ {Pick(s)}]
        BY <2>2, <2>5, <3>2
      <4>2. h[s] = f[Pick(s)] + g[s \ {Pick(s)}]
        BY <2>1, <3>2
      <4> QED
        BY <3>2, <4>1, <4>2
    <3> QED
      BY <3>1, <3>2
  <2>6. Is(h, k + 1)
    BY <2>4, <2>5
  <2> HIDE DEF h, Is
  <2>7. \E e : Is(e, k + 1)
    BY <2>6
  <2> QED
    BY <2>7
<1> HIDE DEF T, Is
<1>3. Cardinality(S) \in T
  BY <1>1, <1>2, NatSet, FS_CardinalityType DEF T
<1>4. PICK g : Is(g, Cardinality(S))
  BY <1>3 DEF T
<1>5. \A s \in SUBSET S : Cardinality(s) <= Cardinality(S)
  BY FS_Subset
<1> QED
  BY <1>4, <1>5 DEF Is, IsSum

\* Two sums of functions that agree, whatever else they are sums of.
LEMMA SumsAgree ==
  ASSUME NEW S, IsFiniteSet(S), NEW g, NEW f, NEW R, NEW h, NEW e,
         IsSum(g, f, S), IsSum(h, e, R), S \subseteq R, \A x \in S : f[x] = e[x]
  PROVE  \A A \in SUBSET S : g[A] = h[A]
<1> DEFINE T == {k \in Nat : \A A \in SUBSET S : Cardinality(A) = k => g[A] = h[A]}
<1>1. 0 \in T
  BY TakenOut DEF IsSum
<1>2. ASSUME NEW k \in T PROVE k + 1 \in T
  <2> SUFFICES ASSUME NEW A \in SUBSET S, Cardinality(A) = k + 1 PROVE g[A] = h[A]
    OBVIOUS
  <2>1. A # {}
    BY TakenOut
  <2>2. Pick(A) \in A
    BY <2>1 DEF Pick
  <2>3. Cardinality(A \ {Pick(A)}) = k /\ A \ {Pick(A)} \in SUBSET S
    BY <2>2, TakenOut
  <2>4. g[A \ {Pick(A)}] = h[A \ {Pick(A)}]
    BY <2>3
  <2>5. A \in SUBSET R /\ f[Pick(A)] = e[Pick(A)]
    BY <2>2
  <2> QED
    BY <2>1, <2>4, <2>5 DEF IsSum
<1> HIDE DEF T
<1>3. T = Nat
  BY <1>1, <1>2, NatSet DEF T
<1> QED
  BY <1>3, TakenOut DEF T

\* The order in which elements are added does not matter.
LEMMA SumTakes ==
  ASSUME NEW S, IsFiniteSet(S), NEW g, NEW f, IsSum(g, f, S), \A x \in S : f[x] \in Int
  PROVE  \A A \in SUBSET S : \A y \in A : g[A] = f[y] + g[A \ {y}]
<1> DEFINE T == {k \in Nat : \A A \in SUBSET S : Cardinality(A) = k =>
                               \A y \in A : g[A] = f[y] + g[A \ {y}]}
<1>1. 0 \in T
  BY TakenOut
<1>2. ASSUME NEW k \in T PROVE k + 1 \in T
  <2> SUFFICES ASSUME NEW A \in SUBSET S, Cardinality(A) = k + 1, NEW y \in A
               PROVE  g[A] = f[y] + g[A \ {y}]
    OBVIOUS
  <2> DEFINE x == Pick(A)
  <2>1. x \in A
    BY DEF Pick
  <2>2. g[A] = f[x] + g[A \ {x}]
    BY DEF IsSum
  <2>3. CASE x # y
    <3>1. Cardinality(A \ {x}) = k /\ Cardinality(A \ {y}) = k
      BY <2>1, TakenOut
    <3>2. /\ A \ {x} \in SUBSET S /\ y \in A \ {x} /\ A \ {y} \in SUBSET S /\ x \in A \ {y}
          /\ (A \ {x}) \ {y} = (A \ {y}) \ {x} /\ (A \ {y}) \ {x} \in SUBSET S
      BY <2>1, <2>3
    <3> HIDE DEF x
    <3> DEFINE B == (A \ {y}) \ {x}
    <3>3. g[A \ {x}] = f[y] + g[B]
      BY <3>1, <3>2
    <3>4. g[A \ {y}] = f[x] + g[B]
      BY <3>1, <3>2
    <3>5. f[x] \in Int /\ f[y] \in Int /\ g[B] \in Int
      BY <2>1, <3>2 DEF IsSum
    <3> HIDE DEF B
    <3> QED
      BY <2>2, <3>3, <3>4, <3>5
  <2> QED
    BY <2>2, <2>3
<1> HIDE DEF T
<1>3. T = Nat
  BY <1>1, <1>2, NatSet DEF T
<1> QED
  BY <1>3, TakenOut DEF T

\* The sum of f over A.
SumOver(f, A) == Total([x \in A |-> f[x]])

\* Total and Amounts are sums.
LEMMA TotalIsSum ==
  ASSUME NEW f, IsFiniteSet(DOMAIN f), \A x \in DOMAIN f : f[x] \in Int
  PROVE  \E g : IsSum(g, f, DOMAIN f) /\ Total(f) = g[DOMAIN f]
<1> DEFINE S == DOMAIN f
           Eq(it) == it = [s \in SUBSET S |->
                             IF s = {} THEN 0 ELSE f[Pick(s)] + it[s \ {Pick(s)}]]
           g == CHOOSE it : Eq(it)
<1>1. PICK h : IsSum(h, f, S)
  BY SumExists
<1>2. Eq(h)
  BY <1>1 DEF IsSum
<1>3. Eq(g)
  BY <1>2
<1>4. Total(f) = g[S]
  BY DEF Total, Sum, MapThenSumSet, MapThenFoldSet, Pick
<1> HIDE DEF g
<1>5. \A s \in SUBSET S : g[s] = IF s = {} THEN 0 ELSE f[Pick(s)] + g[s \ {Pick(s)}]
  BY <1>3
<1>6. \A A \in SUBSET S : g[A] = h[A]
  <2> DEFINE T == {k \in Nat : \A A \in SUBSET S : Cardinality(A) = k => g[A] = h[A]}
  <2>1. 0 \in T
    BY <1>1, <1>5, TakenOut DEF IsSum
  <2>2. ASSUME NEW k \in T PROVE k + 1 \in T
    <3> SUFFICES ASSUME NEW A \in SUBSET S, Cardinality(A) = k + 1 PROVE g[A] = h[A]
      OBVIOUS
    <3>1. A # {}
      BY TakenOut
    <3>2. Pick(A) \in A
      BY <3>1 DEF Pick
    <3>3. Cardinality(A \ {Pick(A)}) = k /\ A \ {Pick(A)} \in SUBSET S
      BY <3>2, TakenOut
    <3>4. g[A \ {Pick(A)}] = h[A \ {Pick(A)}]
      BY <3>3
    <3> QED
      BY <1>1, <1>5, <3>1, <3>4 DEF IsSum
  <2> HIDE DEF T
  <2>3. T = Nat
    BY <2>1, <2>2, NatSet DEF T
  <2> QED
    BY <2>3, TakenOut DEF T
<1> QED
  BY <1>1, <1>4, <1>6

LEMMA AmountsIsSum ==
  ASSUME NEW T, IsFiniteSet(T), \A t \in T : t.amount \in Int
  PROVE  Amounts(T) = SumOver([t \in T |-> t.amount], T)
<1> DEFINE f == [t \in T |-> t.amount]
<1>1. SumOver(f, T) = Total(f)
  BY DEF SumOver
<1>2. \A s \in SUBSET T : s # {} => Pick(s) \in T /\ f[Pick(s)] = Pick(s).amount
  BY DEF Pick
<1> DEFINE Eq(it) == it = [s \in SUBSET T |->
                             IF s = {} THEN 0 ELSE f[Pick(s)] + it[s \ {Pick(s)}]]
           Eqa(it) == it = [s \in SUBSET T |->
                              IF s = {} THEN 0 ELSE Pick(s).amount + it[s \ {Pick(s)}]]
<1>3. \A it : Eq(it) <=> Eqa(it)
  BY <1>2
<1>4. Total(f) = (CHOOSE it : Eq(it))[T]
  BY DEF Total, Sum, MapThenSumSet, MapThenFoldSet, Pick
<1>5. Amounts(T) = (CHOOSE it : Eqa(it))[T]
  BY DEF Amounts, Sum, MapThenSumSet, MapThenFoldSet, Pick
<1> HIDE DEF Eq, Eqa
<1>6. (CHOOSE it : Eq(it)) = (CHOOSE it : Eqa(it))
  BY <1>3
<1> QED
  BY <1>1, <1>4, <1>5, <1>6

LEMMA SumOverIsSum ==
  ASSUME NEW S, IsFiniteSet(S), NEW f, \A x \in S : f[x] \in Int
  PROVE  \E g : IsSum(g, f, S) /\ \A A \in SUBSET S : SumOver(f, A) = g[A]
<1>1. PICK g : IsSum(g, f, S)
  BY SumExists
<1>2. ASSUME NEW A \in SUBSET S PROVE SumOver(f, A) = g[A]
  <2> DEFINE e == [x \in A |-> f[x]]
  <2>1. DOMAIN e = A /\ \A x \in A : e[x] = f[x] /\ e[x] \in Int
    OBVIOUS
  <2>2. IsFiniteSet(A)
    BY FS_Subset
  <2>3. SumOver(f, A) = Total(e)
    BY DEF SumOver
  <2> HIDE DEF e
  <2>4. PICK h : IsSum(h, e, A) /\ Total(e) = h[A]
    BY <2>1, <2>2, TotalIsSum
  <2>5. h[A] = g[A]
    BY <1>1, <2>1, <2>2, <2>4, SumsAgree
  <2> QED
    BY <2>3, <2>4, <2>5
<1> QED
  BY <1>1, <1>2

\* How a sum is taken, an element at a time.
LEMMA SumOverStep ==
  ASSUME NEW S, IsFiniteSet(S), NEW f, \A x \in S : f[x] \in Int
  PROVE  /\ SumOver(f, {}) = 0
         /\ \A A \in SUBSET S : /\ SumOver(f, A) \in Int
                                /\ \A y \in A : SumOver(f, A) = f[y] + SumOver(f, A \ {y})
<1>1. PICK g : IsSum(g, f, S) /\ \A A \in SUBSET S : SumOver(f, A) = g[A]
  BY SumOverIsSum
<1>2. IsSum(g, f, S)
  BY <1>1
<1>3. ASSUME NEW A \in SUBSET S, NEW y \in A PROVE g[A] = f[y] + g[A \ {y}]
  BY <1>2, SumTakes
<1>4. g[{}] = 0 /\ \A A \in SUBSET S : g[A] \in Int
  BY <1>1 DEF IsSum
<1>5. \A A \in SUBSET S : \A y \in A : A \ {y} \in SUBSET S
  OBVIOUS
<1> QED
  BY <1>1, <1>3, <1>4, <1>5

LEMMA SumOverSame ==
  ASSUME NEW A, NEW f, NEW e, \A x \in A : f[x] = e[x]
  PROVE  SumOver(f, A) = SumOver(e, A)
<1>1. [x \in A |-> f[x]] = [x \in A |-> e[x]]
  OBVIOUS
<1> QED
  BY <1>1 DEF SumOver

LEMMA SumOfZeros ==
  ASSUME NEW S, IsFiniteSet(S), NEW f, \A x \in S : f[x] = 0
  PROVE  SumOver(f, S) = 0
<1> DEFINE U == {A \in SUBSET S : SumOver(f, A) = 0}
<1>1. {} \in U
  BY SumOverStep
<1>2. \A A \in SUBSET S : \A y \in A : A \ {y} \in U => A \in U
  BY SumOverStep
<1> HIDE DEF U
<1>3. \A A \in SUBSET S : A \in U
  BY <1>1, <1>2, Subsets
<1> QED
  BY <1>3 DEF U

LEMMA SumAdds ==
  ASSUME NEW S, IsFiniteSet(S), NEW f, NEW e, NEW h,
         \A x \in S : f[x] \in Int /\ e[x] \in Int /\ h[x] = f[x] + e[x]
  PROVE  SumOver(h, S) = SumOver(f, S) + SumOver(e, S)
<1> DEFINE U == {A \in SUBSET S : SumOver(h, A) = SumOver(f, A) + SumOver(e, A)}
<1>0. /\ SumOver(f, {}) = 0
      /\ \A A \in SUBSET S : /\ SumOver(f, A) \in Int
                             /\ \A y \in A : SumOver(f, A) = f[y] + SumOver(f, A \ {y})
  BY SumOverStep
<1>1. /\ SumOver(e, {}) = 0
      /\ \A A \in SUBSET S : /\ SumOver(e, A) \in Int
                             /\ \A y \in A : SumOver(e, A) = e[y] + SumOver(e, A \ {y})
  BY SumOverStep
<1>2. /\ SumOver(h, {}) = 0
      /\ \A A \in SUBSET S : \A y \in A : SumOver(h, A) = h[y] + SumOver(h, A \ {y})
  <2>1. \A x \in S : h[x] \in Int
    OBVIOUS
  <2> QED
    BY <2>1, SumOverStep
<1>3. {} \in U
  BY <1>0, <1>1, <1>2
<1>4. ASSUME NEW A \in SUBSET S, NEW y \in A, A \ {y} \in U PROVE A \in U
  <2>1. A \ {y} \in SUBSET S /\ y \in S
    OBVIOUS
  <2>2. SumOver(f, A) = f[y] + SumOver(f, A \ {y}) /\ SumOver(f, A \ {y}) \in Int
    BY <1>0, <2>1
  <2>3. SumOver(e, A) = e[y] + SumOver(e, A \ {y}) /\ SumOver(e, A \ {y}) \in Int
    BY <1>1, <2>1
  <2>4. SumOver(h, A) = h[y] + SumOver(h, A \ {y})
    BY <1>2, <2>1
  <2> QED
    BY <1>4, <2>1, <2>2, <2>3, <2>4
<1> HIDE DEF U
<1>5. S \in U
  BY <1>3, <1>4, Subsets
<1> QED
  BY <1>5 DEF U

\* The parts a sum falls into by a key add up to it, keys without a part being allowed.
LEMMA PartsAddUp ==
  ASSUME NEW S, IsFiniteSet(S), NEW f, \A x \in S : f[x] \in Int,
         NEW V, IsFiniteSet(V), NEW key, \A x \in S : key[x] \in V
  PROVE  SumOver([v \in V |-> SumOver(f, {x \in S : key[x] = v})], V) = SumOver(f, S)
<1> DEFINE part(A) == [v \in V |-> SumOver(f, {x \in A : key[x] = v})]
           U == {A \in SUBSET S : SumOver(part(A), V) = SumOver(f, A)}
<1>0. /\ SumOver(f, {}) = 0
      /\ \A A \in SUBSET S : /\ SumOver(f, A) \in Int
                             /\ \A y \in A : SumOver(f, A) = f[y] + SumOver(f, A \ {y})
  BY SumOverStep
<1>1. \A A \in SUBSET S : \A v \in V : part(A)[v] = SumOver(f, {x \in A : key[x] = v})
  OBVIOUS
<1>2. \A A \in SUBSET S : \A v \in V : part(A)[v] \in Int
  <2>1. \A A \in SUBSET S : \A v \in V : {x \in A : key[x] = v} \in SUBSET S
    OBVIOUS
  <2> QED
    BY <1>0, <1>1, <2>1
<1>3. {} \in U
  <2>1. \A v \in V : part({})[v] = 0
    <3>1. \A v \in V : {x \in {} : key[x] = v} = {}
      OBVIOUS
    <3> QED
      BY <1>0, <3>1
  <2> HIDE DEF part
  <2>2. SumOver(part({}), V) = 0
    BY <2>1, SumOfZeros
  <2> QED
    BY <1>0, <2>2
<1>4. ASSUME NEW A \in SUBSET S, NEW y \in A, A \ {y} \in U PROVE A \in U
  <2> DEFINE B == A \ {y}
             w == key[y]
  <2>1. w \in V /\ B \in SUBSET S /\ y \in S
    OBVIOUS
  <2>2. part(A)[w] = f[y] + part(B)[w]
    <3> DEFINE P == {x \in A : key[x] = w}
    <3>1. P \in SUBSET S /\ y \in P /\ P \ {y} = {x \in B : key[x] = w}
      OBVIOUS
    <3>2. SumOver(f, P) = f[y] + SumOver(f, P \ {y})
      BY <1>0, <3>1
    <3> QED
      BY <1>1, <2>1, <3>1, <3>2
  <2>3. \A v \in V \ {w} : part(A)[v] = part(B)[v]
    <3>1. \A v \in V \ {w} : {x \in A : key[x] = v} = {x \in B : key[x] = v}
      OBVIOUS
    <3> QED
      BY <1>1, <2>1, <3>1
  <2>4. \A v \in V : part(A)[v] \in Int /\ part(B)[v] \in Int
    BY <1>2, <2>1
  <2>5. SumOver(f, A) = f[y] + SumOver(f, B) /\ f[y] \in Int /\ SumOver(f, B) \in Int
    BY <1>0, <2>1
  <2>6. SumOver(part(B), V) = SumOver(f, B)
    BY <1>4
  <2> HIDE DEF part, B, w
  <2>7. V \in SUBSET V /\ V \ {w} \in SUBSET V
    OBVIOUS
  <2>8. /\ SumOver(part(A), V) = part(A)[w] + SumOver(part(A), V \ {w})
        /\ SumOver(part(A), V \ {w}) \in Int
    BY <2>1, <2>4, <2>7, SumOverStep
  <2>9. /\ SumOver(part(B), V) = part(B)[w] + SumOver(part(B), V \ {w})
        /\ SumOver(part(B), V \ {w}) \in Int
    BY <2>1, <2>4, <2>7, SumOverStep
  <2>10. SumOver(part(A), V \ {w}) = SumOver(part(B), V \ {w})
    BY <2>3, SumOverSame
  <2>11. part(B)[w] \in Int
    BY <2>1, <2>4
  <2> QED
    BY <2>2, <2>5, <2>6, <2>8, <2>9, <2>10, <2>11
<1> HIDE DEF U
<1>5. S \in U
  BY <1>3, <1>4, Subsets
<1> QED
  BY <1>5 DEF U

\* What is added is added once.
LEMMA SumSplits ==
  ASSUME NEW S, IsFiniteSet(S), NEW f, \A x \in S : f[x] \in Int, NEW B \in SUBSET S
  PROVE  SumOver(f, S) = SumOver(f, B) + SumOver(f, S \ B)
<1> DEFINE U == {A \in SUBSET B : SumOver(f, S) = SumOver(f, A) + SumOver(f, S \ A)}
<1>0. /\ SumOver(f, {}) = 0
      /\ \A A \in SUBSET S : /\ SumOver(f, A) \in Int
                             /\ \A y \in A : SumOver(f, A) = f[y] + SumOver(f, A \ {y})
  BY SumOverStep
<1>1. {} \in U
  <2>1. S \ {} = S /\ S \in SUBSET S
    OBVIOUS
  <2> QED
    BY <1>0, <2>1
<1>2. ASSUME NEW A \in SUBSET B, NEW y \in A, A \ {y} \in U PROVE A \in U
  <2> DEFINE R == S \ (A \ {y})
  <2>1. /\ R \in SUBSET S /\ y \in R /\ R \ {y} = S \ A /\ y \in S
        /\ A \in SUBSET S /\ A \ {y} \in SUBSET S /\ S \ A \in SUBSET S
    OBVIOUS
  <2>2. SumOver(f, S) = SumOver(f, A \ {y}) + SumOver(f, R)
    BY <1>2
  <2> HIDE DEF R
  <2>3. SumOver(f, R) = f[y] + SumOver(f, S \ A)
    BY <1>0, <2>1
  <2>4. SumOver(f, A) = f[y] + SumOver(f, A \ {y})
    BY <1>0, <2>1
  <2>5. /\ SumOver(f, A \ {y}) \in Int /\ SumOver(f, S \ A) \in Int /\ f[y] \in Int
    BY <1>0, <2>1
  <2> QED
    BY <2>2, <2>3, <2>4, <2>5
<1> HIDE DEF U
<1>3. IsFiniteSet(B)
  BY FS_Subset
<1>4. B \in U
  BY <1>1, <1>2, <1>3, Subsets
<1> QED
  BY <1>4 DEF U

\* Of finitely many keys, one has the largest amount.
LEMMA OneIsLargest ==
  ASSUME NEW S, IsFiniteSet(S), NEW f, \A x \in S : f[x] \in Int
  PROVE  \A A \in SUBSET S : A # {} => \E m \in A : \A x \in A : f[m] >= f[x]
<1> DEFINE U == {A \in SUBSET S : A # {} => \E m \in A : \A x \in A : f[m] >= f[x]}
<1>1. {} \in U
  OBVIOUS
<1>2. ASSUME NEW A \in SUBSET S, NEW y \in A, A \ {y} \in U PROVE A \in U
  <2>1. CASE A \ {y} = {}
    <3>1. \A x \in A : f[y] >= f[x]
      BY <2>1
    <3> QED
      BY <3>1
  <2>2. CASE A \ {y} # {}
    <3>1. PICK m \in A \ {y} : \A x \in A \ {y} : f[m] >= f[x]
      BY <1>2, <2>2
    <3>2. \A x \in A : f[x] \in Int
      OBVIOUS
    <3>3. CASE f[m] >= f[y]
      <4>1. \A x \in A : f[m] >= f[x]
        BY <3>1, <3>3
      <4> QED
        BY <4>1
    <3>4. CASE ~(f[m] >= f[y])
      <4>1. \A x \in A : f[y] >= f[x]
        BY <3>1, <3>2, <3>4
      <4> QED
        BY <4>1
    <3> QED
      BY <3>3, <3>4
  <2> QED
    BY <2>1, <2>2
<1> HIDE DEF U
<1>3. \A A \in SUBSET S : A \in U
  BY <1>1, <1>2, Subsets
<1> QED
  BY <1>3 DEF U

IsLargest(f, V, S, n) ==
  /\ S \in SUBSET V /\ Cardinality(S) = n
  /\ \A k \in S, l \in V \ S : f[k] >= f[l]

LEMMA LargestExists ==
  ASSUME NEW V, IsFiniteSet(V), NEW f, \A v \in V : f[v] \in Int,
         NEW n \in Nat, n <= Cardinality(V)
  PROVE  \E S : IsLargest(f, V, S, n)
<1> DEFINE T == {k \in Nat : k <= Cardinality(V) => \E S : IsLargest(f, V, S, k)}
<1>1. 0 \in T
  <2>1. IsLargest(f, V, {}, 0)
    BY FS_EmptySet DEF IsLargest
  <2> QED
    BY <2>1
<1>2. ASSUME NEW k \in T PROVE k + 1 \in T
  <2> SUFFICES ASSUME k + 1 <= Cardinality(V) PROVE \E S : IsLargest(f, V, S, k + 1)
    OBVIOUS
  <2>0. Cardinality(V) \in Nat
    BY FS_CardinalityType
  <2>1. PICK S : IsLargest(f, V, S, k)
    BY <2>0
  <2>2. S \in SUBSET V /\ V \ S \in SUBSET V /\ IsFiniteSet(S)
    BY <2>1, FS_Subset DEF IsLargest
  <2>3. V \ S # {}
    BY <2>0, <2>1, <2>2 DEF IsLargest
  <2>4. PICK m \in V \ S : \A x \in V \ S : f[m] >= f[x]
    BY <2>2, <2>3, OneIsLargest
  <2>5. Cardinality(S \cup {m}) = k + 1
    BY <2>1, <2>2, <2>4, FS_AddElement DEF IsLargest
  <2>6. IsLargest(f, V, S \cup {m}, k + 1)
    BY <2>1, <2>2, <2>4, <2>5 DEF IsLargest
  <2> QED
    BY <2>6
<1> HIDE DEF T
<1>3. n \in T
  BY <1>1, <1>2, NatSet DEF T
<1> QED
  BY <1>3 DEF T

\* The keys a widget names are among the keys.
LEMMA LargestIsPart ==
  ASSUME NEW f, IsFiniteSet(DOMAIN f), \A v \in DOMAIN f : f[v] \in Int, NEW n \in Nat
  PROVE  Largest(f, n) \in SUBSET DOMAIN f
<1> DEFINE V == DOMAIN f
           m == Min({n, Cardinality(V)})
<1>1. Cardinality(V) \in Nat
  BY FS_CardinalityType
<1>2. m \in {n, Cardinality(V)} /\ m <= Cardinality(V)
  <2>1. \E x \in {n, Cardinality(V)} : \A y \in {n, Cardinality(V)} : x =< y
    BY <1>1
  <2> QED
    BY <1>1, <2>1 DEF Min
<1> HIDE DEF m
<1>3. PICK S : IsLargest(f, V, S, m)
  BY <1>1, <1>2, LargestExists
<1>4. \E R \in SUBSET V : Cardinality(R) = m /\ \A k \in R, l \in V \ R : f[k] >= f[l]
  BY <1>3 DEF IsLargest
<1> QED
  BY <1>4 DEF Largest, m

\* Parts of a whole: those a widget names and the rest make it.
LEMMA NamedAndRest ==
  ASSUME NEW f, IsFiniteSet(DOMAIN f), \A v \in DOMAIN f : f[v] \in Int,
         f = [v \in DOMAIN f |-> f[v]], NEW whole, Total(f) = whole
  PROVE  MakeUp(f, whole)
<1> DEFINE V == DOMAIN f
           top == Largest(f, TOP)
           of(k) == f[k]
<1>1. top \in SUBSET V
  BY LargestIsPart, TopAssumption
<1>2. TopAndRest(f).top = [k \in top |-> f[k]]
  BY DEF TopAndRest
<1>3. TopAndRest(f).rest = Sum(of, V \ top)
  BY DEF TopAndRest
<1> HIDE DEF top
<1>4. Total([k \in top |-> f[k]]) = SumOver(f, top)
  BY DEF SumOver
<1>5. Sum(of, V \ top) = SumOver(f, V \ top)
  <2> DEFINE W == V \ top
             e == [x \in W |-> f[x]]
             Eq(it) == it = [s \in SUBSET W |->
                               IF s = {} THEN 0 ELSE f[Pick(s)] + it[s \ {Pick(s)}]]
             Eqe(it) == it = [s \in SUBSET W |->
                                IF s = {} THEN 0 ELSE e[Pick(s)] + it[s \ {Pick(s)}]]
  <2>1. \A s \in SUBSET W : s # {} => e[Pick(s)] = f[Pick(s)]
    BY DEF Pick
  <2>2. DOMAIN e = W
    OBVIOUS
  <2>3. Sum(of, W) = (CHOOSE it : Eq(it))[W]
    BY DEF Sum, MapThenSumSet, MapThenFoldSet, Pick
  <2> HIDE DEF e, W
  <2>4. Total(e) = (CHOOSE it : Eqe(it))[W]
    BY <2>2 DEF Total, Sum, MapThenSumSet, MapThenFoldSet, Pick
  <2>5. \A it : Eq(it) <=> Eqe(it)
    BY <2>1
  <2> HIDE DEF Eq, Eqe
  <2>6. (CHOOSE it : Eq(it)) = (CHOOSE it : Eqe(it))
    BY <2>5
  <2>7. SumOver(f, W) = Total(e)
    BY DEF SumOver, e
  <2> QED
    BY <2>3, <2>4, <2>6, <2>7 DEF W
<1>6. SumOver(f, V) = SumOver(f, top) + SumOver(f, V \ top)
  BY <1>1, SumSplits
<1>7. Total(f) = SumOver(f, V)
  BY DEF SumOver
<1> QED
  BY <1>2, <1>3, <1>4, <1>5, <1>6, <1>7 DEF MakeUp

LEMMA Images ==
  ASSUME NEW S, IsFiniteSet(S), NEW key
  PROVE  IsFiniteSet({key[x] : x \in S})
<1> DEFINE V == {key[x] : x \in S}
           h == [x \in S |-> key[x]]
<1>1. h \in Surjection(S, V)
  BY DEF Surjection
<1> QED
  BY <1>1, FS_Surjection

\* The amounts of transactions by a key add up to the amount of all of them.
LEMMA ByKey ==
  ASSUME NEW E, IsFiniteSet(E), \A t \in E : t.amount \in Int,
         NEW V, IsFiniteSet(V), NEW key, \A t \in E : key[t] \in V,
         NEW b, b = [v \in V |-> Amounts({t \in E : key[t] = v})]
  PROVE  /\ SumOver(b, V) = Amounts(E) /\ Amounts(E) \in Int
         /\ \A v \in V : b[v] \in Int
<1> DEFINE f == [t \in E |-> t.amount]
           part == [v \in V |-> SumOver(f, {t \in E : key[t] = v})]
<1>1. \A t \in E : f[t] = t.amount /\ f[t] \in Int
  OBVIOUS
<1> HIDE DEF f
<1>2. ASSUME NEW A \in SUBSET E PROVE Amounts(A) = SumOver(f, A)
  <2> DEFINE e == [t \in A |-> t.amount]
  <2>1. IsFiniteSet(A) /\ \A t \in A : t.amount \in Int
    BY FS_Subset
  <2>2. Amounts(A) = SumOver(e, A)
    BY <2>1, AmountsIsSum
  <2>3. \A t \in A : e[t] = f[t]
    BY <1>1
  <2> HIDE DEF e
  <2>4. SumOver(e, A) = SumOver(f, A)
    BY <2>3, SumOverSame
  <2> QED
    BY <2>2, <2>4
<1>3. \A v \in V : {t \in E : key[t] = v} \in SUBSET E
  OBVIOUS
<1>4. b = part
  BY <1>2, <1>3
<1>5. \A A \in SUBSET E : SumOver(f, A) \in Int
  BY <1>1, SumOverStep
<1>6. \A v \in V : b[v] \in Int
  BY <1>3, <1>4, <1>5
<1>7. SumOver(part, V) = SumOver(f, E)
  BY <1>1, PartsAddUp
<1>8. SumOver(f, E) = Amounts(E)
  BY <1>2
<1> HIDE DEF part
<1> QED
  BY <1>4, <1>5, <1>6, <1>7, <1>8

LEMMA Keyed ==
  ASSUME NEW E, IsFiniteSet(E), \A t \in E : t.amount \in Int,
         NEW V, IsFiniteSet(V), NEW key, \A t \in E : key[t] \in V,
         NEW b, b = [v \in V |-> Amounts({t \in E : key[t] = v})]
  PROVE  MakeUp(b, Amounts(E))
<1>1. SumOver(b, V) = Amounts(E) /\ \A v \in V : b[v] \in Int
  BY ByKey
<1>2. DOMAIN b = V /\ b = [v \in V |-> b[v]]
  OBVIOUS
<1>3. SumOver(b, V) = Total(b)
  BY <1>2 DEF SumOver
<1> QED
  BY <1>1, <1>2, <1>3, NamedAndRest

\* The reports of a set of transactions are parts of what is spent.
LEMMA PartsMake ==
  ASSUME NEW T, IsFiniteSet(T), \A t \in T : t.amount \in Int
  PROVE  PartsMakeTheWhole(T)
<1> DEFINE E == OfType(T, "expense")
           spent == Amounts(E)
<1>1. E \in SUBSET T /\ IsFiniteSet(E) /\ \A t \in E : t.amount \in Int
  BY FS_Subset DEF OfType
<1>2. monthTotals(T).expense = spent
  BY DEF monthTotals
<1>3. MakeUp(categoryBreakdown(T), spent)
  <2> DEFINE key == [t \in E |-> t.category]
             V == {key[t] : t \in E}
  <2>1. IsFiniteSet(V)
    BY <1>1, Images
  <2>2. categoryBreakdown(T) = [v \in V |-> Amounts({t \in E : key[t] = v})]
    BY DEF categoryBreakdown, Breakdown
  <2>3. \A t \in E : key[t] \in V
    OBVIOUS
  <2> HIDE DEF E, key, V
  <2> QED
    BY <1>1, <2>1, <2>2, <2>3, Keyed
<1>4. MakeUp(dailyExpenses(T), spent)
  <2> DEFINE key == [t \in E |-> isoToJalali(t.date)[3]]
             V == {key[t] : t \in E}
  <2>1. IsFiniteSet(V)
    BY <1>1, Images
  <2>2. dailyExpenses(T) = [v \in V |-> Amounts({t \in E : key[t] = v})]
    BY DEF dailyExpenses, Breakdown
  <2>3. \A t \in E : key[t] \in V
    OBVIOUS
  <2> HIDE DEF E, key, V
  <2> QED
    BY <1>1, <2>1, <2>2, <2>3, Keyed
<1>5. MakeUp(memberExpenseShare(T), spent)
  <2> DEFINE key == [t \in E |-> t.member]
             V == {key[t] : t \in E}
  <2>1. IsFiniteSet(V)
    BY <1>1, Images
  <2>2. memberExpenseShare(T) = [v \in V |-> Amounts({t \in E : key[t] = v})]
    BY DEF memberExpenseShare, Breakdown
  <2>3. \A t \in E : key[t] \in V
    OBVIOUS
  <2> HIDE DEF E, key, V
  <2> QED
    BY <1>1, <2>1, <2>2, <2>3, Keyed
<1>6. MakeUp([d \in DOMAIN Groups(T) |-> Groups(T)[d].expense], spent)
  <2> DEFINE key == [t \in T |-> t.date]
             V == {key[t] : t \in T}
             days == [d \in DOMAIN Groups(T) |-> Groups(T)[d].expense]
  <2>1. IsFiniteSet(V)
    BY Images
  <2>2. DOMAIN Groups(T) = V
    BY DEF Groups
  <2>3. ASSUME NEW d \in V
        PROVE  Groups(T)[d].expense = Amounts({t \in E : key[t] = d})
    <3>1. Groups(T)[d].expense = Amounts(OfType({t \in T : t.date = d}, "expense"))
      BY DEF Groups, monthTotals
    <3>2. OfType({t \in T : t.date = d}, "expense") = {t \in E : key[t] = d}
      BY DEF OfType
    <3> QED
      BY <3>1, <3>2
  <2>4. \A t \in E : key[t] \in V
    BY <1>1
  <2> HIDE DEF E, key, V
  <2>5. days = [v \in V |-> Amounts({t \in E : key[t] = v})]
    BY <2>2, <2>3
  <2> QED
    BY <1>1, <2>1, <2>4, <2>5, Keyed
<1> HIDE DEF E
<1> QED
  BY <1>2, <1>3, <1>4, <1>5, <1>6 DEF PartsMakeTheWhole

\* A transaction of accounts there are; one that moves money names two.
MoneyOf(t) ==
  /\ t.type \in {"income", "expense", "transfer"} /\ t.amount \in Int /\ t.amount > 0
  /\ {t.account, t.to} \subseteq DOMAIN Initial \cup {None}
  /\ t.type = "transfer" => t.to # None

\* What the accounts hold is what they began with and what came in less what went out.
LEMMA AccountsHold ==
  ASSUME NEW T, IsFiniteSet(T), \A t \in T : MoneyOf(t)
  PROVE  AccountsHoldIt(T)
<1> SUFFICES ASSUME \A t \in T : t.account # None
             PROVE  Total(accountBalances(T, Initial)) = Total(Initial) + totalBalance(T)
  BY DEF AccountsHoldIt
<1> DEFINE A == DOMAIN Initial
           Inc == OfType(T, "income")
           Exp == OfType(T, "expense")
           Mov == OfType(T, "transfer")
           Out == Exp \cup Mov
           acc == [t \in T |-> t.account]
           to == [t \in T |-> t.to]
           came == [a \in A |-> Amounts({t \in Inc : acc[t] = a})]
           went == [a \in A |-> Amounts({t \in Out : acc[t] = a})]
           moved == [a \in A |-> Amounts({t \in Mov : to[t] = a})]
           bal == accountBalances(T, Initial)
           one == [a \in A |-> Initial[a] + came[a]]
           two == [a \in A |-> one[a] + moved[a]]
<1>1. /\ Inc \in SUBSET T /\ Exp \in SUBSET T /\ Mov \in SUBSET T /\ Out \in SUBSET T
      /\ Exp \in SUBSET Out /\ Out \ Exp = Mov
      /\ \A t \in T : acc[t] \in A /\ t.amount \in Int
      /\ \A t \in Mov : to[t] \in A
  BY DEF OfType, MoneyOf
<1>2. IsFiniteSet(Inc) /\ IsFiniteSet(Exp) /\ IsFiniteSet(Mov) /\ IsFiniteSet(Out)
  BY <1>1, FS_Subset
<1>3. IsFiniteSet(A) /\ \A a \in A : Initial[a] \in Int
  BY MoneyAssumption
<1>4. \A a \in A : bal[a] = Initial[a] + came[a] - went[a] + moved[a]
  <2> SUFFICES ASSUME NEW a \in A
               PROVE  bal[a] = Initial[a] + came[a] - went[a] + moved[a]
    OBVIOUS
  <2>1. {t \in Inc : acc[t] = a} = {t \in T : t.account = a /\ t.type = "income"}
    BY DEF OfType
  <2>2. {t \in Out : acc[t] = a}
          = {t \in T : t.account = a /\ t.type \in {"expense", "transfer"}}
    BY DEF OfType
  <2>3. {t \in Mov : to[t] = a} = {t \in T : t.to = a /\ t.type = "transfer"}
    BY DEF OfType
  <2> QED
    BY <2>1, <2>2, <2>3 DEF accountBalances
<1>5. DOMAIN bal = A /\ bal = [a \in A |-> bal[a]]
  BY DEF accountBalances
<1> HIDE DEF Inc, Exp, Mov, Out, acc, to, bal
<1>6. SumOver(came, A) = Amounts(Inc) /\ Amounts(Inc) \in Int /\ \A a \in A : came[a] \in Int
  <2>1. \A t \in Inc : t.amount \in Int /\ acc[t] \in A
    BY <1>1
  <2>2. came = [a \in A |-> Amounts({t \in Inc : acc[t] = a})]
    OBVIOUS
  <2> HIDE DEF A, Out, came, went, moved, one, two
  <2> QED
    BY <1>2, <1>3, <2>1, <2>2, ByKey
<1>7. SumOver(went, A) = Amounts(Out) /\ Amounts(Out) \in Int /\ \A a \in A : went[a] \in Int
  <2>1. \A t \in Out : t.amount \in Int /\ acc[t] \in A
    BY <1>1
  <2>2. went = [a \in A |-> Amounts({t \in Out : acc[t] = a})]
    OBVIOUS
  <2>3. IsFiniteSet(A) /\ IsFiniteSet(Out)
    BY <1>2, <1>3
  <2> HIDE DEF A, Out, came, went, moved, one, two
  <2> QED
    BY <2>1, <2>2, <2>3, ByKey
<1>8. SumOver(moved, A) = Amounts(Mov) /\ Amounts(Mov) \in Int /\ \A a \in A : moved[a] \in Int
  <2>1. \A t \in Mov : t.amount \in Int /\ to[t] \in A
    BY <1>1
  <2>2. moved = [a \in A |-> Amounts({t \in Mov : to[t] = a})]
    OBVIOUS
  <2> HIDE DEF A, Out, came, went, moved, one, two
  <2> QED
    BY <1>2, <1>3, <2>1, <2>2, ByKey
<1>9. Amounts(Out) = Amounts(Exp) + Amounts(Mov) /\ Amounts(Exp) \in Int
  <2> DEFINE f == [t \in Out |-> t.amount]
             e == [t \in Exp |-> t.amount]
             m == [t \in Mov |-> t.amount]
  <2>1. \A t \in Out : f[t] \in Int
    BY <1>1
  <2>2. \A t \in Exp : e[t] = f[t]
    BY <1>1
  <2>3. \A t \in Mov : m[t] = f[t]
    BY <1>1
  <2>4. Amounts(Out) = SumOver(f, Out)
    BY <1>1, <1>2, AmountsIsSum
  <2>5. Amounts(Exp) = SumOver(e, Exp)
    BY <1>1, <1>2, AmountsIsSum
  <2>6. Amounts(Mov) = SumOver(m, Mov)
    BY <1>1, <1>2, AmountsIsSum
  <2> HIDE DEF e, f, m
  <2>7. SumOver(e, Exp) = SumOver(f, Exp)
    BY <2>2, SumOverSame
  <2>8. SumOver(m, Mov) = SumOver(f, Mov)
    BY <2>3, SumOverSame
  <2>9. SumOver(f, Out) = SumOver(f, Exp) + SumOver(f, Out \ Exp)
    BY <1>1, <1>2, <2>1, SumSplits
  <2>10. SumOver(f, Exp) \in Int
    BY <1>1, <1>2, <2>1, SumOverStep
  <2> QED
    BY <1>1, <2>4, <2>5, <2>6, <2>7, <2>8, <2>9, <2>10
<1> HIDE DEF came, went, moved
<1>10. \A a \in A : bal[a] \in Int /\ two[a] = bal[a] + went[a] /\ one[a] \in Int
  BY <1>3, <1>4, <1>6, <1>7, <1>8
<1>11. SumOver(one, A) = SumOver(Initial, A) + SumOver(came, A)
  <2>1. \A a \in A : Initial[a] \in Int /\ came[a] \in Int /\ one[a] = Initial[a] + came[a]
    BY <1>3, <1>6
  <2> HIDE DEF one
  <2> QED
    BY <1>3, <2>1, SumAdds
<1>12. SumOver(two, A) = SumOver(one, A) + SumOver(moved, A)
  <2>1. \A a \in A : one[a] \in Int /\ moved[a] \in Int /\ two[a] = one[a] + moved[a]
    BY <1>8, <1>10
  <2> HIDE DEF one, two
  <2> QED
    BY <1>3, <2>1, SumAdds
<1>13. SumOver(two, A) = SumOver(bal, A) + SumOver(went, A)
  <2>1. \A a \in A : bal[a] \in Int /\ went[a] \in Int /\ two[a] = bal[a] + went[a]
    BY <1>7, <1>10
  <2> HIDE DEF two
  <2> QED
    BY <1>3, <2>1, SumAdds
<1>14. Total(bal) = SumOver(bal, A)
  BY <1>5 DEF SumOver
<1>15. Total(Initial) = SumOver(Initial, A)
  <2>1. Initial = [a \in A |-> Initial[a]]
    BY MoneyAssumption
  <2> QED
    BY <2>1 DEF SumOver
<1>16. SumOver(bal, A) \in Int /\ SumOver(Initial, A) \in Int
  BY <1>3, <1>10, SumOverStep
<1>17. totalBalance(T) = Amounts(Inc) - Amounts(Exp)
  BY DEF totalBalance, Inc, Exp
<1> HIDE DEF A, one, two
<1>18. SumOver(bal, A) + (Amounts(Exp) + Amounts(Mov))
        = (SumOver(Initial, A) + Amounts(Inc)) + Amounts(Mov)
  BY <1>6, <1>7, <1>8, <1>9, <1>11, <1>12, <1>13
<1>19. Amounts(Inc) \in Int /\ Amounts(Mov) \in Int /\ Amounts(Exp) \in Int
  BY <1>6, <1>8, <1>9
<1>20. SumOver(bal, A) = SumOver(Initial, A) + (Amounts(Inc) - Amounts(Exp))
  BY <1>16, <1>18, <1>19
<1>21. Total(bal) = Total(Initial) + totalBalance(T)
  BY <1>14, <1>15, <1>17, <1>20
<1> QED
  BY <1>21 DEF bal

-----------------------------------------------------------------------------
\* The transactions there are, and those the page has, are finitely many, each with its
\* amount and accounts, and repeats as it was entered.
TxFields == {"type", "amount", "account", "to", "date", "repeat", "until"}

TxOf(t) == MoneyOf(t) /\ Repeating(t) \in DOMAIN Falls

TxInv ==
  /\ IsFiniteSet(ledger) /\ IsFiniteSet(seen)
  /\ \A t \in ledger \cup seen : TxFields \subseteq DOMAIN t /\ TxOf(t)

LEMMA DraftsAreTx == \A d \in Fields : TxFields \subseteq DOMAIN d /\ TxOf(d)
  BY MoneyAssumption, DatesAssumption DEF Fields, Valid, MoneyOf, TxOf, TxFields, Falls

LEMMA TxInit == Init => TxInv
<1> SUFFICES ASSUME Init PROVE TxInv
  OBVIOUS
<1>1. ledger = First /\ seen = First /\ IsFiniteSet(First)
  BY FirstAssumption DEF Init
<1>2. \A t \in First : TxFields \subseteq DOMAIN t /\ TxOf(t)
  BY MoneyAssumption, DatesAssumption DEF Valid, MoneyOf, TxOf, TxFields, Falls
<1> QED
  BY <1>1, <1>2 DEF TxInv

\* What the server does to the transactions leaves each with its amount and accounts.
LEMMA ServeTx ==
  ASSUME EntryInv, TxInv, NEW c \in calls, Serve(c)
  PROVE  TxInv'
<1>0. seen' = seen
  BY DEF Serve
<1>1. \A t \in ledger : TxFields \subseteq DOMAIN t /\ TxOf(t)
  BY DEF TxInv
<1>2. c.op \in {"save", "record"} => c.draft \in Fields
  BY DEF EntryInv, ShapeInv, CallShape
<1>3. c.stage = "write" => TxFields \subseteq DOMAIN c.draft /\ TxOf(c.draft)
  BY <1>2, DraftsAreTx DEF EntryInv, ShapeInv, CallShape
<1>4. ASSUME IsFiniteSet(ledger'),
             \A t \in ledger' : TxFields \subseteq DOMAIN t /\ TxOf(t)
      PROVE  TxInv'
  BY <1>0, <1>4 DEF TxInv, TxOf, MoneyOf
<1>5. CASE c.stage = "write" /\ c.id = 0 /\ Made(c, c.from.due)
  <2> DEFINE id == 1 + Cardinality(DOMAIN origin)
             tx == [f \in DOMAIN c.draft \cup {"id", "handled"} |->
                      IF f = "id" THEN id ELSE IF f = "handled" THEN {} ELSE c.draft[f]]
  <2>1. ledger' = ledger \cup {tx}
    BY <1>5 DEF Made
  <2>2. /\ TxFields \subseteq DOMAIN tx /\ tx.type = c.draft.type
        /\ tx.amount = c.draft.amount /\ tx.account = c.draft.account /\ tx.to = c.draft.to
        /\ tx.date = c.draft.date /\ tx.repeat = c.draft.repeat /\ tx.until = c.draft.until
    BY <1>3, <1>5 DEF TxFields
  <2> HIDE DEF tx
  <2>3. TxOf(tx)
    BY <1>3, <1>5, <2>2 DEF TxOf, MoneyOf, Repeating
  <2>4. IsFiniteSet(ledger')
    BY <2>1, FS_AddElement DEF TxInv
  <2> QED
    BY <1>1, <1>4, <2>1, <2>2, <2>3, <2>4
<1>6. ASSUME NEW new, ledger' = {new[t] : t \in ledger},
             \A t \in ledger : TxFields \subseteq DOMAIN new[t] /\ TxOf(new[t])
      PROVE  TxInv'
  <2>1. IsFiniteSet(ledger')
    BY <1>6, Images DEF TxInv
  <2> QED
    BY <1>4, <1>6, <2>1
<1>7. CASE /\ c.stage = "write" /\ c.id # 0
           /\ Changed(c, {IF t.id # c.id THEN t
                          ELSE [f \in DOMAIN t |-> IF f \in DOMAIN c.draft THEN c.draft[f]
                                                   ELSE t[f]] : t \in ledger})
  <2> DEFINE edited(t) == [f \in DOMAIN t |-> IF f \in DOMAIN c.draft THEN c.draft[f] ELSE t[f]]
             new == [t \in ledger |-> IF t.id # c.id THEN t ELSE edited(t)]
  <2>1. ledger' = {new[t] : t \in ledger}
    BY <1>7 DEF Changed
  <2>2. ASSUME NEW t \in ledger
        PROVE  TxFields \subseteq DOMAIN edited(t) /\ TxOf(edited(t))
    <3>1. /\ DOMAIN edited(t) = DOMAIN t /\ edited(t).type = c.draft.type
          /\ edited(t).amount = c.draft.amount /\ edited(t).account = c.draft.account
          /\ edited(t).to = c.draft.to /\ edited(t).date = c.draft.date
          /\ edited(t).repeat = c.draft.repeat /\ edited(t).until = c.draft.until
      BY <1>1, <1>3, <1>7 DEF TxFields
    <3> HIDE DEF edited
    <3> QED
      BY <1>1, <1>3, <1>7, <3>1 DEF TxOf, MoneyOf, Repeating
  <2> HIDE DEF edited
  <2>3. \A t \in ledger : TxFields \subseteq DOMAIN new[t] /\ TxOf(new[t])
    BY <1>1, <2>2
  <2> HIDE DEF new
  <2> QED
    BY <1>6, <2>1, <2>3
<1>8. CASE c.stage = "remove" /\ Changed(c, {t \in ledger : t.id # c.id})
  <2>1. ledger' = {t \in ledger : t.id # c.id}
    BY <1>8 DEF Changed
  <2>2. ledger' \in SUBSET ledger
    BY <2>1
  <2>3. IsFiniteSet(ledger')
    BY <2>2, FS_Subset DEF TxInv
  <2> QED
    BY <1>1, <1>4, <2>2, <2>3
<1>9. CASE /\ c.stage = "mark"
           /\ Changed(c, {IF t.id # c.from.due.tx THEN t
                          ELSE [t EXCEPT !.handled = @ \cup {c.from.due.due}] : t \in ledger})
  <2> DEFINE marked(t) == [t EXCEPT !.handled = @ \cup {c.from.due.due}]
             new == [t \in ledger |-> IF t.id # c.from.due.tx THEN t ELSE marked(t)]
  <2>1. ledger' = {new[t] : t \in ledger}
    BY <1>9 DEF Changed
  <2>2. ASSUME NEW t \in ledger
        PROVE  TxFields \subseteq DOMAIN marked(t) /\ TxOf(marked(t))
    <3>1. /\ DOMAIN marked(t) = DOMAIN t /\ marked(t).type = t.type
          /\ marked(t).amount = t.amount /\ marked(t).account = t.account
          /\ marked(t).to = t.to /\ marked(t).date = t.date
          /\ marked(t).repeat = t.repeat /\ marked(t).until = t.until
      BY <1>1 DEF TxFields
    <3> HIDE DEF marked
    <3> QED
      BY <1>1, <3>1 DEF TxOf, MoneyOf, Repeating
  <2> HIDE DEF marked
  <2>3. \A t \in ledger : TxFields \subseteq DOMAIN new[t] /\ TxOf(new[t])
    BY <1>1, <2>2
  <2> HIDE DEF new
  <2> QED
    BY <1>6, <2>1, <2>3
<1>10. CASE UNCHANGED ledger
  BY <1>0, <1>10 DEF TxInv, TxOf, MoneyOf
<1> QED
  BY <1>5, <1>7, <1>8, <1>9, <1>10, ServedAs DEF server

LEMMA TxStep == EntryInv /\ TxInv /\ [Next]_vars => TxInv'
<1> SUFFICES ASSUME EntryInv, TxInv, [Next]_vars PROVE TxInv'
  OBVIOUS
<1>1. ASSUME UNCHANGED ledger, seen' \in {ledger, seen} PROVE TxInv'
  BY <1>1 DEF TxInv, TxOf, MoneyOf
<1>2. CASE openNew \/ openEdit \/ openForOccurrence \/ close \/ later
  BY <1>1, <1>2 DEF openNew, openEdit, openForOccurrence, OpenForm, close, later, server
<1>3. CASE save \/ remove \/ skip \/ record \/ ignore \/ Arrive
  BY <1>1, <1>3 DEF save, remove, skip, record, ignore, Arrive, server
<1>4. CASE \E c \in calls : Serve(c)
  BY <1>4, ServeTx
<1>5. ASSUME NEW c \in calls,
             \/ Lose(c) \/ SaveGoesOn(c) \/ RemoveGoesOn(c) \/ SkipGoesOn(c) \/ RecordGoesOn(c)
             \/ IgnoreEnds(c) \/ LoadEnds(c) \/ Refreshed(c) \/ Failed(c)
      PROVE  TxInv'
  BY <1>1, <1>5 DEF Lose, SaveGoesOn, RemoveGoesOn, SkipGoesOn, RecordGoesOn, IgnoreEnds,
                    LoadEnds, Refreshed, Failed, server
<1>6. CASE UNCHANGED vars
  BY <1>1, <1>6 DEF vars, server
<1> QED
  BY <1>2, <1>3, <1>4, <1>5, <1>6 DEF Next

LEMMA TxHolds == Spec => []TxInv
<1>1. Init => EntryInv /\ TxInv
  BY EntryInit, TxInit
<1>2. EntryInv /\ TxInv /\ [Next]_vars => (EntryInv /\ TxInv)'
  BY EntryStep, TxStep
<1> QED
  BY <1>1, <1>2, PTL DEF Spec

\* Whatever of the transactions on the page a report is about, the parts it shows (by
\* category, day of the month, member or date, all of them or the largest and the rest)
\* make what was spent.
THEOREM PartsOfReports == Spec => [](\A T \in SUBSET seen : PartsMakeTheWhole(T))
<1> DEFINE Inv == \A T \in SUBSET seen : PartsMakeTheWhole(T)
<1>1. TxInv => Inv
  <2> SUFFICES ASSUME TxInv, NEW T \in SUBSET seen PROVE PartsMakeTheWhole(T)
    OBVIOUS
  <2>1. IsFiniteSet(T) /\ \A t \in T : t.amount \in Int
    BY FS_Subset DEF TxInv, TxOf, MoneyOf
  <2> QED
    BY <2>1, PartsMake
<1> QED
  BY <1>1, TxHolds, PTL

\* Whatever of them, each on an account, the accounts are computed from, they hold together
\* what they began with and what came in less what was spent: moving money between them
\* makes none and loses none.
THEOREM AccountsOfReports == Spec => [](\A T \in SUBSET seen : AccountsHoldIt(T))
<1> DEFINE Inv == \A T \in SUBSET seen : AccountsHoldIt(T)
<1>1. TxInv => Inv
  <2> SUFFICES ASSUME TxInv, NEW T \in SUBSET seen PROVE AccountsHoldIt(T)
    OBVIOUS
  <2>1. IsFiniteSet(T) /\ \A t \in T : MoneyOf(t)
    BY FS_Subset DEF TxInv, TxOf
  <2> QED
    BY <2>1, AccountsHold
<1> QED
  BY <1>1, TxHolds, PTL

-----------------------------------------------------------------------------
(* The calendar: the dates the app shows and those it keeps, counted in days. *)

\* How many days of the calendar are before a date after the year 979.
YearDays(k) == 365 * k + (k \div 33) * 8 + ((k % 33) + 3) \div 4
DaysOfYear(m, d) == (IF m < 7 THEN (m - 1) * 31 ELSE (m - 7) * 30 + 186) + d - 1

\* A year counted from 979, in its 33 and in its four years.
YearLength(y) == IF isLeap(y) THEN 366 ELSE 365

YearIn33(k, a, c, e) ==
  /\ k = 33 * a + 4 * c + e /\ 4 * c + e <= 32
  /\ YearDays(k) = 12053 * a + 1461 * c + 365 * e + (IF e = 0 THEN 0 ELSE 1)
  /\ YearLength(979 + k) = IF e = 0 /\ c < 8 THEN 366 ELSE 365

LEMMA Years33 ==
  ASSUME NEW k \in Nat
  PROVE  \E a \in Nat, c \in 0..8, e \in 0..3 : YearIn33(k, a, c, e)
<1> DEFINE a == k \div 33
           b == k % 33
           c == b \div 4
           e == b % 4
<1>1. a \in Nat /\ b \in 0..32 /\ k = 33 * a + b
  OBVIOUS
<1>2. c \in 0..8 /\ e \in 0..3 /\ b = 4 * c + e
  BY <1>1
<1>3. (b + 3) \div 4 = c + (IF e = 0 THEN 0 ELSE 1)
  BY <1>1, <1>2
<1>4. YearDays(k) = 365 * k + 8 * a + (b + 3) \div 4
  BY <1>1 DEF YearDays
<1> HIDE DEF a, b
<1>5. (979 + k) % 33 = (22 + b) % 33
  BY <1>1
<1> HIDE DEF c, e
<1>6. isLeap(979 + k) <=> e = 0 /\ c < 8
  BY <1>1, <1>2, <1>5 DEF isLeap
<1>7. YearLength(979 + k) = IF e = 0 /\ c < 8 THEN 366 ELSE 365
  BY <1>6 DEF YearLength
<1>8. YearIn33(k, a, c, e)
  BY <1>1, <1>2, <1>3, <1>4, <1>7, SMT DEF YearIn33
<1> QED
  BY <1>1, <1>2, <1>8

\* Division by the lengths of four hundred, a hundred, thirty three, four and one years.
LEMMA By12053 ==
  ASSUME NEW a \in Int, NEW s \in Int, 0 <= s, s < 12053
  PROVE  (12053 * a + s) \div 12053 = a /\ (12053 * a + s) % 12053 = s
  BY SMT

LEMMA By1461 ==
  ASSUME NEW a \in Int, NEW s \in Int, 0 <= s, s < 1461
  PROVE  (1461 * a + s) \div 1461 = a /\ (1461 * a + s) % 1461 = s
  BY SMT

LEMMA By365 ==
  ASSUME NEW a \in Int, NEW s \in Int, 0 <= s, s < 365
  PROVE  (365 * a + s) \div 365 = a /\ (365 * a + s) % 365 = s
  BY SMT

LEMMA DayInYear ==
  ASSUME NEW y \in Int, NEW m \in 1..12, NEW d \in 1..daysInMonth(y, m)
  PROVE  /\ d \in 1..31 /\ DaysOfYear(m, d) \in 0..(YearLength(y) - 1)
         /\ JalaliDay(y, DaysOfYear(m, d)) = <<y, m, d>>
<1>1. /\ m <= 6 => daysInMonth(y, m) = 31
      /\ m \in 7..11 => daysInMonth(y, m) = 30
      /\ m = 12 /\ isLeap(y) => daysInMonth(y, m) = 30
      /\ m = 12 /\ ~isLeap(y) => daysInMonth(y, m) = 29
  BY DEF daysInMonth
<1>2. m <= 6 \/ m \in 7..11 \/ m = 12
  OBVIOUS
<1>3. /\ d \in 1..31 /\ (m > 6 => d <= 30) /\ (m = 12 /\ ~isLeap(y) => d <= 29)
  BY <1>1, <1>2
<1>4. CASE m <= 6
  <2>1. DaysOfYear(m, d) = 31 * (m - 1) + (d - 1) /\ d - 1 \in 0..30
    BY <1>3, <1>4 DEF DaysOfYear
  <2>2. DaysOfYear(m, d) \div 31 = m - 1 /\ DaysOfYear(m, d) % 31 = d - 1
    BY <2>1
  <2>3. DaysOfYear(m, d) \in 0..185
    BY <1>4, <2>1
  <2> QED
    BY <1>3, <2>2, <2>3 DEF JalaliDay, YearLength
<1>5. CASE m > 6
  <2>1. DaysOfYear(m, d) = 30 * (m - 7) + 186 + (d - 1) /\ d - 1 \in 0..29
    BY <1>3, <1>5 DEF DaysOfYear
  <2>2. (DaysOfYear(m, d) - 186) \div 30 = m - 7 /\ (DaysOfYear(m, d) - 186) % 30 = d - 1
    BY <1>5, <2>1
  <2>3. DaysOfYear(m, d) \in 186..365 /\ (DaysOfYear(m, d) = 365 => m = 12 /\ d = 30)
    BY <1>5, <2>1
  <2>4. DaysOfYear(m, d) \in 0..(YearLength(y) - 1)
    <3>1. CASE isLeap(y)
      BY <2>3, <3>1, SMT DEF YearLength
    <3>2. CASE ~isLeap(y)
      <4>1. YearLength(y) = 365
        BY <3>2 DEF YearLength
      <4>2. m = 12 => d <= 29
        BY <1>3, <3>2
      <4> QED
        BY <2>3, <4>1, <4>2, SMT
    <3> QED
      BY <3>1, <3>2
  <2> QED
    BY <1>3, <2>2, <2>3, <2>4, SMT DEF JalaliDay
<1> QED
  BY <1>4, <1>5

LEMMA YearFound ==
  ASSUME NEW k \in Nat, NEW x \in 0..(YearLength(979 + k) - 1)
  PROVE  JalaliDate(979, YearDays(k) + x) = JalaliDay(979 + k, x)
<1>0. PICK a \in Nat, c \in 0..8, e \in 0..3 : YearIn33(k, a, c, e)
  BY Years33
<1>1. /\ k = 33 * a + 4 * c + e /\ 4 * c + e <= 32
      /\ YearDays(k) = 12053 * a + 1461 * c + 365 * e + (IF e = 0 THEN 0 ELSE 1)
      /\ YearLength(979 + k) = IF e = 0 /\ c < 8 THEN 366 ELSE 365
  BY <1>0 DEF YearIn33
<1> DEFINE r == 365 * e + (IF e = 0 THEN 0 ELSE 1) + x
           n == YearDays(k) + x
<1>2. r \in 0..1460 /\ x \in 0..365 /\ (c = 8 => r <= 364)
  <2>1. x \in 0..365 /\ (x = 365 => e = 0 /\ c < 8)
    BY <1>1
  <2>2. c = 8 => e = 0
    BY <1>1
  <2> QED
    BY <2>1, <2>2, SMT
<1>3. n = 12053 * a + (1461 * c + r) /\ 1461 * c + r \in Int
      /\ 0 <= 1461 * c + r /\ 1461 * c + r < 12053 /\ a \in Int
  BY <1>1, <1>2, SMT
<1> HIDE DEF r, n
<1>4. n \div 12053 = a /\ n % 12053 = 1461 * c + r
  BY <1>3, By12053, SMT
<1>5. (1461 * c + r) \div 1461 = c /\ (1461 * c + r) % 1461 = r
  BY <1>2, By1461, SMT
<1>6. ASSUME NEW y \in Int PROVE FourYears(y, r) = <<y + e, x>>
  <2>1. CASE e = 0
    <3>1. r = x
      BY <2>1 DEF r
    <3> QED
      BY <1>2, <2>1, <3>1, SMT DEF FourYears
  <2>2. CASE e > 0
    <3>1. r - 1 = 365 * e + x /\ x <= 364
      BY <1>1, <2>2 DEF r
    <3>2. (r - 1) \div 365 = e /\ (r - 1) % 365 = x /\ r > 365
      BY <1>2, <2>2, <3>1, By365, SMT
    <3> QED
      BY <3>2 DEF FourYears
  <2> QED
    BY <2>1, <2>2
<1>7. 979 + 33 * a + 4 * c \in Int /\ 979 + 33 * a + 4 * c + e = 979 + k
  BY <1>1
<1> QED
  BY <1>4, <1>5, <1>6, <1>7 DEF JalaliDate, n

\* The date of a day that is counted is the date it was counted from.
LEMMA JalaliOfDays ==
  ASSUME NEW k \in Nat, NEW m \in 1..12, NEW d \in 1..daysInMonth(979 + k, m)
  PROVE  JalaliDate(979, YearDays(k) + DaysOfYear(m, d)) = <<979 + k, m, d>>
<1> DEFINE y == 979 + k
           x == DaysOfYear(m, d)
<1>1. x \in 0..(YearLength(y) - 1) /\ JalaliDay(y, x) = <<y, m, d>>
  <2>1. y \in Int /\ d \in 1..daysInMonth(y, m)
    OBVIOUS
  <2> HIDE DEF y
  <2> QED
    BY <2>1, DayInYear
<1> HIDE DEF x
<1>3. JalaliDate(979, YearDays(k) + x) = JalaliDay(979 + k, x)
  BY <1>1, YearFound
<1> QED
  BY <1>1, <1>3 DEF x

-----------------------------------------------------------------------------
\* The same day in the other calendar, counted from 1600.
LeapDays(y) == (y + 3) \div 4 - (y + 99) \div 100 + (y + 399) \div 400

LEMMA LeapStep ==
  ASSUME NEW y \in Nat
  PROVE  /\ LeapDays(y) \in Int
         /\ LeapDays(y + 1) = LeapDays(y) + (IF LeapGregorian(1600 + y) THEN 1 ELSE 0)
<1>1. (y + 4) \div 4 = (y + 3) \div 4 + (IF y % 4 = 0 THEN 1 ELSE 0)
  BY SMT
<1>2. (y + 100) \div 100 = (y + 99) \div 100 + (IF y % 100 = 0 THEN 1 ELSE 0)
  BY SMT
<1>3. (y + 400) \div 400 = (y + 399) \div 400 + (IF y % 400 = 0 THEN 1 ELSE 0)
  BY SMT
<1>4. (1600 + y) % 4 = y % 4 /\ (1600 + y) % 100 = y % 100 /\ (1600 + y) % 400 = y % 400
  BY SMT
<1>5. (y % 400 = 0 => y % 100 = 0) /\ (y % 100 = 0 => y % 4 = 0)
  BY SMT
<1>6. (y + 1) + 3 = y + 4 /\ (y + 1) + 99 = y + 100 /\ (y + 1) + 399 = y + 400
  BY SMT
<1>7. CASE y % 400 = 0
  <2>1. LeapGregorian(1600 + y)
    BY <1>4, <1>7, SMT DEF LeapGregorian
  <2> QED
    BY <1>1, <1>2, <1>3, <1>5, <1>6, <1>7, <2>1, SMT DEF LeapDays
<1>8. CASE y % 400 # 0 /\ y % 100 = 0
  <2>1. ~LeapGregorian(1600 + y)
    BY <1>4, <1>8, SMT DEF LeapGregorian
  <2> QED
    BY <1>1, <1>2, <1>3, <1>5, <1>6, <1>8, <2>1, SMT DEF LeapDays
<1>9. CASE y % 100 # 0 /\ y % 4 = 0
  <2>1. LeapGregorian(1600 + y)
    BY <1>4, <1>9, SMT DEF LeapGregorian
  <2> QED
    BY <1>1, <1>2, <1>3, <1>5, <1>6, <1>9, <2>1, SMT DEF LeapDays
<1>10. CASE y % 4 # 0
  <2>1. ~LeapGregorian(1600 + y)
    BY <1>4, <1>5, <1>10, SMT DEF LeapGregorian
  <2> QED
    BY <1>1, <1>2, <1>3, <1>5, <1>6, <1>10, <2>1, SMT DEF LeapDays
<1> QED
  BY <1>7, <1>8, <1>9, <1>10, SMT

\* The first days of the months of a year, which has a day more if it is a leap year.
Extra(year) == IF LeapGregorian(year) THEN 1 ELSE 0
Starts(year, m) == DaysBefore[m] + IF m > 2 THEN Extra(year) ELSE 0

LEMMA MonthStarts ==
  ASSUME NEW year
  PROVE  /\ Extra(year) \in {0, 1} /\ Starts(year, 1) = 0 /\ Starts(year, 2) = 31
         /\ Starts(year, 3) = 59 + Extra(year) /\ Starts(year, 4) = 90 + Extra(year)
         /\ Starts(year, 5) = 120 + Extra(year) /\ Starts(year, 6) = 151 + Extra(year)
         /\ Starts(year, 7) = 181 + Extra(year) /\ Starts(year, 8) = 212 + Extra(year)
         /\ Starts(year, 9) = 243 + Extra(year) /\ Starts(year, 10) = 273 + Extra(year)
         /\ Starts(year, 11) = 304 + Extra(year) /\ Starts(year, 12) = 334 + Extra(year)
  BY SMT DEF Starts, Extra, DaysBefore

LEMMA MonthOf ==
  ASSUME NEW year, NEW x \in 0..(364 + Extra(year))
  PROVE  LET m == Cardinality({i \in 1..12 : Starts(year, i) <= x})
         IN /\ m \in 1..12 /\ Starts(year, m) <= x /\ Starts(year, m) \in Int
            /\ x - Starts(year, m) <= 30 /\ (m < 12 => x < Starts(year, m + 1))
            /\ GregorianDay(year, x) = <<year, m, x + 1 - Starts(year, m)>>
<1> DEFINE M == {i \in 1..12 : Starts(year, i) <= x}
           b == Extra(year)
           s(i) == Starts(year, i)
<1>1. /\ b \in {0, 1} /\ s(1) = 0 /\ s(2) = 31 /\ s(3) = 59 + b /\ s(4) = 90 + b /\ s(5) = 120 + b
      /\ s(6) = 151 + b /\ s(7) = 181 + b /\ s(8) = 212 + b /\ s(9) = 243 + b /\ s(10) = 273 + b
      /\ s(11) = 304 + b /\ s(12) = 334 + b
  BY MonthStarts
<1>2. \A i \in 1..12 : i = 1 \/ i = 2 \/ i = 3 \/ i = 4 \/ i = 5 \/ i = 6 \/ i = 7 \/ i = 8
                       \/ i = 9 \/ i = 10 \/ i = 11 \/ i = 12
  BY SMT
<1>3. \A i, j \in 1..12 : i <= j => s(i) <= s(j) /\ s(i) \in Int
  <2> HIDE DEF s, b
  <2> QED
    BY <1>1, <1>2, SMTT(30)
<1>4. \E k \in 1..12 : s(k) <= x /\ x - s(k) <= 30 /\ (k < 12 => x < s(k + 1))
  <2> HIDE DEF s
  <2>0. x \in 0..(364 + b)
    OBVIOUS
  <2> HIDE DEF b
  <2> QED
    BY <1>1, <2>0, SMTT(30)
<1>5. PICK k \in 1..12 : s(k) <= x /\ x - s(k) <= 30 /\ (k < 12 => x < s(k + 1))
  BY <1>4
<1>6. M = 1..k
  <2>1. ASSUME NEW i \in 1..12 PROVE s(i) <= x <=> i <= k
    <3>1. CASE i <= k
      BY <1>3, <1>5, <3>1, SMT
    <3>2. CASE i > k
      <4>1. k + 1 \in 1..12 /\ k + 1 <= i /\ x < s(k + 1)
        BY <1>5, <3>2, SMT
      <4>2. s(k + 1) <= s(i) /\ s(k + 1) \in Int /\ s(i) \in Int
        BY <1>3, <4>1
      <4> HIDE DEF s
      <4> QED
        BY <3>2, <4>1, <4>2, SMT
    <3> QED
      BY <3>1, <3>2, SMT
  <2> HIDE DEF s
  <2>2. M = {i \in 1..12 : s(i) <= x}
    BY DEF s
  <2>3. k \in Int /\ k <= 12
    OBVIOUS
  <2> HIDE DEF M
  <2>4. \A i : i \in M <=> i \in 1..12 /\ i <= k
    BY <2>1, <2>2
  <2>5. \A i : i \in 1..k <=> i \in 1..12 /\ i <= k
    BY <2>3, SMT
  <2> QED
    BY <2>4, <2>5
<1>7. Cardinality(M) = k
  <2>1. k \in Int /\ 1 <= k
    OBVIOUS
  <2>2. Cardinality(1..k) = k
    BY <2>1, FS_Interval, SMT
  <2> QED
    BY <1>6, <2>2
<1>8. GregorianDay(year, x) = <<year, Cardinality(M), x + 1 - Starts(year, Cardinality(M))>>
  BY DEF GregorianDay, Starts, Extra
<1> HIDE DEF M
<1> QED
  BY <1>3, <1>5, <1>7, <1>8 DEF M

\* The number of a day, counted as the conversion to the other calendar does.
DayCount(y, x) == 365 * y + LeapDays(y) + x

LEMMA CountedBack ==
  ASSUME NEW y \in Nat, y > 0, NEW x \in 0..(364 + Extra(1600 + y))
  PROVE  toJalali(GregorianDay(1600 + y, x)) = JalaliDate(979, DayCount(y, x) - 79)
<1> DEFINE m == Cardinality({i \in 1..12 : Starts(1600 + y, i) <= x})
           d == x + 1 - Starts(1600 + y, m)
           g == GregorianDay(1600 + y, x)
           gy2 == IF m > 2 THEN y + 1 ELSE y
<1>1. /\ m \in 1..12 /\ Starts(1600 + y, m) \in Int /\ g = <<1600 + y, m, d>>
  BY MonthOf
<1>2. Starts(1600 + y, m) = DaysBefore[m] + IF m > 2 THEN Extra(1600 + y) ELSE 0
  BY DEF Starts
<1>3. DaysBefore[m] \in Int
  BY <1>1 DEF DaysBefore
<1>4. Extra(1600 + y) \in {0, 1} /\ LeapDays(y) \in Int
      /\ LeapDays(y + 1) = LeapDays(y) + Extra(1600 + y)
  BY LeapStep DEF Extra
<1> HIDE DEF m
<1>5. LeapDays(gy2) = LeapDays(y) + IF m > 2 THEN Extra(1600 + y) ELSE 0
  BY <1>4
<1>6. 365 * y + LeapDays(gy2) - 80 + d + DaysBefore[m] = DayCount(y, x) - 79
  BY <1>1, <1>2, <1>3, <1>4, <1>5, SMT DEF DayCount
<1>7. toJalali(<<1600 + y, m, d>>)
        = JalaliDate(979, 365 * y + (gy2 + 3) \div 4 - (gy2 + 99) \div 100 + (gy2 + 399) \div 400
                          - 80 + d + DaysBefore[m])
  BY SMT DEF toJalali
<1>8. 365 * y + (gy2 + 3) \div 4 - (gy2 + 99) \div 100 + (gy2 + 399) \div 400 - 80 + d + DaysBefore[m]
        = 365 * y + LeapDays(gy2) - 80 + d + DaysBefore[m]
  <2>1. gy2 \in Nat /\ d \in Int
    BY <1>1
  <2> HIDE DEF gy2, d
  <2> QED
    BY <1>3, <2>1, SMT DEF LeapDays
<1> HIDE DEF gy2, d, g
<1> QED
  BY <1>1, <1>6, <1>7, <1>8 DEF g

\* Day n of four years is day x of the one e years on, and of a century that of the one
\* 4 * i + e years on.
InYear == 0..365
InFour == {n \in Nat : n <= 1460}
InHundred == {n \in Nat : n <= 36524}
Fours == 0..24
Ones == 0..3

IsInFour(n, e, x) ==
  /\ n = 365 * e + (IF e = 0 THEN 0 ELSE 1) + x /\ (e > 0 => x <= 364)
  /\ \A y \in Int : FourYears(y, n) = <<y + e, x>>

LEMMA DayInFour ==
  ASSUME NEW n \in InFour
  PROVE  \E e \in Ones, x \in InYear : IsInFour(n, e, x)
<1>0. n \in Nat /\ n <= 1460
  BY DEF InFour
<1>1. CASE n <= 365
  <2>1. n = 365 * 0 + 0 + n
    BY <1>0, SMT
  <2>2. \A y \in Int : FourYears(y, n) = <<y + 0, n>>
    BY <1>0, <1>1, SMT DEF FourYears
  <2>3. IsInFour(n, 0, n)
    BY <2>1, <2>2 DEF IsInFour
  <2>4. n \in InYear /\ 0 \in Ones
    BY <1>0, <1>1, SMT DEF InYear, Ones
  <2> QED
    BY <2>3, <2>4, Zenon
<1>2. CASE n > 365
  <2> DEFINE e == (n - 1) \div 365
             x == (n - 1) % 365
  <2>1. e \in 1..3 /\ x \in 0..364 /\ n - 1 = 365 * e + x
    BY <1>0, <1>2, SMT
  <2>2. \A y \in Int : FourYears(y, n) = <<y + e, x>>
    BY <1>0, <1>2, SMT DEF FourYears
  <2> HIDE DEF e, x
  <2>3. n = 365 * e + (IF e = 0 THEN 0 ELSE 1) + x /\ (e > 0 => x <= 364)
    BY <1>0, <2>1, SMT
  <2>4. IsInFour(n, e, x)
    BY <2>2, <2>3 DEF IsInFour
  <2>5. x \in InYear /\ e \in Ones
    BY <2>1, SMT DEF InYear, Ones
  <2> QED
    BY <2>4, <2>5, Zenon
<1> QED
  BY <1>0, <1>1, <1>2, SMT

IsInHundred(n, i, e, x) ==
  /\ n = 1461 * i + 365 * e + (IF e = 0 THEN 0 ELSE 1) + x /\ (e > 0 => x <= 364)
  /\ \A y \in Int : FourYears(y + 4 * (n \div 1461), n % 1461) = <<y + 4 * i + e, x>>

LEMMA FourIsIn ==
  ASSUME NEW i \in Int, NEW r \in Int, NEW n \in Int, 0 <= r, r <= 1460, 0 <= n, n <= 36524,
         n = 1461 * i + r
  PROVE  0 <= i /\ i <= 24
  BY SMT

LEMMA DayInHundred ==
  ASSUME NEW n \in InHundred
  PROVE  \E i \in Fours, e \in Ones, x \in InYear : IsInHundred(n, i, e, x)
<1> DEFINE i == n \div 1461
           r == n % 1461
<1>0. n \in Nat /\ n <= 36524
  BY DEF InHundred
<1>1. n = 1461 * i + r /\ i \in Int
  BY <1>0, SMT
<1>2. r \in Nat /\ r <= 1460 /\ r \in InFour
  BY <1>0, SMT DEF InFour
<1> HIDE DEF i, r
<1>3. 0 <= n /\ n <= 36524 /\ n \in Int /\ 0 <= r /\ r <= 1460 /\ r \in Int
  BY <1>0, <1>2, SMT
<1>4. i \in 0..24
  <2>1. i \in Int /\ n = 1461 * i + r
    BY <1>1
  <2>2. 0 <= i /\ i <= 24
    BY <1>3, <2>1, FourIsIn, SMT
  <2> QED
    BY <2>1, <2>2, SMT
<1>5. PICK e \in Ones, x \in InYear : IsInFour(r, e, x)
  BY <1>2, DayInFour, Zenon
<1>6. /\ r = 365 * e + (IF e = 0 THEN 0 ELSE 1) + x /\ (e > 0 => x <= 364)
      /\ \A y \in Int : FourYears(y, r) = <<y + e, x>>
  BY <1>5 DEF IsInFour
<1>7. ASSUME NEW y \in Int PROVE FourYears(y + 4 * i, r) = <<y + 4 * i + e, x>>
  <2>1. y + 4 * i \in Int
    BY <1>4, SMT
  <2> QED
    BY <1>6, <2>1
<1>8. n = 1461 * i + 365 * e + (IF e = 0 THEN 0 ELSE 1) + x
  BY <1>1, <1>4, <1>6, SMT DEF Ones, InYear
<1>9. \A y \in Int : FourYears(y + 4 * (n \div 1461), n % 1461) = <<y + 4 * i + e, x>>
  BY <1>7 DEF i, r
<1>10. IsInHundred(n, i, e, x)
  BY <1>6, <1>8, <1>9 DEF IsInHundred
<1>11. i \in Fours
  BY <1>4 DEF Fours
<1> QED
  BY <1>10, <1>11, Zenon

LEMMA LeapDaysBy400 ==
  ASSUME NEW q \in Nat, NEW y \in Nat, y < 400
  PROVE  LeapDays(400 * q + y) = 97 * q + LeapDays(y)
<1>1. (400 * q + y + 3) \div 4 = 100 * q + (y + 3) \div 4
  BY SMT
<1>2. (400 * q + y + 99) \div 100 = 4 * q + (y + 99) \div 100
  BY SMT
<1>3. (400 * q + y + 399) \div 400 = q + (y + 399) \div 400
  BY SMT
<1>4. (y + 3) \div 4 \in Int /\ (y + 99) \div 100 \in Int /\ (y + 399) \div 400 \in Int
  BY SMT
<1> QED
  BY <1>1, <1>2, <1>3, <1>4, SMT DEF LeapDays

\* The leap years of 400 before year i * 4 + e of century c.
LEMMA LeapDaysIn400 ==
  ASSUME NEW c \in 0..3, NEW i \in 0..24, NEW e \in 0..3
  PROVE  LeapDays(100 * c + 4 * i + e) =
           24 * c + i + (IF e = 0 THEN 0 ELSE 1)
           + (IF c > 0 /\ i = 0 /\ e = 0 THEN 1 ELSE 0)
<1> DEFINE y == 100 * c + 4 * i + e
           z == 4 * i + e
<1>0. z \in 0..99 /\ y = 100 * c + z /\ (z = 0 <=> i = 0 /\ e = 0) /\ c \in 0..3
  BY SMT
<1>1. (y + 3) \div 4 = 25 * c + i + (IF e = 0 THEN 0 ELSE 1)
  BY SMT
<1>2. (y + 99) \div 100 = c + (IF z = 0 THEN 0 ELSE 1)
  BY SMT
<1>3. (y + 399) \div 400 = IF c = 0 /\ z = 0 THEN 0 ELSE 1
  BY SMT
<1>4. LeapDays(y) = (y + 3) \div 4 - (y + 99) \div 100 + (y + 399) \div 400
  BY DEF LeapDays
<1> HIDE DEF y, z
<1>5. LeapDays(y) = 24 * c + i + (IF e = 0 THEN 0 ELSE 1)
           + (IF c > 0 /\ i = 0 /\ e = 0 THEN 1 ELSE 0)
  BY <1>0, <1>1, <1>2, <1>3, <1>4, SMT
<1> QED
  BY <1>5 DEF y

LEMMA LeapAt ==
  ASSUME NEW q \in Nat, NEW c \in 0..3, NEW i \in 0..24, c = 0 \/ i > 0
  PROVE  Extra(1600 + (400 * q + (100 * c + 4 * i))) = 1
<1> DEFINE y == 1600 + (400 * q + (100 * c + 4 * i))
<1>1. y % 4 = 0
  BY SMT
<1>2. i > 0 => y % 100 # 0
  BY SMT
<1>3. c = 0 /\ i = 0 => y % 400 = 0
  BY SMT
<1>4. i > 0 \/ (c = 0 /\ i = 0)
  BY SMT
<1> HIDE DEF y
<1>5. LeapGregorian(y)
  BY <1>1, <1>2, <1>3, <1>4 DEF LeapGregorian
<1>6. Extra(y) = 1
  BY <1>5 DEF Extra
<1> QED
  BY <1>6 DEF y

Of400 == {n \in Nat : n <= 146096}

\* Day r of 400 years is day x of the year y of them.
IsIn400(q, r, y, x) ==
  /\ x <= 364 + Extra(1600 + (400 * q + y)) /\ DayCount(400 * q + y, x) = 146097 * q + r
  /\ GregorianDate(1600 + 400 * q, r) = GregorianDay(1600 + (400 * q + y), x)

LEMMA DayIn400 ==
  ASSUME NEW q \in Nat, NEW r \in Of400
  PROVE  \E y \in Nat, x \in InYear : y < 400 /\ IsIn400(q, r, y, x)
<1>0. r \in Nat /\ r <= 146096
  BY DEF Of400
<1> DEFINE base == 1600 + 400 * q
           Century(year, n) ==
             LET at == FourYears(year + 4 * (n \div 1461), n % 1461) IN GregorianDay(at[1], at[2])
\* Where century c begins, and where day n of it is.
<1>1. ASSUME NEW c \in 0..3, NEW n \in InHundred, c = 0 \/ n >= 366 \/ n < 365,
             r = 36524 * c + n + (IF c > 0 /\ n < 365 THEN 1 ELSE 0),
             GregorianDate(base, r) = Century(base + 100 * c, n)
      PROVE  \E y \in Nat, x \in InYear : y < 400 /\ IsIn400(q, r, y, x)
  <2>1. PICK i \in Fours, e \in Ones, x \in InYear : IsInHundred(n, i, e, x)
    BY DayInHundred, Zenon
  <2>2. /\ i \in 0..24 /\ e \in 0..3 /\ x \in 0..365
        /\ n = 1461 * i + 365 * e + (IF e = 0 THEN 0 ELSE 1) + x /\ (e > 0 => x <= 364)
        /\ \A y \in Int : FourYears(y + 4 * (n \div 1461), n % 1461) = <<y + 4 * i + e, x>>
    BY <2>1 DEF IsInHundred, Fours, Ones, InYear
  <2> DEFINE y == 100 * c + 4 * i + e
             z == 400 * q + y
  <2>3. y \in Nat /\ y < 400 /\ z \in Nat
    BY <2>2, SMT
  <2>4. LeapDays(y) = 24 * c + i + (IF e = 0 THEN 0 ELSE 1)
                      + (IF c > 0 /\ i = 0 /\ e = 0 THEN 1 ELSE 0)
    BY <2>2, LeapDaysIn400
  <2>5. LeapDays(z) = 97 * q + LeapDays(y)
    BY <2>3, LeapDaysBy400
  <2>6. i = 0 /\ e = 0 <=> n < 366
    BY <2>2, SMT
  <2>7. DayCount(z, x) = 146097 * q + r
    BY <1>1, <2>2, <2>4, <2>5, <2>6, SMT DEF DayCount
  <2>8. x <= 364 + Extra(1600 + z)
    <3>1. CASE x <= 364
      BY <3>1, <2>2, SMT DEF Extra
    <3>2. CASE x > 364
      <4>1. e = 0 /\ (c = 0 \/ i > 0)
        BY <1>1, <2>2, <3>2, SMT
      <4>2. Extra(1600 + (400 * q + (100 * c + 4 * i))) = 1
        BY <2>2, <4>1, LeapAt
      <4>3. z = 400 * q + (100 * c + 4 * i)
        BY <2>2, <4>1, SMT
      <4> QED
        BY <2>2, <4>2, <4>3, SMT
    <3> QED
      BY <2>2, <3>1, <3>2, SMT
  <2>9. GregorianDate(base, r) = GregorianDay(1600 + z, x)
    <3>1. base + 100 * c \in Int /\ base + 100 * c + 4 * i + e = 1600 + z
      BY <2>2, SMT
    <3>2. FourYears(base + 100 * c + 4 * (n \div 1461), n % 1461) = <<1600 + z, x>>
      BY <2>2, <3>1
    <3> QED
      BY <1>1, <3>2
  <2>10. IsIn400(q, r, y, x)
    BY <2>7, <2>8, <2>9 DEF IsIn400
  <2> HIDE DEF y
  <2> QED
    BY <2>1, <2>3, <2>10, Zenon
<1>2. CASE r <= 36524
  <2>1. r \in InHundred
    BY <1>0, <1>2, SMT DEF InHundred
  <2>2. GregorianDate(base, r) = Century(base, r)
    BY <1>2 DEF GregorianDate
  <2>3. base + 100 * 0 = base
    BY SMT
  <2>4. 0 \in 0..3 /\ r = 36524 * 0 + r + (IF 0 > 0 /\ r < 365 THEN 1 ELSE 0)
    BY <1>0, SMT
  <2> HIDE DEF base, Century
  <2> QED
    BY <1>1, <2>1, <2>2, <2>3, <2>4
<1>3. CASE r > 36524
  <2> DEFINE c == (r - 1) \div 36524
             rest == (r - 1) % 36524
             n == IF rest >= 365 THEN rest + 1 ELSE rest
  <2>0. ~(r <= 36524)
    BY <1>0, <1>3, SMT
  <2>1. c \in 1..3 /\ rest \in Nat /\ rest <= 36523
    BY <1>0, <1>3, SMT
  <2>2. r = 36524 * c + rest + 1
    BY <1>0, SMT
  <2>3. GregorianDate(base, r) = Century(base + 100 * c, n)
    BY <1>0, <2>0, SMT DEF GregorianDate
  <2> HIDE DEF base, c, rest, Century
  <2>4. n \in InHundred /\ (n >= 366 \/ n < 365)
    BY <2>1, SMT DEF InHundred
  <2>5. r = 36524 * c + n + (IF c > 0 /\ n < 365 THEN 1 ELSE 0)
    BY <2>1, <2>2, SMT
  <2>6. c \in 0..3
    BY <2>1, SMT
  <2> HIDE DEF n
  <2> QED
    BY <1>1, <2>3, <2>4, <2>5, <2>6 DEF Century
<1> QED
  BY <1>0, <1>2, <1>3, SMT

\* How many days of the calendar are before a date.
Day(j) == YearDays(j[1] - 979) + DaysOfYear(j[2], j[3])

LEMMA DayIsNat ==
  ASSUME NEW k \in Nat, NEW m \in 1..12, NEW d \in 1..31
  PROVE  /\ YearDays(k) \in Nat /\ DaysOfYear(m, d) \in Nat /\ YearDays(k) >= 365 * k
<1>1. DaysOfYear(m, d) \in Nat
  BY SMT DEF DaysOfYear
<1>2. YearDays(k) \in Nat /\ YearDays(k) >= 365 * k
  BY SMT DEF YearDays
<1> QED
  BY <1>1, <1>2

IsOn(j, k, m, d) ==
  /\ k > 0 /\ j = <<979 + k, m, d>> /\ d \in 1..daysInMonth(979 + k, m)
  /\ Day(j) = YearDays(k) + DaysOfYear(m, d)

LEMMA DateParts ==
  ASSUME NEW j \in Dates
  PROVE  /\ \E k \in Nat, m \in 1..12, d \in 1..31 : IsOn(j, k, m, d)
         /\ Day(j) \in Nat /\ Day(j) >= 365
<1>1. PICK y \in Int, m \in 1..12, d \in 1..31 : j = <<y, m, d>> /\ y > 979 /\ IsDate(j)
  BY DEF Dates
<1>2. d \in 1..daysInMonth(y, m)
  BY <1>1 DEF IsDate
<1> DEFINE k == y - 979
<1>3. k \in Nat /\ k > 0 /\ y = 979 + k
  BY <1>1, SMT
<1>4. Day(j) = YearDays(k) + DaysOfYear(m, d)
  BY <1>1 DEF Day
<1> HIDE DEF k
<1>5. IsOn(j, k, m, d)
  BY <1>1, <1>2, <1>3, <1>4 DEF IsOn
<1>6. YearDays(k) \in Nat /\ DaysOfYear(m, d) \in Nat /\ YearDays(k) >= 365 * k
  BY <1>3, DayIsNat
<1>7. Day(j) \in Nat /\ Day(j) >= 365
  BY <1>3, <1>4, <1>6, SMT
<1> QED
  BY <1>3, <1>5, <1>7

IsThere(n, y, x) == y > 0 /\ x <= 364 + Extra(1600 + y) /\ DayCount(y, x) = n

LEMMA Converted ==
  ASSUME NEW k \in Nat, NEW m, NEW d, k > 0
  PROVE  LET e == 365 * k + (k \div 33) * 8 + ((k % 33) + 3) \div 4 + 78 + d
                   + IF m < 7 THEN (m - 1) * 31 ELSE (m - 7) * 30 + 186
         IN toGregorian(<<979 + k, m, d>>)
              = GregorianDate(1600 + 400 * (e \div 146097), e % 146097)
<1>1. ~(979 + k <= 979) /\ (979 + k) - 979 = k
  BY SMT
<1> DEFINE y == 979 + k
<1>2. ~(y <= 979) /\ y - 979 = k
  BY <1>1
<1> HIDE DEF y
<1>3. <<y, m, d>>[1] = y /\ <<y, m, d>>[2] = m /\ <<y, m, d>>[3] = d
  OBVIOUS
<1> QED
  BY <1>2, <1>3, SMT DEF toGregorian, y

LEMMA There ==
  ASSUME NEW j \in Dates
  PROVE  \E y \in Nat, x \in InYear :
           IsThere(Day(j) + 79, y, x) /\ toGregorian(j) = GregorianDay(1600 + y, x)
<1>1. PICK k \in Nat, m \in 1..12, d \in 1..31 : IsOn(j, k, m, d)
  BY DateParts
<1>2. /\ k > 0 /\ j = <<979 + k, m, d>>
      /\ Day(j) = YearDays(k) + DaysOfYear(m, d)
  BY <1>1 DEF IsOn
<1> DEFINE n == Day(j) + 79
           q == n \div 146097
           r == n % 146097
<1>3. n \in Nat /\ n >= 444
  BY DateParts, SMT
<1>4. toGregorian(j) = GregorianDate(1600 + 400 * q, r)
  <2> DEFINE e == 365 * k + (k \div 33) * 8 + ((k % 33) + 3) \div 4 + 78 + d
                   + IF m < 7 THEN (m - 1) * 31 ELSE (m - 7) * 30 + 186
  <2>1. toGregorian(<<979 + k, m, d>>)
          = GregorianDate(1600 + 400 * (e \div 146097), e % 146097)
    BY <1>2, Converted
  <2>2. n = e
    BY <1>2, SMT DEF YearDays, DaysOfYear
  <2>3. j = <<979 + k, m, d>>
    BY <1>2
  <2> HIDE DEF n, e
  <2>4. q = e \div 146097 /\ r = e % 146097
    BY <2>2, SMT
  <2> HIDE DEF q, r
  <2> QED
    BY <2>1, <2>3, <2>4, SMT
<1> HIDE DEF n
<1>5. q \in Nat /\ r \in Of400
  BY <1>3, SMT DEF Of400
<1>6. n = 146097 * q + r
  BY <1>3, SMT
<1> HIDE DEF q, r
<1>7. PICK y \in Nat, x \in InYear : y < 400 /\ IsIn400(q, r, y, x)
  BY <1>5, DayIn400
<1> DEFINE z == 400 * q + y
<1>8. /\ x <= 364 + Extra(1600 + z) /\ DayCount(z, x) = n
      /\ toGregorian(j) = GregorianDay(1600 + z, x)
  BY <1>4, <1>6, <1>7 DEF IsIn400
<1>9. z \in Nat
  BY <1>5, SMT
<1> HIDE DEF z
<1>10. z > 0
  <2>1. CASE z = 0
    <3>1. DayCount(z, x) = x
      BY <2>1, SMT DEF DayCount, LeapDays, InYear
    <3> QED
      BY <1>3, <1>8, <3>1, SMT DEF InYear
  <2> QED
    BY <1>9, <2>1, SMT
<1>11. IsThere(n, z, x)
  BY <1>8, <1>10 DEF IsThere
<1> QED
  BY <1>8, <1>9, <1>11 DEF n

\* A date is the same when it was converted there and back: no day is lost or gained by
\* what the app keeps.
THEOREM DatesKeep == \A j \in Dates : isoToJalali(jalaliToIso(j)) = j
<1> SUFFICES ASSUME NEW j \in Dates PROVE toJalali(toGregorian(j)) = j
  BY DEF isoToJalali, jalaliToIso
<1>1. PICK y \in Nat, x \in InYear :
        IsThere(Day(j) + 79, y, x) /\ toGregorian(j) = GregorianDay(1600 + y, x)
  BY There
<1>2. PICK k \in Nat, m \in 1..12, d \in 1..31 : IsOn(j, k, m, d)
  BY DateParts
<1>3. /\ j = <<979 + k, m, d>> /\ d \in 1..daysInMonth(979 + k, m)
      /\ Day(j) = YearDays(k) + DaysOfYear(m, d)
  BY <1>2 DEF IsOn
<1>4. y > 0 /\ x \in 0..(364 + Extra(1600 + y)) /\ DayCount(y, x) = Day(j) + 79
  BY <1>1, SMT DEF IsThere, InYear, Extra
<1>5. toJalali(toGregorian(j)) = JalaliDate(979, DayCount(y, x) - 79)
  BY <1>1, <1>4, CountedBack
<1>6. DayCount(y, x) - 79 = Day(j)
  BY <1>4, DateParts, SMT
<1>7. JalaliDate(979, YearDays(k) + DaysOfYear(m, d)) = <<979 + k, m, d>>
  BY <1>3, JalaliOfDays
<1> QED
  BY <1>3, <1>5, <1>6, <1>7

-----------------------------------------------------------------------------
\* A day later is a day more: the order of dates is that of their numbers.
LEMMA YearAfter ==
  ASSUME NEW k \in Nat
  PROVE  YearDays(k + 1) = YearDays(k) + YearLength(979 + k)
<1> DEFINE a == k \div 33
           b == k % 33
<1>1. a \in Nat /\ b \in 0..32 /\ k = 33 * a + b
  OBVIOUS
<1>2. YearDays(k) = 365 * k + 8 * a + (b + 3) \div 4
  BY <1>1 DEF YearDays
<1>3. YearDays(k + 1) = 365 * (k + 1) + 8 * ((k + 1) \div 33) + (((k + 1) % 33) + 3) \div 4
  BY SMT DEF YearDays
<1>4. IF b = 32 THEN (k + 1) \div 33 = a + 1 /\ (k + 1) % 33 = 0
      ELSE (k + 1) \div 33 = a /\ (k + 1) % 33 = b + 1
  BY <1>1, SMT
<1>5. (979 + k) % 33 = (22 + b) % 33
  BY <1>1
<1> HIDE DEF a, b
<1>6. isLeap(979 + k) <=> b % 4 = 0 /\ b < 32
  BY <1>1, <1>5 DEF isLeap
<1>7. YearLength(979 + k) = IF b % 4 = 0 /\ b < 32 THEN 366 ELSE 365
  BY <1>6 DEF YearLength
<1>8. CASE b = 32
  BY <1>1, <1>2, <1>3, <1>4, <1>7, <1>8, SMT
<1>9. CASE b < 32
  <2>1. (b + 4) \div 4 = (b + 3) \div 4 + (IF b % 4 = 0 THEN 1 ELSE 0)
    BY <1>1, SMT
  <2>2. YearDays(k + 1) = 365 * (k + 1) + 8 * a + (b + 4) \div 4
    BY <1>1, <1>3, <1>4, <1>9, SMT
  <2> QED
    BY <1>1, <1>2, <1>7, <1>9, <2>1, <2>2, SMT
<1> QED
  BY <1>1, <1>8, <1>9, SMT

LEMMA YearsLater ==
  ASSUME NEW k \in Nat, NEW l \in Nat, k <= l
  PROVE  YearDays(k) <= YearDays(l)
<1> DEFINE a == k \div 33
           b == k % 33
           p == l \div 33
           q == l % 33
<1>1. a \in Nat /\ b \in 0..32 /\ k = 33 * a + b /\ p \in Nat /\ q \in 0..32 /\ l = 33 * p + q
  OBVIOUS
<1>2. YearDays(k) = 365 * k + 8 * a + (b + 3) \div 4
      /\ YearDays(l) = 365 * l + 8 * p + (q + 3) \div 4
  BY <1>1 DEF YearDays
<1> HIDE DEF a, b, p, q
<1>3. (b + 3) \div 4 \in 0..8 /\ (q + 3) \div 4 \in 0..8
  BY <1>1, SMT
<1>4. a < p \/ (a = p /\ b <= q)
  BY <1>1, SMT
<1>5. b <= q => (b + 3) \div 4 <= (q + 3) \div 4
  BY <1>1, SMT
<1> QED
  BY <1>1, <1>2, <1>3, <1>4, <1>5, SMT

LEMMA InYearOrder ==
  ASSUME NEW y \in Int, NEW m \in 1..12, NEW d \in 1..daysInMonth(y, m),
         NEW n \in 1..12, NEW e \in 1..daysInMonth(y, n), m < n \/ (m = n /\ d < e)
  PROVE  DaysOfYear(m, d) < DaysOfYear(n, e)
<1>1. \A i \in 1..12 : daysInMonth(y, i) \in 29..31 /\ (i > 6 => daysInMonth(y, i) <= 30)
  <2> SUFFICES ASSUME NEW i \in 1..12
               PROVE  daysInMonth(y, i) \in 29..31 /\ (i > 6 => daysInMonth(y, i) <= 30)
    OBVIOUS
  <2>1. CASE i <= 6
    BY <2>1 DEF daysInMonth
  <2>2. CASE i \in 7..11
    BY <2>2 DEF daysInMonth
  <2>3. CASE i = 12
    BY <2>3 DEF daysInMonth
  <2> QED
    BY <2>1, <2>2, <2>3
<1>2. d \in 1..31 /\ e \in 1..31 /\ (m > 6 => d <= 30) /\ (n > 6 => e <= 30)
  BY <1>1
<1> QED
  BY <1>2, SMT DEF DaysOfYear

LEMMA DateOrder ==
  ASSUME NEW i \in Dates, NEW j \in Dates
  PROVE  (Before(i, j) \/ i = j \/ Before(j, i)) /\ ~Before(i, i)
<1>1. PICK y \in Int, m \in 1..12, d \in 1..31 : i = <<y, m, d>>
  BY DEF Dates
<1>2. PICK z \in Int, n \in 1..12, e \in 1..31 : j = <<z, n, e>>
  BY DEF Dates
<1> QED
  BY <1>1, <1>2, SMT DEF Before

LEMMA DayOrder ==
  ASSUME NEW i \in Dates, NEW j \in Dates
  PROVE  Before(i, j) <=> Day(i) < Day(j)
<1>1. ASSUME NEW g \in Dates, NEW h \in Dates, Before(g, h) PROVE Day(g) < Day(h)
  <2>1. PICK k \in Nat, m \in 1..12, d \in 1..31 : IsOn(g, k, m, d)
    BY DateParts
  <2>2. PICK l \in Nat, n \in 1..12, e \in 1..31 : IsOn(h, l, n, e)
    BY DateParts
  <2>3. /\ g = <<979 + k, m, d>> /\ d \in 1..daysInMonth(979 + k, m)
        /\ Day(g) = YearDays(k) + DaysOfYear(m, d)
    BY <2>1 DEF IsOn
  <2>4. /\ h = <<979 + l, n, e>> /\ e \in 1..daysInMonth(979 + l, n)
        /\ Day(h) = YearDays(l) + DaysOfYear(n, e)
    BY <2>2 DEF IsOn
  <2>5. /\ YearDays(k) \in Nat /\ DaysOfYear(m, d) \in Nat
        /\ YearDays(l) \in Nat /\ DaysOfYear(n, e) \in Nat /\ YearDays(k + 1) \in Nat
    <3>1. k + 1 \in Nat
      OBVIOUS
    <3> QED
      BY <3>1, DayIsNat
  <2>6. k < l \/ (k = l /\ (m < n \/ (m = n /\ d < e)))
    BY <1>1, <2>3, <2>4, SMT DEF Before
  <2>7. CASE k < l
    <3> DEFINE y == 979 + k
    <3>1. DaysOfYear(m, d) \in 0..(YearLength(y) - 1)
      <4>1. y \in Int /\ d \in 1..daysInMonth(y, m)
        BY <2>3
      <4> HIDE DEF y
      <4> QED
        BY <4>1, DayInYear
    <3>2. YearDays(k + 1) = YearDays(k) + YearLength(y)
      BY YearAfter
    <3>3. YearDays(k + 1) <= YearDays(l)
      BY <2>7, YearsLater
    <3>4. YearLength(y) \in {365, 366}
      BY DEF YearLength
    <3> HIDE DEF y
    <3> QED
      BY <2>3, <2>4, <2>5, <3>1, <3>2, <3>3, <3>4, SMT
  <2>8. CASE k = l
    <3> DEFINE y == 979 + k
    <3>1. y \in Int /\ d \in 1..daysInMonth(y, m) /\ e \in 1..daysInMonth(y, n)
      BY <2>3, <2>4, <2>8
    <3> HIDE DEF y
    <3>2. m < n \/ (m = n /\ d < e)
      BY <2>6, <2>8
    <3>3. DaysOfYear(m, d) < DaysOfYear(n, e)
      BY <3>1, <3>2, InYearOrder
    <3> QED
      BY <2>3, <2>4, <2>5, <2>8, <3>3, SMT
  <2> QED
    BY <2>6, <2>7, <2>8
<1>2. Before(i, j) \/ i = j \/ Before(j, i)
  BY DateOrder
<1>3. Day(i) \in Nat /\ Day(j) \in Nat
  BY DateParts
<1> QED
  BY <1>1, <1>2, <1>3, SMT

-----------------------------------------------------------------------------
\* Every number of a day from 980 on is that of a date: the one it is converted to.
LEMMA PartsOfYear ==
  ASSUME NEW y \in Int, NEW x \in 0..(YearLength(y) - 1)
  PROVE  \E m \in 1..12, d \in 1..31 :
           JalaliDay(y, x) = <<y, m, d>> /\ d \in 1..daysInMonth(y, m) /\ DaysOfYear(m, d) = x
<1>1. YearLength(y) \in {365, 366} /\ (YearLength(y) = 366 <=> isLeap(y))
  BY DEF YearLength
<1>2. x \in 0..365 /\ (x = 365 => isLeap(y))
  BY <1>1, SMT
<1>3. CASE x < 186
  <2> DEFINE m == 1 + x \div 31
             d == 1 + (x % 31)
  <2>1. m \in 1..6 /\ d \in 1..31 /\ x = 31 * (m - 1) + d - 1
    BY <1>2, <1>3, SMT
  <2>2. JalaliDay(y, x) = <<y, m, d>>
    BY <1>3, SMT DEF JalaliDay
  <2> HIDE DEF m, d
  <2>3. daysInMonth(y, m) = 31
    BY <2>1 DEF daysInMonth
  <2>4. DaysOfYear(m, d) = x
    BY <2>1, SMT DEF DaysOfYear
  <2>5. m \in 1..12 /\ d \in 1..daysInMonth(y, m)
    BY <2>1, <2>3, SMT
  <2> QED
    BY <2>1, <2>2, <2>4, <2>5
<1>4. CASE x >= 186
  <2> DEFINE m == 7 + (x - 186) \div 30
             d == 1 + ((x - 186) % 30)
  <2>1. m \in 7..12 /\ d \in 1..30 /\ x = 30 * (m - 7) + 186 + d - 1 /\ (m = 12 /\ d = 30 => x = 365)
    BY <1>2, <1>4, SMT
  <2>2. JalaliDay(y, x) = <<y, m, d>>
    BY <1>2, <1>4, SMT DEF JalaliDay
  <2> HIDE DEF m, d
  <2>3. daysInMonth(y, m) = IF m = 12 /\ ~isLeap(y) THEN 29 ELSE 30
    <3>1. CASE m \in 7..11
      BY <3>1 DEF daysInMonth
    <3>2. CASE m = 12
      BY <3>2 DEF daysInMonth
    <3> QED
      BY <2>1, <3>1, <3>2, SMT
  <2>4. DaysOfYear(m, d) = x
    BY <2>1, SMT DEF DaysOfYear
  <2>5. d \in 1..daysInMonth(y, m)
    <3>1. CASE m = 12 /\ ~isLeap(y)
      <4>1. d # 30
        BY <1>2, <2>1, <3>1
      <4> QED
        BY <2>1, <2>3, <3>1, <4>1, SMT
    <3>2. CASE ~(m = 12 /\ ~isLeap(y))
      BY <2>1, <2>3, <3>2, SMT
    <3> QED
      BY <3>1, <3>2
  <2>6. m \in 1..12 /\ d \in 1..31
    BY <2>1, SMT
  <2> QED
    BY <2>2, <2>4, <2>5, <2>6
<1> QED
  BY <1>2, <1>3, <1>4, SMT

\* The year of a day is counted in thirty three, in four and in single years.
IsYearOf(n, k, x) == k > 0 /\ n = YearDays(k) + x /\ x < YearLength(979 + k)

LEMMA YearOfDay ==
  ASSUME NEW n \in Nat, n >= 366
  PROVE  \E k \in Nat, x \in 0..365 : IsYearOf(n, k, x)
<1> DEFINE a == n \div 12053
           r == n % 12053
           c == r \div 1461
           s == r % 1461
           e == IF s > 365 THEN (s - 1) \div 365 ELSE 0
           x == IF s > 365 THEN (s - 1) % 365 ELSE s
           k == 33 * a + 4 * c + e
<1>1. a \in Nat /\ r \in Nat /\ r <= 12052 /\ n = 12053 * a + r
  BY SMT
<1> HIDE DEF a, r
<1>2. c \in 0..8 /\ s \in Nat /\ s <= 1460 /\ r = 1461 * c + s /\ (c = 8 => s <= 364)
  BY <1>1, SMT
<1> HIDE DEF c, s
<1>3. /\ e \in 0..3 /\ x \in 0..365 /\ s = 365 * e + (IF e = 0 THEN 0 ELSE 1) + x
      /\ (x = 365 => e = 0)
  BY <1>2, SMT
<1> HIDE DEF e, x
<1>4. k \in Nat /\ 4 * c + e <= 32
  <2>1. c = 8 => e = 0
    BY <1>2, <1>3, SMT
  <2> QED
    BY <1>1, <1>2, <1>3, <2>1, SMT
<1>5. k \div 33 = a /\ k % 33 = 4 * c + e
  BY <1>1, <1>2, <1>3, <1>4, SMT
<1>6. (4 * c + e + 3) \div 4 = c + (IF e = 0 THEN 0 ELSE 1)
  BY <1>2, <1>3, SMT
<1>7. YearDays(k) = 365 * k + a * 8 + (4 * c + e + 3) \div 4
  BY <1>5 DEF YearDays
<1>8. YearDays(k) = 12053 * a + 1461 * c + 365 * e + (IF e = 0 THEN 0 ELSE 1)
  BY <1>1, <1>2, <1>3, <1>6, <1>7, SMT
<1>9. n = YearDays(k) + x
  BY <1>1, <1>2, <1>3, <1>8, SMT
<1>10. (979 + k) % 33 = (22 + (4 * c + e)) % 33
  BY <1>4, <1>5, SMT
<1> HIDE DEF k
<1>11. x < YearLength(979 + k)
  <2>1. CASE x <= 364
    BY <1>3, <2>1, SMT DEF YearLength
  <2>2. CASE x = 365
    <3>1. e = 0 /\ c < 8
      BY <1>2, <1>3, <2>2, SMT
    <3>2. isLeap(979 + k)
      BY <1>2, <1>10, <3>1, SMT DEF isLeap
    <3>3. YearLength(979 + k) = 366
      BY <3>2 DEF YearLength
    <3> QED
      BY <2>2, <3>3
  <2> QED
    BY <1>3, <2>1, <2>2, SMT
<1>12. k > 0
  <2>1. CASE k = 0
    <3>1. YearDays(k) = 0
      BY <2>1, SMT DEF YearDays
    <3> QED
      BY <1>3, <1>9, <3>1, SMT
  <2> QED
    BY <1>4, <2>1, SMT
<1>13. IsYearOf(n, k, x)
  BY <1>9, <1>11, <1>12 DEF IsYearOf
<1> QED
  BY <1>3, <1>4, <1>13

LEMMA DateOfDay ==
  ASSUME NEW n \in Nat, n >= 366
  PROVE  JalaliDate(979, n) \in Dates /\ Day(JalaliDate(979, n)) = n
<1>0. PICK k \in Nat, x \in 0..365 : IsYearOf(n, k, x)
  BY YearOfDay
<1>1. k > 0 /\ n = YearDays(k) + x /\ x < YearLength(979 + k)
  BY <1>0 DEF IsYearOf
<1> DEFINE y == 979 + k
<1>2. y \in Int /\ y > 979 /\ y - 979 = k
  BY <1>1
<1>3. x \in 0..(YearLength(y) - 1)
  <2>1. YearLength(y) \in {365, 366}
    BY DEF YearLength
  <2> HIDE DEF y
  <2> QED
    BY <1>1, <2>1, SMT DEF y
<1>4. JalaliDate(979, n) = JalaliDay(y, x)
  BY <1>1, <1>3, YearFound
<1> HIDE DEF y
<1>5. PICK m \in 1..12, d \in 1..31 :
        JalaliDay(y, x) = <<y, m, d>> /\ d \in 1..daysInMonth(y, m) /\ DaysOfYear(m, d) = x
  BY <1>2, <1>3, PartsOfYear
<1>6. <<y, m, d>> \in Dates
  BY <1>2, <1>5 DEF Dates, IsDate
<1>7. Day(<<y, m, d>>) = YearDays(k) + x
  BY <1>2, <1>5 DEF Day
<1> QED
  BY <1>1, <1>4, <1>5, <1>6, <1>7

\* The number of a date's day in the other calendar.
LEMMA DatesStart ==
  ASSUME NEW j \in Dates PROVE Day(j) \in Nat /\ Day(j) >= 366
<1>1. PICK k \in Nat, m \in 1..12, d \in 1..31 : IsOn(j, k, m, d)
  BY DateParts
<1>2. k > 0 /\ Day(j) = YearDays(k) + DaysOfYear(m, d)
  BY <1>1 DEF IsOn
<1>3. YearDays(k) \in Nat /\ DaysOfYear(m, d) \in Nat
  BY DayIsNat
<1>4. YearDays(1) <= YearDays(k)
  BY <1>2, YearsLater, SMT
<1>5. YearDays(1) = 366
  BY SMT DEF YearDays
<1> QED
  BY <1>2, <1>3, <1>4, <1>5, SMT

-----------------------------------------------------------------------------
\* The days the Date of JavaScript counts, whose years begin in March.
MarchYears(y) == 365 * y + y \div 4 - y \div 100 + y \div 400

\* Day x of a year is day z of one that began in March y, in its month p of which it is day d.
IsMarch(year, m, d, y, p, z) ==
  /\ p = (m + 9) % 12 /\ year = y + (IF m <= 2 THEN 1 ELSE 0)
  /\ z = (153 * p + 2) \div 5 + d - 1 /\ (z = 365 => LeapGregorian(y + 1))
  /\ MarchDate(y, z) = <<year, m, d>>

LEMMA MonthLengths ==
  ASSUME NEW year, NEW x \in 0..(364 + Extra(year)), NEW m \in 1..12, NEW d \in 1..31,
         d = x + 1 - Starts(year, m), m < 12 => x < Starts(year, m + 1)
  PROVE  /\ m \in {4, 6, 9, 11} => d <= 30
         /\ m = 2 => d <= 28 + Extra(year)
<1> DEFINE b == Extra(year)
           s(i) == Starts(year, i)
<1>1. /\ b \in {0, 1} /\ s(1) = 0 /\ s(2) = 31 /\ s(3) = 59 + b /\ s(4) = 90 + b /\ s(5) = 120 + b
      /\ s(6) = 151 + b /\ s(7) = 181 + b /\ s(8) = 212 + b /\ s(9) = 243 + b /\ s(10) = 273 + b
      /\ s(11) = 304 + b /\ s(12) = 334 + b
  BY MonthStarts
<1>2. x \in 0..(364 + b) /\ d = x + 1 - s(m) /\ (m < 12 => x < s(m + 1))
  OBVIOUS
<1> HIDE DEF s, b
<1>3. (m \in {4, 6, 9, 11} => d <= 30) /\ (m = 2 => d <= 28 + b)
  BY <1>1, <1>2, SMT
<1> QED
  BY <1>3 DEF b

Months == 0..11

\* Day d of a month of a year that has it, and the year that began in March.
IsDayOf(year, m, d, y) ==
  /\ year = y + (IF m <= 2 THEN 1 ELSE 0)
  /\ m \in {4, 6, 9, 11} => d <= 30
  /\ m = 2 => d <= 28 + Extra(year)

LEMMA MarchMonth ==
  ASSUME NEW year, NEW m \in 1..12, NEW d \in 1..31, NEW y \in Int, IsDayOf(year, m, d, y)
  PROVE  \E p \in Months, z \in InYear : IsMarch(year, m, d, y, p, z)
<1> DEFINE p == (m + 9) % 12
           z == (153 * p + 2) \div 5 + d - 1
<1>0. /\ year = y + (IF m <= 2 THEN 1 ELSE 0)
      /\ m \in {4, 6, 9, 11} => d <= 30
      /\ m = 2 => d <= 28 + Extra(year)
  BY DEF IsDayOf
<1>1. p \in 0..11 /\ m = IF p < 10 THEN p + 3 ELSE p - 9
  BY SMT
<1>2. p = 0 \/ p = 1 \/ p = 2 \/ p = 3 \/ p = 4 \/ p = 5 \/ p = 6 \/ p = 7 \/ p = 8 \/ p = 9
      \/ p = 10 \/ p = 11
  BY <1>1, SMT
<1>3. Extra(year) \in {0, 1}
  BY DEF Extra
<1>4. d <= 30 \/ p \in {0, 2, 4, 5, 7, 9, 10}
  BY <1>0, <1>1, <1>3, SMT
<1>5. p = 11 => d <= 28 + Extra(year)
  BY <1>0, <1>1, SMT
<1>6. z \in 0..365 /\ (z = 365 => p = 11 /\ d = 29)
  <2> HIDE DEF p
  <2> QED
    BY <1>2, <1>3, <1>5, SMT
<1>7. (5 * z + 2) \div 153 = p
  <2> HIDE DEF p
  <2> QED
    BY <1>2, <1>3, <1>4, <1>5, SMT
<1>8. z = 365 => LeapGregorian(y + 1)
  <2>1. SUFFICES ASSUME z = 365 PROVE LeapGregorian(y + 1)
    OBVIOUS
  <2>2. p = 11 /\ d = 29
    BY <1>6, <2>1
  <2>3. Extra(year) = 1
    BY <1>3, <1>5, <2>2, SMT
  <2>4. m <= 2
    BY <1>1, <2>2
  <2> QED
    BY <1>0, <2>3, <2>4 DEF Extra
<1>9. MarchDate(y, z) = <<year, m, d>>
  <2>1. z - (153 * p + 2) \div 5 + 1 = d
    BY <1>1, SMT
  <2> HIDE DEF p, z
  <2>2. (IF p < 10 THEN p + 3 ELSE p - 9) = m
    BY <1>1
  <2>3. year = y + (IF m <= 2 THEN 1 ELSE 0)
    BY <1>0
  <2> QED
    BY <1>7, <2>1, <2>2, <2>3 DEF MarchDate
<1>10. IsMarch(year, m, d, y, p, z)
  BY <1>0, <1>8, <1>9 DEF IsMarch
<1>11. p \in Months /\ z \in InYear
  BY <1>1, <1>6 DEF Months, InYear
<1> QED
  BY <1>10, <1>11

\* Year y, counted from an era of 400, in its centuries, four and single years.
LEMMA MarchIn400 ==
  ASSUME NEW c \in 0..3, NEW i \in 0..24, NEW e \in 0..3
  PROVE  LET y == 100 * c + 4 * i + e
         IN 365 * y + y \div 4 - y \div 100 = 36524 * c + 1461 * i + 365 * e
<1> DEFINE y == 100 * c + 4 * i + e
<1>1. y \div 4 = 25 * c + i
  BY SMT
<1>2. y \div 100 = c
  BY SMT
<1>3. 365 * y + y \div 4 - y \div 100 = 365 * y + (25 * c + i) - c
  BY <1>1, <1>2, SMT
<1> QED
  BY <1>3, SMT

LEMMA YearOfEra ==
  ASSUME NEW c \in 0..3, NEW i \in 0..24, NEW e \in 0..3, NEW z \in 0..365,
         z = 365 => e = 3 /\ (i = 24 => c = 3)
  PROVE  LET y   == 100 * c + 4 * i + e
             doe == 36524 * c + 1461 * i + 365 * e + z
         IN /\ doe \in Nat /\ doe < 146097
            /\ (doe - doe \div 1460 + doe \div 36524 - doe \div 146096) \div 365 = y
<1> DEFINE y   == 100 * c + 4 * i + e
           doe == 36524 * c + 1461 * i + 365 * e + z
           h   == 1461 * i + 365 * e + z
           w   == 24 * c + i + 365 * e + z
<1>1. doe = 36524 * c + h /\ h \in Nat /\ h <= 36524 /\ (h = 36524 => c = 3) /\ c \in 0..3
  BY SMT
<1>2. doe = 1460 * (25 * c + i) + w /\ w \in Nat /\ w <= 1556
  BY SMT
<1>3. z - w \div 1460 >= 0 /\ z - w \div 1460 <= 364 /\ w \div 1460 \in {0, 1}
  <2>1. w <= 1556 /\ w >= 0
    BY <1>2
  <2>2. z = 365 => w >= 1460
    BY SMT
  <2>3. z = 0 => w < 1460
    BY SMT
  <2> HIDE DEF w
  <2> QED
    BY <1>2, <2>1, <2>2, <2>3, SMT
<1>4. 365 * y + z = 1460 * (25 * c + i) + w - 25 * c - i + c
  BY SMT
<1> HIDE DEF h, w
<1>5. doe \div 1460 = 25 * c + i + w \div 1460
  <2> HIDE DEF doe
  <2> QED
    BY <1>2, SMT
<1>6. doe \in Nat /\ doe < 146097 /\ doe \div 36524 - doe \div 146096 = c
  <2> HIDE DEF doe
  <2>1. doe \in Nat /\ doe <= 146096
    BY <1>1, SMT
  <2>2. CASE h < 36524
    <3>1. doe \div 36524 = c
      BY <1>1, <2>2, SMT
    <3>2. doe \div 146096 = 0
      BY <1>1, <2>2, SMT
    <3> QED
      BY <2>1, <3>1, <3>2, SMT
  <2>3. CASE h = 36524
    <3>1. doe = 146096 /\ c = 3
      BY <1>1, <2>3, SMT
    <3> QED
      BY <3>1, SMT
  <2> QED
    BY <1>1, <2>1, <2>2, <2>3, SMT
<1>7. doe - doe \div 1460 + doe \div 36524 - doe \div 146096 = 365 * y + (z - w \div 1460)
  <2>1. y \in Int /\ c \in Int /\ i \in Int /\ z \in Int
    BY SMT
  <2>2. doe \div 36524 \in Int /\ doe \div 146096 \in Int /\ doe \div 1460 \in Int
    BY <1>6, SMT
  <2> HIDE DEF doe, y
  <2> QED
    BY <1>2, <1>3, <1>4, <1>5, <1>6, <2>1, <2>2, SMT
<1>8. (365 * y + (z - w \div 1460)) \div 365 = y
  <2>1. y \in Int
    BY SMT
  <2> HIDE DEF y
  <2> QED
    BY <1>3, <2>1, By365, SMT
<1> QED
  BY <1>6, <1>7, <1>8

LEMMA CivilAt ==
  ASSUME NEW n, NEW doe, NEW q, NEW y, n % 146097 = doe, n \div 146097 = q,
         (doe - doe \div 1460 + doe \div 36524 - doe \div 146096) \div 365 = y
  PROVE  CivilDate(n) = MarchDate(y + 400 * q, doe - (365 * y + y \div 4 - y \div 100))
<1>1. CivilDate(n) =
        MarchDate((doe - doe \div 1460 + doe \div 36524 - doe \div 146096) \div 365 + 400 * q,
                  doe - (365 * ((doe - doe \div 1460 + doe \div 36524 - doe \div 146096) \div 365)
                         + ((doe - doe \div 1460 + doe \div 36524 - doe \div 146096) \div 365) \div 4
                         - ((doe - doe \div 1460 + doe \div 36524 - doe \div 146096) \div 365) \div 100))
  BY DEF CivilDate
<1> QED
  BY <1>1

LEMMA CivilOfMarch ==
  ASSUME NEW y \in Nat, NEW z \in 0..365, z = 365 => LeapGregorian(y + 1)
  PROVE  CivilDate(MarchYears(y) + z) = MarchDate(y, z)
<1> DEFINE q == y \div 400
           v == y % 400
           c == v \div 100
           i == (v % 100) \div 4
           e == v % 4
           u == 100 * c + 4 * i + e
           doe == 36524 * c + 1461 * i + 365 * e + z
           n == MarchYears(y) + z
<1>1. q \in Nat /\ v \in Nat /\ v < 400 /\ y = 400 * q + v
  BY SMT
<1> HIDE DEF q, v
<1>2. c \in 0..3 /\ i \in 0..24 /\ e \in 0..3 /\ v = u
  BY <1>1, SMT
<1>3. z = 365 => e = 3 /\ (i = 24 => c = 3)
  <2> SUFFICES ASSUME z = 365 PROVE e = 3 /\ (i = 24 => c = 3)
    OBVIOUS
  <2>1. (y + 1) % 4 = 0 /\ ((y + 1) % 100 = 0 => (y + 1) % 400 = 0)
    BY SMT DEF LeapGregorian
  <2>2. (y + 1) % 4 = (v + 1) % 4 /\ (y + 1) % 100 = (v + 1) % 100
        /\ (y + 1) % 400 = (v + 1) % 400
    BY <1>1, SMT
  <2> HIDE DEF c, i, e
  <2>3. (v + 1) % 4 = (e + 1) % 4
    BY <1>2, SMT
  <2>4. e = 3
    BY <1>2, <2>1, <2>2, <2>3, SMT
  <2>5. i = 24 => v + 1 = 100 * (c + 1)
    BY <1>2, <2>4, SMT
  <2>6. i = 24 => c = 3
    BY <1>2, <2>1, <2>2, <2>5, SMT
  <2> QED
    BY <2>4, <2>6
<1> HIDE DEF c, i, e
<1>4. 365 * u + u \div 4 - u \div 100 = 36524 * c + 1461 * i + 365 * e
  BY <1>2, MarchIn400
<1>5. MarchYears(y) = 146097 * q + (365 * v + v \div 4 - v \div 100)
  <2>1. y \div 4 = 100 * q + v \div 4
    BY <1>1, SMT
  <2>2. y \div 100 = 4 * q + v \div 100
    BY <1>1, SMT
  <2>3. y \div 400 = q
    BY <1>1, SMT
  <2>4. v \div 4 \in Int /\ v \div 100 \in Int
    BY <1>1, SMT
  <2> QED
    BY <1>1, <2>1, <2>2, <2>3, <2>4, SMT DEF MarchYears
<1>6. /\ doe \in Nat /\ doe < 146097
      /\ (doe - doe \div 1460 + doe \div 36524 - doe \div 146096) \div 365 = u
  BY <1>2, <1>3, YearOfEra
<1>7. doe = 365 * v + v \div 4 - v \div 100 + z
  BY <1>2, <1>4, SMT
<1>8. n = 146097 * q + doe
  <2>1. v \div 4 \in Int /\ v \div 100 \in Int
    BY <1>1, SMT
  <2> HIDE DEF doe
  <2> QED
    BY <1>1, <1>5, <1>6, <1>7, <2>1, SMT
<1> HIDE DEF doe, n, u
<1>9. n % 146097 = doe /\ n \div 146097 = q
  BY <1>1, <1>6, <1>8, SMT
<1>10. CivilDate(n) = MarchDate(v + 400 * q, doe - (365 * v + v \div 4 - v \div 100))
  BY <1>2, <1>6, <1>9, CivilAt
<1>11. v + 400 * q = y /\ doe - (365 * v + v \div 4 - v \div 100) = z
  <2>1. v \div 4 \in Int /\ v \div 100 \in Int
    BY <1>1, SMT
  <2> QED
    BY <1>1, <1>6, <1>7, <2>1, SMT
<1> QED
  BY <1>10, <1>11 DEF n

LEMMA MarchOf ==
  ASSUME NEW y \in Nat
  PROVE  MarchYears(1599 + y) = 365 * y + 584022 + LeapDays(y)
<1>1. (1599 + y) \div 4 = 399 + (y + 3) \div 4
  BY SMT
<1>2. (1599 + y) \div 100 = 15 + (y + 99) \div 100
  BY SMT
<1>3. (1599 + y) \div 400 = 3 + (y + 399) \div 400
  BY SMT
<1>4. (y + 3) \div 4 \in Int /\ (y + 99) \div 100 \in Int /\ (y + 399) \div 400 \in Int
  BY SMT
<1> QED
  BY <1>1, <1>2, <1>3, <1>4, SMT DEF MarchYears, LeapDays

\* A day of the Gregorian year 1600 + y is counted alike by both conversions, and its
\* number is turned into it again.
LEMMA NumberOfDay ==
  ASSUME NEW y \in Nat, y > 0, NEW x \in 0..(364 + Extra(1600 + y))
  PROVE  LET g == GregorianDay(1600 + y, x)
         IN /\ DayNumber(g) = DayCount(y, x) + 584328
            /\ CivilDate(DayNumber(g)) = g
<1> DEFINE year == 1600 + y
           g == GregorianDay(year, x)
           m == Cardinality({i \in 1..12 : Starts(year, i) <= x})
           s == Starts(year, m)
           d == x + 1 - s
           b == Extra(year)
           t == IF m <= 2 THEN 1599 + y ELSE 1600 + y
<1>1. /\ m \in 1..12 /\ s <= x /\ s \in Int /\ x - s <= 30
      /\ (m < 12 => x < Starts(year, m + 1)) /\ g = <<year, m, d>>
  BY MonthOf
<1>2. b \in {0, 1} /\ x \in 0..(364 + b)
  BY DEF Extra
<1> HIDE DEF m
<1>3. d \in 1..31 /\ x = s + d - 1 /\ d = x + 1 - Starts(year, m)
  <2>1. d = x + 1 - Starts(year, m)
    OBVIOUS
  <2>2. x \in Int
    BY <1>2
  <2> HIDE DEF s, b
  <2>3. d \in 1..31 /\ x = s + d - 1
    BY <1>1, <2>2, SMT
  <2> QED
    BY <2>1, <2>3
<1>4. (m \in {4, 6, 9, 11} => d <= 30) /\ (m = 2 => d <= 28 + Extra(year))
  <2>1. d \in 1..31 /\ d = x + 1 - Starts(year, m) /\ x \in 0..(364 + Extra(year))
    BY <1>3
  <2>2. m \in 1..12 /\ (m < 12 => x < Starts(year, m + 1))
    BY <1>1
  <2> HIDE DEF d, s, g, b, t, year
  <2> QED
    BY <2>1, <2>2, MonthLengths
<1>5. t \in Nat /\ year = t + (IF m <= 2 THEN 1 ELSE 0)
  BY <1>1, SMT
<1> HIDE DEF d
<1>6. PICK p \in Months, z \in InYear : IsMarch(year, m, d, t, p, z)
  <2>1. m \in 1..12 /\ d \in 1..31 /\ t \in Int
    BY <1>1, <1>3, <1>5
  <2> HIDE DEF t, s, g, b, year
  <2>2. IsDayOf(year, m, d, t)
    BY <1>4, <1>5 DEF IsDayOf
  <2> QED
    BY <2>1, <2>2, MarchMonth
<1>7. /\ p \in 0..11 /\ z \in 0..365
      /\ p = (m + 9) % 12 /\ z = (153 * p + 2) \div 5 + d - 1
      /\ (z = 365 => LeapGregorian(t + 1)) /\ MarchDate(t, z) = <<year, m, d>>
  BY <1>6 DEF IsMarch, Months, InYear
<1>8. DayNumber(g) = MarchYears(t) + z
  <2>1. g[1] = year /\ g[2] = m /\ g[3] = d
    BY <1>1
  <2>2. t = IF m <= 2 THEN year - 1 ELSE year
    BY <1>1, SMT
  <2>3. DayNumber(g) = 365 * t + t \div 4 - t \div 100 + t \div 400 + (153 * p + 2) \div 5 + d - 1
    <3> HIDE DEF g, t, year
    <3> QED
      BY <1>7, <2>1, <2>2 DEF DayNumber
  <2>4. t \div 4 \in Int /\ t \div 100 \in Int /\ t \div 400 \in Int
    BY <1>5, SMT
  <2> HIDE DEF g, t, year
  <2> QED
    BY <1>3, <1>5, <1>7, <2>3, <2>4, SMT DEF MarchYears
<1>9. CivilDate(MarchYears(t) + z) = <<year, m, d>>
  <2> HIDE DEF t, year
  <2> QED
    BY <1>5, <1>7, CivilOfMarch
<1>10. MarchYears(t) + z = DayCount(y, x) + 584328
  <2>1. LeapDays(y) \in Int /\ LeapDays(y + 1) = LeapDays(y) + b
    BY LeapStep DEF Extra
  <2>2. MarchYears(t) = 365 * y + LeapDays(y) + (IF m <= 2 THEN 584022 ELSE 584387 + b)
    <3>1. MarchYears(1599 + y) = 365 * y + 584022 + LeapDays(y)
      BY MarchOf
    <3>2. MarchYears(1599 + (y + 1)) = 365 * (y + 1) + 584022 + LeapDays(y + 1)
      <4>1. y + 1 \in Nat
        OBVIOUS
      <4> QED
        BY <4>1, MarchOf
    <3>3. 1599 + (y + 1) = 1600 + y
      OBVIOUS
    <3> HIDE DEF year, b
    <3> QED
      BY <1>2, <2>1, <3>1, <3>2, <3>3, SMT
  <2>3. z = x + (IF m <= 2 THEN 306 ELSE -59 - b)
    <3> DEFINE v(i) == Starts(year, i)
    <3>1. /\ b \in {0, 1} /\ v(1) = 0 /\ v(2) = 31 /\ v(3) = 59 + b /\ v(4) = 90 + b /\ v(5) = 120 + b
          /\ v(6) = 151 + b /\ v(7) = 181 + b /\ v(8) = 212 + b /\ v(9) = 243 + b /\ v(10) = 273 + b
          /\ v(11) = 304 + b /\ v(12) = 334 + b
      BY MonthStarts
    <3>2. s = v(m) /\ x \in Int
      BY <1>2
    <3>3. m = 1 \/ m = 2 \/ m = 3 \/ m = 4 \/ m = 5 \/ m = 6 \/ m = 7 \/ m = 8 \/ m = 9
          \/ m = 10 \/ m = 11 \/ m = 12
      BY <1>1
    <3>4. z = (153 * ((m + 9) % 12) + 2) \div 5 + (x - s)
      <4>1. z = (153 * ((m + 9) % 12) + 2) \div 5 + d - 1 /\ d = x + 1 - s
        BY <1>3, <1>7
      <4>2. s \in Int /\ m \in Int
        BY <1>1
      <4> HIDE DEF v, s, b, year, t
      <4> QED
        BY <3>2, <4>1, <4>2, SMT
    <3> HIDE DEF v, s, b, year, t
    <3> QED
      BY <1>2, <3>1, <3>2, <3>3, <3>4, SMT
  <2>4. x \in Int
    BY <1>2
  <2> HIDE DEF t, b, year
  <2> QED
    BY <1>2, <2>1, <2>2, <2>3, <2>4, SMT DEF DayCount
<1> QED
  BY <1>1, <1>8, <1>9, <1>10

-----------------------------------------------------------------------------
\* The dates the app keeps, in their order and with their numbers.
LEMMA LeapDaysLater ==
  ASSUME NEW y \in Nat, NEW z \in Nat, y <= z
  PROVE  LeapDays(y) <= LeapDays(z)
<1> DEFINE p == (y + 3) \div 4
           q == (z + 3) \div 4
<1>1. p \in Nat /\ q \in Nat /\ p <= q
  BY SMT
<1>2. (y + 99) \div 100 = (p + 24) \div 25 /\ (z + 99) \div 100 = (q + 24) \div 25
  BY SMT
<1>3. (y + 399) \div 400 <= (z + 399) \div 400
  BY SMT
<1>4. (y + 399) \div 400 \in Int /\ (z + 399) \div 400 \in Int
  BY SMT
<1> HIDE DEF p, q
<1>5. (q + 24) \div 25 - (p + 24) \div 25 <= q - p
  BY <1>1, SMT
<1>6. (q + 24) \div 25 \in Int /\ (p + 24) \div 25 \in Int
  BY <1>1, SMT
<1>7. LeapDays(y) = p - (p + 24) \div 25 + (y + 399) \div 400
      /\ LeapDays(z) = q - (q + 24) \div 25 + (z + 399) \div 400
  BY <1>2 DEF LeapDays, p, q
<1> QED
  BY <1>1, <1>3, <1>4, <1>5, <1>6, <1>7, SMT

LEMMA CountOrder ==
  ASSUME NEW y \in Nat, NEW x \in InYear, NEW z \in Nat, NEW w \in InYear,
         x <= 364 + Extra(1600 + y), y < z
  PROVE  DayCount(y, x) < DayCount(z, w)
<1>1. LeapDays(y) \in Int /\ LeapDays(y + 1) = LeapDays(y) + Extra(1600 + y)
  BY LeapStep DEF Extra
<1>2. LeapDays(z) \in Int
  BY LeapStep
<1>3. LeapDays(y + 1) <= LeapDays(z)
  <2>1. y + 1 \in Nat /\ y + 1 <= z
    OBVIOUS
  <2> QED
    BY <2>1, LeapDaysLater
<1>4. Extra(1600 + y) \in {0, 1}
  BY DEF Extra
<1>5. x \in Nat /\ w \in Nat
  BY DEF InYear
<1> QED
  BY <1>1, <1>2, <1>3, <1>4, <1>5, SMT DEF DayCount

LEMMA DayOrderInYear ==
  ASSUME NEW year, NEW x \in InYear, NEW w \in InYear, x < w, w <= 364 + Extra(year)
  PROVE  Before(GregorianDay(year, x), GregorianDay(year, w))
<1> DEFINE m == Cardinality({i \in 1..12 : Starts(year, i) <= x})
           n == Cardinality({i \in 1..12 : Starts(year, i) <= w})
           b == Extra(year)
           s(i) == Starts(year, i)
<1>1. x \in 0..(364 + Extra(year)) /\ w \in 0..(364 + Extra(year)) /\ x \in Int /\ w \in Int
  <2>1. Extra(year) \in {0, 1}
    BY DEF Extra
  <2> QED
    BY <2>1, SMT DEF InYear
<1>2. /\ m \in 1..12 /\ s(m) <= x /\ s(m) \in Int /\ (m < 12 => x < s(m + 1))
      /\ GregorianDay(year, x) = <<year, m, x + 1 - s(m)>>
  BY <1>1, MonthOf
<1>3. /\ n \in 1..12 /\ s(n) <= w /\ s(n) \in Int /\ (n < 12 => w < s(n + 1))
      /\ GregorianDay(year, w) = <<year, n, w + 1 - s(n)>>
  BY <1>1, MonthOf
<1> HIDE DEF m, n
<1>4. m <= n
  <2>1. /\ b \in {0, 1} /\ s(1) = 0 /\ s(2) = 31 /\ s(3) = 59 + b /\ s(4) = 90 + b /\ s(5) = 120 + b
        /\ s(6) = 151 + b /\ s(7) = 181 + b /\ s(8) = 212 + b /\ s(9) = 243 + b /\ s(10) = 273 + b
        /\ s(11) = 304 + b /\ s(12) = 334 + b
    BY MonthStarts
  <2> HIDE DEF s, b
  <2>2. \A i, j \in 1..12 : i <= j => s(i) <= s(j) /\ s(i) \in Int
    <3>1. \A i \in 1..12 : i = 1 \/ i = 2 \/ i = 3 \/ i = 4 \/ i = 5 \/ i = 6 \/ i = 7 \/ i = 8
                           \/ i = 9 \/ i = 10 \/ i = 11 \/ i = 12
      BY SMT
    <3> QED
      BY <2>1, <3>1, SMTT(30)
  <2>3. ASSUME n < m PROVE FALSE
    <3>1. n + 1 \in 1..12 /\ n + 1 <= m /\ w < s(n + 1)
      BY <1>2, <1>3, <2>3, SMT
    <3>2. s(n + 1) <= s(m) /\ s(n + 1) \in Int
      BY <1>2, <2>2, <3>1
    <3> QED
      BY <1>1, <1>2, <3>1, <3>2, SMT
  <2> QED
    BY <1>2, <1>3, <2>3, SMT
<1>5. m = n => x + 1 - s(m) < w + 1 - s(n)
  <2> HIDE DEF s
  <2> QED
    BY <1>1, <1>2, SMT
<1> DEFINE d == x + 1 - s(m)
           e == w + 1 - s(n)
<1>6. m < n \/ (m = n /\ d < e)
  <2>1. m \in Int /\ n \in Int
    BY <1>2, <1>3
  <2> QED
    BY <1>4, <1>5, <2>1
<1>7. GregorianDay(year, x) = <<year, m, d>> /\ GregorianDay(year, w) = <<year, n, e>>
  BY <1>2, <1>3
<1> HIDE DEF d, e
<1> QED
  BY <1>6, <1>7 DEF Before

LEMMA GregorianParts ==
  ASSUME NEW y \in Nat, NEW x \in InYear, x <= 364 + Extra(1600 + y)
  PROVE  GregorianDay(1600 + y, x) \in Int \X Int \X Int /\ GregorianDay(1600 + y, x)[1] = 1600 + y
<1> DEFINE year == 1600 + y
           m == Cardinality({i \in 1..12 : Starts(year, i) <= x})
<1>1. x \in 0..(364 + Extra(year)) /\ x \in Int /\ year \in Int
  <2>1. Extra(year) \in {0, 1}
    BY DEF Extra
  <2> QED
    BY <2>1, SMT DEF InYear
<1> HIDE DEF year
<1>2. /\ m \in 1..12 /\ Starts(year, m) \in Int
      /\ GregorianDay(year, x) = <<year, m, x + 1 - Starts(year, m)>>
  BY <1>1, MonthOf
<1> HIDE DEF m
<1>3. m \in Int /\ x + 1 - Starts(year, m) \in Int
  BY <1>1, <1>2, SMT
<1> QED
  BY <1>1, <1>2, <1>3 DEF year

LEMMA KeptOrder ==
  ASSUME NEW i \in Dates, NEW j \in Dates
  PROVE  Before(toGregorian(i), toGregorian(j)) <=> Day(i) < Day(j)
<1>1. ASSUME NEW g \in Dates, NEW h \in Dates, Day(g) < Day(h)
      PROVE  Before(toGregorian(g), toGregorian(h))
  <2>1. PICK y \in Nat, x \in InYear :
          IsThere(Day(g) + 79, y, x) /\ toGregorian(g) = GregorianDay(1600 + y, x)
    BY There
  <2>2. PICK z \in Nat, w \in InYear :
          IsThere(Day(h) + 79, z, w) /\ toGregorian(h) = GregorianDay(1600 + z, w)
    BY There
  <2>3. x <= 364 + Extra(1600 + y) /\ DayCount(y, x) = Day(g) + 79
    BY <2>1 DEF IsThere
  <2>4. w <= 364 + Extra(1600 + z) /\ DayCount(z, w) = Day(h) + 79
    BY <2>2 DEF IsThere
  <2>5. Day(g) \in Nat /\ Day(h) \in Nat
    BY DateParts
  <2>6. ~(z < y)
    <3> SUFFICES ASSUME z < y PROVE FALSE
      OBVIOUS
    <3>1. DayCount(z, w) < DayCount(y, x)
      BY <2>4, CountOrder
    <3> QED
      BY <1>1, <2>3, <2>4, <2>5, <3>1, SMT
  <2>7. CASE y < z
    <3>1. GregorianDay(1600 + y, x)[1] < GregorianDay(1600 + z, w)[1]
      BY <2>3, <2>4, <2>7, GregorianParts, SMT
    <3> QED
      BY <2>1, <2>2, <3>1 DEF Before
  <2>8. CASE y = z
    <3>1. x < w
      BY <1>1, <2>3, <2>4, <2>5, <2>8, LeapStep, SMT DEF DayCount, InYear
    <3> QED
      BY <2>1, <2>2, <2>4, <2>8, <3>1, DayOrderInYear
  <2> QED
    BY <2>6, <2>7, <2>8, SMT
<1>2. ASSUME NEW a \in Int \X Int \X Int, NEW b \in Int \X Int \X Int, Before(a, b)
      PROVE  a # b /\ ~Before(b, a)
  BY <1>2, SMT DEF Before
<1>3. toGregorian(i) \in Int \X Int \X Int /\ toGregorian(j) \in Int \X Int \X Int
  BY There, GregorianParts DEF IsThere
<1>4. Day(i) \in Nat /\ Day(j) \in Nat
  BY DateParts
<1>5. Day(i) = Day(j) => i = j
  BY DayOrder, DateOrder
<1>6. CASE Day(i) < Day(j)
  BY <1>1, <1>6
<1>7. CASE Day(j) < Day(i)
  BY <1>1, <1>2, <1>3, <1>4, <1>7, SMT
<1>8. CASE i = j
  BY <1>2, <1>3, <1>4, <1>8, SMT
<1> QED
  BY <1>4, <1>5, <1>6, <1>7, <1>8, SMT

\* What the Date of JavaScript makes of a date, and what of a number.
Epoch == 584407

LEMMA EpochIsNat == Epoch \in Nat
  BY SMT DEF Epoch

LEMMA Kept ==
  ASSUME NEW j \in Dates
  PROVE  /\ DayNumber(toGregorian(j)) = Day(j) + Epoch
         /\ CivilDate(Day(j) + Epoch) = toGregorian(j)
<1>1. PICK y \in Nat, x \in InYear :
        IsThere(Day(j) + 79, y, x) /\ toGregorian(j) = GregorianDay(1600 + y, x)
  BY There
<1>2. y > 0 /\ x \in 0..(364 + Extra(1600 + y)) /\ DayCount(y, x) = Day(j) + 79
  BY <1>1, SMT DEF IsThere, InYear, Extra
<1>3. /\ DayNumber(toGregorian(j)) = DayCount(y, x) + 584328
      /\ CivilDate(DayNumber(toGregorian(j))) = toGregorian(j)
  BY <1>1, <1>2, NumberOfDay
<1>4. Day(j) \in Nat
  BY DateParts
<1>5. DayNumber(toGregorian(j)) = Day(j) + Epoch
  BY <1>2, <1>3, <1>4, SMT DEF Epoch
<1> QED
  BY <1>3, <1>5

\* Adding days moves a date by as many days, back too as far as the dates go.
LEMMA DaysMoved ==
  ASSUME NEW j \in Dates, NEW n \in Int, Day(j) + n >= 366
  PROVE  addDays(j, n) \in Dates /\ Day(addDays(j, n)) = Day(j) + n
<1> DEFINE i == JalaliDate(979, Day(j) + n)
<1>1. Day(j) \in Nat
  BY DatesStart
<1>2. i \in Dates /\ Day(i) = Day(j) + n
  <2>1. Day(j) + n \in Nat /\ Day(j) + n >= 366
    BY <1>1
  <2> QED
    BY <2>1, DateOfDay
<1>3. DayNumber(toGregorian(j)) + n = Day(i) + Epoch
  BY <1>1, <1>2, Kept, EpochIsNat, SMT
<1> HIDE DEF i
<1>4. addDays(j, n) = toJalali(CivilDate(Day(i) + Epoch))
  BY <1>3 DEF addDays
<1>5. CivilDate(Day(i) + Epoch) = toGregorian(i)
  BY <1>2, Kept
<1>6. toJalali(toGregorian(i)) = i
  BY <1>2, DatesKeep DEF isoToJalali, jalaliToIso
<1> QED
  BY <1>2, <1>4, <1>5, <1>6

\* The date n days after one is n days after it: weeks and deadlines are counted in days
\* that there are.
THEOREM DaysAdded ==
  \A j \in Dates : \A n \in Nat : addDays(j, n) \in Dates /\ Day(addDays(j, n)) = Day(j) + n
<1>1. \A j \in Dates : \A n \in Nat : Day(j) + n >= 366 /\ n \in Int
  BY DatesStart
<1> QED
  BY <1>1, DaysMoved

LEMMA Weekdays ==
  ASSUME NEW i \in Dates, NEW j \in Dates
  PROVE  weekdayIndex(i) = weekdayIndex(j) <=> Day(i) % 7 = Day(j) % 7
<1> DEFINE Shift == Epoch + 3
<1>0. Shift \in Nat
  BY EpochIsNat
<1>1. Day(i) \in Nat /\ Day(j) \in Nat
  BY DateParts
<1>2. /\ weekdayIndex(i) = (((Day(i) + Shift) % 7) + 1) % 7
      /\ weekdayIndex(j) = (((Day(j) + Shift) % 7) + 1) % 7
  <2>1. DayNumber(toGregorian(i)) + 3 = Day(i) + Shift
        /\ DayNumber(toGregorian(j)) + 3 = Day(j) + Shift
    BY <1>1, Kept, EpochIsNat, SMT
  <2> QED
    BY <2>1 DEF weekdayIndex, getDay
<1> HIDE DEF Shift
<1> QED
  BY <1>0, <1>1, <1>2, SMT

-----------------------------------------------------------------------------
\* The steps of what repeats.
LEMMA LesserOf ==
  ASSUME NEW a \in Int, NEW b \in Int
  PROVE  Min({a, b}) = IF a <= b THEN a ELSE b
<1> DEFINE c == IF a <= b THEN a ELSE b
<1>1. c \in {a, b} /\ \A y \in {a, b} : c <= y
  OBVIOUS
<1>2. ASSUME NEW x \in {a, b}, \A y \in {a, b} : x <= y PROVE x = c
  BY <1>2
<1>3. Min({a, b}) = CHOOSE x \in {a, b} : \A y \in {a, b} : x <= y
  BY DEF Min
<1> HIDE DEF c
<1>4. c = CHOOSE x \in {a, b} : \A y \in {a, b} : x <= y
  BY <1>1, <1>2
<1> QED
  BY <1>3, <1>4 DEF c

LEMMA MonthLong ==
  ASSUME NEW y \in Int, NEW m \in 1..12
  PROVE  daysInMonth(y, m) \in 29..31
<1>1. CASE m <= 6
  BY <1>1 DEF daysInMonth
<1>2. CASE m \in 7..11
  BY <1>2 DEF daysInMonth
<1>3. CASE m = 12
  BY <1>3 DEF daysInMonth
<1> QED
  BY <1>1, <1>2, <1>3

\* The day of a date in another month.
DayIn(d, y, m) == IF d <= daysInMonth(y, m) THEN d ELSE daysInMonth(y, m)
MonthNumber(j) == 12 * j[1] + j[2]

LEMMA Fitted ==
  ASSUME NEW d \in 1..31, NEW y \in Int, y > 979, NEW m \in 1..12
  PROVE  /\ <<y, m, Min({d, daysInMonth(y, m)})>> = <<y, m, DayIn(d, y, m)>>
         /\ <<y, m, DayIn(d, y, m)>> \in Dates
<1>1. daysInMonth(y, m) \in 29..31
  BY MonthLong
<1>2. Min({d, daysInMonth(y, m)}) = DayIn(d, y, m)
  BY <1>1, LesserOf DEF DayIn
<1>3. DayIn(d, y, m) \in 1..31 /\ DayIn(d, y, m) \in 1..daysInMonth(y, m)
  BY <1>1 DEF DayIn
<1> QED
  BY <1>2, <1>3 DEF Dates, IsDate

LEMMA ADate ==
  ASSUME NEW j \in Dates
  PROVE  /\ j = <<j[1], j[2], j[3]>> /\ j[1] \in Int /\ j[1] > 979 /\ j[2] \in 1..12
         /\ j[3] \in 1..31 /\ j[3] \in 1..daysInMonth(j[1], j[2])
  BY DEF Dates, IsDate

LEMMA MonthlyStep ==
  ASSUME NEW j \in Dates, NEW n \in Nat, n > 0
  PROVE  LET i == stepJalali(j, "monthly", n)
         IN /\ i \in Dates /\ MonthNumber(i) = MonthNumber(j) + n
            /\ i[3] = DayIn(j[3], i[1], i[2])
<1> DEFINE index == j[1] * 12 + j[2] - 1 + n
           y == index \div 12
           m == (index % 12) + 1
           d == DayIn(j[3], y, m)
<1>0. j[1] \in Int /\ j[1] > 979 /\ j[2] \in 1..12 /\ j[3] \in 1..31
  BY ADate
<1>1. y \in Int /\ y > 979 /\ m \in 1..12 /\ 12 * y + m = 12 * j[1] + j[2] + n
  <2>1. index \in Int /\ index + 1 = 12 * j[1] + j[2] + n /\ index >= 11760
    BY <1>0, SMT
  <2> HIDE DEF index
  <2>2. y \in Int /\ m \in 1..12 /\ 12 * y + m = index + 1 /\ y >= 980
    BY <2>1, SMT
  <2> QED
    BY <2>1, <2>2
<1>2. stepJalali(j, "monthly", n) = <<y, m, Min({j[3], daysInMonth(y, m)})>>
  BY DEF stepJalali
<1> HIDE DEF y, m
<1>3. stepJalali(j, "monthly", n) = <<y, m, d>> /\ <<y, m, d>> \in Dates
  BY <1>0, <1>1, <1>2, Fitted
<1> HIDE DEF d
<1>4. MonthNumber(<<y, m, d>>) = MonthNumber(j) + n
  BY <1>1 DEF MonthNumber
<1>5. <<y, m, d>>[3] = DayIn(j[3], <<y, m, d>>[1], <<y, m, d>>[2])
  BY DEF d
<1> QED
  BY <1>3, <1>4, <1>5

LEMMA YearlyStep ==
  ASSUME NEW j \in Dates, NEW n \in Nat, n > 0
  PROVE  LET i == stepJalali(j, "yearly", n)
         IN i \in Dates /\ i[1] = j[1] + n /\ i[2] = j[2] /\ i[3] = DayIn(j[3], i[1], i[2])
<1> DEFINE y == j[1] + n
           m == j[2]
           d == DayIn(j[3], y, m)
<1>0. j[1] \in Int /\ j[1] > 979 /\ m \in 1..12 /\ j[3] \in 1..31
  BY ADate
<1>1. y \in Int /\ y > 979
  BY <1>0
<1>2. stepJalali(j, "yearly", n) = <<y, m, Min({j[3], daysInMonth(y, m)})>>
  BY DEF stepJalali
<1> HIDE DEF y, m
<1>3. stepJalali(j, "yearly", n) = <<y, m, d>> /\ <<y, m, d>> \in Dates
  BY <1>0, <1>1, <1>2, Fitted
<1> HIDE DEF d
<1>5. <<y, m, d>>[3] = DayIn(j[3], <<y, m, d>>[1], <<y, m, d>>[2])
  BY DEF d
<1> QED
  BY <1>3, <1>5 DEF y, m

LEMMA WeeklyStep ==
  ASSUME NEW j \in Dates, NEW n \in Nat, n > 0
  PROVE  LET i == stepJalali(j, "weekly", n)
         IN i \in Dates /\ Day(i) = Day(j) + 7 * n
<1>1. stepJalali(j, "weekly", n) = addDays(j, 7 * n)
  BY DEF stepJalali
<1>2. 7 * n \in Nat
  OBVIOUS
<1> QED
  BY <1>1, <1>2, DaysAdded

\* What counts the steps: weeks are counted in days.
Repeats == {"weekly", "monthly", "yearly"}

StepCount(j, repeat) ==
  CASE repeat = "weekly"  -> Day(j)
    [] repeat = "monthly" -> MonthNumber(j)
    [] repeat = "yearly"  -> j[1]

StepSize(repeat) == IF repeat = "weekly" THEN 7 ELSE 1

LEMMA StepIsADate ==
  ASSUME NEW j \in Dates, NEW repeat \in Repeats, NEW n \in Nat, n > 0
  PROVE  LET i == stepJalali(j, repeat, n)
         IN /\ i \in Dates /\ FallsOn(i, j, repeat)
            /\ StepCount(i, repeat) = StepCount(j, repeat) + n * StepSize(repeat)
<1> DEFINE i == stepJalali(j, repeat, n)
<1>1. CASE repeat = "weekly"
  <2>1. i \in Dates /\ Day(i) = Day(j) + 7 * n
    BY <1>1, WeeklyStep
  <2>2. Day(j) \in Nat
    BY DateParts
  <2> HIDE DEF i
  <2>3. Day(i) % 7 = Day(j) % 7
    BY <2>1, <2>2, SMT
  <2>4. FallsOn(i, j, repeat)
    BY <1>1, <2>1, <2>3, Weekdays DEF FallsOn
  <2>5. StepCount(i, repeat) = StepCount(j, repeat) + n * StepSize(repeat)
    BY <1>1, <2>1, <2>2, SMT DEF StepCount, StepSize
  <2> QED
    BY <2>1, <2>4, <2>5 DEF i
<1>2. CASE repeat \in {"monthly", "yearly"}
  <2>1. /\ i \in Dates /\ i[3] = DayIn(j[3], i[1], i[2])
        /\ (repeat = "monthly" => MonthNumber(i) = MonthNumber(j) + n)
        /\ (repeat = "yearly" => i[1] = j[1] + n /\ i[2] = j[2])
    <3>1. CASE repeat = "monthly"
      BY <3>1, MonthlyStep
    <3>2. CASE repeat = "yearly"
      BY <3>2, YearlyStep
    <3> QED
      BY <1>2, <3>1, <3>2
  <2> HIDE DEF i
  <2>2. j[3] \in 1..31 /\ i[1] \in Int /\ i[2] \in 1..12
    BY <2>1, ADate
  <2>3. daysInMonth(i[1], i[2]) \in 29..31
    BY <2>2, MonthLong
  <2>4. i[3] = j[3] \/ (i[3] = daysInMonth(i[1], i[2]) /\ j[3] > i[3])
    BY <2>1, <2>2, <2>3, SMT DEF DayIn
  <2>5. FallsOn(i, j, repeat)
    <3>1. CASE repeat = "monthly"
      BY <2>4, <3>1 DEF FallsOn
    <3>2. CASE repeat = "yearly"
      BY <2>1, <2>4, <3>2 DEF FallsOn
    <3> QED
      BY <1>2, <3>1, <3>2
  <2>6. StepCount(i, repeat) = StepCount(j, repeat) + n * StepSize(repeat)
    <3>1. StepSize(repeat) = 1 /\ n * 1 = n
      BY <1>2 DEF StepSize
    <3>2. CASE repeat = "monthly"
      BY <2>1, <3>1, <3>2 DEF StepCount
    <3>3. CASE repeat = "yearly"
      BY <2>1, <3>1, <3>3 DEF StepCount
    <3> QED
      BY <1>2, <3>2, <3>3
  <2> QED
    BY <2>1, <2>5, <2>6 DEF i
<1> QED
  BY <1>1, <1>2 DEF Repeats

LEMMA CountAscends ==
  ASSUME NEW i \in Dates, NEW j \in Dates, NEW repeat \in Repeats
  PROVE  /\ StepCount(i, repeat) \in Int
         /\ StepCount(i, repeat) < StepCount(j, repeat) => Before(i, j)
<1>1. CASE repeat = "weekly"
  BY <1>1, DateParts, DayOrder DEF StepCount
<1>2. /\ i[1] \in Int /\ i[2] \in 1..12 /\ i[3] \in 1..31
      /\ j[1] \in Int /\ j[2] \in 1..12 /\ j[3] \in 1..31
  BY ADate
<1>3. CASE repeat = "monthly"
  <2>1. StepCount(i, repeat) = 12 * i[1] + i[2] /\ StepCount(j, repeat) = 12 * j[1] + j[2]
    BY <1>3 DEF StepCount, MonthNumber
  <2> QED
    BY <1>2, <2>1, SMT DEF Before
<1>4. CASE repeat = "yearly"
  BY <1>2, <1>4 DEF StepCount, Before
<1> QED
  BY <1>1, <1>3, <1>4 DEF Repeats

LEMMA StepsAscend ==
  ASSUME NEW j \in Dates, NEW repeat \in Repeats, NEW m \in Nat, m > 0, NEW n \in Nat, m < n
  PROVE  /\ Before(j, stepJalali(j, repeat, n))
         /\ Before(stepJalali(j, repeat, m), stepJalali(j, repeat, n))
<1> DEFINE a == stepJalali(j, repeat, m)
           b == stepJalali(j, repeat, n)
           s == StepSize(repeat)
<1>1. /\ a \in Dates /\ StepCount(a, repeat) = StepCount(j, repeat) + m * s
      /\ b \in Dates /\ StepCount(b, repeat) = StepCount(j, repeat) + n * s
  BY StepIsADate
<1>2. s \in {1, 7}
  BY DEF StepSize
<1>3. StepCount(j, repeat) \in Int
  BY CountAscends
<1> HIDE DEF a, b, s
<1>4. StepCount(a, repeat) < StepCount(b, repeat) /\ StepCount(j, repeat) < StepCount(b, repeat)
  BY <1>1, <1>2, <1>3, SMT
<1>5. Before(j, b) /\ Before(a, b)
  BY <1>1, <1>4, CountAscends
<1> QED
  BY <1>5 DEF a, b

\* A date after the start that is on its day is a step from it.
LEMMA StepsReach ==
  ASSUME NEW j \in Dates, NEW repeat \in Repeats, NEW i \in Dates, Before(j, i),
         FallsOn(i, j, repeat)
  PROVE  \E n \in Nat : n > 0 /\ i = stepJalali(j, repeat, n)
<1>0. /\ i = <<i[1], i[2], i[3]>> /\ i[1] \in Int /\ i[2] \in 1..12 /\ i[3] \in 1..31
      /\ i[3] \in 1..daysInMonth(i[1], i[2])
  BY ADate
<1>1. /\ j = <<j[1], j[2], j[3]>> /\ j[1] \in Int /\ j[2] \in 1..12 /\ j[3] \in 1..31
  BY ADate
<1>2. CASE repeat = "weekly"
  <2>1. Day(i) \in Nat /\ Day(j) \in Nat /\ Day(j) < Day(i)
    BY DateParts, DayOrder
  <2>2. Day(i) % 7 = Day(j) % 7
    BY <1>2, Weekdays DEF FallsOn
  <2> DEFINE n == (Day(i) - Day(j)) \div 7
  <2>3. n \in Nat /\ n > 0 /\ Day(i) = Day(j) + 7 * n
    BY <2>1, <2>2, SMT
  <2> HIDE DEF n
  <2>4. stepJalali(j, repeat, n) \in Dates /\ Day(stepJalali(j, repeat, n)) = Day(i)
    BY <1>2, <2>3, WeeklyStep
  <2>5. stepJalali(j, repeat, n) = i
    BY <2>1, <2>4, DayOrder, DateOrder
  <2> QED
    BY <2>3, <2>5
<1>3. ASSUME repeat \in {"monthly", "yearly"}
      PROVE  /\ i[3] = DayIn(j[3], i[1], i[2])
             /\ ~(i[1] = j[1] /\ i[2] = j[2])
  <2>1. i[3] = j[3] \/ (i[3] = daysInMonth(i[1], i[2]) /\ j[3] > i[3])
    BY <1>3 DEF FallsOn
  <2>2. daysInMonth(i[1], i[2]) \in 29..31
    BY <1>0, MonthLong
  <2>3. i[3] = DayIn(j[3], i[1], i[2])
    BY <1>0, <1>1, <2>1, <2>2, SMT DEF DayIn
  <2>4. ASSUME i[1] = j[1], i[2] = j[2] PROVE FALSE
    BY <1>0, <1>1, <2>1, <2>4, SMT DEF Before
  <2> QED
    BY <2>3, <2>4
<1>4. CASE repeat = "monthly"
  <2> DEFINE n == MonthNumber(i) - MonthNumber(j)
             k == stepJalali(j, "monthly", n)
  <2>1. n \in Nat /\ n > 0
    BY <1>0, <1>1, <1>3, <1>4, SMT DEF MonthNumber, Before
  <2>2. k \in Dates /\ MonthNumber(k) = MonthNumber(j) + n /\ k[3] = DayIn(j[3], k[1], k[2])
    BY <2>1, MonthlyStep
  <2>3. MonthNumber(i) = MonthNumber(k)
    BY <1>0, <1>1, <2>2, SMT DEF MonthNumber
  <2> HIDE DEF k, n
  <2>4. k = <<k[1], k[2], k[3]>> /\ k[1] \in Int /\ k[2] \in 1..12
    BY <2>2, ADate
  <2>5. k[1] = i[1] /\ k[2] = i[2]
    BY <1>0, <2>3, <2>4, SMT DEF MonthNumber
  <2>6. k = i
    BY <1>0, <1>3, <1>4, <2>2, <2>4, <2>5
  <2> QED
    BY <1>4, <2>1, <2>6 DEF k
<1>5. CASE repeat = "yearly"
  <2> DEFINE n == i[1] - j[1]
             k == stepJalali(j, "yearly", n)
  <2>1. i[2] = j[2]
    BY <1>5 DEF FallsOn
  <2>2. n \in Nat /\ n > 0
    BY <1>0, <1>1, <1>3, <1>5, <2>1, SMT DEF Before
  <2>3. k \in Dates /\ k[1] = i[1] /\ k[2] = i[2] /\ k[3] = DayIn(j[3], k[1], k[2])
    BY <1>0, <1>1, <2>1, <2>2, YearlyStep
  <2> HIDE DEF k, n
  <2>4. k = <<k[1], k[2], k[3]>>
    BY <2>3, ADate
  <2>5. k = i
    BY <1>0, <1>3, <1>5, <2>3, <2>4
  <2> QED
    BY <1>5, <2>2, <2>5 DEF k
<1> QED
  BY <1>2, <1>4, <1>5 DEF Repeats

-----------------------------------------------------------------------------
\* What is due.
Steps(s, repeat) == [n \in 1..MaxOccurrences |-> stepJalali(s, repeat, n)]
Past(limit, steps) == {n \in 1..MaxOccurrences : Before(limit, steps[n])}
LastUpTo(limit, steps) ==
  IF Past(limit, steps) = {} THEN MaxOccurrences ELSE Min(Past(limit, steps)) - 1

LEMMA Least ==
  ASSUME NEW T \in SUBSET Nat, T # {}
  PROVE  \E x \in T : \A y \in T : x <= y
<1> DEFINE R == OpToRel(<, Nat)
<1>1. PICK x \in T : \A y \in T : ~ (<<y, x>> \in R)
  BY NatLessThanWellFounded, WFMin
<1>2. \A y \in Nat : y < x => <<y, x>> \in R
  BY DEF OpToRel
<1> HIDE DEF R
<1>3. \A y \in T : ~(y < x)
  BY <1>1, <1>2
<1> QED
  BY <1>3

\* Of steps that ascend those up to the limit come first.
LEMMA UpToTheLimit ==
  ASSUME NEW limit \in Dates, NEW steps, \A n \in 1..MaxOccurrences : steps[n] \in Dates,
         \A m, n \in 1..MaxOccurrences : m < n => Before(steps[m], steps[n])
  PROVE  /\ LastUpTo(limit, steps) \in 0..MaxOccurrences
         /\ \A n \in 1..MaxOccurrences : n <= LastUpTo(limit, steps) <=> ~Before(limit, steps[n])
<1> DEFINE P == Past(limit, steps)
           last == LastUpTo(limit, steps)
<1>0. MaxOccurrences \in Nat /\ MaxOccurrences > 0
  BY DatesAssumption
<1>1. CASE P = {}
  <2>1. last = MaxOccurrences
    BY <1>1 DEF LastUpTo
  <2>2. \A n \in 1..MaxOccurrences : ~Before(limit, steps[n])
    BY <1>1 DEF Past
  <2> QED
    BY <1>0, <2>1, <2>2
<1>2. CASE P # {}
  <2>1. P \in SUBSET Nat
    BY DEF Past
  <2>2. \E k \in P : \A m \in P : k <= m
    BY <1>2, <2>1, Least
  <2>3. Min(P) \in P /\ \A m \in P : Min(P) <= m
    BY <2>2 DEF Min
  <2>4. last = Min(P) - 1
    BY <1>2 DEF LastUpTo
  <2> DEFINE k == Min(P)
  <2>5. k \in 1..MaxOccurrences /\ Before(limit, steps[k])
    BY <2>3 DEF Past
  <2>6. ASSUME NEW n \in 1..MaxOccurrences, n < k PROVE ~Before(limit, steps[n])
    <3>1. n \notin P
      BY <2>1, <2>3, <2>6
    <3> QED
      BY <3>1 DEF Past
  <2>7. ASSUME NEW n \in 1..MaxOccurrences, k <= n PROVE Before(limit, steps[n])
    <3>1. CASE n = k
      BY <2>5, <3>1
    <3>2. CASE k < n
      <4>1. Before(steps[k], steps[n]) /\ steps[k] \in Dates /\ steps[n] \in Dates
        BY <2>5, <3>2
      <4>2. Day(limit) < Day(steps[k]) /\ Day(steps[k]) < Day(steps[n])
        BY <2>5, <4>1, DayOrder
      <4>3. Day(limit) \in Nat /\ Day(steps[k]) \in Nat /\ Day(steps[n]) \in Nat
        BY <4>1, DateParts
      <4>4. Day(limit) < Day(steps[n])
        BY <4>2, <4>3
      <4> QED
        BY <4>1, <4>4, DayOrder
    <3> QED
      BY <2>5, <2>7, <3>1, <3>2
  <2> HIDE DEF k
  <2>8. last = k - 1
    BY <2>4 DEF k
  <2> HIDE DEF last
  <2>9. last \in 0..MaxOccurrences
    BY <1>0, <2>5, <2>8
  <2>10. ASSUME NEW n \in 1..MaxOccurrences PROVE n <= last <=> ~Before(limit, steps[n])
    <3>1. n < k \/ k <= n
      BY <2>5
    <3>2. n <= last <=> n < k
      BY <2>5, <2>8
    <3> QED
      BY <2>5, <2>6, <2>7, <3>1, <3>2
  <2> QED
    BY <2>9, <2>10 DEF last
<1> QED
  BY <1>1, <1>2

\* The days between two dates, as a calendar of days has them.
LEMMA DatesBetween ==
  ASSUME NEW s \in Dates, NEW t \in Dates
  PROVE  {CivilDate(n) : n \in (DayNumber(toGregorian(s)) + 1)..DayNumber(toGregorian(t))}
           = {toGregorian(i) : i \in {j \in Dates : Before(s, j) /\ ~Before(t, j)}}
<1> DEFINE D == (DayNumber(toGregorian(s)) + 1)..DayNumber(toGregorian(t))
           B == {j \in Dates : Before(s, j) /\ ~Before(t, j)}
<1>0. Epoch \in Nat
  BY EpochIsNat
<1>1. D = (Day(s) + (Epoch + 1))..(Day(t) + Epoch)
  <2>1. DayNumber(toGregorian(s)) = Day(s) + Epoch /\ DayNumber(toGregorian(t)) = Day(t) + Epoch
    BY Kept
  <2>2. Day(s) \in Nat
    BY DateParts
  <2>3. Day(s) + Epoch + 1 = Day(s) + (Epoch + 1)
    BY <1>0, <2>2
  <2> QED
    BY <2>1, <2>3
<1>2. Day(s) \in Nat /\ Day(s) >= 366 /\ Day(t) \in Nat
  BY DatesStart
<1>3. ASSUME NEW n \in D PROVE \E i \in B : CivilDate(n) = toGregorian(i)
  <2> DEFINE k == JalaliDate(979, n - Epoch)
  <2>0. n \in Int /\ Day(s) + (Epoch + 1) <= n /\ n <= Day(t) + Epoch
    <3>1. Day(s) + (Epoch + 1) \in Int /\ Day(t) + Epoch \in Int
      BY <1>0, <1>2
    <3>2. n \in (Day(s) + (Epoch + 1))..(Day(t) + Epoch)
      BY <1>1, <1>3
    <3> HIDE DEF D
    <3> QED
      BY <3>1, <3>2
  <2>1. n - Epoch \in Nat /\ n - Epoch >= 366 /\ n - Epoch > Day(s) /\ n - Epoch <= Day(t)
        /\ n = (n - Epoch) + Epoch
    BY <1>0, <1>2, <2>0, SMT
  <2>2. k \in Dates /\ Day(k) = n - Epoch
    BY <2>1, DateOfDay
  <2>3. CivilDate(n) = toGregorian(k)
    BY <2>1, <2>2, Kept
  <2> HIDE DEF k
  <2>4. k \in B
    BY <1>2, <2>1, <2>2, DayOrder
  <2> QED
    BY <2>3, <2>4
<1>4. ASSUME NEW i \in B PROVE \E n \in D : CivilDate(n) = toGregorian(i)
  <2>1. i \in Dates /\ Day(i) \in Nat /\ Day(s) < Day(i) /\ ~(Day(t) < Day(i))
    BY DayOrder, DateParts
  <2>2. Day(i) + Epoch \in D
    <3>1. Day(i) + Epoch \in Int /\ Day(s) + (Epoch + 1) <= Day(i) + Epoch
          /\ Day(i) + Epoch <= Day(t) + Epoch
      BY <1>0, <1>2, <2>1, SMT
    <3>2. Day(s) + (Epoch + 1) \in Int /\ Day(t) + Epoch \in Int
      BY <1>0, <1>2
    <3> HIDE DEF D
    <3> QED
      BY <1>1, <3>1, <3>2
  <2>3. CivilDate(Day(i) + Epoch) = toGregorian(i)
    BY <2>1, Kept
  <2> QED
    BY <2>2, <2>3
<1> HIDE DEF D, B
<1>5. {CivilDate(n) : n \in D} = {toGregorian(i) : i \in B}
  BY <1>3, <1>4
<1> QED
  BY <1>5 DEF D, B

\* What is due of a transaction that starts on s, up to a limit.
DueSteps(s, repeat, limit) ==
  [n \in 1..LastUpTo(limit, Steps(s, repeat)) |-> jalaliToIso(Steps(s, repeat)[n])]

IsDueOn(i, s, repeat, limit) == Before(s, i) /\ ~Before(limit, i) /\ FallsOn(i, s, repeat)

LEMMA DueUpTo ==
  ASSUME NEW s \in Dates, NEW repeat \in Repeats, NEW limit \in Dates, NEW due,
         due = DueSteps(s, repeat, limit)
  PROVE  /\ \A m, n \in DOMAIN due : m < n => Before(due[m], due[n])
         /\ \A n \in DOMAIN due : \E i \in Dates :
              due[n] = toGregorian(i) /\ IsDueOn(i, s, repeat, limit)
         /\ \A i \in Dates : IsDueOn(i, s, repeat, limit) =>
              \/ \E n \in DOMAIN due : due[n] = toGregorian(i)
              \/ Len(due) = MaxOccurrences /\ Before(due[MaxOccurrences], toGregorian(i))
<1> DEFINE steps == Steps(s, repeat)
           last == LastUpTo(limit, steps)
<1>0. MaxOccurrences \in Nat /\ MaxOccurrences > 0
  BY DatesAssumption
<1>1. \A n \in 1..MaxOccurrences :
        steps[n] = stepJalali(s, repeat, n) /\ steps[n] \in Dates /\ FallsOn(steps[n], s, repeat)
  BY StepIsADate DEF Steps
<1>2. \A m, n \in 1..MaxOccurrences : m < n => Before(steps[m], steps[n])
  BY <1>1, StepsAscend
<1>3. \A n \in 1..MaxOccurrences : Before(s, steps[n])
  <2>1. ASSUME NEW n \in 1..MaxOccurrences PROVE Before(s, steps[n])
    <3>1. n \in Nat /\ n > 0
      OBVIOUS
    <3>2. stepJalali(s, repeat, n) \in Dates
          /\ StepCount(stepJalali(s, repeat, n), repeat)
               = StepCount(s, repeat) + n * StepSize(repeat)
      BY <3>1, StepIsADate
    <3>3. StepCount(s, repeat) \in Int /\ StepSize(repeat) \in {1, 7}
      BY CountAscends DEF StepSize
    <3>4. StepCount(s, repeat) < StepCount(stepJalali(s, repeat, n), repeat)
      BY <3>1, <3>2, <3>3, SMT
    <3> QED
      BY <1>1, <3>2, <3>4, CountAscends
  <2> QED
    BY <2>1
<1> HIDE DEF steps
<1>4. /\ last \in 0..MaxOccurrences
      /\ \A n \in 1..MaxOccurrences : n <= last <=> ~Before(limit, steps[n])
  BY <1>1, <1>2, UpToTheLimit
<1>5. /\ DOMAIN due = 1..last /\ \A n \in 1..last : due[n] = toGregorian(steps[n])
      /\ Len(due) = last
  BY <1>4 DEF DueSteps, jalaliToIso, steps
<1> HIDE DEF last
<1>6. \A n \in 1..last : n \in 1..MaxOccurrences /\ n \in Nat /\ n <= last
  <2>1. last \in Int /\ last <= MaxOccurrences
    BY <1>0, <1>4
  <2> QED
    BY <1>0, <2>1
<1>7. \A m, n \in DOMAIN due : m < n => Before(due[m], due[n])
  <2> SUFFICES ASSUME NEW m \in 1..last, NEW n \in 1..last, m < n PROVE Before(due[m], due[n])
    BY <1>5
  <2>1. Before(steps[m], steps[n]) /\ steps[m] \in Dates /\ steps[n] \in Dates
    BY <1>1, <1>2, <1>6
  <2>2. Before(toGregorian(steps[m]), toGregorian(steps[n]))
    BY <2>1, DayOrder, KeptOrder
  <2> QED
    BY <1>5, <2>2
<1>8. ASSUME NEW n \in DOMAIN due
      PROVE  \E i \in Dates : due[n] = toGregorian(i) /\ IsDueOn(i, s, repeat, limit)
  <2>1. n \in 1..last /\ n \in 1..MaxOccurrences /\ n <= last
    BY <1>5, <1>6, <1>8
  <2>2. /\ steps[n] \in Dates /\ due[n] = toGregorian(steps[n]) /\ Before(s, steps[n])
        /\ ~Before(limit, steps[n]) /\ FallsOn(steps[n], s, repeat)
    BY <1>1, <1>3, <1>4, <1>5, <2>1
  <2> QED
    BY <2>2 DEF IsDueOn
<1>9. ASSUME NEW i \in Dates, IsDueOn(i, s, repeat, limit)
      PROVE  \/ \E n \in DOMAIN due : due[n] = toGregorian(i)
             \/ Len(due) = MaxOccurrences /\ Before(due[MaxOccurrences], toGregorian(i))
  <2>1. PICK n \in Nat : n > 0 /\ i = stepJalali(s, repeat, n)
    BY <1>9, StepsReach DEF IsDueOn
  <2>2. CASE n <= MaxOccurrences
    <3>1. n \in 1..MaxOccurrences /\ steps[n] = i
      BY <1>0, <1>1, <2>1, <2>2
    <3>2. n \in 1..last
      BY <1>4, <1>9, <2>1, <3>1 DEF IsDueOn
    <3> QED
      BY <1>5, <3>1, <3>2
  <2>3. CASE n > MaxOccurrences
    <3> DEFINE k == MaxOccurrences
    <3>1. k \in 1..MaxOccurrences /\ steps[k] = stepJalali(s, repeat, k) /\ steps[k] \in Dates
      BY <1>0, <1>1
    <3>2. Before(steps[k], i)
      BY <1>0, <2>1, <2>3, <3>1, StepsAscend
    <3>3. /\ Day(steps[k]) < Day(i) /\ ~(Day(limit) < Day(i))
          /\ Day(steps[k]) \in Nat /\ Day(i) \in Nat /\ Day(limit) \in Nat
      BY <1>9, <3>1, <3>2, DayOrder, DateParts DEF IsDueOn
    <3>4. ~Before(limit, steps[k])
      BY <3>1, <3>3, DayOrder
    <3>5. last = MaxOccurrences
      BY <1>0, <1>4, <3>1, <3>4
    <3>6. due[MaxOccurrences] = toGregorian(steps[k])
      BY <1>5, <3>1, <3>5
    <3>7. Before(toGregorian(steps[k]), toGregorian(i))
      BY <3>1, <3>3, KeptOrder
    <3> QED
      BY <1>5, <3>5, <3>6, <3>7
  <2>4. n <= MaxOccurrences \/ n > MaxOccurrences
    BY <1>0
  <2> QED
    BY <2>2, <2>3, <2>4
<1> QED
  BY <1>7, <1>8, <1>9

\* The days on which a transaction falls are the dates after its start, up to today and to
\* its end, that are on its day.
LEMMA DaysOfFalls ==
  ASSUME NEW t, Repeating(t) \in DOMAIN Falls, IsKept(t.date), t.until # None => IsKept(t.until)
  PROVE  LET s == isoToJalali(t.date)
             u == isoToJalali(t.until)
         IN \A d : d \in Falls[Repeating(t)] <=>
              \E i \in Dates :
                /\ d = toGregorian(i) /\ Before(s, i) /\ ~Before(Today, i)
                /\ t.until # None => ~Before(u, i)
                /\ FallsOn(i, s, t.repeat)
<1> DEFINE s == isoToJalali(t.date)
           u == isoToJalali(t.until)
           B == {j \in Dates : Before(s, j) /\ ~Before(Today, j)}
<1>1. s \in Dates /\ toGregorian(s) = t.date /\ Today \in Dates
  BY DatesAssumption DEF IsKept, jalaliToIso
<1>2. t.until # None => u \in Dates /\ toGregorian(u) = t.until
  BY DEF IsKept, jalaliToIso
<1>3. Falls[Repeating(t)] =
        {d \in {CivilDate(n) : n \in (DayNumber(t.date) + 1)..DayNumber(jalaliToIso(Today))} :
           /\ t.until # None => UpTo(d, t.until)
           /\ FallsOn(isoToJalali(d), isoToJalali(t.date), t.repeat)}
  <2>1. /\ Repeating(t).date = t.date /\ Repeating(t).repeat = t.repeat
        /\ Repeating(t).until = t.until
    BY DEF Repeating
  <2> DEFINE of(r) ==
               {d \in {CivilDate(n) : n \in (DayNumber(r.date) + 1)..DayNumber(jalaliToIso(Today))} :
                  /\ r.until # None => UpTo(d, r.until)
                  /\ FallsOn(isoToJalali(d), isoToJalali(r.date), r.repeat)}
  <2>2. Falls = [r \in {Repeating(x) : x \in First \cup Drafts} |-> of(r)]
    BY DEF Falls
  <2> HIDE DEF of
  <2>3. Falls[Repeating(t)] = of(Repeating(t))
    BY <2>2
  <2> QED
    BY <2>1, <2>3 DEF of
<1>4. {CivilDate(n) : n \in (DayNumber(t.date) + 1)..DayNumber(jalaliToIso(Today))}
        = {toGregorian(i) : i \in B}
  BY <1>1, DatesBetween DEF jalaliToIso
<1> HIDE DEF s, u
<1>5. \A i \in Dates : isoToJalali(toGregorian(i)) = i
  BY DatesKeep DEF jalaliToIso
<1>6. \A i \in Dates : t.until # None => (UpTo(toGregorian(i), t.until) <=> ~Before(u, i))
  BY <1>2, DayOrder, KeptOrder DEF UpTo
<1>7. ASSUME NEW d
      PROVE  d \in Falls[Repeating(t)] <=>
               \E i \in Dates :
                 /\ d = toGregorian(i) /\ Before(s, i) /\ ~Before(Today, i)
                 /\ t.until # None => ~Before(u, i)
                 /\ FallsOn(i, s, t.repeat)
  <2>1. d \in Falls[Repeating(t)] <=>
          /\ \E i \in B : d = toGregorian(i)
          /\ t.until # None => UpTo(d, t.until)
          /\ FallsOn(isoToJalali(d), s, t.repeat)
    BY <1>3, <1>4 DEF s
  <2> QED
    BY <1>5, <1>6, <2>1
<1> QED
  BY <1>7 DEF s, u

LEMMA DueDaysOf ==
  ASSUME NEW t, Repeating(t) \in DOMAIN Falls, IsKept(t.date), t.until # None => IsKept(t.until),
         t.repeat \in Repeats \cup {"none"}
  PROVE  DueDays(t)
<1> DEFINE s == isoToJalali(t.date)
           u == isoToJalali(t.until)
           end == IF t.until = None THEN Today ELSE u
           limit == IF Before(end, Today) THEN end ELSE Today
           due == dueOccurrences(t.date, t.repeat, t.until, Today)
           days == Falls[Repeating(t)]
           On(i) == IsDueOn(i, s, t.repeat, limit)
<1>1. s \in Dates /\ Today \in Dates /\ (t.until # None => u \in Dates) /\ limit \in Dates
  BY DatesAssumption DEF IsKept
<1>2. \A d : d \in days <=>
        \E i \in Dates :
          /\ d = toGregorian(i) /\ Before(s, i) /\ ~Before(Today, i)
          /\ t.until # None => ~Before(u, i)
          /\ FallsOn(i, s, t.repeat)
  BY DaysOfFalls
<1>3. due = IF t.repeat = "none" THEN <<>>
            ELSE DueSteps(s, t.repeat, limit)
  BY DEF dueOccurrences, DueSteps, LastUpTo, Past, Steps
<1> HIDE DEF s, u, due, days
<1>4. ASSUME NEW i \in Dates
      PROVE  ~Before(limit, i) <=> ~Before(Today, i) /\ (t.until # None => ~Before(u, i))
  <2>1. CASE t.until = None
    <3>1. limit = Today
      BY <2>1
    <3> QED
      BY <2>1, <3>1
  <2>2. CASE t.until # None
    <3>1. /\ (Before(u, Today) <=> Day(u) < Day(Today)) /\ (Before(u, i) <=> Day(u) < Day(i))
          /\ (Before(Today, i) <=> Day(Today) < Day(i))
          /\ Day(u) \in Nat /\ Day(i) \in Nat /\ Day(Today) \in Nat
      BY <1>1, <2>2, DayOrder, DateParts
    <3>2. limit = IF Before(u, Today) THEN u ELSE Today
      BY <2>2
    <3> HIDE DEF limit
    <3>3. CASE Before(u, Today)
      BY <2>2, <3>1, <3>2, <3>3
    <3>4. CASE ~Before(u, Today)
      BY <2>2, <3>1, <3>2, <3>4
    <3> QED
      BY <3>3, <3>4
  <2> QED
    BY <2>1, <2>2
<1> HIDE DEF limit
<1>5. \A d : d \in days <=> \E i \in Dates : d = toGregorian(i) /\ On(i)
  BY <1>2, <1>4 DEF IsDueOn
<1>6. /\ \A m, n \in DOMAIN due : m < n => Before(due[m], due[n])
      /\ \A n \in DOMAIN due : \E i \in Dates : due[n] = toGregorian(i) /\ On(i)
      /\ \A i \in Dates : On(i) =>
           \/ \E n \in DOMAIN due : due[n] = toGregorian(i)
           \/ Len(due) = MaxOccurrences /\ Before(due[MaxOccurrences], toGregorian(i))
  <2>1. CASE t.repeat = "none"
    <3>1. due = <<>> /\ DOMAIN due = {}
      BY <1>3, <2>1
    <3>2. \A i \in Dates : ~On(i)
      BY <2>1 DEF FallsOn, IsDueOn
    <3> HIDE DEF On
    <3> QED
      BY <3>1, <3>2
  <2>2. CASE t.repeat \in Repeats
    <3>1. t.repeat # "none"
      BY <2>2 DEF Repeats
    <3>2. due = DueSteps(s, t.repeat, limit)
      BY <1>3, <3>1
    <3> QED
      BY <1>1, <2>2, <3>2, DueUpTo
  <2> QED
    BY <2>1, <2>2
<1> HIDE DEF On
<1>7. \A n \in DOMAIN due : due[n] \in days
  BY <1>5, <1>6
<1>8. \A d \in days : \/ \E n \in DOMAIN due : due[n] = d
                      \/ Len(due) = MaxOccurrences /\ Before(due[MaxOccurrences], d)
  BY <1>5, <1>6
<1> QED
  BY <1>6, <1>7, <1>8 DEF DueDays, due, days

-----------------------------------------------------------------------------
(* The bell and the calendar page.                                         *)

\* What a transaction needs for its occurrences, and the occurrences that are looked at,
\* whatever day they are looked at from.
Occurs(t) ==
  /\ IsKept(t.date) /\ (t.until # None => IsKept(t.until))
  /\ t.repeat \in Repeats \cup {"none"}

Looked(t) ==
  {i \in Dates :
     /\ t.repeat # "none" /\ (t.until # None => ~Before(isoToJalali(t.until), i))
     /\ \E n \in 1..MaxOccurrences : i = stepJalali(isoToJalali(t.date), t.repeat, n)}

LEMMA OrderOfDates ==
  ASSUME NEW i \in Dates, NEW j \in Dates, NEW k \in Dates
  PROVE  /\ ~Before(j, i) /\ ~Before(k, j) => ~Before(k, i)
         /\ Before(i, j) /\ ~Before(k, j) => Before(i, k)
  BY DayOrder, DateParts

\* Of the earlier of two dates and one of them.
LEMMA EarlierOf ==
  ASSUME NEW i \in Dates, NEW j \in Dates, NEW k \in Dates
  PROVE  ~Before(IF Before(i, j) THEN i ELSE j, k) <=> ~Before(i, k) /\ ~Before(j, k)
  BY DayOrder, DateParts

LEMMA DueLooked ==
  ASSUME NEW t, Occurs(t), NEW h \in Dates, NEW due,
         due = dueOccurrences(t.date, t.repeat, t.until, h)
  PROVE  \A d : (\E n \in DOMAIN due : due[n] = d)
                  <=> \E i \in Looked(t) : ~Before(h, i) /\ d = toGregorian(i)
<1> DEFINE s == isoToJalali(t.date)
           u == isoToJalali(t.until)
           end == IF t.until = None THEN h ELSE u
           limit == IF Before(end, h) THEN end ELSE h
           steps == Steps(s, t.repeat)
           last == LastUpTo(limit, steps)
<1>1. s \in Dates /\ (t.until # None => u \in Dates) /\ limit \in Dates
  BY DEF Occurs, IsKept
<1>2. due = IF t.repeat = "none" THEN <<>> ELSE DueSteps(s, t.repeat, limit)
  BY DEF dueOccurrences, DueSteps, LastUpTo, Past, Steps
<1>3. ASSUME NEW i \in Dates
      PROVE  ~Before(limit, i) <=> ~Before(h, i) /\ (t.until # None => ~Before(u, i))
  <2>1. CASE t.until = None
    BY <2>1
  <2>2. CASE t.until # None
    BY <1>1, <2>2, EarlierOf
  <2> QED
    BY <2>1, <2>2
<1>4. CASE t.repeat = "none"
  BY <1>2, <1>4 DEF Looked
<1>5. CASE t.repeat \in Repeats
  <2>1. MaxOccurrences \in Nat /\ t.repeat # "none"
    BY <1>5, DatesAssumption DEF Repeats
  <2>2. \A n \in 1..MaxOccurrences :
          steps[n] = stepJalali(s, t.repeat, n) /\ steps[n] \in Dates
    BY <1>1, <1>5, StepIsADate DEF Steps
  <2>3. \A m, n \in 1..MaxOccurrences : m < n => Before(steps[m], steps[n])
    BY <1>1, <1>5, <2>2, StepsAscend
  <2>4. /\ last \in 0..MaxOccurrences
        /\ \A n \in 1..MaxOccurrences : n <= last <=> ~Before(limit, steps[n])
    BY <1>1, <2>2, <2>3, UpToTheLimit
  <2> HIDE DEF limit, steps
  <2>5. due = [n \in 1..last |-> toGregorian(steps[n])]
    BY <1>2, <2>1 DEF DueSteps, jalaliToIso, steps
  <2> HIDE DEF last
  <2>6. DOMAIN due = {n \in 1..MaxOccurrences : ~Before(limit, steps[n])}
    BY <2>1, <2>4, <2>5
  <2>7. \A i : i \in Looked(t) <=>
          /\ i \in Dates /\ (t.until # None => ~Before(u, i))
          /\ \E n \in 1..MaxOccurrences : i = steps[n]
    BY <2>1, <2>2 DEF Looked
  <2> HIDE DEF u
  <2>8. \A n \in DOMAIN due : due[n] = toGregorian(steps[n])
    BY <2>5
  <2> HIDE DEF s
  <2>9. ASSUME NEW n \in DOMAIN due
        PROVE  \E i \in Looked(t) : ~Before(h, i) /\ due[n] = toGregorian(i)
    <3>1. n \in 1..MaxOccurrences /\ ~Before(limit, steps[n]) /\ steps[n] \in Dates
      BY <2>2, <2>6
    <3>2. ~Before(h, steps[n]) /\ steps[n] \in Looked(t)
      BY <1>3, <2>7, <3>1
    <3> QED
      BY <2>8, <3>2
  <2>10. ASSUME NEW i \in Looked(t), ~Before(h, i)
         PROVE  \E n \in DOMAIN due : due[n] = toGregorian(i)
    <3>1. PICK n \in 1..MaxOccurrences : i = steps[n]
      BY <2>7
    <3>2. i \in Dates /\ ~Before(limit, i)
      BY <1>3, <2>7, <2>10
    <3> QED
      BY <2>6, <2>8, <3>1, <3>2
  <2> QED
    BY <2>9, <2>10
<1> QED
  BY <1>4, <1>5 DEF Occurs

\* The questions there are, up to whatever day: those of the occurrences that are looked
\* at and not handled.
Question(t, i) == [tx |-> t.id, due |-> toGregorian(i)]

Questions(T) ==
  UNION {{Question(t, i) : i \in {x \in Looked(t) : toGregorian(x) \notin t.handled}} : t \in T}

LEMMA QuestionsUpTo ==
  ASSUME NEW T, \A t \in T : Occurs(t), NEW h \in Dates
  PROVE  /\ \A p \in Questions(T) : IsKept(p.due) /\ \E t \in T : p.tx = t.id
         /\ pendingDueList(T, h) = {p \in Questions(T) : ~Before(h, isoToJalali(p.due))}
<1>1. ASSUME NEW i \in Dates PROVE isoToJalali(toGregorian(i)) = i /\ IsKept(toGregorian(i))
  BY DatesKeep DEF jalaliToIso, IsKept
<1>2. \A p : p \in Questions(T) <=>
        \E t \in T : \E i \in Looked(t) : toGregorian(i) \notin t.handled /\ p = Question(t, i)
  BY DEF Questions
<1>3. \A t \in T : Looked(t) \subseteq Dates
  BY DEF Looked
<1>4. ASSUME NEW t \in T, NEW p
      PROVE  LET due == dueOccurrences(t.date, t.repeat, t.until, h)
             IN p \in {[tx |-> t.id, due |-> due[n]] : n \in {m \in DOMAIN due : due[m] \notin t.handled}}
                <=> \E i \in Looked(t) : ~Before(h, i) /\ toGregorian(i) \notin t.handled
                                         /\ p = Question(t, i)
  <2> DEFINE due == dueOccurrences(t.date, t.repeat, t.until, h)
  <2>1. \A d : (\E n \in DOMAIN due : due[n] = d)
                  <=> \E i \in Looked(t) : ~Before(h, i) /\ d = toGregorian(i)
    BY DueLooked
  <2> HIDE DEF due
  <2>2. (p \in {[tx |-> t.id, due |-> due[n]] : n \in {m \in DOMAIN due : due[m] \notin t.handled}})
        <=> \E d : (\E n \in DOMAIN due : due[n] = d) /\ d \notin t.handled /\ p = [tx |-> t.id, due |-> d]
    OBVIOUS
  <2>3. (\E d : (\E n \in DOMAIN due : due[n] = d) /\ d \notin t.handled /\ p = [tx |-> t.id, due |-> d])
        <=> \E i \in Looked(t) : ~Before(h, i) /\ toGregorian(i) \notin t.handled
                                 /\ p = [tx |-> t.id, due |-> toGregorian(i)]
    BY <2>1
  <2> QED
    BY <2>2, <2>3 DEF due, Question
<1>5. \A p : p \in pendingDueList(T, h) <=>
        \E t \in T : \E i \in Looked(t) : ~Before(h, i) /\ toGregorian(i) \notin t.handled
                                          /\ p = Question(t, i)
  BY <1>4 DEF pendingDueList
<1>6. ASSUME NEW t \in T, NEW i \in Looked(t)
      PROVE  LET p == Question(t, i)
             IN p.tx = t.id /\ IsKept(p.due) /\ isoToJalali(p.due) = i
  BY <1>1, <1>3 DEF Question
<1> HIDE DEF Question, Questions, Looked
<1>7. \A p \in Questions(T) : IsKept(p.due) /\ \E t \in T : p.tx = t.id
  BY <1>2, <1>6
<1>8. \A p : p \in pendingDueList(T, h) <=> p \in Questions(T) /\ ~Before(h, isoToJalali(p.due))
  BY <1>2, <1>5, <1>6
<1> QED
  BY <1>7, <1>8

\* The notices of a member of a role, with what the bell holds of each kind.
Notes(T, role, lead) ==
  deriveNotifications(T, House, [role |-> role, lead |-> lead, off |-> {}, enabled |-> TRUE], Today)

Horizon(lead) == addDays(Today, safeLead(lead))

Askings(T, lead) ==
  {Note("recurring", IF Before(Today, isoToJalali(p.due)) THEN "soon" ELSE "overdue", p.due, p) :
     p \in pendingDueList(T, Horizon(lead))}

Owing(lead) ==
  {Note("bills", IF Before(isoToJalali(b.date), Today) THEN "overdue" ELSE "soon", b.date, b.id) :
     b \in {x \in House.bills :
              x.state = "unpaid" /\ UpTo(isoToJalali(x.date), Horizon(lead))}}

IsComing(e, lead) ==
  /\ UpTo(Today, isoToJalali(e.date)) /\ UpTo(isoToJalali(e.date), Horizon(lead))
  /\ <<e.id, e.date>> \notin House.dismissed

HowSoon(e) == IF isoToJalali(e.date) = Today THEN "pending" ELSE "soon"

Coming(lead) ==
  {Note("event", HowSoon(e), e.date, e.id) : e \in {x \in House.events : IsComing(x, lead)}}

Joining ==
  {Note("membership", "pending", None, r.id) :
     r \in {x \in House.requests : x.state = "pending"}}

\* The days of a lead lie ahead, and more of them further.
LEMMA Leads ==
  /\ safeLead(-1) = 0 /\ safeLead(0) = 0 /\ safeLead(Lead) = 3
  /\ Horizon(0) \in Dates /\ Horizon(Lead) \in Dates
  /\ Day(Horizon(0)) = Day(Today) /\ Day(Horizon(Lead)) = Day(Today) + 3
<1>1. Max({0, -1}) = 0 /\ Max({0, 0}) = 0 /\ Max({0, 3}) = 3
  BY DEF Max
<1>2. Min({60, 0}) = 0 /\ Min({60, 3}) = 3
  BY DEF Min
<1>3. safeLead(-1) = 0 /\ safeLead(0) = 0 /\ safeLead(Lead) = 3
  BY <1>1, <1>2 DEF safeLead, MAX_LEAD_DAYS, Lead
<1>4. Today \in Dates /\ Day(Today) \in Nat
  BY DatesAssumption, DateParts
<1> QED
  BY <1>3, <1>4, DaysAdded DEF Horizon

\* What the bell shows, kind by kind; a member who is no owner is not asked about
\* occurrences and does not see who wants to join.
LEMMA NotesAre ==
  ASSUME NEW T, NEW lead
  PROVE  /\ Notes(T, "owner", lead)
              = Askings(T, lead) \cup Owing(lead) \cup Coming(lead) \cup Joining \cup inventoryNotes(House)
         /\ Notes(T, "member", lead) = Owing(lead) \cup Coming(lead) \cup inventoryNotes(House)
         /\ \A n \in Askings(T, lead) : n.domain = "recurring"
         /\ \A n \in Owing(lead) : n.domain = "bills"
         /\ \A n \in Coming(lead) : n.domain = "event"
         /\ \A n \in Joining : n.domain = "membership"
         /\ \A n \in inventoryNotes(House) : n.domain = "inventory"
<1> DEFINE by(role) == [role |-> role, lead |-> lead, off |-> {}, enabled |-> TRUE]
<1>1. ASSUME NEW role
      PROVE  /\ by(role).off = {} /\ by(role).enabled /\ by(role).lead = lead
             /\ by(role).role = role
  OBVIOUS
<1>2. /\ recurringNotes(T, by("owner"), Today) = Askings(T, lead)
      /\ recurringNotes(T, by("member"), Today) = {}
  BY DEF recurringNotes, Askings, Horizon
<1>3. ASSUME NEW role PROVE billNotes(House, by(role), Today) = Owing(lead)
  BY DEF billNotes, Owing, Horizon
<1>4. ASSUME NEW role PROVE eventNotes(House, by(role), Today) = Coming(lead)
  <2>1. {x \in upcomingEvents(House.events, Today, safeLead(lead)) :
           <<x.id, x.date>> \notin House.dismissed}
          = {x \in House.events : IsComing(x, lead)}
    BY DEF upcomingEvents, Horizon, IsComing
  <2> QED
    BY <1>1, <2>1 DEF eventNotes, Coming, HowSoon
<1>5. /\ membershipNotes(House, by("owner")) = Joining
      /\ membershipNotes(House, by("member")) = {}
  BY DEF membershipNotes, Joining
<1>6. ASSUME NEW role
      PROVE  Notes(T, role, lead)
               = recurringNotes(T, by(role), Today) \cup billNotes(House, by(role), Today)
                 \cup eventNotes(House, by(role), Today) \cup membershipNotes(House, by(role))
                 \cup inventoryNotes(House)
  BY DEF Notes, deriveNotifications
<1>7. /\ \A n \in Askings(T, lead) : n.domain = "recurring"
      /\ \A n \in Owing(lead) : n.domain = "bills"
      /\ \A n \in Coming(lead) : n.domain = "event"
      /\ \A n \in Joining : n.domain = "membership"
      /\ \A n \in inventoryNotes(House) : n.domain = "inventory"
  <2>1. \A domain, severity, date, ref : Note(domain, severity, date, ref).domain = domain
    BY DEF Note
  <2>2. \A n \in Askings(T, lead) : n.domain = "recurring"
    BY <2>1 DEF Askings
  <2>3. \A n \in Owing(lead) : n.domain = "bills"
    BY <2>1 DEF Owing
  <2>4. \A n \in Coming(lead) : n.domain = "event"
    BY <2>1 DEF Coming
  <2>5. \A n \in Joining : n.domain = "membership"
    BY <2>1 DEF Joining
  <2>6. \A n \in inventoryNotes(House) : n.domain = "inventory"
    BY <2>1 DEF inventoryNotes
  <2> QED
    BY <2>2, <2>3, <2>4, <2>5, <2>6
<1> HIDE DEF by
<1> QED
  BY <1>2, <1>3, <1>4, <1>5, <1>6, <1>7

\* A longer lead only adds.
LEMMA LongerLead ==
  ASSUME NEW T, \A t \in T : Occurs(t)
  PROVE  Notes(T, "owner", -1) = Notes(T, "owner", 0) /\ Notes(T, "owner", 0) \subseteq Notes(T, "owner", Lead)
<1>1. Horizon(-1) = Horizon(0)
  BY Leads DEF Horizon
<1>2. Askings(T, -1) = Askings(T, 0) /\ Owing(-1) = Owing(0) /\ Coming(-1) = Coming(0)
  BY <1>1 DEF Askings, Owing, Coming, IsComing
<1>3. ASSUME NEW j \in Dates, UpTo(j, Horizon(0)) PROVE UpTo(j, Horizon(Lead))
  <2>1. Day(j) \in Nat /\ Day(Today) \in Nat /\ ~(Day(Today) < Day(j))
    BY <1>3, DatesAssumption, DateParts, DayOrder, Leads DEF UpTo
  <2> QED
    BY <2>1, DayOrder, Leads DEF UpTo
<1>4. \A x \in House.bills \cup House.events : isoToJalali(x.date) \in Dates
  BY HouseAssumption DEF IsKept
<1>5. pendingDueList(T, Horizon(0)) \subseteq pendingDueList(T, Horizon(Lead))
  BY <1>3, QuestionsUpTo, Leads DEF IsKept, UpTo
<1>6. Askings(T, 0) \subseteq Askings(T, Lead)
  BY <1>5 DEF Askings
<1>7. Owing(0) \subseteq Owing(Lead) /\ Coming(0) \subseteq Coming(Lead)
  BY <1>3, <1>4 DEF Owing, Coming, IsComing
<1>8. /\ Notes(T, "owner", -1)
           = Askings(T, -1) \cup Owing(-1) \cup Coming(-1) \cup Joining \cup inventoryNotes(House)
      /\ Notes(T, "owner", 0)
           = Askings(T, 0) \cup Owing(0) \cup Coming(0) \cup Joining \cup inventoryNotes(House)
      /\ Notes(T, "owner", Lead)
           = Askings(T, Lead) \cup Owing(Lead) \cup Coming(Lead) \cup Joining
             \cup inventoryNotes(House)
  BY NotesAre
<1> QED
  BY <1>2, <1>6, <1>7, <1>8

\* What is due and not handled is what the bell calls overdue.
LEMMA OverdueIsDue ==
  ASSUME NEW T, \A t \in T : Occurs(t)
  PROVE  LET overdue == {n \in Notes(T, "owner", Lead) : n.domain = "recurring" /\ n.severity = "overdue"}
         IN {n.ref : n \in overdue} = pendingDueList(T, Today)
<1> DEFINE overdue == {n \in Notes(T, "owner", Lead) : n.domain = "recurring" /\ n.severity = "overdue"}
           note(p) == Note("recurring", IF Before(Today, isoToJalali(p.due)) THEN "soon" ELSE "overdue",
                           p.due, p)
           pending == pendingDueList(T, Horizon(Lead))
<1>1. overdue = {n \in Askings(T, Lead) : n.severity = "overdue"}
  BY NotesAre
<1>2. \A p : (note(p).severity = "overdue" <=> ~Before(Today, isoToJalali(p.due))) /\ note(p).ref = p
  BY DEF Note
<1>3. Askings(T, Lead) = {note(p) : p \in pending}
  BY DEF Askings
<1>4. pendingDueList(T, Today) = {p \in pending : ~Before(Today, isoToJalali(p.due))}
  <2>1. ASSUME NEW j \in Dates, ~Before(Today, j) PROVE ~Before(Horizon(Lead), j)
    <3>1. Day(j) \in Nat /\ Day(Today) \in Nat /\ ~(Day(Today) < Day(j))
      BY <2>1, DatesAssumption, DateParts, DayOrder
    <3> QED
      BY <3>1, DayOrder, Leads
  <2>2. /\ \A p \in Questions(T) : isoToJalali(p.due) \in Dates
        /\ pending = {p \in Questions(T) : ~Before(Horizon(Lead), isoToJalali(p.due))}
        /\ pendingDueList(T, Today) = {p \in Questions(T) : ~Before(Today, isoToJalali(p.due))}
    BY QuestionsUpTo, DatesAssumption, Leads DEF IsKept
  <2> HIDE DEF pending
  <2> QED
    BY <2>1, <2>2
<1> HIDE DEF note, pending, overdue
<1>5. overdue = {note(p) : p \in pendingDueList(T, Today)}
  BY <1>1, <1>2, <1>3, <1>4
<1>6. {n.ref : n \in overdue} = pendingDueList(T, Today)
  BY <1>2, <1>5
<1> QED
  BY <1>6 DEF overdue

\* Between a day and the end of a lead there are only the days of the lead.
LEMMA DaysOfLead ==
  ASSUME NEW i \in Dates, NEW j \in Dates, NEW n \in Nat, ~Before(j, i), ~Before(addDays(i, n), j)
  PROVE  \E k \in 0..n : j = addDays(i, k) /\ (Before(i, j) => k > 0)
<1> DEFINE k == Day(j) - Day(i)
<1>1. addDays(i, n) \in Dates /\ Day(addDays(i, n)) = Day(i) + n
  BY DaysAdded
<1>2. Day(i) \in Nat /\ Day(j) \in Nat /\ ~(Day(j) < Day(i)) /\ ~(Day(i) + n < Day(j))
  BY <1>1, DateParts, DayOrder
<1>3. k \in 0..n /\ (Before(i, j) => k > 0)
  BY <1>2, DayOrder
<1>4. addDays(i, k) \in Dates /\ Day(addDays(i, k)) = Day(i) + k
  BY <1>3, DaysAdded
<1>5. Day(addDays(i, k)) = Day(j)
  BY <1>2, <1>4
<1> HIDE DEF k
<1>6. addDays(i, k) = j
  BY <1>4, <1>5, <1>2, DayOrder, DateOrder
<1> QED
  BY <1>3, <1>6

\* What the bell calls soon is on one of the days of its lead.
LEMMA SoonIsAhead ==
  ASSUME NEW T, \A t \in T : Occurs(t), NEW n \in Notes(T, "owner", Lead),
         n.domain = "recurring", n.severity = "soon"
  PROVE  \E day \in 1..Lead : n.date = jalaliToIso(addDays(Today, day))
<1>1. n \in Askings(T, Lead)
  BY NotesAre
<1>2. PICK p \in pendingDueList(T, Horizon(Lead)) :
        n = Note("recurring", IF Before(Today, isoToJalali(p.due)) THEN "soon" ELSE "overdue", p.due, p)
  BY <1>1 DEF Askings
<1>3. Before(Today, isoToJalali(p.due)) /\ n.date = p.due
  BY <1>2 DEF Note
<1>4. IsKept(p.due) /\ ~Before(Horizon(Lead), isoToJalali(p.due))
  BY QuestionsUpTo, Leads
<1>5. Today \in Dates /\ Horizon(Lead) = addDays(Today, 3)
  BY DatesAssumption, Leads DEF Horizon
<1>6. ~Before(isoToJalali(p.due), Today)
  BY <1>3, <1>4, <1>5, DayOrder, DateParts DEF IsKept
<1>7. \E k \in 0..3 : isoToJalali(p.due) = addDays(Today, k) /\ (Before(Today, isoToJalali(p.due)) => k > 0)
  BY <1>4, <1>5, <1>6, DaysOfLead DEF IsKept
<1> QED
  BY <1>3, <1>4, <1>7 DEF IsKept, Lead, jalaliToIso

\* An unpaid bill of a day gone by is called overdue, whoever looks.
LEMMA OldBills ==
  ASSUME NEW T
  PROVE  LET unpaid == {b \in House.bills : b.state = "unpaid"}
         IN {b.id : b \in {x \in unpaid : Before(isoToJalali(x.date), Today)}}
              \subseteq {n.ref : n \in {m \in Notes(T, "member", 0) : m.severity = "overdue"}}
<1> SUFFICES ASSUME NEW b \in House.bills, b.state = "unpaid", Before(isoToJalali(b.date), Today)
             PROVE  \E n \in Notes(T, "member", 0) : n.severity = "overdue" /\ n.ref = b.id
  OBVIOUS
<1> DEFINE n == Note("bills", IF Before(isoToJalali(b.date), Today) THEN "overdue" ELSE "soon", b.date, b.id)
<1>1. isoToJalali(b.date) \in Dates /\ Today \in Dates
  BY HouseAssumption, DatesAssumption DEF IsKept
<1>2. UpTo(isoToJalali(b.date), Horizon(0))
  BY <1>1, DayOrder, DateParts, Leads DEF UpTo
<1>3. n \in Owing(0)
  BY <1>2 DEF Owing
<1>4. n.severity = "overdue" /\ n.ref = b.id
  BY DEF Note
<1> HIDE DEF n
<1> QED
  BY <1>3, <1>4, NotesAre

\* Each notice can be looked up.
LEMMA RowsAreThere ==
  ASSUME NEW T, \A t \in T : Occurs(t)
  PROVE  \A n \in Notes(T, "owner", Lead) : Row(n, T, House)
<1> DEFINE rows == Known(T, House)
<1>1. /\ rows["recurring"] = {[tx |-> t.id] : t \in T} /\ rows["bills"] = {b.id : b \in House.bills}
      /\ rows["event"] = {e.id : e \in House.events}
      /\ rows["membership"] = {r.id : r \in House.requests}
      /\ rows["inventory"] = {i.id : i \in House.stock}
  BY DEF Known
<1>2. \A domain, severity, date, ref :
        /\ Note(domain, severity, date, ref).domain = domain
        /\ Note(domain, severity, date, ref).ref = ref
  BY DEF Note
<1> HIDE DEF rows
<1>3. ASSUME NEW n \in Askings(T, Lead) PROVE Row(n, T, House)
  <2>1. PICK p \in pendingDueList(T, Horizon(Lead)) : n.domain = "recurring" /\ n.ref = p
    BY <1>2 DEF Askings
  <2>2. PICK t \in T : p.tx = t.id
    BY QuestionsUpTo, Leads
  <2> QED
    BY <1>1, <2>1, <2>2 DEF Row, rows
<1>4. ASSUME NEW n \in Owing(Lead) \cup Coming(Lead) \cup Joining \cup inventoryNotes(House)
      PROVE  Row(n, T, House)
  <2>1. n.domain # "recurring"
    BY NotesAre
  <2>2. n.ref \in rows[n.domain]
    <3>1. CASE n \in Owing(Lead)
      BY <1>1, <1>2, <3>1 DEF Owing
    <3>2. CASE n \in Coming(Lead)
      <4>1. PICK e \in House.events : n.domain = "event" /\ n.ref = e.id
        BY <1>2, <3>2 DEF Coming
      <4> QED
        BY <1>1, <4>1
    <3>3. CASE n \in Joining
      BY <1>1, <1>2, <3>3 DEF Joining
    <3>4. CASE n \in inventoryNotes(House)
      BY <1>1, <1>2, <3>4 DEF inventoryNotes, lowItems
    <3> QED
      BY <3>1, <3>2, <3>3, <3>4
  <2> QED
    BY <2>1, <2>2 DEF Row, rows
<1> QED
  BY <1>3, <1>4, NotesAre

\* A set has as many elements as its parts have together.
LEMMA CountIsSum ==
  ASSUME NEW S, IsFiniteSet(S)
  PROVE  Cardinality(S) = SumOver([x \in S |-> 1], S)
<1> DEFINE f == [x \in S |-> 1]
           U == {A \in SUBSET S : Cardinality(A) = SumOver(f, A)}
<1>1. \A x \in S : f[x] \in Int /\ f[x] = 1
  OBVIOUS
<1> HIDE DEF f
<1>2. {} \in U
  BY <1>1, SumOverStep, TakenOut
<1>3. ASSUME NEW A \in SUBSET S, NEW y \in A, A \ {y} \in U PROVE A \in U
  <2>1. SumOver(f, A) = f[y] + SumOver(f, A \ {y})
    BY <1>1, SumOverStep
  <2>2. Cardinality(A \ {y}) = Cardinality(A) - 1 /\ Cardinality(A) \in Nat
    BY TakenOut
  <2>3. f[y] = 1 /\ SumOver(f, A \ {y}) = Cardinality(A \ {y})
    BY <1>1, <1>3
  <2> QED
    BY <2>1, <2>2, <2>3
<1>4. \A A \in SUBSET S : \A y \in A : A \ {y} \in U => A \in U
  BY <1>3
<1> HIDE DEF U
<1>5. \A A \in SUBSET S : A \in U
  BY <1>2, <1>4, Subsets
<1> QED
  BY <1>5 DEF U, f

LEMMA PartsCount ==
  ASSUME NEW S, IsFiniteSet(S), NEW V, IsFiniteSet(V), NEW key, \A x \in S : key[x] \in V,
         NEW b, b = [v \in V |-> Cardinality({x \in S : key[x] = v})]
  PROVE  Total(b) = Cardinality(S)
<1> DEFINE f == [x \in S |-> 1]
           part(v) == {x \in S : key[x] = v}
           c == [v \in V |-> SumOver(f, part(v))]
<1>1. ASSUME NEW v \in V PROVE Cardinality(part(v)) = SumOver(f, part(v))
  <2>1. IsFiniteSet(part(v)) /\ part(v) \in SUBSET S
    BY FS_Subset
  <2>2. Cardinality(part(v)) = SumOver([x \in part(v) |-> 1], part(v))
    BY <2>1, CountIsSum
  <2>3. SumOver([x \in part(v) |-> 1], part(v)) = SumOver(f, part(v))
    <3>1. \A x \in part(v) : [y \in part(v) |-> 1][x] = f[x]
      BY <2>1
    <3> HIDE DEF f, part
    <3> QED
      BY <3>1, SumOverSame
  <2> QED
    BY <2>2, <2>3
<1>2. \A v \in V : b[v] = c[v]
  BY <1>1
<1>3. SumOver(c, V) = SumOver(f, S)
  <2>1. \A x \in S : f[x] \in Int
    OBVIOUS
  <2> HIDE DEF f
  <2> QED
    BY <2>1, PartsAddUp
<1>4. SumOver(f, S) = Cardinality(S)
  BY CountIsSum
<1>5. Total(b) = SumOver(b, V)
  <2>1. b = [v \in V |-> b[v]]
    OBVIOUS
  <2> QED
    BY <2>1 DEF SumOver
<1> HIDE DEF c, f
<1>6. SumOver(b, V) = SumOver(c, V)
  BY <1>2, SumOverSame
<1> QED
  BY <1>3, <1>4, <1>5, <1>6

LEMMA QuestionsAreFinite ==
  ASSUME NEW T, IsFiniteSet(T), \A t \in T : Occurs(t), NEW h \in Dates
  PROVE  IsFiniteSet(pendingDueList(T, h))
<1> DEFINE of(t) == {Question(t, i) : i \in {x \in Looked(t) : toGregorian(x) \notin t.handled}}
<1>1. ASSUME NEW t \in T PROVE IsFiniteSet(of(t))
  <2> DEFINE step == [n \in 1..MaxOccurrences |-> stepJalali(isoToJalali(t.date), t.repeat, n)]
             steps == {step[n] : n \in 1..MaxOccurrences}
             asked == [i \in Looked(t) |-> Question(t, i)]
  <2>1. IsFiniteSet(1..MaxOccurrences)
    BY DatesAssumption, FS_Interval
  <2>2. IsFiniteSet(steps)
    <3> HIDE DEF step
    <3> QED
      BY <2>1, Images
  <2>3. Looked(t) \subseteq steps
    BY DEF Looked
  <2>4. IsFiniteSet(Looked(t))
    BY <2>2, <2>3, FS_Subset
  <2>5. IsFiniteSet({asked[i] : i \in Looked(t)})
    <3> HIDE DEF asked
    <3> QED
      BY <2>4, Images
  <2>6. of(t) \subseteq {asked[i] : i \in Looked(t)}
    OBVIOUS
  <2> QED
    BY <2>5, <2>6, FS_Subset
<1>2. IsFiniteSet({of(t) : t \in T})
  <2> DEFINE g == [t \in T |-> of(t)]
  <2>1. IsFiniteSet({g[t] : t \in T})
    <3> HIDE DEF g
    <3> QED
      BY Images
  <2>2. {g[t] : t \in T} = {of(t) : t \in T}
    OBVIOUS
  <2> QED
    BY <2>1, <2>2
<1> HIDE DEF of
<1>3. IsFiniteSet(UNION {of(t) : t \in T})
  BY <1>1, <1>2, FS_UNION
<1>4. pendingDueList(T, h) \subseteq Questions(T)
  BY QuestionsUpTo
<1> QED
  BY <1>3, <1>4, FS_Subset DEF Questions, of

\* The groups the bell shows hold all its notices.
LEMMA BellGroups ==
  ASSUME NEW T, IsFiniteSet(T), \A t \in T : Occurs(t)
  PROVE  LET groups == NoticeGroups(Notes(T, "owner", Lead))
         IN Total([d \in DOMAIN groups |-> Cardinality(groups[d])])
              = Cardinality(Notes(T, "owner", Lead))
<1> DEFINE notices == Notes(T, "owner", Lead)
           key == [n \in notices |-> n.domain]
           V == {key[n] : n \in notices}
           groups == NoticeGroups(notices)
           b == [d \in DOMAIN groups |-> Cardinality(groups[d])]
<1>1. IsFiniteSet(Askings(T, Lead))
  <2> DEFINE P == pendingDueList(T, Horizon(Lead))
             note == [p \in P |->
                        Note("recurring", IF Before(Today, isoToJalali(p.due)) THEN "soon" ELSE "overdue",
                             p.due, p)]
  <2>1. IsFiniteSet(P)
    BY QuestionsAreFinite, Leads
  <2>2. Askings(T, Lead) = {note[p] : p \in P}
    BY DEF Askings
  <2> HIDE DEF note, P
  <2> QED
    BY <2>1, <2>2, Images
<1>2. IsFiniteSet(Owing(Lead))
  <2> DEFINE S == {x \in House.bills : x.state = "unpaid" /\ UpTo(isoToJalali(x.date), Horizon(Lead))}
             note == [y \in S |->
                        Note("bills", IF Before(isoToJalali(y.date), Today) THEN "overdue" ELSE "soon",
                             y.date, y.id)]
  <2>1. IsFiniteSet(S)
    BY HouseAssumption, FS_Subset
  <2>2. Owing(Lead) = {note[x] : x \in S}
    BY DEF Owing
  <2> HIDE DEF note, S
  <2> QED
    BY <2>1, <2>2, Images
<1>3. IsFiniteSet(Coming(Lead))
  <2> DEFINE S == {x \in House.events : IsComing(x, Lead)}
             note == [e \in S |-> Note("event", HowSoon(e), e.date, e.id)]
  <2>1. IsFiniteSet(S)
    BY HouseAssumption, FS_Subset
  <2>2. Coming(Lead) = {note[x] : x \in S}
    BY DEF Coming
  <2> HIDE DEF note, S
  <2> QED
    BY <2>1, <2>2, Images
<1>4. IsFiniteSet(Joining)
  <2> DEFINE S == {x \in House.requests : x.state = "pending"}
             note == [r \in S |-> Note("membership", "pending", None, r.id)]
  <2>1. IsFiniteSet(S)
    BY HouseAssumption, FS_Subset
  <2>2. Joining = {note[x] : x \in S}
    BY DEF Joining
  <2> HIDE DEF note, S
  <2> QED
    BY <2>1, <2>2, Images
<1>5. IsFiniteSet(inventoryNotes(House))
  <2> DEFINE S == {x \in lowItems(House.stock) : x.id \notin queuedInventoryIds(House.lists)}
             note == [i \in S |-> Note("inventory", "pending", None, i.id)]
  <2>1. IsFiniteSet(S)
    <3>1. S \subseteq House.stock
      BY DEF lowItems
    <3> QED
      BY <3>1, HouseAssumption, FS_Subset
  <2>2. inventoryNotes(House) = {note[x] : x \in S}
    BY DEF inventoryNotes
  <2> HIDE DEF note, S
  <2> QED
    BY <2>1, <2>2, Images
<1>6. IsFiniteSet(notices)
  <2>1. notices = Askings(T, Lead) \cup Owing(Lead) \cup Coming(Lead) \cup Joining
                    \cup inventoryNotes(House)
    BY NotesAre
  <2>2. IsFiniteSet(Askings(T, Lead) \cup Owing(Lead))
    BY <1>1, <1>2, FS_Union
  <2>3. IsFiniteSet(Askings(T, Lead) \cup Owing(Lead) \cup Coming(Lead))
    BY <1>3, <2>2, FS_Union
  <2>4. IsFiniteSet(Askings(T, Lead) \cup Owing(Lead) \cup Coming(Lead) \cup Joining)
    BY <1>4, <2>3, FS_Union
  <2> HIDE DEF notices
  <2> QED
    BY <1>5, <2>1, <2>4, FS_Union
<1> HIDE DEF notices
<1>7. b = [v \in V |-> Cardinality({n \in notices : key[n] = v})]
  <2>1. groups = [d \in {n.domain : n \in notices} |-> {n \in notices : n.domain = d}]
    BY DEF NoticeGroups
  <2>2. V = {n.domain : n \in notices} /\ \A n \in notices : key[n] = n.domain
    OBVIOUS
  <2> HIDE DEF V, key, groups
  <2>3. DOMAIN groups = V
    BY <2>1, <2>2
  <2>4. \A v \in V : groups[v] = {n \in notices : key[n] = v}
    BY <2>1, <2>2
  <2> QED
    BY <2>3, <2>4
<1>8. \A n \in notices : key[n] \in V
  OBVIOUS
<1>9. IsFiniteSet(V)
  <2> HIDE DEF key
  <2> QED
    BY <1>6, Images
<1> HIDE DEF b, V, key
<1>10. Total(b) = Cardinality(notices)
  BY <1>6, <1>7, <1>8, <1>9, PartsCount
<1> QED
  BY <1>10 DEF b, notices

\* The bell and what it counts agree.
LEMMA BellIsSound ==
  ASSUME NEW T, IsFiniteSet(T), \A t \in T : Occurs(t)
  PROVE  BellAgrees(T)
<1> DEFINE notes(role, lead) ==
             deriveNotifications(T, House, [role |-> role, lead |-> lead, off |-> {}, enabled |-> TRUE],
                                 Today)
           notices == Notes(T, "owner", Lead)
           unpaid == {b \in House.bills : b.state = "unpaid"}
<1>1. \A role, lead : notes(role, lead) = Notes(T, role, lead)
  BY DEF Notes
<1>2. {n.ref : n \in {x \in notices : x.domain = "recurring" /\ x.severity = "overdue"}}
        = pendingDueList(T, Today)
  BY OverdueIsDue
<1>3. \A n \in {x \in notices : x.domain = "recurring" /\ x.severity = "soon"} :
        \E day \in 1..Lead : n.date = jalaliToIso(addDays(Today, day))
  BY SoonIsAhead
<1>4. Notes(T, "owner", -1) = Notes(T, "owner", 0) /\ Notes(T, "owner", 0) \subseteq notices
  BY LongerLead
<1>5. {b.id : b \in {x \in unpaid : Before(isoToJalali(x.date), Today)}}
        \subseteq {n.ref : n \in {m \in Notes(T, "member", 0) : m.severity = "overdue"}}
  BY OldBills
<1>6. \A n \in notices : Row(n, T, House)
  BY RowsAreThere
<1>7. Notes(T, "member", Lead) = {n \in notices : n.domain \notin {"recurring", "membership"}}
  BY NotesAre
<1>8. LET groups == NoticeGroups(notices)
      IN Total([d \in DOMAIN groups |-> Cardinality(groups[d])]) = Cardinality(notices)
  BY BellGroups
<1> QED
  BY <1>2, <1>3, <1>4, <1>5, <1>6, <1>7, <1>8 DEF BellAgrees, Notes

LEMMA WholeWeeks ==
  ASSUME NEW n \in Nat, NEW k \in Nat
  PROVE  (n + k - (n % 7)) % 7 = k % 7
<1>1. n - (n % 7) = 7 * (n \div 7) /\ n \div 7 \in Nat
  BY SMT
<1>2. n + k - (n % 7) = k + 7 * (n \div 7)
  BY <1>1
<1> QED
  BY <1>1, <1>2, SMT

\* The days of a month stand under their weekdays, from the first to the last.
LEMMA CellsAreDays ==
  ASSUME NEW jy \in Int, jy > 979, NEW jm \in 1..12
  PROVE  LET cells == monthCells(jy, jm)
         IN /\ \A i \in DOMAIN cells :
                 cells[i] # None => (i - 1) % 7 = weekdayIndex(<<jy, jm, cells[i]>>)
            /\ cells[Len(cells)] = daysInMonth(jy, jm)
<1> DEFINE first == <<jy, jm, 1>>
           lead == weekdayIndex(first)
           long == daysInMonth(jy, jm)
           cells == monthCells(jy, jm)
           at(d) == <<jy, jm, d>>
           Shift == Epoch + 4
<1>1. long \in 29..31
  BY MonthLong
<1>2. ASSUME NEW d \in 1..long
      PROVE  at(d) \in Dates /\ Day(at(d)) = Day(first) + d - 1
  <2>1. at(d) \in Dates
    BY <1>1 DEF Dates, IsDate
  <2>2. /\ YearDays(jy - 979) \in Nat /\ DaysOfYear(jm, 1) \in Nat
        /\ DaysOfYear(jm, d) = DaysOfYear(jm, 1) + d - 1
    <3>1. jy - 979 \in Nat
      OBVIOUS
    <3> QED
      BY <1>1, <3>1, DayIsNat DEF DaysOfYear
  <2> QED
    BY <2>1, <2>2 DEF Day
<1>3. first \in Dates /\ Day(first) \in Nat
  BY <1>1, <1>2, DateParts
<1>4. ASSUME NEW j \in Dates PROVE weekdayIndex(j) = (Day(j) + Shift) % 7
  <2>1. DayNumber(toGregorian(j)) = Day(j) + Epoch
    BY Kept
  <2>2. Day(j) \in Nat /\ Epoch \in Nat
    BY DateParts, EpochIsNat
  <2>3. weekdayIndex(j) = (((Day(j) + Epoch + 3) % 7) + 1) % 7
    BY <2>1 DEF weekdayIndex, getDay
  <2> QED
    BY <2>2, <2>3, SMT
<1>5. Shift \in Nat
  BY EpochIsNat
<1>6. lead = (Day(first) + Shift) % 7 /\ lead \in 0..6
  BY <1>3, <1>4, <1>5
<1> HIDE DEF Shift
<1>7. cells = [i \in 1..(lead + long) |-> IF i <= lead THEN None ELSE i - lead]
  BY DEF monthCells
<1> HIDE DEF lead, long, cells
<1>8. ASSUME NEW i \in DOMAIN cells, cells[i] # None
      PROVE  (i - 1) % 7 = weekdayIndex(at(cells[i]))
  <2>1. i \in 1..(lead + long) /\ i > lead /\ cells[i] = i - lead
    BY <1>1, <1>6, <1>7, <1>8
  <2>2. i - lead \in 1..long
    BY <1>1, <1>6, <2>1
  <2>3. weekdayIndex(at(i - lead)) = (Day(at(i - lead)) + Shift) % 7
        /\ Day(at(i - lead)) = Day(first) + (i - lead) - 1
    BY <1>2, <1>4, <2>2
  <2> HIDE DEF first, at
  <2> DEFINE n == Day(first) + Shift
  <2>4. n \in Nat /\ i - 1 \in Nat /\ lead \in Nat
    BY <1>1, <1>3, <1>5, <1>6, <2>1
  <2>5. Day(at(i - lead)) + Shift = n + (i - 1) - lead
    BY <1>1, <1>3, <1>5, <2>1, <2>3, <2>4
  <2>6. (n + (i - 1) - (n % 7)) % 7 = (i - 1) % 7
    <3> HIDE DEF n
    <3> QED
      BY <2>4, WholeWeeks
  <2>7. lead = n % 7
    BY <1>6
  <2> HIDE DEF n
  <2>8. (n + (i - 1) - lead) % 7 = (i - 1) % 7
    BY <2>6, <2>7
  <2> QED
    BY <2>1, <2>3, <2>5, <2>8
<1>9. Len(cells) = lead + long
  <2>1. lead + long \in Nat
    BY <1>1, <1>6
  <2> QED
    BY <1>7, <2>1
<1>10. cells[Len(cells)] = long
  BY <1>1, <1>6, <1>7, <1>9
<1> QED
  BY <1>8, <1>10 DEF cells, long

\* The marks of the days of a month are the events of each day, and all events of the month.
LEMMA EventsOfDays ==
  ASSUME NEW jy \in Int, NEW jm \in 1..12
  PROVE  LET counts == eventCountByDay(House.events, jy, jm)
             month == {e \in House.events : InMonth(e, jy, jm)}
         IN /\ \A d \in DOMAIN counts :
                 counts[d] = Cardinality(eventsOnDay(House.events, <<jy, jm, d>>))
            /\ Total(counts) = Cardinality(month)
<1> DEFINE counts == eventCountByDay(House.events, jy, jm)
           month == {e \in House.events : InMonth(e, jy, jm)}
           key == [e \in month |-> isoToJalali(e.date)[3]]
           V == {key[e] : e \in month}
<1>1. ASSUME NEW e \in House.events
      PROVE  LET j == isoToJalali(e.date) IN j = <<j[1], j[2], j[3]>>
  BY HouseAssumption, ADate DEF IsKept
<1>2. counts = [d \in V |-> Cardinality(eventsOnDay(House.events, <<jy, jm, d>>))]
  <2> DEFINE days == {isoToJalali(e.date) : e \in month}
  <2>1. {j[3] : j \in days} = V
    OBVIOUS
  <2>2. counts = [d \in {j[3] : j \in days} |->
                    Cardinality({e \in House.events : isoToJalali(e.date) = <<jy, jm, d>>})]
    BY DEF eventCountByDay
  <2> HIDE DEF days, V, counts
  <2> QED
    BY <2>1, <2>2 DEF eventsOnDay
<1>3. ASSUME NEW d \in V
      PROVE  eventsOnDay(House.events, <<jy, jm, d>>) = {e \in month : key[e] = d}
  <2>1. \A e \in House.events : isoToJalali(e.date) = <<jy, jm, d>>
          <=> e \in month /\ isoToJalali(e.date)[3] = d
    <3> SUFFICES ASSUME NEW e \in House.events
                 PROVE  isoToJalali(e.date) = <<jy, jm, d>>
                          <=> InMonth(e, jy, jm) /\ isoToJalali(e.date)[3] = d
      OBVIOUS
    <3> DEFINE j == isoToJalali(e.date)
    <3>1. j = <<j[1], j[2], j[3]>> /\ (InMonth(e, jy, jm) <=> j[1] = jy /\ j[2] = jm)
      BY <1>1 DEF InMonth
    <3> HIDE DEF j
    <3> QED
      BY <3>1 DEF j
  <2> QED
    BY <2>1 DEF eventsOnDay
<1>4. IsFiniteSet(month) /\ \A e \in month : key[e] \in V
  BY HouseAssumption, FS_Subset
<1>5. IsFiniteSet(V)
  <2> HIDE DEF key
  <2> QED
    BY <1>4, Images
<1> HIDE DEF counts, month, key, V
<1>6. counts = [v \in V |-> Cardinality({e \in month : key[e] = v})]
  BY <1>2, <1>3
<1>7. Total(counts) = Cardinality(month)
  BY <1>4, <1>5, <1>6, PartsCount
<1> QED
  BY <1>2, <1>7 DEF counts, month

\* What comes in the next days is what is on each of them.
LEMMA ComingDays ==
  upcomingEvents(House.events, Today, 30)
    = UNION {eventsOnDay(House.events, addDays(Today, n)) : n \in 0..30}
<1>1. Today \in Dates /\ \A e \in House.events : isoToJalali(e.date) \in Dates
  BY HouseAssumption, DatesAssumption DEF IsKept
<1>2. ASSUME NEW j \in Dates
      PROVE  UpTo(Today, j) /\ UpTo(j, addDays(Today, 30)) <=> \E n \in 0..30 : j = addDays(Today, n)
  <2>0. 30 \in Nat /\ 0..30 \subseteq Nat
    OBVIOUS
  <2>1. ASSUME UpTo(Today, j), UpTo(j, addDays(Today, 30))
        PROVE  \E n \in 0..30 : j = addDays(Today, n)
    <3>1. ~Before(j, Today) /\ ~Before(addDays(Today, 30), j)
      BY <2>1 DEF UpTo
    <3>2. \E k \in 0..30 : j = addDays(Today, k) /\ (Before(Today, j) => k > 0)
      BY <1>1, <2>0, <3>1, DaysOfLead
    <3> QED
      BY <3>2
  <2>2. ASSUME NEW n \in 0..30, j = addDays(Today, n)
        PROVE  UpTo(Today, j) /\ UpTo(j, addDays(Today, 30))
    <3>1. /\ Day(j) = Day(Today) + n /\ Day(Today) \in Nat
          /\ addDays(Today, 30) \in Dates /\ Day(addDays(Today, 30)) = Day(Today) + 30
      BY <1>1, <2>0, <2>2, DaysAdded, DateParts
    <3> QED
      BY <1>1, <3>1, DayOrder DEF UpTo
  <2> QED
    BY <2>1, <2>2
<1>3. upcomingEvents(House.events, Today, 30)
        = {e \in House.events : UpTo(Today, isoToJalali(e.date))
                                /\ UpTo(isoToJalali(e.date), addDays(Today, 30))}
  BY DEF upcomingEvents
<1> QED
  BY <1>1, <1>2, <1>3 DEF eventsOnDay

\* The calendar page shows the days and the events there are.
LEMMA CalendarIsSound == CalendarAgrees(Today[1], Today[2])
<1>1. Today[1] \in Int /\ Today[1] > 979 /\ Today[2] \in 1..12
  BY DatesAssumption, ADate
<1> QED
  BY <1>1, CellsAreDays, EventsOfDays, ComingDays DEF CalendarAgrees

\* What the page has repeats as it was entered.
LEMMA SeenOccurs == TxInv => \A t \in seen : Occurs(t) /\ Repeating(t) \in DOMAIN Falls
<1> SUFFICES ASSUME TxInv, NEW t \in seen PROVE Occurs(t) /\ Repeating(t) \in DOMAIN Falls
  OBVIOUS
<1>1. Repeating(t) \in DOMAIN Falls
  BY DEF TxInv, TxOf
<1>2. PICK x \in First \cup Drafts : Repeating(t) = Repeating(x)
  BY <1>1 DEF Falls
<1>3. t.date = x.date /\ t.repeat = x.repeat /\ t.until = x.until
  BY <1>2 DEF Repeating
<1> QED
  BY <1>1, <1>3, DatesAssumption DEF Occurs, Repeats

LEMMA SeenIsDue == TxInv => \A t \in seen : DueDays(t)
  BY SeenOccurs, DueDaysOf DEF Occurs

\* The occurrences of what a page has that are due are, in ascending order, exactly the days
\* after its start, up to today and to its end, that fall on its day of the week, of the month
\* or of the year, where a month too short has its last day instead, but for those past
\* the last one looked at: no short month moves the day, and no occurrence is skipped.
THEOREM DueDates == Spec => [](\A t \in seen : DueDays(t))
  BY SeenIsDue, TxHolds, PTL

\* The occurrences that are due are the days on which something falls, the bell agrees with
\* the questions and leaves nothing out, and the calendar shows the days and events there are,
\* whatever the page has, on any day.
THEOREM DueHolds == Spec => []DueIsSound
<1>1. TxInv => DueIsSound
  <2>1. TxInv => IsFiniteSet(seen)
    BY DEF TxInv
  <2> QED
    BY <2>1, SeenOccurs, SeenIsDue, BellIsSound, CalendarIsSound DEF DueIsSound
<1> QED
  BY <1>1, TxHolds, PTL

-----------------------------------------------------------------------------
(* The reports.                                                            *)

\* The number of a date the app keeps, and the date of a day before or after today.
DayOf(g) == Day(isoToJalali(g))
DateAt(n) == jalaliToIso(addDays(Today, n))

LEMMA KeptDates ==
  ASSUME NEW g, IsKept(g), NEW h, IsKept(h)
  PROVE  /\ DayOf(g) \in Nat /\ (Before(g, h) <=> DayOf(g) < DayOf(h))
         /\ g = h <=> DayOf(g) = DayOf(h)
<1> DEFINE i == isoToJalali(g)
           j == isoToJalali(h)
<1>1. i \in Dates /\ j \in Dates /\ toGregorian(i) = g /\ toGregorian(j) = h
  BY DEF IsKept, jalaliToIso
<1>2. /\ Day(i) \in Nat /\ Day(j) \in Nat
      /\ (Before(toGregorian(i), toGregorian(j)) <=> Day(i) < Day(j))
  BY <1>1, KeptOrder, DateParts
<1>3. Day(i) = Day(j) => i = j
  BY <1>1, <1>2, DateOrder, DayOrder
<1> QED
  BY <1>1, <1>2, <1>3 DEF DayOf

LEMMA TodayIsLate == Today \in Dates /\ Day(Today) \in Nat /\ Day(Today) >= 730
<1>1. Today \in Dates /\ Today[1] > 980
  BY DatesAssumption
<1>2. PICK k \in Nat, m \in 1..12, d \in 1..31 : IsOn(Today, k, m, d)
  BY <1>1, DateParts
<1>3. Today = <<979 + k, m, d>> /\ Day(Today) = YearDays(k) + DaysOfYear(m, d)
  BY <1>2 DEF IsOn
<1>4. k >= 2
  BY <1>1, <1>3
<1>5. YearDays(k) \in Nat /\ DaysOfYear(m, d) \in Nat /\ YearDays(k) >= 365 * k
  BY DayIsNat
<1> HIDE DEF Dates
<1>6. YearDays(k) >= 730
  BY <1>4, <1>5
<1> QED
  BY <1>1, <1>3, <1>5, <1>6

LEMMA DaysAround ==
  ASSUME NEW n \in Int, n >= -60
  PROVE  /\ addDays(Today, n) \in Dates /\ Day(addDays(Today, n)) = Day(Today) + n
         /\ IsKept(DateAt(n)) /\ DayOf(DateAt(n)) = Day(Today) + n
<1>1. addDays(Today, n) \in Dates /\ Day(addDays(Today, n)) = Day(Today) + n
  BY TodayIsLate, DaysMoved
<1>2. isoToJalali(DateAt(n)) = addDays(Today, n)
  BY <1>1, DatesKeep DEF DateAt
<1> QED
  BY <1>1, <1>2 DEF IsKept, DayOf, DateAt

LEMMA TodayIsAt == IsKept(jalaliToIso(Today)) /\ DayOf(jalaliToIso(Today)) = Day(Today) /\ addDays(Today, 0) = Today
<1>1. Today \in Dates /\ isoToJalali(jalaliToIso(Today)) = Today
  BY TodayIsLate, DatesKeep
<1>2. addDays(Today, 0) \in Dates /\ Day(addDays(Today, 0)) = Day(Today)
  BY DaysAround, TodayIsLate
<1>3. addDays(Today, 0) = Today
  BY <1>1, <1>2, TodayIsLate, DateOrder, DayOrder
<1> QED
  BY <1>1, <1>3 DEF IsKept, DayOf

-----------------------------------------------------------------------------
\* What a report is made of.
Sound(T) == IsFiniteSet(T) /\ \A t \in T : MoneyOf(t) /\ IsKept(t.date)

LEMMA SoundPart ==
  ASSUME NEW T, Sound(T), NEW A \in SUBSET T
  PROVE  Sound(A)
  BY FS_Subset DEF Sound

LEMMA AmountsAre ==
  ASSUME NEW T, Sound(T), NEW A \in SUBSET T
  PROVE  /\ Amounts(A) = SumOver([t \in T |-> t.amount], A)
         /\ Amounts(A) \in Int
<1> DEFINE f == [t \in T |-> t.amount]
           e == [t \in A |-> t.amount]
<1>1. IsFiniteSet(A) /\ \A t \in A : t.amount \in Int
  BY FS_Subset DEF Sound, MoneyOf
<1>2. Amounts(A) = SumOver(e, A)
  BY <1>1, AmountsIsSum
<1>3. \A t \in A : f[t] = e[t]
  OBVIOUS
<1>4. IsFiniteSet(T) /\ \A t \in T : f[t] \in Int
  BY DEF Sound, MoneyOf
<1> HIDE DEF f, e
<1>5. SumOver(f, A) = SumOver(e, A)
  BY <1>3, SumOverSame
<1>6. SumOver(f, A) \in Int
  BY <1>4, SumOverStep
<1> QED
  BY <1>2, <1>5, <1>6 DEF f

\* An amount is that of a part and of what is left.
LEMMA AmountsSplit ==
  ASSUME NEW T, Sound(T), NEW A \in SUBSET T
  PROVE  Amounts(T) = Amounts(A) + Amounts(T \ A) /\ Amounts(A) \in Int /\ Amounts(T \ A) \in Int
<1> DEFINE f == [t \in T |-> t.amount]
<1>1. IsFiniteSet(T) /\ \A t \in T : f[t] \in Int
  BY DEF Sound, MoneyOf
<1>2. /\ Amounts(T) = SumOver(f, T) /\ Amounts(A) = SumOver(f, A)
      /\ Amounts(T \ A) = SumOver(f, T \ A) /\ Amounts(A) \in Int /\ Amounts(T \ A) \in Int
  BY AmountsAre
<1> HIDE DEF f
<1> QED
  BY <1>1, <1>2, SumSplits

\* A sum over more, of what is no loss, is no less.
LEMMA SumOrder ==
  ASSUME NEW S, IsFiniteSet(S), NEW f, NEW e,
         \A x \in S : f[x] \in Int /\ e[x] \in Int /\ f[x] <= e[x]
  PROVE  SumOver(f, S) <= SumOver(e, S)
<1> DEFINE U == {A \in SUBSET S : SumOver(f, A) <= SumOver(e, A)}
<1>1. {} \in U
  BY SumOverStep
<1>2. ASSUME NEW A \in SUBSET S, NEW y \in A, A \ {y} \in U PROVE A \in U
  <2>1. SumOver(f, A \ {y}) <= SumOver(e, A \ {y})
    BY <1>2
  <2>2. /\ SumOver(f, A) = f[y] + SumOver(f, A \ {y}) /\ SumOver(f, A \ {y}) \in Int
        /\ SumOver(e, A) = e[y] + SumOver(e, A \ {y}) /\ SumOver(e, A \ {y}) \in Int
    BY SumOverStep
  <2>3. f[y] \in Int /\ e[y] \in Int /\ f[y] <= e[y]
    OBVIOUS
  <2>4. SumOver(f, A) <= SumOver(e, A)
    BY <2>1, <2>2, <2>3
  <2> QED
    BY <2>4
<1>3. \A A \in SUBSET S : \A y \in A : A \ {y} \in U => A \in U
  BY <1>2
<1> HIDE DEF U
<1>4. \A A \in SUBSET S : A \in U
  BY <1>1, <1>3, Subsets
<1> QED
  BY <1>4 DEF U

LEMMA SumIsNoLoss ==
  ASSUME NEW S, IsFiniteSet(S), NEW f, \A x \in S : f[x] \in Int /\ f[x] >= 0
  PROVE  SumOver(f, S) >= 0
<1> DEFINE e == [x \in S |-> 0]
<1>1. \A x \in S : e[x] = 0 /\ e[x] \in Int /\ e[x] <= f[x] /\ f[x] \in Int
  OBVIOUS
<1> HIDE DEF e
<1>2. SumOver(e, S) = 0 /\ SumOver(e, S) <= SumOver(f, S)
  BY <1>1, SumOfZeros, SumOrder
<1>3. SumOver(f, S) \in Int
  BY SumOverStep
<1> QED
  BY <1>2, <1>3

LEMMA OfTypeParts ==
  ASSUME NEW T, NEW A \in SUBSET T, NEW type
  PROVE  /\ OfType(A, type) \in SUBSET OfType(T, type) /\ OfType(T, type) \in SUBSET T
         /\ OfType(T, type) \ OfType(A, type) = OfType(T \ A, type)
  BY DEF OfType

\* A balance is that of a part and of what is left.
LEMMA BalanceSplit ==
  ASSUME NEW T, Sound(T), NEW A \in SUBSET T
  PROVE  /\ totalBalance(T) = totalBalance(A) + totalBalance(T \ A)
         /\ totalBalance(A) \in Int /\ totalBalance(T \ A) \in Int
<1>1. ASSUME NEW type
      PROVE  /\ Amounts(OfType(T, type)) = Amounts(OfType(A, type)) + Amounts(OfType(T \ A, type))
             /\ Amounts(OfType(A, type)) \in Int /\ Amounts(OfType(T \ A, type)) \in Int
  <2> DEFINE S == OfType(T, type)
             B == OfType(A, type)
  <2>1. Sound(S) /\ B \in SUBSET S /\ S \ B = OfType(T \ A, type)
    BY OfTypeParts, SoundPart
  <2> HIDE DEF S, B
  <2>2. Amounts(S) = Amounts(B) + Amounts(S \ B) /\ Amounts(B) \in Int /\ Amounts(S \ B) \in Int
    BY <2>1, AmountsSplit
  <2> QED
    BY <2>1, <2>2 DEF S, B
<1>2. /\ totalBalance(T) = Amounts(OfType(T, "income")) - Amounts(OfType(T, "expense"))
      /\ totalBalance(A) = Amounts(OfType(A, "income")) - Amounts(OfType(A, "expense"))
      /\ totalBalance(T \ A) = Amounts(OfType(T \ A, "income")) - Amounts(OfType(T \ A, "expense"))
  BY DEF totalBalance
<1>3. /\ Amounts(OfType(T, "income"))
           = Amounts(OfType(A, "income")) + Amounts(OfType(T \ A, "income"))
      /\ Amounts(OfType(A, "income")) \in Int /\ Amounts(OfType(T \ A, "income")) \in Int
  BY <1>1
<1>4. /\ Amounts(OfType(T, "expense"))
           = Amounts(OfType(A, "expense")) + Amounts(OfType(T \ A, "expense"))
      /\ Amounts(OfType(A, "expense")) \in Int /\ Amounts(OfType(T \ A, "expense")) \in Int
  BY <1>1
<1> QED
  BY <1>2, <1>3, <1>4

\* What the family has n days from today.
Until(T, n) == {t \in T : UpTo(t.date, DateAt(n))}
OnDay(T, n) == {t \in T : t.date = DateAt(n)}
WealthAt(T, n) == Total(Initial) + totalBalance(Until(T, n))

LEMMA InitialIsInt == Total(Initial) \in Int
<1>1. IsFiniteSet(DOMAIN Initial) /\ \A a \in DOMAIN Initial : Initial[a] \in Int
  BY MoneyAssumption
<1>2. PICK g : IsSum(g, Initial, DOMAIN Initial) /\ Total(Initial) = g[DOMAIN Initial]
  BY <1>1, TotalIsSum
<1>3. g \in [SUBSET DOMAIN Initial -> Int]
  BY <1>2 DEF IsSum
<1> QED
  BY <1>2, <1>3

\* From one day to the next it grows by what comes in and goes out on that day.
LEMMA WealthStep ==
  ASSUME NEW T, Sound(T), NEW n \in Int, n >= -59
  PROVE  /\ WealthAt(T, n) - WealthAt(T, n - 1) = totalBalance(OnDay(T, n))
         /\ WealthAt(T, n) \in Int /\ WealthAt(T, n - 1) \in Int
<1>1. /\ IsKept(DateAt(n)) /\ DayOf(DateAt(n)) = Day(Today) + n
      /\ IsKept(DateAt(n - 1)) /\ DayOf(DateAt(n - 1)) = Day(Today) + n - 1
      /\ Day(Today) \in Nat
  BY DaysAround, TodayIsLate
<1>2. ASSUME NEW t \in T
      PROVE  /\ UpTo(t.date, DateAt(n)) <=> UpTo(t.date, DateAt(n - 1)) \/ t.date = DateAt(n)
             /\ ~(UpTo(t.date, DateAt(n - 1)) /\ t.date = DateAt(n))
  <2>1. IsKept(t.date)
    BY DEF Sound
  <2>2. /\ DayOf(t.date) \in Nat
        /\ Before(DateAt(n), t.date) <=> DayOf(DateAt(n)) < DayOf(t.date)
        /\ Before(DateAt(n - 1), t.date) <=> DayOf(DateAt(n - 1)) < DayOf(t.date)
        /\ t.date = DateAt(n) <=> DayOf(t.date) = DayOf(DateAt(n))
    BY <1>1, <2>1, KeptDates
  <2> QED
    BY <1>1, <2>2 DEF UpTo
<1>3. /\ Until(T, n - 1) \in SUBSET Until(T, n) /\ Until(T, n) \in SUBSET T
      /\ Until(T, n) \ Until(T, n - 1) = OnDay(T, n)
  BY <1>2 DEF Until, OnDay
<1>4. Sound(Until(T, n))
  BY <1>3, SoundPart
<1>5. /\ totalBalance(Until(T, n)) = totalBalance(Until(T, n - 1)) + totalBalance(OnDay(T, n))
      /\ totalBalance(Until(T, n - 1)) \in Int /\ totalBalance(OnDay(T, n)) \in Int
  BY <1>3, <1>4, BalanceSplit
<1> QED
  BY <1>5, InitialIsInt DEF WealthAt

LEMMA WealthIs ==
  ASSUME NEW T, NEW days \in Nat
  PROVE  wealthSeries(T, days, Today, Total(Initial)) = [i \in 1..days |-> WealthAt(T, i - days)]
  BY DEF wealthSeries, WealthAt, Until, DateAt

\* What a week brings, where nothing is moved, is the difference it makes.
LEMMA WeekIs ==
  ASSUME NEW T, Sound(T), \A t \in T : t.type # "transfer", NEW past \in SUBSET T,
         past = {t \in T : UpTo(t.date, jalaliToIso(Today))}
  PROVE  LET week == weekFlow(T, Today)
         IN \A i \in 1..7 :
              /\ week[i].income \in Int /\ week[i].expense \in Int
              /\ week[i].income - week[i].expense = WealthAt(past, i - 7) - WealthAt(past, i - 8)
<1> SUFFICES ASSUME NEW i \in 1..7
             PROVE  LET day == weekFlow(T, Today)[i]
                    IN /\ day.income \in Int /\ day.expense \in Int
                       /\ day.income - day.expense = WealthAt(past, i - 7) - WealthAt(past, i - 8)
  OBVIOUS
<1> DEFINE day == OnDay(T, i - 7)
           in == OfType(day, "income")
           out == OfType(day, "expense")
<1>1. /\ weekFlow(T, Today)[i].income = Amounts(in)
      /\ weekFlow(T, Today)[i].expense = Amounts(day \ in)
  BY DEF weekFlow, OnDay, DateAt
<1>2. day \in SUBSET T /\ Sound(day)
  BY SoundPart DEF OnDay
<1>3. day \ in = out
  <2>1. \A t \in day : t.type \in {"income", "expense"}
    BY <1>2 DEF Sound, MoneyOf
  <2> HIDE DEF day
  <2> QED
    BY <2>1 DEF OfType
<1>4. OnDay(past, i - 7) = day
  <2>1. ASSUME NEW t \in T, t.date = DateAt(i - 7) PROVE t \in past
    <3>1. i - 7 \in Int /\ i - 7 >= -60 /\ i - 7 <= 0
      OBVIOUS
    <3>2. IsKept(DateAt(i - 7)) /\ DayOf(DateAt(i - 7)) = Day(Today) + (i - 7) /\ Day(Today) \in Nat
      BY <3>1, DaysAround, TodayIsLate
    <3>3. ~Before(jalaliToIso(Today), DateAt(i - 7))
      BY <3>1, <3>2, TodayIsAt, KeptDates
    <3> QED
      BY <2>1, <3>3 DEF UpTo
  <2> QED
    BY <2>1 DEF OnDay
<1>5. Sound(past)
  BY SoundPart
<1>6. WealthAt(past, i - 7) - WealthAt(past, i - 8) = totalBalance(OnDay(past, i - 7))
  <2>1. i - 7 \in Int /\ i - 7 >= -59 /\ (i - 7) - 1 = i - 8
    OBVIOUS
  <2> QED
    BY <1>5, <2>1, WealthStep
<1>7. Amounts(in) \in Int /\ Amounts(out) \in Int
  <2>1. in \in SUBSET day /\ out \in SUBSET day
    BY DEF OfType
  <2> HIDE DEF day, in, out
  <2> QED
    BY <1>2, <2>1, AmountsAre
<1> HIDE DEF day, in, out
<1>8. totalBalance(day) = Amounts(in) - Amounts(out)
  BY DEF totalBalance, in, out
<1> QED
  BY <1>1, <1>3, <1>4, <1>6, <1>7, <1>8

\* The months of a series: the last is the month itself.
LEMMA NoMonthBack ==
  ASSUME NEW jy, NEW jm
  PROVE  MonthsBack(jy, jm)[0] = <<jy, jm>>
<1> DEFINE m == <<jy, jm>>
           P(x) == prevMonth(x[1], x[2])
           Eq(f) == f = [n \in 0..5 |-> IF n = 0 THEN m ELSE P(f[n - 1])]
           F == [n \in 0..5 |->
                   CASE n = 0 -> m
                     [] n = 1 -> P(m)
                     [] n = 2 -> P(P(m))
                     [] n = 3 -> P(P(P(m)))
                     [] n = 4 -> P(P(P(P(m))))
                     [] n = 5 -> P(P(P(P(P(m)))))]
<1>1. MonthsBack(jy, jm) = CHOOSE f : Eq(f)
  BY DEF MonthsBack
<1> HIDE DEF m, P
<1>2. ASSUME NEW n \in 0..5
      PROVE  F[n] = IF n = 0 THEN m ELSE P(F[n - 1])
  <2>1. F[0] = m /\ F[1] = P(F[0]) /\ F[2] = P(F[1]) /\ F[3] = P(F[2]) /\ F[4] = P(F[3])
        /\ F[5] = P(F[4])
    OBVIOUS
  <2> HIDE DEF F
  <2> QED
    BY <2>1
<1>3. Eq(F)
  <2>1. F = [n \in 0..5 |-> F[n]]
    OBVIOUS
  <2> HIDE DEF F
  <2> QED
    BY <1>2, <2>1
<1> HIDE DEF F, Eq
<1>4. Eq(CHOOSE f : Eq(f))
  BY <1>3
<1>5. Eq(MonthsBack(jy, jm))
  BY <1>1, <1>4
<1>6. MonthsBack(jy, jm)[0] = m
  BY <1>5 DEF Eq
<1> QED
  BY <1>6 DEF m

LEMMA SameMonth ==
  ASSUME NEW x \in Int, NEW y \in Int, NEW m \in 1..12, NEW n \in 1..12
  PROVE  ((x - y) * 12 + m - n = 0) <=> (y = x /\ n = m)
  BY SMT

\* The month as a filter of the list is the month of the reports.
LEMMA MonthIsListed ==
  ASSUME NEW T, Sound(T)
  PROVE  LET whole == [type |-> "all", range |-> "month", account |-> None, category |-> None]
         IN Listed(T, whole, Today) = txsInJalaliMonth(T, Today[1], Today[2])
<1> DEFINE whole == [type |-> "all", range |-> "month", account |-> None, category |-> None]
<1>1. Today[1] \in Int /\ Today[2] \in 1..12
  BY TodayIsLate, ADate
<1>2. ASSUME NEW t \in T
      PROVE  LET j == isoToJalali(t.date)
             IN (Today[1] - j[1]) * 12 + Today[2] - j[2] = 0 <=> InMonth(t, Today[1], Today[2])
  <2> DEFINE j == isoToJalali(t.date)
  <2>1. j[1] \in Int /\ j[2] \in 1..12
    BY ADate DEF Sound, IsKept
  <2>2. InMonth(t, Today[1], Today[2]) <=> j[1] = Today[1] /\ j[2] = Today[2]
    BY DEF InMonth
  <2> HIDE DEF j
  <2>3. (Today[1] - j[1]) * 12 + Today[2] - j[2] = 0 <=> j[1] = Today[1] /\ j[2] = Today[2]
    BY <1>1, <2>1, SameMonth
  <2> QED
    BY <2>2, <2>3 DEF j
<1>3. /\ whole.type = "all" /\ whole.range = "month" /\ whole.account = None
      /\ whole.category = None
  OBVIOUS
<1> QED
  BY <1>2, <1>3 DEF Listed, txsInJalaliMonth

\* Thirty days counted one by one are thirty days.
LEMMA ThirtyDays == DaysBetween(addDays(Today, -29), Today, 60) = 30
<1> DEFINE from == addDays(Today, -29)
           S == {60} \cup {n \in 1..60 : ~Before(addDays(from, n - 1), Today)}
<1>1. from \in Dates /\ Day(from) = Day(Today) - 29
  BY DaysAround, TodayIsLate
<1>2. ASSUME NEW n \in 1..60 PROVE ~Before(addDays(from, n - 1), Today) <=> n >= 30
  <2>1. n - 1 \in Nat
    OBVIOUS
  <2>2. addDays(from, n - 1) \in Dates /\ Day(addDays(from, n - 1)) = Day(Today) - 29 + (n - 1)
    BY <1>1, <2>1, DaysAdded
  <2>3. Before(addDays(from, n - 1), Today) <=> Day(addDays(from, n - 1)) < Day(Today)
    BY <2>2, TodayIsLate, DayOrder
  <2> QED
    BY <2>2, <2>3, TodayIsLate
<1>3. 30 \in S /\ \A n \in S : 30 <= n
  BY <1>2
<1>4. S \subseteq Int
  OBVIOUS
<1>5. DaysBetween(from, Today, 60) = Min(S)
  BY DEF DaysBetween
<1> HIDE DEF S
<1>6. Min(S) = 30
  <2>1. \A x \in S : (\A y \in S : x <= y) <=> x = 30
    BY <1>3, <1>4
  <2>2. Min(S) \in S /\ \A y \in S : Min(S) <= y
    BY <1>3 DEF Min
  <2> QED
    BY <2>1, <2>2
<1> QED
  BY <1>5, <1>6

\* What of a month is left after a day is what is dated later.
LEMMA RestOfMonth ==
  ASSUME NEW T, Sound(T)
  PROVE  LET month == txsInJalaliMonth(T, Today[1], Today[2])
         IN month \ txsInJalaliMonthUpToDay(T, Today[1], Today[2], Today[3])
              = {t \in month : Before(jalaliToIso(Today), t.date)}
<1>1. /\ Today[1] \in Int /\ Today[2] \in 1..12 /\ Today[3] \in 1..31
      /\ IsKept(jalaliToIso(Today)) /\ DayOf(jalaliToIso(Today)) = Day(Today)
  BY TodayIsLate, ADate, TodayIsAt
<1>2. ASSUME NEW t \in T, InMonth(t, Today[1], Today[2])
      PROVE  ~(isoToJalali(t.date)[3] <= Today[3]) <=> Before(jalaliToIso(Today), t.date)
  <2> DEFINE j == isoToJalali(t.date)
  <2>1. IsKept(t.date) /\ j \in Dates /\ j[1] \in Int /\ j[2] \in 1..12 /\ j[3] \in 1..31
    BY ADate DEF Sound, IsKept
  <2>2. Before(jalaliToIso(Today), t.date) <=> Day(Today) < Day(j)
    BY <1>1, <2>1, KeptDates DEF DayOf
  <2>3. Before(Today, j) <=> Day(Today) < Day(j)
    BY <2>1, TodayIsLate, DayOrder
  <2>4. j[1] = Today[1] /\ j[2] = Today[2]
    BY <1>2 DEF InMonth
  <2> HIDE DEF j
  <2>5. Before(Today, j) <=> ~(j[3] <= Today[3])
    BY <1>1, <2>1, <2>4 DEF Before
  <2> QED
    BY <2>2, <2>3, <2>5 DEF j
<1> QED
  BY <1>2 DEF txsInJalaliMonth, txsInJalaliMonthUpToDay

\* What the family has today is what its accounts hold.
LEMMA WealthIsHeld ==
  ASSUME NEW T, Sound(T), \A t \in T : t.account # None /\ UpTo(t.date, jalaliToIso(Today))
  PROVE  WealthAt(T, 0) = Total(accountBalances(T, Initial))
<1>1. DateAt(0) = jalaliToIso(Today)
  BY TodayIsAt DEF DateAt
<1>2. Until(T, 0) = T
  BY <1>1 DEF Until
<1>3. AccountsHoldIt(T)
  BY AccountsHold DEF Sound
<1> QED
  BY <1>2, <1>3 DEF WealthAt, AccountsHoldIt

-----------------------------------------------------------------------------
\* Budgets.
LEMMA TotalIsInt ==
  ASSUME NEW f, IsFiniteSet(DOMAIN f), \A x \in DOMAIN f : f[x] \in Int
  PROVE  Total(f) \in Int
<1>1. PICK g : IsSum(g, f, DOMAIN f) /\ Total(f) = g[DOMAIN f]
  BY TotalIsSum
<1>2. g \in [SUBSET DOMAIN f -> Int]
  BY <1>1 DEF IsSum
<1> QED
  BY <1>1, <1>2

\* What is spent of categories is no loss, and all of it is what was spent.
LEMMA SpendIs ==
  ASSUME NEW T, Sound(T), NEW spend, spend = categoryBreakdown(T)
  PROVE  /\ IsFiniteSet(DOMAIN spend) /\ spend = [c \in DOMAIN spend |-> spend[c]]
         /\ \A c \in DOMAIN spend : spend[c] \in Int /\ spend[c] >= 0
         /\ Total(spend) = Amounts(OfType(T, "expense"))
<1> DEFINE E == OfType(T, "expense")
           key == [t \in E |-> t.category]
           V == {key[t] : t \in E}
           f == [t \in E |-> t.amount]
<1>1. E \in SUBSET T /\ Sound(E)
  BY SoundPart DEF OfType
<1>2. /\ IsFiniteSet(E) /\ \A t \in E : t.amount \in Int
      /\ \A t \in E : f[t] \in Int /\ f[t] >= 0
  BY <1>1 DEF Sound, MoneyOf
<1>3. IsFiniteSet(V)
  BY <1>2, Images
<1>4. spend = [v \in V |-> Amounts({t \in E : key[t] = v})]
  BY DEF categoryBreakdown, Breakdown
<1>5. \A t \in E : key[t] \in V
  OBVIOUS
<1> HIDE DEF E, key, V
<1>6. /\ SumOver(spend, V) = Amounts(E)
      /\ \A v \in V : spend[v] \in Int
  BY <1>2, <1>3, <1>4, <1>5, ByKey
<1>7. ASSUME NEW v \in V PROVE spend[v] >= 0
  <2> DEFINE A == {t \in E : key[t] = v}
  <2>1. A \in SUBSET E /\ IsFiniteSet(A)
    BY <1>2, FS_Subset
  <2>2. Amounts(A) = SumOver(f, A)
    BY <1>1, <2>1, AmountsAre
  <2> HIDE DEF f
  <2>3. SumOver(f, A) >= 0
    <3>1. \A t \in A : f[t] \in Int /\ f[t] >= 0
      BY <1>2, <2>1
    <3> HIDE DEF A
    <3> QED
      BY <2>1, <3>1, SumIsNoLoss
  <2> QED
    BY <1>4, <2>2, <2>3
<1>8. DOMAIN spend = V /\ spend = [v \in V |-> spend[v]]
  BY <1>4
<1>9. Total(spend) = SumOver(spend, V)
  BY <1>8 DEF SumOver
<1> QED
  BY <1>3, <1>6, <1>7, <1>8, <1>9 DEF E

LEMMA DaysLeft ==
  LET d == daysLeftInMonth(Today) IN d \in Nat /\ d >= 1 /\ Max({1, d}) = d
<1> DEFINE e == daysInMonth(Today[1], Today[2]) - Today[3] + 1
           d == daysLeftInMonth(Today)
<1>1. Today[1] \in Int /\ Today[2] \in 1..12 /\ Today[3] \in 1..31
  BY TodayIsLate, ADate
<1>2. e \in Int
  BY <1>1, MonthLong
<1>3. d = Max({1, e})
  BY DEF daysLeftInMonth
<1> HIDE DEF e
<1>4. ASSUME NEW x \in Int PROVE Max({1, x}) = IF x >= 1 THEN x ELSE 1
  <2> DEFINE S == {1, x}
             top == IF x >= 1 THEN x ELSE 1
  <2>1. top \in S /\ \A y \in S : (\A z \in S : y >= z) <=> y = top
    OBVIOUS
  <2> HIDE DEF top, S
  <2>2. Max(S) \in S /\ \A z \in S : Max(S) >= z
    BY <2>1 DEF Max
  <2>3. Max(S) = top
    BY <2>1, <2>2
  <2> QED
    BY <2>3 DEF S, top
<1> HIDE DEF d
<1>5. d \in Int /\ d >= 1
  BY <1>2, <1>3, <1>4
<1> QED
  BY <1>4, <1>5 DEF d

\* A spend of categories, and the categories with a budget.
IsSpend(spend) ==
  /\ IsFiniteSet(DOMAIN spend) /\ spend = [c \in DOMAIN spend |-> spend[c]]
  /\ \A c \in DOMAIN spend : spend[c] \in Int /\ spend[c] >= 0

Active == {c \in DOMAIN Budgets : Budgets[c] > 0}
Capacity == Total([c \in Active |-> Budgets[c]])
SpentOf(spend) == Total([c \in Active \cap DOMAIN spend |-> spend[c]])

LEMMA CapacityIs ==
  ASSUME NEW spend, IsSpend(spend)
  PROVE  /\ Capacity \in Int /\ SpentOf(spend) \in Int
         /\ Capacity = SumOver(Budgets, Active)
         /\ SpentOf(spend) = SumOver(spend, Active \cap DOMAIN spend)
<1> DEFINE A == Active \cap DOMAIN spend
           f == [c \in Active |-> Budgets[c]]
           e == [c \in A |-> spend[c]]
<1>1. /\ IsFiniteSet(Active) /\ \A c \in Active : Budgets[c] \in Int
      /\ IsFiniteSet(A) /\ \A c \in A : spend[c] \in Int
  BY BudgetsAssumption, FS_Subset DEF Active, IsSpend
<1>2. /\ DOMAIN f = Active /\ \A c \in Active : f[c] \in Int
      /\ DOMAIN e = A /\ \A c \in A : e[c] \in Int
  BY <1>1
<1>3. Capacity = Total(f) /\ SpentOf(spend) = Total(e)
  BY DEF Capacity, SpentOf
<1>4. Capacity = SumOver(Budgets, Active) /\ SpentOf(spend) = SumOver(spend, A)
  BY DEF SumOver, Capacity, SpentOf
<1> HIDE DEF f, e, A
<1>5. Total(f) \in Int /\ Total(e) \in Int
  BY <1>1, <1>2, TotalIsInt
<1> QED
  BY <1>3, <1>4, <1>5 DEF A

LEMMA DailyShare ==
  ASSUME NEW r \in Int, r > 0, NEW d \in Nat, d >= 1
  PROVE  (r \div d) * d <= r
  BY SMT

\* What a budget has left and what is spent of it make the budget; the share of a day lasts
\* to the end of the month; it is over when nothing is left.
LEMMA BudgetIs ==
  ASSUME NEW spend, IsSpend(spend), NEW budget,
         budget = spendCapacity(Budgets, spend, daysLeftInMonth(Today))
  PROVE  /\ budget.cap = Capacity /\ budget.spent = SpentOf(spend)
         /\ budget.remaining = Capacity - SpentOf(spend)
         /\ budget.remaining + budget.spent = budget.cap
         /\ budget.remaining > 0 => budget.perDay * daysLeftInMonth(Today) <= budget.remaining
         /\ (budget.level = "over") <=> (budget.remaining < 0 /\ budget.cap > 0)
<1> DEFINE days == daysLeftInMonth(Today)
<1>1. days \in Nat /\ days >= 1 /\ Max({1, days}) = days
  BY DaysLeft
<1>2. Capacity \in Int /\ SpentOf(spend) \in Int
  BY CapacityIs
<1>3. /\ budget.cap = Capacity /\ budget.spent = SpentOf(spend)
      /\ budget.remaining = Capacity - SpentOf(spend)
      /\ budget.perDay = IF Capacity > SpentOf(spend) THEN (Capacity - SpentOf(spend)) \div Max({1, days})
                         ELSE 0
      /\ budget.level = budgetStatus(Capacity, SpentOf(spend)).level
  BY DEF spendCapacity, Capacity, SpentOf, Active
<1> HIDE DEF days
<1>4. budget.remaining > 0 => budget.perDay * days <= budget.remaining
  <2> SUFFICES ASSUME budget.remaining > 0 PROVE budget.perDay * days <= budget.remaining
    OBVIOUS
  <2>1. Capacity > SpentOf(spend) /\ budget.remaining \in Int
    BY <1>2, <1>3
  <2>2. budget.perDay = budget.remaining \div days
    BY <1>1, <1>3, <2>1
  <2> QED
    BY <1>1, <2>1, <2>2, DailyShare
<1>5. (budgetStatus(Capacity, SpentOf(spend)).level = "over")
        <=> (Capacity - SpentOf(spend) < 0 /\ Capacity > 0)
  <2>1. CASE Capacity <= 0
    BY <1>2, <2>1 DEF budgetStatus
  <2>2. CASE Capacity > 0 /\ SpentOf(spend) > Capacity
    BY <1>2, <2>2 DEF budgetStatus
  <2>3. CASE Capacity > 0 /\ SpentOf(spend) <= Capacity
    <3>1. budgetStatus(Capacity, SpentOf(spend)).level \in {"warn", "ok"}
      BY <1>2, <2>3 DEF budgetStatus
    <3> QED
      BY <1>2, <2>3, <3>1
  <2> QED
    BY <1>2, <2>1, <2>2, <2>3
<1> QED
  BY <1>2, <1>3, <1>4, <1>5 DEF days

\* While no category is over its budget, the budget of all is not.
LEMMA OverIsSomewhere ==
  ASSUME NEW spend, IsSpend(spend), Capacity - SpentOf(spend) < 0
  PROVE  \E c \in Active \cap DOMAIN spend : spend[c] > Budgets[c]
<1> DEFINE A == Active \cap DOMAIN spend
<1> SUFFICES ASSUME \A c \in A : ~(spend[c] > Budgets[c]) PROVE FALSE
  OBVIOUS
<1>1. /\ IsFiniteSet(Active) /\ IsFiniteSet(A) /\ A \in SUBSET Active
      /\ \A c \in Active : Budgets[c] \in Int /\ Budgets[c] >= 0
      /\ \A c \in A : spend[c] \in Int
  BY BudgetsAssumption, FS_Subset DEF Active, IsSpend
<1>2. /\ Capacity \in Int /\ SpentOf(spend) \in Int
      /\ Capacity = SumOver(Budgets, Active) /\ SpentOf(spend) = SumOver(spend, A)
  BY CapacityIs
<1>3. \A c \in A : spend[c] <= Budgets[c] /\ Budgets[c] \in Int
  BY <1>1
<1> HIDE DEF A
<1>4. SumOver(spend, A) <= SumOver(Budgets, A)
  BY <1>1, <1>3, SumOrder
<1>5. /\ SumOver(Budgets, Active) = SumOver(Budgets, A) + SumOver(Budgets, Active \ A)
      /\ SumOver(Budgets, A) \in Int /\ SumOver(Budgets, Active \ A) \in Int
  <2>1. \A c \in Active : Budgets[c] \in Int
    BY <1>1
  <2>2. SumOver(Budgets, Active) = SumOver(Budgets, A) + SumOver(Budgets, Active \ A)
    BY <1>1, <2>1, SumSplits
  <2>3. A \in SUBSET Active /\ Active \ A \in SUBSET Active
    BY <1>1
  <2> QED
    BY <1>1, <2>1, <2>2, <2>3, SumOverStep
<1>6. IsFiniteSet(Active \ A) /\ \A c \in Active \ A : Budgets[c] \in Int /\ Budgets[c] >= 0
  BY <1>1, FS_Subset
<1>7. SumOver(Budgets, Active \ A) >= 0
  BY <1>6, SumIsNoLoss
<1> QED
  BY <1>2, <1>4, <1>5, <1>7

\* The page of budgets counts what is spent in any category, and so has no more left than
\* the home page.
LEMMA LessIsLeft ==
  ASSUME NEW spend, IsSpend(spend)
  PROVE  Total(Budgets) - Total(spend) <= Capacity - SpentOf(spend)
<1> DEFINE B == DOMAIN Budgets
           S == DOMAIN spend
           A == Active \cap S
<1>1. /\ IsFiniteSet(B) /\ \A c \in B : Budgets[c] \in Int
      /\ Active \in SUBSET B /\ \A c \in B \ Active : Budgets[c] <= 0
  BY BudgetsAssumption DEF Active
<1>2. /\ IsFiniteSet(S) /\ A \in SUBSET S
      /\ \A c \in S : spend[c] \in Int /\ spend[c] >= 0
  BY DEF IsSpend
<1>3. Total(Budgets) = SumOver(Budgets, B) /\ Total(spend) = SumOver(spend, S)
  <2>1. Budgets = [c \in B |-> Budgets[c]] /\ spend = [c \in S |-> spend[c]]
    BY BudgetsAssumption DEF IsSpend
  <2> QED
    BY <2>1 DEF SumOver
<1>4. /\ Capacity \in Int /\ SpentOf(spend) \in Int
      /\ Capacity = SumOver(Budgets, Active) /\ SpentOf(spend) = SumOver(spend, A)
  BY CapacityIs
<1> HIDE DEF B, S, A
<1>5. /\ SumOver(Budgets, B) = SumOver(Budgets, Active) + SumOver(Budgets, B \ Active)
      /\ SumOver(Budgets, B \ Active) \in Int
      /\ SumOver(spend, S) = SumOver(spend, A) + SumOver(spend, S \ A)
      /\ SumOver(spend, S \ A) \in Int
  BY <1>1, <1>2, SumSplits, SumOverStep
<1>6. SumOver(spend, S \ A) >= 0
  <2>1. IsFiniteSet(S \ A) /\ \A c \in S \ A : spend[c] \in Int /\ spend[c] >= 0
    BY <1>2, FS_Subset
  <2> QED
    BY <2>1, SumIsNoLoss
<1>7. SumOver(Budgets, B \ Active) <= 0
  <2> DEFINE none == [c \in B \ Active |-> 0]
  <2>1. /\ IsFiniteSet(B \ Active)
        /\ \A c \in B \ Active : Budgets[c] \in Int /\ none[c] \in Int /\ Budgets[c] <= none[c]
                                 /\ none[c] = 0
    BY <1>1, FS_Subset
  <2> HIDE DEF none
  <2>2. SumOver(Budgets, B \ Active) <= SumOver(none, B \ Active)
    BY <2>1, SumOrder
  <2>3. SumOver(none, B \ Active) = 0
    BY <2>1, SumOfZeros
  <2> QED
    BY <2>2, <2>3
<1> QED
  BY <1>3, <1>4, <1>5, <1>6, <1>7

\* A percentage is off by half at most, and so many of them by half as many.
LEMMA DivIs ==
  ASSUME NEW a \in Int, NEW b \in Nat, b > 0
  PROVE  a \div b \in Int /\ b * (a \div b) <= a /\ a < b * (a \div b) + b
  BY SMT

LEMMA TwiceTimes ==
  ASSUME NEW w \in Int, NEW q \in Int
  PROVE  (2 * w) * q = 2 * (w * q) /\ w * q \in Int
  BY SMT

LEMMA Rounded ==
  ASSUME NEW p \in Int, NEW w \in Nat, w > 0
  PROVE  LET q == Percent(p, w)
         IN /\ q \in Int /\ w * q \in Int
            /\ -w <= 2 * (w * q) - 200 * p /\ 2 * (w * q) - 200 * p <= w
<1> DEFINE q == Percent(p, w)
           a == 200 * p + w
           b == 2 * w
<1>1. q = a \div b
  BY DEF Percent
<1>2. a \in Int /\ b \in Nat /\ b > 0
  OBVIOUS
<1> HIDE DEF a, b
<1>3. a \div b \in Int /\ b * (a \div b) <= a /\ a < b * (a \div b) + b
  BY <1>2, DivIs
<1> HIDE DEF q
<1>4. q \in Int /\ b * q <= a /\ a < b * q + b
  BY <1>1, <1>3
<1>5. b * q = 2 * (w * q) /\ w * q \in Int
  BY <1>4, TwiceTimes DEF b
<1>6. 2 * (w * q) <= 200 * p + w /\ 200 * p + w < 2 * (w * q) + 2 * w
  BY <1>4, <1>5 DEF a, b
<1>7. -w <= 2 * (w * q) - 200 * p /\ 2 * (w * q) - 200 * p <= w
  BY <1>5, <1>6
<1> QED
  BY <1>4, <1>5, <1>7 DEF q

LEMMA OneMore ==
  ASSUME NEW w \in Int, NEW n \in Int, NEW p \in Int, NEW q \in Int
  PROVE  /\ (n - 1) * w = n * w - w /\ n * w \in Int
         /\ w * (q + p) = w * q + w * p /\ w * q \in Int /\ w * p \in Int
  BY SMT

LEMMA Cancelled ==
  ASSUME NEW w \in Nat, w > 0, NEW n \in Int, NEW p \in Int,
         -(n * w) <= 2 * (w * p) - 200 * w, 2 * (w * p) - 200 * w <= n * w
  PROVE  -n <= 2 * (p - 100) /\ 2 * (p - 100) <= n
<1> DEFINE x == 2 * (p - 100)
<1>1. w * x = 2 * (w * p) - 200 * w
  BY SMT
<1>2. x \in Int
  OBVIOUS
<1> HIDE DEF x
<1>3. ASSUME x > n PROVE FALSE
  <2>1. w * x >= w * (n + 1)
    BY <1>2, <1>3, SMT
  <2>2. w * (n + 1) = n * w + w
    BY SMT
  <2> QED
    BY <1>1, <1>2, <2>1, <2>2, SMT
<1>4. ASSUME x < -n PROVE FALSE
  <2>1. w * x <= w * (-n - 1)
    BY <1>2, <1>4, SMT
  <2>2. w * (-n - 1) = -(n * w) - w
    BY SMT
  <2> QED
    BY <1>1, <1>2, <2>1, <2>2, SMT
<1>5. -n <= x /\ x <= n
  BY <1>2, <1>3, <1>4
<1> QED
  BY <1>5 DEF x

LEMMA PercentagesAre ==
  ASSUME NEW spend, IsSpend(spend), Total(spend) > 0, NEW pct,
         pct = [c \in DOMAIN spend |-> Percent(spend[c], Total(spend))]
  PROVE  2 * (Total(pct) - 100) \in -Cardinality(DOMAIN spend)..Cardinality(DOMAIN spend)
<1> DEFINE S == DOMAIN spend
           w == Total(spend)
           P(A) == SumOver(pct, A)
           V(A) == SumOver(spend, A)
           N(A) == Cardinality(A)
           Close(A) == /\ -(N(A) * w) <= 2 * (w * P(A)) - 200 * V(A)
                       /\ 2 * (w * P(A)) - 200 * V(A) <= N(A) * w
           U == {A \in SUBSET S : Close(A)}
<1>1. /\ IsFiniteSet(S) /\ \A c \in S : spend[c] \in Int
      /\ spend = [c \in S |-> spend[c]]
  BY DEF IsSpend
<1>2. w = V(S) /\ w \in Nat /\ w > 0
  <2>1. w \in Int
    BY <1>1, TotalIsInt
  <2> QED
    BY <1>1, <2>1 DEF SumOver
<1>3. /\ DOMAIN pct = S /\ pct = [c \in S |-> pct[c]]
      /\ \A c \in S : pct[c] = Percent(spend[c], w)
  OBVIOUS
<1> HIDE DEF w, S
<1>4. \A c \in S : /\ pct[c] \in Int /\ w * pct[c] \in Int
                   /\ -w <= 2 * (w * pct[c]) - 200 * spend[c]
                   /\ 2 * (w * pct[c]) - 200 * spend[c] <= w
  BY <1>1, <1>2, <1>3, Rounded
<1>5. Total(pct) = P(S)
  BY <1>3 DEF SumOver
<1>6. {} \in U
  <2>1. P({}) = 0 /\ V({}) = 0 /\ N({}) = 0
    BY <1>1, <1>4, SumOverStep, TakenOut
  <2> HIDE DEF P, V, N
  <2> QED
    BY <1>2, <2>1
<1>7. ASSUME NEW A \in SUBSET S, NEW y \in A, A \ {y} \in U PROVE A \in U
  <2> DEFINE B == A \ {y}
             p == pct[y]
             v == spend[y]
  <2>1. /\ P(A) = p + P(B) /\ P(B) \in Int /\ V(A) = v + V(B) /\ V(B) \in Int
        /\ p \in Int /\ v \in Int
    BY <1>1, <1>4, SumOverStep
  <2>2. N(B) = N(A) - 1 /\ N(A) \in Int
    BY <1>1, TakenOut
  <2>3. Close(B)
    BY <1>7
  <2>4. -w <= 2 * (w * p) - 200 * v /\ 2 * (w * p) - 200 * v <= w
    BY <1>4
  <2> HIDE DEF P, V, N, B, p, v
  <2>5. N(B) * w = N(A) * w - w /\ N(A) * w \in Int
    BY <1>2, <2>2, OneMore
  <2>6. w * P(A) = w * p + w * P(B) /\ w * p \in Int /\ w * P(B) \in Int
    BY <1>2, <2>1, OneMore
  <2>7. Close(A)
    BY <1>2, <2>1, <2>3, <2>4, <2>5, <2>6
  <2> QED
    BY <2>7
<1>8. \A A \in SUBSET S : \A y \in A : A \ {y} \in U => A \in U
  BY <1>7
<1> HIDE DEF U
<1>9. \A A \in SUBSET S : A \in U
  BY <1>1, <1>6, <1>8, Subsets
<1>10. Close(S)
  BY <1>9 DEF U
<1>11. P(S) \in Int /\ N(S) \in Nat
  BY <1>1, <1>4, SumOverStep, TakenOut
<1> HIDE DEF P, V, N
<1>12. -N(S) <= 2 * (P(S) - 100) /\ 2 * (P(S) - 100) <= N(S)
  <2>1. -(N(S) * w) <= 2 * (w * P(S)) - 200 * w /\ 2 * (w * P(S)) - 200 * w <= N(S) * w
    BY <1>2, <1>10
  <2> QED
    BY <1>2, <1>11, <2>1, Cancelled
<1> QED
  BY <1>5, <1>11, <1>12 DEF N, S

\* A week of days.
LEMMA SevenDays ==
  ASSUME NEW f, f = [i \in 1..7 |-> f[i]], \A i \in 1..7 : f[i] \in Int
  PROVE  Total(f) = f[1] + f[2] + f[3] + f[4] + f[5] + f[6] + f[7]
<1>1. IsFiniteSet(1..7)
  <2>1. 1 \in Int /\ 7 \in Int
    OBVIOUS
  <2> QED
    BY <2>1, FS_Interval
<1>2. Total(f) = SumOver(f, DOMAIN f)
  BY DEF SumOver
<1>3. /\ SumOver(f, {}) = 0
      /\ \A A \in SUBSET (1..7) : /\ SumOver(f, A) \in Int
                                  /\ \A y \in A : SumOver(f, A) = f[y] + SumOver(f, A \ {y})
  BY <1>1, SumOverStep
<1> DEFINE s(n) == SumOver(f, 1..n)
<1>4. ASSUME NEW n \in 1..7 PROVE s(n) = f[n] + s(n - 1) /\ s(n) \in Int
  <2>1. 1..n \in SUBSET (1..7) /\ n \in 1..n /\ (1..n) \ {n} = 1..(n - 1)
    OBVIOUS
  <2>2. SumOver(f, 1..n) = f[n] + SumOver(f, (1..n) \ {n}) /\ SumOver(f, 1..n) \in Int
    BY <1>3, <2>1
  <2> QED
    BY <2>1, <2>2
<1>5. s(0) = 0
  <2>1. 1..0 = {}
    OBVIOUS
  <2> QED
    BY <1>3, <2>1
<1> HIDE DEF s
<1>6. /\ 1 - 1 = 0 /\ 2 - 1 = 1 /\ 3 - 1 = 2 /\ 4 - 1 = 3 /\ 5 - 1 = 4 /\ 6 - 1 = 5 /\ 7 - 1 = 6
      /\ {1, 2, 3, 4, 5, 6, 7} \subseteq 1..7
  OBVIOUS
<1>7. /\ s(1) = f[1] + s(0) /\ s(2) = f[2] + s(1) /\ s(3) = f[3] + s(2) /\ s(4) = f[4] + s(3)
      /\ s(5) = f[5] + s(4) /\ s(6) = f[6] + s(5) /\ s(7) = f[7] + s(6)
      /\ s(1) \in Int /\ s(2) \in Int /\ s(3) \in Int /\ s(4) \in Int /\ s(5) \in Int
      /\ s(6) \in Int /\ s(7) \in Int
  BY <1>4, <1>6
<1>8. /\ f[1] \in Int /\ f[2] \in Int /\ f[3] \in Int /\ f[4] \in Int /\ f[5] \in Int
      /\ f[6] \in Int /\ f[7] \in Int
  OBVIOUS
<1>9. Total(f) = s(7)
  <2>1. DOMAIN f = 1..7
    OBVIOUS
  <2> QED
    BY <1>2, <2>1 DEF s
<1> QED
  BY <1>5, <1>7, <1>8, <1>9

\* What a week brings is the difference it makes to what the family has.
LEMMA WeekAdds ==
  ASSUME NEW T, Sound(T), \A t \in T : t.type # "transfer" /\ UpTo(t.date, jalaliToIso(Today))
  PROVE  WeeklyFlow(T, Today).net = WealthAt(T, 0) - WealthAt(T, -7)
<1> DEFINE flow == weekFlow(T, Today)
           in == [i \in 1..7 |-> flow[i].income]
           out == [i \in 1..7 |-> flow[i].expense]
           w(n) == WealthAt(T, n)
<1>1. WeeklyFlow(T, Today).net = Total(in) - Total(out)
  BY DEF WeeklyFlow
<1>2. \A i \in 1..7 : /\ flow[i].income \in Int /\ flow[i].expense \in Int
                      /\ flow[i].income - flow[i].expense = w(i - 7) - w(i - 8)
  <2>1. T = {t \in T : UpTo(t.date, jalaliToIso(Today))} /\ T \in SUBSET T
    OBVIOUS
  <2> QED
    BY <2>1, WeekIs
<1>3. \A i \in 1..7 : w(i - 7) \in Int /\ w(i - 8) \in Int
  <2>1. \A i \in 1..7 : i - 7 \in Int /\ i - 7 >= -59 /\ (i - 7) - 1 = i - 8
    OBVIOUS
  <2> QED
    BY <2>1, WealthStep
<1> HIDE DEF flow, w
<1>4. /\ in = [i \in 1..7 |-> in[i]] /\ \A i \in 1..7 : in[i] \in Int
      /\ out = [i \in 1..7 |-> out[i]] /\ \A i \in 1..7 : out[i] \in Int
      /\ \A i \in 1..7 : in[i] - out[i] = w(i - 7) - w(i - 8)
  BY <1>2
<1> HIDE DEF in, out
<1>5. /\ Total(in) = in[1] + in[2] + in[3] + in[4] + in[5] + in[6] + in[7]
      /\ Total(out) = out[1] + out[2] + out[3] + out[4] + out[5] + out[6] + out[7]
  BY <1>4, SevenDays
<1>6. /\ in[1] - out[1] = w(-6) - w(-7) /\ in[2] - out[2] = w(-5) - w(-6)
      /\ in[3] - out[3] = w(-4) - w(-5) /\ in[4] - out[4] = w(-3) - w(-4)
      /\ in[5] - out[5] = w(-2) - w(-3) /\ in[6] - out[6] = w(-1) - w(-2)
      /\ in[7] - out[7] = w(0) - w(-1)
  <2>1. /\ 1 - 7 = -6 /\ 1 - 8 = -7 /\ 2 - 7 = -5 /\ 2 - 8 = -6 /\ 3 - 7 = -4 /\ 3 - 8 = -5
        /\ 4 - 7 = -3 /\ 4 - 8 = -4 /\ 5 - 7 = -2 /\ 5 - 8 = -3 /\ 6 - 7 = -1 /\ 6 - 8 = -2
        /\ 7 - 7 = 0 /\ 7 - 8 = -1 /\ {1, 2, 3, 4, 5, 6, 7} \subseteq 1..7
    OBVIOUS
  <2> QED
    BY <1>4, <2>1
<1>7. /\ w(0) \in Int /\ w(-1) \in Int /\ w(-2) \in Int /\ w(-3) \in Int /\ w(-4) \in Int
      /\ w(-5) \in Int /\ w(-6) \in Int /\ w(-7) \in Int
  <2>1. /\ 1 - 7 = -6 /\ 1 - 8 = -7 /\ 2 - 7 = -5 /\ 3 - 7 = -4
        /\ 4 - 7 = -3 /\ 5 - 7 = -2 /\ 6 - 7 = -1
        /\ 7 - 7 = 0 /\ {1, 2, 3, 4, 5, 6, 7} \subseteq 1..7
    OBVIOUS
  <2> QED
    BY <1>3, <2>1
<1>8. /\ in[1] \in Int /\ in[2] \in Int /\ in[3] \in Int /\ in[4] \in Int /\ in[5] \in Int
      /\ in[6] \in Int /\ in[7] \in Int /\ out[1] \in Int /\ out[2] \in Int /\ out[3] \in Int
      /\ out[4] \in Int /\ out[5] \in Int /\ out[6] \in Int /\ out[7] \in Int
  BY <1>4
<1>9. Total(in) - Total(out) = w(0) - w(-7)
  BY <1>5, <1>6, <1>7, <1>8
<1> QED
  BY <1>1, <1>9 DEF w

LEMMA OneLength ==
  ASSUME NEW n \in Nat, 1..n = 1..7
  PROVE  n = 7
<1>1. 7 \in 1..7 /\ 7 \in 1..n
  OBVIOUS
<1>2. n \in 1..n
  BY <1>1
<1>3. n \in 1..7
  BY <1>2
<1> QED
  BY <1>1, <1>3

\* The chart of a week is the end of the chart of a month, and no days make no chart.
LEMMA ChartsAgree ==
  ASSUME NEW T
  PROVE  LET wealth == wealthSeries(T, 30, Today, Total(Initial))
         IN /\ WealthChart(T, "7d", Today, Today, Today, Total(Initial)) = SubSeq(wealth, 24, 30)
            /\ WealthChart(T, "custom", Today, addDays(Today, -1), Today, 0) = <<>>
<1> DEFINE wealth == wealthSeries(T, 30, Today, Total(Initial))
           week == wealthSeries(T, 7, Today, Total(Initial))
<1>1. /\ wealth = [i \in 1..30 |-> WealthAt(T, i - 30)]
      /\ week = [i \in 1..7 |-> WealthAt(T, i - 7)]
  BY WealthIs
<1>2. WealthChart(T, "7d", Today, Today, Today, Total(Initial)) = week
  BY DEF WealthChart
<1> HIDE DEF wealth, week
<1>4. \A i \in 1..7 : wealth[i + 23] = week[i]
  <2>1. ASSUME NEW i \in 1..7 PROVE wealth[i + 23] = week[i]
    <3>1. i + 23 \in 1..30 /\ (i + 23) - 30 = i - 7
      OBVIOUS
    <3>2. wealth[i + 23] = WealthAt(T, (i + 23) - 30)
      BY <1>1, <3>1
    <3> QED
      BY <1>1, <3>1, <3>2
  <2> QED
    BY <2>1
<1>5. SubSeq(wealth, 24, 30) = week
  <2> DEFINE R == {WealthAt(T, n) : n \in Int}
             part == SubSeq(wealth, 24, 30)
  <2>1. /\ \A i \in 1..30 : wealth[i] \in R
        /\ week \in Seq(R) /\ Len(week) = 7
    <3>1. /\ \A i \in 1..30 : i - 30 \in Int
          /\ \A i \in 1..7 : i - 7 \in Int
      OBVIOUS
    <3>2. (\A i \in 1..30 : wealth[i] \in R) /\ week \in [1..7 -> R]
      BY <1>1, <3>1
    <3> HIDE DEF R
    <3>3. week \in Seq(R)
      <4>1. 7 \in Nat
        OBVIOUS
      <4> QED
        BY <3>2, <4>1, SeqDef, Zenon
    <3>4. Len(week) \in Nat /\ 1..Len(week) = 1..7
      BY <3>2, <3>3, LenProperties
    <3>5. Len(week) = 7
      BY <3>4, OneLength, Zenon
    <3> QED
      BY <3>2, <3>3, <3>5
  <2> HIDE DEF R
  <2>2. /\ 24 \in Int /\ 30 \in Int /\ 24 <= 30 /\ 30 - 24 + 1 = 7
        /\ \A i \in 24..30 : wealth[i] \in R
    <3>1. \A i \in 24..30 : i \in 1..30
      OBVIOUS
    <3> QED
      BY <2>1, <3>1
  <2>3. /\ part \in Seq(R) /\ Len(part) = 7
        /\ \A i \in 1..7 : part[i] = wealth[24 + i - 1]
    <3>1. /\ SubSeq(wealth, 24, 30) \in Seq(R)
          /\ Len(SubSeq(wealth, 24, 30)) = IF 24 <= 30 THEN 30 - 24 + 1 ELSE 0
          /\ \A i \in 1..(30 - 24 + 1) : SubSeq(wealth, 24, 30)[i] = wealth[24 + i - 1]
      BY <2>2, SubSeqProperties
    <3> QED
      BY <2>2, <3>1
  <2>4. \A i \in 1..7 : part[i] = week[i]
    <3>1. \A i \in 1..7 : 24 + i - 1 = i + 23
      OBVIOUS
    <3> QED
      BY <1>4, <2>3, <3>1
  <2> HIDE DEF part
  <2>5. part = week
    BY <2>1, <2>3, <2>4, SeqEqual
  <2> QED
    BY <2>5 DEF part
<1>6. WealthChart(T, "custom", Today, addDays(Today, -1), Today, 0) = <<>>
  <2>1. addDays(Today, -1) \in Dates /\ Day(addDays(Today, -1)) = Day(Today) - 1
    BY DaysAround, TodayIsLate
  <2>2. Before(addDays(Today, -1), Today)
    BY <2>1, TodayIsLate, DayOrder
  <2> QED
    BY <2>2 DEF WealthChart, UpTo
<1> QED
  BY <1>2, <1>5, <1>6 DEF wealth

\* What is newer than one of the newest is one of them.
LEMMA NewestAre ==
  ASSUME NEW T, Sound(T), NEW t \in RecentTx(T), NEW u \in T, Before(t.date, u.date)
  PROVE  u \in RecentTx(T)
<1> DEFINE newer(x, y) == Before(y.date, x.date) \/ (y.date = x.date /\ y.id < x.id)
           above(y) == {v \in T : newer(v, y)}
<1>1. \A y : y \in RecentTx(T) <=> y \in T /\ Cardinality(above(y)) < 3
  BY DEF RecentTx, recentTransactions
<1>2. t \in T
  BY <1>1
<1>3. ASSUME NEW v \in above(u) PROVE v \in above(t)
  <2>1. v \in T /\ (Before(u.date, v.date) \/ u.date = v.date)
    OBVIOUS
  <2>2. IsKept(t.date) /\ IsKept(u.date) /\ IsKept(v.date)
    BY <1>2, <2>1 DEF Sound
  <2>3. /\ DayOf(t.date) \in Nat /\ DayOf(u.date) \in Nat /\ DayOf(v.date) \in Nat
        /\ DayOf(t.date) < DayOf(u.date)
        /\ (Before(u.date, v.date) <=> DayOf(u.date) < DayOf(v.date))
        /\ (Before(t.date, v.date) <=> DayOf(t.date) < DayOf(v.date))
    BY <2>2, KeptDates
  <2>4. Before(t.date, v.date)
    BY <2>1, <2>3
  <2> QED
    BY <2>1, <2>4
<1>4. IsFiniteSet(above(t)) /\ above(u) \in SUBSET above(t)
  BY <1>3, FS_Subset DEF Sound
<1> HIDE DEF above
<1>5. /\ Cardinality(above(u)) <= Cardinality(above(t))
      /\ Cardinality(above(t)) \in Nat /\ Cardinality(above(u)) \in Nat
  BY <1>4, FS_Subset, FS_CardinalityType
<1>6. Cardinality(above(t)) < 3
  BY <1>1
<1>7. Cardinality(above(u)) < 3
  BY <1>5, <1>6
<1> QED
  BY <1>1, <1>7

\* Without a filter the list has a group for each day, and says so.
LEMMA ListIsWhole ==
  ASSUME NEW T
  PROVE  LET list == TransactionList(T, NoFilter, Today)
         IN ~list.chip /\ DOMAIN list.groups = {t.date : t \in T}
<1>1. /\ NoFilter.type = "all" /\ NoFilter.range = "all" /\ NoFilter.account = None
      /\ NoFilter.category = None /\ [NoFilter EXCEPT !.type = "all"] = NoFilter
  BY DEF NoFilter
<1>2. Listed(T, NoFilter, Today) = T
  BY <1>1 DEF Listed
<1>3. DOMAIN Groups(T) = {t.date : t \in T}
  BY DEF Groups
<1> QED
  BY <1>1, <1>2, <1>3 DEF TransactionList

-----------------------------------------------------------------------------
(* The pages.                                                              *)

\* The names in a row of banners.
NamesIn(s) == {s[i] : i \in DOMAIN s}

LEMMA Joined ==
  ASSUME NEW S, NEW s \in Seq(S), NEW t \in Seq(S)
  PROVE  /\ s \o t \in Seq(S) /\ Len(s \o t) = Len(s) + Len(t)
         /\ NamesIn(s \o t) = NamesIn(s) \cup NamesIn(t)
<1>1. /\ s \o t \in Seq(S) /\ Len(s \o t) = Len(s) + Len(t)
      /\ \A i \in 1..(Len(s) + Len(t)) : (s \o t)[i] = IF i <= Len(s) THEN s[i] ELSE t[i - Len(s)]
  BY ConcatProperties
<1>2. /\ Len(s) \in Nat /\ DOMAIN s = 1..Len(s) /\ Len(t) \in Nat /\ DOMAIN t = 1..Len(t)
      /\ DOMAIN (s \o t) = 1..(Len(s) + Len(t))
  BY <1>1, LenProperties
<1>3. \A i \in 1..Len(s) : i \in 1..(Len(s) + Len(t)) /\ (s \o t)[i] = s[i]
  BY <1>1, <1>2
<1>4. \A i \in 1..Len(t) : Len(s) + i \in 1..(Len(s) + Len(t)) /\ (s \o t)[Len(s) + i] = t[i]
  <2> SUFFICES ASSUME NEW i \in 1..Len(t)
               PROVE  Len(s) + i \in 1..(Len(s) + Len(t)) /\ (s \o t)[Len(s) + i] = t[i]
    OBVIOUS
  <2>1. Len(s) + i \in 1..(Len(s) + Len(t)) /\ ~(Len(s) + i <= Len(s)) /\ (Len(s) + i) - Len(s) = i
    BY <1>2
  <2>2. (s \o t)[Len(s) + i] = IF Len(s) + i <= Len(s) THEN s[Len(s) + i] ELSE t[(Len(s) + i) - Len(s)]
    BY <1>1, <2>1
  <2> QED
    BY <2>1, <2>2
<1>5. \A i \in 1..(Len(s) + Len(t)) :
        \/ i \in 1..Len(s) /\ (s \o t)[i] = s[i]
        \/ i - Len(s) \in 1..Len(t) /\ (s \o t)[i] = t[i - Len(s)]
  BY <1>1, <1>2
<1> DEFINE st == s \o t
<1> HIDE DEF st
<1>6. NamesIn(st) = NamesIn(s) \cup NamesIn(t)
  <2>1. DOMAIN st = 1..(Len(s) + Len(t))
    BY <1>2 DEF st
  <2>2. \A i \in DOMAIN s : i \in DOMAIN st /\ st[i] = s[i]
    BY <1>2, <1>3, <2>1 DEF st
  <2>3. \A i \in DOMAIN t : Len(s) + i \in DOMAIN st /\ st[Len(s) + i] = t[i]
    BY <1>2, <1>4, <2>1 DEF st
  <2>4. \A i \in DOMAIN st : \/ i \in DOMAIN s /\ st[i] = s[i]
                             \/ i - Len(s) \in DOMAIN t /\ st[i] = t[i - Len(s)]
    BY <1>2, <1>5, <2>1 DEF st
  <2> QED
    BY <2>2, <2>3, <2>4 DEF NamesIn
<1> QED
  BY <1>1, <1>6 DEF st

LEMMA OneOrNone ==
  ASSUME NEW c \in BOOLEAN, NEW S, NEW id \in S, NEW s, s = IF c THEN <<id>> ELSE <<>>
  PROVE  /\ s \in Seq(S) /\ Len(s) = IF c THEN 1 ELSE 0
         /\ NamesIn(s) = IF c THEN {id} ELSE {}
<1>1. CASE c
  <2>1. s = <<id>>
    BY <1>1
  <2>2. s \in Seq(S) /\ Len(s) = 1 /\ s[1] = id
    BY <2>1
  <2>3. DOMAIN s = {1}
    BY <2>2, LenProperties
  <2>4. NamesIn(s) = {id}
    BY <2>2, <2>3 DEF NamesIn
  <2> QED
    BY <1>1, <2>2, <2>4
<1>2. CASE ~c
  <2>1. s = <<>> /\ DOMAIN s = {}
    BY <1>2
  <2>2. NamesIn(s) = {}
    BY <2>1 DEF NamesIn
  <2> QED
    BY <1>2, <2>1, <2>2
<1> QED
  BY <1>1, <1>2

\* No more than three banners ask for attention, and one of them says when a budget is spent.
LEMMA BannersAre ==
  ASSUME NEW ms, NEW as, NEW bs, NEW stats,
         DOMAIN bs = {} => stats.overBudget = {} /\ stats.warnBudget = {}
  PROVE  LET shown == Banners(ms, as, bs, stats)
         IN Len(shown) <= 3 /\ ("over" \in NamesIn(shown) <=> stats.overBudget # {})
<1> DEFINE W == {"invite", "account", "over", "warn", "budget"}
           c1 == Cardinality(ms) < 2
           c2 == as = {}
           c3 == stats.overBudget # {}
           c4 == ~c3 /\ stats.warnBudget # {}
           c5 == DOMAIN bs = {}
           s1 == IF c1 THEN <<"invite">> ELSE <<>>
           s2 == IF c2 THEN <<"account">> ELSE <<>>
           s3 == IF c3 THEN <<"over">> ELSE <<>>
           s4 == IF c4 THEN <<"warn">> ELSE <<>>
           s5 == IF c5 THEN <<"budget">> ELSE <<>>
           n(c) == IF c THEN 1 ELSE 0
           shown == Banners(ms, as, bs, stats)
<1>1. shown = s1 \o s2 \o s3 \o s4 \o s5
  BY DEF Banners
<1>2. /\ c1 \in BOOLEAN /\ c2 \in BOOLEAN /\ c3 \in BOOLEAN /\ c4 \in BOOLEAN /\ c5 \in BOOLEAN
      /\ ~(c3 /\ c4) /\ ~(c3 /\ c5) /\ ~(c4 /\ c5)
  OBVIOUS
<1> HIDE DEF c1, c2, c4, c5, shown
<1>3. /\ s1 \in Seq(W) /\ Len(s1) = n(c1) /\ NamesIn(s1) = IF c1 THEN {"invite"} ELSE {}
      /\ s2 \in Seq(W) /\ Len(s2) = n(c2) /\ NamesIn(s2) = IF c2 THEN {"account"} ELSE {}
      /\ s3 \in Seq(W) /\ Len(s3) = n(c3) /\ NamesIn(s3) = IF c3 THEN {"over"} ELSE {}
      /\ s4 \in Seq(W) /\ Len(s4) = n(c4) /\ NamesIn(s4) = IF c4 THEN {"warn"} ELSE {}
      /\ s5 \in Seq(W) /\ Len(s5) = n(c5) /\ NamesIn(s5) = IF c5 THEN {"budget"} ELSE {}
  <2> HIDE DEF c3
  <2>1. s1 \in Seq(W) /\ Len(s1) = n(c1) /\ NamesIn(s1) = IF c1 THEN {"invite"} ELSE {}
    <3>1. "invite" \in W /\ s1 = IF c1 THEN <<"invite">> ELSE <<>>
      OBVIOUS
    <3> HIDE DEF s1, W
    <3> QED
      BY <1>2, <3>1, OneOrNone
  <2>2. s2 \in Seq(W) /\ Len(s2) = n(c2) /\ NamesIn(s2) = IF c2 THEN {"account"} ELSE {}
    <3>1. "account" \in W /\ s2 = IF c2 THEN <<"account">> ELSE <<>>
      OBVIOUS
    <3> HIDE DEF s2, W
    <3> QED
      BY <1>2, <3>1, OneOrNone
  <2>3. s3 \in Seq(W) /\ Len(s3) = n(c3) /\ NamesIn(s3) = IF c3 THEN {"over"} ELSE {}
    <3>1. "over" \in W /\ s3 = IF c3 THEN <<"over">> ELSE <<>>
      OBVIOUS
    <3> HIDE DEF s3, W
    <3> QED
      BY <1>2, <3>1, OneOrNone
  <2>4. s4 \in Seq(W) /\ Len(s4) = n(c4) /\ NamesIn(s4) = IF c4 THEN {"warn"} ELSE {}
    <3>1. "warn" \in W /\ s4 = IF c4 THEN <<"warn">> ELSE <<>>
      OBVIOUS
    <3> HIDE DEF s4, W
    <3> QED
      BY <1>2, <3>1, OneOrNone
  <2>5. s5 \in Seq(W) /\ Len(s5) = n(c5) /\ NamesIn(s5) = IF c5 THEN {"budget"} ELSE {}
    <3>1. "budget" \in W /\ s5 = IF c5 THEN <<"budget">> ELSE <<>>
      OBVIOUS
    <3> HIDE DEF s5, W
    <3> QED
      BY <1>2, <3>1, OneOrNone
  <2> QED
    BY <2>1, <2>2, <2>3, <2>4, <2>5
<1> HIDE DEF s1, s2, s3, s4, s5, c3, W
<1> DEFINE t2 == s1 \o s2
           t3 == t2 \o s3
           t4 == t3 \o s4
           t5 == t4 \o s5
<1>31. /\ s1 \in Seq(W) /\ s2 \in Seq(W) /\ s3 \in Seq(W) /\ s4 \in Seq(W) /\ s5 \in Seq(W)
  BY <1>3
<1>4. t2 \in Seq(W) /\ Len(t2) = Len(s1) + Len(s2) /\ NamesIn(t2) = NamesIn(s1) \cup NamesIn(s2)
  BY <1>31, Joined, Zenon
<1> HIDE DEF t2
<1>41. t2 \in Seq(W)
  BY <1>4
<1>5. t3 \in Seq(W) /\ Len(t3) = Len(t2) + Len(s3) /\ NamesIn(t3) = NamesIn(t2) \cup NamesIn(s3)
  BY <1>31, <1>41, Joined, Zenon
<1> HIDE DEF t3
<1>51. t3 \in Seq(W)
  BY <1>5
<1>6. t4 \in Seq(W) /\ Len(t4) = Len(t3) + Len(s4) /\ NamesIn(t4) = NamesIn(t3) \cup NamesIn(s4)
  BY <1>31, <1>51, Joined, Zenon
<1> HIDE DEF t4
<1>61. t4 \in Seq(W)
  BY <1>6
<1>7. Len(t5) = Len(t4) + Len(s5) /\ NamesIn(t5) = NamesIn(t4) \cup NamesIn(s5)
  BY <1>31, <1>61, Joined, Zenon
<1>8. shown = t5
  BY <1>1 DEF t2, t3, t4
<1> HIDE DEF t5
<1>9. Len(t5) = n(c1) + n(c2) + n(c3) + n(c4) + n(c5)
  BY <1>3, <1>4, <1>5, <1>6, <1>7
<1>10. Len(t5) <= 3
  BY <1>2, <1>9
<1>11. "over" \in NamesIn(t5) <=> c3
  BY <1>3, <1>4, <1>5, <1>6, <1>7
<1> QED
  BY <1>8, <1>10, <1>11 DEF shown, c3

\* The pages of what the family has up to today.
Spend(T) == categoryBreakdown(txsInJalaliMonth(T, Today[1], Today[2]))

LEMMA MonthIsSound ==
  ASSUME NEW T, Sound(T)
  PROVE  LET month == txsInJalaliMonth(T, Today[1], Today[2])
         IN /\ month \in SUBSET T /\ Sound(month) /\ PartsMakeTheWhole(month)
            /\ IsSpend(Spend(T)) /\ monthTotals(month).expense = Amounts(OfType(month, "expense"))
            /\ Total(Spend(T)) = monthTotals(month).expense
<1> DEFINE month == txsInJalaliMonth(T, Today[1], Today[2])
<1>1. month \in SUBSET T
  BY DEF txsInJalaliMonth
<1> HIDE DEF month
<1>2. Sound(month)
  BY <1>1, SoundPart
<1>3. PartsMakeTheWhole(month)
  BY <1>2, PartsMake DEF Sound, MoneyOf
<1>4. Spend(T) = categoryBreakdown(month)
  BY DEF Spend, month
<1>5. IsSpend(Spend(T)) /\ Total(Spend(T)) = Amounts(OfType(month, "expense"))
  BY <1>2, <1>4, SpendIs DEF IsSpend
<1>6. monthTotals(month).expense = Amounts(OfType(month, "expense"))
  BY DEF monthTotals
<1> QED
  BY <1>1, <1>2, <1>3, <1>5, <1>6 DEF month

LEMMA SumsOfPages ==
  ASSUME NEW T
  PROVE  LET stats == HubStats(T, House, Budgets, Today)
             home == HomeSummary(T, Budgets, Today)
         IN /\ stats.monthExpense = home.totals.expense /\ stats.balance = home.balance
            /\ stats.shoppingPending = Total([list \in House.lists |-> summarize(list).pending])
<1> DEFINE stats == HubStats(T, House, Budgets, Today)
           home == HomeSummary(T, Budgets, Today)
           month == txsInJalaliMonth(T, Today[1], Today[2])
<1>1. stats.monthExpense = monthTotals(month).expense /\ stats.balance = totalBalance(T)
      /\ stats.shoppingPending = totalPending(House.lists)
  BY DEF HubStats
<1>2. home.totals = monthTotals(month) /\ home.balance = totalBalance(T)
  BY DEF HomeSummary
<1>3. \A list : summarize(list).pending = Cardinality(list)
  BY DEF summarize
<1>4. totalPending(House.lists) = Total([list \in House.lists |-> summarize(list).pending])
  BY <1>3 DEF totalPending
<1> QED
  BY <1>1, <1>2, <1>4

\* The parts a widget names, and the rest, are the whole.
LEMMA PartsOfPages ==
  ASSUME NEW T, Sound(T)
  PROVE  LET month == MonthExpenses(T, Today[1], Today[2])
             members == MemberSpend(T, Today[1], Today[2])
         IN /\ Total(month.slices.top) + month.slices.rest = month.total
            /\ members # None => Total(members.top) + members.rest = month.total
<1> DEFINE m == txsInJalaliMonth(T, Today[1], Today[2])
           total == monthTotals(m).expense
           month == MonthExpenses(T, Today[1], Today[2])
           members == MemberSpend(T, Today[1], Today[2])
           cats == TopAndRest(categoryBreakdown(m))
           share == TopAndRest(memberExpenseShare(m))
<1>1. Total(cats.top) + cats.rest = total /\ Total(share.top) + share.rest = total
  BY MonthIsSound DEF PartsMakeTheWhole, MakeUp
<1>2. month.slices = cats /\ month.total = total
  BY DEF MonthExpenses
<1>3. members = None \/ members = share
  BY DEF MemberSpend
<1> HIDE DEF cats, share, total, month, members
<1> QED
  BY <1>1, <1>2, <1>3 DEF month, members

\* The percentages are off by half of one each.
LEMMA PercentagesOfPages ==
  ASSUME NEW T, Sound(T)
  PROVE  LET month == MonthExpenses(T, Today[1], Today[2])
             cats == MonthlyReport(T, Today[1], Today[2]).cats
             off == Total([c \in DOMAIN cats |-> cats[c].pct]) - 100
         IN month.total > 0 => 2 * off \in -Cardinality(DOMAIN cats)..Cardinality(DOMAIN cats)
<1> DEFINE m == txsInJalaliMonth(T, Today[1], Today[2])
           total == monthTotals(m).expense
           month == MonthExpenses(T, Today[1], Today[2])
           cats == MonthlyReport(T, Today[1], Today[2]).cats
           spend == Spend(T)
           pct == [c \in DOMAIN spend |-> Percent(spend[c], Total(spend))]
<1>1. month.total = total
  BY DEF MonthExpenses
<1>2. cats = [c \in DOMAIN spend |-> [value |-> spend[c], pct |-> Percent(spend[c], total)]]
  BY DEF MonthlyReport, Spend
<1>3. IsSpend(spend) /\ Total(spend) = total
  BY MonthIsSound
<1> HIDE DEF cats, spend, total, month
<1>4. DOMAIN cats = DOMAIN spend /\ [c \in DOMAIN cats |-> cats[c].pct] = pct
  BY <1>2, <1>3
<1>5. total > 0 => 2 * (Total(pct) - 100) \in -Cardinality(DOMAIN spend)..Cardinality(DOMAIN spend)
  BY <1>3, PercentagesAre
<1> HIDE DEF pct
<1>6. month.total > 0 =>
        2 * (Total([c \in DOMAIN cats |-> cats[c].pct]) - 100)
          \in -Cardinality(DOMAIN cats)..Cardinality(DOMAIN cats)
  BY <1>1, <1>4, <1>5
<1> QED
  BY <1>6 DEF month, cats

\* The warnings of the pages name the same categories, and none is without its category.
LEMMA WarningsOfPages ==
  ASSUME NEW T, Sound(T)
  PROVE  LET stats == HubStats(T, House, Budgets, Today)
             board == DashboardNotices(T, House, Budgets, Today)
             circles == BudgetCircles(T, Budgets, Today[1], Today[2])
             home == HomeSummary(T, Budgets, Today)
         IN /\ board.over = {c \in DOMAIN circles : circles[c].level = "over"}
            /\ stats.overBudget = board.over
            /\ home.cap.remaining < 0 => stats.overBudget # {}
<1> DEFINE over == AtLevel(T, Budgets, "over", Today[1], Today[2])
           stats == HubStats(T, House, Budgets, Today)
           board == DashboardNotices(T, House, Budgets, Today)
           circles == BudgetCircles(T, Budgets, Today[1], Today[2])
           home == HomeSummary(T, Budgets, Today)
           spend == Spend(T)
           spent == [c \in DOMAIN Budgets |-> IF c \in DOMAIN spend THEN spend[c] ELSE 0]
<1>1. stats.overBudget = over
  BY DEF HubStats
<1>2. board.over = over
  BY DEF DashboardNotices
<1>3. over = {c \in DOMAIN Budgets : budgetStatus(Budgets[c], spent[c]).level = "over"}
  BY DEF AtLevel, monthCategorySpend, Spend
<1>4. /\ DOMAIN circles = DOMAIN Budgets
      /\ \A c \in DOMAIN Budgets : circles[c].level = budgetStatus(Budgets[c], spent[c]).level
  BY DEF BudgetCircles, monthCategorySpend, Spend
<1>5. home.cap = spendCapacity(Budgets, spend, daysLeftInMonth(Today))
  BY DEF HomeSummary, monthCategorySpend, Spend
<1>6. IsSpend(spend)
  BY MonthIsSound
<1> HIDE DEF over, stats, board, circles, home, spend
<1>7. board.over = {c \in DOMAIN circles : circles[c].level = "over"}
  <2> HIDE DEF spent
  <2> QED
    BY <1>2, <1>3, <1>4
<1>8. ASSUME home.cap.remaining < 0 PROVE over # {}
  <2>1. Capacity - SpentOf(spend) < 0
    <3>1. home.cap.remaining = Capacity - SpentOf(spend)
      BY <1>5, <1>6, BudgetIs
    <3> QED
      BY <1>8, <3>1
  <2>2. PICK c \in Active \cap DOMAIN spend : spend[c] > Budgets[c]
    BY <1>6, <2>1, OverIsSomewhere
  <2>3. /\ c \in DOMAIN Budgets /\ Budgets[c] > 0 /\ Budgets[c] \in Int /\ spend[c] \in Int
        /\ spent[c] = spend[c]
    BY <1>6, <2>2, BudgetsAssumption DEF Active, IsSpend
  <2> HIDE DEF spent
  <2>4. budgetStatus(Budgets[c], spent[c]).level = "over"
    BY <2>2, <2>3 DEF budgetStatus
  <2> QED
    BY <1>3, <2>3, <2>4
<1> QED
  BY <1>1, <1>2, <1>7, <1>8 DEF stats, board, circles, home

LEMMA BannersOfPages ==
  ASSUME NEW T, Sound(T)
  PROVE  LET board == DashboardNotices(T, House, Budgets, Today)
         IN \A bs \in {Budgets, <<>>} :
              LET hub == HubStats(T, House, bs, Today)
              IN \A ms \in {{1}, {1, 2}}, as \in {{}, DOMAIN Initial} :
                   LET shown == Banners(ms, as, bs, hub)
                   IN /\ Len(shown) <= 3
                      /\ (bs = Budgets /\ board.over # {})
                           <=> "over" \in {shown[i] : i \in DOMAIN shown}
<1> DEFINE board == DashboardNotices(T, House, Budgets, Today)
           hub(bs) == HubStats(T, House, bs, Today)
<1>1. board.over = hub(Budgets).overBudget
  BY WarningsOfPages
<1>2. \A bs : /\ hub(bs).overBudget = AtLevel(T, bs, "over", Today[1], Today[2])
              /\ hub(bs).warnBudget = AtLevel(T, bs, "warn", Today[1], Today[2])
  BY DEF HubStats
<1> HIDE DEF board, hub
<1>3. \A bs : DOMAIN bs = {} => hub(bs).overBudget = {} /\ hub(bs).warnBudget = {}
  BY <1>2 DEF AtLevel
<1>4. DOMAIN <<>> = {}
  OBVIOUS
<1> DEFINE shown(bs, ms, as) == Banners(ms, as, bs, hub(bs))
<1>5. ASSUME NEW bs \in {Budgets, <<>>}, NEW ms, NEW as
      PROVE  /\ Len(shown(bs, ms, as)) <= 3
             /\ (bs = Budgets /\ board.over # {})
                  <=> "over" \in {shown(bs, ms, as)[i] : i \in DOMAIN shown(bs, ms, as)}
  <2> DEFINE row == shown(bs, ms, as)
  <2>1. Len(row) <= 3 /\ ("over" \in NamesIn(row) <=> hub(bs).overBudget # {})
    BY <1>3, BannersAre
  <2>2. (bs = Budgets /\ board.over # {}) <=> hub(bs).overBudget # {}
    <3>1. CASE bs = Budgets
      BY <1>1, <3>1
    <3>2. CASE bs # Budgets
      <4>1. bs = <<>>
        BY <3>2
      <4> QED
        BY <1>3, <1>4, <3>2, <4>1
    <3> QED
      BY <3>1, <3>2
  <2>3. NamesIn(row) = {row[i] : i \in DOMAIN row}
    BY DEF NamesIn
  <2> HIDE DEF row
  <2>4. /\ Len(row) <= 3
        /\ (bs = Budgets /\ board.over # {}) <=> "over" \in {row[i] : i \in DOMAIN row}
    BY <2>1, <2>2, <2>3
  <2> QED
    BY <2>4 DEF row
<1> DEFINE Fits(bs, ms, as) ==
             /\ Len(shown(bs, ms, as)) <= 3
             /\ (bs = Budgets /\ board.over # {})
                  <=> "over" \in {shown(bs, ms, as)[i] : i \in DOMAIN shown(bs, ms, as)}
<1>6. ASSUME NEW bs \in {Budgets, <<>>}, NEW ms, NEW as PROVE Fits(bs, ms, as)
  BY <1>5, Zenon
<1> HIDE DEF Fits
<1>7. \A bs \in {Budgets, <<>>} : \A ms \in {{1}, {1, 2}}, as \in {{}, DOMAIN Initial} :
        Fits(bs, ms, as)
  BY <1>6, Zenon
<1> QED
  BY <1>7, Zenon DEF board, hub, shown, Fits

LEMMA TotalsOfPages ==
  ASSUME NEW T, Sound(T)
  PROVE  LET home == HomeSummary(T, Budgets, Today)
             totals == BudgetTotals(T, Budgets, Total(Budgets), Today[1], Today[2])
         IN totals.remaining <= home.cap.remaining /\ ~totals.overCap
<1> DEFINE home == HomeSummary(T, Budgets, Today)
           totals == BudgetTotals(T, Budgets, Total(Budgets), Today[1], Today[2])
           spend == Spend(T)
<1>1. home.cap = spendCapacity(Budgets, spend, daysLeftInMonth(Today))
  BY DEF HomeSummary, monthCategorySpend, Spend
<1>2. totals.remaining = Total(Budgets) - Total(spend)
  BY DEF BudgetTotals, monthCategorySpend, Spend
<1>3. IsSpend(spend)
  BY MonthIsSound
<1> HIDE DEF home, totals, spend
<1>4. home.cap.remaining = Capacity - SpentOf(spend)
  BY <1>1, <1>3, BudgetIs
<1>5. Total(Budgets) - Total(spend) <= Capacity - SpentOf(spend)
  BY <1>3, LessIsLeft
<1>6. Total(Budgets) \in Int
  BY BudgetsAssumption, TotalIsInt
<1>7. ~totals.overCap
  <2>1. ~(Total(Budgets) > Total(Budgets))
    BY <1>6
  <2> QED
    BY <2>1, Zenon DEF totals, BudgetTotals
<1> QED
  BY <1>2, <1>4, <1>5, <1>7 DEF home, totals

LEMMA PagesDo ==
  ASSUME NEW T, Sound(T), \A t \in T : UpTo(t.date, jalaliToIso(Today))
  PROVE  PagesAgree(T, wealthSeries(T, 30, Today, Total(Initial)))
<1> DEFINE wealth == wealthSeries(T, 30, Today, Total(Initial))
<1>1. (\A t \in T : t.type # "transfer") => WeeklyFlow(T, Today).net = wealth[30] - wealth[23]
  <2>1. wealth[30] = WealthAt(T, 0) /\ wealth[23] = WealthAt(T, -7)
    <3>1. 30 \in 1..30 /\ 23 \in 1..30 /\ 30 - 30 = 0 /\ 23 - 30 = -7
      OBVIOUS
    <3>2. wealth = [i \in 1..30 |-> WealthAt(T, i - 30)]
      BY WealthIs
    <3> HIDE DEF wealth
    <3> QED
      BY <3>1, <3>2
  <2> HIDE DEF wealth
  <2> SUFFICES ASSUME \A t \in T : t.type # "transfer"
               PROVE  WeeklyFlow(T, Today).net = wealth[30] - wealth[23]
    OBVIOUS
  <2>2. WeeklyFlow(T, Today).net = WealthAt(T, 0) - WealthAt(T, -7)
    BY WeekAdds
  <2> QED
    BY <2>1, <2>2
<1>2. \A t \in RecentTx(T), u \in T : Before(t.date, u.date) => u \in RecentTx(T)
  BY NewestAre
<1>3. /\ WealthChart(T, "7d", Today, Today, Today, Total(Initial)) = SubSeq(wealth, 24, 30)
      /\ WealthChart(T, "custom", Today, addDays(Today, -1), Today, 0) = <<>>
  BY ChartsAgree
<1>4. LET list == TransactionList(T, NoFilter, Today)
      IN ~list.chip /\ DOMAIN list.groups = {t.date : t \in T}
  BY ListIsWhole
<1> HIDE DEF wealth
<1>5. PagesAgree(T, wealth)
  BY <1>1, <1>2, <1>3, <1>4, SumsOfPages, PartsOfPages, PercentagesOfPages, WarningsOfPages,
     BannersOfPages, TotalsOfPages DEF PagesAgree
<1> QED
  BY <1>5 DEF wealth

LEMMA SeenIsSound == TxInv => Sound(seen)
<1> SUFFICES ASSUME TxInv, NEW t \in seen PROVE MoneyOf(t) /\ IsKept(t.date)
  BY DEF TxInv, Sound
<1>1. MoneyOf(t)
  BY DEF TxInv, TxOf
<1>2. Repeating(t) \in DOMAIN Falls
  BY DEF TxInv, TxOf
<1>3. PICK x \in First \cup Drafts : Repeating(t) = Repeating(x)
  BY <1>2 DEF Falls
<1>4. t.date = x.date
  BY <1>3 DEF Repeating
<1> QED
  BY <1>1, <1>4, DatesAssumption

LEMMA ReportsAdd ==
  ASSUME Sound(seen)
  PROVE  ReportAddsUp
<1> DEFINE jy == Today[1]
           jm == Today[2]
           month == txsInJalaliMonth(seen, jy, jm)
           series == sixMonthSeries(seen, jy, jm)
           week == weekFlow(seen, Today)
           past == {t \in seen : UpTo(t.date, jalaliToIso(Today))}
           wealth == wealthSeries(past, 30, Today, Total(Initial))
           budget == spendCapacity(Budgets, monthCategorySpend(seen, jy, jm), daysLeftInMonth(Today))
<1>1. past \in SUBSET seen /\ Sound(past)
  BY SoundPart
<1>2. PartsMakeTheWhole(month)
  BY MonthIsSound
<1>3. AccountsHoldIt(past)
  <2> HIDE DEF past
  <2> QED
    BY <1>1, AccountsHold DEF Sound
<1>4. series[6] = monthTotals(month)
  <2> DEFINE m == MonthsBack(jy, jm)
  <2>1. m[0] = <<jy, jm>>
    BY NoMonthBack
  <2>2. 6 \in 1..6 /\ 6 - 6 = 0
    OBVIOUS
  <2>3. series = [i \in 1..6 |-> monthTotals(txsInJalaliMonth(seen, m[6 - i][1], m[6 - i][2]))]
    BY DEF sixMonthSeries
  <2> HIDE DEF m, series
  <2>4. series[6] = monthTotals(txsInJalaliMonth(seen, m[0][1], m[0][2]))
    BY <2>2, <2>3
  <2> QED
    BY <2>1, <2>4
<1>5. LET whole == [type |-> "all", range |-> "month", account |-> None, category |-> None]
      IN Listed(seen, whole, Today) = month
  BY MonthIsListed
<1>6. wealthSeriesBetween(past, addDays(Today, -29), Today, 60, Total(Initial)) = wealth
  <2> HIDE DEF past
  <2> QED
    BY ThirtyDays DEF wealthSeriesBetween
<1>7. month \ txsInJalaliMonthUpToDay(seen, jy, jm, Today[3])
        = {t \in month : Before(jalaliToIso(Today), t.date)}
  BY RestOfMonth
<1>8. \A i \in 1..30 : wealth[i] = WealthAt(past, i - 30)
  <2> HIDE DEF past
  <2>1. wealth = [i \in 1..30 |-> WealthAt(past, i - 30)]
    BY WealthIs
  <2> HIDE DEF wealth
  <2> QED
    BY <2>1
<1>9. (\A t \in past : t.account # None) => wealth[30] = Total(accountBalances(past, Initial))
  <2>1. wealth[30] = WealthAt(past, 0)
    <3>1. 30 \in 1..30 /\ 30 - 30 = 0
      OBVIOUS
    <3> HIDE DEF wealth, past
    <3> QED
      BY <1>8, <3>1
  <2>2. \A t \in past : UpTo(t.date, jalaliToIso(Today))
    OBVIOUS
  <2> HIDE DEF wealth, past
  <2> QED
    BY <1>1, <2>1, <2>2, WealthIsHeld
<1>10. (\A t \in seen : t.type # "transfer") =>
         \A i \in 1..7 : week[i].income - week[i].expense = wealth[23 + i] - wealth[22 + i]
  <2> SUFFICES ASSUME \A t \in seen : t.type # "transfer", NEW i \in 1..7
               PROVE  week[i].income - week[i].expense = wealth[23 + i] - wealth[22 + i]
    BY Zenon
  <2>1. /\ 23 + i \in 1..30 /\ 22 + i \in 1..30
        /\ (23 + i) - 30 = i - 7 /\ (22 + i) - 30 = i - 8
    OBVIOUS
  <2>2. wealth[23 + i] = WealthAt(past, i - 7) /\ wealth[22 + i] = WealthAt(past, i - 8)
    <3> HIDE DEF wealth, past
    <3> QED
      BY <1>8, <2>1
  <2>3. week[i].income - week[i].expense = WealthAt(past, i - 7) - WealthAt(past, i - 8)
    BY <1>1, WeekIs
  <2> HIDE DEF wealth, past, week
  <2> QED
    BY <2>2, <2>3
<1>11. PagesAgree(past, wealth)
  <2>1. \A t \in past : UpTo(t.date, jalaliToIso(Today))
    OBVIOUS
  <2> HIDE DEF past
  <2> QED
    BY <1>1, <2>1, PagesDo
<1>12. /\ budget.remaining + budget.spent = budget.cap
       /\ budget.remaining > 0 => budget.perDay * daysLeftInMonth(Today) <= budget.remaining
       /\ (budget.level = "over") <=> (budget.remaining < 0 /\ budget.cap > 0)
  <2>1. budget = spendCapacity(Budgets, Spend(seen), daysLeftInMonth(Today))
    BY DEF Spend, monthCategorySpend
  <2>2. IsSpend(Spend(seen))
    BY MonthIsSound
  <2> HIDE DEF budget
  <2> QED
    BY <2>1, <2>2, BudgetIs
<1> HIDE DEF month, series, week, past, wealth, budget
<1> QED
  BY <1>2, <1>3, <1>4, <1>5, <1>6, <1>7, <1>9, <1>10, <1>11, <1>12
     DEF ReportAddsUp, month, series, week, past, wealth, budget

\* The reports of what a page has agree with each other, with the balances and with what the
\* pages show: the parts of a month's expenses are its expenses, the month of each report is
\* the same, the wealth follows each day and ends at what the accounts hold, and each warning
\* has the budget that is spent.
THEOREM ReportsHold == Spec => []ReportAddsUp
<1>1. TxInv => ReportAddsUp
  BY SeenIsSound, ReportsAdd
<1> QED
  BY <1>1, TxHolds, PTL
=============================================================================
