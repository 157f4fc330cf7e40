---------------------------- MODULE Access_proofs ---------------------------
(* Theorems about Access, for every value of its constants. *)
EXTENDS Access, FiniteSetTheorems, TLAPS

\* What a worker that is on its way holds.
LEMMA HeldRequest ==
  ASSUME TypeOK, NEW w \in Workers, ~Idle(w)
  PROVE  /\ req[w] \in Request
         /\ At(w, "login", "checked") => req[w] \in CheckedRequest
         /\ At(w, "login", "known") => req[w] \in KnownRequest
         /\ \A op \in {"login", "reset"}, step \in {"sought", "granted", "loaded"} :
              At(w, op, step) => req[w] \in LateRequest
         /\ req[w].op = "change" => req[w] \in ChangeRequest
         /\ req[w].op = "code" => req[w] \in CodeRequest
         /\ Decides(w) => req[w] \in DecideRequest
  BY DEF TypeOK, Idle, At, Decides, Request, CodeRequest, CheckedRequest, KnownRequest, LateRequest,
         ChangeRequest, DecideRequest

LEMMA EndedSession ==
  ASSUME TypeOK, NEW s \in SessionIds
  PROVE  /\ Ended(s) \in SessionRow \cup {Null}
         /\ Ended(s) # Null => ~Ended(s).live
  BY DEF TypeOK, Ended, Live, SessionRow, Deleted

LEMMA TypingStep == TypeOK /\ [Next]_vars => TypeOK'
  <1> SUFFICES ASSUME TypeOK, [Next]_vars PROVE TypeOK'
    OBVIOUS
  <1> USE DEF fixed
  <1>1. ASSUME NEW w \in Workers, NEW r \in Request, Ask(w, r) PROVE TypeOK'
    BY <1>1 DEF Ask, TypeOK
  <1>2. ASSUME NEW w \in Workers, CodeStep(w) PROVE TypeOK'
    <2>1. ASSUME NEW purpose \in {"login", "reset"}, BeginCode(w, purpose) PROVE TypeOK'
      BY <1>1, <2>1 DEF BeginCode, Request, CodeRequest
    <2>2. ASSUME NEW k \in CodeIds, CommitCode(w, k) PROVE TypeOK'
      <3>1. /\ req[w].purpose \in {"login", "reset"}
            /\ \A j \in CodeIds : code[j] # Unborn => [code[j] EXCEPT !.age = "deleted"] \in CodeRow
        BY <2>2, HeldRequest DEF CommitCode, TypeOK, CodeRequest, CodeRow, Ages, InTable, Unborn
      <3>2. [purpose |-> req[w].purpose, used |-> FALSE, age |-> "new"] \in CodeRow
        BY <3>1 DEF CodeRow, Ages, InTable, Unborn
      <3>3. code' \in [CodeIds -> CodeRow \cup {Unborn}]
        <4>1. ASSUME NEW j \in CodeIds PROVE code'[j] \in CodeRow \cup {Unborn}
          BY <2>2, <3>1, <3>2 DEF CommitCode, TypeOK, CodeRow
        <4> QED
          BY <2>2, <4>1 DEF CommitCode
      <3> QED
        BY <2>2, <3>3 DEF CommitCode, Done, TypeOK
    <2>3. ASSUME NEW k \in CodeIds \cup {Null}, SeekCode(w, k) PROVE TypeOK'
      <3>1. At(w, "login", "known") /\ ~Idle(w)
        BY <2>3 DEF SeekCode, At
      <3>2. [req[w] EXCEPT !.step = "sought", !.code = k] \in Request
        BY <3>1, HeldRequest DEF At, Request, CheckedRequest, KnownRequest, LateRequest
      <3> QED
        BY <2>3, <3>2 DEF SeekCode, TypeOK
    <2>4. ASSUME NEW k \in CodeIds \cup {Null}, NEW p \in Passwords, BeginReset(w, k, p)
          PROVE  TypeOK'
      BY <1>1, <2>4 DEF BeginReset, Request, LateRequest
    <2>5. CASE Consume(w)
      <3>1. (At(w, "login", "sought") \/ At(w, "reset", "sought")) /\ ~Idle(w)
        BY <2>5 DEF Consume, At
      <3>2. [req[w] EXCEPT !.step = "granted"] \in Request
        BY <3>1, HeldRequest DEF At, Request, CheckedRequest, KnownRequest, LateRequest
      <3>3. code' \in [CodeIds -> CodeRow \cup {Unborn}]
        <4> DEFINE k == req[w].code
        <4>1. k \in CodeIds \cup {Null}
          BY <3>1, HeldRequest DEF LateRequest
        <4>2. CASE UNCHANGED code
          BY <4>2 DEF TypeOK
        <4>3. CASE k # Null /\ Wins(k) /\ code' = [code EXCEPT ![k] = [code[k] EXCEPT !.used = TRUE]]
          <5>1. code[k] \in CodeRow
            BY <4>1, <4>3 DEF Wins, InTable, Unborn, TypeOK
          <5>2. [code[k] EXCEPT !.used = TRUE] \in CodeRow
            BY <5>1 DEF CodeRow
          <5> QED
            BY <4>3, <5>2 DEF TypeOK
        <4> QED
          BY <2>5, <4>2, <4>3 DEF Consume
      <3> QED
        BY <2>5, <3>2, <3>3 DEF Consume, Fail, Done, TypeOK
    <2> QED
      BY <1>2, <2>1, <2>2, <2>3, <2>4, <2>5 DEF CodeStep
  <1>3. ASSUME NEW w \in Workers, LoginStep(w) PROVE TypeOK'
    <2>1. ASSUME NEW p \in Passwords, BeginLogin(w, p) PROVE TypeOK'
      <3>1. [op |-> "login", secret |-> p, step |-> "checked", code |-> Null, row |-> member]
              \in Request
        BY DEF Request, CheckedRequest, KnownRequest, TypeOK
      <3> QED
        BY <1>1, <2>1, <3>1 DEF BeginLogin
    <2>2. CASE RecordAttempt(w)
      <3>1. At(w, "login", "checked") /\ ~Idle(w)
        BY <2>2 DEF RecordAttempt, At
      <3>2. [req[w] EXCEPT !.step = "known", !.row = Null] \in Request /\ req[w].secret \in Passwords
        BY <3>1, HeldRequest DEF At, Request, CheckedRequest, KnownRequest, LateRequest
      <3>3. member' \in MemberRow \cup {Null}
        BY <2>2, <3>2 DEF RecordAttempt, TypeOK, MemberRow, Here
      <3>4. fails' \in Nat /\ req' \in [Workers -> Request \cup {Null}]
        BY <2>2, <3>2 DEF RecordAttempt, Fail, Done, TypeOK
      <3> QED
        BY <2>2, <3>3, <3>4 DEF RecordAttempt, TypeOK
    <2>3. CASE LoadMember(w)
      <3>1. /\ ~Idle(w)
            /\ At(w, "login", "known") \/ At(w, "login", "granted") \/ At(w, "reset", "granted")
        BY <2>3 DEF LoadMember, Proven, At
      <3>2. [req[w] EXCEPT !.step = "loaded"] \in Request
        BY <3>1, HeldRequest DEF At, Request, CheckedRequest, KnownRequest, LateRequest
      <3> QED
        BY <2>3, <3>2 DEF LoadMember, TypeOK
    <2>4. ASSUME NEW s \in SessionIds, CommitLogin(w, s) PROVE TypeOK'
      <3>1. req[w].secret \in Passwords
        BY <2>4, HeldRequest DEF CommitLogin, At, LateRequest
      <3>2. [by |-> req[w].secret, live |-> TRUE] \in SessionRow
        BY <3>1 DEF SessionRow
      <3> QED
        BY <2>4, <3>2 DEF CommitLogin, Done, TypeOK
    <2>5. CASE CommitReset(w)
      <3>1. req[w].secret \in Passwords
        BY <2>5, HeldRequest DEF CommitReset, At, LateRequest
      <3>2. member' \in MemberRow
        BY <2>5, <3>1 DEF CommitReset, Here, TypeOK, MemberRow
      <3>3. session' \in [SessionIds -> SessionRow \cup {Null}]
        BY <2>5, EndedSession DEF CommitReset
      <3> QED
        BY <2>5, <3>1, <3>2, <3>3 DEF CommitReset, Done, TypeOK
    <2> QED
      BY <1>3, <2>1, <2>2, <2>3, <2>4, <2>5 DEF LoginStep
  <1>4. ASSUME NEW w \in Workers, SessionStep(w) PROVE TypeOK'
    <2>1. ASSUME NEW s \in SessionIds, NEW p \in Passwords, NEW new \in Passwords,
                 BeginChange(w, s, p, new)
          PROVE  TypeOK'
      BY <1>1, <2>1 DEF BeginChange, Request, ChangeRequest
    <2>2. CASE CommitChange(w)
      <3>1. req[w].op = "change" /\ ~Idle(w)
        BY <2>2 DEF CommitChange, At
      <3>2. [req[w] EXCEPT !.step = "changed"] \in Request /\ req[w].secret \in Passwords
        BY <3>1, HeldRequest DEF Request, ChangeRequest
      <3>3. member' \in MemberRow
        BY <2>2, <3>2 DEF CommitChange, Here, TypeOK, MemberRow
      <3> QED
        BY <2>2, <3>2, <3>3 DEF CommitChange, TypeOK
    <2>3. CASE RevokeOthers(w)
      <3>1. session' \in [SessionIds -> SessionRow \cup {Null}]
        BY <2>3, EndedSession DEF RevokeOthers, TypeOK
      <3> QED
        BY <2>3, <3>1 DEF RevokeOthers, Done, TypeOK
    <2>4. ASSUME NEW s \in SessionIds, Logout(w, s) \/ LogoutAll(w, s) PROVE TypeOK'
      <3>1. session' \in [SessionIds -> SessionRow \cup {Null}]
        BY <2>4, EndedSession DEF Logout, LogoutAll, TypeOK
      <3> QED
        BY <2>4, <3>1 DEF Logout, LogoutAll, TypeOK
    <2>5. ASSUME NEW verdict \in Verdicts, BeginDecision(w, verdict) PROVE TypeOK'
      BY <1>1, <2>5 DEF BeginDecision, Request, DecideRequest, States
    <2>6. CASE RemoveMember(w)
      <3>1. session' \in [SessionIds -> SessionRow \cup {Null}]
        BY <2>6, EndedSession DEF RemoveMember
      <3> QED
        BY <2>6, <3>1 DEF RemoveMember, TypeOK
    <2>7. CASE SeeMember(w)
      <3>1. req[w] \in DecideRequest /\ member.state \in States
        BY <2>7, HeldRequest DEF SeeMember, Decides, Here, TypeOK, MemberRow
      <3>2. [req[w] EXCEPT !.loaded = member.state] \in Request
        BY <3>1 DEF DecideRequest, Request
      <3> QED
        BY <2>7, <3>2 DEF SeeMember, TypeOK
    <2>8. CASE CommitDecision(w)
      <3>1. req[w] \in DecideRequest /\ member \in MemberRow
        BY <2>8, HeldRequest DEF CommitDecision, Decides, Here, TypeOK
      <3>2. member' \in MemberRow
        BY <2>8, <3>1 DEF CommitDecision, DecideRequest, MemberRow, States
      <3> QED
        BY <2>8, <3>2 DEF CommitDecision, Done, TypeOK
    <2> QED
      BY <1>4, <2>1, <2>2, <2>3, <2>4, <2>5, <2>6, <2>7, <2>8 DEF SessionStep
  <1>5. ASSUME NEW w \in Workers, Rollback(w) PROVE TypeOK'
    BY <1>5 DEF Rollback, Done, TypeOK
  <1>6. ASSUME NEW k \in CodeIds, CodeAges(k) PROVE TypeOK'
    BY <1>6 DEF CodeAges, TypeOK, CodeRow, Ages, InTable, Unborn
  <1>7. ASSUME NEW s \in SessionIds, SessionDies(s) PROVE TypeOK'
    BY <1>7, EndedSession DEF SessionDies, TypeOK
  <1>8. CASE WindowPasses
    BY <1>8 DEF WindowPasses, TypeOK
  <1>9. CASE UNCHANGED vars
    BY <1>9 DEF vars, TypeOK
  <1> QED
    BY <1>2, <1>3, <1>4, <1>5, <1>6, <1>7, <1>8, <1>9 DEF Next

\* Every value the specification reaches has its type.
THEOREM Typing == Spec => []TypeOK
  <1>1. Init => TypeOK
    BY PasswordAssumption DEF Init, TypeOK, MemberRow, States, Verdicts, CodeRow, Ages, InTable, Unborn
  <1> QED
    BY <1>1, TypingStep, PTL DEF Spec

-----------------------------------------------------------------------------
\* A worker comes to hold a granted code only by the UPDATE that marks it used.
LEMMA CodeStepOnce ==
  ASSUME TypeOK, [Next]_vars, NEW k \in CodeIds
  PROVE  /\ Spent(k) => Spent(k)'
         /\ \A w \in Workers : ~Granted(w, k) /\ Granted(w, k)' => ~Spent(k) /\ Spent(k)'
  <1> DEFINE Once == /\ Spent(k) => Spent(k)'
                     /\ \A w \in Workers :
                          ~Granted(w, k) /\ Granted(w, k)' => ~Spent(k) /\ Spent(k)'
  <1> USE DEF fixed
  <1> SUFFICES Once
    OBVIOUS
  <1>1. ASSUME NEW v \in Workers, Done(v), Spent(k) => Spent(k)' PROVE Once
    BY <1>1 DEF Done, Granted, Idle, TypeOK
  <1>2. ASSUME NEW v \in Workers, NEW r, Ask(v, r), r.op \in {"login", "reset"} =>
                                                     r.step \in {"checked", "sought"}
        PROVE  Once
    BY <1>2 DEF Ask, Granted, Spent, Idle, TypeOK
  <1>3. ASSUME req' = req, Spent(k) => Spent(k)' PROVE Once
    BY <1>3 DEF Granted, Idle
  <1>4. ASSUME NEW v \in Workers, CodeStep(v) PROVE Once
    <2>1. ASSUME NEW purpose, BeginCode(v, purpose) PROVE Once
      BY <1>2, <2>1 DEF BeginCode
    <2>2. ASSUME NEW j \in CodeIds, CommitCode(v, j) PROVE Once
      <3>1. Spent(k) => Spent(k)'
        <4>1. CASE k = j
          BY <2>2, <4>1 DEF CommitCode, Spent, TypeOK, Unborn
        <4>2. CASE k # j
          BY <2>2, <4>2 DEF CommitCode, Spent, TypeOK, CodeRow
        <4> QED
          BY <4>1, <4>2
      <3> QED
        BY <1>1, <2>2, <3>1 DEF CommitCode
    <2>3. ASSUME NEW j \in CodeIds \cup {Null}, SeekCode(v, j) PROVE Once
      <3>1. /\ code' = code
            /\ req' = [req EXCEPT ![v] = [req[v] EXCEPT !.step = "sought", !.code = j]]
            /\ req[v].op = "login" /\ ~Idle(v)
        BY <2>3 DEF SeekCode, At
      <3>2. req'[v].step = "sought"
        BY <3>1, HeldRequest DEF At, TypeOK, CheckedRequest, KnownRequest, LateRequest
      <3>3. \A w \in Workers : w # v => req'[w] = req[w]
        BY <3>1 DEF TypeOK
      <3> QED
        BY <3>1, <3>2, <3>3 DEF Granted, Spent, Idle
    <2>4. ASSUME NEW j, NEW p, BeginReset(v, j, p) PROVE Once
      BY <1>2, <2>4 DEF BeginReset
    <2>5. CASE Consume(v)
      <3>1. CASE Fail(v) /\ UNCHANGED code
        BY <1>1, <3>1 DEF Fail, Spent
      <3>2. CASE /\ req[v].code # Null /\ Wins(req[v].code)
                 /\ code' = [code EXCEPT ![req[v].code].used = TRUE]
                 /\ req' = [req EXCEPT ![v].step = "granted"]
        <4>1. (At(v, "login", "sought") \/ At(v, "reset", "sought")) /\ ~Idle(v)
          BY <2>5 DEF Consume, At
        <4>2. req[v].code \in CodeIds /\ req'[v].code = req[v].code
          BY <3>2, <4>1, HeldRequest DEF At, TypeOK, CheckedRequest, KnownRequest, LateRequest
        <4>3. \A w \in Workers : w # v => req'[w] = req[w]
          BY <3>2 DEF TypeOK
        <4>4. ~Spent(req[v].code) /\ code'[req[v].code].used
          BY <3>2, <4>2 DEF Wins, Spent, TypeOK, CodeRow
        <4>5. k # req[v].code => code'[k] = code[k]
          BY <3>2 DEF TypeOK
        <4>6. Spent(k) => Spent(k)'
          BY <4>4, <4>5 DEF Spent
        <4>7. ASSUME NEW w \in Workers, ~Granted(w, k), Granted(w, k)'
              PROVE  ~Spent(k) /\ Spent(k)'
          <5>1. w = v
            BY <4>3, <4>7 DEF Granted, Idle
          <5>2. k = req[v].code
            BY <4>2, <4>7, <5>1 DEF Granted
          <5> QED
            BY <4>4, <5>2 DEF Spent
        <4> QED
          BY <4>6, <4>7
      <3> QED
        BY <2>5, <3>1, <3>2 DEF Consume
    <2> QED
      BY <1>4, <2>1, <2>2, <2>3, <2>4, <2>5 DEF CodeStep
  <1>5. ASSUME NEW v \in Workers, LoginStep(v) PROVE Once
    <2>1. ASSUME NEW p, BeginLogin(v, p) PROVE Once
      BY <1>2, <2>1 DEF BeginLogin
    <2>2. CASE RecordAttempt(v)
      <3>1. req[v].op = "login" /\ ~Idle(v) /\ code' = code
        BY <2>2 DEF RecordAttempt, At
      <3>2. CASE Fail(v)
        BY <1>1, <3>1, <3>2 DEF Fail, Spent
      <3>3. CASE req' = [req EXCEPT ![v] = [req[v] EXCEPT !.step = "known", !.row = Null]]
        <4>1. req'[v].step = "known"
          BY <3>1, <3>3, HeldRequest DEF At, TypeOK, CheckedRequest, KnownRequest, LateRequest
        <4>2. \A w \in Workers : w # v => req'[w] = req[w]
          BY <3>3 DEF TypeOK
        <4> QED
          BY <3>1, <4>1, <4>2 DEF Granted, Spent, Idle
      <3> QED
        BY <2>2, <3>2, <3>3 DEF RecordAttempt
    <2>3. CASE LoadMember(v)
      <3>1. /\ req[v].op \in {"login", "reset"} /\ ~Idle(v) /\ code' = code
            /\ req' = [req EXCEPT ![v].step = "loaded"]
            /\ req[v].step \in {"known", "granted"}
        BY <2>3 DEF LoadMember, Proven, At
      <3>2. req'[v].code = req[v].code /\ req'[v].op = req[v].op
        BY <3>1, HeldRequest DEF At, TypeOK, CheckedRequest, KnownRequest, LateRequest
      <3>3. \A w \in Workers : w # v => req'[w] = req[w]
        BY <3>1 DEF TypeOK
      <3>4. CASE req[v].step = "granted"
        BY <3>1, <3>2, <3>3, <3>4 DEF Granted, Spent, Idle
      <3>5. CASE req[v].step = "known"
        <4>2. At(v, "login", "known")
          BY <2>3, <3>5 DEF LoadMember, Proven, At
        <4>1. req[v].code = Null
          BY <3>1, <4>2, HeldRequest DEF KnownRequest
        <4> QED
          BY <3>1, <3>2, <3>3, <4>1, NullAssumption DEF Granted, Spent, Idle
      <3> QED
        BY <3>1, <3>4, <3>5
    <2>4. (\E s \in SessionIds : CommitLogin(v, s)) \/ CommitReset(v) => Done(v) /\ code' = code
      BY DEF CommitLogin, CommitReset
    <2> QED
      BY <1>1, <1>5, <2>1, <2>2, <2>3, <2>4 DEF LoginStep, Spent
  <1>6. ASSUME NEW v \in Workers, SessionStep(v) PROVE Once
    <2>1. ASSUME NEW s, NEW p, NEW new, BeginChange(v, s, p, new) PROVE Once
      BY <1>2, <2>1 DEF BeginChange
    <2>2. CASE CommitChange(v)
      <3>1. /\ req[v].op = "change" /\ ~Idle(v) /\ code' = code
            /\ req' = [req EXCEPT ![v].step = "changed"]
        BY <2>2 DEF CommitChange, At
      <3>2. req'[v].step = "changed"
        BY <3>1, HeldRequest DEF TypeOK, ChangeRequest
      <3>3. \A w \in Workers : w # v => req'[w] = req[w]
        BY <3>1 DEF TypeOK
      <3> QED
        BY <3>1, <3>2, <3>3 DEF Granted, Spent, Idle
    <2>3. RevokeOthers(v) => Done(v) /\ code' = code
      BY DEF RevokeOthers
    <2>4. (\E s \in SessionIds : Logout(v, s) \/ LogoutAll(v, s)) \/ RemoveMember(v)
            => req' = req /\ code' = code
      BY DEF Logout, LogoutAll, RemoveMember
    <2>5. ASSUME NEW verdict, BeginDecision(v, verdict) PROVE Once
      BY <1>2, <2>5 DEF BeginDecision
    <2>6. CASE SeeMember(v)
      <3>1. /\ req[v].op = "decide" /\ ~Idle(v) /\ code' = code
            /\ req' = [req EXCEPT ![v].loaded = member.state]
        BY <2>6 DEF SeeMember, Decides
      <3>2. req'[v].op = "decide"
        BY <3>1, HeldRequest DEF Decides, TypeOK, DecideRequest
      <3>3. \A w \in Workers : w # v => req'[w] = req[w]
        BY <3>1 DEF TypeOK
      <3> QED
        BY <3>1, <3>2, <3>3 DEF Granted, Spent, Idle
    <2>7. CommitDecision(v) => Done(v) /\ code' = code
      BY DEF CommitDecision
    <2> QED
      BY <1>1, <1>3, <1>6, <2>1, <2>2, <2>3, <2>4, <2>5, <2>6, <2>7 DEF SessionStep, Spent
  <1>7. ASSUME NEW j \in CodeIds, CodeAges(j) PROVE Once
    <2>1. Spent(k) => Spent(k)'
      <3>1. CASE k = j
        BY <1>7, <3>1 DEF CodeAges, Spent, TypeOK, CodeRow
      <3>2. CASE k # j
        BY <1>7, <3>2 DEF CodeAges, Spent, TypeOK, CodeRow
      <3> QED
        BY <3>1, <3>2
    <2> QED
      BY <1>3, <1>7, <2>1 DEF CodeAges
  <1>8. ASSUME NEW v \in Workers, Rollback(v) PROVE Once
    BY <1>1, <1>8 DEF Rollback, Spent
  <1>9. (\E s \in SessionIds : SessionDies(s)) \/ WindowPasses \/ UNCHANGED vars
          => req' = req /\ code' = code
    BY DEF SessionDies, WindowPasses, vars
  <1> HIDE DEF Once
  <1> QED
    BY <1>3, <1>4, <1>5, <1>6, <1>7, <1>8, <1>9 DEF Next, Spent

\* However many requests name one code at once, it lets one of them through.
THEOREM CodeOnce == Spec => CodeLetsOneThrough
  <1>1. TypeOK /\ [Next]_vars =>
          [\A k \in CodeIds :
             /\ Spent(k) => Spent(k)'
             /\ \A w \in Workers : ~Granted(w, k) /\ Granted(w, k)' => ~Spent(k) /\ Spent(k)']_vars
    BY CodeStepOnce
  <1> QED
    BY <1>1, Typing, PTL DEF Spec, CodeLetsOneThrough

-----------------------------------------------------------------------------
\* The requests that passed the lock and have not yet recorded what came of it.
Testing ==
  {w \in Workers : At(w, "login", "checked") \/ At(w, "login", "sought") \/ At(w, "reset", "sought")}

OnlyPool == \A w \in Workers : ~Idle(w) => w \in pool

Tried ==
  \/ fails' <= fails /\ Testing' \subseteq Testing
  \/ fails' = fails /\ ~Locked
  \/ fails' = 0
  \/ \E w \in Testing : fails' = fails + 1 /\ Testing' \subseteq Testing \ {w}

\* A failure is recorded by a request that was testing, and ends it; a request starts
\* to test only while the phone is not locked.
LEMMA Tries ==
  ASSUME TypeOK, OnlyPool, [Next]_vars
  PROVE  Tried /\ OnlyPool' /\ pool' = pool
  <1> DEFINE Goal == Tried /\ OnlyPool' /\ pool' = pool
  <1> USE DEF fixed
  <1> SUFFICES Goal
    OBVIOUS
  <1>1. ASSUME NEW w \in Workers, Done(w), fails' <= fails, pool' = pool PROVE Goal
    BY <1>1 DEF Done, Tried, Testing, OnlyPool, At, Idle, TypeOK
  <1>2. ASSUME NEW w \in Workers, w \in Testing, Fail(w), pool' = pool PROVE Goal
    BY <1>2 DEF Fail, Done, Tried, Testing, OnlyPool, At, Idle, TypeOK
  <1>3. ASSUME req' = req, fails' <= fails, pool' = pool PROVE Goal
    BY <1>3 DEF Tried, Testing, OnlyPool, At, Idle
  <1>4. ASSUME NEW w \in Workers, NEW r, Ask(w, r),
               \/ ~Locked
               \/ r.op \notin {"login", "reset"}
        PROVE  Goal
    <2>1. OnlyPool' /\ pool' = pool /\ fails' = fails
      BY <1>4 DEF Ask, OnlyPool, Idle, TypeOK
    <2>2. ~Locked => Tried
      BY <2>1 DEF Tried
    <2>3. r.op \notin {"login", "reset"} => Testing' \subseteq Testing
      BY <1>4 DEF Ask, Testing, At, Idle, TypeOK
    <2> QED
      BY <1>4, <2>1, <2>2, <2>3 DEF Tried, TypeOK
  <1>5. ASSUME NEW w \in Workers, NEW r, ~Idle(w), req' = [req EXCEPT ![w] = r], r # Null,
               pool' = pool, \/ fails' = 0
                             \/ fails' = fails /\ ~Locked
                             \/ fails' = fails /\ (r.op \in {"login", "reset"} =>
                                                    r.step \notin {"checked", "sought"})
        PROVE  Goal
    <2>1. OnlyPool'
      BY <1>5 DEF OnlyPool, Idle, TypeOK
    <2>2. (r.op \in {"login", "reset"} => r.step \notin {"checked", "sought"})
            => Testing' \subseteq Testing
      BY <1>5 DEF Testing, At, Idle, TypeOK
    <2> QED
      BY <1>5, <2>1, <2>2 DEF Tried, TypeOK
  <1>6. ASSUME NEW w \in Workers, CodeStep(w) PROVE Goal
    <2>1. ASSUME NEW purpose, BeginCode(w, purpose) PROVE Goal
      BY <1>4, <2>1 DEF BeginCode
    <2>2. ASSUME NEW k, CommitCode(w, k) PROVE Goal
      BY <1>1, <2>2 DEF CommitCode, TypeOK
    <2>3. ASSUME NEW k \in CodeIds \cup {Null}, SeekCode(w, k) PROVE Goal
      <3> DEFINE r == [req[w] EXCEPT !.step = "sought", !.code = k]
      <3>1. At(w, "login", "known") /\ ~Idle(w)
        BY <2>3 DEF SeekCode, At
      <3>2. r \in LateRequest
        BY <3>1, HeldRequest DEF KnownRequest, LateRequest
      <3>3. r # Null
        BY <3>2, NullAssumption DEF Request
      <3>4. req' = [req EXCEPT ![w] = r] /\ fails' = fails /\ ~Locked /\ pool' = pool
        BY <2>3 DEF SeekCode
      <3> HIDE DEF r
      <3> QED
        BY <1>5, <3>1, <3>3, <3>4
    <2>4. ASSUME NEW k, NEW p, BeginReset(w, k, p) PROVE Goal
      BY <1>4, <2>4 DEF BeginReset
    <2>5. CASE Consume(w)
      <3>1. w \in Testing /\ ~Idle(w) /\ pool' = pool
        BY <2>5 DEF Consume, Testing, At
      <3>2. CASE Fail(w)
        BY <1>2, <3>1, <3>2
      <3>3. CASE fails' = 0 /\ req' = [req EXCEPT ![w].step = "granted"]
        <4> DEFINE r == [req[w] EXCEPT !.step = "granted"]
        <4>1. r \in LateRequest
          BY <2>5, <3>1, HeldRequest DEF Consume, LateRequest
        <4>2. r # Null
          BY <4>1, NullAssumption DEF Request
        <4>3. req' = [req EXCEPT ![w] = r]
          BY <3>3
        <4> HIDE DEF r
        <4> QED
          BY <1>5, <3>1, <3>3, <4>2, <4>3
      <3> QED
        BY <2>5, <3>2, <3>3 DEF Consume
    <2> HIDE DEF Goal
    <2> QED
      BY <1>6, <2>1, <2>2, <2>3, <2>4, <2>5 DEF CodeStep
  <1>7. ASSUME NEW w \in Workers, LoginStep(w) PROVE Goal
    <2>1. ASSUME NEW p, BeginLogin(w, p) PROVE Goal
      BY <1>4, <2>1 DEF BeginLogin
    <2>2. CASE RecordAttempt(w)
      <3>1. w \in Testing /\ ~Idle(w) /\ At(w, "login", "checked") /\ pool' = pool
        BY <2>2 DEF RecordAttempt, Testing, At
      <3>2. CASE Fail(w)
        BY <1>2, <3>1, <3>2
      <3>3. CASE fails' = 0 /\ req' = [req EXCEPT ![w] = [req[w] EXCEPT !.step = "known", !.row = Null]]
        <4> DEFINE r == [req[w] EXCEPT !.step = "known", !.row = Null]
        <4>1. r \in KnownRequest
          BY <3>1, HeldRequest DEF CheckedRequest, KnownRequest
        <4>2. r # Null
          BY <4>1, NullAssumption DEF Request
        <4>3. req' = [req EXCEPT ![w] = r]
          BY <3>3
        <4> HIDE DEF r
        <4> QED
          BY <1>5, <3>1, <3>3, <4>2, <4>3
      <3> QED
        BY <2>2, <3>2, <3>3 DEF RecordAttempt
    <2>3. CASE LoadMember(w)
      <3> DEFINE r == [req[w] EXCEPT !.step = "loaded"]
      <3>1. /\ At(w, "login", "known") \/ At(w, "login", "granted") \/ At(w, "reset", "granted")
            /\ ~Idle(w) /\ pool' = pool /\ fails' = fails /\ req' = [req EXCEPT ![w] = r]
        BY <2>3 DEF LoadMember, Proven, At
      <3>2. r \in LateRequest
        BY <3>1, HeldRequest DEF KnownRequest, LateRequest
      <3>3. r # Null /\ r.step = "loaded"
        BY <3>2, NullAssumption DEF Request, LateRequest
      <3> HIDE DEF r
      <3> QED
        BY <1>5, <3>1, <3>3
    <2>4. ASSUME NEW s, CommitLogin(w, s) PROVE Goal
      BY <1>1, <2>4 DEF CommitLogin, TypeOK
    <2>5. CASE CommitReset(w)
      BY <1>1, <2>5 DEF CommitReset, TypeOK
    <2> HIDE DEF Goal
    <2> QED
      BY <1>7, <2>1, <2>2, <2>3, <2>4, <2>5 DEF LoginStep
  <1>8. ASSUME NEW w \in Workers, SessionStep(w) PROVE Goal
    <2>1. ASSUME NEW s, NEW p, NEW new, BeginChange(w, s, p, new) PROVE Goal
      BY <1>4, <2>1 DEF BeginChange
    <2>2. CASE CommitChange(w)
      <3> DEFINE r == [req[w] EXCEPT !.step = "changed"]
      <3>1. /\ req[w].op = "change" /\ ~Idle(w) /\ pool' = pool /\ fails' = fails
            /\ req' = [req EXCEPT ![w] = r]
        BY <2>2 DEF CommitChange, At
      <3>2. r \in ChangeRequest /\ r.step = "changed"
        BY <3>1, HeldRequest DEF ChangeRequest
      <3>3. r # Null
        BY <3>2, NullAssumption DEF Request
      <3> HIDE DEF r
      <3> QED
        BY <1>5, <3>1, <3>2, <3>3
    <2>3. CASE RevokeOthers(w)
      BY <1>1, <2>3 DEF RevokeOthers, TypeOK
    <2>4. (\E s \in SessionIds : Logout(w, s) \/ LogoutAll(w, s)) \/ RemoveMember(w)
            => req' = req /\ fails' = fails /\ pool' = pool
      BY DEF Logout, LogoutAll, RemoveMember
    <2>5. fails <= fails
      BY DEF TypeOK
    <2>6. ASSUME NEW verdict, BeginDecision(w, verdict) PROVE Goal
      BY <1>4, <2>6 DEF BeginDecision
    <2>7. CASE SeeMember(w)
      <3> DEFINE r == [req[w] EXCEPT !.loaded = member.state]
      <3>1. Decides(w) /\ ~Idle(w) /\ pool' = pool /\ fails' = fails /\ req' = [req EXCEPT ![w] = r]
        BY <2>7 DEF SeeMember, Decides
      <3>2. member.state \in States
        BY <2>7 DEF SeeMember, Here, TypeOK, MemberRow
      <3>3. r \in DecideRequest /\ r.op = "decide"
        BY <3>1, <3>2, HeldRequest DEF DecideRequest
      <3>4. r # Null
        BY <3>3, NullAssumption DEF Request
      <3> HIDE DEF r
      <3> QED
        BY <1>5, <3>1, <3>3, <3>4
    <2>8. CASE CommitDecision(w)
      BY <1>1, <2>5, <2>8 DEF CommitDecision
    <2> HIDE DEF Goal
    <2> QED
      BY <1>3, <1>8, <2>1, <2>2, <2>3, <2>4, <2>5, <2>6, <2>7, <2>8 DEF SessionStep
  <1>9. ASSUME NEW w \in Workers, Rollback(w) PROVE Goal
    BY <1>1, <1>9 DEF Rollback, TypeOK
  <1>10. (\E k \in CodeIds : CodeAges(k)) \/ (\E s \in SessionIds : SessionDies(s)) \/ WindowPasses
           \/ UNCHANGED vars => req' = req /\ fails' <= fails /\ pool' = pool
    BY DEF CodeAges, SessionDies, WindowPasses, vars, TypeOK
  <1> HIDE DEF Goal
  <1> QED
    BY <1>3, <1>6, <1>7, <1>8, <1>9, <1>10 DEF Next

\* Failures recorded and failures to come stay below what the lock and the number of
\* workers allow.
LockInv == pool # {} => fails + Cardinality(Testing) <= MaxFails - 1 + Cardinality(pool)

LEMMA Counts ==
  ASSUME TypeOK, OnlyPool
  PROVE  /\ IsFiniteSet(pool) /\ Cardinality(pool) \in Nat
         /\ \A S \in SUBSET pool : IsFiniteSet(S) /\ Cardinality(S) \in Nat
                                     /\ Cardinality(S) <= Cardinality(pool)
         /\ Testing \subseteq pool
         /\ pool # {} => Cardinality(pool) >= 1
  <1>1. IsFiniteSet(pool)
    BY WorkersAssumption, FS_Subset DEF TypeOK
  <1>2. Cardinality(pool) \in Nat
    BY <1>1, FS_CardinalityType
  <1>3. ASSUME NEW S \in SUBSET pool
        PROVE  IsFiniteSet(S) /\ Cardinality(S) \in Nat /\ Cardinality(S) <= Cardinality(pool)
    BY <1>1, FS_Subset, FS_CardinalityType
  <1>4. Testing \subseteq pool
    BY DEF Testing, OnlyPool, At
  <1>5. pool # {} => Cardinality(pool) >= 1
    BY <1>1, <1>2, FS_EmptySet
  <1> QED
    BY <1>1, <1>2, <1>3, <1>4, <1>5

LEMMA LockStep == TypeOK /\ OnlyPool /\ LockInv /\ [Next]_vars => OnlyPool' /\ LockInv'
  <1> SUFFICES ASSUME TypeOK, OnlyPool, LockInv, [Next]_vars, pool # {}
               PROVE  OnlyPool' /\ fails' + Cardinality(Testing') <= MaxFails - 1 + Cardinality(pool)
    BY Tries DEF LockInv
  <1>1. Tried /\ OnlyPool' /\ pool' = pool /\ TypeOK'
    BY Tries, TypingStep
  <1>2. Testing' \subseteq pool
    BY <1>1 DEF Testing, OnlyPool, At
  <1> DEFINE t == Cardinality(Testing)
             u == Cardinality(Testing')
             n == Cardinality(pool)
  <1>3. /\ t \in Nat /\ u \in Nat /\ n \in Nat /\ n >= 1 /\ u <= n
        /\ IsFiniteSet(Testing)
    BY <1>2, Counts
  <1>4. fails \in Nat /\ fails' \in Nat /\ MaxFails \in Nat /\ MaxFails >= 1
    BY <1>1, MaxFailsAssumption DEF TypeOK
  <1>5. fails + t <= MaxFails - 1 + n
    BY DEF LockInv
  <1>6. Testing' \subseteq Testing => u <= t
    BY <1>3, FS_Subset
  <1>7. ASSUME NEW w \in Testing, Testing' \subseteq Testing \ {w} PROVE u <= t - 1
    <2>1. IsFiniteSet(Testing \ {w}) /\ Cardinality(Testing \ {w}) = t - 1
      BY <1>3, FS_RemoveElement
    <2> QED
      BY <1>7, <2>1, FS_Subset
  <1> HIDE DEF t, u, n
  <1>8. fails' + u <= MaxFails - 1 + n
    <2>1. CASE fails' <= fails /\ Testing' \subseteq Testing
      <3>1. u <= t
        BY <1>6, <2>1
      <3> DEFINE f == fails
                 g == fails'
      <3>2. f \in Nat /\ g \in Nat /\ g <= f /\ f + t <= MaxFails - 1 + n
        BY <1>4, <1>5, <2>1
      <3> HIDE DEF f, g
      <3>3. g + u <= MaxFails - 1 + n
        BY <1>3, <1>4, <3>1, <3>2
      <3> QED
        BY <3>3 DEF g
    <2>2. CASE fails' = fails /\ ~Locked
      BY <1>3, <1>4, <2>2 DEF Locked
    <2>3. CASE fails' = 0
      BY <1>3, <1>4, <2>3
    <2>4. ASSUME NEW w \in Testing, fails' = fails + 1, Testing' \subseteq Testing \ {w}
          PROVE  fails' + u <= MaxFails - 1 + n
      BY <1>3, <1>4, <1>5, <1>7, <2>4
    <2> QED
      BY <1>1, <2>1, <2>2, <2>3, <2>4 DEF Tried
  <1> QED
    BY <1>1, <1>8 DEF u, n

LEMMA LockInductive == Spec => [](OnlyPool /\ LockInv)
  <1>1. Init => OnlyPool /\ LockInv
    <2> SUFFICES ASSUME Init PROVE OnlyPool /\ LockInv
      OBVIOUS
    <2>1. OnlyPool /\ Testing = {}
      BY DEF Init, OnlyPool, Testing, At, Idle
    <2>2. TypeOK
      BY PasswordAssumption DEF Init, TypeOK, MemberRow, States, Verdicts
    <2>3. Cardinality(Testing) = 0 /\ fails = 0
      BY <2>1, FS_EmptySet DEF Init
    <2>4. pool # {} => Cardinality(pool) \in Nat /\ Cardinality(pool) >= 1
      BY <2>1, <2>2, Counts
    <2> QED
      BY <2>1, <2>3, <2>4, MaxFailsAssumption DEF LockInv
  <1> QED
    BY <1>1, Typing, LockStep, PTL DEF Spec

\* With n workers a phone gets at most n - 1 tries more than the lock allows.
THEOREM Lock == Spec => []LockHolds
  <1>1. TypeOK /\ OnlyPool /\ LockInv => LockHolds
    <2> SUFFICES ASSUME TypeOK, OnlyPool, LockInv, pool # {}
                 PROVE  fails <= MaxFails - 1 + Cardinality(pool)
      BY DEF LockHolds
    <2>1. Cardinality(Testing) \in Nat /\ Cardinality(pool) \in Nat
      BY Counts
    <2> QED
      BY <2>1, MaxFailsAssumption DEF LockInv, TypeOK
  <1> QED
    BY <1>1, Typing, LockInductive, PTL

-----------------------------------------------------------------------------
\* Where requests do not overlap, one of them is on its way at most.
LEMMA OnlyOne ==
  ASSUME TypeOK, OnlyPool, OneAtATime, NEW v \in Workers, NEW w \in Workers, ~Idle(v), ~Idle(w)
  PROVE  v = w
  <1>1. IsFiniteSet(pool) /\ v \in pool /\ w \in pool
    BY WorkersAssumption, FS_Subset DEF TypeOK, OnlyPool
  <1> SUFFICES ASSUME v # w PROVE FALSE
    OBVIOUS
  <1>2. IsFiniteSet({v}) /\ Cardinality({v}) = 1
    BY FS_Singleton
  <1>3. Cardinality({v} \cup {w}) = 2
    BY <1>2, FS_AddElement
  <1>4. Cardinality({v} \cup {w}) <= Cardinality(pool) /\ Cardinality(pool) \in Nat
    BY <1>1, FS_Subset, FS_CardinalityType
  <1> QED
    BY <1>3, <1>4 DEF OneAtATime

\* SessionsAreOfMembers, and why: a login on its way was let in, if the member is
\* still there when it commits, and where requests do not overlap the member is as a
\* decision found it.
SessionsInv ==
  /\ SessionsAreOfMembers
  /\ \A w \in Workers :
       At(w, "login", "loaded") /\ Here =>
         member.state # "pending" /\ (OneAtATime => member.state = "active")
  /\ OneAtATime => \A w \in Workers : Decides(w) /\ Here => member.state = "pending"

\* What a step may do to the member, to a session, to a login and to a decision.
Decided ==
  /\ session' = session /\ Here /\ Here' /\ member'.state \in Verdicts
  /\ \E w \in Workers : Decides(w) /\ Idle(w)'

MemberStep ==
  \/ member' = member
  \/ Here /\ Here' /\ member'.state = member.state
  \/ Decided
  \/ ~Here' /\ \A s \in SessionIds : ~Live(s)'

Opened == \E w \in Workers : At(w, "login", "loaded") /\ Here /\ member' = member

LEMMA AccessStep ==
  ASSUME TypeOK, [Next]_vars
  PROVE  /\ MemberStep
         /\ \A s \in SessionIds : Live(s)' => Live(s) \/ Opened
         /\ \A w \in Workers : At(w, "login", "loaded")' =>
              At(w, "login", "loaded") \/ (Here /\ member.state = "active" /\ member' = member)
         /\ \A w \in Workers : Decides(w)' =>
              Decides(w) \/ (Here /\ member.state = "pending" /\ member' = member)
  <1> DEFINE Goal == /\ MemberStep
                     /\ \A s \in SessionIds : Live(s)' => Live(s) \/ Opened
                     /\ \A w \in Workers : At(w, "login", "loaded")' =>
                          At(w, "login", "loaded")
                            \/ (Here /\ member.state = "active" /\ member' = member)
                     /\ \A w \in Workers : Decides(w)' =>
                          Decides(w) \/ (Here /\ member.state = "pending" /\ member' = member)
             Quiet == \A v \in Workers : /\ At(v, "login", "loaded")' => At(v, "login", "loaded")
                                         /\ Decides(v)' => Decides(v)
  <1> USE DEF fixed
  <1> SUFFICES Goal
    OBVIOUS
  <1>1. ASSUME NEW w \in Workers, Done(w) \/ req' = req
        PROVE  Quiet
    BY <1>1 DEF Done, At, Decides, Idle, TypeOK
  <1>2. ASSUME NEW w \in Workers, NEW r, Ask(w, r), r.op = "login" => r.step # "loaded",
               r.op # "decide"
        PROVE  Goal
    BY <1>2 DEF Ask, At, Decides, Idle, Live, MemberStep, TypeOK
  <1>3. ASSUME NEW w \in Workers, NEW r, req' = [req EXCEPT ![w] = r],
               r.op = "login" => r.step # "loaded", r.op # "decide"
        PROVE  Quiet
    BY <1>3 DEF At, Decides, Idle, TypeOK
  <1>4. UNCHANGED <<member, session>> =>
          MemberStep /\ \A s \in SessionIds : Live(s)' => Live(s) \/ Opened
    BY DEF MemberStep, Live
  <1>5. ASSUME \A s \in SessionIds : session'[s] = session[s] \/ session'[s] = Ended(s)
        PROVE  \A s \in SessionIds : Live(s)' => Live(s)
    BY <1>5, EndedSession DEF Live
  <1>6. ASSUME NEW w \in Workers, CodeStep(w) PROVE Goal
    <2>1. UNCHANGED <<member, session>>
      BY <1>6 DEF CodeStep, BeginCode, CommitCode, SeekCode, BeginReset, Ask, Consume
    <2>2. ASSUME NEW k \in CodeIds \cup {Null}, SeekCode(w, k)
          PROVE  Quiet
      <3> DEFINE r == [req[w] EXCEPT !.step = "sought", !.code = k]
      <3>1. r.op = "login" /\ r.step = "sought" /\ req' = [req EXCEPT ![w] = r]
        BY <2>2, HeldRequest DEF SeekCode, At, KnownRequest
      <3> HIDE DEF r
      <3> QED
        BY <1>3, <3>1
    <2>3. CASE Consume(w)
      <3>1. CASE Fail(w)
        BY <1>1, <1>4, <2>1, <3>1 DEF Fail
      <3>2. CASE req' = [req EXCEPT ![w].step = "granted"]
        <4> DEFINE r == [req[w] EXCEPT !.step = "granted"]
        <4>1. r.op \in {"login", "reset"} /\ r.step = "granted"
          BY <2>3, HeldRequest DEF Consume, At, LateRequest
        <4>2. req' = [req EXCEPT ![w] = r]
          BY <3>2
        <4> HIDE DEF r
        <4>3. Quiet
          BY <1>3, <4>1, <4>2
        <4> QED
          BY <1>4, <2>1, <4>3
      <3> QED
        BY <2>3, <3>1, <3>2 DEF Consume
    <2>4. ASSUME NEW purpose, BeginCode(w, purpose) PROVE Goal
      BY <1>2, <2>4 DEF BeginCode
    <2>5. ASSUME NEW k, NEW p, BeginReset(w, k, p) PROVE Goal
      BY <1>2, <2>5 DEF BeginReset
    <2>6. ASSUME NEW k, CommitCode(w, k) PROVE Goal
      BY <1>1, <1>4, <2>1, <2>6 DEF CommitCode
    <2> HIDE DEF Goal
    <2>7. ASSUME NEW k \in CodeIds \cup {Null}, SeekCode(w, k) PROVE Goal
      BY <1>4, <2>1, <2>2, <2>7 DEF Goal
    <2> QED
      BY <1>6, <2>3, <2>4, <2>5, <2>6, <2>7 DEF CodeStep
  <1>7. ASSUME NEW w \in Workers, LoginStep(w) PROVE Goal
    <2>1. ASSUME NEW p, BeginLogin(w, p) PROVE Goal
      BY <1>2, <2>1 DEF BeginLogin
    <2>2. CASE RecordAttempt(w)
      <3>1. session' = session /\ At(w, "login", "checked") /\ ~Idle(w)
        BY <2>2 DEF RecordAttempt, At
      <3>2. MemberStep
        <4>1. CASE member' = member
          BY <4>1 DEF MemberStep
        <4>2. CASE Here /\ member' = [member EXCEPT !.secret = req[w].secret, !.legacy = FALSE]
          <5>1. member \in MemberRow
            BY <4>2 DEF Here, TypeOK
          <5>2. member'.state = member.state /\ member' \in MemberRow
            BY <3>1, <4>2, <5>1, HeldRequest DEF MemberRow, CheckedRequest
          <5> QED
            BY <4>2, <5>2, NullAssumption DEF MemberStep, Here
        <4> QED
          BY <2>2, <4>1, <4>2 DEF RecordAttempt
      <3>3. Quiet
        <4>1. CASE Fail(w)
          BY <1>1, <4>1 DEF Fail
        <4>2. CASE req' = [req EXCEPT ![w] = [req[w] EXCEPT !.step = "known", !.row = Null]]
          <5> DEFINE r == [req[w] EXCEPT !.step = "known", !.row = Null]
          <5>1. r.op = "login" /\ r.step = "known"
            BY <3>1, HeldRequest DEF CheckedRequest
          <5> HIDE DEF r
          <5> QED
            BY <1>3, <4>2, <5>1 DEF r
        <4> QED
          BY <2>2, <4>1, <4>2 DEF RecordAttempt
      <3> QED
        BY <3>1, <3>2, <3>3 DEF Live
    <2>3. CASE LoadMember(w)
      <3>1. UNCHANGED <<member, session>> /\ req' = [req EXCEPT ![w].step = "loaded"]
        BY <2>3 DEF LoadMember
      <3>2. \A v \in Workers : v # w => req'[v] = req[v]
        BY <3>1 DEF TypeOK
      <3>3. /\ At(w, "reset", "granted") => req'[w].op = "reset"
            /\ req'[w].op # "decide"
        BY <2>3, <3>1, HeldRequest DEF LoadMember, Proven, At, KnownRequest, LateRequest, TypeOK
      <3>4. (Here /\ member.state = "active") \/ At(w, "reset", "granted")
        BY <2>3 DEF LoadMember
      <3> QED
        BY <1>4, <3>1, <3>2, <3>3, <3>4 DEF At, Decides, Idle
    <2>4. ASSUME NEW s \in SessionIds, CommitLogin(w, s) PROVE Goal
      <3>1. Opened /\ member' = member /\ Done(w)
        BY <2>4 DEF CommitLogin, Opened
      <3> QED
        BY <1>1, <3>1 DEF MemberStep
    <2>5. CASE CommitReset(w)
      <3>1. member \in MemberRow /\ req[w].secret \in Passwords
        BY <2>5, HeldRequest DEF CommitReset, Here, At, LateRequest, TypeOK
      <3>2. member'.state = member.state /\ member' \in MemberRow
        BY <2>5, <3>1 DEF CommitReset, MemberRow
      <3>3. MemberStep
        BY <2>5, <3>2, NullAssumption DEF CommitReset, MemberStep, Here
      <3> QED
        BY <1>1, <1>5, <2>5, <3>3 DEF CommitReset
    <2> HIDE DEF Goal
    <2> QED
      BY <1>7, <2>1, <2>2, <2>3, <2>4, <2>5 DEF LoginStep
  <1>8. ASSUME NEW w \in Workers, SessionStep(w) PROVE Goal
    <2>1. ASSUME NEW s, NEW p, NEW new, BeginChange(w, s, p, new) PROVE Goal
      BY <1>2, <2>1 DEF BeginChange
    <2>2. CASE CommitChange(w)
      <3>1. /\ member \in MemberRow /\ req[w].secret \in Passwords /\ session' = session
            /\ req[w] \in ChangeRequest /\ req' = [req EXCEPT ![w].step = "changed"]
        BY <2>2, HeldRequest DEF CommitChange, Here, At, ChangeRequest, TypeOK
      <3>2. member'.state = member.state /\ member' \in MemberRow
        BY <2>2, <3>1 DEF CommitChange, MemberRow
      <3>3. MemberStep
        BY <2>2, <3>2, NullAssumption DEF CommitChange, MemberStep, Here
      <3>4. Quiet
        <4> DEFINE r == [req[w] EXCEPT !.step = "changed"]
        <4>1. r.op = "change" /\ r.step = "changed" /\ req' = [req EXCEPT ![w] = r]
          BY <3>1 DEF ChangeRequest
        <4> HIDE DEF r
        <4> QED
          BY <1>3, <4>1
      <3> QED
        BY <3>1, <3>3, <3>4 DEF Live
    <2>3. CASE RevokeOthers(w)
      <3>1. /\ \A s \in SessionIds : session'[s] = session[s] \/ session'[s] = Ended(s)
            /\ member' = member /\ Done(w)
        BY <2>3 DEF RevokeOthers
      <3> QED
        BY <1>1, <1>5, <3>1 DEF MemberStep
    <2>4. ASSUME NEW s \in SessionIds, Logout(w, s) \/ LogoutAll(w, s) PROVE Goal
      <3>1. /\ \A r \in SessionIds : session'[r] = session[r] \/ session'[r] = Ended(r)
            /\ member' = member /\ req' = req
        BY <2>4 DEF Logout, LogoutAll, TypeOK
      <3> QED
        BY <1>1, <1>5, <3>1 DEF MemberStep
    <2>5. ASSUME NEW verdict, BeginDecision(w, verdict) PROVE Goal
      <3>1. /\ UNCHANGED <<member, session>> /\ Here /\ member.state = "pending"
            /\ req' = [req EXCEPT ![w] = [op |-> "decide", verdict |-> verdict, loaded |-> "pending"]]
        BY <2>5 DEF BeginDecision, Ask
      <3>2. \A v \in Workers : v # w => req'[v] = req[v]
        BY <3>1 DEF TypeOK
      <3>3. req'[w].op = "decide"
        BY <3>1 DEF TypeOK
      <3> QED
        BY <1>4, <3>1, <3>2, <3>3 DEF At, Decides, Idle
    <2>6. CASE RemoveMember(w)
      <3>1. \A s \in SessionIds : session'[s] = Ended(s)
        BY <2>6 DEF RemoveMember
      <3>2. \A s \in SessionIds : ~Live(s)'
        BY <3>1, EndedSession DEF Live
      <3>3. MemberStep
        BY <2>6, <3>2 DEF RemoveMember, MemberStep, Here
      <3> QED
        BY <1>1, <2>6, <3>2, <3>3 DEF RemoveMember
    <2>7. CASE SeeMember(w)
      <3>1. /\ UNCHANGED <<member, session>> /\ Decides(w) /\ req[w] \in DecideRequest
            /\ req' = [req EXCEPT ![w].loaded = member.state]
        BY <2>7, HeldRequest DEF SeeMember, Decides
      <3>2. \A v \in Workers : v # w => req'[v] = req[v]
        BY <3>1 DEF TypeOK
      <3>3. req'[w].op = "decide"
        BY <3>1 DEF TypeOK, DecideRequest
      <3> QED
        BY <1>4, <3>1, <3>2, <3>3 DEF At, Decides, Idle
    <2>8. CASE CommitDecision(w)
      <3>1. /\ member \in MemberRow /\ Here /\ Decides(w) /\ Done(w) /\ session' = session
            /\ req[w] \in DecideRequest
        BY <2>8, HeldRequest DEF CommitDecision, Here, Decides, TypeOK
      <3>2. Idle(w)'
        BY <3>1 DEF Done, Idle, TypeOK
      <3>3. CASE UNCHANGED member
        BY <1>1, <1>4, <3>1, <3>3
      <3>4. CASE member' = [member EXCEPT !.state = req[w].verdict]
        <4>1. member' \in MemberRow /\ member'.state \in Verdicts
          BY <3>1, <3>4 DEF MemberRow, DecideRequest, States
        <4>2. Decided
          BY <3>1, <3>2, <4>1, NullAssumption DEF Decided, Here
        <4> QED
          BY <1>1, <3>1, <4>2 DEF MemberStep, Live
      <3> QED
        BY <2>8, <3>3, <3>4 DEF CommitDecision
    <2> HIDE DEF Goal
    <2> QED
      BY <1>8, <2>1, <2>2, <2>3, <2>4, <2>5, <2>6, <2>7, <2>8 DEF SessionStep
  <1>9. ASSUME NEW w \in Workers, Rollback(w) PROVE Goal
    BY <1>1, <1>4, <1>9 DEF Rollback
  <1>10. ASSUME NEW s \in SessionIds, SessionDies(s) PROVE Goal
    <2>1. /\ \A r \in SessionIds : session'[r] = session[r] \/ session'[r] = Ended(r)
          /\ member' = member /\ req' = req
      BY <1>10 DEF SessionDies, TypeOK
    <2> QED
      BY <1>5, <2>1 DEF MemberStep, At, Decides, Idle
  <1>11. (\E k \in CodeIds : CodeAges(k)) \/ WindowPasses \/ UNCHANGED vars
           => UNCHANGED <<member, session, req>>
    BY DEF CodeAges, WindowPasses, vars
  <1>12. UNCHANGED <<member, session, req>> => Goal
    BY <1>4 DEF At, Decides, Idle
  <1> HIDE DEF Goal
  <1> QED
    BY <1>6, <1>7, <1>8, <1>9, <1>10, <1>11, <1>12 DEF Next

\* However many requests overlap, every live session is of a member who is there and
\* whose request to join was answered; where they do not overlap, of one who was let in.
THEOREM Sessions == Spec => []SessionsAreOfMembers
  <1>1. Init => SessionsInv
    BY DEF Init, SessionsInv, SessionsAreOfMembers, Live, At, Decides, Idle
  <1>2. TypeOK /\ OnlyPool /\ SessionsInv /\ [Next]_vars => SessionsInv'
    <2> SUFFICES ASSUME TypeOK, OnlyPool, SessionsInv, [Next]_vars PROVE SessionsInv'
      OBVIOUS
    <2>1. MemberStep /\ (OneAtATime' <=> OneAtATime)
      BY AccessStep, Tries DEF OneAtATime
    <2>2. ASSUME Here, Here', member.state # "pending" PROVE member'.state # "pending"
      BY <2>1, <2>2 DEF MemberStep, Decided, Verdicts
    \* With one request at a time the member keeps its state but for a decision, and
    \* then nothing else is on its way.
    <2>3. ASSUME OneAtATime, Decided, NEW w \in Workers, ~Idle(w), ~Idle(w)' PROVE FALSE
      <3>1. PICK v \in Workers : Decides(v) /\ Idle(v)'
        BY <2>3 DEF Decided
      <3>2. v = w
        BY <2>3, <3>1, OnlyOne DEF Decides
      <3> QED
        BY <2>3, <3>1, <3>2
    <2>4. ASSUME NEW s \in SessionIds, Live(s)'
          PROVE  Here' /\ member'.state # "pending" /\ (OneAtATime' => member'.state = "active")
      <3>1. Live(s) \/ Opened
        BY <2>4, AccessStep
      <3>2. Here /\ member.state # "pending" /\ (OneAtATime => member.state = "active")
        BY <3>1 DEF SessionsInv, SessionsAreOfMembers, Opened
      <3>3. Here'
        BY <2>1, <2>4, <3>2 DEF MemberStep, Decided, Here
      <3>4. ASSUME OneAtATime PROVE member'.state = "active"
        <4>1. CASE Decided
          <5>1. PICK v \in Workers : Decides(v)
            BY <4>1 DEF Decided
          <5>2. member.state = "pending"
            BY <3>2, <3>4, <5>1 DEF SessionsInv
          <5> QED
            BY <3>2, <5>2
        <4> QED
          BY <2>1, <2>4, <3>2, <3>3, <3>4, <4>1 DEF MemberStep
      <3> QED
        BY <2>1, <2>2, <3>2, <3>3, <3>4
    <2>5. ASSUME NEW w \in Workers, At(w, "login", "loaded")', Here'
          PROVE  member'.state # "pending" /\ (OneAtATime' => member'.state = "active")
      <3>1. At(w, "login", "loaded") \/ (Here /\ member.state = "active" /\ member' = member)
        BY <2>5, AccessStep
      <3>2. Here
        BY <2>1, <2>5 DEF MemberStep, Decided, Here
      <3>3. member.state # "pending" /\ (OneAtATime => member.state = "active")
        BY <3>1, <3>2 DEF SessionsInv
      <3>4. ASSUME OneAtATime, At(w, "login", "loaded") PROVE ~Decided
        BY <2>3, <2>5, <3>4 DEF At, Idle
      <3>5. OneAtATime => member'.state = "active"
        BY <2>1, <2>5, <3>1, <3>3, <3>4 DEF MemberStep
      <3> QED
        BY <2>1, <2>2, <2>5, <3>2, <3>3, <3>5
    <2>6. ASSUME OneAtATime', NEW w \in Workers, Decides(w)', Here' PROVE member'.state = "pending"
      <3>1. Decides(w) \/ (Here /\ member.state = "pending" /\ member' = member)
        BY <2>6, AccessStep
      <3>2. Here
        BY <2>1, <2>6 DEF MemberStep, Decided, Here
      <3>3. member.state = "pending"
        BY <2>1, <2>6, <3>1, <3>2 DEF SessionsInv
      <3>4. ASSUME Decides(w) PROVE ~Decided
        BY <2>1, <2>3, <2>6, <3>4 DEF Decides, Idle
      <3> QED
        BY <2>1, <2>6, <3>1, <3>3, <3>4 DEF MemberStep
    <2> QED
      BY <2>4, <2>5, <2>6 DEF SessionsInv, SessionsAreOfMembers
  <1>3. SessionsInv => SessionsAreOfMembers
    BY DEF SessionsInv
  <1> QED
    BY <1>1, <1>2, <1>3, Typing, LockInductive, PTL DEF Spec

-----------------------------------------------------------------------------
\* ResetEndsSessions, and why: where requests do not overlap, a login that was
\* checked goes on with a password that no reset has replaced since.
Trusts(r, passwords) ==
  r.op = "login" =>
    IF r.step = "checked" THEN r.row # Null => r.row.secret \in passwords
    ELSE r.secret \in passwords

TrustInv ==
  OneAtATime => /\ \A s \in SessionIds : Live(s) => session[s].by \in trusted
                /\ Here => member.secret \in trusted
                /\ \A w \in Workers : ~Idle(w) => Trusts(req[w], trusted)

LEMMA TrustStep == TypeOK /\ OnlyPool /\ TrustInv /\ [Next]_vars => TrustInv'
  <1> USE DEF fixed
  <1> SUFFICES ASSUME TypeOK, OnlyPool, TrustInv, [Next]_vars, OneAtATime PROVE TrustInv'
    BY Tries DEF TrustInv, OneAtATime
  <1>1. /\ \A s \in SessionIds : Live(s) => session[s].by \in trusted
        /\ Here => member.secret \in trusted
        /\ \A w \in Workers : ~Idle(w) => Trusts(req[w], trusted)
    BY DEF TrustInv
  \* Passwords are trusted as before; one worker goes on or is free again.
  <1>2. ASSUME trusted \subseteq trusted', Here' => member'.secret \in trusted',
               \A s \in SessionIds : Live(s)' => session'[s].by \in trusted',
               NEW w \in Workers, NEW r, req' = [req EXCEPT ![w] = r], r # Null => Trusts(r, trusted)
        PROVE  TrustInv'
    <2>1. ASSUME NEW v \in Workers, ~Idle(v)' PROVE Trusts(req[v], trusted)'
      BY <1>1, <1>2, <2>1 DEF Idle, Trusts, TypeOK
    <2> QED
      BY <1>2, <2>1 DEF TrustInv
  <1>3. ASSUME trusted \subseteq trusted', Here' => member'.secret \in trusted',
               \A s \in SessionIds : Live(s)' => session'[s].by \in trusted', req' = req
        PROVE  TrustInv'
    BY <1>1, <1>3 DEF TrustInv, Idle, Trusts
  <1>4. ASSUME \A s \in SessionIds : session'[s] = session[s] \/ session'[s] = Ended(s),
               trusted' = trusted
        PROVE  \A s \in SessionIds : Live(s)' => session'[s].by \in trusted'
    BY <1>1, <1>4, EndedSession DEF Live
  <1>5. ASSUME UNCHANGED <<member, session, trusted>>, NEW w \in Workers, NEW r,
               req' = [req EXCEPT ![w] = r], r # Null => Trusts(r, trusted)
        PROVE  TrustInv'
    <2>1. Here' => member'.secret \in trusted'
      BY <1>1, <1>5 DEF Here
    <2> QED
      BY <1>2, <1>4, <1>5, <2>1
  <1>6. ASSUME NEW w \in Workers, NEW r, Ask(w, r), Trusts(r, trusted) PROVE TrustInv'
    BY <1>5, <1>6 DEF Ask
  <1>7. ASSUME UNCHANGED <<member, session, trusted>>, NEW w \in Workers, Done(w) PROVE TrustInv'
    BY <1>5, <1>7 DEF Done
  \* A login that was checked goes on with its password.
  <1>8. ASSUME UNCHANGED <<member, session, trusted>>, NEW w \in Workers, ~Idle(w),
               req[w].op = "login" => req[w].step # "checked",
               NEW r, r.op = req[w].op, r.secret = req[w].secret, r.op = "login" => r.step # "checked",
               req' = [req EXCEPT ![w] = r]
        PROVE  TrustInv'
    BY <1>1, <1>5, <1>8 DEF Trusts
  <1>9. ASSUME NEW w \in Workers, CodeStep(w) PROVE TrustInv'
    <2>1. ASSUME NEW purpose, BeginCode(w, purpose) PROVE TrustInv'
      BY <1>6, <2>1 DEF BeginCode, Trusts
    <2>2. ASSUME NEW k, CommitCode(w, k) PROVE TrustInv'
      BY <1>7, <2>2 DEF CommitCode
    <2>3. ASSUME NEW k, SeekCode(w, k) PROVE TrustInv'
      <3> DEFINE r == [req[w] EXCEPT !.step = "sought", !.code = k]
      <3>1. r.op = req[w].op /\ r.secret = req[w].secret /\ r.step = "sought"
        BY <2>3, HeldRequest DEF SeekCode, At, KnownRequest
      <3>2. /\ req' = [req EXCEPT ![w] = r] /\ UNCHANGED <<member, session, trusted>>
            /\ ~Idle(w) /\ req[w].step = "known"
        BY <2>3 DEF SeekCode, At
      <3> HIDE DEF r
      <3> QED
        BY <1>8, <3>1, <3>2
    <2>4. ASSUME NEW k, NEW p, BeginReset(w, k, p) PROVE TrustInv'
      BY <1>6, <2>4 DEF BeginReset, Trusts
    <2>5. CASE Consume(w)
      <3>1. UNCHANGED <<member, session, trusted>> /\ ~Idle(w) /\ req[w].step = "sought"
        BY <2>5 DEF Consume, At
      <3>2. CASE Fail(w)
        BY <1>7, <3>1, <3>2 DEF Fail
      <3>3. CASE req' = [req EXCEPT ![w].step = "granted"]
        <4> DEFINE r == [req[w] EXCEPT !.step = "granted"]
        <4>1. r.op = req[w].op /\ r.secret = req[w].secret /\ r.step = "granted"
          BY <2>5, HeldRequest DEF Consume, At, LateRequest
        <4>2. req' = [req EXCEPT ![w] = r]
          BY <3>3
        <4> HIDE DEF r
        <4> QED
          BY <1>8, <3>1, <4>1, <4>2
      <3> QED
        BY <2>5, <3>2, <3>3 DEF Consume
    <2> QED
      BY <1>9, <2>1, <2>2, <2>3, <2>4, <2>5 DEF CodeStep
  <1>10. ASSUME NEW w \in Workers, LoginStep(w) PROVE TrustInv'
    <2>1. ASSUME NEW p, BeginLogin(w, p) PROVE TrustInv'
      <3> DEFINE r == [op |-> "login", secret |-> p, step |-> "checked", code |-> Null, row |-> member]
      <3>1. Trusts(r, trusted) /\ Ask(w, r)
        BY <1>1, <2>1 DEF BeginLogin, Trusts, Here
      <3> HIDE DEF r
      <3> QED
        BY <1>6, <3>1
    <2>2. CASE RecordAttempt(w)
      <3>1. /\ ~Idle(w) /\ req[w].op = "login" /\ req[w].step = "checked"
            /\ req[w] \in CheckedRequest /\ UNCHANGED <<session, trusted>>
        BY <2>2, HeldRequest DEF RecordAttempt, At
      <3>2. CASE ~PasswordRight(w)
        BY <1>7, <2>2, <3>1, <3>2 DEF RecordAttempt, Fail
      <3>3. CASE PasswordRight(w)
        <4>1. req[w].secret \in trusted
          BY <1>1, <3>1, <3>3 DEF PasswordRight, Trusts
        <4>2. Here' => member'.secret \in trusted'
          BY <1>1, <2>2, <3>1, <3>3, <4>1 DEF RecordAttempt, PasswordRight, Here, TypeOK, MemberRow
        <4> DEFINE r == [req[w] EXCEPT !.step = "known", !.row = Null]
        <4>3. r.op = "login" /\ r.secret = req[w].secret /\ r.step = "known"
          BY <3>1 DEF CheckedRequest
        <4>4. req' = [req EXCEPT ![w] = r]
          BY <2>2, <3>3 DEF RecordAttempt
        <4> HIDE DEF r
        <4>5. Trusts(r, trusted)
          BY <4>1, <4>3 DEF Trusts
        <4>6. \A s \in SessionIds : Live(s)' => session'[s].by \in trusted'
          BY <1>4, <3>1
        <4> QED
          BY <1>2, <3>1, <4>2, <4>4, <4>5, <4>6
      <3> QED
        BY <3>2, <3>3
    <2>3. CASE LoadMember(w)
      <3>1. /\ UNCHANGED <<member, session, trusted>> /\ ~Idle(w) /\ req[w].step # "checked"
            /\ req[w] \in KnownRequest \cup LateRequest
        BY <2>3, HeldRequest DEF LoadMember, Proven, At
      <3> DEFINE r == [req[w] EXCEPT !.step = "loaded"]
      <3>2. r.op = req[w].op /\ r.secret = req[w].secret /\ r.step = "loaded"
        BY <3>1 DEF KnownRequest, LateRequest
      <3>3. req' = [req EXCEPT ![w] = r]
        BY <2>3 DEF LoadMember
      <3> HIDE DEF r
      <3> QED
        BY <1>8, <3>1, <3>2, <3>3
    <2>4. ASSUME NEW s \in SessionIds, CommitLogin(w, s) PROVE TrustInv'
      <3>1. req[w].secret \in trusted
        BY <1>1, <2>4 DEF CommitLogin, At, Trusts
      <3>2. \A r \in SessionIds : Live(r)' => session'[r].by \in trusted'
        BY <1>1, <2>4, <3>1 DEF CommitLogin, Live, TypeOK
      <3>3. (Here' => member'.secret \in trusted') /\ trusted' = trusted /\ Done(w)
        BY <1>1, <2>4 DEF CommitLogin, Here
      <3> QED
        BY <1>2, <3>2, <3>3 DEF Done
    <2>5. CASE CommitReset(w)
      <3>1. ~Idle(w) /\ \A v \in Workers : ~Idle(v) => v = w
        BY <2>5, OnlyOne DEF CommitReset, At
      <3>2. \A v \in Workers : Idle(v)'
        BY <2>5, <3>1 DEF CommitReset, Done, Idle, TypeOK
      <3>3. \A s \in SessionIds : ~Live(s)'
        BY <2>5, EndedSession DEF CommitReset, Live
      <3>4. member'.secret \in trusted'
        <4>1. member \in MemberRow
          BY <2>5 DEF CommitReset, Here, TypeOK
        <4> QED
          BY <2>5, <4>1 DEF CommitReset, MemberRow
      <3> QED
        BY <3>2, <3>3, <3>4 DEF TrustInv
    <2> QED
      BY <1>10, <2>1, <2>2, <2>3, <2>4, <2>5 DEF LoginStep
  <1>11. ASSUME NEW w \in Workers, SessionStep(w) PROVE TrustInv'
    <2>1. ASSUME NEW s, NEW p, NEW new, BeginChange(w, s, p, new) PROVE TrustInv'
      BY <1>6, <2>1 DEF BeginChange, Trusts
    <2>2. CASE CommitChange(w)
      <3>1. ~Idle(w) /\ req[w].op = "change" /\ req[w] \in ChangeRequest /\ member \in MemberRow
        BY <2>2, HeldRequest DEF CommitChange, At, Here, TypeOK
      <3>2. member'.secret \in trusted' /\ trusted \subseteq trusted'
        BY <2>2, <3>1 DEF CommitChange, MemberRow
      <3>3. \A s \in SessionIds : Live(s)' => session'[s].by \in trusted'
        BY <1>1, <2>2 DEF CommitChange, Live
      <3> DEFINE r == [req[w] EXCEPT !.step = "changed"]
      <3>4. r.op = "change"
        BY <3>1 DEF ChangeRequest
      <3>5. req' = [req EXCEPT ![w] = r]
        BY <2>2 DEF CommitChange
      <3> HIDE DEF r
      <3>6. Trusts(r, trusted)
        BY <3>4 DEF Trusts
      <3> QED
        BY <1>2, <3>2, <3>3, <3>5, <3>6
    <2>3. CASE RevokeOthers(w)
      <3>1. /\ \A s \in SessionIds : session'[s] = session[s] \/ session'[s] = Ended(s)
            /\ trusted' = trusted /\ Done(w) /\ (Here' => member'.secret \in trusted')
        BY <1>1, <2>3 DEF RevokeOthers, Here
      <3> QED
        BY <1>2, <1>4, <3>1 DEF Done
    <2>4. ASSUME NEW s \in SessionIds, Logout(w, s) \/ LogoutAll(w, s) PROVE TrustInv'
      <3>1. /\ \A r \in SessionIds : session'[r] = session[r] \/ session'[r] = Ended(r)
            /\ trusted' = trusted /\ req' = req /\ (Here' => member'.secret \in trusted')
        BY <1>1, <2>4 DEF Logout, LogoutAll, Here, TypeOK
      <3> QED
        BY <1>3, <1>4, <3>1
    <2>5. ASSUME NEW verdict, BeginDecision(w, verdict) PROVE TrustInv'
      BY <1>6, <2>5 DEF BeginDecision, Trusts
    <2>6. CASE RemoveMember(w)
      BY <1>3, <1>4, <2>6 DEF RemoveMember, Here
    <2>7. CASE SeeMember(w)
      <3> DEFINE r == [req[w] EXCEPT !.loaded = member.state]
      <3>1. r.op = "decide"
        BY <2>7, HeldRequest DEF SeeMember, Decides, DecideRequest
      <3>2. req' = [req EXCEPT ![w] = r] /\ UNCHANGED <<member, session, trusted>>
        BY <2>7 DEF SeeMember
      <3> HIDE DEF r
      <3> QED
        BY <1>5, <3>1, <3>2 DEF Trusts
    <2>8. CASE CommitDecision(w)
      <3>1. member \in MemberRow
        BY <2>8 DEF CommitDecision, Here, TypeOK
      <3>2. member'.secret = member.secret
        BY <2>8, <3>1 DEF CommitDecision, MemberRow
      <3>3. (Here' => member'.secret \in trusted') /\ trusted' = trusted /\ session' = session /\ Done(w)
        BY <1>1, <2>8, <3>2 DEF CommitDecision
      <3>4. \A s \in SessionIds : Live(s)' => session'[s].by \in trusted'
        BY <1>1, <3>3 DEF Live
      <3> QED
        BY <1>2, <3>3, <3>4 DEF Done
    <2> QED
      BY <1>11, <2>1, <2>2, <2>3, <2>4, <2>5, <2>6, <2>7, <2>8 DEF SessionStep
  <1>12. ASSUME NEW w \in Workers, Rollback(w) PROVE TrustInv'
    BY <1>7, <1>12 DEF Rollback
  <1>13. ASSUME NEW s \in SessionIds, SessionDies(s) PROVE TrustInv'
    <2>1. /\ \A r \in SessionIds : session'[r] = session[r] \/ session'[r] = Ended(r)
          /\ trusted' = trusted /\ req' = req /\ (Here' => member'.secret \in trusted')
      BY <1>1, <1>13 DEF SessionDies, Here, TypeOK
    <2> QED
      BY <1>3, <1>4, <2>1
  <1>14. CASE (\E k \in CodeIds : CodeAges(k)) \/ WindowPasses \/ UNCHANGED vars
    <2>1. UNCHANGED <<member, session, req, trusted>>
      BY <1>14 DEF CodeAges, WindowPasses, vars
    <2> QED
      BY <1>1, <1>3, <2>1 DEF Here, Live
  <1> QED
    BY <1>9, <1>10, <1>11, <1>12, <1>13, <1>14 DEF Next

\* Where requests do not overlap, a reset leaves no session that an older password
\* opened, nor one that a login checked before it opens after it.
THEOREM Resets == Spec => []ResetEndsSessions
  <1>1. Init => TrustInv
    BY DEF Init, TrustInv, Live, Here, Idle
  <1>2. TrustInv => ResetEndsSessions
    BY DEF TrustInv, ResetEndsSessions
  <1> QED
    BY <1>1, <1>2, Typing, LockInductive, TrustStep, PTL DEF Spec
=============================================================================
