------------------------------- MODULE Access -------------------------------
(***************************************************************************)
(* Who may act for a member: passwords, one-time codes, the lock after too *)
(* many failures and sessions (services/auth.py, passwords.py, attempts.py,*)
(* otp.py, password_reset.py, sessions.py).                                *)
(*                                                                         *)
(* One registered member and the member's phone.  A handler commits several*)
(* times on its way, so a request is a chain of steps and other requests   *)
(* run between any two of them.  A dead session counts as deleted: every   *)
(* request that reads one deletes the dead ones first (sessions.py:52-60). *)
(* The limits per address (ratelimit.hit) turn requests away before any of *)
(* this and are not told apart from requests never sent.                   *)
(* Statements with no commit between them are one step.                    *)
(***************************************************************************)
EXTENDS Integers, FiniteSets

CONSTANTS
  Workers,
  Passwords,
  FirstPassword,
  CodeIds,      \* keys of codes, each inserted at most once
  SessionIds,   \* keys of sessions, each inserted at most once
  MaxFails,     \* brute_force_max_fails
  Null

ASSUME WorkersAssumption == IsFiniteSet(Workers)
ASSUME PasswordAssumption == FirstPassword \in Passwords
ASSUME MaxFailsAssumption == MaxFails \in Nat \ {0}

VARIABLES
  member,    \* the member's row, Null once removed
  code,      \* table otp_codes
  fails,     \* rows of auth_attempts with ok = false, inside the window
  session,   \* table sessions, with the password each was opened with
  req,       \* what each worker holds in memory
  trusted,   \* history: the passwords set since the last reset
  pool,      \* the workers this deployment runs, fixed when it starts
  otpOn      \* app_settings.otp_enabled with a way to deliver, fixed likewise

vars == <<member, code, fails, session, req, trusted, pool, otpOn>>
fixed == <<pool, otpOn>>

-----------------------------------------------------------------------------
Verdicts == {"active", "rejected"}
States == {"pending"} \cup Verdicts

\* legacy: the hash is of an old kind and is upgraded at the next good login.
MemberRow == [secret: Passwords, legacy: BOOLEAN, state: States]

\* "new" is inside the cooldown of 60 seconds.
InTable == {"new", "old", "expired"}
Ages == InTable \cup {"deleted"}
CodeRow == [purpose: {"login", "reset"}, used: BOOLEAN, age: Ages]
Unborn == [purpose |-> "login", used |-> FALSE, age |-> "unborn"]

\* What is left of a deleted row: its key is not used again.
Deleted == [by |-> Null, live |-> FALSE]
SessionRow == [by: Passwords, live: {TRUE}] \cup {Deleted}

\* A login compares the password with the row it loaded; then, like a reset, it goes
\* on with a code.
CodeRequest == [op: {"code"}, purpose: {"login", "reset"}, closing: SUBSET CodeIds]
CheckedRequest == [op: {"login"}, secret: Passwords, step: {"checked"},
                   code: {Null}, row: MemberRow \cup {Null}]
KnownRequest == [op: {"login"}, secret: Passwords, step: {"known"}, code: {Null}, row: {Null}]
LateRequest == [op: {"login", "reset"}, secret: Passwords, step: {"sought", "granted", "loaded"},
                code: CodeIds \cup {Null}, row: {Null}]
ChangeRequest == [op: {"change"}, secret: Passwords, step: {"loaded", "changed"},
                  keep: SessionIds]
DecideRequest == [op: {"decide"}, verdict: Verdicts, loaded: States]
Request ==
  CodeRequest \cup CheckedRequest \cup KnownRequest \cup LateRequest \cup ChangeRequest
    \cup DecideRequest

ASSUME NullAssumption == Null \notin MemberRow \cup SessionRow \cup Request \cup CodeIds

TypeOK ==
  /\ member \in MemberRow \cup {Null}
  /\ code \in [CodeIds -> CodeRow \cup {Unborn}]
  /\ fails \in Nat
  /\ session \in [SessionIds -> SessionRow \cup {Null}]
  /\ req \in [Workers -> Request \cup {Null}]
  /\ trusted \subseteq Passwords
  /\ pool \subseteq Workers
  /\ otpOn \in BOOLEAN

Init ==
  /\ member \in [secret: {FirstPassword}, legacy: BOOLEAN, state: {"pending", "active"}]
  /\ code = [k \in CodeIds |-> Unborn]
  /\ fails = 0
  /\ session = [s \in SessionIds |-> Null]
  /\ req = [w \in Workers |-> Null]
  /\ trusted = {FirstPassword}
  /\ pool \in SUBSET Workers
  /\ otpOn \in BOOLEAN

-----------------------------------------------------------------------------
Idle(w) == req[w] = Null
Here == member # Null
Live(s) == session[s] # Null /\ session[s].live
Locked == fails >= MaxFails
At(w, op, step) == ~Idle(w) /\ req[w].op = op /\ req[w].step = step
Done(w) == req' = [req EXCEPT ![w] = Null]
Fail(w) == fails' = fails + 1 /\ Done(w)

Ended(s) == IF Live(s) THEN Deleted ELSE session[s]

Ask(w, request) ==
  /\ w \in pool /\ Idle(w)
  /\ req' = [req EXCEPT ![w] = request]
  /\ UNCHANGED <<member, code, fails, session, trusted, fixed>>

\* The process dies, or a commit fails, between two steps.
Rollback(w) ==
  /\ ~Idle(w)
  /\ Done(w)
  /\ UNCHANGED <<member, code, fails, session, trusted, fixed>>

-----------------------------------------------------------------------------
\* request_otp and request_reset: the cooldown is tested, the codes of the phone
\* and the purpose are deleted and a new one inserted.
BeginCode(w, purpose) ==
  LET mine == {k \in CodeIds : code[k].purpose = purpose /\ code[k].age \in InTable} IN
  /\ purpose = "reset" => Here
  /\ \A k \in mine : code[k].age # "new"
  /\ Ask(w, [op |-> "code", purpose |-> purpose, closing |-> mine])

CommitCode(w, k) ==
  /\ ~Idle(w) /\ req[w].op = "code" /\ code[k] = Unborn
  /\ code' = [j \in CodeIds |->
                IF j = k THEN [purpose |-> req[w].purpose, used |-> FALSE, age |-> "new"]
                ELSE IF j \in req[w].closing /\ code[j] # Unborn
                     THEN [code[j] EXCEPT !.age = "deleted"]
                ELSE code[j]]
  /\ Done(w)
  /\ UNCHANGED <<member, fails, session, trusted, fixed>>

CodeAges(k) ==
  /\ code[k].age \in {"new", "old"}
  /\ code' = [code EXCEPT ![k].age = IF @ = "new" THEN "old" ELSE "expired"]
  /\ UNCHANGED <<member, fails, session, req, trusted, fixed>>

-----------------------------------------------------------------------------
\* What the SELECT of verify_and_consume finds for the code k a request names;
\* Null is a code that matches no row.
Valid(k, purpose) ==
  k # Null => code[k].purpose = purpose /\ ~code[k].used /\ code[k].age \in {"new", "old"}

\* check_password_gated: the lock, the row, the hash.
BeginLogin(w, p) ==
  /\ ~Locked
  /\ Ask(w, [op |-> "login", secret |-> p, step |-> "checked", code |-> Null, row |-> member])

\* The attempt is recorded; a good one clears the failures and upgrades the hash.
PasswordRight(w) == req[w].row # Null /\ req[w].row.secret = req[w].secret

RecordAttempt(w) ==
  /\ At(w, "login", "checked")
  /\ \/ /\ ~PasswordRight(w)
        /\ Fail(w)
        /\ UNCHANGED member
     \/ /\ PasswordRight(w)
        /\ fails' = 0
        /\ req' = [req EXCEPT ![w] = [@ EXCEPT !.step = "known", !.row = Null]]
        /\ IF req[w].row.legacy
           THEN /\ Here
                /\ member' = [member EXCEPT !.secret = req[w].secret, !.legacy = FALSE]
           ELSE UNCHANGED member
  /\ UNCHANGED <<code, session, trusted, fixed>>

\* verify_and_consume for a login, when codes are on ...
SeekCode(w, k) ==
  /\ At(w, "login", "known") /\ otpOn
  /\ ~Locked /\ Valid(k, "login")
  /\ req' = [req EXCEPT ![w] = [@ EXCEPT !.step = "sought", !.code = k]]
  /\ UNCHANGED <<member, code, fails, session, trusted, fixed>>

\* The lock is not asked for.
BeginResetMutant(w, k, p) ==
  /\ Valid(k, "reset")
  /\ Ask(w, [op |-> "reset", secret |-> p, step |-> "sought", code |-> k, row |-> Null])

\* ... and for a reset, always.
BeginReset(w, k, p) ==
  /\ ~Locked /\ Valid(k, "reset")
  /\ Ask(w, [op |-> "reset", secret |-> p, step |-> "sought", code |-> k, row |-> Null])

\* The code is marked used, not by an UPDATE that tests that it is unused.
ConsumeMutant(w) ==
  LET k == req[w].code IN
  /\ At(w, "login", "sought") \/ At(w, "reset", "sought")
  /\ \/ /\ k # Null /\ code[k].age \in InTable
        /\ code' = [code EXCEPT ![k].used = TRUE]
        /\ fails' = 0
        /\ req' = [req EXCEPT ![w].step = "granted"]
     \/ k = Null /\ Fail(w) /\ UNCHANGED code
  /\ UNCHANGED <<member, session, trusted, fixed>>

\* UPDATE ... WHERE used is false: of two requests with one code one wins.
Wins(k) == ~code[k].used /\ code[k].age \in InTable

Consume(w) ==
  LET k == req[w].code IN
  /\ At(w, "login", "sought") \/ At(w, "reset", "sought")
  /\ \/ /\ k # Null => ~Wins(k)
        /\ Fail(w)
        /\ UNCHANGED code
     \/ /\ k # Null /\ Wins(k)
        /\ code' = [code EXCEPT ![k].used = TRUE]
        /\ fails' = 0
        /\ req' = [req EXCEPT ![w].step = "granted"]
  /\ UNCHANGED <<member, session, trusted, fixed>>

\* A login loads the member again and asks whether the membership is active.  What
\* follows uses the key of the row only.
Proven(w) == At(w, "login", "granted") \/ (At(w, "login", "known") /\ ~otpOn)

LoadMember(w) ==
  /\ \/ Proven(w) /\ Here /\ member.state = "active"
     \/ At(w, "reset", "granted") /\ Here
  /\ req' = [req EXCEPT ![w].step = "loaded"]
  /\ UNCHANGED <<member, code, fails, session, trusted, fixed>>

\* The session has no foreign key.
CommitLoginMutant(w, s) ==
  /\ At(w, "login", "loaded") /\ session[s] = Null
  /\ session' = [session EXCEPT ![s] = [by |-> req[w].secret, live |-> TRUE]]
  /\ Done(w)
  /\ UNCHANGED <<member, code, fails, trusted, fixed>>

CommitLogin(w, s) ==
  /\ At(w, "login", "loaded") /\ session[s] = Null /\ Here
  /\ session' = [session EXCEPT ![s] = [by |-> req[w].secret, live |-> TRUE]]
  /\ Done(w)
  /\ UNCHANGED <<member, code, fails, trusted, fixed>>

\* The sessions are left to a second commit, which may never come.
CommitResetMutant(w) ==
  /\ At(w, "reset", "loaded") /\ Here
  /\ member' = [member EXCEPT !.secret = req[w].secret, !.legacy = FALSE]
  /\ trusted' = {req[w].secret}
  /\ Done(w)
  /\ UNCHANGED <<code, fails, session, fixed>>

\* The new hash and the end of every session are one commit.  A salted hash is
\* never equal to the loaded one, so the column is always written.
CommitReset(w) ==
  /\ At(w, "reset", "loaded") /\ Here
  /\ member' = [member EXCEPT !.secret = req[w].secret, !.legacy = FALSE]
  /\ session' = [s \in SessionIds |-> Ended(s)]
  /\ trusted' = {req[w].secret}
  /\ Done(w)
  /\ UNCHANGED <<code, fails, fixed>>

-----------------------------------------------------------------------------
\* The gate of the routes: a session counts while its member is active.  The routes of
\* change_password and logout ask for the session and the member only (get_principal).
Admitted(s) == Live(s) /\ Here /\ member.state = "active"

\* change_password: of a member with a session, who knows the password.
BeginChange(w, s, p, new) ==
  /\ Live(s) /\ Here
  /\ member.secret = p
  /\ Ask(w, [op |-> "change", secret |-> new, step |-> "loaded", keep |-> s])

CommitChange(w) ==
  /\ At(w, "change", "loaded") /\ Here
  /\ member' = [member EXCEPT !.secret = req[w].secret, !.legacy = FALSE]
  /\ trusted' = trusted \cup {req[w].secret}
  /\ req' = [req EXCEPT ![w].step = "changed"]
  /\ UNCHANGED <<code, fails, session, fixed>>

\* The other sessions end with a second commit.
RevokeOthers(w) ==
  /\ At(w, "change", "changed")
  /\ session' = [s \in SessionIds |-> IF s = req[w].keep THEN session[s] ELSE Ended(s)]
  /\ Done(w)
  /\ UNCHANGED <<member, code, fails, trusted, fixed>>

Free(w) == w \in pool /\ Idle(w)

Logout(w, s) ==
  /\ Free(w) /\ Live(s)
  /\ session' = [session EXCEPT ![s] = Ended(s)]
  /\ UNCHANGED <<member, code, fails, req, trusted, fixed>>

LogoutAll(w, s) ==
  /\ Free(w) /\ Admitted(s)
  /\ session' = [r \in SessionIds |-> Ended(r)]
  /\ UNCHANGED <<member, code, fails, req, trusted, fixed>>

\* An administrator answers the request to join (see Membership).  It leaves "pending"
\* in the commit in which the member does, so the member's state tells it is open.
Decides(w) == ~Idle(w) /\ req[w].op = "decide"

BeginDecision(w, verdict) ==
  /\ Here /\ member.state = "pending"
  /\ Ask(w, [op |-> "decide", verdict |-> verdict, loaded |-> "pending"])

\* The member is loaded by a second SELECT: what another request decided in between
\* is seen.
SeeMember(w) ==
  /\ Decides(w) /\ Here
  /\ req[w].loaded = "pending" /\ member.state # "pending"
  /\ req' = [req EXCEPT ![w].loaded = member.state]
  /\ UNCHANGED <<member, code, fails, session, trusted, fixed>>

\* The state is written if it differs from the loaded one, over whatever another
\* decision has written since.
CommitDecision(w) ==
  /\ Decides(w) /\ Here
  /\ IF req[w].loaded = req[w].verdict THEN UNCHANGED member
     ELSE member' = [member EXCEPT !.state = req[w].verdict]
  /\ Done(w)
  /\ UNCHANGED <<code, fails, session, trusted, fixed>>

\* An administrator removes the member, with the sessions.
RemoveMember(w) ==
  /\ Free(w) /\ Here
  /\ member' = Null
  /\ session' = [s \in SessionIds |-> Ended(s)]
  /\ UNCHANGED <<code, fails, req, trusted, fixed>>

\* Seven days without use, or ninety days.
SessionDies(s) ==
  /\ Live(s)
  /\ session' = [session EXCEPT ![s] = Ended(s)]
  /\ UNCHANGED <<member, code, fails, req, trusted, fixed>>

\* The oldest failure leaves the window of fifteen minutes.
WindowPasses ==
  /\ fails > 0
  /\ fails' = fails - 1
  /\ UNCHANGED <<member, code, session, req, trusted, fixed>>

-----------------------------------------------------------------------------
CodeStep(w) ==
  \/ \E purpose \in {"login", "reset"} : BeginCode(w, purpose)
  \/ \E k \in CodeIds : CommitCode(w, k)
  \/ \E k \in CodeIds \cup {Null} : SeekCode(w, k) \/ \E p \in Passwords : BeginReset(w, k, p)
  \/ Consume(w)

LoginStep(w) ==
  \/ \E p \in Passwords : BeginLogin(w, p)
  \/ RecordAttempt(w)
  \/ LoadMember(w)
  \/ \E s \in SessionIds : CommitLogin(w, s)
  \/ CommitReset(w)

SessionStep(w) ==
  \/ \E s \in SessionIds, p, new \in Passwords : BeginChange(w, s, p, new)
  \/ CommitChange(w)
  \/ RevokeOthers(w)
  \/ \E s \in SessionIds : Logout(w, s) \/ LogoutAll(w, s)
  \/ \E verdict \in Verdicts : BeginDecision(w, verdict)
  \/ SeeMember(w)
  \/ CommitDecision(w)
  \/ RemoveMember(w)

Next ==
  \/ \E w \in Workers : CodeStep(w) \/ LoginStep(w) \/ SessionStep(w) \/ Rollback(w)
  \/ \E k \in CodeIds : CodeAges(k)
  \/ \E s \in SessionIds : SessionDies(s)
  \/ WindowPasses

Spec == Init /\ [][Next]_vars

-----------------------------------------------------------------------------
\* The lock holds but for the requests that passed it together: with n workers a
\* phone gets at most n - 1 tries too many (attempts.py:43), whatever mixes of
\* passwords and codes are tried.
LockHolds == pool # {} => fails <= MaxFails - 1 + Cardinality(pool)

Granted(w, k) ==
  ~Idle(w) /\ req[w].op \in {"login", "reset"} /\ req[w].code = k
    /\ req[w].step \in {"granted", "loaded"}
Spent(k) == code[k].used

\* One code lets one request through, also when two name it at once
\* (otp.py:228-232), and never again.
CodeLetsOneThrough ==
  [][\A k \in CodeIds :
       /\ Spent(k) => Spent(k)'
       /\ \A w \in Workers : ~Granted(w, k) /\ Granted(w, k)' => ~Spent(k) /\ Spent(k)']_vars

OneAtATime == Cardinality(pool) <= 1

\* A live session is of a member who is there and whose request to join was answered,
\* also when the member is removed while the login is on its way; where requests do
\* not overlap the answer was yes.  Where they do, a refusal on its way with an
\* approval may be written over it after the login: the gate at deps.py:39-46 is for that.
SessionsAreOfMembers ==
  \A s \in SessionIds :
    Live(s) => /\ Here /\ member.state # "pending"
               /\ OneAtATime => member.state = "active"

\* A reset ends what the passwords before it opened (password_reset.py:170), requests
\* served one after the other.
ResetEndsSessions == OneAtATime => \A s \in SessionIds : Live(s) => session[s].by \in trusted
=============================================================================
