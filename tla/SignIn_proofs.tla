---------------------------- MODULE SignIn_proofs ----------------------------
(* Theorems about SignIn, for every value of its constants. *)
EXTENDS SignIn, TLAPS

-----------------------------------------------------------------------------
Counted == submits \in 0..MaxSubmits

\* Calls are about a number; that of a new password may be missing.
CallsHavePhones == \A c \in calls : c.op \notin {"config", "confirm"} => c.phone \in Phones

\* The screen of the code knows for what it asks.
FlowIsKnown == form.step = "otp" => form.flow \in Flow

Typed == TypeOK /\ Counted /\ CallsHavePhones /\ FlowIsKnown

\* A number waits for a reset code only where one was asked for.
ForgotIsAsked ==
  \A c \in calls : c.op = "forgot" /\ c.answer = "ok" => c.phone \in texted.reset

CodeInv == ForgotIsAsked /\ CodeIsForThisPhone

\* Away from the invitation, whose button of the code stays open, one submit at a time
\* is under way, and the buttons are closed.
OneAtATime ==
  \A c \in calls : Awaited(c) =>
    /\ page.invite => c.op # "forgot"
    /\ ~page.invite => form.busy /\ \A d \in calls : Awaited(d) => d = c

\* Where calls do not fail, the countdown of the page outlasts the cool-down of the server,
\* but while the answer that starts it anew is under way.
WaitCovers ==
  (/\ setting.smooth /\ form.step = "reset-code"
   /\ ~\E c \in calls : c.op = "forgot" /\ c.answer = "ok")
    => form.resetPhone \in Phones /\ cooling[form.resetPhone] <= form.wait

\* Before its model is mounted the form is new and nobody has asked anything.
NotMounted == ~page.form => form = NewForm /\ calls = {}

ResendInv == NotMounted /\ OneAtATime /\ WaitCovers /\ ResendIsHeard

\* Checks of a number are told apart by the order of starting.
ChecksDiffer ==
  \A c, d \in calls : c.op = "pre" /\ d.op = "pre" =>
    /\ c.number < submits
    /\ c.number = d.number => c = d

\* Answered in order, the last check is about the last whole number typed; when there is
\* none under way, the family known is that number's.
LastCheckCounts ==
  setting.smooth =>
    /\ form.regPhone \in {Null, form.preRegCheck}
    /\ \/ \E c \in calls : /\ c.op = "pre" /\ c.phone = form.preRegCheck
                           /\ \A d \in calls : d.op = "pre" => d.number <= c.number
       \/ (~\E c \in calls : c.op = "pre") /\ form.preReg \in {Null, form.preRegCheck}

LockInv == NotMounted /\ ChecksDiffer /\ LastCheckCounts

-----------------------------------------------------------------------------
\* The shapes of a step: what its proof goes by.

\* Only the screens around the form change.
PageMoves ==
  /\ page' \in Page /\ page'.form = page.form /\ page'.invite = page.invite
  /\ UNCHANGED <<setting, form, calls, server, submits>>

\* The form is new, and nothing is awaited any more.
StartsAnew ==
  /\ page' \in Page /\ ~page'.form /\ form' = NewForm /\ calls' = {}
  /\ UNCHANGED <<setting, server, submits>>

Mounts ==
  /\ ~page.form /\ page' \in Page /\ page'.form /\ page'.invite = page.invite
  /\ calls' = {NewCall("config", "login", Null)}
  /\ UNCHANGED <<setting, form, server, submits>>

\* A button that submits.
AsksFor(c) ==
  /\ page.form /\ (page.invite \/ ~form.busy)
  /\ c.op \in Asking /\ c.answer = "none" /\ (c.op # "confirm" => c.phone \in Phones)
  /\ c.op = "forgot" =>
       /\ ~page.invite
       /\ c.resend => form.step = "reset-code" /\ form.wait = 0 /\ c.phone = form.resetPhone
  /\ Submit(c, form)

Asks == \E c \in Call : AsksFor(c)

\* A button or a field that does not: to another screen, or on this one.
Chooses ==
  \E f \in Form :
    /\ page.form /\ f.busy = form.busy /\ f.wait = form.wait
    /\ f.regPhone = form.regPhone /\ f.preReg = form.preReg /\ f.preRegCheck = form.preRegCheck
    /\ \/ f.step \in {"form", "join", "reset"}
       \/ f.step = form.step /\ f.flow = form.flow /\ f.resetPhone = form.resetPhone
    /\ Types(f)

ChecksNumber == page.form /\ \E p \in Phones \cup {Null} : CheckPreRegistered(p)

Serves ==
  \E c \in calls : \E a \in {"ok", "no", "code"} :
    /\ c.answer = "none" /\ c.op \in {"pre", "forgot", "enter"} /\ Answered(c, a)
    /\ introduced' \subseteq introduced
    /\ \/ c.op = "forgot" /\ ServeForgot(c)
       \/ c.op # "forgot" /\ UNCHANGED <<texted, cooling>>
    /\ UNCHANGED <<setting, page, form, submits>>

\* A call stays out: its answer does not end.
StaysOut ==
  \E c \in calls :
    /\ ~setting.smooth /\ Answered(c, "endless")
    /\ UNCHANGED <<setting, page, form, server, submits>>

Heard == \E c \in calls : Hearing(c) /\ ~Finished(c)

\* A call that is started.
LEMMA NewCalls ==
  ASSUME NEW op \in Asking \cup {"config", "pre"}, NEW mode \in Modes,
         NEW phone \in Phones \cup {Null}
  PROVE  /\ NewCall(op, mode, phone) \in Call
         /\ NewCall(op, mode, phone).op = op /\ NewCall(op, mode, phone).phone = phone
         /\ NewCall(op, mode, phone).answer = "none" /\ ~NewCall(op, mode, phone).resend
  BY BoundsAssumption DEF NewCall, Call, Asking, Modes

\* Every step has one of the shapes.
LEMMA Shapes ==
  ASSUME Typed, [Next]_vars
  PROVE  \/ PageMoves \/ StartsAnew \/ Mounts \/ Asks \/ Chooses \/ ChecksNumber
         \/ Serves \/ StaysOut \/ Heard \/ Tick
  <1> USE NullAssumption, BoundsAssumption DEF server
  <1>0. page \in Page /\ form \in Form
    BY DEF Typed, TypeOK
  <1>1. CASE Booted \/ ApplyDraft \/ InstallScreen \/ IntroScreen
    <2> USE <1>0 DEF Page, PageMoves
    <2>1. CASE Booted
      BY <2>1 DEF Booted
    <2>2. CASE ApplyDraft
      BY <2>2 DEF ApplyDraft
    <2>3. CASE LeaveInstall
      BY <2>3 DEF LeaveInstall
    <2>4. CASE IntroNext
      <3>1. page' \in Page
        <4>1. CASE page.index = 2
          BY <2>4, <4>1, 0 \in 0..2, TRUE \in BOOLEAN DEF IntroNext
        <4>2. CASE page.index # 2
          BY <2>4, <4>2 DEF IntroNext
        <4> QED
          BY <4>1, <4>2
      <3> QED
        BY <2>4, <3>1 DEF IntroNext
    <2>5. CASE IntroBack
      BY <2>5 DEF IntroBack
    <2>6. CASE IntroLeave
      <3>1. page' \in Page
        BY <2>6, 0 \in 0..2, TRUE \in BOOLEAN DEF IntroLeave
      <3> QED
        BY <2>6, <3>1 DEF IntroLeave
    <2> QED
      BY <1>1, <2>1, <2>2, <2>3, <2>4, <2>5, <2>6 DEF InstallScreen, IntroScreen
  <1>2. CASE Mounted
    <2>1. Mounts
      BY <1>0, <1>2 DEF Mounted, Page, Mounts
    <2> QED
      BY <2>1
  <1>3. CASE Reload
    <2>1. StartsAnew
      BY <1>0, <1>3 DEF Reload, NewPage, Page, StartsAnew, Screen
    <2> QED
      BY <2>1
  <1>4. CASE InviteScreen
    <2>1. page.form /\ page.invite
      BY <1>4 DEF InviteScreen, Screen
    <2>2. ASSUME NEW p \in Phones, SubmitInvite(p) PROVE Asks
      <3> DEFINE b == NewCall(FirstCall, "invite", p)
      <3>1. FirstCall \in {"otp", "enter"} /\ "invite" \in Modes /\ p \in Phones
        BY <1>0, <2>1, <2>2 DEF Asking, Modes, FirstCall
      <3>2. b \in Call /\ b.op = FirstCall /\ b.phone = p /\ b.answer = "none" /\ ~b.resend
        BY <3>1, NewCalls DEF Asking
      <3> HIDE DEF b
      <3>3. Submit(b, form)
        BY <1>0, <2>1, <2>2 DEF b, SubmitInvite
      <3>4. AsksFor(b)
        BY <1>0, <2>1, <2>2, <3>1, <3>2, <3>3 DEF AsksFor, Asking
      <3> QED
        BY <3>2, <3>4 DEF Asks
    <2>3. ASSUME form.step = "otp", VerifyOtp PROVE Asks
      BY <2>1, <2>3
      DEF VerifyOtp, NewCall, Call, Flow, Asks, AsksFor, Asking, Typed, Counted, FlowIsKnown
    <2> QED
      BY <1>4, <2>2, <2>3 DEF InviteScreen
  <1>5. CASE LoginForm
    <2>1. page.form
      BY <1>5 DEF LoginForm, At
    <2>2. ASSUME NEW p \in Phones, ~form.busy, SubmitLogin(p) PROVE Asks
      <3> DEFINE b == NewCall("check", "login", p)
      <3>1. "check" \in Asking /\ "login" \in Modes /\ p \in Phones
        BY <1>0, <2>1, <2>2 DEF Asking, Modes, FirstCall
      <3>2. b \in Call /\ b.op = "check" /\ b.phone = p /\ b.answer = "none" /\ ~b.resend
        BY <3>1, NewCalls
      <3> HIDE DEF b
      <3> DEFINE c == [b EXCEPT !.code = FirstCall = "otp"]
      <3>3. /\ c \in Call /\ c.op = b.op /\ c.phone = b.phone /\ c.answer = "none"
            /\ ~c.resend
        BY <1>0, <3>2 DEF Call, Form, Typed, Counted, FirstCall
      <3>4. Submit(c, form) /\ submits < MaxSubmits
        BY <1>0, <2>1, <2>2 DEF b, Submit, SubmitLogin
      <3>5. AsksFor(c)
        BY <1>0, <2>1, <2>2, <3>1, <3>2, <3>3, <3>4 DEF AsksFor
      <3> QED
        BY <3>3, <3>5 DEF Asks
    <2>3. ASSUME NEW p \in Phones, StartPasswordReset(p) PROVE Chooses
      BY <1>0, <2>1, <2>3 DEF StartPasswordReset, Form, Steps, Chooses
    <2>4. ASSUME StartJoinByCode PROVE Chooses
      BY <1>0, <2>1, <2>4 DEF StartJoinByCode, Form, Steps, Chooses
    <2> QED
      BY <1>5, <2>2, <2>3, <2>4 DEF LoginForm
  <1>6. CASE RegisterForm
    <2>1. page.form
      BY <1>6 DEF RegisterForm, At
    <2>2. ASSUME ~form.busy, SubmitRegister PROVE Asks
      <3> DEFINE b == NewCall(FirstCall, "register", form.regPhone)
      <3>1. FirstCall \in {"otp", "enter"} /\ "register" \in Modes /\ form.regPhone \in Phones
        BY <1>0, <2>2 DEF SubmitRegister, Asking, Modes, FirstCall, Form
      <3>2. b \in Call /\ b.op = FirstCall /\ b.phone = form.regPhone /\ b.answer = "none" /\ ~b.resend
        BY <3>1, NewCalls DEF Asking
      <3> HIDE DEF b
      <3>3. Submit(b, form)
        BY <1>0, <2>1, <2>2 DEF b, SubmitRegister
      <3>4. AsksFor(b)
        BY <1>0, <2>1, <2>2, <3>1, <3>2, <3>3 DEF AsksFor, Asking
      <3> QED
        BY <3>2, <3>4 DEF Asks
    <2> QED
      BY <1>6, <2>1, <2>2 DEF RegisterForm, ChecksNumber
  <1>7. CASE OtpScreen
    <2>1. page.form /\ form.step = "otp"
      BY <1>7 DEF OtpScreen, At
    <2>2. ASSUME ~form.busy, VerifyOtp PROVE Asks
      BY <2>1, <2>2
      DEF VerifyOtp, NewCall, Call, Flow, Asks, AsksFor, Asking, Typed, Counted, FlowIsKnown
    <2>3. ASSUME ~form.busy, ResendOtp PROVE Asks
      <3> DEFINE b == NewCall("otp", form.flow.mode, form.flow.phone)
      <3>1. "otp" \in Asking /\ form.flow.mode \in Modes /\ form.flow.phone \in Phones
        BY <1>0, <2>1, <2>3 DEF Asking, Modes, FirstCall, Typed, FlowIsKnown, Flow
      <3>2. b \in Call /\ b.op = "otp" /\ b.phone = form.flow.phone /\ b.answer = "none" /\ ~b.resend
        BY <3>1, NewCalls
      <3> HIDE DEF b
      <3>3. Submit(b, form)
        BY <1>0, <2>1, <2>3 DEF b, ResendOtp
      <3>4. AsksFor(b)
        BY <1>0, <2>1, <2>3, <3>1, <3>2, <3>3 DEF AsksFor
      <3> QED
        BY <3>2, <3>4 DEF Asks
    <2>4. ASSUME ResetOtp PROVE Chooses
      BY <1>0, <2>1, <2>4 DEF ResetOtp, Form, Steps, Chooses
    <2> QED
      BY <1>7, <2>2, <2>3, <2>4 DEF OtpScreen
  <1>8. CASE JoinScreen
    <2>1. page.form
      BY <1>8 DEF JoinScreen, At
    <2>2. ASSUME NEW p \in Phones, ~form.busy, SubmitJoinByCode(p) PROVE Asks
      <3> DEFINE b == NewCall(FirstCall, "join", p)
      <3>1. FirstCall \in {"otp", "enter"} /\ "join" \in Modes /\ p \in Phones
        BY <1>0, <2>1, <2>2 DEF Asking, Modes, FirstCall
      <3>2. b \in Call /\ b.op = FirstCall /\ b.phone = p /\ b.answer = "none" /\ ~b.resend
        BY <3>1, NewCalls DEF Asking
      <3> HIDE DEF b
      <3>3. Submit(b, form)
        BY <1>0, <2>1, <2>2 DEF b, SubmitJoinByCode
      <3>4. AsksFor(b)
        BY <1>0, <2>1, <2>2, <3>1, <3>2, <3>3 DEF AsksFor, Asking
      <3> QED
        BY <3>2, <3>4 DEF Asks
    <2>3. ASSUME CancelJoinByCode PROVE Chooses
      BY <1>0, <2>1, <2>3 DEF CancelJoinByCode, Form, Steps, Chooses
    <2> QED
      BY <1>8, <2>2, <2>3 DEF JoinScreen
  <1>9. CASE PendingScreen
    <2>1. Chooses
      BY <1>0, <1>9 DEF PendingScreen, At, CancelJoinByCode, Form, Steps, Chooses
    <2> QED
      BY <2>1
  <1>10. CASE ResetScreen
    <2>1. page.form /\ ~page.invite /\ form.step = "reset"
      BY <1>10 DEF ResetScreen, At, Screen
    <2>2. ASSUME ~form.busy, SendResetCode(FALSE) PROVE Asks
      <3> DEFINE b == NewCall("forgot", "login", form.resetPhone)
      <3>1. "forgot" \in Asking /\ "login" \in Modes /\ form.resetPhone \in Phones
        BY <1>0, <2>1, <2>2 DEF Asking, Modes, FirstCall, Form, SendResetCode
      <3>2. b \in Call /\ b.op = "forgot" /\ b.phone = form.resetPhone /\ b.answer = "none" /\ ~b.resend
        BY <3>1, NewCalls
      <3> HIDE DEF b
      <3> DEFINE c == [b EXCEPT !.resend = FALSE]
      <3>3. /\ c \in Call /\ c.op = b.op /\ c.phone = b.phone /\ c.answer = "none"
            /\ ~c.resend
        BY <1>0, <3>2 DEF Call, Form, Typed, Counted, FirstCall
      <3>4. Submit(c, form) /\ submits < MaxSubmits
        BY <1>0, <2>1, <2>2 DEF b, Submit, SendResetCode
      <3>5. AsksFor(c)
        BY <1>0, <2>1, <2>2, <3>1, <3>2, <3>3, <3>4 DEF AsksFor
      <3> QED
        BY <3>3, <3>5 DEF Asks
    <2>3. ASSUME NEW p \in Phones, TypeResetPhone(p) PROVE Chooses
      BY <1>0, <2>1, <2>3 DEF TypeResetPhone, Form, Steps, Chooses
    <2>4. ASSUME CancelPasswordReset PROVE Chooses
      BY <1>0, <2>1, <2>4 DEF CancelPasswordReset, Form, Steps, Chooses
    <2> QED
      BY <1>10, <2>2, <2>3, <2>4 DEF ResetScreen
  <1>11. CASE ResetCodeScreen
    <2>1. page.form /\ ~page.invite /\ form.step = "reset-code"
      BY <1>11 DEF ResetCodeScreen, At, Screen
    <2>2. ASSUME ~form.busy, SendResetCode(TRUE) PROVE Asks
      <3> DEFINE b == NewCall("forgot", "login", form.resetPhone)
      <3>1. "forgot" \in Asking /\ "login" \in Modes /\ form.resetPhone \in Phones
        BY <1>0, <2>1, <2>2 DEF Asking, Modes, FirstCall, Form, SendResetCode
      <3>2. b \in Call /\ b.op = "forgot" /\ b.phone = form.resetPhone /\ b.answer = "none" /\ ~b.resend
        BY <3>1, NewCalls
      <3> HIDE DEF b
      <3> DEFINE c == [b EXCEPT !.resend = TRUE]
      <3>3. /\ c \in Call /\ c.op = b.op /\ c.phone = b.phone /\ c.answer = "none"
            /\ form.wait = 0
        BY <1>0, <2>2, <3>2 DEF Call, SendResetCode
      <3>4. Submit(c, form) /\ submits < MaxSubmits
        BY <1>0, <2>1, <2>2 DEF b, Submit, SendResetCode
      <3>5. AsksFor(c)
        BY <1>0, <2>1, <2>2, <3>1, <3>2, <3>3, <3>4 DEF AsksFor
      <3> QED
        BY <3>3, <3>5 DEF Asks
    <2>3. ASSUME ~form.busy, SubmitPasswordReset PROVE Asks
      <3> DEFINE b == NewCall("confirm", "login", form.resetPhone)
      <3>1. b \in Call /\ b.op = "confirm" /\ b.answer = "none"
        BY <1>0, NewCalls DEF Asking, Modes, Form
      <3> HIDE DEF b
      <3>2. Submit(b, form)
        BY <2>3 DEF b, SubmitPasswordReset
      <3>3. AsksFor(b)
        BY <2>1, <2>3, <3>1, <3>2 DEF AsksFor, Asking
      <3> QED
        BY <3>1, <3>3 DEF Asks
    <2>4. ASSUME TypeResetPassword PROVE Chooses
      BY <1>0, <2>1, <2>4 DEF TypeResetPassword, Form, Steps, Chooses
    <2>5. ASSUME CancelPasswordReset PROVE Chooses
      BY <1>0, <2>1, <2>5 DEF CancelPasswordReset, Form, Steps, Chooses
    <2> QED
      BY <1>11, <2>2, <2>3, <2>4, <2>5 DEF ResetCodeScreen
  <1>12. ASSUME NEW c \in calls, Serve(c) PROVE Serves
    BY <1>12
    DEF Serve, ServePreRegistered, ServeForgot, ServeRefuse, ServeWantsCode, ServeEnter, Serves
  <1>13. ASSUME NEW c \in calls, Hearing(c) PROVE StartsAnew \/ Heard
    <2>1. CASE Finished(c)
      BY <1>0, <2>1 DEF Finished, Page, StartsAnew
    <2> QED
      BY <1>13, <2>1 DEF Heard
  <1>14. CASE UNCHANGED vars
    <2>1. PageMoves
      BY <1>0, <1>14 DEF vars, PageMoves
    <2> QED
      BY <2>1
  <1>15. ASSUME NEW c \in calls, BodyNeverEnds(c) PROVE StaysOut
    BY <1>15 DEF BodyNeverEnds, StaysOut
  <1> QED
    BY <1>1, <1>2, <1>3, <1>4, <1>5, <1>6, <1>7, <1>8, <1>9, <1>10, <1>11, <1>12, <1>13, <1>14,
       <1>15
    DEF Next, Taps, Answers, Answer

\* An answer turns the form into f and goes on with the calls next.
Replies(c, f, next) ==
  /\ f \in Form /\ Hears(c, f, next)
  /\ \A n \in next :
       n \in Call /\ n.phone \in Phones /\ n.op \in {"otp", "enter", "finish"}
  /\ texted' \in [login: SUBSET Phones, reset: SUBSET Phones]
  /\ texted.login \subseteq texted'.login /\ texted'.reset = texted.reset
  /\ \/ /\ f.step = form.step /\ f.flow = form.flow
        /\ f.resetPhone = form.resetPhone /\ f.wait = form.wait
        /\ setting.smooth => c.op # "forgot"
     \/ f.step \in {"form", "pending"}
     \/ f.step = "otp" /\ f.flow \in Flow /\ f.flow.phone \in texted'.login
     \/ /\ c.op = "forgot" /\ c.answer = "ok"
        /\ f.step = "reset-code" /\ f.resetPhone = c.phone /\ f.wait = Wait
  /\ Awaited(c) \/ (f.busy = form.busy /\ next = {})
  /\ next = {} \/ \E n : next = {n} /\ (Awaited(n) => f.busy \/ f.busy = form.busy)
  /\ f.regPhone = form.regPhone /\ f.preRegCheck = form.preRegCheck
  /\ c.op # "pre" => f.preReg = form.preReg
  /\ (c.op = "pre" /\ setting.smooth) =>
       f.preReg \in {c.phone, Null} /\ \A d \in calls : d.op = "pre" => d.number >= c.number

\* A call that stays out is the call it was.
LEMMA StayingOut ==
  ASSUME Typed, StaysOut
  PROVE  /\ ~setting.smooth /\ UNCHANGED <<setting, page, form, server, submits>>
         /\ \E c \in calls, n \in Call :
              /\ n.op = c.op /\ n.phone = c.phone /\ n.code = c.code /\ n.number = c.number
              /\ n.answer = "endless" /\ calls' = (calls \ {c}) \cup {n}
  <1>1. PICK c \in calls : Answered(c, "endless")
    BY DEF StaysOut
  <1> DEFINE n == [c EXCEPT !.answer = "endless"]
  <1>2. /\ n \in Call /\ n.op = c.op /\ n.phone = c.phone /\ n.code = c.code
        /\ n.number = c.number /\ n.answer = "endless"
    BY DEF Typed, TypeOK, Call
  <1>3. calls' = (calls \ {c}) \cup {n}
    BY <1>1 DEF Answered
  <1> HIDE DEF n
  <1> QED
    BY <1>2, <1>3 DEF StaysOut

\* What an answer does to the form and to what is under way.
LEMMA Answering ==
  ASSUME Typed, NEW c \in calls, Hearing(c), ~Finished(c)
  PROVE  \E f, next : Replies(c, f, next)
  <1> USE BoundsAssumption
  <1>1. /\ c \in Call /\ form \in Form /\ (c.op \notin {"config", "confirm"} => c.phone \in Phones)
        /\ setting.otp \in BOOLEAN /\ setting.reset \in BOOLEAN
        /\ texted \in [login: SUBSET Phones, reset: SUBSET Phones]
    BY SettingsAssumption DEF Typed, TypeOK, CallsHavePhones, Setting
  <1>2. /\ Idle \in Form /\ Idle.step = form.step /\ Idle.flow = form.flow
        /\ Idle.resetPhone = form.resetPhone /\ Idle.wait = form.wait
        /\ Idle.regPhone = form.regPhone /\ Idle.preReg = form.preReg
        /\ Idle.preRegCheck = form.preRegCheck
    BY <1>1 DEF Idle, Form
  <1>3. CASE GotConfig(c)
    <2> DEFINE f == [form EXCEPT !.otp = setting.otp, !.forgot = setting.reset]
    <2>1. /\ f \in Form /\ f.step = form.step /\ f.flow = form.flow
          /\ f.resetPhone = form.resetPhone /\ f.wait = form.wait /\ f.busy = form.busy
          /\ f.regPhone = form.regPhone /\ f.preReg = form.preReg
          /\ f.preRegCheck = form.preRegCheck
      BY <1>1 DEF Form
    <2>2. Hears(c, f, {}) /\ texted' = texted /\ c.op = "config"
      BY <1>3 DEF GotConfig
    <2> HIDE DEF f
    <2>3. Replies(c, f, {})
      BY <1>1, <2>1, <2>2 DEF Replies
    <2> QED
      BY <2>3
  <1>4. CASE GotPreRegistered(c)
    <2> DEFINE f == [form EXCEPT !.preReg = IF c.answer = "ok" THEN c.phone ELSE Null]
    <2>1. /\ c.op = "pre" /\ c.phone \in Phones
          /\ setting.smooth => \A d \in calls : d.op = "pre" => d.number >= c.number
      BY <1>1, <1>4 DEF GotPreRegistered
    <2>2. /\ f \in Form /\ f.step = form.step /\ f.flow = form.flow
          /\ f.resetPhone = form.resetPhone /\ f.wait = form.wait /\ f.busy = form.busy
          /\ f.regPhone = form.regPhone /\ f.preReg \in {c.phone, Null}
          /\ f.preRegCheck = form.preRegCheck
      BY <1>1, <2>1 DEF Form
    <2>3. Hears(c, f, {}) /\ texted' = texted
      BY <1>4 DEF GotPreRegistered
    <2> HIDE DEF f
    <2>4. Replies(c, f, {})
      BY <1>1, <2>1, <2>2, <2>3 DEF Replies
    <2> QED
      BY <2>4
  <1>5. CASE GotPasswordCheck(c)
    <2> DEFINE n == [c EXCEPT !.op = IF c.code THEN "otp" ELSE "enter", !.code = FALSE]
    <2>1. n \in Call /\ n.phone \in Phones /\ n.op \in {"otp", "enter"} /\ c.op = "check"
      BY <1>1, <1>5 DEF GotPasswordCheck, Call
    <2>2. Hears(c, form, {n}) /\ texted' = texted
      BY <1>5 DEF GotPasswordCheck
    <2> HIDE DEF n
    <2>3. Replies(c, form, {n})
      BY <1>1, <2>1, <2>2 DEF Replies, Awaited, Asking
    <2> QED
      BY <2>3
  <1>6. CASE WantsCode(c)
    <2> DEFINE n == [c EXCEPT !.op = "otp", !.answer = "none"]
    <2>1. n \in Call /\ n.phone \in Phones /\ n.op = "otp" /\ c.op = "enter"
      BY <1>1, <1>6 DEF WantsCode, Call
    <2>2. Hears(c, form, {n}) /\ texted' = texted
      BY <1>6 DEF WantsCode
    <2> HIDE DEF n
    <2>3. Replies(c, form, {n})
      BY <1>1, <2>1, <2>2 DEF Replies, Awaited, Asking
    <2> QED
      BY <2>3
  <1>7. CASE SentOtp(c)
    <2> DEFINE f == [Idle EXCEPT !.flow = [mode |-> c.mode, phone |-> c.phone], !.step = "otp"]
    <2>1. c.mode \in Modes /\ c.phone \in Phones /\ c.op = "otp"
      BY <1>1, <1>7 DEF SentOtp, Call
    <2>2. [mode |-> c.mode, phone |-> c.phone] \in Flow
      BY <2>1 DEF Flow
    <2>3. /\ f \in Form /\ f.step = "otp" /\ f.flow \in Flow /\ f.flow.phone = c.phone
          /\ f.regPhone = form.regPhone /\ f.preReg = form.preReg
          /\ f.preRegCheck = form.preRegCheck
      BY <1>2, <2>2 DEF Form, Steps
    <2>4. Hears(c, f, {})
      BY <1>7 DEF SentOtp
    <2>5. /\ texted' \in [login: SUBSET Phones, reset: SUBSET Phones]
          /\ texted.login \subseteq texted'.login /\ c.phone \in texted'.login
          /\ texted'.reset = texted.reset
      BY <1>1, <1>7, <2>1 DEF SentOtp
    <2> HIDE DEF f
    <2>6. Replies(c, f, {})
      BY <2>1, <2>3, <2>4, <2>5 DEF Replies, Awaited, Asking
    <2> QED
      BY <2>6
  <1>8. CASE Entered(c)
    <2> DEFINE n == [c EXCEPT !.op = "finish"]
               f == [form EXCEPT !.busy = ~c.code]
    <2>1. /\ n \in Call /\ n.phone \in Phones /\ n.op = "finish" /\ n.code = c.code
          /\ c.op = "enter" /\ c.code \in BOOLEAN
      BY <1>1, <1>8 DEF Entered, Call
    <2>2. /\ f \in Form /\ f.step = form.step /\ f.flow = form.flow
          /\ f.resetPhone = form.resetPhone /\ f.wait = form.wait /\ f.busy = ~c.code
          /\ f.regPhone = form.regPhone /\ f.preReg = form.preReg
          /\ f.preRegCheck = form.preRegCheck
      BY <1>1, <2>1 DEF Form
    <2>3. Hears(c, f, {n}) /\ texted' = texted
      BY <1>8 DEF Entered
    <2> HIDE DEF n, f
    <2>4. Replies(c, f, {n})
      BY <1>1, <2>1, <2>2, <2>3 DEF Replies, Awaited, Asking
    <2> QED
      BY <2>4
  <1>9. CASE MarkJoinPending(c)
    <2> DEFINE f == [Idle EXCEPT !.step = "pending"]
    <2>1. /\ f \in Form /\ f.step = "pending"
          /\ f.regPhone = form.regPhone /\ f.preReg = form.preReg
          /\ f.preRegCheck = form.preRegCheck
      BY <1>2 DEF Form, Steps
    <2>2. Hears(c, f, {}) /\ texted' = texted /\ c.op = "enter"
      BY <1>9 DEF MarkJoinPending
    <2> HIDE DEF f
    <2>3. Replies(c, f, {})
      BY <1>1, <2>1, <2>2 DEF Replies, Awaited, Asking
    <2> QED
      BY <2>3
  <1>10. CASE SentResetCode(c)
    <2> DEFINE f == [Idle EXCEPT !.resetPhone = c.phone, !.step = "reset-code", !.wait = Wait]
    <2>1. f \in Form
      <3>1. c.phone \in Phones \cup {Null}
        BY <1>1 DEF Call
      <3>2. [Idle EXCEPT !.resetPhone = c.phone, !.step = "reset-code"] \in Form
        BY <1>2, <3>1 DEF Form, Steps
      <3> QED
        BY <1>2, <3>1, <3>2, Wait \in 0..Wait DEF Form, Steps
    <2>2. /\ f.step = "reset-code" /\ f.resetPhone = c.phone /\ f.wait = Wait
          /\ f.regPhone = form.regPhone /\ f.preReg = form.preReg
          /\ f.preRegCheck = form.preRegCheck
      BY <1>2 DEF Form
    <2>3. Hears(c, f, {}) /\ texted' = texted /\ c.op = "forgot" /\ c.answer = "ok"
      BY <1>10 DEF SentResetCode
    <2> HIDE DEF f
    <2>4. Replies(c, f, {})
      BY <1>1, <2>1, <2>2, <2>3 DEF Replies, Awaited, Asking
    <2> QED
      BY <2>4
  <1>11. CASE PasswordIsReset(c)
    <2> DEFINE f == [Idle EXCEPT !.resetPassword = FALSE, !.wait = 0, !.step = "form"]
    <2>1. f \in Form
      BY <1>2, 0 \in 0..Wait, FALSE \in BOOLEAN DEF Form, Steps
    <2>2. /\ f.step = "form" /\ f.regPhone = form.regPhone /\ f.preReg = form.preReg
          /\ f.preRegCheck = form.preRegCheck
      BY <1>2 DEF Form
    <2>3. Hears(c, f, {}) /\ texted' = texted /\ c.op = "confirm"
      BY <1>11 DEF PasswordIsReset
    <2> HIDE DEF f
    <2>4. Replies(c, f, {})
      BY <1>1, <2>1, <2>2, <2>3 DEF Replies, Awaited, Asking
    <2> QED
      BY <2>4
  <1>12. CASE Failed(c)
    <2>1. texted' = texted /\ (setting.smooth => c.op \notin {"pre", "forgot"})
      BY <1>12 DEF Failed
    <2>2. CASE c.op = "config"
      <3> DEFINE f == [form EXCEPT !.otp = FALSE, !.forgot = FALSE]
      <3>1. /\ f \in Form /\ f.step = form.step /\ f.flow = form.flow
            /\ f.resetPhone = form.resetPhone /\ f.wait = form.wait /\ f.busy = form.busy
            /\ f.regPhone = form.regPhone /\ f.preReg = form.preReg
            /\ f.preRegCheck = form.preRegCheck
        BY <1>1 DEF Form
      <3>2. Hears(c, f, {})
        BY <1>12, <2>2 DEF Failed, Awaited, Asking
      <3> HIDE DEF f
      <3>3. Replies(c, f, {})
        BY <1>1, <2>1, <2>2, <3>1, <3>2 DEF Replies
      <3> QED
        BY <3>3
    <2>3. CASE Awaited(c)
      <3>1. Hears(c, Idle, {}) /\ c.op # "pre"
        BY <1>12, <2>3 DEF Failed, Awaited, Asking
      <3>2. Replies(c, Idle, {})
        BY <1>1, <1>2, <2>1, <2>3, <3>1 DEF Replies
      <3> QED
        BY <3>2
    <2>4. CASE c.op # "config" /\ ~Awaited(c)
      <3>1. Hears(c, form, {})
        BY <1>12, <2>4 DEF Failed
      <3>2. Replies(c, form, {})
        BY <1>1, <2>1, <2>4, <3>1 DEF Replies
      <3> QED
        BY <3>2
    <2> QED
      BY <2>2, <2>3, <2>4
  <1> QED
    BY <1>3, <1>4, <1>5, <1>6, <1>7, <1>8, <1>9, <1>10, <1>11, <1>12 DEF Hearing

-----------------------------------------------------------------------------
\* Typing.

\* A form begins with its first screen.
LEMMA NewForms == NewForm \in Form /\ NewForm.step = "form"
  BY BoundsAssumption DEF NewForm, Form, Steps

\* An answer keeps the types.
LEMMA TypedHearing ==
  ASSUME Typed, NEW c \in calls, NEW f, NEW next, Replies(c, f, next)
  PROVE  Typed'
  <1>1. form' \in Form /\ FlowIsKnown'
    BY DEF Replies, Hears, Typed, FlowIsKnown
  <1>2. calls' \subseteq Call /\ CallsHavePhones'
    BY DEF Replies, Hears, Typed, TypeOK, CallsHavePhones
  <1> QED
    BY <1>1, <1>2 DEF Replies, Hears, Typed, TypeOK, Counted

\* The number of registration is typed: with a check or without.
LEMMA TypedChecksNumber ==
  ASSUME Typed, NEW p \in Phones \cup {Null}, CheckPreRegistered(p)
  PROVE  Typed'
  <1> USE BoundsAssumption, NullAssumption
  <1>1. form \in Form
    BY DEF Typed, TypeOK
  <1>2. CASE p \in {Null, form.preRegCheck}
    <2> DEFINE f == [form EXCEPT !.regPhone = p]
    <2>1. f \in Form /\ f.step = form.step /\ f.flow = form.flow
      BY <1>1 DEF Form
    <2>2. Types(f)
      BY <1>2 DEF CheckPreRegistered
    <2> HIDE DEF f
    <2> QED
      BY <2>1, <2>2 DEF Types, server, Typed, TypeOK, Counted, CallsHavePhones, FlowIsKnown
  <1>3. CASE p \notin {Null, form.preRegCheck}
    <2> DEFINE f == [form EXCEPT !.regPhone = p, !.preRegCheck = p]
               b == NewCall("pre", "register", p)
               c == [b EXCEPT !.number = submits]
    <2>1. f \in Form /\ f.step = form.step /\ f.flow = form.flow
      BY <1>1 DEF Form
    <2>2. b \in Call /\ b.phone = p
      BY NewCalls DEF Modes
    <2>3. c \in Call /\ c.phone \in Phones
      <3> HIDE DEF b
      <3> QED
        BY <1>3, <2>2 DEF Call, Typed, Counted
    <2>4. /\ form' = f /\ calls' = calls \cup {c} /\ submits' = submits + 1 /\ submits < MaxSubmits
          /\ UNCHANGED <<setting, page, server, pages>>
      BY <1>3 DEF CheckPreRegistered
    <2> HIDE DEF f, b, c
    <2>5. form' \in Form /\ FlowIsKnown' /\ Counted'
      BY <2>1, <2>4 DEF Typed, Counted, FlowIsKnown
    <2>6. calls' \subseteq Call /\ CallsHavePhones'
      BY <2>3, <2>4 DEF Typed, TypeOK, CallsHavePhones
    <2> QED
      BY <2>4, <2>5, <2>6 DEF Typed, TypeOK, server
  <1> QED
    BY <1>2, <1>3

\* Every step keeps the types.
LEMMA TypedKept ==
  ASSUME Typed, [Next]_vars
  PROVE  Typed'
  <1> USE BoundsAssumption DEF server
  <1>1. CASE PageMoves
    BY <1>1 DEF PageMoves, Typed, TypeOK, Counted, CallsHavePhones, FlowIsKnown
  <1>2. CASE StartsAnew
    BY <1>2, NewForms DEF StartsAnew, Typed, TypeOK, Counted, CallsHavePhones, FlowIsKnown
  <1>3. CASE Mounts
    <2>1. NewCall("config", "login", Null) \in Call /\ NewCall("config", "login", Null).op = "config"
      BY NewCalls DEF Modes
    <2> QED
      BY <1>3, <2>1 DEF Mounts, Typed, TypeOK, Counted, CallsHavePhones, FlowIsKnown
  <1>4. CASE Asks
    <2>1. PICK c \in Call : AsksFor(c)
      BY <1>4 DEF Asks
    <2>2. form' \in Form /\ form'.step = form.step /\ form'.flow = form.flow
      BY <2>1 DEF AsksFor, Submit, Typed, TypeOK, Form
    <2>3. calls' \subseteq Call /\ CallsHavePhones'
      BY <2>1 DEF AsksFor, Submit, Typed, TypeOK, CallsHavePhones
    <2> QED
      BY <2>1, <2>2, <2>3 DEF AsksFor, Submit, Typed, TypeOK, Counted, FlowIsKnown
  <1>5. CASE Chooses
    <2>1. PICK f \in Form : Types(f) /\ (f.step = "otp" => f.step = form.step /\ f.flow = form.flow)
      BY <1>5 DEF Chooses
    <2> QED
      BY <2>1 DEF Types, Typed, TypeOK, Counted, CallsHavePhones, FlowIsKnown
  <1>6. CASE ChecksNumber
    BY <1>6, TypedChecksNumber DEF ChecksNumber
  <1>7. CASE Serves
    <2>1. PICK c \in calls, a \in {"ok", "no", "code"} :
            /\ Answered(c, a) /\ introduced' \subseteq introduced
            /\ \/ c.op = "forgot" /\ ServeForgot(c)
               \/ c.op # "forgot" /\ UNCHANGED <<texted, cooling>>
            /\ UNCHANGED <<setting, page, form, submits>>
      BY <1>7 DEF Serves
    <2>2. /\ c \in Call /\ [c EXCEPT !.answer = a] \in Call
          /\ [c EXCEPT !.answer = a].op = c.op /\ [c EXCEPT !.answer = a].phone = c.phone
      BY DEF Typed, TypeOK, Call
    <2>3. calls' \subseteq Call /\ CallsHavePhones'
      BY <2>1, <2>2 DEF Answered, Typed, TypeOK, CallsHavePhones
    <2>4. texted' \in [login: SUBSET Phones, reset: SUBSET Phones] /\ cooling' \in [Phones -> 0..Wait]
      BY <2>1 DEF ServeForgot, Typed, TypeOK, CallsHavePhones
    <2> QED
      BY <2>1, <2>3, <2>4 DEF Typed, TypeOK, Counted, FlowIsKnown
  <1>8. CASE Heard
    <2>1. PICK c \in calls : \E f, next : Replies(c, f, next)
      BY <1>8, Answering DEF Heard
    <2>2. PICK f, next : Replies(c, f, next)
      BY <2>1
    <2> QED
      BY <2>2, TypedHearing
  <1>9. CASE Tick
    <2>1. form' \in Form /\ form'.step = form.step /\ form'.flow = form.flow
      <3>1. CASE form' = form
        BY <3>1 DEF Typed, TypeOK
      <3>2. CASE form' # form
        <4>1. form' = [form EXCEPT !.wait = @ - 1] /\ form.wait # 0
          BY <1>9, <3>2 DEF Tick
        <4> QED
          BY <4>1 DEF Typed, TypeOK, Form
      <3> QED
        BY <3>1, <3>2
    <2>2. cooling' \in [Phones -> 0..Wait]
      BY <1>9 DEF Tick, Typed, TypeOK
    <2> QED
      BY <1>9, <2>1, <2>2 DEF Tick, Typed, TypeOK, Counted, CallsHavePhones, FlowIsKnown
  <1>10. CASE StaysOut
    <2>1. PICK c \in calls, n \in Call :
            /\ n.op = c.op /\ n.phone = c.phone /\ n.code = c.code /\ n.number = c.number
            /\ n.answer = "endless" /\ calls' = (calls \ {c}) \cup {n}
      BY <1>10, StayingOut
    <2>2. ~setting.smooth /\ UNCHANGED <<setting, page, form, server, submits>>
      BY <1>10, StayingOut
    <2> QED
      BY <2>1, <2>2 DEF Typed, TypeOK, Counted, CallsHavePhones, FlowIsKnown
  <1> QED
    BY <1>1, <1>2, <1>3, <1>4, <1>5, <1>6, <1>7, <1>8, <1>9, <1>10, Shapes

\* The first states are well typed.
LEMMA TypedInit ==
  ASSUME Init
  PROVE  Typed
  <1>1. page \in Page
    BY SettingsAssumption DEF Init, NewPage, Page, Setting
  <1>2. cooling \in [Phones -> 0..Wait] /\ texted \in [login: SUBSET Phones, reset: SUBSET Phones]
    BY BoundsAssumption DEF Init
  <1>3. TypeOK
    BY <1>1, <1>2, NewForms DEF Init, TypeOK
  <1> QED
    BY <1>3, NewForms, BoundsAssumption DEF Init, Typed, Counted, CallsHavePhones, FlowIsKnown

\* Every reachable state is well typed, whatever taps and answers come, for any numbers
\* and any bounds.
THEOREM Typing == Spec => []TypeOK
  <1>1. Typed => TypeOK
    BY DEF Typed
  <1> QED
    BY <1>1, TypedInit, TypedKept, PTL DEF Spec

-----------------------------------------------------------------------------
\* The screen of a code.

\* Every step keeps what the screen of a code asks for.
LEMMA CodeKept ==
  ASSUME Typed, CodeInv, [Next]_vars
  PROVE  CodeInv'
  <1> USE DEF CodeInv, ForgotIsAsked, CodeIsForThisPhone, server
  <1>1. CASE PageMoves
    BY <1>1 DEF PageMoves
  <1>2. CASE StartsAnew
    BY <1>2, NewForms DEF StartsAnew
  <1>3. CASE Mounts
    BY <1>3 DEF Mounts, NewCall
  <1>4. CASE Asks
    <2>1. PICK c \in Call : AsksFor(c)
      BY <1>4 DEF Asks
    <2>2. /\ form'.step = form.step /\ form'.flow = form.flow
          /\ form'.resetPhone = form.resetPhone
      BY <2>1 DEF AsksFor, Submit, Typed, TypeOK, Form
    <2> QED
      BY <2>1, <2>2 DEF AsksFor, Submit
  <1>5. CASE Chooses
    <2>1. PICK f \in Form :
            /\ Types(f)
            /\ \/ f.step \in {"form", "join", "reset"}
               \/ f.step = form.step /\ f.flow = form.flow /\ f.resetPhone = form.resetPhone
      BY <1>5 DEF Chooses
    <2> QED
      BY <2>1 DEF Types
  <1>6. CASE ChecksNumber
    <2>1. PICK p \in Phones \cup {Null} : CheckPreRegistered(p)
      BY <1>6 DEF ChecksNumber
    <2>2. /\ form'.step = form.step /\ form'.flow = form.flow
          /\ form'.resetPhone = form.resetPhone /\ texted' = texted
      BY <2>1 DEF CheckPreRegistered, Types, Typed, TypeOK, Form
    <2>3. \A c \in calls' : c \in calls \/ c.op = "pre"
      BY <2>1 DEF CheckPreRegistered, Types, NewCall
    <2> QED
      BY <2>2, <2>3
  <1>7. CASE Serves
    <2>1. PICK c \in calls, a \in {"ok", "no", "code"} :
            /\ Answered(c, a)
            /\ \/ c.op = "forgot" /\ ServeForgot(c)
               \/ c.op # "forgot" /\ UNCHANGED <<texted, cooling>>
            /\ form' = form
      BY <1>7 DEF Serves
    <2>2. /\ [c EXCEPT !.answer = a].op = c.op /\ [c EXCEPT !.answer = a].phone = c.phone
      BY DEF Typed, TypeOK, Call
    <2>3. /\ texted'.login = texted.login /\ texted.reset \subseteq texted'.reset
          /\ c.op = "forgot" => c.phone \in texted'.reset
      BY <2>1 DEF ServeForgot, Typed, TypeOK
    <2>4. \A d \in calls' : d \in calls \/ (d.op = c.op /\ d.phone = c.phone)
      BY <2>1, <2>2 DEF Answered
    <2> QED
      BY <2>1, <2>3, <2>4
  <1>8. CASE Heard
    <2>1. PICK c \in calls : \E f, next : Replies(c, f, next)
      BY <1>8, Answering DEF Heard
    <2>2. PICK f, next : Replies(c, f, next)
      BY <2>1
    <2>3. form' = f /\ calls' = (calls \ {c}) \cup next
      BY <2>2 DEF Replies, Hears
    <2> QED
      BY <2>2, <2>3 DEF Replies
  <1>9. CASE Tick
    <2>1. /\ form'.step = form.step /\ form'.flow = form.flow
          /\ form'.resetPhone = form.resetPhone
      BY <1>9 DEF Tick, Typed, TypeOK, Form
    <2> QED
      BY <1>9, <2>1 DEF Tick
  <1>10. CASE StaysOut
    <2>1. PICK c \in calls, n \in Call :
            /\ n.op = c.op /\ n.phone = c.phone /\ n.code = c.code /\ n.number = c.number
            /\ n.answer = "endless" /\ calls' = (calls \ {c}) \cup {n}
      BY <1>10, StayingOut
    <2>2. ~setting.smooth /\ UNCHANGED <<setting, page, form, server, submits>>
      BY <1>10, StayingOut
    <2> QED
      BY <2>1, <2>2
  <1> QED
    BY <1>1, <1>2, <1>3, <1>4, <1>5, <1>6, <1>7, <1>8, <1>9, <1>10, Shapes

\* The screen that asks for a code names a number a code was asked for, whatever was typed,
\* cancelled or begun anew while the call was under way (useAuthModel.ts:174-181, 488-519).
THEOREM CodeOfPhone == Spec => []CodeIsForThisPhone
  <1>1. Init => CodeInv
    BY NewForms DEF Init, CodeInv, ForgotIsAsked, CodeIsForThisPhone
  <1>2. CodeInv => CodeIsForThisPhone
    BY DEF CodeInv
  <1> QED
    BY <1>1, <1>2, TypedInit, TypedKept, CodeKept, PTL DEF Spec

-----------------------------------------------------------------------------
\* Sending a reset code again.

\* The form keeps its number and its countdown, and the server nothing new.
LEMMA SameWait ==
  ASSUME WaitCovers, setting' = setting, cooling' = cooling,
         form'.step # "reset-code"
           \/ (form'.step = form.step /\ form'.resetPhone = form.resetPhone
               /\ form'.wait = form.wait),
         setting.smooth => \A c \in calls : c.op = "forgot" /\ c.answer = "ok" => c \in calls'
  PROVE  WaitCovers'
  BY DEF WaitCovers

\* An answer starts the countdown anew, or leaves number and countdown alone.
LEMMA ResendHearing ==
  ASSUME Typed, ResendInv, NEW c \in calls, NEW f, NEW next, Replies(c, f, next)
  PROVE  ResendInv'
  <1>1. /\ form' = f /\ calls' = (calls \ {c}) \cup next
        /\ setting' = setting /\ page' = page /\ cooling' = cooling
    BY DEF Replies, Hears
  <1>2. NotMounted'
    BY <1>1 DEF ResendInv, NotMounted
  <1>3. OneAtATime'
    <2>1. ASSUME NEW d \in calls', Awaited(d), page.invite PROVE d.op # "forgot"
      BY <1>1, <2>1 DEF ResendInv, OneAtATime, Replies
    <2>2. ASSUME NEW d \in calls', Awaited(d), ~page.invite
          PROVE  f.busy /\ \A e \in calls' : Awaited(e) => e = d
      <3>1. CASE Awaited(c)
        <4>1. form.busy /\ \A e \in calls : Awaited(e) => e = c
          BY <2>2, <3>1 DEF ResendInv, OneAtATime
        <4>2. \A e \in calls' : Awaited(e) => e \in next
          BY <1>1, <4>1
        <4>3. d \in next
          BY <2>2, <4>2
        <4>4. PICK n : next = {n} /\ (Awaited(n) => f.busy \/ f.busy = form.busy)
          BY <4>3 DEF Replies
        <4> QED
          BY <2>2, <4>1, <4>2, <4>3, <4>4
      <3>2. CASE ~Awaited(c)
        <4>1. f.busy = form.busy /\ next = {}
          BY <3>2 DEF Replies
        <4> QED
          BY <1>1, <2>2, <4>1 DEF ResendInv, OneAtATime
      <3> QED
        BY <3>1, <3>2
    <2> QED
      BY <1>1, <2>1, <2>2 DEF OneAtATime, Awaited
  <1>4. WaitCovers'
    <2>1. CASE c.op = "forgot" /\ f.step = "reset-code" /\ f.resetPhone = c.phone /\ f.wait = Wait
      <3>1. c.phone \in Phones /\ cooling[c.phone] \in 0..Wait
        BY <2>1 DEF Typed, TypeOK, CallsHavePhones
      <3> QED
        BY <1>1, <2>1, <3>1, BoundsAssumption DEF WaitCovers
    <2>2. CASE /\ f.step = form.step /\ f.resetPhone = form.resetPhone /\ f.wait = form.wait
               /\ setting.smooth => c.op # "forgot"
      BY <1>1, <2>2, SameWait DEF ResendInv
    <2>3. CASE f.step \in {"form", "pending", "otp"}
      BY <1>1, <2>3 DEF WaitCovers
    <2> QED
      BY <2>1, <2>2, <2>3 DEF Replies
  <1>5. ResendIsHeard'
    BY <1>1 DEF ResendInv, ResendIsHeard, Replies
  <1> QED
    BY <1>2, <1>3, <1>4, <1>5 DEF ResendInv

\* Only the request for a code starts the cool-down, and its answer the countdown.
LEMMA ResendServes ==
  ASSUME Typed, ResendInv, Serves
  PROVE  ResendInv'
  <1>1. PICK c \in calls, a \in {"ok", "no", "code"} :
          /\ c.answer = "none" /\ Answered(c, a)
          /\ \/ c.op = "forgot" /\ ServeForgot(c)
             \/ c.op # "forgot" /\ UNCHANGED <<texted, cooling>>
          /\ UNCHANGED <<setting, page, form>>
    BY DEF Serves
  <1> DEFINE n == [c EXCEPT !.answer = a]
  <1>2. n.op = c.op /\ n.phone = c.phone /\ n.code = c.code /\ n.answer = a
    BY DEF Typed, TypeOK, Call
  <1>3. calls' = (calls \ {c}) \cup {n}
    BY <1>1 DEF Answered
  <1> HIDE DEF n
  <1>4. Awaited(n) <=> Awaited(c)
    BY <1>2 DEF Awaited
  <1>5. NotMounted'
    BY <1>1 DEF ResendInv, NotMounted
  <1>6. OneAtATime'
    <2>1. ASSUME NEW d \in calls', Awaited(d), page.invite PROVE d.op # "forgot"
      BY <1>2, <1>3, <1>4, <2>1 DEF ResendInv, OneAtATime
    <2>2. ASSUME NEW d \in calls', Awaited(d), NEW e \in calls', Awaited(e), ~page.invite
          PROVE  form.busy /\ e = d
      BY <1>3, <1>4, <2>2 DEF ResendInv, OneAtATime
    <2> QED
      BY <1>1, <2>1, <2>2 DEF OneAtATime, Awaited
  <1>7. CASE c.op = "forgot"
    <2> DEFINE m == [c EXCEPT !.answer = "ok"]
    <2>1. m.op = "forgot" /\ m.answer = "ok"
      BY <1>7 DEF Typed, TypeOK, Call
    <2>2. calls' = (calls \ {c}) \cup {m}
      BY <1>1, <1>7 DEF ServeForgot, Answered
    <2> HIDE DEF m
    <2>3. WaitCovers'
      BY <2>1, <2>2 DEF WaitCovers
    <2>4. ~page.invite /\ \A d \in calls : d.op = "forgot" => d = c
      BY <1>7 DEF ResendInv, OneAtATime, Awaited, Asking
    <2>5. ResendIsHeard'
      BY <1>1, <2>1, <2>2, <2>4 DEF ResendIsHeard
    <2> QED
      BY <1>5, <1>6, <2>3, <2>5 DEF ResendInv
  <1>8. CASE c.op # "forgot"
    <2>1. WaitCovers'
      BY <1>1, <1>3, <1>8, SameWait DEF ResendInv
    <2>2. ResendIsHeard'
      BY <1>1, <1>2, <1>3, <1>8 DEF ResendInv, ResendIsHeard
    <2> QED
      BY <1>5, <1>6, <2>1, <2>2 DEF ResendInv
  <1> QED
    BY <1>7, <1>8

\* A button is open only while no submit is under way.
LEMMA ResendAsks ==
  ASSUME Typed, ResendInv, NEW c \in Call, AsksFor(c)
  PROVE  ResendInv'
  <1>1. /\ calls' = calls \cup {c} /\ page' = page /\ setting' = setting /\ cooling' = cooling
        /\ page.form /\ (page.invite \/ ~form.busy) /\ c.answer = "none" /\ Awaited(c)
    BY DEF AsksFor, Submit, server, Awaited
  <1>2. /\ form'.busy /\ form'.step = form.step /\ form'.wait = form.wait
        /\ form'.resetPhone = form.resetPhone
    BY DEF AsksFor, Submit, Typed, TypeOK, Form
  <1>3. ~page.invite => \A d \in calls : ~Awaited(d)
    BY <1>1 DEF ResendInv, OneAtATime
  <1>4. OneAtATime'
    <2>1. ASSUME NEW d \in calls', Awaited(d), page.invite PROVE d.op # "forgot"
      BY <1>1, <2>1 DEF ResendInv, OneAtATime, AsksFor
    <2>2. ASSUME NEW d \in calls', Awaited(d), NEW e \in calls', Awaited(e), ~page.invite
          PROVE  e = d
      BY <1>1, <1>3, <2>2
    <2> QED
      BY <1>1, <1>2, <2>1, <2>2 DEF OneAtATime, Awaited
  <1>5. WaitCovers'
    BY <1>1, <1>2, SameWait DEF ResendInv
  <1>6. ResendIsHeard'
    <2>1. ASSUME setting.smooth, c.op = "forgot", c.resend PROVE cooling[c.phone] = 0
      <3>1. /\ ~page.invite /\ form.step = "reset-code" /\ form.wait = 0
            /\ c.phone = form.resetPhone
        BY <2>1 DEF AsksFor
      <3>2. ~\E d \in calls : d.op = "forgot" /\ d.answer = "ok"
        BY <1>3, <3>1 DEF Awaited, Asking
      <3>3. c.phone \in Phones /\ cooling[c.phone] <= 0
        BY <2>1, <3>1, <3>2 DEF ResendInv, WaitCovers
      <3>4. cooling[c.phone] \in 0..Wait
        BY <3>3 DEF Typed, TypeOK
      <3> QED
        BY <3>3, <3>4, BoundsAssumption
    <2> QED
      BY <1>1, <2>1 DEF ResendInv, ResendIsHeard
  <1> QED
    BY <1>1, <1>4, <1>5, <1>6 DEF ResendInv, NotMounted

\* Every step keeps the countdown ahead of the cool-down.
LEMMA ResendKept ==
  ASSUME Typed, ResendInv, [Next]_vars
  PROVE  ResendInv'
  <1> USE DEF server
  <1>1. CASE PageMoves
    BY <1>1
    DEF PageMoves, ResendInv, NotMounted, OneAtATime, Awaited, WaitCovers, ResendIsHeard
  <1>2. CASE StartsAnew
    BY <1>2, NewForms
    DEF StartsAnew, ResendInv, NotMounted, OneAtATime, WaitCovers, ResendIsHeard
  <1>3. CASE Mounts
    <2>1. form.step = "form" /\ form' = form
      BY <1>3, NewForms DEF Mounts, ResendInv, NotMounted
    <2>2. \A c \in calls' : c.op = "config"
      BY <1>3 DEF Mounts, NewCall
    <2> QED
      BY <1>3, <2>1, <2>2
      DEF Mounts, ResendInv, NotMounted, OneAtATime, Awaited, Asking, WaitCovers, ResendIsHeard
  <1>4. CASE Asks
    BY <1>4, ResendAsks DEF Asks
  <1>5. CASE Chooses
    <2>1. PICK f \in Form :
            /\ f.busy = form.busy /\ f.wait = form.wait /\ page.form
            /\ \/ f.step \in {"form", "join", "reset"}
               \/ f.step = form.step /\ f.resetPhone = form.resetPhone
            /\ Types(f)
      BY <1>5 DEF Chooses
    <2>2. WaitCovers'
      BY <2>1, SameWait DEF Types, ResendInv
    <2> QED
      BY <2>1, <2>2 DEF Types, ResendInv, NotMounted, OneAtATime, Awaited, ResendIsHeard
  <1>6. CASE ChecksNumber
    <2>1. PICK p \in Phones \cup {Null} : CheckPreRegistered(p)
      BY <1>6 DEF ChecksNumber
    <2>2. /\ form'.step = form.step /\ form'.wait = form.wait /\ form'.busy = form.busy
          /\ form'.resetPhone = form.resetPhone
      BY <2>1 DEF CheckPreRegistered, Types, Typed, TypeOK, Form
    <2>3. /\ page' = page /\ page.form /\ setting' = setting /\ cooling' = cooling
          /\ calls \subseteq calls' /\ \A c \in calls' : c \in calls \/ c.op = "pre"
      BY <1>6, <2>1 DEF ChecksNumber, CheckPreRegistered, Types, NewCall
    <2>4. WaitCovers'
      BY <2>2, <2>3, SameWait DEF ResendInv
    <2> QED
      BY <2>2, <2>3, <2>4
      DEF ResendInv, NotMounted, OneAtATime, Awaited, Asking, ResendIsHeard
  <1>7. CASE Serves
    BY <1>7, ResendServes
  <1>8. CASE Heard
    <2>1. PICK c \in calls : \E f, next : Replies(c, f, next)
      BY <1>8, Answering DEF Heard
    <2>2. PICK f, next : Replies(c, f, next)
      BY <2>1
    <2> QED
      BY <2>2, ResendHearing
  <1>9. CASE Tick
    <2>1. /\ form.step = form'.step /\ form'.busy = form.busy
          /\ form'.resetPhone = form.resetPhone
          /\ form.wait \in 0..Wait
          /\ form'.wait = form.wait \/ (form.wait # 0 /\ form'.wait = form.wait - 1)
      BY <1>9 DEF Tick, Typed, TypeOK, Form
    <2>2. /\ page' = page /\ setting' = setting /\ calls' = calls
          /\ cooling \in [Phones -> 0..Wait]
          /\ cooling' = [p \in Phones |-> IF cooling[p] = 0 THEN 0 ELSE cooling[p] - 1]
      BY <1>9 DEF Tick, Typed, TypeOK
    <2>3. WaitCovers'
      BY <2>1, <2>2, BoundsAssumption DEF ResendInv, WaitCovers
    <2>4. ResendIsHeard'
      <3>1. ASSUME NEW c \in calls, c.op = "forgot" PROVE c.phone \in Phones
        BY <3>1 DEF Typed, CallsHavePhones
      <3> QED
        BY <2>2, <3>1 DEF ResendInv, ResendIsHeard
    <2>5. NotMounted'
      <3>1. ASSUME ~page.form PROVE form' = form
        <4>1. form.wait = 0
          BY <3>1 DEF ResendInv, NotMounted, NewForm
        <4> QED
          BY <1>9, <4>1 DEF Tick
      <3> QED
        BY <2>2, <3>1 DEF ResendInv, NotMounted
    <2> QED
      BY <2>1, <2>2, <2>3, <2>4, <2>5 DEF ResendInv, OneAtATime, Awaited
  <1>10. CASE StaysOut
    <2>1. PICK c \in calls, n \in Call :
            /\ n.op = c.op /\ n.phone = c.phone /\ n.code = c.code /\ n.number = c.number
            /\ n.answer = "endless" /\ calls' = (calls \ {c}) \cup {n}
      BY <1>10, StayingOut
    <2>2. ~setting.smooth /\ UNCHANGED <<setting, page, form, server, submits>>
      BY <1>10, StayingOut
    <2>3. NotMounted'
      BY <2>1, <2>2 DEF ResendInv, NotMounted
    <2>4. OneAtATime'
      <3>1. Awaited(n) <=> Awaited(c)
        BY <2>1 DEF Awaited
      <3>2. ASSUME NEW d \in calls', Awaited(d), page.invite PROVE d.op # "forgot"
        BY <2>1, <3>1, <3>2 DEF ResendInv, OneAtATime
      <3>3. ASSUME NEW d \in calls', Awaited(d), NEW e \in calls', Awaited(e), ~page.invite
            PROVE  form.busy /\ e = d
        BY <2>1, <3>1, <3>3 DEF ResendInv, OneAtATime
      <3> QED
        BY <2>2, <3>2, <3>3 DEF OneAtATime, Awaited
    <2> QED
      BY <2>2, <2>3, <2>4 DEF ResendInv, WaitCovers, ResendIsHeard
  <1> QED
    BY <1>1, <1>2, <1>3, <1>4, <1>5, <1>6, <1>7, <1>8, <1>9, <1>10, Shapes

\* Where calls do not fail, "send again" is never swallowed by the silent cool-down of the
\* server, however late the countdown of the page runs (useAuthModel.ts:110-114, 505-512).
THEOREM ResendIsSent == Spec => []ResendIsHeard
  <1>1. Init => ResendInv
    BY NewForms
    DEF Init, NewPage, ResendInv, NotMounted, OneAtATime, WaitCovers, ResendIsHeard
  <1>2. ResendInv => ResendIsHeard
    BY DEF ResendInv
  <1> QED
    BY <1>1, <1>2, TypedInit, TypedKept, ResendKept, PTL DEF Spec


-----------------------------------------------------------------------------
\* The family a form is locked to.

\* The answer to the last check is the last one heard.
LEMMA LockHearing ==
  ASSUME Typed, LockInv, NEW c \in calls, NEW f, NEW next, Replies(c, f, next)
  PROVE  LockInv'
  <1>1. /\ form' = f /\ calls' = (calls \ {c}) \cup next
        /\ setting' = setting /\ page' = page /\ submits' = submits
        /\ \A n \in next : n.op # "pre"
        /\ f.regPhone = form.regPhone /\ f.preRegCheck = form.preRegCheck
    BY DEF Replies, Hears
  <1>2. NotMounted'
    BY <1>1 DEF LockInv, NotMounted
  <1>3. \A d \in calls' : d.op = "pre" => d \in calls /\ d # c
    BY <1>1
  <1>4. ChecksDiffer'
    BY <1>1, <1>3 DEF LockInv, ChecksDiffer
  <1>5. ASSUME setting.smooth, c.op # "pre" PROVE LastCheckCounts'
    <2>1. \A d : d.op = "pre" => (d \in calls <=> d \in calls')
      BY <1>1, <1>5
    <2>2. f.preReg = form.preReg
      BY <1>5 DEF Replies
    <2> QED
      BY <1>1, <1>5, <2>1, <2>2 DEF LockInv, LastCheckCounts
  <1>6. ASSUME setting.smooth, c.op = "pre" PROVE LastCheckCounts'
    <2>1. f.preReg \in {c.phone, Null} /\ \A d \in calls : d.op = "pre" => d.number >= c.number
      BY <1>6 DEF Replies
    <2>2. PICK m \in calls : /\ m.op = "pre" /\ m.phone = form.preRegCheck
                             /\ \A d \in calls : d.op = "pre" => d.number <= m.number
      BY <1>6 DEF LockInv, LastCheckCounts
    <2>3. \A d \in calls : d.number \in Nat
      BY BoundsAssumption DEF Typed, TypeOK, Call
    <2>4. CASE m = c
      <3>1. \A d \in calls : d.op = "pre" => d.number = c.number
        BY <2>1, <2>2, <2>3, <2>4
      <3>2. \A d \in calls : d.op = "pre" => d = c
        BY <1>6, <3>1 DEF LockInv, ChecksDiffer
      <3>3. ~\E d \in calls' : d.op = "pre"
        BY <1>3, <3>2
      <3> QED
        BY <1>1, <1>6, <2>1, <2>2, <2>4, <3>3 DEF LockInv, LastCheckCounts
    <2>5. CASE m # c
      <3>1. m \in calls' /\ \A d \in calls' : d.op = "pre" => d.number <= m.number
        BY <1>1, <1>3, <2>2, <2>5
      <3> QED
        BY <1>1, <1>6, <2>2, <3>1 DEF LockInv, LastCheckCounts
    <2> QED
      BY <2>4, <2>5
  <1>7. ~setting.smooth => LastCheckCounts'
    BY <1>1 DEF LastCheckCounts
  <1> QED
    BY <1>2, <1>4, <1>5, <1>6, <1>7 DEF LockInv

\* A check that is answered stays the check it was.
LEMMA LockServes ==
  ASSUME Typed, LockInv, Serves
  PROVE  LockInv'
  <1>1. PICK c \in calls, a \in {"ok", "no", "code"} :
          Answered(c, a) /\ UNCHANGED <<setting, page, form, submits>>
    BY DEF Serves
  <1> DEFINE n == [c EXCEPT !.answer = a]
  <1>2. n.op = c.op /\ n.phone = c.phone /\ n.number = c.number
    BY DEF Typed, TypeOK, Call
  <1>3. calls' = (calls \ {c}) \cup {n}
    BY <1>1 DEF Answered
  <1> HIDE DEF n
  <1>4. NotMounted'
    BY <1>1 DEF LockInv, NotMounted
  <1>5. ChecksDiffer'
    <2>1. ASSUME NEW d \in calls', d.op = "pre" PROVE d.number < submits
      BY <1>2, <1>3, <2>1 DEF LockInv, ChecksDiffer
    <2>2. ASSUME NEW d \in calls', NEW e \in calls', d.op = "pre", e.op = "pre",
                 d.number = e.number
          PROVE  d = e
      BY <1>2, <1>3, <2>2 DEF LockInv, ChecksDiffer
    <2> QED
      BY <1>1, <2>1, <2>2 DEF ChecksDiffer
  <1>6. ASSUME setting.smooth PROVE LastCheckCounts'
    <2>1. CASE \E m \in calls : /\ m.op = "pre" /\ m.phone = form.preRegCheck
                                /\ \A d \in calls : d.op = "pre" => d.number <= m.number
      <3>1. PICK m \in calls : /\ m.op = "pre" /\ m.phone = form.preRegCheck
                               /\ \A d \in calls : d.op = "pre" => d.number <= m.number
        BY <2>1
      <3>2. \A d \in calls' : d.op = "pre" => d.number <= m.number
        BY <1>2, <1>3, <3>1
      <3>3. \E l \in calls' : l.op = "pre" /\ l.phone = m.phone /\ l.number = m.number
        BY <1>2, <1>3, <3>1
      <3> QED
        BY <1>1, <1>6, <3>1, <3>2, <3>3 DEF LockInv, LastCheckCounts
    <2>2. CASE ~\E m \in calls : m.op = "pre"
      <3>1. ~\E m \in calls' : m.op = "pre"
        BY <1>2, <1>3, <2>2
      <3> QED
        BY <1>1, <1>6, <2>2, <3>1 DEF LockInv, LastCheckCounts
    <2> QED
      BY <1>6, <2>1, <2>2 DEF LockInv, LastCheckCounts
  <1>7. ~setting.smooth => LastCheckCounts'
    BY <1>1 DEF LastCheckCounts
  <1> QED
    BY <1>4, <1>5, <1>6, <1>7 DEF LockInv

\* A number is typed: where it is checked, that check is the last.
LEMMA LockChecksNumber ==
  ASSUME Typed, LockInv, page.form, NEW p \in Phones \cup {Null}, CheckPreRegistered(p)
  PROVE  LockInv'
  <1>1. form \in Form /\ submits \in Nat /\ \A d \in calls : d.number \in Nat
    BY BoundsAssumption DEF Typed, TypeOK, Counted, Call
  <1>2. CASE p \in {Null, form.preRegCheck}
    <2>1. /\ form'.regPhone = p /\ form'.preRegCheck = form.preRegCheck
          /\ form'.preReg = form.preReg
      BY <1>1, <1>2 DEF CheckPreRegistered, Types, Form
    <2>2. UNCHANGED <<setting, page, calls, submits>>
      BY <1>2 DEF CheckPreRegistered, Types
    <2> QED
      BY <1>2, <2>1, <2>2 DEF LockInv, NotMounted, ChecksDiffer, LastCheckCounts
  <1>3. CASE p \notin {Null, form.preRegCheck}
    <2> DEFINE b == NewCall("pre", "register", p)
               c == [b EXCEPT !.number = submits]
    <2>1. b \in Call /\ b.op = "pre" /\ b.phone = p
      BY NewCalls DEF Modes
    <2>2. c.op = "pre" /\ c.phone = p /\ c.number = submits
      <3> HIDE DEF b
      <3> QED
        BY <2>1 DEF Call
    <2>3. /\ form'.regPhone = p /\ form'.preRegCheck = p
          /\ calls' = calls \cup {c} /\ submits' = submits + 1
          /\ setting' = setting /\ page' = page
      BY <1>1, <1>3 DEF CheckPreRegistered, Form
    <2> HIDE DEF b, c
    <2>4. \A d \in calls : d.op = "pre" => d.number < submits
      BY DEF LockInv, ChecksDiffer
    <2>5. ChecksDiffer'
      <3>1. ASSUME NEW d \in calls', d.op = "pre" PROVE d.number < submits'
        BY <1>1, <2>2, <2>3, <2>4, <3>1
      <3>2. ASSUME NEW d \in calls', NEW e \in calls', d.op = "pre", e.op = "pre",
                   d.number = e.number
            PROVE  d = e
        BY <1>1, <2>2, <2>3, <2>4, <3>2 DEF LockInv, ChecksDiffer
      <3> QED
        BY <3>1, <3>2 DEF ChecksDiffer
    <2>6. LastCheckCounts'
      <3>1. c \in calls' /\ \A d \in calls' : d.op = "pre" => d.number <= c.number
        BY <1>1, <2>2, <2>3, <2>4
      <3> QED
        BY <2>2, <2>3, <3>1 DEF LastCheckCounts
    <2> QED
      BY <2>3, <2>5, <2>6 DEF LockInv, NotMounted
  <1> QED
    BY <1>2, <1>3

\* Every step keeps the last check the one that counts.
LEMMA LockKept ==
  ASSUME Typed, LockInv, [Next]_vars
  PROVE  LockInv'
  <1> USE DEF server
  <1>1. CASE PageMoves
    BY <1>1 DEF PageMoves, LockInv, NotMounted, ChecksDiffer, LastCheckCounts
  <1>2. CASE StartsAnew
    BY <1>2
    DEF StartsAnew, NewForm, LockInv, NotMounted, ChecksDiffer, LastCheckCounts
  <1>3. CASE Mounts
    <2>1. form' = form /\ form = NewForm
      BY <1>3 DEF Mounts, LockInv, NotMounted
    <2>2. \A c \in calls' : c.op = "config"
      BY <1>3 DEF Mounts, NewCall
    <2> QED
      BY <1>3, <2>1, <2>2
      DEF Mounts, NewForm, LockInv, NotMounted, ChecksDiffer, LastCheckCounts
  <1>4. CASE Asks
    <2>1. PICK c \in Call : AsksFor(c)
      BY <1>4 DEF Asks
    <2>2. /\ calls' = calls \cup {c} /\ c.op # "pre" /\ page' = page /\ page.form
          /\ setting' = setting /\ submits' = submits + 1
      BY <2>1 DEF AsksFor, Asking, Submit
    <2>3. /\ form'.regPhone = form.regPhone /\ form'.preRegCheck = form.preRegCheck
          /\ form'.preReg = form.preReg
      BY <2>1 DEF AsksFor, Submit, Typed, TypeOK, Form
    <2>4. ChecksDiffer'
      <3>1. submits \in Nat /\ \A d \in calls : d.number \in Nat
        BY BoundsAssumption DEF Typed, TypeOK, Counted, Call
      <3>2. \A d \in calls' : d.op = "pre" => d \in calls
        BY <2>2
      <3> QED
        BY <2>2, <3>1, <3>2 DEF LockInv, ChecksDiffer
    <2>5. LastCheckCounts'
      BY <2>2, <2>3 DEF LockInv, LastCheckCounts
    <2> QED
      BY <2>2, <2>4, <2>5 DEF LockInv, NotMounted
  <1>5. CASE Chooses
    BY <1>5 DEF Chooses, Types, LockInv, NotMounted, ChecksDiffer, LastCheckCounts
  <1>6. CASE ChecksNumber
    BY <1>6, LockChecksNumber DEF ChecksNumber
  <1>7. CASE Serves
    BY <1>7, LockServes
  <1>8. CASE Heard
    <2>1. PICK c \in calls : \E f, next : Replies(c, f, next)
      BY <1>8, Answering DEF Heard
    <2>2. PICK f, next : Replies(c, f, next)
      BY <2>1
    <2> QED
      BY <2>2, LockHearing
  <1>9. CASE Tick
    <2>1. /\ form'.regPhone = form.regPhone /\ form'.preRegCheck = form.preRegCheck
          /\ form'.preReg = form.preReg
      BY <1>9 DEF Tick, Typed, TypeOK, Form
    <2>2. NotMounted'
      <3>1. ASSUME ~page.form PROVE form' = form
        <4>1. form.wait = 0
          BY <3>1 DEF LockInv, NotMounted, NewForm
        <4> QED
          BY <1>9, <4>1 DEF Tick
      <3> QED
        BY <1>9, <3>1 DEF Tick, LockInv, NotMounted
    <2> QED
      BY <1>9, <2>1, <2>2 DEF Tick, LockInv, ChecksDiffer, LastCheckCounts
  <1>10. CASE StaysOut
    <2>1. PICK c \in calls, n \in Call :
            /\ n.op = c.op /\ n.phone = c.phone /\ n.code = c.code /\ n.number = c.number
            /\ n.answer = "endless" /\ calls' = (calls \ {c}) \cup {n}
      BY <1>10, StayingOut
    <2>2. ~setting.smooth /\ UNCHANGED <<setting, page, form, server, submits>>
      BY <1>10, StayingOut
    <2>3. NotMounted' /\ LastCheckCounts'
      BY <2>1, <2>2 DEF LockInv, NotMounted, LastCheckCounts
    <2>4. ChecksDiffer'
      <3>1. ASSUME NEW d \in calls', d.op = "pre" PROVE d.number < submits
        BY <2>1, <3>1 DEF LockInv, ChecksDiffer
      <3>2. ASSUME NEW d \in calls', NEW e \in calls', d.op = "pre", e.op = "pre",
                   d.number = e.number
            PROVE  d = e
        BY <2>1, <3>2 DEF LockInv, ChecksDiffer
      <3> QED
        BY <2>2, <3>1, <3>2 DEF ChecksDiffer
    <2> QED
      BY <2>3, <2>4 DEF LockInv
  <1> QED
    BY <1>1, <1>2, <1>3, <1>4, <1>5, <1>6, <1>7, <1>8, <1>9, <1>10, Shapes

\* Where the checks are answered, and in order, the family a form is locked to is that of
\* the number in it, however often the number was changed meanwhile (useAuthModel.ts:121-135).
THEOREM LockedFamily == Spec => []LockedToItsFamily
  <1>1. Init => LockInv
    BY DEF Init, NewPage, NewForm, LockInv, NotMounted, ChecksDiffer, LastCheckCounts
  <1>2. LockInv => LockedToItsFamily
    BY DEF LockInv, LastCheckCounts, LockedToItsFamily
  <1> QED
    BY <1>1, <1>2, TypedInit, TypedKept, LockKept, PTL DEF Spec
=============================================================================
