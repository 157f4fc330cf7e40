-------------------------------- MODULE SignIn -------------------------------
(***************************************************************************)
(* The way into the app on one page: the screens App.tsx chooses between,  *)
(* the introduction, and useAuthModel behind AuthFeature and               *)
(* InviteAcceptFeature: login, registration, invitation, joining by the    *)
(* code of a family, one-time codes and the forgotten password.            *)
(*                                                                         *)
(* Taps and typing come in between while a call is under way: `busy` closes *)
(* the submit buttons, never the ways back.  Text typed into a form is     *)
(* chosen at the tap, except the two numbers a late answer meets.  Saving  *)
(* the session that ends the way in is AppSession's.                       *)
(***************************************************************************)
EXTENDS Naturals, FiniteSets

CONSTANTS
  Phones,
  Introduced,  \* numbers a manager has put into a family, at first
  Settings,    \* the settings of server and network that are looked at
  Wait,        \* ticks between two reset codes, for the server and for the page
  MaxSubmits,  \* bound: calls started by taps
  MaxPages,    \* bound: page loads
  Null         \* no number, no flow, not known yet

ASSUME NullAssumption == Null \notin Phones

ASSUME BoundsAssumption == Wait \in Nat /\ MaxSubmits \in Nat

VARIABLES
  setting,                     \* fixed, see Setting
  page,                        \* the screens of App.tsx
  form,                        \* the state of useAuthModel
  calls,                       \* calls under way
  introduced, cooling,         \* the server: numbers still introduced, cool-downs
  texted,                      \* history: numbers a code was asked for, by purpose
  submits, pages               \* spent of the bounds

server == <<introduced, cooling, texted>>
vars == <<setting, page, form, calls, server, submits, pages>>

-----------------------------------------------------------------------------
\* The server wants codes; it can send reset codes; the page came by an
\* invitation; no call fails and checks of a number are answered in order.
Setting == [otp: BOOLEAN, reset: BOOLEAN, invited: BOOLEAN, smooth: BOOLEAN]

ASSUME SettingsAssumption == Settings \subseteq Setting

Modes == {"login", "register", "invite", "join"}
Flow == [mode: Modes, phone: Phones]
Steps == {"form", "otp", "pending", "join", "reset", "reset-code"}

Form == [step: Steps, flow: Flow \cup {Null}, busy: BOOLEAN, otp: BOOLEAN \cup {Null},
         forgot: BOOLEAN, resetPhone: Phones \cup {Null}, resetPassword: BOOLEAN,
         wait: 0..Wait, regPhone: Phones \cup {Null}, preReg: Phones \cup {Null},
         preRegCheck: Phones \cup {Null}]

\* seen: the introduction; index: its step; form: useAuthModel is mounted.
Page == [install: BOOLEAN, invite: BOOLEAN, phase: {"boot", "auth", "ready"},
         seen: BOOLEAN, index: 0..2, draft: BOOLEAN, form: BOOLEAN]

\* code: with a one-time code, or going to ask for one; number: the order of starting,
\* where it matters.
Call == [op: {"config", "pre", "check", "enter", "otp", "forgot", "confirm", "finish"},
         mode: Modes, phone: Phones \cup {Null}, code: BOOLEAN,
         resend: BOOLEAN, answer: {"none", "ok", "no", "code", "endless"},
         number: 0..MaxSubmits]

NewForm ==
  [step |-> "form", flow |-> Null, busy |-> FALSE, otp |-> Null, forgot |-> FALSE,
   resetPhone |-> Null, resetPassword |-> FALSE, wait |-> 0,
   regPhone |-> Null, preReg |-> Null, preRegCheck |-> Null]

NewPage(invited, seen, draft, install) ==
  [install |-> install, invite |-> invited, phase |-> "boot", seen |-> seen, index |-> 0,
   draft |-> draft, form |-> FALSE]

NewCall(op, mode, phone) ==
  [op |-> op, mode |-> mode, phone |-> phone, code |-> FALSE,
   resend |-> FALSE, answer |-> "none", number |-> 0]

Init ==
  /\ setting \in Settings
  /\ \E install, seen \in BOOLEAN : page = NewPage(setting.invited, seen, FALSE, install)
  /\ form = NewForm /\ calls = {}
  /\ introduced = Introduced
  /\ cooling = [p \in Phones |-> 0]
  /\ texted = [login |-> {}, reset |-> {}]
  /\ submits = 0 /\ pages = 1

-----------------------------------------------------------------------------
\* App.content: what is shown, in the order it is decided.
Screen ==
  IF page.install /\ ~page.invite THEN "install"
  ELSE IF page.phase = "boot" THEN "boot"
  ELSE IF page.phase = "ready" THEN "main"
  ELSE IF page.invite THEN "invite"
  ELSE IF ~page.seen THEN "intro"
  ELSE "auth"

At(step) == Screen = "auth" /\ page.form /\ form.step = step

\* The prompt to install the app goes when it is skipped, for this page, or obeyed.
LeaveInstall ==
  /\ page' = [page EXCEPT !.install = FALSE]
  /\ UNCHANGED <<setting, form, calls, server, submits, pages>>

\* No session is found.
Booted ==
  /\ page.phase = "boot" /\ page' = [page EXCEPT !.phase = "auth"]
  /\ UNCHANGED <<setting, form, calls, server, submits, pages>>

\* The model of the form mounts with its screen and asks for the public configuration.
Mounted ==
  /\ Screen \in {"auth", "invite"} /\ ~page.form /\ page' = [page EXCEPT !.form = TRUE]
  /\ calls' = {NewCall("config", "login", Null)}
  /\ UNCHANGED <<setting, form, server, submits, pages>>

\* useOnboardingModel: three steps, the last of which keeps a draft and opens the
\* form of registration; login and skip end the introduction.
IntroNext ==
  /\ page' = IF page.index = 2 THEN [page EXCEPT !.seen = TRUE, !.index = 0, !.draft = TRUE]
             ELSE [page EXCEPT !.index = @ + 1]
  /\ UNCHANGED <<setting, form, calls, server, submits, pages>>

IntroBack ==
  /\ page.index > 0
  /\ page' = [page EXCEPT !.index = @ - 1]
  /\ UNCHANGED <<setting, form, calls, server, submits, pages>>

IntroLeave ==
  /\ page' = [page EXCEPT !.seen = TRUE, !.index = 0]
  /\ UNCHANGED <<setting, form, calls, server, submits, pages>>

\* A reload, or the button of the invitation's waiting screen, which drops the token;
\* the prompt to install is back unless the app was installed.
Reload ==
  /\ page.phase # "ready" /\ pages < MaxPages /\ pages' = pages + 1
  /\ LET invited == page.invite /\ ~(Screen = "invite" /\ form.step = "pending")
     IN \E install \in BOOLEAN : page' = NewPage(invited, page.seen, page.draft, install)
  /\ form' = NewForm /\ calls' = {}
  /\ UNCHANGED <<setting, server, submits>>

\* useApplyIntroDraft: the first member whose page is ready gets the draft; it is
\* cleared whether or not the currency could be written.
ApplyDraft ==
  /\ page.phase = "ready" /\ page.draft
  /\ page' = [page EXCEPT !.draft = FALSE]
  /\ UNCHANGED <<setting, form, calls, server, submits, pages>>

-----------------------------------------------------------------------------
\* A submit: its button is closed while busy.
Submit(c, f) ==
  /\ submits < MaxSubmits /\ submits' = submits + 1
  /\ form' = [f EXCEPT !.busy = TRUE]
  /\ calls' = calls \cup {c}
  /\ UNCHANGED <<setting, page, server, pages>>

\* Typing and the ways back: no call.
Types(f) ==
  /\ form' = f
  /\ UNCHANGED <<setting, page, calls, server, submits, pages>>

\* Straight to the server unless it is known to want a code; a login asks first
\* whether the password is right, and keeps what was known at the tap.
FirstCall == IF form.otp = TRUE THEN "otp" ELSE "enter"

SubmitLogin(p) ==
  Submit([NewCall("check", "login", p) EXCEPT !.code = FirstCall = "otp"], form)

SubmitRegister ==
  /\ form.regPhone # Null
  /\ Submit(NewCall(FirstCall, "register", form.regPhone), form)

SubmitInvite(p) == Submit(NewCall(FirstCall, "invite", p), form)
SubmitJoinByCode(p) == Submit(NewCall(FirstCall, "join", p), form)

VerifyOtp ==
  LET c == NewCall("enter", form.flow.mode, form.flow.phone)
  IN Submit([c EXCEPT !.code = TRUE, !.number = submits], form)

ResendOtp == Submit(NewCall("otp", form.flow.mode, form.flow.phone), form)

SendResetCodeMutant(resend) ==  \* "send again" without its countdown
  /\ form.resetPhone # Null
  /\ Submit([NewCall("forgot", "login", form.resetPhone) EXCEPT !.resend = resend], form)

SendResetCode(resend) ==
  /\ form.resetPhone # Null /\ (resend => form.wait = 0)
  /\ Submit([NewCall("forgot", "login", form.resetPhone) EXCEPT !.resend = resend], form)

SubmitPasswordReset ==
  /\ form.resetPassword
  /\ Submit(NewCall("confirm", "login", form.resetPhone), form)

StartJoinByCode  == Types([form EXCEPT !.step = "join"])
CancelJoinByCode == Types([form EXCEPT !.step = "form"])

ResetOtp ==
  Types([form EXCEPT !.step = IF form.flow.mode = "join" THEN "join" ELSE "form"])

\* The number comes from the form of login.
StartPasswordReset(p) ==
  Types([form EXCEPT !.step = "reset", !.resetPhone = p, !.resetPassword = FALSE])

CancelPasswordReset == Types([form EXCEPT !.step = "form", !.resetPassword = FALSE])

TypeResetPhone(p) == p # form.resetPhone /\ Types([form EXCEPT !.resetPhone = p])

TypeResetPassword == ~form.resetPassword /\ Types([form EXCEPT !.resetPassword = TRUE])

\* Every change of the number of registration is checked, once in a row, when it is
\* a whole number.
CheckPreRegistered(p) ==
  /\ p # form.regPhone
  /\ IF p \in {Null, form.preRegCheck}
     THEN Types([form EXCEPT !.regPhone = p])
     ELSE /\ submits < MaxSubmits /\ submits' = submits + 1
          /\ form' = [form EXCEPT !.regPhone = p, !.preRegCheck = p]
          /\ calls' = calls \cup {[NewCall("pre", "register", p) EXCEPT !.number = submits]}
          /\ UNCHANGED <<setting, page, server, pages>>

-----------------------------------------------------------------------------
\* The server handles a call; one that changes nothing the model keeps is handled
\* where its answer is heard.
Answered(c, answer) == calls' = (calls \ {c}) \cup {[c EXCEPT !.answer = answer]}

ServePreRegistered(c) ==
  /\ c.op = "pre"
  /\ Answered(c, IF c.phone \in introduced THEN "ok" ELSE "no")
  /\ UNCHANGED server

\* request_reset says yes to everyone, and is silent in the cool-down.
ServeForgot(c) ==
  /\ c.op = "forgot"
  /\ Answered(c, "ok")
  /\ texted' = [texted EXCEPT !.reset = @ \cup {c.phone}]
  /\ cooling' = [cooling EXCEPT ![c.phone] = IF @ = 0 THEN Wait ELSE @]
  /\ UNCHANGED introduced

\* A call that enters without a code, or with a wrong one, where codes are wanted.
ServeRefuse(c) ==
  /\ c.op = "enter" /\ (c.code \/ ~setting.otp)
  /\ Answered(c, "no") /\ UNCHANGED server

ServeWantsCode(c) ==
  /\ c.op = "enter" /\ setting.otp /\ ~c.code
  /\ Answered(c, "code") /\ UNCHANGED server

ServeEnter(c) ==
  /\ c.op = "enter" /\ (setting.otp => c.code)
  /\ Answered(c, "ok")
  /\ introduced' = IF c.mode = "register" THEN introduced \ {c.phone} ELSE introduced
  /\ UNCHANGED <<cooling, texted>>

Serve(c) ==
  /\ c.answer = "none"
  /\ \/ ServePreRegistered(c) \/ ServeForgot(c)
     \/ ServeRefuse(c) \/ ServeWantsCode(c) \/ ServeEnter(c)
  /\ UNCHANGED <<setting, page, form, submits, pages>>

\* The calls a tap on a submit button leads to; the buttons are closed while it waits,
\* but not while what follows a code runs.
Asking == {"check", "enter", "otp", "forgot", "confirm"}
Awaited(c) == c.op \in Asking \/ (c.op = "finish" /\ ~c.code)

\* The headers of the answer end the timer of the call and its body does not come to an
\* end: nothing bounds that (restClient.ts:239-262).  Nobody hears of the call again.
BodyNeverEnds(c) ==
  /\ ~setting.smooth /\ Awaited(c)
  /\ c.op \in {"forgot", "enter"} => c.answer # "none"
  /\ Answered(c, "endless")
  /\ UNCHANGED <<setting, page, form, server, submits, pages>>

-----------------------------------------------------------------------------
\* The page hears of call c: it becomes f, and goes on with the call next, if any.
Hears(c, f, next) ==
  /\ form' = f
  /\ calls' = (calls \ {c}) \cup next
  /\ UNCHANGED <<setting, page, introduced, cooling, submits, pages>>

Idle == [form EXCEPT !.busy = FALSE]

GotConfig(c) ==
  /\ c.op = "config"
  /\ Hears(c, [form EXCEPT !.otp = setting.otp, !.forgot = setting.reset], {})
  /\ UNCHANGED texted

GotPreRegisteredMutant(c) ==  \* a number nobody introduced leaves the lock of the last one
  /\ c.op = "pre" /\ c.answer # "none"
  /\ setting.smooth => \A d \in calls : d.op = "pre" => d.number >= c.number
  /\ Hears(c, [form EXCEPT !.preReg = IF c.answer = "ok" THEN c.phone ELSE @], {})
  /\ UNCHANGED texted

\* Whatever number stands in the form by now.
GotPreRegistered(c) ==
  /\ c.op = "pre" /\ c.answer # "none"
  /\ setting.smooth => \A d \in calls : d.op = "pre" => d.number >= c.number
  /\ Hears(c, [form EXCEPT !.preReg = IF c.answer = "ok" THEN c.phone ELSE Null], {})
  /\ UNCHANGED texted

\* The password is right.
GotPasswordCheck(c) ==
  /\ c.op = "check"
  /\ Hears(c, form, {[c EXCEPT !.op = IF c.code THEN "otp" ELSE "enter", !.code = FALSE]})
  /\ UNCHANGED texted

\* The server wants a code after all: one is asked for.
WantsCode(c) ==
  /\ c.op = "enter" /\ ~c.code /\ c.answer = "code"
  /\ Hears(c, form, {[c EXCEPT !.op = "otp", !.answer = "none"]})
  /\ UNCHANGED texted

\* sendOtp: the screen of the code belongs to the flow just sent.
SentOtp(c) ==
  /\ c.op = "otp"
  /\ Hears(c, [Idle EXCEPT !.flow = [mode |-> c.mode, phone |-> c.phone], !.step = "otp"], {})
  /\ texted' = [texted EXCEPT !.login = @ \cup {c.phone}]

\* Login and registration save the session and finish; a code's screen is not busy
\* any more while finish() runs.
Entered(c) ==
  /\ c.op = "enter" /\ c.answer = "ok" /\ c.mode \in {"login", "register"}
  /\ Hears(c, [form EXCEPT !.busy = ~c.code], {[c EXCEPT !.op = "finish"]})
  /\ UNCHANGED texted

Finished(c) ==
  /\ c.op = "finish"
  /\ page' = [page EXCEPT !.phase = "ready", !.form = FALSE]
  /\ form' = NewForm /\ calls' = {}
  /\ UNCHANGED <<setting, server, submits, pages>>

\* markJoinPending: an invitation or a code of a family ends in waiting.
MarkJoinPending(c) ==
  /\ c.op = "enter" /\ c.answer = "ok" /\ c.mode \in {"invite", "join"}
  /\ Hears(c, [Idle EXCEPT !.step = "pending"], {})
  /\ UNCHANGED texted

SentResetCodeMutant(c) ==  \* the number typed by now stays
  /\ c.op = "forgot" /\ c.answer = "ok"
  /\ Hears(c, [Idle EXCEPT !.step = "reset-code", !.wait = Wait], {})
  /\ UNCHANGED texted

\* The number the code was asked for takes the place of what was typed.
SentResetCode(c) ==
  /\ c.op = "forgot" /\ c.answer = "ok"
  /\ Hears(c, [Idle EXCEPT !.resetPhone = c.phone, !.step = "reset-code", !.wait = Wait], {})
  /\ UNCHANGED texted

PasswordIsReset(c) ==
  /\ c.op = "confirm"
  /\ Hears(c, [Idle EXCEPT !.resetPassword = FALSE, !.wait = 0, !.step = "form"], {})
  /\ UNCHANGED texted

FailedMutant(c) ==  \* without the finally of the submit
  /\ \/ ~setting.smooth
     \/ c.op \in {"check", "otp", "confirm"}
     \/ c.op = "enter" /\ c.answer = "no"
  /\ Hears(c, IF c.op = "config" THEN [form EXCEPT !.otp = FALSE, !.forgot = FALSE] ELSE form, {})
  /\ UNCHANGED texted

\* A refusal, a network error or 15 seconds without an answer: a message, and the
\* same screen.  Only the configuration has a value for that.
Failed(c) ==
  /\ \/ ~setting.smooth
     \/ c.op \in {"check", "otp", "confirm"}
     \/ c.op = "enter" /\ c.answer = "no"
  /\ Hears(c, CASE c.op = "config" -> [form EXCEPT !.otp = FALSE, !.forgot = FALSE]
                [] Awaited(c)      -> Idle
                [] OTHER           -> form, {})
  /\ UNCHANGED texted

\* Time: the timer of the page may be late, as in a tab in the background.
Tick ==
  /\ form.wait > 0 \/ \E p \in Phones : cooling[p] > 0
  /\ cooling' = [p \in Phones |-> IF cooling[p] = 0 THEN 0 ELSE cooling[p] - 1]
  /\ \E late \in BOOLEAN :
       form' = IF late \/ form.wait = 0 THEN form ELSE [form EXCEPT !.wait = @ - 1]
  /\ UNCHANGED <<setting, page, calls, introduced, texted, submits, pages>>

-----------------------------------------------------------------------------
\* AuthFeature, a screen for each step of the form, with its buttons: a call under way
\* closes those that submit.
LoginForm ==
  /\ At("form")
  /\ \/ ~form.busy /\ \E p \in Phones : SubmitLogin(p)
     \/ form.forgot /\ \E p \in Phones : StartPasswordReset(p)
     \/ StartJoinByCode

RegisterForm ==
  /\ At("form")
  /\ \/ ~form.busy /\ SubmitRegister
     \/ \E p \in Phones \cup {Null} : CheckPreRegistered(p)

OtpScreen ==
  /\ At("otp")
  /\ \/ ~form.busy /\ (VerifyOtp \/ ResendOtp)
     \/ ResetOtp

JoinScreen ==
  /\ At("join")
  /\ \/ ~form.busy /\ \E p \in Phones : SubmitJoinByCode(p)
     \/ CancelJoinByCode

PendingScreen == At("pending") /\ CancelJoinByCode

ResetScreen ==
  /\ At("reset")
  /\ \/ ~form.busy /\ SendResetCode(FALSE)
     \/ \E p \in Phones : TypeResetPhone(p)
     \/ CancelPasswordReset

ResetCodeScreen ==
  /\ At("reset-code")
  /\ \/ ~form.busy /\ (SubmitPasswordReset \/ SendResetCode(TRUE))
     \/ TypeResetPassword \/ CancelPasswordReset

\* InviteAcceptFeature: the code is asked for below the form, by a button that is not closed.
InviteScreen ==
  /\ Screen = "invite" /\ page.form /\ form.step \in {"form", "otp"}
  /\ \/ ~form.busy /\ \E p \in Phones : SubmitInvite(p)
     \/ form.step = "otp" /\ VerifyOtp

InstallScreen == Screen = "install" /\ LeaveInstall
IntroScreen   == Screen = "intro" /\ (IntroNext \/ IntroBack \/ IntroLeave)

Taps ==
  \/ InstallScreen \/ IntroScreen \/ InviteScreen \/ Reload
  \/ LoginForm \/ RegisterForm \/ OtpScreen \/ JoinScreen \/ PendingScreen
  \/ ResetScreen \/ ResetCodeScreen

Hearing(c) ==
  /\ c.answer # "endless"
  /\ \/ GotConfig(c) \/ GotPreRegistered(c) \/ GotPasswordCheck(c) \/ WantsCode(c) \/ SentOtp(c)
     \/ Entered(c) \/ Finished(c) \/ MarkJoinPending(c) \/ SentResetCode(c) \/ PasswordIsReset(c)
     \/ Failed(c)

Answer(c) == Serve(c) \/ Hearing(c)
Answers == \E c \in calls : Answer(c)

Next ==
  \/ Booted \/ Mounted \/ ApplyDraft \/ Taps \/ Answers \/ Tick
  \/ \E c \in calls : BodyNeverEnds(c)

\* A call that a button awaits is given up after 15 seconds without headers
\* (restClient.ts:234-246), and heard if the body of its answer ends.  Nobody must tap.
Fairness == WF_vars(\E c \in calls : Awaited(c) /\ Answer(c))

Spec == Init /\ [][Next]_vars /\ Fairness

-----------------------------------------------------------------------------
TypeOK ==
  /\ setting \in Settings /\ page \in Page /\ form \in Form /\ calls \subseteq Call
  /\ introduced \subseteq Introduced /\ cooling \in [Phones -> 0..Wait]
  /\ texted \in [login: SUBSET Phones, reset: SUBSET Phones]

\* The screen that asks for a code names a number a code was asked for, whatever was
\* typed, cancelled or begun anew while the call was under way
\* (useAuthModel.ts:174-181, 488-519).
CodeIsForThisPhone ==
  /\ form.step = "otp" => form.flow.phone \in texted.login
  /\ form.step = "reset-code" => form.resetPhone \in texted.reset

\* "Send again" is never swallowed by the silent cool-down of the server, so that the
\* page does not claim a message that was not sent (useAuthModel.ts:110-114, 505-512).
ResendIsHeard ==
  setting.smooth =>
    \A c \in calls : c.op = "forgot" /\ c.resend /\ c.answer = "none" => cooling[c.phone] = 0

\* Where the checks are answered, and in order, the family a form is locked to is that
\* of the number in it (useAuthModel.ts:121-135).
LockedToItsFamily ==
  (setting.smooth /\ form.regPhone # Null /\ ~\E c \in calls : c.op = "pre") =>
    form.preReg \in {Null, form.regPhone}

\* The buttons open again: no call that is answered, refused or given up leaves the
\* form closed, only one that the form awaits and whose answer never ends.
BusyEnds == form.busy ~> ~form.busy \/ \E c \in calls : Awaited(c) /\ c.answer = "endless"
=============================================================================
