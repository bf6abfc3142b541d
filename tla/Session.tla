------------------------------ MODULE Session ------------------------------
(***************************************************************************)
(* Logging in, registering, starting up and logging out:                   *)
(*   lambda/lib/modules/agent/agent_util.dart   AgentUtil, one object      *)
(*   lib/core/viewmodels/user_model.dart        UserModel, a provider      *)
(*   lambda/lib/plugins/progress_dialog/...     the loading dialog         *)
(*   lib/ui/views/{init,home,login,register,settings}.dart                 *)
(* Functions suspend at answers of the server, delays, frames and calls of *)
(* the biometrics plugin.  main.dart replaces the preferences by an        *)
(* in-memory store, so an await on them runs on without any other event:   *)
(* it is no step of its own, and nothing outlives a restart.  AgentState's *)
(* status and user, written and never read, are left out; the remember-me  *)
(* switch and the credentials it keeps are in RememberMe.                  *)
(***************************************************************************)
EXTENDS Navigation, FiniteSets

CONSTANTS Accounts,    \* what the server may answer as the user
          None,        \* null
          Rejected,    \* an answer whose status is false, or fromError()
          Logins,      \* runs of AgentUtil.login
          Registers,   \* runs of doRegister
          Frame,       \* the callback that InitScreen runs after its first frame
          MaxDepth,    \* bound: routes the user piles up
          MaxWaiting,  \* bound: runs of initAuth that wait while the user goes on
          SystemBack   \* TRUE: the platform's back button dismisses dialogs

ASSUME SessionConstants ==
  /\ None \notin Accounts \cup Logins
  /\ Rejected \notin Accounts \cup {None}
  /\ {MaxDepth, MaxWaiting} \subseteq Nat /\ SystemBack \in BOOLEAN
  /\ Logins \cap Registers = {} /\ Frame \notin Logins \cup Registers

VARIABLES
  prefs,      \* the preferences is_auth and user
  prefsSet,   \* AgentUtil._prefs is not null
  response,   \* AgentUtil.response
  pr,         \* AgentUtil.pr: the login whose dialog it is, None before show()
  userModel,  \* UserModel._user
  nav,        \* the navigator
  checking,   \* an InitScreen waits for the end of its first frame
  openings,   \* how many LoginPages were pushed since the last frame
  initAuths,  \* how many runs of LoginPage.initAuth wait for the plugin
  login,      \* of each run of login: its stage and the account typed
  register,   \* of each run of doRegister: its stage
  r,          \* NetworkUtil's r: what its last parsed post was answered
  vouched,    \* history: accounts the server confirmed to this process
  fellBack    \* history: a post returned r without an answer of its own

agentVars == <<prefsSet, response, pr>>
pages == <<openings, initAuths>>
tasks == <<checking, pages, login, register>>
served == <<r, vouched, fellBack>>
vars == <<prefs, agentVars, userModel, nav, tasks, served>>

NoLogin == [stage |-> "idle", typed |-> None]
Running(stage) == stage \notin {"idle", "threw"}

\* A cold start: App.initState, then the route '/'.
Start == [stack |-> <<Route("init", {Frame})>>, leaving |-> {}]

Init ==
  /\ prefs = [auth |-> FALSE, user |-> None]
  /\ prefsSet = FALSE /\ response = None /\ pr = None
  /\ userModel = None
  /\ nav = Start /\ checking = TRUE
  /\ openings = 0 /\ initAuths = 0
  /\ login = [t \in Logins |-> NoLogin]
  /\ register = [g \in Registers |-> "idle"]
  /\ r = Rejected /\ vouched = {} /\ fellBack = FALSE

-----------------------------------------------------------------------------
(* The navigator and the screens that only navigate.                       *)

\* The user acts on what a frame has drawn, and not beyond the bounds.
Drawn == ~checking /\ openings = 0
Acts == Drawn /\ Len(nav.stack) <= MaxDepth /\ initAuths <= MaxWaiting
Deepen == Acts /\ Len(nav.stack) < MaxDepth

\* The next frame builds the LoginPages that were pushed; behind it their initAuth
\* creates a dialog object and asks the plugin.
LoginPagesBuilt ==
  /\ openings > 0
  /\ openings' = 0 /\ initAuths' = initAuths + openings
  /\ pr' = None
  /\ UNCHANGED <<prefs, prefsSet, response, userModel, nav, checking, login, register,
                 served>>

\* Mutant: only a user who is signed in leaves the splash.
MutCheckAuthOnly ==
  /\ checking
  /\ checking' = FALSE
  /\ IF ~HasPage(nav, Frame) \/ ~prefs.auth
     THEN UNCHANGED <<userModel, nav>>
     ELSE /\ nav' = Release(Replace(nav, Route("main", {})), Frame, {})
          /\ userModel' = prefs.user
  /\ UNCHANGED <<prefs, agentVars, pages, login, register, served>>

\* InitScreen's callback after its first frame: checkAuth and checkPermission.
CheckAuth ==
  /\ checking
  /\ checking' = FALSE
  /\ IF ~HasPage(nav, Frame) \/ (prefs.auth /\ prefs.user = None)
     THEN UNCHANGED <<userModel, nav>>
     ELSE /\ nav' = Release(Replace(nav, Route("main", {})), Frame, {})
          /\ userModel' = IF prefs.auth THEN prefs.user ELSE userModel
  /\ UNCHANGED <<prefs, agentVars, pages, login, register, served>>

\* The account icon of the home screen.  Its field _prefs is never assigned, so
\* the test of is_auth beside it never applies.
TapAccount ==
  /\ OnTop(nav, "main") /\ Deepen
  /\ IF userModel = None
     THEN nav' = Push(nav, Route("login", {})) /\ openings' = openings + 1
     ELSE nav' = Push(nav, Route("settings", {})) /\ UNCHANGED openings
  /\ UNCHANGED <<prefs, agentVars, userModel, checking, initAuths, login, register, served>>

\* The links of the LoginPage.  The page for a forgotten password only goes back:
\* the button on it has an empty handler.
TapLink ==
  /\ OnTop(nav, "login") /\ Deepen
  /\ \E page \in {"register", "recovery"} : nav' = Push(nav, Route(page, {}))
  /\ UNCHANGED <<prefs, agentVars, userModel, tasks, served>>

\* The back arrows of the pages, and where there is one the system's button.
Back ==
  /\ Len(nav.stack) > 1 /\ Drawn
  /\ SystemBack \/ ~OnTop(nav, "dialog")
  /\ nav' = Pop(nav)
  /\ UNCHANGED <<prefs, agentVars, userModel, tasks, served>>

TransitionEnds(route) ==
  /\ route \in nav.leaving
  /\ nav' = Unmount(nav, route)
  /\ UNCHANGED <<prefs, agentVars, userModel, tasks, served>>

-----------------------------------------------------------------------------
(* AgentUtil and the LoginPage.                                            *)

\* The plugin answers; init returns and loadAgentData runs.
InitAuthLoads ==
  /\ initAuths > 0
  /\ initAuths' = initAuths - 1
  /\ prefsSet' = TRUE
  /\ UNCHANGED <<prefs, response, pr, userModel, nav, checking, openings, login,
                 register, served>>

\* getAvailableBiometrics throws, and with it initAuth: nothing is loaded.
InitAuthThrows ==
  /\ initAuths > 0
  /\ initAuths' = initAuths - 1
  /\ UNCHANGED <<prefs, agentVars, userModel, nav, checking, openings, login, register,
                 served>>

\* Mutant: the dialog is a local variable, as it is in doRegister.
MutTapLoginLocal(t, a) ==
  /\ OnTop(nav, "login") /\ login[t].stage = "idle" /\ Acts
  /\ login' = [login EXCEPT ![t] = [stage |-> "posting", typed |-> a]]
  /\ nav' = Push(Hold(nav, t), Route("dialog", {t}))
  /\ UNCHANGED <<prefs, prefsSet, response, pr, userModel, checking, pages,
                 register, served>>

\* doLogin calls login, which shows its dialog and posts.
TapLogin(t, a) ==
  /\ OnTop(nav, "login") /\ login[t].stage = "idle" /\ Acts
  /\ login' = [login EXCEPT ![t] = [stage |-> "posting", typed |-> a]]
  /\ pr' = t
  /\ nav' = Push(Hold(nav, t), Route("dialog", {t}))
  /\ UNCHANGED <<prefs, prefsSet, response, userModel, checking, pages,
                 register, served>>

LoginAt(t, stage) == login' = [login EXCEPT ![t].stage = stage]
EndLogin(t, stage) == login' = [login EXCEPT ![t] = [NoLogin EXCEPT !.stage = stage]]

\* The server's answer to a post that speaks for account a: it confirms the
\* account or refuses, and r is that answer; or its status is another 2xx and r
\* is handed over as it is.
Confirmed(a) == r' = a /\ vouched' = vouched \cup {a} /\ UNCHANGED fellBack
Refused == r' = Rejected /\ UNCHANGED <<vouched, fellBack>>
FallenBack == fellBack' = TRUE /\ UNCHANGED <<r, vouched>>

\* Mutant: a refusal leaves the field response as it was.
MutAnswerStale(t) ==
  /\ login[t].stage = "posting"
  /\ \/ Confirmed(login[t].typed) /\ response' = r'
     \/ Refused /\ UNCHANGED response
     \/ FallenBack /\ response' = r'
  /\ LoginAt(t, "delay")
  /\ UNCHANGED <<prefs, prefsSet, pr, userModel, nav, checking, pages, register>>

\* The post returns and one second of delay begins.
LoginAnswered(t) ==
  /\ login[t].stage = "posting"
  /\ Confirmed(login[t].typed) \/ Refused \/ FallenBack
  /\ response' = r'
  /\ LoginAt(t, "delay")
  /\ UNCHANGED <<prefs, prefsSet, pr, userModel, nav, checking, pages, register>>

\* A 200 whose body is no object: post throws, and login with it.
LoginGarbled(t) ==
  /\ login[t].stage = "posting"
  /\ EndLogin(t, "threw")
  /\ UNCHANGED <<prefs, agentVars, userModel, nav, checking, pages,
                 register, served>>

\* Mutant: the status is not tested.
MutAcceptAny(t) ==
  /\ login[t].stage = "delay"
  /\ IF prefsSet
     THEN /\ prefs' = [auth |-> TRUE, user |-> response]
          /\ IF pr = None THEN EndLogin(t, "threw") ELSE LoginAt(t, "accepted")
     ELSE UNCHANGED prefs /\ EndLogin(t, "threw")
  /\ UNCHANGED <<agentVars, userModel, nav, checking, pages, register, served>>

\* Mutant: the account typed is stored, not the one of the answer.
MutAcceptTyped(t) ==
  /\ login[t].stage = "delay" /\ response \in Accounts
  /\ IF prefsSet
     THEN /\ prefs' = [auth |-> TRUE, user |-> login[t].typed]
          /\ IF pr = None THEN EndLogin(t, "threw") ELSE LoginAt(t, "accepted")
     ELSE UNCHANGED prefs /\ EndLogin(t, "threw")
  /\ UNCHANGED <<agentVars, userModel, nav, checking, pages, register, served>>

\* The status in the field response is true.  The writes go through _prefs, and
\* pr.update() to the dialog of the field pr.
AcceptLogin(t) ==
  /\ login[t].stage = "delay" /\ response \in Accounts
  /\ IF prefsSet
     THEN /\ prefs' = [auth |-> TRUE, user |-> response]
          /\ IF pr = None THEN EndLogin(t, "threw") ELSE LoginAt(t, "accepted")
     ELSE UNCHANGED prefs /\ EndLogin(t, "threw")
  /\ UNCHANGED <<agentVars, userModel, nav, checking, pages, register, served>>

RejectLogin(t) ==
  /\ login[t].stage = "delay" /\ response = Rejected
  /\ IF pr = None THEN EndLogin(t, "threw") ELSE LoginAt(t, "rejected")
  /\ UNCHANGED <<prefs, agentVars, userModel, nav, checking, pages, register,
                 served>>

\* pr.hide() throws unless the dialog of the field pr still has a navigator.
CanHide(run) == run # None /\ HasDialog(nav, run)

\* Mutant: doLogin shows the account of the field response.
MutFinishResponse(t) ==
  /\ login[t].stage = "accepted"
  /\ IF ~CanHide(pr)
     THEN EndLogin(t, "threw") /\ UNCHANGED <<nav, userModel>>
     ELSE /\ userModel' = response
          /\ nav' = Release(Replace(Pop(nav), Route("main", {})), t, {"dialog"})
          /\ EndLogin(t, "idle")
  /\ UNCHANGED <<prefs, agentVars, checking, pages, register, served>>

\* Mutant: doLogin does not set the user.
MutFinishShowsNobody(t) ==
  /\ login[t].stage = "accepted"
  /\ IF ~CanHide(pr)
     THEN EndLogin(t, "threw") /\ UNCHANGED nav
     ELSE /\ nav' = Release(Replace(Pop(nav), Route("main", {})), t, {"dialog"})
          /\ EndLogin(t, "idle")
  /\ UNCHANGED <<prefs, agentVars, userModel, checking, pages, register, served>>

\* One second later: hide() pops the top route; doLogin shows the account and
\* puts the home screen in the place of the route that is the top one now.
FinishLogin(t) ==
  /\ login[t].stage = "accepted"
  /\ IF ~CanHide(pr)
     THEN EndLogin(t, "threw") /\ UNCHANGED <<nav, userModel>>
     ELSE IF HasPage(Pop(nav), t)
     THEN /\ userModel' = prefs.user
          /\ nav' = Release(Replace(Pop(nav), Route("main", {})), t, {"dialog"})
          /\ EndLogin(t, "idle")
     ELSE /\ nav' = Pop(nav)
          /\ EndLogin(t, "threw")
          /\ UNCHANGED userModel
  /\ UNCHANGED <<prefs, agentVars, checking, pages, register, served>>

\* Mutant: the dialog stays after a refusal.
MutDismissNot(t) ==
  /\ login[t].stage = "rejected"
  /\ EndLogin(t, "idle")
  /\ UNCHANGED <<prefs, agentVars, userModel, nav, checking, pages, register, served>>

\* Mutant: the refusal waits for its dialog to be there.
MutDismissWaits(t) ==
  /\ login[t].stage = "rejected" /\ CanHide(pr)
  /\ nav' = Release(Pop(nav), t, {"dialog"}) /\ EndLogin(t, "idle")
  /\ UNCHANGED <<prefs, agentVars, userModel, checking, pages, register, served>>

\* Two seconds after a refusal.
DismissLogin(t) ==
  /\ login[t].stage = "rejected"
  /\ IF CanHide(pr) THEN nav' = Release(Pop(nav), t, {"dialog"}) /\ EndLogin(t, "idle")
                    ELSE UNCHANGED nav /\ EndLogin(t, "threw")
  /\ UNCHANGED <<prefs, agentVars, userModel, checking, pages, register, served>>

\* The settings screen: logout(), then the route '/' in its place.
TapLogout ==
  /\ OnTop(nav, "settings") /\ Drawn
  /\ prefsSet' = TRUE
  /\ prefs' = [prefs EXCEPT !.auth = FALSE]
  /\ nav' = Replace(nav, Route("init", {Frame}))
  /\ checking' = TRUE
  /\ UNCHANGED <<response, pr, userModel, pages, login, register, served>>

-----------------------------------------------------------------------------
(* RegisterPage.doRegister, with a dialog object of its own.               *)

RegisterAt(g, stage) == register' = [register EXCEPT ![g] = stage]

\* A delay of 300 ms comes before the dialog.
TapSubmit(g) ==
  /\ OnTop(nav, "register") /\ register[g] = "idle" /\ Acts
  /\ RegisterAt(g, "pause")
  /\ nav' = Hold(nav, g)
  /\ UNCHANGED <<prefs, agentVars, userModel, checking, pages, login, served>>

\* Mutant: the dialog waits for the form to be there.
MutShowWaits(g) ==
  /\ register[g] = "pause" /\ HasPage(nav, g)
  /\ nav' = Push(nav, Route("dialog", {g})) /\ RegisterAt(g, "posting")
  /\ UNCHANGED <<prefs, agentVars, userModel, checking, pages, login, served>>

\* showDialog pushes on the navigator that the page's context finds.
ShowRegister(g) ==
  /\ register[g] = "pause"
  /\ IF HasPage(nav, g)
     THEN nav' = Push(nav, Route("dialog", {g})) /\ RegisterAt(g, "posting")
     ELSE UNCHANGED nav /\ RegisterAt(g, "threw")
  /\ UNCHANGED <<prefs, agentVars, userModel, checking, pages, login, served>>

\* The answer's status is true, whoever's answer it is.
RegisterAccepted(g, a) ==
  /\ register[g] = "posting"
  /\ Confirmed(a) \/ (FallenBack /\ r = a)
  /\ IF HasPage(nav, g) THEN userModel' = a /\ RegisterAt(g, "accepted")
                        ELSE UNCHANGED userModel /\ RegisterAt(g, "threw")
  /\ UNCHANGED <<prefs, agentVars, nav, checking, pages, login>>

\* The answer's status is false, or its body is no object and post throws.
RegisterRefused(g) ==
  /\ register[g] = "posting"
  /\ \/ RegisterAt(g, "rejected") /\ (Refused \/ (FallenBack /\ r = Rejected))
     \/ RegisterAt(g, "threw") /\ UNCHANGED served
  /\ UNCHANGED <<prefs, agentVars, userModel, nav, checking, pages, login>>

\* hide(), and after a success the route '/login' in the place of the top one.
FinishRegister(g) ==
  /\ register[g] \in {"accepted", "rejected"}
  /\ IF ~CanHide(g)
     THEN RegisterAt(g, "threw") /\ UNCHANGED <<nav, openings>>
     ELSE IF register[g] = "accepted" /\ HasPage(Pop(nav), g)
     THEN /\ nav' = Release(Replace(Pop(nav), Route("login", {})), g, {})
          /\ openings' = openings + 1
          /\ RegisterAt(g, "idle")
     ELSE /\ nav' = Release(Pop(nav), g, {})
          /\ RegisterAt(g, IF register[g] = "rejected" THEN "idle" ELSE "threw")
          /\ UNCHANGED openings
  /\ UNCHANGED <<prefs, agentVars, userModel, checking, initAuths, login, served>>

\* The process is killed and started again: nothing is left of it.
Restart ==
  /\ prefs' = [auth |-> FALSE, user |-> None]
  /\ prefsSet' = FALSE /\ response' = None /\ pr' = None
  /\ userModel' = None
  /\ nav' = Start /\ checking' = TRUE
  /\ openings' = 0 /\ initAuths' = 0
  /\ login' = [t \in Logins |-> NoLogin]
  /\ register' = [g \in Registers |-> "idle"]
  /\ r' = Rejected /\ vouched' = {} /\ fellBack' = FALSE

-----------------------------------------------------------------------------
LoginStep(t) ==
  \/ LoginAnswered(t) \/ LoginGarbled(t) \/ AcceptLogin(t) \/ RejectLogin(t)
  \/ FinishLogin(t) \/ DismissLogin(t)

RegisterStep(g) ==
  \/ ShowRegister(g) \/ RegisterRefused(g) \/ FinishRegister(g)
  \/ \E a \in Accounts : RegisterAccepted(g, a)

\* What the user does.
User ==
  \/ TapAccount \/ TapLink \/ TapLogout \/ Back
  \/ \E t \in Logins, a \in Accounts : TapLogin(t, a)
  \/ \E g \in Registers : TapSubmit(g)

\* What happens while the process lives.
Step ==
  \/ User \/ CheckAuth \/ LoginPagesBuilt \/ InitAuthLoads \/ InitAuthThrows
  \/ \E route \in nav.leaving : TransitionEnds(route)
  \/ \E t \in Logins : LoginStep(t)
  \/ \E g \in Registers : RegisterStep(g)

Next == Step \/ Restart

Spec == Init /\ [][Next]_vars

\* Posts end by their timeouts, timers fire and frames are drawn.
FairSpec == /\ Spec
            /\ WF_vars(CheckAuth)
            /\ \A t \in Logins : WF_vars(LoginStep(t))
            /\ \A g \in Registers : WF_vars(RegisterStep(g))

\* A calm user dismisses no dialog, lets the pause before the dialog of doRegister go
\* by, and does not register while signed in.
Calm ==
  /\ ~(OnTop(nav, "dialog") /\ Back)
  /\ (\E g \in Registers : register[g] = "pause") => ~User
  /\ prefs.auth => \A g \in Registers : ~TapSubmit(g)

CalmSpec == Init /\ [][Next /\ Calm]_vars
FairCalmSpec == /\ CalmSpec
                /\ WF_vars(CheckAuth)
                /\ \A t \in Logins : WF_vars(LoginStep(t))
                /\ \A g \in Registers : WF_vars(RegisterStep(g))

-----------------------------------------------------------------------------
Users == Accounts \cup {None}
Screens == {"init", "main", "login", "register", "recovery", "settings", "dialog"}
Runs == Logins \cup Registers \cup {Frame}
ARoute == [name : Screens, of : SUBSET Runs]
ANavigator == [stack : Seq(ARoute), leaving : SUBSET ARoute]
ALogin == [stage : {"idle", "posting", "delay", "accepted", "rejected", "threw"},
           typed : Users]

\* The type of the state.
TypeOK ==
  /\ prefs \in [auth : BOOLEAN, user : Users]
  /\ prefsSet \in BOOLEAN /\ response \in Users \cup {Rejected}
  /\ pr \in Logins \cup {None}
  /\ userModel \in Users
  /\ nav \in ANavigator
  /\ checking \in BOOLEAN /\ {openings, initAuths} \subseteq Nat
  /\ login \in [Logins -> ALogin]
  /\ register \in [Registers -> {"idle", "pause", "posting", "accepted",
                                 "rejected", "threw"}]
  /\ r \in Accounts \cup {Rejected} /\ vouched \subseteq Accounts
  /\ fellBack \in BOOLEAN

\* However runs of login and doRegister mix up their fields and dialogs, every
\* account the app holds or shows is one the server confirmed since the start.
NoThinAir ==
  /\ {prefs.user, userModel} \subseteq vouched \cup {None}
  /\ {response, r} \subseteq vouched \cup {None, Rejected}

\* The session keeps the contract of AuthContract: see there.
Auth == INSTANCE AuthContract WITH
          confirmed <- vouched, kept <- prefs.user, shown <- userModel,
          signedIn <- prefs.auth
AuthSpec == Auth!Spec

\* For a calm user login and registration are modal: one run at a time, under the top
\* route, which is its dialog; the field pr is that of the login.
Shown(t) == login[t].stage # "idle"
Registering(g) == register[g] \notin {"idle", "pause"}
DialogIsModal ==
  /\ \A t, u \in Logins : Shown(t) /\ Shown(u) => t = u
  /\ \A t \in Logins : Shown(t) => Top(nav) = Route("dialog", {t}) /\ pr = t
  /\ \A g \in Registers : Registering(g) => Top(nav) = Route("dialog", {g})
  /\ OnTop(nav, "dialog") => \/ \E t \in Logins : Shown(t)
                            \/ \E g \in Registers : Registering(g)

\* The account that a login announces is the one its own request was for, unless
\* some post was answered with a 2xx status that is not 200.
OwnAccount ==
  ~fellBack => \A t \in Logins : login[t].stage = "accepted" => prefs.user = login[t].typed

\* Between two logins, a user who is signed in sees the account that is stored.
SessionAgrees ==
  (prefs.auth /\ \A t \in Logins : ~Shown(t)) => userModel = prefs.user

\* A login that throws once the server has answered is one of a page whose
\* initAuth has not loaded the preferences.
ThrowsOnlyUnready ==
  [][\A t \in Logins :
       login[t].stage \in {"delay", "accepted", "rejected"} /\ login'[t].stage = "threw"
         => ~prefsSet]_vars

\* Every login comes to an end, whichever dialogs are gone by then.
EveryLoginEnds == \A t \in Logins : Running(login[t].stage) ~> ~Running(login[t].stage)

EveryRegisterEnds == \A g \in Registers : Running(register[g]) ~> ~Running(register[g])

\* The splash screen gives way.
SplashEnds == OnTop(nav, "init") ~> ~OnTop(nav, "init")
=============================================================================
