--------------------------- MODULE SessionProofs ----------------------------
(***************************************************************************)
(* Theorems about Session for every set of accounts, of logins and of      *)
(* registrations.  The accounts: none comes from thin air, and the         *)
(* contract AuthContract is kept, wherever the dialogs are and however the *)
(* runs mix them up.  The navigator: the type of the state and, for a calm *)
(* user, that login and registration are modal and that the fields of      *)
(* AgentUtil, shared by all LoginPages, serve one run at a time.  What is  *)
(* begun ends: logins, registrations and, for a calm user, the splash.     *)
(***************************************************************************)
EXTENDS Session, TLAPS, SequenceTheorems

\* The part of the type invariant that the accounts need.
Typed ==
  /\ prefs \in [auth : BOOLEAN, user : Users]
  /\ login \in [Logins -> ALogin]
  /\ \A t \in Logins : login[t].stage = "posting" => login[t].typed \in Accounts
  /\ vouched \subseteq Accounts

\* is_auth is only set together with a user, and a login that was accepted has
\* stored one, unless the preferences ended with the process, and the login too.
StoredUser ==
  /\ prefs.auth => prefs.user # None
  /\ \A t \in Logins : login[t].stage = "accepted" => prefs.user # None

AInv == Typed /\ StoredUser /\ NoThinAir

\* The steps that touch neither an account nor a login.
Elsewhere ==
  \/ TapAccount \/ TapLink \/ Back \/ LoginPagesBuilt \/ InitAuthLoads \/ InitAuthThrows
  \/ \E route \in nav.leaving : TransitionEnds(route)
  \/ \E g \in Registers : TapSubmit(g) \/ ShowRegister(g) \/ RegisterRefused(g)
                          \/ FinishRegister(g)

\* They leave the accounts alone; a refused registration resets r.
LEMMA ElsewhereUnchanged ==
  Elsewhere => /\ UNCHANGED <<prefs, login, vouched, userModel, response>>
               /\ r' \in {r, Rejected}
  BY DEF Elsewhere, TapAccount, TapLink, Back, LoginPagesBuilt, InitAuthLoads,
         InitAuthThrows, TransitionEnds, TapSubmit, ShowRegister, RegisterRefused, FinishRegister,
         Refused, FallenBack, agentVars, tasks, served

\* A step of the specification is one of these.
LEMMA Steps ==
  ASSUME [Next]_vars
  PROVE  \/ Elsewhere \/ CheckAuth \/ TapLogout \/ Restart \/ UNCHANGED vars
         \/ \E t \in Logins, a \in Accounts : TapLogin(t, a)
         \/ \E t \in Logins : LoginStep(t)
         \/ \E g \in Registers, a \in Accounts : RegisterAccepted(g, a)
  BY DEF Next, Step, User, RegisterStep, Elsewhere

-----------------------------------------------------------------------------
\* Nothing is stored or shown at the start.
LEMMA AInit == Init => AInv
  BY SessionConstants
  DEF Init, AInv, Typed, StoredUser, NoThinAir, NoLogin, Users, ALogin

\* A step of a login keeps the invariant.  Which run's answer the field response
\* holds does not matter: it is one the server confirmed.
LEMMA LoginKeeps ==
  ASSUME AInv, NEW t \in Logins, LoginStep(t)
  PROVE  AInv'
<1> USE SessionConstants
    DEF AInv, Typed, StoredUser, NoThinAir, NoLogin, Users, ALogin, LoginAt, EndLogin, agentVars, served
<1>1. CASE LoginAnswered(t)
  BY <1>1 DEF LoginAnswered, Confirmed, Refused, FallenBack
<1>2. CASE LoginGarbled(t)
  BY <1>2 DEF LoginGarbled
<1>3. CASE AcceptLogin(t)
  <2>1. CASE prefsSet
    <3>1. /\ prefs' = [auth |-> TRUE, user |-> response] /\ response \in vouched
          /\ UNCHANGED <<vouched, userModel, response>>
      BY <1>3, <2>1 DEF AcceptLogin
    <3>2. CASE pr = None
      BY <1>3, <2>1, <3>1, <3>2 DEF AcceptLogin
    <3>3. CASE pr # None
      BY <1>3, <2>1, <3>1, <3>3 DEF AcceptLogin
    <3> QED BY <3>2, <3>3
  <2>2. CASE ~prefsSet
    BY <1>3, <2>2 DEF AcceptLogin
  <2> QED BY <2>1, <2>2
<1>4. CASE RejectLogin(t)
  BY <1>4 DEF RejectLogin
<1>5. CASE FinishLogin(t)
  BY <1>5 DEF FinishLogin
<1>6. CASE DismissLogin(t)
  BY <1>6 DEF DismissLogin
<1> QED BY <1>1, <1>2, <1>3, <1>4, <1>5, <1>6 DEF LoginStep

\* The invariant is inductive.
LEMMA ANext == AInv /\ [Next]_vars => AInv'
<1> SUFFICES ASSUME AInv, [Next]_vars PROVE AInv'
  OBVIOUS
<1> USE SessionConstants
    DEF AInv, Typed, StoredUser, NoThinAir, NoLogin, Users, ALogin, agentVars, tasks, served
<1>1. CASE Elsewhere
  BY <1>1, ElsewhereUnchanged
<1>2. CASE CheckAuth
  BY <1>2 DEF CheckAuth
<1>3. CASE TapLogout
  BY <1>3 DEF TapLogout
<1>4. CASE Restart
  BY <1>4 DEF Restart
<1>5. CASE UNCHANGED vars
  BY <1>5 DEF vars
<1>6. ASSUME NEW t \in Logins, NEW a \in Accounts, TapLogin(t, a) PROVE AInv'
  BY <1>6 DEF TapLogin
<1>7. ASSUME NEW t \in Logins, LoginStep(t) PROVE AInv'
  BY <1>7, LoginKeeps
<1>8. ASSUME NEW g \in Registers, NEW a \in Accounts, RegisterAccepted(g, a) PROVE AInv'
  BY <1>8 DEF RegisterAccepted, Confirmed, FallenBack
<1> QED BY <1>1, <1>2, <1>3, <1>4, <1>5, <1>6, <1>7, <1>8, Steps

\* The invariant holds throughout.
LEMMA AInvariance == Spec => []AInv
<1> QED BY AInit, ANext, PTL DEF Spec

\* Whatever logins, registrations and restarts overlap, every account that the
\* app stores, shows or is about to accept was confirmed by the server.
THEOREM NoAccountFromThinAir == Spec => []NoThinAir
<1>1. AInv => NoThinAir BY DEF AInv
<1> QED BY <1>1, AInvariance, PTL

-----------------------------------------------------------------------------
\* A step of a login is a step of the contract: it confirms an account, signs one
\* in, shows the stored one, or changes nothing that the contract speaks of.
LEMMA LoginImplements ==
  ASSUME AInv, NEW t \in Logins, LoginStep(t)
  PROVE  [Auth!Next]_(Auth!vars)
<1> USE SessionConstants
    DEF AInv, Typed, StoredUser, NoThinAir, Users, LoginAt, EndLogin, agentVars, served
<1>1. CASE LoginAnswered(t)
  <2>1. login[t].typed \in Accounts
    BY <1>1 DEF LoginAnswered
  <2>2. CASE vouched' = vouched
    BY <1>1, <2>2 DEF LoginAnswered, Auth!vars
  <2>3. CASE vouched' = vouched \cup {login[t].typed}
    <3>1. Auth!Confirm(login[t].typed)
      BY <1>1, <2>3 DEF LoginAnswered, Auth!Confirm
    <3> QED BY <2>1, <3>1 DEF Auth!Next
  <2> QED BY <1>1, <2>2, <2>3 DEF LoginAnswered, Confirmed, Refused, FallenBack
<1>2. CASE LoginGarbled(t) \/ RejectLogin(t) \/ DismissLogin(t)
  BY <1>2 DEF LoginGarbled, RejectLogin, DismissLogin, Auth!vars
<1>3. CASE AcceptLogin(t)
  <2>1. CASE prefsSet
    <3>1. response \in Accounts /\ Auth!SignIn(response)
      BY <1>3, <2>1 DEF AcceptLogin, Auth!SignIn
    <3> QED BY <3>1 DEF Auth!Next
  <2>2. CASE ~prefsSet
    BY <1>3, <2>2 DEF AcceptLogin, Auth!vars
  <2> QED BY <2>1, <2>2
<1>4. CASE FinishLogin(t)
  <2>1. CASE userModel' = prefs.user
    <3>1. Auth!Show
      BY <1>4, <2>1 DEF FinishLogin, Auth!Show
    <3> QED BY <3>1 DEF Auth!Next
  <2>2. CASE userModel' = userModel
    BY <1>4, <2>2 DEF FinishLogin, Auth!vars
  <2> QED BY <1>4, <2>1, <2>2 DEF FinishLogin
<1> QED BY <1>1, <1>2, <1>3, <1>4 DEF LoginStep

\* The session implements AuthContract.
THEOREM SessionKeepsContract == Spec => AuthSpec
<1>1. Init => Auth!Init
  BY DEF Init, Auth!Init
<1>2. ASSUME AInv, [Next]_vars PROVE [Auth!Next]_(Auth!vars)
  <2> USE SessionConstants, <1>2
      DEF AInv, Typed, StoredUser, NoThinAir, Users, agentVars, tasks, served
  <2>1. CASE Elsewhere
    BY <2>1, ElsewhereUnchanged DEF Auth!vars
  <2>2. CASE CheckAuth
    <3>1. CASE userModel' = userModel
      BY <2>2, <3>1 DEF CheckAuth, Auth!vars
    <3>2. CASE userModel' # userModel
      <4>1. Auth!Show
        BY <2>2, <3>2 DEF CheckAuth, Auth!Show
      <4> QED BY <4>1 DEF Auth!Next
    <3> QED BY <3>1, <3>2
  <2>3. CASE TapLogout
    <3>1. Auth!SignOut
      BY <2>3 DEF TapLogout, Auth!SignOut
    <3> QED BY <3>1 DEF Auth!Next
  <2>4. CASE Restart
    <3>1. Auth!Forget
      BY <2>4 DEF Restart, Auth!Forget
    <3> QED BY <3>1 DEF Auth!Next
  <2>5. CASE UNCHANGED vars
    BY <2>5 DEF vars, Auth!vars
  <2>6. ASSUME NEW t \in Logins, NEW a \in Accounts, TapLogin(t, a)
        PROVE  UNCHANGED Auth!vars
    BY <2>6 DEF TapLogin, Auth!vars
  <2>7. ASSUME NEW g \in Registers, NEW a \in Accounts, RegisterAccepted(g, a)
        PROVE  Auth!Next
    <3>1. Auth!Register(a)
      BY <2>7 DEF RegisterAccepted, Confirmed, FallenBack, Auth!Register
    <3> QED BY <3>1 DEF Auth!Next
  <2> QED BY <2>1, <2>2, <2>3, <2>4, <2>5, <2>6, <2>7, Steps, LoginImplements
<1> QED BY <1>1, <1>2, AInvariance, PTL DEF Spec, AuthSpec, Auth!Spec

-----------------------------------------------------------------------------
(* The operators of Navigation.                                            *)

\* A route on top of the others.
LEMMA PushNav ==
  ASSUME NEW n \in ANavigator, NEW route \in ARoute
  PROVE  LET m == Push(n, route)
         IN  /\ m \in ANavigator /\ Len(m.stack) = Len(n.stack) + 1
             /\ Len(n.stack) \in Nat
             /\ m.stack[Len(m.stack)] = route
             /\ \A i \in 1..Len(n.stack) : m.stack[i] = n.stack[i]
<1>1. n.stack \in Seq(ARoute) /\ n.leaving \subseteq ARoute
  BY DEF ANavigator
<1>2. Push(n, route) = [n EXCEPT !.stack = Append(n.stack, route)]
  BY DEF Push
<1>3. /\ Append(n.stack, route) \in Seq(ARoute)
      /\ Len(Append(n.stack, route)) = Len(n.stack) + 1
      /\ \A i \in 1..Len(n.stack) : Append(n.stack, route)[i] = n.stack[i]
      /\ Append(n.stack, route)[Len(n.stack) + 1] = route
  BY <1>1, AppendProperties
<1>4. Push(n, route).stack = Append(n.stack, route)
  BY <1>2 DEF ANavigator
<1>5. Push(n, route) \in ANavigator
  BY <1>1, <1>2, <1>3 DEF ANavigator
<1>6. Len(n.stack) \in Nat
  BY <1>1, LenProperties
<1> QED BY <1>3, <1>4, <1>5, <1>6

\* The top route goes away.
LEMMA PopNav ==
  ASSUME NEW n \in ANavigator, n.stack # <<>>
  PROVE  LET m == Pop(n)
         IN  /\ m \in ANavigator /\ Len(m.stack) = Len(n.stack) - 1
             /\ Len(n.stack) \in Nat \ {0}
             /\ \A i \in 1..Len(m.stack) : m.stack[i] = n.stack[i]
<1>1. n.stack \in Seq(ARoute) /\ n.leaving \subseteq ARoute
  BY DEF ANavigator
<1>2. Len(n.stack) \in Nat \ {0}
  BY <1>1, EmptySeq
<1>3. Top(n) \in ARoute
  BY <1>1, <1>2, ElementOfSeq DEF Top
<1>4. /\ Pop(n).stack = SubSeq(n.stack, 1, Len(n.stack) - 1)
      /\ Pop(n) = [stack |-> Pop(n).stack,
                   leaving |-> n.leaving \cup {q \in {Top(n)} : q.of # {}}]
  BY DEF Pop
<1>5. /\ Pop(n).stack \in Seq(ARoute) /\ Len(Pop(n).stack) = Len(n.stack) - 1
      /\ \A i \in 1..Len(n.stack) - 1 : Pop(n).stack[i] = n.stack[i]
  BY <1>1, <1>2, <1>4, SubSeqProperties
<1> QED BY <1>1, <1>2, <1>3, <1>4, <1>5 DEF ANavigator

\* A run lets go of routes.
LEMMA ReleaseNav ==
  ASSUME NEW n \in ANavigator, NEW run, NEW kept
  PROVE  LET m == Release(n, run, kept)
         IN  /\ m \in ANavigator /\ Len(m.stack) = Len(n.stack) /\ Len(n.stack) \in Nat
             /\ \A i \in 1..Len(n.stack) : m.stack[i].name = n.stack[i].name
<1> DEFINE Free(q) == IF q.name \in kept THEN q ELSE [q EXCEPT !.of = q.of \ {run}]
           s == [i \in 1..Len(n.stack) |-> Free(n.stack[i])]
           l == {q \in {Free(p) : p \in n.leaving} : q.of # {}}
<1>1. /\ n.stack \in Seq(ARoute) /\ n.leaving \subseteq ARoute /\ Len(n.stack) \in Nat
      /\ DOMAIN n.stack = 1..Len(n.stack)
      /\ \A i \in 1..Len(n.stack) : n.stack[i] \in ARoute
  BY LenProperties, ElementOfSeq DEF ANavigator
<1>2. \A q \in ARoute : Free(q) \in ARoute /\ Free(q).name = q.name
  BY DEF ARoute
<1>3. Release(n, run, kept) = [stack |-> s, leaving |-> l]
  BY <1>1 DEF Release
<1> HIDE DEF Free
<1>4. s \in [1..Len(n.stack) -> ARoute]
  BY <1>1, <1>2
<1>5. s \in Seq(ARoute) /\ Len(s) = Len(n.stack)
  BY <1>1, <1>4
<1>6. l \subseteq ARoute
  BY <1>1, <1>2
<1>7. Release(n, run, kept) \in ANavigator
  BY <1>3, <1>5, <1>6 DEF ANavigator
<1>8. \A i \in 1..Len(n.stack) : s[i].name = n.stack[i].name
  BY <1>1, <1>2
<1>9. Release(n, run, kept).stack = s
  BY <1>3
<1> HIDE DEF s
<1> QED BY <1>1, <1>5, <1>7, <1>8, <1>9

\* A run holds the top route.
LEMMA HoldNav ==
  ASSUME NEW n \in ANavigator, NEW run \in Runs, n.stack # <<>>
  PROVE  LET m == Hold(n, run)
         IN  /\ m \in ANavigator /\ Len(m.stack) = Len(n.stack)
             /\ Len(n.stack) \in Nat \ {0}
             /\ \A i \in 1..Len(n.stack) : m.stack[i].name = n.stack[i].name
             /\ run \in m.stack[Len(n.stack)].of
<1> DEFINE k == Len(n.stack)
           f == Release(n, run, {})
           top == [f.stack[k] EXCEPT !.of = f.stack[k].of \cup {run}]
<1>1. /\ f \in ANavigator /\ Len(f.stack) = k
      /\ \A i \in 1..k : f.stack[i].name = n.stack[i].name
  BY ReleaseNav
<1>2. k \in Nat \ {0} /\ k \in 1..k
  BY EmptySeq DEF ANavigator
<1>3. f.stack \in Seq(ARoute) /\ f.leaving \subseteq ARoute /\ f.stack[k] \in ARoute
  BY <1>1, <1>2, ElementOfSeq DEF ANavigator
<1>4. top \in ARoute /\ top.name = f.stack[k].name /\ run \in top.of
  BY <1>3 DEF ARoute
<1>5. Hold(n, run) = [f EXCEPT !.stack = [f.stack EXCEPT ![k] = top]]
  BY DEF Hold
<1> HIDE DEF f
<1>6. Hold(n, run).stack = [f.stack EXCEPT ![k] = top]
  BY <1>1, <1>5 DEF ANavigator
<1>7. /\ [f.stack EXCEPT ![k] = top] \in Seq(ARoute)
      /\ Len([f.stack EXCEPT ![k] = top]) = k
      /\ \A i \in 1..k : [f.stack EXCEPT ![k] = top][i] = IF i = k THEN top ELSE f.stack[i]
  BY <1>1, <1>2, <1>3, <1>4, ExceptSeq
<1>8. Hold(n, run) \in ANavigator
  BY <1>1, <1>5, <1>7 DEF ANavigator
<1> QED BY <1>1, <1>2, <1>4, <1>6, <1>7, <1>8

\* The place of the top route is taken by another one.
LEMMA ReplaceNav ==
  ASSUME NEW n \in ANavigator, NEW route \in ARoute, n.stack # <<>>
  PROVE  LET m == Replace(n, route)
         IN  /\ m \in ANavigator /\ Len(m.stack) = Len(n.stack)
             /\ Len(n.stack) \in Nat \ {0}
             /\ m.stack[Len(n.stack)] = route
             /\ \A i \in 1..Len(n.stack) - 1 : m.stack[i] = n.stack[i]
<1>1. /\ Pop(n) \in ANavigator /\ Len(Pop(n).stack) = Len(n.stack) - 1
      /\ Len(n.stack) \in Nat \ {0}
      /\ \A i \in 1..Len(n.stack) - 1 : Pop(n).stack[i] = n.stack[i]
  BY PopNav
<1>2. LET m == Push(Pop(n), route)
      IN  /\ m \in ANavigator /\ Len(m.stack) = Len(Pop(n).stack) + 1
          /\ m.stack[Len(m.stack)] = route
          /\ \A i \in 1..Len(Pop(n).stack) : m.stack[i] = Pop(n).stack[i]
  BY <1>1, PushNav
<1> QED BY <1>1, <1>2 DEF Replace

\* Popping and replacing keep the type, with an empty stack too.
LEMMA NavTyped ==
  ASSUME NEW n \in ANavigator
  PROVE  /\ Pop(n) \in ANavigator
         /\ \A route \in ARoute : Replace(n, route) \in ANavigator
         /\ \A route : Unmount(n, route) \in ANavigator /\ Unmount(n, route).stack = n.stack
<1>1. Pop(n) \in ANavigator
  BY PopNav DEF Pop
<1>2. \A route \in ARoute : Replace(n, route) \in ANavigator
  BY <1>1, PushNav DEF Replace
<1>3. \A route : Unmount(n, route) \in ANavigator /\ Unmount(n, route).stack = n.stack
  BY DEF Unmount, ANavigator
<1> QED BY <1>1, <1>2, <1>3

-----------------------------------------------------------------------------
(* The type of the state, with any logins and registrations.               *)

\* Routes the steps push are routes.
LEMMA RoutesTyped ==
  /\ \A run \in Runs : Route("dialog", {run}) \in ARoute
  /\ \A name \in Screens : Route(name, {}) \in ARoute
  /\ Route("init", {Frame}) \in ARoute
  BY DEF ARoute, Route, Screens, Runs

\* Every step keeps the navigator one.
LEMMA NavKept ==
  ASSUME nav \in ANavigator, [Next]_vars
  PROVE  nav' \in ANavigator
<1> USE RoutesTyped DEF Screens
<1>0. CASE nav' = nav
  BY <1>0
<1>1. CASE CheckAuth
  BY <1>1, NavTyped, ReleaseNav DEF CheckAuth
<1>2. CASE TapAccount
  BY <1>2, PushNav DEF TapAccount
<1>3. CASE TapLink
  BY <1>3, PushNav DEF TapLink
<1>4. CASE Back
  BY <1>4, NavTyped DEF Back
<1>5. CASE TapLogout
  BY <1>5, NavTyped DEF TapLogout
<1>6. ASSUME NEW route \in nav.leaving, TransitionEnds(route) PROVE nav' \in ANavigator
  BY <1>6, NavTyped DEF TransitionEnds
<1>7. ASSUME NEW t \in Logins, NEW a \in Accounts, TapLogin(t, a) PROVE nav' \in ANavigator
  <2>1. t \in Runs /\ nav.stack # <<>> /\ nav' = Push(Hold(nav, t), Route("dialog", {t}))
    BY <1>7 DEF TapLogin, OnTop, Runs
  <2>2. Hold(nav, t) \in ANavigator
    BY <2>1, HoldNav
  <2> QED BY <2>1, <2>2, PushNav
<1>8. ASSUME NEW t \in Logins, LoginStep(t) PROVE nav' \in ANavigator
  <2>1. CASE FinishLogin(t)
    BY <2>1, NavTyped, ReleaseNav DEF FinishLogin
  <2>2. CASE DismissLogin(t)
    BY <2>2, NavTyped, ReleaseNav DEF DismissLogin
  <2> QED BY <1>0, <1>8, <2>1, <2>2
          DEF LoginStep, LoginAnswered, LoginGarbled, AcceptLogin, RejectLogin
<1>9. ASSUME NEW g \in Registers, TapSubmit(g) \/ RegisterStep(g) PROVE nav' \in ANavigator
  <2>1. CASE TapSubmit(g)
    BY <2>1, HoldNav DEF TapSubmit, OnTop, Runs
  <2>2. CASE ShowRegister(g)
    BY <2>2, PushNav DEF ShowRegister, Runs
  <2>3. CASE FinishRegister(g)
    BY <2>3, NavTyped, ReleaseNav DEF FinishRegister
  <2> QED BY <1>0, <1>9, <2>1, <2>2, <2>3 DEF RegisterStep, RegisterAccepted, RegisterRefused
<1>10. CASE Restart
  <2>1. <<Route("init", {Frame})>> \in Seq(ARoute)
    BY RoutesTyped
  <2> QED BY <1>10, <2>1 DEF Restart, Start, ANavigator
<1> QED BY <1>0, <1>1, <1>2, <1>3, <1>4, <1>5, <1>6, <1>7, <1>8, <1>9, <1>10
        DEF Next, Step, User, LoginPagesBuilt, InitAuthLoads, InitAuthThrows, vars

\* The part of the type that is not about the navigator.
Fields ==
  /\ prefs \in [auth : BOOLEAN, user : Users]
  /\ prefsSet \in BOOLEAN /\ response \in Users \cup {Rejected}
  /\ pr \in Logins \cup {None}
  /\ userModel \in Users
  /\ checking \in BOOLEAN /\ {openings, initAuths} \subseteq Nat
  /\ login \in [Logins -> ALogin]
  /\ register \in [Registers -> {"idle", "pause", "posting", "accepted",
                                 "rejected", "threw"}]
  /\ r \in Accounts \cup {Rejected} /\ vouched \subseteq Accounts
  /\ fellBack \in BOOLEAN

\* A step of a login keeps the types of the fields: a run that posts has an account.
LEMMA LoginFields ==
  ASSUME Fields, Typed, NEW t \in Logins, LoginStep(t)
  PROVE  Fields'
<1> USE DEF Fields, Users, ALogin, NoLogin, agentVars, pages, served, LoginAt, EndLogin
<1>1. CASE LoginAnswered(t)
  <2>1. login[t].typed \in Accounts
    BY <1>1 DEF LoginAnswered, Typed
  <2> QED BY <1>1, <2>1 DEF LoginAnswered, Confirmed, Refused, FallenBack
<1>2. CASE LoginGarbled(t)
  BY <1>2 DEF LoginGarbled
<1>3. CASE AcceptLogin(t)
  <2>1. response \in Users /\ (prefs' = [auth |-> TRUE, user |-> response] \/ prefs' = prefs)
    BY <1>3 DEF AcceptLogin
  <2>2. prefs' \in [auth : BOOLEAN, user : Users]
    <3>1. CASE prefs' = prefs
      BY <3>1
    <3>2. CASE prefs' = [auth |-> TRUE, user |-> response]
      BY <2>1, <3>2
    <3> QED BY <2>1, <3>1, <3>2
  <2>3. login' \in [Logins -> ALogin]
    BY <1>3 DEF AcceptLogin
  <2>4. UNCHANGED <<prefsSet, response, pr, userModel, checking, pages, register,
                    r, vouched, fellBack>>
    BY <1>3 DEF AcceptLogin
  <2> QED BY <2>2, <2>3, <2>4
<1>4. CASE RejectLogin(t)
  BY <1>4 DEF RejectLogin
<1>5. CASE FinishLogin(t)
  BY <1>5 DEF FinishLogin
<1>6. CASE DismissLogin(t)
  BY <1>6 DEF DismissLogin
<1> QED BY <1>1, <1>2, <1>3, <1>4, <1>5, <1>6 DEF LoginStep

\* Every step keeps them.
LEMMA FieldsKept ==
  ASSUME Fields, Typed, [Next]_vars
  PROVE  Fields'
<1> USE DEF Fields, Users, ALogin, NoLogin, agentVars, pages, tasks, served, RegisterAt
<1>1. CASE CheckAuth
  BY <1>1 DEF CheckAuth
<1>2. CASE TapAccount \/ TapLink \/ Back
  BY <1>2 DEF TapAccount, TapLink, Back
<1>3. CASE TapLogout
  BY <1>3 DEF TapLogout
<1>4. CASE LoginPagesBuilt \/ InitAuthLoads \/ InitAuthThrows
  <2>1. {openings', initAuths'} \subseteq Nat
    BY <1>4 DEF LoginPagesBuilt, InitAuthLoads, InitAuthThrows
  <2>2. prefsSet' \in BOOLEAN
    BY <1>4 DEF LoginPagesBuilt, InitAuthLoads, InitAuthThrows
  <2> QED BY <1>4, <2>1, <2>2 DEF LoginPagesBuilt, InitAuthLoads, InitAuthThrows
<1>5. ASSUME NEW route \in nav.leaving, TransitionEnds(route) PROVE Fields'
  BY <1>5 DEF TransitionEnds
<1>6. ASSUME NEW t \in Logins, NEW a \in Accounts, TapLogin(t, a) PROVE Fields'
  BY <1>6 DEF TapLogin
<1>7. ASSUME NEW t \in Logins, LoginStep(t) PROVE Fields'
  BY <1>7, LoginFields
<1>8. ASSUME NEW g \in Registers, TapSubmit(g) \/ RegisterStep(g) PROVE Fields'
  <2>1. CASE TapSubmit(g) \/ ShowRegister(g)
    BY <2>1 DEF TapSubmit, ShowRegister
  <2>2. ASSUME NEW a \in Accounts, RegisterAccepted(g, a) PROVE Fields'
    BY <2>2 DEF RegisterAccepted, Confirmed, FallenBack
  <2>3. CASE RegisterRefused(g)
    BY <2>3 DEF RegisterRefused, Refused, FallenBack
  <2>4. CASE FinishRegister(g)
    BY <2>4 DEF FinishRegister
  <2> QED BY <1>8, <2>1, <2>2, <2>3, <2>4 DEF RegisterStep
<1>9. CASE Restart
  <2>1. openings' \in Nat /\ initAuths' \in Nat
    BY <1>9 DEF Restart
  <2>2. {openings', initAuths'} \subseteq Nat
    BY <2>1
  <2> QED BY <1>9, <2>2 DEF Restart
<1>10. CASE UNCHANGED vars
  BY <1>10 DEF vars
<1> QED BY <1>1, <1>2, <1>3, <1>4, <1>5, <1>6, <1>7, <1>8, <1>9, <1>10 DEF Next, Step, User

\* The state has its type, however runs of login and doRegister mix up their
\* dialogs, and with routes popped by whoever comes first.
THEOREM SessionTypeCorrect == Spec => []TypeOK
<1> DEFINE TInv == Fields /\ nav \in ANavigator
<1>1. Init => TInv
  <2>1. <<Route("init", {Frame})>> \in Seq(ARoute)
    BY RoutesTyped
  <2>2. Init => nav \in ANavigator
    BY <2>1 DEF Init, Start, ANavigator
  <2>3. Init => prefs \in [auth : BOOLEAN, user : Users]
    BY DEF Init, Users
  <2>4. Init => prefsSet \in BOOLEAN /\ checking \in BOOLEAN /\ fellBack \in BOOLEAN
    BY DEF Init
  <2>5. Init => login \in [Logins -> ALogin]
    BY DEF Init, Users, ALogin, NoLogin
  <2>6. Init => Fields
    BY <2>3, <2>4, <2>5 DEF Init, Fields, Users
  <2> QED BY <2>2, <2>6
<1>2. TInv /\ AInv /\ [Next]_vars => TInv'
  BY FieldsKept, NavKept DEF AInv
<1>3. TInv => TypeOK
  BY DEF Fields, TypeOK
<1> QED BY <1>1, <1>2, <1>3, AInvariance, PTL DEF Spec

-----------------------------------------------------------------------------
(* For a calm user login and registration are modal.                       *)

\* Only the top route can be a dialog, and there is a top route.
Steady(n) ==
  /\ n \in ANavigator /\ n.stack # <<>>
  /\ \A i \in 1..Len(n.stack) - 1 : n.stack[i].name # "dialog"

\* A run is under its own dialog, on a page of that name.
Under(n, run, page) ==
  LET k == Len(n.stack)
  IN  /\ k > 1 /\ n.stack[k] = Route("dialog", {run})
      /\ n.stack[k - 1].name = page /\ run \in n.stack[k - 1].of

\* A registration waits on its page, which is on top, to show its dialog.
Waiting(n, g) == OnTop(n, "register") /\ g \in Top(n).of

\* The strengthening: where the dialog is, that the fresh splash screen is on top, that
\* no login is shown before the pages that were pushed are drawn, and that one
\* registration at most waits to show its dialog.
Modal ==
  /\ Steady(nav)
  /\ checking => OnTop(nav, "init")
  /\ \A t \in Logins : Shown(t) => Under(nav, t, "login") /\ pr = t
  /\ openings > 0 => \A t \in Logins : ~Shown(t)
  /\ \A g \in Registers : Registering(g) => Under(nav, g, "register")
  /\ \A g \in Registers : register[g] = "pause" =>
       Waiting(nav, g) /\ \A h \in Registers : register[h] = "pause" => h = g
  /\ OnTop(nav, "dialog") => \/ \E t \in Logins : Shown(t)
                            \/ \E g \in Registers : Registering(g)

\* The account stored is shown except while a login announces it, and nobody who is
\* signed in registers.
Agreed ==
  /\ (prefs.auth /\ \A t \in Logins : login[t].stage # "accepted") => userModel = prefs.user
  /\ prefs.auth => \A g \in Registers : register[g] = "idle"

Stages == {"idle", "pause", "posting", "accepted", "rejected", "threw"}

MInv == /\ login \in [Logins -> ALogin] /\ register \in [Registers -> Stages]
        /\ Modal /\ Agreed

\* No run of login or doRegister is under way.
NoRun ==
  /\ \A t \in Logins : ~Shown(t)
  /\ \A g \in Registers : register[g] = "idle"

\* Whoever is under a dialog is the one whose dialog is on top.
LEMMA UnderTop ==
  ASSUME NEW n, NEW run, NEW page, Under(n, run, page), n.stack # <<>>
  PROVE  /\ Top(n) = Route("dialog", {run}) /\ OnTop(n, "dialog")
         /\ \A name : name # "dialog" => ~OnTop(n, name)
         /\ \A other, beneath : Under(n, other, beneath) => other = run
<1>1. Top(n) = [name |-> "dialog", of |-> {run}]
  BY DEF Under, Top, Route
<1>2. ASSUME NEW other, NEW beneath, Under(n, other, beneath) PROVE other = run
  <2>1. Top(n) = [name |-> "dialog", of |-> {other}]
    BY <1>2 DEF Under, Top, Route
  <2>2. {run} = {other}
    BY <1>1, <2>1
  <2> QED BY <2>2
<1> QED BY <1>1, <1>2 DEF OnTop, Route

\* While a login is shown, no other run is under way, and its dialog is on top.
LEMMA OneShown ==
  ASSUME Modal, NEW t \in Logins, Shown(t)
  PROVE  /\ OnTop(nav, "dialog") /\ pr = t /\ t # None
         /\ \A u \in Logins : Shown(u) => u = t
         /\ \A g \in Registers : register[g] = "idle"
         /\ ~checking /\ ~(openings > 0)
<1>1. Under(nav, t, "login") /\ pr = t /\ nav.stack # <<>>
  BY DEF Modal, Steady
<1>2. /\ OnTop(nav, "dialog") /\ ~OnTop(nav, "init") /\ ~OnTop(nav, "register")
      /\ \A other, beneath : Under(nav, other, beneath) => other = t
  BY <1>1, UnderTop
<1>3. \A u \in Logins : Shown(u) => u = t
  BY <1>2 DEF Modal
<1>4. ASSUME NEW g \in Registers PROVE register[g] = "idle"
  <2>1. g # t
    BY SessionConstants
  <2> QED BY <1>2, <2>1 DEF Modal, Registering, Waiting
<1>5. ~checking /\ ~(openings > 0)
  BY <1>2 DEF Modal
<1> QED BY <1>1, <1>2, <1>3, <1>4, <1>5, SessionConstants

\* While a registration is under way, no other run is, and its dialog is on top or it
\* waits to show it.
LEMMA OneRegistering ==
  ASSUME Modal, NEW g \in Registers, register[g] # "idle"
  PROVE  /\ \A t \in Logins : ~Shown(t)
         /\ \A h \in Registers \ {g} : register[h] = "idle"
         /\ ~checking
<1>1. nav.stack # <<>>
  BY DEF Modal, Steady
<1>2. \A t \in Logins : ~Shown(t)
  BY OneShown
<1>3. CASE register[g] = "pause"
  <2>1. /\ OnTop(nav, "register") /\ ~OnTop(nav, "dialog") /\ ~OnTop(nav, "init")
        /\ \A h \in Registers : register[h] = "pause" => h = g
    BY <1>3 DEF Modal, Waiting, OnTop
  <2>2. \A h \in Registers : ~Registering(h)
    BY <1>1, <2>1, UnderTop DEF Modal
  <2> QED BY <1>2, <2>1, <2>2 DEF Registering, Modal
<1>4. CASE register[g] # "pause"
  <2>1. Under(nav, g, "register")
    BY <1>4 DEF Registering, Modal
  <2>2. /\ OnTop(nav, "dialog") /\ ~OnTop(nav, "init") /\ ~OnTop(nav, "register")
        /\ \A other, beneath : Under(nav, other, beneath) => other = g
    BY <1>1, <2>1, UnderTop
  <2> QED BY <1>2, <2>2 DEF Registering, Modal, Waiting
<1> QED BY <1>3, <1>4

\* While the top route is no dialog, a registration that waits is all there can be.
LEMMA NoneShown ==
  ASSUME Modal, NEW name, OnTop(nav, name), name # "dialog",
         \A g \in Registers : register[g] # "pause"
  PROVE  NoRun
<1>1. ~OnTop(nav, "dialog") /\ nav.stack # <<>>
  BY DEF OnTop
<1>2. \A g \in Registers : ~Registering(g)
  BY <1>1, UnderTop DEF Modal
<1> QED BY <1>1, <1>2, OneShown DEF Registering, NoRun

\* The dialog of a run and the page under it are among the routes.
LEMMA DialogThere ==
  ASSUME Steady(nav), NEW t, NEW page, page # "dialog", Under(nav, t, page)
  PROVE  HasDialog(nav, t) /\ HasPage(nav, t) /\ HasPage(Pop(nav), t)
<1> DEFINE k == Len(nav.stack)
<1>1. /\ nav.stack \in Seq(ARoute) /\ k \in Nat \ {0} /\ k > 1 /\ DOMAIN nav.stack = 1..k
  BY EmptySeq, LenProperties DEF Steady, ANavigator, Under
<1>2. /\ nav.stack[k] \in Routes(nav) /\ nav.stack[k].name = "dialog" /\ t \in nav.stack[k].of
      /\ nav.stack[k - 1] \in Routes(nav)
  BY <1>1 DEF Routes, Under, Route
<1>3. /\ Pop(nav) \in ANavigator /\ Len(Pop(nav).stack) = k - 1
      /\ Pop(nav).stack[k - 1] = nav.stack[k - 1]
  BY <1>1, PopNav DEF Steady
<1>4. DOMAIN Pop(nav).stack = 1..(k - 1)
  BY <1>3, LenProperties DEF ANavigator
<1>5. nav.stack[k - 1] \in Routes(Pop(nav))
  BY <1>1, <1>3, <1>4 DEF Routes
<1> QED BY <1>2, <1>5 DEF HasDialog, HasPage, Under

\* The page of a registration that waits is among the routes.
LEMMA PageThere ==
  ASSUME Steady(nav), NEW g, Waiting(nav, g)
  PROVE  HasPage(nav, g)
<1> DEFINE k == Len(nav.stack)
<1>1. nav.stack \in Seq(ARoute) /\ k \in Nat \ {0} /\ DOMAIN nav.stack = 1..k
  BY EmptySeq, LenProperties DEF Steady, ANavigator
<1>2. nav.stack[k] \in Routes(nav)
  BY <1>1 DEF Routes
<1> QED BY <1>2 DEF HasPage, Waiting, OnTop, Top

\* A route pushed on a page leaves one dialog at most, on top.
LEMMA SteadyPush ==
  ASSUME NEW n, Steady(n), ~OnTop(n, "dialog"), NEW route \in ARoute
  PROVE  Steady(Push(n, route)) /\ OnTop(Push(n, route), route.name)
<1> DEFINE m == Push(n, route)
<1>1. /\ m \in ANavigator /\ Len(m.stack) = Len(n.stack) + 1 /\ Len(n.stack) \in Nat
      /\ m.stack[Len(m.stack)] = route
      /\ \A i \in 1..Len(n.stack) : m.stack[i] = n.stack[i]
  BY PushNav DEF Steady
<1>2. m.stack # <<>>
  BY <1>1
<1>3. \A i \in 1..Len(n.stack) : n.stack[i].name # "dialog"
  BY <1>1 DEF Steady, OnTop, Top
<1>4. Steady(m)
  BY <1>1, <1>2, <1>3 DEF Steady
<1>5. Top(m) = route
  BY <1>1 DEF Top
<1> QED BY <1>2, <1>4, <1>5 DEF OnTop

\* What a pop uncovers is no dialog.
LEMMA SteadyPop ==
  ASSUME NEW n, Steady(n), Len(n.stack) > 1
  PROVE  Steady(Pop(n)) /\ ~OnTop(Pop(n), "dialog")
<1>1. /\ Pop(n) \in ANavigator /\ Len(Pop(n).stack) = Len(n.stack) - 1
      /\ Len(n.stack) \in Nat \ {0}
      /\ \A i \in 1..Len(Pop(n).stack) : Pop(n).stack[i] = n.stack[i]
  BY PopNav DEF Steady
<1>2. Pop(n).stack # <<>>
  BY <1>1
<1>3. \A i \in 1..Len(Pop(n).stack) : Pop(n).stack[i].name # "dialog"
  BY <1>1 DEF Steady
<1> QED BY <1>1, <1>2, <1>3 DEF Steady, OnTop, Top

\* The top route may be replaced, a dialog or not.
LEMMA SteadyReplace ==
  ASSUME NEW n, Steady(n), NEW route \in ARoute
  PROVE  Steady(Replace(n, route)) /\ OnTop(Replace(n, route), route.name)
<1>1. LET m == Replace(n, route)
      IN  /\ m \in ANavigator /\ Len(m.stack) = Len(n.stack)
          /\ Len(n.stack) \in Nat \ {0}
          /\ m.stack[Len(n.stack)] = route
          /\ \A i \in 1..Len(n.stack) - 1 : m.stack[i] = n.stack[i]
  BY ReplaceNav DEF Steady
<1>2. Replace(n, route).stack # <<>>
  BY <1>1
<1> QED BY <1>1, <1>2 DEF Steady, OnTop, Top

\* Letting go of routes moves none.
LEMMA SteadyRelease ==
  ASSUME NEW n, Steady(n), NEW run, NEW kept
  PROVE  /\ Steady(Release(n, run, kept))
         /\ \A name : OnTop(Release(n, run, kept), name) <=> OnTop(n, name)
<1>1. LET m == Release(n, run, kept)
      IN  /\ m \in ANavigator /\ Len(m.stack) = Len(n.stack) /\ Len(n.stack) \in Nat
          /\ \A i \in 1..Len(n.stack) : m.stack[i].name = n.stack[i].name
  BY ReleaseNav DEF Steady
<1>2. Len(n.stack) \in Nat \ {0}
  BY EmptySeq DEF Steady, ANavigator
<1>3. Release(n, run, kept).stack # <<>>
  BY <1>1, <1>2
<1> QED BY <1>1, <1>2, <1>3 DEF Steady, OnTop, Top

\* A run that starts on the top page holds it.
LEMMA SteadyHold ==
  ASSUME NEW n, Steady(n), NEW page, OnTop(n, page), page # "dialog", NEW run \in Runs
  PROVE  LET m == Hold(n, run)
         IN  Steady(m) /\ OnTop(m, page) /\ ~OnTop(m, "dialog") /\ run \in Top(m).of
<1> DEFINE k == Len(n.stack)
<1>1. PICK m \in ANavigator :
        /\ m = Hold(n, run) /\ Len(m.stack) = k /\ k \in Nat \ {0}
        /\ \A i \in 1..k : m.stack[i].name = n.stack[i].name
        /\ run \in m.stack[k].of
  BY HoldNav DEF Steady
<1>2. m.stack # <<>> /\ k \in 1..k
  BY <1>1
<1>3. Steady(m)
  BY <1>1, <1>2 DEF Steady
<1>4. Top(m).name = page /\ run \in Top(m).of
  BY <1>1, <1>2 DEF Top, OnTop
<1> QED BY <1>1, <1>2, <1>3, <1>4 DEF OnTop

\* A run that holds the top page is under the dialog it shows.
LEMMA DialogUnder ==
  ASSUME NEW n, Steady(n), NEW page, OnTop(n, page), page # "dialog",
         NEW run \in Runs, run \in Top(n).of
  PROVE  LET m == Push(n, Route("dialog", {run}))
         IN  Steady(m) /\ Under(m, run, page)
<1> DEFINE k == Len(n.stack)
<1>1. Route("dialog", {run}) \in ARoute /\ ~OnTop(n, "dialog") /\ n.stack # <<>>
  BY RoutesTyped DEF OnTop
<1>2. PICK m \in ANavigator :
        /\ m = Push(n, Route("dialog", {run})) /\ Len(m.stack) = k + 1 /\ k \in Nat
        /\ m.stack[k + 1] = Route("dialog", {run})
        /\ \A i \in 1..k : m.stack[i] = n.stack[i]
  BY <1>1, PushNav DEF Steady
<1>3. k \in Nat \ {0}
  BY <1>1, EmptySeq DEF Steady, ANavigator
<1>4. Steady(m)
  BY <1>1, <1>2, SteadyPush
<1>5. m.stack[k].name = page /\ run \in m.stack[k].of
  <2>1. k \in 1..k
    BY <1>3
  <2>2. m.stack[k] = n.stack[k]
    BY <1>2, <2>1
  <2> QED BY <2>2 DEF OnTop, Top
<1>6. Under(m, run, page)
  BY <1>2, <1>3, <1>5 DEF Under
<1> QED BY <1>2, <1>4, <1>6

\* The navigator of a start has the splash screen alone.
LEMMA StartSteady == Steady(Start) /\ OnTop(Start, "init") /\ ~OnTop(Start, "dialog")
<1>1. Start.stack = <<Route("init", {Frame})>> /\ Start.leaving = {}
  BY DEF Start
<1>2. Start \in ANavigator
  BY <1>1, RoutesTyped DEF Start, ANavigator
<1> QED BY <1>1, <1>2 DEF Steady, OnTop, Top, Route

\* The invariant holds at the start.
LEMMA ModalInit == Init => MInv
<1> SUFFICES ASSUME Init PROVE MInv
  OBVIOUS
<1>1. /\ nav = Start /\ checking = TRUE /\ prefs.auth = FALSE
      /\ login = [t \in Logins |-> NoLogin] /\ register = [g \in Registers |-> "idle"]
  BY DEF Init
<1>2. /\ \A t \in Logins : ~Shown(t)
      /\ \A g \in Registers : ~Registering(g) /\ register[g] = "idle"
  BY <1>1 DEF Shown, NoLogin, Registering
<1>3. login \in [Logins -> ALogin] /\ register \in [Registers -> Stages]
  BY <1>1 DEF NoLogin, ALogin, Users, Stages
<1> QED BY <1>1, <1>2, <1>3, StartSteady DEF MInv, Modal, Agreed

\* Of a step of a login, the one whose dialog it is: nothing but its own end can
\* remove the dialog, and it throws only before the preferences are loaded.
LEMMA LoginModal ==
  ASSUME MInv, NEW t \in Logins, LoginStep(t)
  PROVE  /\ MInv'
         /\ login[t].stage \in {"delay", "accepted", "rejected"} /\ login'[t].stage = "threw"
              => ~prefsSet
         /\ \A u \in Logins \ {t} : login'[u] = login[u]
<1>0. UNCHANGED <<register, openings>>
  BY DEF LoginStep, LoginAnswered, LoginGarbled, AcceptLogin, RejectLogin, FinishLogin,
         DismissLogin, pages
<1>1. login[t].stage \in {"posting", "delay", "accepted", "rejected"}
  BY DEF LoginStep, LoginAnswered, LoginGarbled, AcceptLogin, RejectLogin, FinishLogin, DismissLogin
<1>2. /\ Shown(t) /\ Steady(nav) /\ Under(nav, t, "login") /\ pr = t /\ t # None
      /\ \A u \in Logins : Shown(u) => u = t
      /\ \A g \in Registers : register[g] = "idle"
      /\ register \in [Registers -> Stages]
      /\ ~checking /\ ~(openings > 0) /\ OnTop(nav, "dialog") /\ Len(nav.stack) > 1
  BY <1>1, OneShown DEF Shown, MInv, Modal, Under
<1>3. CanHide(pr) /\ HasPage(Pop(nav), t)
  BY <1>2, DialogThere DEF CanHide
<1>4. ASSUME NEW stage \in {"delay", "accepted", "rejected", "threw"}, LoginAt(t, stage) \/ EndLogin(t, stage),
             UNCHANGED <<pr, nav, checking>>,
             stage = "accepted" \/ UNCHANGED <<prefs, userModel>>,
             login[t].stage # "accepted"
      PROVE  MInv'
  <2>1. /\ login' \in [Logins -> ALogin] /\ login'[t].stage = stage
        /\ \A u \in Logins \ {t} : login'[u] = login[u]
    BY <1>4 DEF LoginAt, EndLogin, MInv, ALogin, NoLogin, Users
  <2>2. Shown(t)' /\ \A u \in Logins : Shown(u)' => u = t
    BY <1>2, <2>1 DEF Shown
  <2>3. Modal'
    BY <1>0, <1>2, <1>4, <2>2 DEF Modal, Registering
  <2>4. Agreed'
    BY <1>0, <1>2, <1>4, <2>1 DEF Agreed, MInv, Shown
  <2> QED BY <1>0, <1>2, <2>1, <2>3, <2>4 DEF MInv
<1>5. ASSUME EndLogin(t, "idle"), Steady(nav'), ~OnTop(nav', "dialog"), UNCHANGED <<prefs, checking>>,
             userModel' = prefs.user \/ (UNCHANGED userModel /\ login[t].stage # "accepted")
      PROVE  MInv'
  <2>1. /\ login' \in [Logins -> ALogin] /\ login'[t].stage = "idle"
        /\ \A u \in Logins \ {t} : login'[u] = login[u]
    BY <1>5 DEF EndLogin, MInv, ALogin, NoLogin, Users
  <2>2. \A u \in Logins : ~Shown(u)'
    BY <1>2, <2>1 DEF Shown
  <2>3. Modal'
    BY <1>0, <1>2, <1>5, <2>2 DEF Modal, Registering
  <2>4. Agreed'
    BY <1>0, <1>2, <1>5, <2>1 DEF Agreed, MInv, Shown
  <2> QED BY <1>0, <1>2, <2>1, <2>3, <2>4 DEF MInv
<1>6. Steady(Pop(nav)) /\ ~OnTop(Pop(nav), "dialog")
  BY <1>2, SteadyPop
<1>7. CASE LoginAnswered(t) \/ LoginGarbled(t)
  <2>1. LoginAt(t, "delay") \/ EndLogin(t, "threw")
    BY <1>7 DEF LoginAnswered, LoginGarbled
  <2>2. UNCHANGED <<prefs, userModel, pr, nav, checking>> /\ login[t].stage = "posting"
    BY <1>7 DEF LoginAnswered, LoginGarbled, agentVars
  <2>3. MInv'
    BY <1>4, <2>1, <2>2
  <2> QED BY <2>1, <2>2, <2>3 DEF LoginAt, EndLogin, MInv
<1>8. CASE AcceptLogin(t)
  <2>1. /\ login[t].stage = "delay" /\ UNCHANGED <<pr, nav, checking, userModel>>
        /\ \/ prefsSet /\ LoginAt(t, "accepted")
           \/ ~prefsSet /\ UNCHANGED prefs /\ EndLogin(t, "threw")
    BY <1>2, <1>8 DEF AcceptLogin, agentVars
  <2>2. MInv'
    BY <1>4, <2>1
  <2> QED BY <2>1, <2>2 DEF LoginAt, EndLogin, MInv, ALogin
<1>9. CASE RejectLogin(t)
  <2>1. /\ login[t].stage = "delay" /\ UNCHANGED <<prefs, pr, nav, checking, userModel>>
        /\ LoginAt(t, "rejected")
    BY <1>2, <1>9 DEF RejectLogin, agentVars
  <2>2. MInv'
    BY <1>4, <2>1
  <2> QED BY <2>1, <2>2 DEF LoginAt, MInv, ALogin
<1>10. CASE FinishLogin(t)
  <2> DEFINE n == Release(Replace(Pop(nav), Route("main", {})), t, {"dialog"})
  <2>1. /\ userModel' = prefs.user /\ nav' = n /\ EndLogin(t, "idle")
        /\ UNCHANGED <<prefs, checking>>
    BY <1>3, <1>10 DEF FinishLogin
  <2>2. Route("main", {}) \in ARoute /\ Route("main", {}).name = "main"
    BY RoutesTyped DEF Screens, Route
  <2>3. /\ Steady(Replace(Pop(nav), Route("main", {})))
        /\ OnTop(Replace(Pop(nav), Route("main", {})), "main")
    BY <1>6, <2>2, SteadyReplace
  <2>4. Steady(n) /\ OnTop(n, "main")
    BY <2>3, SteadyRelease
  <2>5. Steady(nav') /\ ~OnTop(nav', "dialog")
    BY <2>1, <2>4 DEF OnTop
  <2>6. MInv'
    BY <1>5, <2>1, <2>5
  <2> QED BY <2>1, <2>6 DEF EndLogin, MInv, ALogin, NoLogin
<1>11. CASE DismissLogin(t)
  <2>1. /\ nav' = Release(Pop(nav), t, {"dialog"}) /\ EndLogin(t, "idle") /\ login[t].stage = "rejected"
        /\ UNCHANGED <<prefs, checking, userModel>>
    BY <1>3, <1>11 DEF DismissLogin, agentVars
  <2>2. Steady(nav') /\ ~OnTop(nav', "dialog")
    BY <1>6, <2>1, SteadyRelease
  <2>3. MInv'
    BY <1>5, <2>1, <2>2
  <2> QED BY <2>1, <2>3 DEF EndLogin, MInv, ALogin, NoLogin
<1> QED BY <1>7, <1>8, <1>9, <1>10, <1>11 DEF LoginStep

\* A step of a registration whose dialog is on top changes no account stored, and
\* leaves it there or takes it away with the run.
LEMMA RegisterModal ==
  ASSUME MInv, NEW g \in Registers, RegisterStep(g)
  PROVE  MInv'
<1> USE DEF RegisterAt
<1>1. /\ register[g] \in {"pause", "posting", "accepted", "rejected"}
      /\ UNCHANGED <<login, prefs, checking>>
  BY DEF RegisterStep, ShowRegister, RegisterAccepted, RegisterRefused, FinishRegister, agentVars, tasks
<1>2. /\ \A t \in Logins : ~Shown(t)
      /\ \A h \in Registers \ {g} : register[h] = "idle"
      /\ ~checking /\ ~prefs.auth /\ Steady(nav)
      /\ login \in [Logins -> ALogin] /\ register \in [Registers -> Stages]
  BY <1>1, OneRegistering DEF MInv, Modal, Agreed
<1>3. /\ \A t \in Logins : ~Shown(t)'
      /\ ~checking' /\ Agreed' /\ login' \in [Logins -> ALogin]
  BY <1>1, <1>2 DEF Shown, Agreed
<1>4. ASSUME NEW stage \in Stages \ {"idle", "pause"}, RegisterAt(g, stage),
             Steady(nav'), Under(nav', g, "register")
      PROVE  MInv'
  <2>1. /\ register' \in [Registers -> Stages] /\ register'[g] = stage
        /\ \A h \in Registers \ {g} : register'[h] = "idle"
    BY <1>2, <1>4
  <2>2. Modal'
    BY <1>3, <1>4, <2>1 DEF Modal, Registering
  <2> QED BY <1>3, <2>1, <2>2 DEF MInv
<1>5. ASSUME RegisterAt(g, "idle"), Steady(nav'), ~OnTop(nav', "dialog")
      PROVE  MInv'
  <2>1. register' \in [Registers -> Stages] /\ \A h \in Registers : register'[h] = "idle"
    BY <1>2, <1>5 DEF Stages
  <2>2. Modal'
    BY <1>3, <1>5, <2>1 DEF Modal, Registering
  <2> QED BY <1>3, <2>1, <2>2 DEF MInv
<1>6. CASE ShowRegister(g)
  <2>1. Waiting(nav, g)
    BY <1>6 DEF ShowRegister, MInv, Modal
  <2>2. nav' = Push(nav, Route("dialog", {g})) /\ RegisterAt(g, "posting")
    BY <1>2, <1>6, <2>1, PageThere DEF ShowRegister
  <2>3. Steady(nav') /\ Under(nav', g, "register")
    BY <1>2, <2>1, <2>2, DialogUnder DEF Waiting, Runs
  <2> QED BY <1>4, <2>2, <2>3 DEF Stages
<1>7. CASE register[g] # "pause"
  <2>1. Under(nav, g, "register") /\ HasDialog(nav, g) /\ HasPage(nav, g) /\ HasPage(Pop(nav), g)
    <3>1. Under(nav, g, "register")
      BY <1>1, <1>7 DEF MInv, Modal, Registering
    <3> QED BY <1>2, <3>1, DialogThere
  <2>2. CASE nav' = nav /\ \E stage \in {"accepted", "rejected", "threw"} : RegisterAt(g, stage)
    BY <1>2, <1>4, <2>1, <2>2 DEF Stages
  <2>3. ASSUME NEW a \in Accounts, RegisterAccepted(g, a) PROVE MInv'
    BY <2>2, <2>3 DEF RegisterAccepted
  <2>4. CASE RegisterRefused(g)
    BY <2>2, <2>4 DEF RegisterRefused
  <2>5. CASE FinishRegister(g)
    <3>1. CASE g = None
      BY <2>2, <2>5, <3>1 DEF FinishRegister, CanHide
    <3>2. CASE g # None
      <4> DEFINE left == Release(Pop(nav), g, {})
                 login_page == Release(Replace(Pop(nav), Route("login", {})), g, {})
      <4>1. nav' \in {left, login_page} /\ RegisterAt(g, "idle")
        BY <1>1, <2>1, <2>5, <3>2 DEF FinishRegister, CanHide
      <4>2. Steady(Pop(nav)) /\ ~OnTop(Pop(nav), "dialog")
        BY <1>2, <2>1, SteadyPop DEF Under
      <4>3. Steady(left) /\ ~OnTop(left, "dialog")
        BY <4>2, SteadyRelease
      <4>4. Steady(login_page) /\ ~OnTop(login_page, "dialog")
        <5>1. Route("login", {}) \in ARoute /\ Route("login", {}).name = "login"
          BY RoutesTyped DEF Screens, Route
        <5>2. /\ Steady(Replace(Pop(nav), Route("login", {})))
              /\ OnTop(Replace(Pop(nav), Route("login", {})), "login")
          BY <4>2, <5>1, SteadyReplace
        <5>3. Steady(login_page) /\ OnTop(login_page, "login")
          BY <5>2, SteadyRelease
        <5> QED BY <5>3 DEF OnTop
      <4> QED BY <1>5, <4>1, <4>3, <4>4
    <3> QED BY <3>1, <3>2
  <2> QED BY <1>7, <2>3, <2>4, <2>5 DEF RegisterStep, ShowRegister
<1> QED BY <1>6, <1>7 DEF RegisterStep, RegisterAccepted, RegisterRefused, FinishRegister

\* A step with no run under way, before or after it, only has to keep the navigator
\* steady and the account shown.
LEMMA IdleStep ==
  ASSUME MInv, NoRun, UNCHANGED <<login, register>>,
         Steady(nav'), ~OnTop(nav', "dialog"), checking' => OnTop(nav', "init"),
         prefs'.auth => userModel' = prefs'.user
  PROVE  MInv'
<1>1. /\ \A t \in Logins : ~Shown(t)'
      /\ \A g \in Registers : ~Registering(g)' /\ register'[g] = "idle"
  BY DEF NoRun, Shown, Registering
<1> QED BY <1>1 DEF MInv, Modal, Agreed

\* The invariant is inductive, for a calm user.
LEMMA ModalNext ==
  ASSUME MInv, [Next /\ Calm]_vars
  PROVE  MInv'
<1> USE RoutesTyped DEF Screens
<1>1. ASSUME NEW name, OnTop(nav, name), name # "dialog",
             \A g \in Registers : register[g] # "pause"
      PROVE  /\ NoRun /\ Steady(nav) /\ ~OnTop(nav, "dialog")
             /\ prefs.auth => userModel = prefs.user
  <2>1. NoRun
    BY <1>1, NoneShown DEF MInv
  <2> QED BY <1>1, <2>1 DEF MInv, Modal, OnTop, NoRun, Shown, Agreed
<1>2. CASE /\ nav' = nav \/ \E route : nav' = Unmount(nav, route)
           /\ UNCHANGED <<login, register, pr, checking, openings, prefs, userModel>>
  <2>1. nav' \in ANavigator /\ nav'.stack = nav.stack
    BY <1>2, NavTyped DEF MInv, Modal, Steady
  <2> QED BY <1>2, <2>1
          DEF MInv, Modal, Steady, Under, Waiting, OnTop, Top, Shown, Registering, Agreed
<1>3. CASE CheckAuth
  <2>1. OnTop(nav, "init") /\ \A g \in Registers : register[g] # "pause"
    BY <1>3 DEF CheckAuth, MInv, Modal, Waiting, OnTop
  <2>2. nav' = nav \/ nav' = Release(Replace(nav, Route("main", {})), Frame, {})
    BY <1>3 DEF CheckAuth
  <2>3. OnTop(Replace(nav, Route("main", {})), "main") /\ Steady(Replace(nav, Route("main", {})))
    BY SteadyReplace DEF MInv, Modal, Route
  <2>4. Steady(nav') /\ ~OnTop(nav', "dialog")
    BY <1>1, <2>1, <2>2, <2>3, SteadyRelease DEF OnTop
  <2>5. /\ ~checking' /\ UNCHANGED <<login, register, prefs>>
        /\ userModel' = userModel \/ userModel' = prefs.user
    BY <1>3 DEF CheckAuth
  <2> QED BY <1>1, <2>1, <2>4, <2>5, IdleStep
<1>4. ASSUME User, Calm PROVE MInv'
  <2>1. \A g \in Registers : register[g] # "pause"
    BY <1>4 DEF Calm
  <2>2. ASSUME NEW name, OnTop(nav, name), name # "dialog", NEW page \in Screens \ {"dialog"},
               nav' = Push(nav, Route(page, {})), ~checking,
               UNCHANGED <<checking, login, register, prefs, userModel>>
        PROVE  MInv'
    <3>1. Steady(nav') /\ OnTop(nav', page)
      BY <1>1, <2>1, <2>2, SteadyPush DEF Route
    <3>2. ~OnTop(nav', "dialog")
      BY <3>1 DEF OnTop
    <3> QED BY <1>1, <2>1, <2>2, <3>1, <3>2, IdleStep
  <2>3. CASE TapAccount
    <3>1. /\ OnTop(nav, "main") /\ ~checking
          /\ UNCHANGED <<checking, login, register, prefs, userModel>>
          /\ nav' = Push(nav, Route("login", {})) \/ nav' = Push(nav, Route("settings", {}))
      BY <2>3 DEF TapAccount, Deepen, Acts, Drawn
    <3> QED BY <2>2, <3>1
  <2>4. CASE TapLink
    <3>1. /\ OnTop(nav, "login") /\ ~checking
          /\ UNCHANGED <<checking, login, register, prefs, userModel>>
          /\ nav' = Push(nav, Route("register", {})) \/ nav' = Push(nav, Route("recovery", {}))
      BY <2>4 DEF TapLink, Deepen, Acts, Drawn, tasks
    <3> QED BY <2>2, <3>1
  <2>5. CASE TapLogout
    <3>1. OnTop(nav, "settings") /\ nav' = Replace(nav, Route("init", {Frame}))
      BY <2>5 DEF TapLogout
    <3>2. Steady(nav') /\ OnTop(nav', "init")
      BY <3>1, SteadyReplace DEF MInv, Modal, Route
    <3>3. UNCHANGED <<login, register, userModel>> /\ ~prefs'.auth
      <4>1. prefs' = [prefs EXCEPT !.auth = FALSE]
        BY <2>5 DEF TapLogout
      <4> QED BY <2>5, <4>1 DEF TapLogout
    <3>4. ~OnTop(nav', "dialog")
      BY <3>2 DEF OnTop
    <3> QED BY <1>1, <2>1, <3>1, <3>2, <3>3, <3>4, IdleStep
  <2>6. CASE Back
    <3>1. /\ Len(nav.stack) > 1 /\ ~checking /\ ~OnTop(nav, "dialog") /\ nav' = Pop(nav)
          /\ UNCHANGED <<checking, login, register, prefs, userModel>>
      BY <1>4, <2>6 DEF Back, Calm, Drawn, tasks
    <3>2. Steady(nav') /\ ~OnTop(nav', "dialog")
      BY <3>1, SteadyPop DEF MInv, Modal
    <3>3. OnTop(nav, Top(nav).name) /\ Top(nav).name # "dialog"
      BY <3>1 DEF OnTop, MInv, Modal, Steady
    <3> QED BY <1>1, <2>1, <3>1, <3>2, <3>3, IdleStep
  <2>7. ASSUME NEW t \in Logins, NEW a \in Accounts, TapLogin(t, a) PROVE MInv'
    <3>1. /\ OnTop(nav, "login") /\ pr' = t /\ ~checking
          /\ ~(openings' > 0) /\ UNCHANGED <<checking, register, prefs, userModel>>
          /\ nav' = Push(Hold(nav, t), Route("dialog", {t}))
          /\ login' = [login EXCEPT ![t] = [stage |-> "posting", typed |-> a]]
      BY <2>7 DEF TapLogin, Acts, Drawn, pages
    <3>2. NoRun /\ Steady(nav) /\ (prefs.auth => userModel = prefs.user)
      BY <1>1, <2>1, <3>1
    <3>3. Steady(nav') /\ Under(nav', t, "login")
      <4>1. /\ Steady(Hold(nav, t)) /\ OnTop(Hold(nav, t), "login")
            /\ t \in Top(Hold(nav, t)).of /\ t \in Runs
        BY <3>1, <3>2, SteadyHold DEF Runs
      <4> QED BY <3>1, <4>1, DialogUnder
    <3>4. /\ login' \in [Logins -> ALogin] /\ login'[t].stage = "posting"
          /\ \A u \in Logins \ {t} : login'[u] = login[u]
      BY <3>1 DEF MInv, ALogin, Users
    <3>5. /\ Shown(t)' /\ \A u \in Logins : Shown(u)' => u = t
          /\ \A g \in Registers : ~Registering(g)' /\ register'[g] = "idle"
      BY <3>1, <3>2, <3>4 DEF NoRun, Shown, Registering
    <3>6. Modal'
      BY <3>1, <3>3, <3>5 DEF Modal
    <3>7. Agreed'
      BY <3>1, <3>2, <3>5 DEF Agreed
    <3> QED BY <3>1, <3>4, <3>6, <3>7 DEF MInv
  <2>8. ASSUME NEW g \in Registers, TapSubmit(g) PROVE MInv'
    <3>1. /\ OnTop(nav, "register") /\ nav' = Hold(nav, g) /\ ~checking /\ ~prefs.auth
          /\ UNCHANGED <<login, prefs, checking>>
          /\ register' = [register EXCEPT ![g] = "pause"]
      BY <1>4, <2>8 DEF TapSubmit, Acts, Drawn, Calm, RegisterAt
    <3>2. NoRun /\ Steady(nav)
      BY <1>1, <2>1, <3>1
    <3>3. Steady(nav') /\ Waiting(nav', g) /\ ~OnTop(nav', "dialog")
      BY <3>1, <3>2, SteadyHold DEF Waiting, Runs
    <3>4. /\ register' \in [Registers -> Stages] /\ register'[g] = "pause"
          /\ \A h \in Registers \ {g} : register'[h] = "idle"
      BY <3>1, <3>2 DEF MInv, Stages, NoRun
    <3>5. /\ \A t \in Logins : ~Shown(t)'
          /\ \A h \in Registers : ~Registering(h)'
      BY <3>1, <3>2, <3>4 DEF NoRun, Shown, Registering
    <3>6. Modal'
      BY <3>1, <3>3, <3>4, <3>5 DEF Modal
    <3> QED BY <3>1, <3>4, <3>6 DEF MInv, Agreed
  <2> QED BY <1>4, <2>3, <2>4, <2>5, <2>6, <2>7, <2>8 DEF User
<1>5. ASSUME NEW t \in Logins, LoginStep(t) PROVE MInv'
  BY <1>5, LoginModal
<1>6. ASSUME NEW g \in Registers, RegisterStep(g) PROVE MInv'
  BY <1>6, RegisterModal
<1>7. CASE Restart
  <2>1. /\ nav' = Start /\ checking' = TRUE /\ prefs'.auth = FALSE
        /\ login' = [t \in Logins |-> NoLogin] /\ register' = [g \in Registers |-> "idle"]
    BY <1>7 DEF Restart
  <2>2. /\ \A t \in Logins : ~Shown(t)'
        /\ \A g \in Registers : ~Registering(g)' /\ register'[g] = "idle"
    BY <2>1 DEF Shown, NoLogin, Registering
  <2>3. login' \in [Logins -> ALogin] /\ register' \in [Registers -> Stages]
    BY <2>1 DEF NoLogin, ALogin, Users, Stages
  <2> QED BY <2>1, <2>2, <2>3, StartSteady DEF MInv, Modal, Agreed
<1>8. CASE LoginPagesBuilt
  <2>1. /\ \A t \in Logins : ~Shown(t)
        /\ UNCHANGED <<login, register, nav, checking, prefs, userModel>>
    BY <1>8 DEF LoginPagesBuilt, MInv, Modal
  <2> QED BY <2>1 DEF MInv, Modal, Shown, Registering, Agreed
<1> QED BY <1>2, <1>3, <1>4, <1>5, <1>6, <1>7, <1>8
        DEF Next, Step, TransitionEnds, InitAuthLoads, InitAuthThrows, vars, pages, tasks,
            agentVars

\* A calm user keeps the invariant.
LEMMA ModalInvariance == CalmSpec => []MInv
BY ModalInit, ModalNext, PTL DEF CalmSpec

\* What is true of every behaviour is true of a calm user's.
LEMMA CalmIsSpec == CalmSpec => Spec
<1>1. [Next /\ Calm]_vars => [Next]_vars
  OBVIOUS
<1> QED BY <1>1, PTL DEF CalmSpec, Spec

\* However many logins and registrations there are, on any stack of pages, a calm user
\* sees one at a time, under its dialog, and the field pr is that of the login.
THEOREM DialogIsModalWhenCalm == CalmSpec => []DialogIsModal
<1>1. MInv => DialogIsModal
  <2> SUFFICES ASSUME MInv PROVE DialogIsModal
    OBVIOUS
  <2>1. \A t \in Logins : Shown(t) => Top(nav) = Route("dialog", {t}) /\ pr = t
    BY DEF MInv, Modal, Under, Top
  <2>2. \A g \in Registers : Registering(g) => Top(nav) = Route("dialog", {g})
    BY DEF MInv, Modal, Under, Top
  <2>3. \A t, u \in Logins : Shown(t) /\ Shown(u) => t = u
    BY OneShown DEF MInv
  <2> QED BY <2>1, <2>2, <2>3 DEF DialogIsModal, MInv, Modal
<1> QED BY <1>1, ModalInvariance, PTL

\* Between two logins, a calm user who is signed in sees the account stored.
THEOREM SessionAgreesWhenCalm == CalmSpec => []SessionAgrees
<1>1. MInv => SessionAgrees
  BY DEF MInv, Agreed, SessionAgrees, Shown
<1> QED BY <1>1, ModalInvariance, PTL

\* For a calm user, a login that the server has answered throws for one reason only:
\* initAuth has not loaded the preferences.
THEOREM ThrowsOnlyUnreadyWhenCalm == CalmSpec => ThrowsOnlyUnready
<1> DEFINE Ready(t) ==
      login[t].stage \in {"delay", "accepted", "rejected"} /\ login'[t].stage = "threw"
        => ~prefsSet
<1>1. ASSUME MInv, [Next]_vars PROVE \A t \in Logins : Ready(t)
  <2>1. ASSUME NEW u \in Logins, LoginStep(u) PROVE \A t \in Logins : Ready(t)
    <3>1. Ready(u) /\ \A t \in Logins \ {u} : login'[t] = login[t]
      BY <1>1, <2>1, LoginModal
    <3> QED BY <3>1
  <2>2. ASSUME NEW u \in Logins, NEW a \in Accounts, TapLogin(u, a)
        PROVE  \A t \in Logins : Ready(t)
    BY <1>1, <2>2 DEF TapLogin, MInv
  <2>3. CASE Restart
    BY <2>3 DEF Restart, NoLogin
  <2>4. CASE UNCHANGED login
    BY <2>4
  <2>5. ASSUME NEW g \in Registers, RegisterStep(g) \/ TapSubmit(g) PROVE UNCHANGED login
    BY <2>5 DEF RegisterStep, ShowRegister, RegisterAccepted, RegisterRefused, FinishRegister,
                TapSubmit
  <2> QED BY <1>1, <2>1, <2>2, <2>3, <2>4, <2>5
          DEF Next, Step, User, CheckAuth, TapAccount, TapLink, TapLogout, Back,
              TransitionEnds, LoginPagesBuilt, InitAuthLoads, InitAuthThrows, vars, tasks
<1>2. MInv /\ [Next]_vars => [\A t \in Logins : Ready(t)]_vars
  BY <1>1
<1> QED BY <1>2, ModalInvariance, CalmIsSpec, PTL DEF Spec, ThrowsOnlyUnready

\* The runs of login do not overlap.
Alone == \A t, u \in Logins : Shown(t) /\ Shown(u) => t = u

\* The field response holds the answer to the run that waits behind the delay.
Own ==
  ~fellBack => \A t \in Logins :
                 /\ login[t].stage = "delay" /\ response \in Accounts => response = login[t].typed
                 /\ login[t].stage = "accepted" => prefs.user = login[t].typed

\* A step keeps what a run answered is its own, while the runs do not overlap.
LEMMA OwnKept ==
  ASSUME Typed, Alone, Own, [Next]_vars
  PROVE  Own'
<1> USE SessionConstants DEF LoginAt, EndLogin, NoLogin, agentVars, tasks, served
<1>1. ASSUME NEW t \in Logins, LoginStep(t) PROVE Own'
  <2>1. /\ login \in [Logins -> ALogin]
        /\ \A u \in Logins \ {t} : login'[u] = login[u] /\ (login[t].stage # "idle" => ~Shown(u))
    BY <1>1 DEF Typed, Alone, Shown, LoginStep, LoginAnswered, LoginGarbled, AcceptLogin,
                RejectLogin, FinishLogin, DismissLogin
  <2>2. login[t].stage # "idle" /\ \A u \in Logins \ {t} : login'[u].stage = "idle"
    BY <1>1, <2>1 DEF Shown, LoginStep, LoginAnswered, LoginGarbled, AcceptLogin,
                      RejectLogin, FinishLogin, DismissLogin
  <2>3. SUFFICES ASSUME ~fellBack'
                 PROVE  /\ login'[t].stage = "delay" /\ response' \in Accounts
                             => response' = login'[t].typed
                        /\ login'[t].stage = "accepted" => prefs'.user = login'[t].typed
    BY <2>2 DEF Own
  <2>4. CASE LoginAnswered(t)
    BY <2>1, <2>3, <2>4 DEF LoginAnswered, Confirmed, Refused, FallenBack, ALogin
  <2>5. CASE AcceptLogin(t)
    <3>1. login[t].stage = "delay" /\ response \in Accounts /\ ~fellBack
      BY <2>3, <2>5 DEF AcceptLogin
    <3>2. response = login[t].typed
      BY <3>1 DEF Own
    <3>3. CASE login'[t].stage = "accepted"
      <4>1. prefs' = [auth |-> TRUE, user |-> response]
            /\ login' = [login EXCEPT ![t].stage = "accepted"]
        BY <2>1, <2>5, <3>3 DEF AcceptLogin, ALogin
      <4> QED BY <2>1, <3>2, <4>1 DEF ALogin
    <3> QED BY <2>1, <2>5, <3>3 DEF AcceptLogin, ALogin
  <2>6. CASE LoginGarbled(t) \/ RejectLogin(t) \/ FinishLogin(t) \/ DismissLogin(t)
    BY <2>1, <2>6 DEF LoginGarbled, RejectLogin, FinishLogin, DismissLogin, ALogin
  <2> QED BY <1>1, <2>4, <2>5, <2>6 DEF LoginStep
<1>2. ASSUME NEW t \in Logins, NEW a \in Accounts, TapLogin(t, a) PROVE Own'
  BY <1>2 DEF TapLogin, Own, Typed, ALogin
<1>3. ASSUME NEW g \in Registers, RegisterStep(g) PROVE Own'
  BY <1>3 DEF RegisterStep, ShowRegister, RegisterAccepted, RegisterRefused, FinishRegister,
              Confirmed, Refused, FallenBack, Own
<1>4. CASE Restart
  BY <1>4 DEF Restart, Own
<1>5. CASE TapLogout
  <2>1. prefs'.user = prefs.user /\ UNCHANGED <<login, response, fellBack>>
    BY <1>5 DEF TapLogout, Typed
  <2> QED BY <2>1 DEF Own
<1>6. CASE UNCHANGED <<prefs, login, response, fellBack>>
  BY <1>6 DEF Own
<1> QED BY <1>1, <1>2, <1>3, <1>4, <1>5, <1>6
        DEF Next, Step, User, CheckAuth, TapAccount, TapLink, Back, TransitionEnds,
            LoginPagesBuilt, InitAuthLoads, InitAuthThrows, TapSubmit, vars

\* While the runs of login do not overlap, the account one announces is the one its own
\* request was for, though the answer waits for a second in a field that all share.
LEMMA OwnWhileAlone == Spec /\ []Alone => []OwnAccount
<1>1. Init => Own
  BY DEF Init, Own, NoLogin
<1>2. AInv /\ Alone /\ Own /\ [Next]_vars => Own'
  BY OwnKept DEF AInv
<1>3. Own => OwnAccount
  BY DEF Own, OwnAccount
<1> QED BY <1>1, <1>2, <1>3, AInvariance, PTL DEF Spec

\* Any number of logins of a calm user store the account they were for, as the dialog
\* keeps them apart.
THEOREM OwnAccountWhenCalm == CalmSpec => []OwnAccount
<1>1. MInv => Alone
  BY OneShown DEF MInv, Alone
<1> QED BY <1>1, ModalInvariance, CalmIsSpec, OwnWhileAlone, PTL

-----------------------------------------------------------------------------
(* Every login and every registration ends.  The prover knows nothing of   *)
(* ENABLED, so the fairness is stated with the conditions under which the  *)
(* steps are enabled.                                                      *)

\* The step of login t that comes next is enabled: its post can be answered, or its
\* timer fires.
CanGoOn(t) ==
  \/ login[t].stage \in {"posting", "accepted", "rejected"}
  \/ login[t].stage = "delay" /\ response \in Accounts \cup {Rejected}

\* The timeout of its post and its timers fire, as WF_vars(LoginStep(t)) says in FairSpec.
LoginGoesOn(t) == []<>~CanGoOn(t) \/ []<><<LoginStep(t)>>_vars

\* Behind the delay of a login the field response holds an answer, this one's or that
\* of another login: nobody resets it.
AnswerHeld ==
  \A t \in Logins : login[t].stage = "delay" => response \in Accounts \cup {Rejected}

\* A login moves by its own steps only, unless the process ends.
LEMMA OwnStepOnly ==
  ASSUME TypeOK, NEW t \in Logins, Running(login[t].stage), [Next]_vars
  PROVE  LoginStep(t) \/ login'[t] = login[t] \/ ~Running(login'[t].stage)
<1>1. ASSUME NEW u \in Logins \ {t}, LoginStep(u) PROVE login'[t] = login[t]
  BY <1>1 DEF TypeOK, LoginStep, LoginAnswered, LoginGarbled, AcceptLogin, RejectLogin,
              FinishLogin, DismissLogin, LoginAt, EndLogin
<1>2. ASSUME NEW u \in Logins, NEW a \in Accounts, TapLogin(u, a)
      PROVE  login'[t] = login[t] \/ ~Running(login[t].stage)
  BY <1>2 DEF TypeOK, TapLogin, Running
<1>3. CASE Restart
  BY <1>3 DEF Restart, NoLogin, Running
<1>4. CASE UNCHANGED login
  BY <1>4
<1> QED BY <1>1, <1>2, <1>3, <1>4
        DEF Next, Step, User, CheckAuth, TapAccount, TapLink, TapLogout, Back, TransitionEnds,
            LoginPagesBuilt, InitAuthLoads, InitAuthThrows, TapSubmit, RegisterStep, ShowRegister,
            RegisterAccepted, RegisterRefused, FinishRegister, tasks, vars

\* Its own steps take it from the post to the delay, from there to the second delay,
\* and from there to the end, or end it at once.
LEMMA LoginAdvances ==
  ASSUME TypeOK, NEW t \in Logins, LoginStep(t)
  PROVE  \/ login[t].stage = "posting" /\ login'[t].stage = "delay"
         \/ login[t].stage = "delay" /\ login'[t].stage \in {"accepted", "rejected"}
         \/ ~Running(login'[t].stage)
<1> USE DEF TypeOK, ALogin, LoginAt, EndLogin, NoLogin, Running
<1>1. CASE LoginAnswered(t)
  BY <1>1 DEF LoginAnswered
<1>2. CASE LoginGarbled(t)
  BY <1>2 DEF LoginGarbled
<1>3. CASE AcceptLogin(t) \/ RejectLogin(t)
  BY <1>3 DEF AcceptLogin, RejectLogin
<1>4. CASE FinishLogin(t) \/ DismissLogin(t)
  BY <1>4 DEF FinishLogin, DismissLogin
<1> QED BY <1>1, <1>2, <1>3, <1>4 DEF LoginStep

\* The answer behind a delay stays until the delay is over, or a later one takes its place.
LEMMA AnswerKept ==
  ASSUME TypeOK, Typed, AnswerHeld, [Next]_vars
  PROVE  AnswerHeld'
<1>1. ASSUME NEW u \in Logins, LoginAnswered(u) PROVE response' \in Accounts \cup {Rejected}
  BY <1>1 DEF LoginAnswered, Confirmed, Refused, FallenBack, TypeOK, Typed
<1>2. CASE UNCHANGED response /\ \A t \in Logins : login'[t].stage = "delay" => login[t].stage = "delay"
  BY <1>2 DEF AnswerHeld
<1>3. ASSUME NEW u \in Logins,
             \/ LoginGarbled(u) \/ AcceptLogin(u) \/ RejectLogin(u) \/ FinishLogin(u)
             \/ DismissLogin(u) \/ \E a \in Accounts : TapLogin(u, a)
      PROVE  UNCHANGED response /\ \A t \in Logins : login'[t].stage = "delay" => login[t].stage = "delay"
  BY <1>3 DEF LoginGarbled, AcceptLogin, RejectLogin, FinishLogin, DismissLogin, TapLogin,
              LoginAt, EndLogin, NoLogin, TypeOK, ALogin, agentVars
<1>4. CASE Restart
  BY <1>4 DEF Restart, NoLogin, AnswerHeld
<1>5. CASE UNCHANGED <<response, login>>
  BY <1>5 DEF AnswerHeld
<1> QED BY <1>1, <1>2, <1>3, <1>4, <1>5
        DEF AnswerHeld, Next, Step, User, LoginStep, CheckAuth, TapAccount, TapLink, TapLogout,
            Back, TransitionEnds, LoginPagesBuilt, InitAuthLoads, InitAuthThrows, TapSubmit,
            RegisterStep,
            ShowRegister, RegisterAccepted, RegisterRefused, FinishRegister, agentVars, tasks, vars

\* Every login comes to an end if posts time out and timers fire, whichever dialogs are
\* gone by then and whatever other runs left in the fields of AgentUtil.
THEOREM LoginsEnd == Spec /\ (\A t \in Logins : LoginGoesOn(t)) => EveryLoginEnds
<1>1. Init => AnswerHeld
  BY DEF Init, AnswerHeld, NoLogin
<1>2. TypeOK /\ AInv /\ AnswerHeld /\ [Next]_vars => AnswerHeld'
  BY AnswerKept DEF AInv
<1>3. ASSUME NEW t \in Logins
      PROVE  Spec /\ LoginGoesOn(t)
             => (Running(login[t].stage) ~> ~Running(login[t].stage))
  <2> DEFINE late == login[t].stage \in {"accepted", "rejected"}
  <2>1. TypeOK /\ Running(login[t].stage)
        => login[t].stage = "posting" \/ login[t].stage = "delay" \/ late
    BY DEF TypeOK, ALogin, Running
  <2>2. AnswerHeld /\ (login[t].stage = "posting" \/ login[t].stage = "delay" \/ late)
        => CanGoOn(t)
    BY DEF AnswerHeld, CanGoOn
  <2>3. TypeOK /\ Running(login[t].stage) /\ [Next]_vars
        => \/ LoginStep(t)
           \/ (login[t].stage = "posting") /\ (login[t].stage = "posting")'
           \/ (login[t].stage = "delay") /\ (login[t].stage = "delay")'
           \/ late /\ late'
           \/ ~Running(login[t].stage)'
    BY <2>1, OwnStepOnly
  <2>4. TypeOK /\ LoginStep(t)
        => \/ login[t].stage = "posting" /\ (login[t].stage = "delay")'
           \/ login[t].stage = "delay" /\ late'
           \/ ~Running(login[t].stage)'
    BY LoginAdvances
  <2>5. (login[t].stage = "posting" \/ login[t].stage = "delay" \/ late)
        => Running(login[t].stage)
    BY DEF Running
  <2>6. /\ login[t].stage = "posting" => ~(login[t].stage = "delay") /\ ~late
        /\ login[t].stage = "delay" => ~late
    OBVIOUS
  <2> QED BY <1>1, <1>2, <2>1, <2>2, <2>3, <2>4, <2>5, <2>6, AInvariance, SessionTypeCorrect, PTL
          DEF Spec, LoginGoesOn
<1> QED BY <1>3 DEF EveryLoginEnds

\* The pause, the timeout of its post and its timers go by, as WF_vars(RegisterStep(g))
\* says in FairSpec.
RegisterGoesOn(g) == []<>~Running(register[g]) \/ []<><<RegisterStep(g)>>_vars

\* A registration moves by its own steps only, unless the process ends.
LEMMA OwnRegisterStepOnly ==
  ASSUME TypeOK, NEW g \in Registers, Running(register[g]), [Next]_vars
  PROVE  RegisterStep(g) \/ register'[g] = register[g] \/ ~Running(register'[g])
<1>1. ASSUME NEW h \in Registers \ {g}, RegisterStep(h) PROVE register'[g] = register[g]
  BY <1>1 DEF TypeOK, RegisterStep, ShowRegister, RegisterAccepted, RegisterRefused,
              FinishRegister, RegisterAt
<1>2. ASSUME NEW h \in Registers, TapSubmit(h)
      PROVE  register'[g] = register[g] \/ ~Running(register[g])
  BY <1>2 DEF TypeOK, TapSubmit, RegisterAt, Running
<1>3. CASE Restart
  BY <1>3 DEF Restart, Running
<1>4. CASE UNCHANGED register
  BY <1>4
<1> QED BY <1>1, <1>2, <1>3, <1>4
        DEF Next, Step, User, CheckAuth, TapAccount, TapLink, TapLogout, Back, TransitionEnds,
            LoginPagesBuilt, InitAuthLoads, InitAuthThrows, LoginStep, LoginAnswered,
            LoginGarbled, AcceptLogin,
            RejectLogin, FinishLogin, DismissLogin, TapLogin, tasks, vars

\* Its own steps take it from the pause to the post, from there to the delay before the
\* dialog goes away, and from there to the end, or end it at once.
LEMMA RegisterAdvances ==
  ASSUME TypeOK, NEW g \in Registers, RegisterStep(g)
  PROVE  \/ register[g] = "pause" /\ register'[g] = "posting"
         \/ register[g] = "posting" /\ register'[g] \in {"accepted", "rejected"}
         \/ ~Running(register'[g])
<1> USE DEF TypeOK, RegisterAt, Running
<1>1. CASE ShowRegister(g)
  BY <1>1 DEF ShowRegister
<1>2. ASSUME NEW a \in Accounts, RegisterAccepted(g, a)
      PROVE  \/ register[g] = "posting" /\ register'[g] = "accepted"
             \/ ~Running(register'[g])
  BY <1>2 DEF RegisterAccepted
<1>3. CASE RegisterRefused(g)
  BY <1>3 DEF RegisterRefused
<1>4. CASE FinishRegister(g)
  BY <1>4 DEF FinishRegister
<1> QED BY <1>1, <1>2, <1>3, <1>4 DEF RegisterStep

\* Every registration comes to an end if its timers fire and its post times out, whoever
\* has popped its page or its dialog by then.
THEOREM RegistersEnd ==
  Spec /\ (\A g \in Registers : RegisterGoesOn(g)) => EveryRegisterEnds
<1>1. ASSUME NEW g \in Registers
      PROVE  Spec /\ RegisterGoesOn(g) => (Running(register[g]) ~> ~Running(register[g]))
  <2> DEFINE late == register[g] \in {"accepted", "rejected"}
  <2>1. TypeOK /\ Running(register[g])
        => register[g] = "pause" \/ register[g] = "posting" \/ late
    BY DEF TypeOK, Running
  <2>2. TypeOK /\ Running(register[g]) /\ [Next]_vars
        => \/ RegisterStep(g)
           \/ (register[g] = "pause") /\ (register[g] = "pause")'
           \/ (register[g] = "posting") /\ (register[g] = "posting")'
           \/ late /\ late'
           \/ ~Running(register[g])'
    BY <2>1, OwnRegisterStepOnly
  <2>3. TypeOK /\ RegisterStep(g)
        => \/ register[g] = "pause" /\ (register[g] = "posting")'
           \/ register[g] = "posting" /\ late'
           \/ ~Running(register[g])'
    BY RegisterAdvances
  <2>4. /\ register[g] = "pause" => ~(register[g] = "posting") /\ ~late
        /\ register[g] = "posting" => ~late
    OBVIOUS
  <2> QED BY <2>1, <2>2, <2>3, <2>4, SessionTypeCorrect, PTL DEF Spec, RegisterGoesOn
<1> QED BY <1>1 DEF EveryRegisterEnds

-----------------------------------------------------------------------------
(* The splash screen gives way to a calm user.                             *)

\* No splash screen up to place k.
NoSplash(n, k) == \A i \in 1..k : n.stack[i].name # "init"

\* A splash screen is the top route while its callback waits, and only then; the callback
\* finds the page it was made for.
Splash ==
  /\ nav \in ANavigator /\ nav.stack # <<>>
  /\ NoSplash(nav, Len(nav.stack) - 1)
  /\ OnTop(nav, "init") => checking
  /\ checking => OnTop(nav, "init") /\ Frame \in Top(nav).of

\* What the steps do to the navigator brings no splash screen unless it is pushed.
LEMMA NavPlain ==
  ASSUME NEW n \in ANavigator, NoSplash(n, Len(n.stack))
  PROVE  /\ NoSplash(Pop(n), Len(Pop(n).stack))
         /\ \A route \in ARoute : route.name # "init" =>
              /\ NoSplash(Push(n, route), Len(Push(n, route).stack))
              /\ NoSplash(Replace(n, route), Len(Replace(n, route).stack))
         /\ \A run, kept : NoSplash(Release(n, run, kept), Len(Release(n, run, kept).stack))
<1>1. ASSUME NEW m \in ANavigator, NoSplash(m, Len(m.stack)),
             NEW route \in ARoute, route.name # "init"
      PROVE  NoSplash(Push(m, route), Len(Push(m, route).stack))
  <2>1. /\ Len(Push(m, route).stack) = Len(m.stack) + 1 /\ Len(m.stack) \in Nat
        /\ Push(m, route).stack[Len(m.stack) + 1] = route
        /\ \A i \in 1..Len(m.stack) : Push(m, route).stack[i] = m.stack[i]
    BY PushNav
  <2>2. \A i \in 1..Len(m.stack) + 1 : i \in 1..Len(m.stack) \/ i = Len(m.stack) + 1
    BY <2>1
  <2> QED BY <1>1, <2>1, <2>2 DEF NoSplash
<1>2. NoSplash(Pop(n), Len(Pop(n).stack)) /\ Pop(n) \in ANavigator
  <2>1. CASE n.stack = <<>>
    BY <2>1 DEF Pop
  <2>2. CASE n.stack # <<>>
    BY <2>2, PopNav DEF NoSplash
  <2> QED BY <2>1, <2>2
<1>3. ASSUME NEW route \in ARoute, route.name # "init"
      PROVE  NoSplash(Replace(n, route), Len(Replace(n, route).stack))
  BY <1>1, <1>2, <1>3 DEF Replace
<1>4. \A run, kept : NoSplash(Release(n, run, kept), Len(Release(n, run, kept).stack))
  BY ReleaseNav DEF NoSplash
<1> QED BY <1>1, <1>2, <1>3, <1>4

\* No step but a logout and a restart brings a splash screen while none is there.
LEMMA NoNewSplash ==
  ASSUME nav \in ANavigator, NoSplash(nav, Len(nav.stack)),
         [Next]_vars, ~TapLogout, ~Restart, ~CheckAuth
  PROVE  NoSplash(nav', Len(nav'.stack))
<1> DEFINE Plain(n) == NoSplash(n, Len(n.stack))
<1> USE RoutesTyped DEF Screens
<1>0. CASE nav'.stack = nav.stack
  BY <1>0 DEF NoSplash
<1>1. ASSUME NEW page \in Screens \ {"init"}, nav' = Push(nav, Route(page, {})) PROVE Plain(nav')
  BY <1>1, NavPlain DEF Route
<1>2. CASE TapAccount \/ TapLink
  BY <1>1, <1>2 DEF TapAccount, TapLink
<1>3. CASE Back
  BY <1>3, NavPlain DEF Back
<1>4. ASSUME NEW run \in Runs, OnTop(nav, "login") \/ OnTop(nav, "register")
      PROVE  Plain(Hold(nav, run)) /\ Hold(nav, run) \in ANavigator
  BY <1>4, HoldNav DEF OnTop, NoSplash
<1>5. ASSUME NEW n \in ANavigator, Plain(n), NEW run \in Runs
      PROVE  Plain(Push(n, Route("dialog", {run})))
  BY <1>5, NavPlain DEF Route
<1>6. ASSUME NEW t \in Logins, NEW a \in Accounts, TapLogin(t, a) PROVE Plain(nav')
  BY <1>4, <1>5, <1>6 DEF TapLogin, Runs
<1>7. ASSUME NEW g \in Registers, TapSubmit(g) \/ ShowRegister(g) PROVE Plain(nav')
  BY <1>0, <1>4, <1>5, <1>7 DEF TapSubmit, ShowRegister, Runs
<1>8. ASSUME NEW run, NEW kept, NEW page \in Screens \ {"init"}
      PROVE  /\ Plain(Pop(nav)) /\ Plain(Release(Pop(nav), run, kept))
             /\ Plain(Release(Replace(Pop(nav), Route(page, {})), run, kept))
  <2>1. Pop(nav) \in ANavigator /\ Plain(Pop(nav))
    BY NavTyped, NavPlain
  <2>2. /\ Replace(Pop(nav), Route(page, {})) \in ANavigator
        /\ Plain(Replace(Pop(nav), Route(page, {})))
    BY <2>1, NavTyped, NavPlain DEF Route
  <2> QED BY <2>1, <2>2, NavPlain
<1>9. ASSUME NEW t \in Logins, LoginStep(t) PROVE Plain(nav')
  <2>1. CASE FinishLogin(t)
    BY <1>0, <1>8, <2>1 DEF FinishLogin
  <2>2. CASE DismissLogin(t)
    BY <1>0, <1>8, <2>2 DEF DismissLogin
  <2> QED BY <1>0, <1>9, <2>1, <2>2
          DEF LoginStep, LoginAnswered, LoginGarbled, AcceptLogin, RejectLogin
<1>10. ASSUME NEW g \in Registers, RegisterStep(g) PROVE Plain(nav')
  <2>1. CASE FinishRegister(g)
    BY <1>0, <1>8, <2>1 DEF FinishRegister
  <2> QED BY <1>0, <1>7, <1>10, <2>1 DEF RegisterStep, RegisterAccepted, RegisterRefused
<1>11. ASSUME NEW route \in nav.leaving, TransitionEnds(route) PROVE nav'.stack = nav.stack
  BY <1>11, NavTyped DEF TransitionEnds
<1> QED BY <1>0, <1>2, <1>3, <1>6, <1>7, <1>9, <1>10, <1>11
        DEF Next, Step, User, LoginPagesBuilt, InitAuthLoads, InitAuthThrows, vars

\* While the callback waits nothing moves the routes, for a calm user: no run of login
\* or doRegister is left to do so.
LEMMA SplashStays ==
  ASSUME MInv, Splash, checking, [Next]_vars, ~Restart, ~CheckAuth
  PROVE  checking' /\ nav' \in ANavigator /\ nav'.stack = nav.stack
<1>1. \A t \in Logins : ~LoginStep(t)
  <2>1. ASSUME NEW t \in Logins, LoginStep(t) PROVE Shown(t)
    BY <2>1 DEF Shown, LoginStep, LoginAnswered, LoginGarbled, AcceptLogin, RejectLogin,
                FinishLogin, DismissLogin
  <2> QED BY <2>1, OneShown DEF MInv
<1>2. \A g \in Registers : ~RegisterStep(g)
  <2>1. ASSUME NEW g \in Registers, RegisterStep(g) PROVE register[g] # "idle"
    BY <2>1 DEF RegisterStep, ShowRegister, RegisterAccepted, RegisterRefused, FinishRegister
  <2> QED BY <2>1, OneRegistering DEF MInv
<1>3. ~User
  BY DEF User, TapAccount, TapLink, TapLogout, Back, TapLogin, TapSubmit, Acts, Deepen, Drawn
<1>4. ASSUME NEW route \in nav.leaving, TransitionEnds(route)
      PROVE  checking' /\ nav' \in ANavigator /\ nav'.stack = nav.stack
  BY <1>4, NavTyped DEF TransitionEnds, tasks, Splash
<1>5. CASE UNCHANGED <<checking, nav>>
  BY <1>5 DEF Splash
<1> QED BY <1>1, <1>2, <1>3, <1>4, <1>5
        DEF Next, Step, LoginPagesBuilt, InitAuthLoads, InitAuthThrows, vars, tasks

\* The callback finds its page and the user of a session, and replaces the splash screen.
LEMMA CheckAuthLeaves ==
  ASSUME Splash, StoredUser, CheckAuth
  PROVE  /\ ~checking' /\ nav' \in ANavigator /\ nav'.stack # <<>>
         /\ NoSplash(nav', Len(nav'.stack))
<1> DEFINE k == Len(nav.stack)
           n == Replace(nav, Route("main", {}))
<1>1. /\ nav.stack \in Seq(ARoute) /\ k \in Nat \ {0} /\ DOMAIN nav.stack = 1..k
  BY EmptySeq, LenProperties DEF Splash, ANavigator
<1>2. HasPage(nav, Frame)
  <2>1. nav.stack[k] \in Routes(nav)
    BY <1>1 DEF Routes
  <2> QED BY <2>1 DEF HasPage, CheckAuth, Splash, OnTop, Top
<1>3. nav' = Release(n, Frame, {}) /\ ~checking'
  BY <1>2 DEF CheckAuth, StoredUser
<1>4. Route("main", {}) \in ARoute /\ Route("main", {}).name = "main"
  BY RoutesTyped DEF Screens, Route
<1>5. /\ n \in ANavigator /\ Len(n.stack) = k
      /\ n.stack[k] = Route("main", {})
      /\ \A i \in 1..k - 1 : n.stack[i] = nav.stack[i]
  BY <1>4, ReplaceNav DEF Splash
<1>6. NoSplash(n, Len(n.stack))
  BY <1>1, <1>4, <1>5 DEF Splash, NoSplash
<1>7. /\ nav' \in ANavigator /\ Len(nav'.stack) = k
      /\ NoSplash(nav', Len(nav'.stack))
  BY <1>3, <1>5, <1>6, ReleaseNav, NavPlain
<1> QED BY <1>1, <1>3, <1>7

\* A new splash screen is on top of screens that are none, and its callback waits.
LEMMA SplashComes ==
  ASSUME nav \in ANavigator, nav.stack # <<>>, NoSplash(nav, Len(nav.stack)), TapLogout
  PROVE  Splash'
<1> DEFINE k == Len(nav.stack)
<1>1. /\ nav' \in ANavigator /\ Len(nav'.stack) = k /\ k \in Nat \ {0}
      /\ nav'.stack[k] = Route("init", {Frame})
      /\ \A i \in 1..k - 1 : nav'.stack[i] = nav.stack[i]
  BY RoutesTyped, ReplaceNav DEF TapLogout
<1>2. nav'.stack # <<>> /\ checking'
  BY <1>1 DEF TapLogout
<1>3. NoSplash(nav', Len(nav'.stack) - 1)
  BY <1>1 DEF NoSplash
<1> QED BY <1>1, <1>2, <1>3 DEF Splash, OnTop, Top, Route

\* A start shows one splash screen, the page its callback looks for.
LEMMA SplashAtStart ==
  /\ Start \in ANavigator /\ Start.stack # <<>> /\ NoSplash(Start, Len(Start.stack) - 1)
  /\ OnTop(Start, "init") /\ Frame \in Top(Start).of
<1>1. /\ Start.stack = <<Route("init", {Frame})>> /\ Len(Start.stack) = 1
      /\ Start.stack[1] = Route("init", {Frame})
  BY DEF Start
<1>2. Start \in ANavigator /\ Start.stack # <<>> /\ OnTop(Start, "init")
  BY StartSteady DEF Steady
<1>3. NoSplash(Start, Len(Start.stack) - 1)
  BY <1>1 DEF NoSplash
<1> QED BY <1>1, <1>2, <1>3 DEF Top, Route

\* The invariant is inductive, beside that of a calm user.
LEMMA SplashNext ==
  ASSUME MInv, AInv, Splash, [Next]_vars
  PROVE  nav' \in ANavigator /\ nav'.stack # <<>> => Splash'
<1>1. CASE Restart
  <2>1. nav' = Start /\ checking' = TRUE
    BY <1>1 DEF Restart
  <2> QED BY <2>1, SplashAtStart DEF Splash
<1>2. CASE CheckAuth
  <2>1. /\ ~checking' /\ nav' \in ANavigator /\ nav'.stack # <<>>
        /\ NoSplash(nav', Len(nav'.stack))
    BY <1>2, CheckAuthLeaves DEF AInv
  <2>2. Len(nav'.stack) \in Nat \ {0}
    BY <2>1, EmptySeq DEF ANavigator
  <2> QED BY <2>1, <2>2 DEF Splash, NoSplash, OnTop, Top
<1>3. CASE checking /\ ~Restart /\ ~CheckAuth
  BY <1>3, SplashStays DEF Splash, NoSplash, OnTop, Top
<1>4. CASE ~checking /\ ~Restart /\ ~CheckAuth
  <2>1. Len(nav.stack) \in Nat \ {0}
    BY EmptySeq DEF Splash, ANavigator
  <2>2. NoSplash(nav, Len(nav.stack))
    BY <1>4, <2>1 DEF Splash, NoSplash, OnTop, Top
  <2>3. CASE TapLogout
    BY <2>2, <2>3, SplashComes DEF Splash
  <2>4. CASE ~TapLogout
    <3>1. NoSplash(nav', Len(nav'.stack))
      BY <1>4, <2>2, <2>4, NoNewSplash DEF Splash
    <3>2. ~checking'
      BY <1>4, <2>4
         DEF Next, Step, User, TapAccount, TapLink, Back, TransitionEnds, LoginPagesBuilt,
             InitAuthLoads,
             InitAuthThrows, TapLogin, TapSubmit, LoginStep, LoginAnswered, LoginGarbled,
             AcceptLogin, RejectLogin, FinishLogin, DismissLogin, RegisterStep, ShowRegister,
             RegisterAccepted, RegisterRefused, FinishRegister, tasks, vars
    <3>3. ASSUME nav' \in ANavigator, nav'.stack # <<>> PROVE Len(nav'.stack) \in Nat \ {0}
      BY <3>3, EmptySeq DEF ANavigator
    <3> QED BY <3>1, <3>2, <3>3 DEF Splash, NoSplash, OnTop, Top
  <2> QED BY <2>3, <2>4
<1> QED BY <1>1, <1>2, <1>3, <1>4

\* For a calm user a splash screen is on top only while its callback is still to run: the
\* callback never returns without leaving it.
THEOREM SplashIsTemporary == CalmSpec => [](OnTop(nav, "init") => checking)
<1>1. Init => Splash
  BY SplashAtStart DEF Init, Splash
<1>2. MInv /\ MInv' /\ AInv /\ Splash /\ [Next]_vars => Splash'
  BY SplashNext DEF MInv, Modal, Steady
<1>3. Splash => (OnTop(nav, "init") => checking)
  BY DEF Splash
<1> QED BY <1>1, <1>2, <1>3, ModalInvariance, AInvariance, CalmIsSpec, PTL DEF Spec

\* The first frame of a splash screen ends, as WF_vars(CheckAuth) says in FairCalmSpec.
FrameEnds == []<>~checking \/ []<><<CheckAuth>>_vars

\* Frames are drawn, so the splash screen gives way: whoever is signed in, and whatever
\* the preferences hold.
THEOREM SplashGivesWay == CalmSpec /\ FrameEnds => SplashEnds
<1>1. CheckAuth => ~checking'
  BY DEF CheckAuth
<1> QED BY <1>1, SplashIsTemporary, PTL DEF FrameEnds, SplashEnds
=============================================================================
