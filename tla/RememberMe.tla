----------------------------- MODULE RememberMe -----------------------------
(***************************************************************************)
(* The remember-me switch of the LoginPage: the two preferences is_remember *)
(* and login (with the password, written and read beside it), their copies *)
(* in the provider AgentState, and the e-mail fields of the LoginPages.    *)
(*   lambda/lib/modules/agent/{agent_util,agent_state}.dart                *)
(*   lib/ui/views/login.dart                                               *)
(* Every LoginPage runs initAuth, which may end after the user has typed,  *)
(* flipped the switch or left.  Routes are reduced to what decides when a  *)
(* LoginPage is on top; no system button dismisses a dialog, so that one   *)
(* login runs at a time: Session shows it (DialogIsModal).                 *)
(***************************************************************************)
EXTENDS Naturals, Sequences

CONSTANTS Accounts,   \* the e-mail addresses
          Null,       \* never assigned
          Empty,      \* the empty string
          MaxPages,   \* bound: LoginPages on the stack
          MaxLeft     \* bound: runs of initAuth without a page while the user goes on

ASSUME RememberConstants ==
  /\ Null # Empty /\ {Null, Empty} \cap Accounts = {}
  /\ {MaxPages, MaxLeft} \subseteq Nat

VARIABLES
  prefs,     \* the preferences is_remember and login
  agent,     \* AgentState's is_remember and login
  ready,     \* AgentUtil._prefs is not null
  pages,     \* the LoginPages on the stack, the top one first
  left,      \* how many runs of initAuth wait whose page is gone
  home,      \* the home screen is on top, not a LoginPage
  user,      \* UserModel holds a user
  run,       \* the login under way: stage, e-mail, and whether the switch was on
  switched,  \* history: the switch has been touched
  asked,     \* history: e-mails of the logins tapped with the switch on
  latest     \* history: the latest of them

vars == <<prefs, agent, ready, pages, left, home, user, run, switched, asked, latest>>

Texts == Accounts \cup {Empty}
NoRun == [stage |-> "none", sent |-> Empty, on |-> FALSE]
NewPage == [loading |-> TRUE, text |-> Empty, typed |-> Empty]

Init ==
  /\ prefs = [remember |-> FALSE, login |-> Null]
  /\ agent = [remember |-> FALSE, login |-> Null]
  /\ ready = FALSE /\ pages = <<>> /\ left = 0
  /\ home = TRUE /\ user = FALSE
  /\ run = NoRun
  /\ switched = FALSE /\ asked = {} /\ latest = Null

-----------------------------------------------------------------------------
(* What the user does.                                                     *)

\* The user acts on the page on top, and not beyond the bound.
OnPage == ~home /\ run.stage = "none" /\ left <= MaxLeft

\* The account icon; with a user it leads to the settings instead.
OpenLogin ==
  /\ home /\ ~user /\ Len(pages) < MaxPages
  /\ pages' = <<NewPage>> \o pages /\ home' = FALSE
  /\ UNCHANGED <<prefs, agent, ready, left, user, run, switched, asked, latest>>

\* A registration begun on this page succeeds: a LoginPage in its form's place.
OpenRegistered ==
  /\ OnPage /\ Len(pages) < MaxPages
  /\ pages' = <<NewPage>> \o pages /\ user' = TRUE
  /\ UNCHANGED <<prefs, agent, ready, left, home, run, switched, asked, latest>>

\* Back from a LoginPage, or from the home screen to the page below it.
Back ==
  \/ /\ OnPage
     /\ pages' = Tail(pages) /\ home' = (Len(pages) = 1)
     /\ left' = left + (IF pages[1].loading THEN 1 ELSE 0)
     /\ UNCHANGED <<prefs, agent, ready, user, run, switched, asked, latest>>
  \/ /\ home /\ pages # <<>>
     /\ home' = FALSE
     /\ UNCHANGED <<prefs, agent, ready, pages, left, user, run, switched, asked, latest>>

Type(a) ==
  /\ OnPage
  /\ pages' = [pages EXCEPT ![1] = [loading |-> @.loading, text |-> a, typed |-> a]]
  /\ UNCHANGED <<prefs, agent, ready, left, home, user, run, switched, asked, latest>>

\* Mutant: the choice is kept for this process only.
MutHandleRemember(value) ==
  /\ OnPage /\ value # agent.remember
  /\ agent' = [agent EXCEPT !.remember = value] /\ switched' = TRUE
  /\ UNCHANGED <<prefs, ready, pages, left, home, user, run, asked, latest>>

\* The switch.
HandleRemember(value) ==
  /\ OnPage /\ value # agent.remember
  /\ agent' = [agent EXCEPT !.remember = value]
  /\ prefs' = [prefs EXCEPT !.remember = value]
  /\ switched' = TRUE
  /\ UNCHANGED <<ready, pages, left, home, user, run, asked, latest>>

-----------------------------------------------------------------------------
(* initAuth and login.                                                     *)

\* Mutant: is_remember is not asked.
MutLoadAgentData ==
  /\ ready' = TRUE
  /\ agent' = [remember |-> prefs.remember,
               login |-> IF prefs.login = Null THEN Empty ELSE prefs.login]

\* Without is_remember the login stays what it was, in the end null.
LoadAgentData ==
  /\ ready' = TRUE
  /\ agent' = [remember |-> prefs.remember,
               login |-> IF ~prefs.remember THEN agent.login
                         ELSE IF prefs.login = Null THEN Empty ELSE prefs.login]

\* The plugin has answered; the field keeps its text if there is no login, as a
\* text of null leaves a controller's text alone.
InitAuthLoads(i) ==
  /\ pages[i].loading
  /\ LoadAgentData
  /\ LET text == IF agent'.login = Null THEN pages[i].text ELSE agent'.login
     IN  pages' = [pages EXCEPT ![i] = [loading |-> FALSE, text |-> text, typed |-> @.typed]]
  /\ UNCHANGED <<prefs, left, home, user, run, switched, asked, latest>>

\* getAvailableBiometrics throws.
InitAuthThrows(i) ==
  /\ pages[i].loading
  /\ pages' = [pages EXCEPT ![i] = [@ EXCEPT !.loading = FALSE]]
  /\ UNCHANGED <<prefs, agent, ready, left, home, user, run, switched, asked, latest>>

\* The same for a page that is gone: its context fails after loadAgentData.
LeftEnds ==
  /\ left > 0 /\ left' = left - 1
  /\ LoadAgentData \/ UNCHANGED <<ready, agent>>
  /\ UNCHANGED <<prefs, pages, home, user, run, switched, asked, latest>>

TapLogin ==
  /\ OnPage
  /\ run' = [stage |-> "posting", sent |-> pages[1].text, on |-> agent.remember]
  /\ UNCHANGED <<prefs, agent, ready, pages, left, home, user, switched, asked, latest>>

\* Mutant: whoever logs in is remembered.
MutStore == prefs' = [prefs EXCEPT !.login = run.sent]

\* The switch is asked when the answer is there.
Store == prefs' = IF agent.remember THEN [prefs EXCEPT !.login = run.sent] ELSE prefs

\* A status that is true; it may be that of an earlier post (see NetworkUtil).
LoginAccepted ==
  /\ run.stage = "posting" /\ ready
  /\ Store
  /\ run' = [run EXCEPT !.stage = "accepted"]
  /\ IF run.on THEN asked' = asked \cup {run.sent} /\ latest' = run.sent
               ELSE UNCHANGED <<asked, latest>>
  /\ UNCHANGED <<agent, ready, pages, left, home, user, switched>>

\* An answer that is none, or an acceptance without preferences: the dialog stays.
LoginThrows ==
  /\ run.stage = "posting"
  /\ run' = [run EXCEPT !.stage = "threw"]
  /\ UNCHANGED <<prefs, agent, ready, pages, left, home, user, switched, asked, latest>>

LoginRefused ==
  /\ run.stage = "posting"
  /\ run' = NoRun
  /\ UNCHANGED <<prefs, agent, ready, pages, left, home, user, switched, asked, latest>>

\* The home screen takes the place of the page.
LoginEnds ==
  /\ run.stage = "accepted"
  /\ run' = NoRun /\ user' = TRUE /\ home' = TRUE
  /\ pages' = Tail(pages)
  /\ left' = left + (IF pages[1].loading THEN 1 ELSE 0)
  /\ UNCHANGED <<prefs, agent, ready, switched, asked, latest>>

Restart ==
  /\ prefs' = [remember |-> FALSE, login |-> Null]
  /\ agent' = [remember |-> FALSE, login |-> Null]
  /\ ready' = FALSE /\ pages' = <<>> /\ left' = 0
  /\ home' = TRUE /\ user' = FALSE
  /\ run' = NoRun
  /\ switched' = FALSE /\ asked' = {} /\ latest' = Null

Next ==
  \/ OpenLogin \/ OpenRegistered \/ Back
  \/ \E value \in BOOLEAN : HandleRemember(value)
  \/ \E a \in Accounts : Type(a)
  \/ \E i \in DOMAIN pages : InitAuthLoads(i) \/ InitAuthThrows(i)
  \/ LeftEnds \/ TapLogin
  \/ LoginAccepted \/ LoginThrows \/ LoginRefused \/ LoginEnds
  \/ Restart

Spec == Init /\ [][Next]_vars

-----------------------------------------------------------------------------
Memory == [remember : BOOLEAN, login : Texts \cup {Null}]
APage == [loading : BOOLEAN, text : Texts, typed : Texts]
ARun == [stage : {"none", "posting", "accepted", "threw"}, sent : Texts, on : BOOLEAN]

\* The type of the state; what is on top is a page or the home screen.
TypeOK ==
  /\ prefs \in Memory /\ agent \in Memory
  /\ ready \in BOOLEAN /\ pages \in Seq(APage) /\ left \in Nat
  /\ home \in BOOLEAN /\ user \in BOOLEAN
  /\ run \in ARun
  /\ switched \in BOOLEAN /\ asked \subseteq Texts /\ latest \in Texts \cup {Null}
  /\ pages = <<>> => home

\* The login that is stored is that of the latest login whose user saw the switch
\* on when tapping, although login asks for the switch a post and a second later,
\* and an initAuth that ends in between sets it anew.
RememberedAsAsked == prefs.login = latest

\* An initAuth that ends late leaves the e-mail of a user who never touched the
\* switch alone.  (With the switch on it empties the field or puts the stored
\* login over what was typed.)
TypedTextStays == ~switched => \A i \in DOMAIN pages : pages[i].text = pages[i].typed

\* What a page offers and the user did not type there is an e-mail that was to
\* be remembered, whether or not the switch has been turned off since.
OffersRemembered ==
  \A i \in DOMAIN pages : pages[i].text \in {pages[i].typed, Empty} \cup asked
=============================================================================
