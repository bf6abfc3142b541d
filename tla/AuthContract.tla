---------------------------- MODULE AuthContract ----------------------------
(***************************************************************************)
(* What the screens may rely on about the signed-in user, whatever dialogs *)
(* and requests are under way: the account kept in the preferences and the *)
(* account shown to the widgets come from the server's answers, the kept   *)
(* one changes only by signing in, and what is shown is the kept account   *)
(* or one that has just been registered.                                   *)
(***************************************************************************)
CONSTANTS Accounts,
          None       \* no account

VARIABLES
  confirmed,  \* accounts the server has confirmed to this process
  kept,       \* the account in the preferences
  shown,      \* the account the widgets see
  signedIn    \* the preference is_auth

vars == <<confirmed, kept, shown, signedIn>>

Init == confirmed = {} /\ kept = None /\ shown = None /\ signedIn = FALSE

\* The server confirms the credentials of an account.
Confirm(a) ==
  /\ confirmed' = confirmed \cup {a}
  /\ UNCHANGED <<kept, shown, signedIn>>

SignIn(a) ==
  /\ a \in confirmed
  /\ kept' = a /\ signedIn' = TRUE
  /\ UNCHANGED <<confirmed, shown>>

Show ==
  /\ kept # None
  /\ shown' = kept
  /\ UNCHANGED <<confirmed, kept, signedIn>>

\* Registering confirms an account and shows it, but signs nobody in.
Register(a) ==
  /\ confirmed' = confirmed \cup {a}
  /\ shown' \in {a, shown}
  /\ UNCHANGED <<kept, signedIn>>

SignOut == signedIn' = FALSE /\ UNCHANGED <<confirmed, kept, shown>>

\* The process ends, and its in-memory preferences with it.
Forget ==
  /\ kept' = None /\ shown' = None /\ signedIn' = FALSE
  /\ confirmed' = {}

Next ==
  \/ \E a \in Accounts : Confirm(a) \/ SignIn(a) \/ Register(a)
  \/ Show \/ SignOut \/ Forget

Spec == Init /\ [][Next]_vars
=============================================================================
