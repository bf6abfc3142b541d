----------------------------- MODULE NotifyList -----------------------------
(***************************************************************************)
(* The list of notifications and its badge:                                *)
(*   lambda/lib/modules/gcm/notify_list.dart    loads, taps on items       *)
(*   lambda/lib/modules/gcm/notify_badger.dart  asks when there is no count *)
(* Both get the same answers through the shared NetworkUtil and keep one   *)
(* preference, badgeCount.  The server numbers its notifications in the    *)
(* order they come, lists the newest first and counts those not seen.  The *)
(* list holds the very objects of an answer, so an item is named by its    *)
(* answer and its number, and a mark on it is seen by whoever is handed    *)
(* that answer again.  Each opening of the list has a State of its own,    *)
(* which calls still in flight keep when the list is closed.               *)
(***************************************************************************)
EXTENDS Sequences, FiniteSets, Naturals

CONSTANTS Total,     \* bound: how many notifications there ever are
          MaxOpens,  \* bound: how often the list is opened
          Loads,     \* gets of NotifyList
          Badgers,   \* gets of NotifyBadger
          Taps,      \* gets that report an item as seen
          None,      \* badgeCount is not set, or a call is about no item
          Pending, Thrown, NoAnswer, ErrorModel, Configured, NoBase

Lists == Loads \cup Badgers
Calls == Lists \cup Taps
Bases == {}

ASSUME NotifyConstants ==
  /\ Total \in Nat /\ MaxOpens \in Nat /\ None \notin Nat
  /\ Loads \cap Badgers = {} /\ Lists \cap Taps = {}

VARIABLES baseUrl, response, r, method, named, sentTo, fate, result,
          screen,         \* the latest State of the list, 0 before the first
          mounted,        \* it is on the screen
          notifications,  \* of each State: the items of the list
          header,         \* the mode of the latest State's RefreshController
          sheets,         \* modal sheets over the list
          home,           \* of each load and tap: the State that made it
          task,           \* of each load: the operation that awaits it
          tapped,         \* of each tap: the number of its item
          listed,         \* of each answer: how many items it lists
          marked,         \* of each answer: its items whose isRead is true
          counted,        \* of each answer: its unreadCount
          body,           \* of each answer: what of it can be read
          badge,          \* the preference badgeCount
          posted,         \* the server: how many notifications have come
          unread,         \* the server: those that were not seen
          reached,        \* the requests the server has taken
          dirty, since, cut  \* history: see Clean

Net == INSTANCE NetworkUtil

ASSUME HelperConstants == Net!Sentinels

netVars == <<baseUrl, response, r, method, named, sentTo, fate, result>>
answers == <<listed, marked, counted, body>>
server == <<posted, unread, reached>>
view == <<screen, mounted, header, sheets>>
calls == <<home, task, tapped>>
history == <<dirty, since, cut>>
vars == <<netVars, view, notifications, calls, answers, badge, server, history>>

Items == 1..Total
States == 1..MaxOpens
Parts == {"data", "count"}

Init ==
  /\ Net!Init
  /\ screen = 0 /\ mounted = FALSE /\ header = "idle" /\ sheets = 0 /\ badge = None
  /\ notifications = [s \in States |-> <<>>]
  /\ listed = [c \in Lists |-> 0] /\ marked = [c \in Lists |-> {}]
  /\ counted = [c \in Lists |-> 0] /\ body = [c \in Lists |-> {}]
  /\ home = [c \in Calls |-> 0] /\ task = [c \in Loads |-> "none"]
  /\ tapped = [c \in Taps |-> None]
  /\ posted \in 0..Total /\ unread \in SUBSET (1..posted) /\ reached = {}
  /\ dirty = FALSE /\ since = 0 /\ cut = FALSE

InFlight == {c \in Calls : fate[c] = "waiting"}

\* The State s is the one on the screen.
Mounted(s) == mounted /\ s = screen

-----------------------------------------------------------------------------
(* The server takes a request some time before its answer is there, if at  *)
(* all, and may take one after its caller has given up.  What a list is    *)
(* answered may lack the page of items or the count.                       *)

Arrive ==
  /\ posted < Total
  /\ posted' = posted + 1 /\ unread' = unread \cup {posted + 1}
  /\ UNCHANGED <<netVars, view, notifications, calls, answers, badge, reached, history>>

AnswerList(c) ==
  /\ c \in Lists /\ fate[c] = "waiting"
  /\ listed' = [listed EXCEPT ![c] = posted]
  /\ marked' = [marked EXCEPT ![c] = (1..posted) \ unread]
  /\ counted' = [counted EXCEPT ![c] = Cardinality(unread)]
  /\ \E parts \in SUBSET Parts : body' = [body EXCEPT ![c] = parts]
  /\ UNCHANGED <<unread, dirty>>

TakeTap(t) ==
  /\ t \in Taps /\ fate[t] \in {"waiting", "failed"}
  /\ unread' = unread \ {tapped[t]}
  /\ dirty' = (dirty \/ fate[t] = "failed")
  /\ UNCHANGED answers

Reach(c) ==
  /\ c \notin reached /\ reached' = reached \cup {c}
  /\ AnswerList(c) \/ TakeTap(c)
  /\ UNCHANGED <<netVars, view, notifications, calls, badge, posted, since, cut>>

\* A get returns.
Back(c) == (c \in reached /\ Net!GetAnswered(c)) \/ Net!GetFailed(c)

\* The call c has failed or is answered in part.
Disturbed(c) == fate'[c] = "failed" \/ (c \in Lists /\ body[c] # Parts)

Has(a, part) == a \in Lists /\ part \in body[a]

-----------------------------------------------------------------------------
(* NotifyList                                                              *)

\* getNotificationList of the State s up to its await.
GetNotificationList(c, t, s) ==
  /\ task[c] = "none"
  /\ Net!Get(c, NoBase)
  /\ task' = [task EXCEPT ![c] = t] /\ home' = [home EXCEPT ![c] = s]
  /\ dirty' = (InFlight # {}) /\ since' = posted /\ cut' = FALSE
  /\ UNCHANGED <<tapped, sheets, answers, badge, server>>

Open(c) ==
  /\ ~mounted /\ screen < MaxOpens
  /\ screen' = screen + 1 /\ mounted' = TRUE /\ header' = "idle"
  /\ GetNotificationList(c, "init", screen')
  /\ UNCHANGED notifications

\* The calls of the State go on.
Close ==
  /\ mounted /\ sheets = 0
  /\ mounted' = FALSE
  /\ UNCHANGED <<netVars, screen, header, sheets, notifications, calls, answers, badge,
                 server, history>>

\* Mutant: the list is not emptied.
MutRefreshKeeps(c) ==
  /\ mounted /\ header = "idle" /\ sheets = 0
  /\ header' = "refreshing"
  /\ GetNotificationList(c, "refresh", screen)
  /\ UNCHANGED <<screen, mounted, notifications>>

\* onRefresh
Refresh(c) ==
  /\ mounted /\ header = "idle" /\ sheets = 0
  /\ header' = "refreshing" /\ notifications' = [notifications EXCEPT ![screen] = <<>>]
  /\ GetNotificationList(c, "refresh", screen)
  /\ UNCHANGED <<screen, mounted>>

\* The one page there is.
Page(a) == [i \in 1..listed[a] |-> [of |-> a, number |-> listed[a] + 1 - i]]

\* The items of an answer, behind those the State has.
TakeItems(s, a) ==
  notifications' = IF Has(a, "data") THEN [notifications EXCEPT ![s] = @ \o Page(a)]
                                     ELSE notifications

\* Mutant: the badge is set only if it was not, as NotifyBadger does.
MutTakeCount(a) == badge' = IF badge = None THEN counted[a] ELSE badge

TakeCount(a) == badge' = counted[a]

\* The rest of getNotificationList.  It throws where an answer lacks what it reads, and
\* at setState when the list was closed.
Resume(c) ==
  /\ task[c] \in {"init", "refresh"} /\ Back(c)
  /\ TakeItems(home[c], result'[c])
  /\ IF Has(result'[c], "data") /\ Has(result'[c], "count")
     THEN /\ TakeCount(result'[c])
          /\ task' = [task EXCEPT ![c] = IF ~Mounted(home[c]) THEN "threw"
                                         ELSE IF @ = "init" THEN "done" ELSE "delay"]
     ELSE task' = [task EXCEPT ![c] = "threw"] /\ UNCHANGED badge
  /\ dirty' = (dirty \/ Disturbed(c))
  /\ UNCHANGED <<view, home, tapped, answers, server, since, cut>>

\* refreshCompleted(), a second later.
Complete(c) ==
  /\ task[c] = "delay"
  /\ task' = [task EXCEPT ![c] = "done"]
  /\ header' = IF home[c] = screen THEN "idle" ELSE header
  /\ UNCHANGED <<netVars, screen, mounted, sheets, notifications, home, tapped, answers,
                 badge, server, history>>

IsRead(item) == item.number \in marked[item.of]

\* _notifModalBottomSheet up to its await.  The list may still call unread what the
\* server knows as seen.
Tap(t, item) ==
  /\ sheets = 0 /\ ~IsRead(item)
  /\ Net!Get(t, NoBase)
  /\ tapped' = [tapped EXCEPT ![t] = item.number] /\ home' = [home EXCEPT ![t] = screen]
  /\ dirty' = (dirty \/ InFlight # {} \/ item.number \notin unread)
  /\ UNCHANGED <<view, notifications, task, answers, badge, server, since, cut>>

\* The same for an item that was read.
TapRead(item) ==
  /\ sheets = 0 /\ IsRead(item)
  /\ sheets' = sheets + 1
  /\ UNCHANGED <<netVars, screen, mounted, header, notifications, calls, answers, badge,
                 server, history>>

\* Mutant: indexWhere is taken to find the last item.
MutMark(list) == LET item == list[Len(list)]
                 IN  marked' = [marked EXCEPT ![item.of] = @ \cup {item.number}]

\* indexWhere compares each item with itself, so that it finds the first.
Mark(list) == LET item == list[1]
              IN  marked' = [marked EXCEPT ![item.of] = @ \cup {item.number}]

\* Mutant: the count is not compared with 0.
MutCountDown == badge' = badge - 1

CountDown == badge' = IF badge = 0 THEN 0 ELSE badge - 1

\* _prefs of the latest State, set by a load that came to its count.
HasPrefs == \E c \in Loads : home[c] = screen /\ task[c] \in {"delay", "done"}

\* Its rest; whether the get failed makes no difference.  It throws at the index -1 of
\* an empty list, at setState when the list was closed, and without _prefs.
TapReturns(t) ==
  /\ Back(t)
  /\ LET list == notifications[home[t]]
     IN  \/ /\ list = <<>>
            /\ UNCHANGED <<marked, badge, sheets, cut>>
         \/ /\ list # <<>> /\ Mark(list)
            /\ ~Mounted(home[t])
            /\ cut' = (cut \/ home[t] = screen)
            /\ UNCHANGED <<badge, sheets>>
         \/ /\ list # <<>> /\ Mark(list)
            /\ Mounted(home[t]) /\ ~HasPrefs
            /\ UNCHANGED <<badge, sheets, cut>>
         \/ /\ list # <<>> /\ Mark(list)
            /\ Mounted(home[t]) /\ HasPrefs
            /\ CountDown /\ sheets' = sheets + 1
            /\ UNCHANGED cut
  /\ dirty' = (dirty \/ Disturbed(t))
  /\ UNCHANGED <<screen, mounted, header, notifications, calls, listed, counted, body,
                 server, since>>

CloseSheet ==
  /\ sheets > 0 /\ sheets' = sheets - 1
  /\ UNCHANGED <<netVars, screen, mounted, header, notifications, calls, answers, badge,
                 server, history>>

-----------------------------------------------------------------------------
(* NotifyBadger                                                            *)

BuildBadger(c) ==
  /\ badge = None
  /\ Net!Get(c, NoBase)
  /\ dirty' = (dirty \/ InFlight # {})
  /\ UNCHANGED <<view, notifications, calls, answers, badge, server, since, cut>>

\* A badge that is gone by now throws at setState.
BadgerReturns(c) ==
  /\ Back(c)
  /\ \/ Has(result'[c], "count") /\ badge' = counted[result'[c]]
     \/ UNCHANGED badge
  /\ dirty' = (dirty \/ Disturbed(c))
  /\ UNCHANGED <<view, notifications, calls, answers, server, since, cut>>

OfList ==
  \/ \E c \in Loads : Open(c) \/ Refresh(c) \/ Resume(c) \/ Complete(c)
  \/ Close
  \/ /\ mounted
     /\ \E i \in DOMAIN notifications[screen] :
          LET item == notifications[screen][i]
          IN  TapRead(item) \/ \E t \in Taps : Tap(t, item)
  \/ \E t \in Taps : TapReturns(t)
  \/ CloseSheet

Next ==
  \/ OfList
  \/ \E c \in Badgers : BuildBadger(c) \/ BadgerReturns(c)
  \/ Arrive
  \/ \E c \in Calls : Reach(c)

Spec == Init /\ [][Next]_vars

-----------------------------------------------------------------------------
\* The type of the state; the badge is never negative, although two taps on one
\* item count it down twice.
TypeOK ==
  /\ Net!TypeOK
  /\ screen \in 0..MaxOpens /\ mounted \in BOOLEAN /\ (mounted => screen > 0)
  /\ header \in {"idle", "refreshing"} /\ sheets \in Nat
  /\ notifications \in [States -> Seq([of : Lists, number : Items])]
  /\ home \in [Calls -> 0..MaxOpens]
  /\ task \in [Loads -> {"none", "init", "refresh", "delay", "done", "threw"}]
  /\ tapped \in [Taps -> Items \cup {None}]
  /\ listed \in [Lists -> 0..Total] /\ marked \in [Lists -> SUBSET Items]
  /\ counted \in [Lists -> 0..Total] /\ body \in [Lists -> SUBSET Parts]
  /\ badge \in 0..Total \cup {None}
  /\ posted \in 0..Total /\ unread \subseteq 1..posted /\ reached \subseteq Calls
  /\ dirty \in BOOLEAN /\ since \in 0..Total /\ cut \in BOOLEAN

\* Since the list was last opened or refreshed no call overlapped with another, none
\* failed or was answered in part, and each tap was on an item that the server had as
\* unread.  "since" notifications had come by then, and "cut" says that a tap threw
\* because the list was closed under it.
Clean == screen > 0 /\ ~dirty /\ InFlight = {}

Numbers(list) == {list[i].number : i \in DOMAIN list}

\* Then the badge is the server's count of what the list shows, whatever was lost, came
\* late or was counted twice before, and whether the list is open or closed: a refresh
\* that is alone and succeeds repairs it.  A list that is closed under a tap leaves it
\* too high by the one item that the server has as seen.
BadgeCountsUnread ==
  Clean => badge = Cardinality(unread \cap Numbers(notifications[screen]))
                   + (IF cut THEN 1 ELSE 0)

\* Then the list has each notification once, the newest first, and none of those that
\* had come when it was asked for is missing.
ListedOnce ==
  Clean => LET list == notifications[screen]
           IN  /\ Len(list) >= since
               /\ \A i \in DOMAIN list : list[i].number = Len(list) + 1 - i

\* The newest notification of an answer alone can look read before the server has it as
\* seen: a tap marks that one, whichever was tapped and whether or not its get failed.
OnlyFirstLooksRead ==
  \A s \in States : \A i \in DOMAIN notifications[s] :
    LET item == notifications[s][i]
    IN  IsRead(item) /\ item.number \in unread => item.number = listed[item.of]
=============================================================================
