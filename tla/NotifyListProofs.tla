-------------------------- MODULE NotifyListProofs --------------------------
(***************************************************************************)
(* Theorems about NotifyList for any number of notifications, openings,    *)
(* loads, taps and badges: the type of its state, which items look read,   *)
(* that a list which nothing overlapped is whole and its badge the         *)
(* server's count, and that the network helper keeps its contract.         *)
(***************************************************************************)
EXTENDS NotifyList, TLAPS, SequenceTheorems, FiniteSetTheorems

-----------------------------------------------------------------------------
(* The invariant, one part for each thing that the others need.            *)

\* A get of the list is in flight exactly while its operation waits for it.
LoadsAwaited ==
  \A c \in Loads : /\ fate[c] = "waiting" <=> task[c] \in {"init", "refresh"}
                   /\ fate[c] = "unsent" <=> task[c] = "none"

\* The server takes only what was sent, and what is handed over it has answered.
TakenWasSent ==
  /\ \A c \in reached : fate[c] # "unsent"
  /\ response \in reached \cup {NoAnswer}

\* Loads and taps are made by a State that was opened; the others have no items.
MadeByOpened ==
  /\ \A c \in Loads \cup Taps : fate[c] # "unsent" => home[c] \in 1..screen
  /\ \A s \in States : s > screen => notifications[s] = <<>>

\* A load that came to its end has set the badge.
PrefsHaveCount == \A c \in Loads : task[c] \in {"delay", "done"} => badge # None

\* A list begins with the newest notification of an answer.
Newest(item) == item.of \in reached /\ item.number = listed[item.of]
FirstIsNewest == \A s \in States : notifications[s] # <<>> => Newest(notifications[s][1])

\* An item that an answer has as read is its newest one, or the server's answer.
MarkedSeen ==
  \A a \in Lists : /\ listed[a] <= posted
                   /\ \A n \in marked[a] : n = listed[a] \/ n \notin unread
                   /\ marked[a] \subseteq 1..posted

\* A tap throws at setState only when the list is closed.
HistoryFits == since <= posted /\ (cut => ~mounted)

Steady == screen > 0 /\ ~dirty
Current == notifications[screen]

\* Nothing overlaps in a steady list, no badge asks, and what is in flight is its own.
Alone == Steady => /\ \A c, d \in InFlight : c = d
                   /\ InFlight \cap Badgers = {}
                   /\ \A c \in InFlight : home[c] = screen

\* Each notification once, the newest first, and none is missing that had come.
Whole(list) == /\ Len(list) >= since /\ Len(list) <= posted
               /\ \A i \in DOMAIN list : list[i].number = Len(list) + 1 - i

\* A steady list is whole, or empty while it is loaded.
ListKept == Steady => IF InFlight \cap Loads = {} THEN Whole(Current) /\ (mounted => HasPrefs)
                                                  ELSE Current = <<>>

\* How many of the first n notifications the server has as unread.
UnseenOf(n) == Cardinality(unread \cap (1..n))
Unseen == UnseenOf(Len(Current))

\* The count of a steady list is the server's, but for a tap that the server took and the
\* list did not, or not yet.
CountKept ==
  Steady =>
    /\ InFlight = {} => badge = Unseen + (IF cut THEN 1 ELSE 0)
    /\ \A c \in InFlight \cap Loads :
         ~cut /\ (c \in reached => listed[c] >= since /\ counted[c] = UnseenOf(listed[c]))
    /\ \A t \in InFlight \cap Taps :
         /\ ~cut /\ tapped[t] \in 1..Len(Current)
         /\ IF t \in reached THEN badge = Unseen + 1
            ELSE tapped[t] \in unread /\ badge = Unseen

NotifyInv == /\ TypeOK /\ LoadsAwaited /\ TakenWasSent /\ MadeByOpened /\ PrefsHaveCount
             /\ FirstIsNewest /\ MarkedSeen /\ HistoryFits
             /\ Alone /\ ListKept /\ CountKept

(* The operators the model is built from.                                  *)

\* A set of numbers has a count, and the count knows one that leaves it.
LEMMA Counts ==
  ASSUME NEW n \in Nat, NEW S \in SUBSET (1..n)
  PROVE  /\ Cardinality(S) \in 0..n
         /\ \A i \in S : Cardinality(S \ {i}) = Cardinality(S) - 1 /\ Cardinality(S) > 0
<1>1. IsFiniteSet(1..n) /\ Cardinality(1..n) = n
  BY FS_Interval
<1>2. IsFiniteSet(S) /\ Cardinality(S) <= n /\ Cardinality(S) \in Nat
  BY <1>1, FS_Subset, FS_CardinalityType
<1>3. Cardinality(S) = 0 <=> S = {}
  BY <1>2, FS_EmptySet
<1>4. ASSUME NEW i \in S
      PROVE  Cardinality(S \ {i}) = Cardinality(S) - 1 /\ Cardinality(S) > 0
  BY <1>2, <1>3, FS_RemoveElement
<1> QED BY <1>2, <1>4

Item == [of : Lists, number : Items]

\* An answer brings its notifications, the newest first, behind the items that are listed.
LEMMA PageAppended ==
  ASSUME NEW list \in Seq(Item), NEW a \in Lists, listed[a] \in 0..Total
  PROVE  /\ list \o Page(a) \in Seq(Item)
         /\ list # <<>> => (list \o Page(a))[1] = list[1]
         /\ list = <<>> =>
              /\ Len(list \o Page(a)) = listed[a]
              /\ \A i \in 1..listed[a] : /\ (list \o Page(a))[i].of = a
                                         /\ (list \o Page(a))[i].number = listed[a] + 1 - i
<1> DEFINE page == Page(a)
<1>1. /\ page \in Seq(Item) /\ Len(page) = listed[a]
      /\ \A i \in 1..listed[a] : page[i] = [of |-> a, number |-> listed[a] + 1 - i]
  <2>1. listed[a] \in Nat /\ page = [i \in 1..listed[a] |-> [of |-> a, number |-> listed[a] + 1 - i]]
    BY NotifyConstants DEF Page
  <2>2. page \in [1..listed[a] -> Item]
    BY <2>1, NotifyConstants DEF Items, Item
  <2>3. page \in Seq(Item) /\ Len(page) = listed[a]
    <3>1. \A n \in Nat : \A f \in [1..n -> Item] : f \in Seq(Item) /\ Len(f) = n
      OBVIOUS
    <3> HIDE DEF page
    <3> QED BY <2>1, <2>2, <3>1
  <2> QED BY <2>1, <2>3
<1> HIDE DEF page
<1>2. /\ list \o page \in Seq(Item) /\ Len(list \o page) = Len(list) + listed[a]
      /\ \A i \in 1..Len(list) + listed[a] :
           (list \o page)[i] = IF i <= Len(list) THEN list[i] ELSE page[i - Len(list)]
  BY <1>1, ConcatProperties
<1>3. Len(list) \in Nat /\ (list = <<>> <=> Len(list) = 0)
  BY EmptySeq
<1>4. ASSUME list # <<>> PROVE (list \o page)[1] = list[1]
  BY <1>2, <1>3, <1>4, NotifyConstants
<1>5. ASSUME list = <<>>
      PROVE  /\ Len(list \o page) = listed[a]
             /\ \A i \in 1..listed[a] : (list \o page)[i].of = a
                                         /\ (list \o page)[i].number = listed[a] + 1 - i
  <2>1. Len(list \o page) = listed[a] /\ \A i \in 1..listed[a] : (list \o page)[i] = page[i]
    BY <1>2, <1>3, <1>5, NotifyConstants
  <2>2. ASSUME NEW i \in 1..listed[a] PROVE page[i].of = a /\ page[i].number = listed[a] + 1 - i
    <3>1. page[i] = [of |-> a, number |-> listed[a] + 1 - i]
      BY <1>1
    <3>2. \A n : [of |-> a, number |-> n].of = a /\ [of |-> a, number |-> n].number = n
      OBVIOUS
    <3> QED BY <3>1, <3>2
  <2> QED BY <2>1, <2>2
<1> QED BY <1>1, <1>2, <1>4, <1>5 DEF page

\* What is listed is an item of some answer.
LEMMA ListedIsItem ==
  ASSUME TypeOK, NEW s \in States
  PROVE  /\ notifications[s] \in Seq(Item) /\ Len(notifications[s]) \in Nat
         /\ DOMAIN notifications[s] = 1..Len(notifications[s])
         /\ \A i \in DOMAIN notifications[s] : notifications[s][i] \in Item
         /\ notifications[s] = <<>> <=> Len(notifications[s]) = 0
  <1>1. notifications[s] \in Seq(Item)
    BY DEF TypeOK, Item
  <1>2. DOMAIN notifications[s] = 1..Len(notifications[s]) /\ Len(notifications[s]) \in Nat
    BY <1>1, LenProperties
  <1> QED BY <1>1, <1>2, ElementOfSeq, EmptySeq

\* The count of the unread among the first n is at most n, and knows one that is seen.
LEMMA UnseenCounts ==
  ASSUME TypeOK, NEW n \in Nat
  PROVE  /\ UnseenOf(n) \in 0..n
         /\ \A i \in unread \cap (1..n) :
              Cardinality((unread \ {i}) \cap (1..n)) = UnseenOf(n) - 1 /\ UnseenOf(n) > 0
<1>1. \A i : (unread \ {i}) \cap (1..n) = (unread \cap (1..n)) \ {i}
  OBVIOUS
<1> QED BY <1>1, Counts DEF UnseenOf

-----------------------------------------------------------------------------
(* The calls of the shared helper.                                         *)

\* Up to its await a get changes nothing but its own state.
LEMMA GetAsks ==
  ASSUME Net!TypeOK, NEW c \in Calls, Net!Get(c, NoBase)
  PROVE  /\ Net!TypeOK' /\ response' = response
         /\ fate[c] = "unsent" /\ fate' = [fate EXCEPT ![c] = "waiting"]
         /\ DOMAIN fate = Calls
  BY DEF Net!TypeOK, Net!Get, Net!Begin, Net!Fates, Net!Methods, Bases

\* What a get hands over when it returns.
LEMMA GetReturns ==
  ASSUME Net!TypeOK, response \in reached \cup {NoAnswer}, NEW c \in Calls, Back(c)
  PROVE  /\ Net!TypeOK' /\ response' \in reached \cup {NoAnswer} /\ result'[c] = response'
         /\ fate[c] = "waiting" /\ DOMAIN fate = Calls
         /\ \E f \in {"ok", "failed"} : fate' = [fate EXCEPT ![c] = f]
         /\ fate'[c] = "ok" => c \in reached /\ result'[c] = c
  <1> USE DEF Back, Net!TypeOK, Net!Return, Net!callVars, Net!Fates
  <1>1. CASE c \in reached /\ Net!GetAnswered(c)
    BY <1>1 DEF Net!GetAnswered
  <1>2. CASE Net!GetFailed(c)
    BY <1>2 DEF Net!GetFailed
  <1> QED BY <1>1, <1>2

-----------------------------------------------------------------------------
(* The invariant is kept by each operation.                                *)

\* A load starts with an empty list; with a call in flight the list is not steady.
LEMMA LoadStarts ==
  ASSUME NotifyInv, NEW c \in Loads, NEW t \in {"init", "refresh"},
         GetNotificationList(c, t, screen'), screen' \in States, screen' \in {screen, screen + 1},
         mounted' = TRUE, header' \in {"idle", "refreshing"},
         notifications' = [notifications EXCEPT ![screen'] = <<>>]
  PROVE  NotifyInv'
  <1>0. c \in Calls /\ TypeOK /\ LoadsAwaited /\ TakenWasSent
    BY DEF NotifyInv, Calls, Lists
  <1>1. /\ Net!TypeOK' /\ response' = response /\ DOMAIN fate = Calls
        /\ fate[c] = "unsent" /\ fate' = [fate EXCEPT ![c] = "waiting"]
    BY <1>0, GetAsks DEF GetNotificationList, TypeOK
  <1>2. UNCHANGED <<tapped, sheets, listed, marked, counted, body, badge, posted, unread, reached>>
    BY DEF GetNotificationList, answers, server
  <1>3. /\ task' = [task EXCEPT ![c] = t] /\ home' = [home EXCEPT ![c] = screen']
        /\ since' = posted /\ cut' = FALSE /\ dirty' = (InFlight # {})
    BY DEF GetNotificationList
  <1>4. TypeOK'
    <2>1. notifications' \in [States -> Seq(Item)]
      <3>1. notifications \in [States -> Seq(Item)] /\ <<>> \in Seq(Item)
        BY <1>0, EmptySeq DEF TypeOK, Item
      <3> QED BY <3>1
    <2>2. home' \in [Calls -> 0..MaxOpens] /\ screen' \in 0..MaxOpens /\ screen' > 0
      BY <1>0, <1>3, NotifyConstants DEF TypeOK, States
    <2> QED BY <1>0, <1>1, <1>2, <1>3, <2>1, <2>2 DEF TypeOK, Item
  <1>5. LoadsAwaited'
    BY <1>0, <1>1, <1>3 DEF LoadsAwaited, TypeOK, Calls, Lists
  <1>6. TakenWasSent'
    BY <1>0, <1>1, <1>2 DEF TakenWasSent, TypeOK
  <1>7. MadeByOpened' /\ FirstIsNewest'
    BY <1>0, <1>1, <1>2, <1>3
       DEF NotifyInv, MadeByOpened, FirstIsNewest, Newest, TypeOK, States, Calls, Lists
  <1>8. PrefsHaveCount' /\ MarkedSeen' /\ HistoryFits'
    BY <1>0, <1>2, <1>3 DEF NotifyInv, PrefsHaveCount, MarkedSeen, HistoryFits, TypeOK
  <1>9. CASE InFlight # {}
    <2>1. ~Steady'
      BY <1>3, <1>9 DEF Steady
    <2> QED BY <1>4, <1>5, <1>6, <1>7, <1>8, <2>1 DEF NotifyInv, Alone, ListKept, CountKept
  <1>10. CASE InFlight = {}
    <2>1. InFlight' = {c} /\ home'[c] = screen'
      BY <1>0, <1>1, <1>3, <1>10 DEF InFlight, TypeOK
    <2>2. c \notin Badgers /\ c \notin Taps /\ c \notin reached'
      BY <1>0, <1>1, <1>2, NotifyConstants DEF TakenWasSent, Lists
    <2>3. Current' = <<>>
      BY <1>0 DEF Current, TypeOK
    <2>4. Alone' /\ ListKept' /\ CountKept'
      BY <1>3, <2>1, <2>2, <2>3 DEF Alone, ListKept, CountKept
    <2> QED BY <1>4, <1>5, <1>6, <1>7, <1>8, <2>4 DEF NotifyInv
  <1> QED BY <1>9, <1>10

\* The answer of a load that nothing disturbed is its own; it makes the list whole.
LEMMA LoadEnds ==
  ASSUME NotifyInv, NEW c \in Loads, Resume(c)
  PROVE  NotifyInv'
  <1> DEFINE a == result'[c]
             s == home[c]
             both == Has(a, "data") /\ Has(a, "count")
  <1>0. /\ c \in Calls /\ c \in Loads \cup Taps /\ TypeOK /\ LoadsAwaited /\ TakenWasSent
        /\ MadeByOpened /\ FirstIsNewest
    BY DEF NotifyInv, Calls, Lists
  <1>1. /\ Net!TypeOK' /\ response' \in reached \cup {NoAnswer} /\ a = response'
        /\ DOMAIN fate = Calls /\ fate[c] = "waiting"
        /\ \E f \in {"ok", "failed"} : fate' = [fate EXCEPT ![c] = f]
        /\ fate'[c] = "ok" => c \in reached /\ a = c
    BY <1>0, GetReturns DEF Resume, TypeOK, TakenWasSent
  <1>2. s \in 1..screen /\ s \in States /\ screen \in 0..MaxOpens /\ screen > 0 /\ screen \in States
    BY <1>0, <1>1, NotifyConstants DEF MadeByOpened, TypeOK, States
  <1>3. UNCHANGED <<screen, mounted, header, sheets, home, tapped, listed, marked, counted, body,
                    posted, unread, reached, since, cut>>
    BY DEF Resume, view, answers, server
  <1>4. /\ task' \in [Loads -> {"none", "init", "refresh", "delay", "done", "threw"}]
        /\ task'[c] \in {"delay", "done", "threw"} /\ \A d \in Loads \ {c} : task'[d] = task[d]
        /\ task'[c] \in {"delay", "done"} => both
        /\ both /\ Mounted(s) => task'[c] \in {"delay", "done"}
    BY <1>0 DEF Resume, TypeOK
  <1>5. badge' = IF both THEN counted[a] ELSE badge
    BY DEF Resume, TakeCount
  <1>6. /\ notifications' \in [States -> Seq(Item)]
        /\ \A u \in States \ {s} : notifications'[u] = notifications[u]
        /\ ~Has(a, "data") => notifications' = notifications
        /\ Has(a, "data") => notifications'[s] = notifications[s] \o Page(a)
    <2>1. notifications \in [States -> Seq(Item)]
      BY <1>0 DEF TypeOK, Item
    <2>2. Has(a, "data") => notifications[s] \o Page(a) \in Seq(Item)
      BY <1>0, <1>2, <2>1, PageAppended DEF TypeOK, Has
    <2> QED BY <1>2, <2>1, <2>2 DEF Resume, TakeItems
  <1>7. /\ Has(a, "data") \/ Has(a, "count") => a \in Lists /\ a \in reached
        /\ both => badge' \in 0..Total
    BY <1>0, <1>1, <1>5, HelperConstants DEF Has, TypeOK, Net!Sentinels, Calls
  <1>8. TypeOK'
    <2>1. badge' \in 0..Total \cup {None}
      BY <1>0, <1>5, <1>7 DEF TypeOK
    <2> QED BY <1>0, <1>1, <1>3, <1>4, <1>6, <2>1 DEF TypeOK, Resume, Item
  <1>9. LoadsAwaited'
    BY <1>0, <1>1, <1>4 DEF LoadsAwaited
  <1>10. TakenWasSent'
    BY <1>0, <1>1, <1>3 DEF TakenWasSent, TypeOK
  <1>11. MadeByOpened'
    <2>1. \A u \in States : u > screen => notifications'[u] = <<>>
      BY <1>0, <1>2, <1>6 DEF MadeByOpened, States
    <2>2. \A d \in Calls : fate'[d] # "unsent" => fate[d] # "unsent"
      BY <1>0, <1>1
    <2> QED BY <1>0, <1>3, <2>1, <2>2 DEF MadeByOpened, Calls, Lists
  <1>12. PrefsHaveCount'
    BY <1>4, <1>5, <1>7, NotifyConstants DEF NotifyInv, PrefsHaveCount
  <1>13. FirstIsNewest'
    <2>1. SUFFICES ASSUME NEW u \in States, notifications'[u] # <<>>
                   PROVE  Newest(notifications'[u][1])
      BY <1>3 DEF FirstIsNewest, Newest
    <2>2. CASE notifications'[u] = notifications[u]
      BY <1>0, <2>1, <2>2 DEF FirstIsNewest
    <2>3. CASE notifications'[u] # notifications[u]
      <3>1. u = s /\ Has(a, "data") /\ notifications'[s] = notifications[s] \o Page(a)
        BY <1>6, <2>3
      <3>2. notifications[s] \in Seq(Item) /\ a \in Lists /\ a \in reached /\ listed[a] \in 0..Total
        BY <1>0, <1>2, <1>7, <3>1, ListedIsItem DEF TypeOK
      <3> DEFINE list == notifications[s] \o Page(a)
      <3>p. /\ list \in Seq(Item)
            /\ notifications[s] # <<>> => list[1] = notifications[s][1]
            /\ notifications[s] = <<>> =>
                 /\ Len(list) = listed[a]
                 /\ \A i \in 1..listed[a] : list[i].of = a /\ list[i].number = listed[a] + 1 - i
        BY <3>2, PageAppended
      <3>q. notifications'[s] = list
        BY <3>1
      <3> HIDE DEF list
      <3>3. CASE notifications[s] # <<>>
        BY <1>0, <1>2, <3>1, <3>p, <3>q, <3>3 DEF FirstIsNewest
      <3>4. CASE notifications[s] = <<>>
        <4>1. list # <<>> /\ Len(list) \in Nat /\ (Len(list) = 0 => list = <<>>)
          BY <2>1, <3>1, <3>p, <3>q, EmptySeq
        <4>2. 1 \in 1..listed[a]
          BY <3>2, <3>p, <3>4, <4>1, NotifyConstants
        <4>3. list[1].of = a /\ list[1].number = listed[a] + 1 - 1
          BY <3>p, <3>4, <4>2
        <4> QED BY <3>1, <3>2, <3>q, <4>3, NotifyConstants DEF Newest
      <3> QED BY <3>3, <3>4
    <2> QED BY <2>2, <2>3
  <1>14. MarkedSeen' /\ HistoryFits'
    BY <1>3 DEF NotifyInv, MarkedSeen, HistoryFits
  <1>15. CASE dirty'
    BY <1>8, <1>9, <1>10, <1>11, <1>12, <1>13, <1>14, <1>15
       DEF NotifyInv, Alone, ListKept, CountKept, Steady
  <1>16. CASE ~dirty'
    <2>1. ~dirty /\ fate'[c] # "failed" /\ body[c] = Parts
      BY <1>16 DEF Resume, Disturbed, Lists
    <2>2. fate' = [fate EXCEPT ![c] = "ok"]
      BY <1>0, <1>1, <2>1
    <2>3. Steady /\ c \in reached /\ a = c /\ both
      BY <1>0, <1>1, <1>2, <2>1, <2>2 DEF Steady, Has, Parts, Lists
    <2>4. InFlight = {c} /\ s = screen
      BY <1>0, <1>1, <2>3 DEF NotifyInv, Alone, InFlight
    <2>5. InFlight' = {}
      BY <1>0, <1>1, <2>2, <2>4 DEF InFlight
    <2>6. /\ notifications[s] = <<>> /\ ~cut
          /\ listed[c] >= since /\ counted[c] = UnseenOf(listed[c])
      BY <2>3, <2>4 DEF NotifyInv, ListKept, CountKept, Current
    <2>7. /\ notifications'[s] \in Seq(Item) /\ Len(notifications'[s]) = listed[c]
          /\ \A i \in 1..listed[c] : notifications'[s][i].number = listed[c] + 1 - i
      <3>1. c \in Lists /\ listed[c] \in 0..Total /\ notifications[s] \in Seq(Item)
        BY <1>0, <1>2, ListedIsItem DEF TypeOK, Lists
      <3> DEFINE list == notifications[s] \o Page(c)
      <3>2. list \in Seq(Item) /\ Len(list) = listed[c]
        BY <2>6, <3>1, PageAppended
      <3>3. \A i \in 1..listed[c] : list[i].number = listed[c] + 1 - i
        BY <2>6, <3>1, PageAppended
      <3>4. notifications'[s] = list
        BY <1>6, <2>3
      <3> HIDE DEF list
      <3> QED BY <3>2, <3>3, <3>4
    <2>8. DOMAIN notifications'[s] = 1..listed[c]
      BY <2>7, LenProperties
    <2>9. listed[c] <= posted
      BY DEF NotifyInv, MarkedSeen, Lists
    <2>12. Current' = notifications'[s]
      BY <1>3, <2>4 DEF Current
    <2>10. Whole(Current)'
      BY <1>3, <2>6, <2>7, <2>8, <2>9, <2>12 DEF Whole
    <2>11. (mounted => HasPrefs)'
      BY <1>3, <1>4, <2>3, <2>4 DEF HasPrefs, Mounted
    <2>13. badge' = (Unseen + (IF cut THEN 1 ELSE 0))'
      <3>1. badge' = counted[c] /\ badge' \in 0..Total
        BY <1>5, <1>7, <2>3
      <3>2. Unseen' = UnseenOf(listed[c])
        BY <1>3, <2>7, <2>12 DEF Unseen, UnseenOf
      <3> QED BY <1>3, <2>6, <3>1, <3>2, NotifyConstants
    <2>14. ListKept' /\ Alone' /\ CountKept'
      BY <2>5, <2>10, <2>11, <2>12, <2>13 DEF ListKept, Alone, CountKept
    <2> QED BY <1>8, <1>9, <1>10, <1>11, <1>12, <1>13, <1>14, <2>14 DEF NotifyInv
  <1> QED BY <1>15, <1>16

\* A tap leaves the list; it keeps it steady only if it is alone and its item unread.
LEMMA TapStarts ==
  ASSUME NotifyInv, mounted, NEW t \in Taps, NEW i \in DOMAIN Current, Tap(t, Current[i])
  PROVE  NotifyInv'
  <1>0. t \in Calls /\ TypeOK /\ LoadsAwaited /\ TakenWasSent /\ MadeByOpened /\ t \notin Lists
    BY NotifyConstants DEF NotifyInv, Calls
  <1>1. /\ Net!TypeOK' /\ response' = response /\ DOMAIN fate = Calls
        /\ fate[t] = "unsent" /\ fate' = [fate EXCEPT ![t] = "waiting"]
    BY <1>0, GetAsks DEF Tap, TypeOK
  <1>2. UNCHANGED <<screen, mounted, header, sheets, notifications, task, listed, marked, counted,
                    body, badge, posted, unread, reached, since, cut>>
    BY DEF Tap, view, answers, server
  <1>3. /\ tapped' = [tapped EXCEPT ![t] = Current[i].number]
        /\ home' = [home EXCEPT ![t] = screen] /\ dirty' \in BOOLEAN
    BY <1>0 DEF Tap, TypeOK
  <1>4. screen \in 1..MaxOpens /\ screen \in States
    BY <1>0, NotifyConstants DEF TypeOK, States
  <1>5. /\ Current[i] \in Item /\ Current[i].number \in Items /\ i \in 1..Len(Current)
        /\ Len(Current) \in Nat
    BY <1>0, <1>4, ListedIsItem DEF Current, Item
  <1>6. TypeOK'
    BY <1>0, <1>1, <1>2, <1>3, <1>4, <1>5, NotifyConstants DEF TypeOK
  <1>7. LoadsAwaited'
    BY <1>0, <1>1, <1>2 DEF LoadsAwaited, Lists
  <1>8. TakenWasSent'
    BY <1>0, <1>1, <1>2 DEF TakenWasSent, TypeOK
  <1>9. MadeByOpened'
    BY <1>0, <1>1, <1>2, <1>3, <1>4 DEF MadeByOpened, TypeOK, Calls, Lists
  <1>10. PrefsHaveCount' /\ FirstIsNewest' /\ MarkedSeen' /\ HistoryFits'
    BY <1>2 DEF NotifyInv, PrefsHaveCount, FirstIsNewest, Newest, MarkedSeen, HistoryFits
  <1>11. CASE dirty'
    BY <1>6, <1>7, <1>8, <1>9, <1>10, <1>11 DEF NotifyInv, Alone, ListKept, CountKept, Steady
  <1>12. CASE ~dirty'
    <2>1. ~dirty /\ InFlight = {} /\ Current[i].number \in unread
      BY <1>12 DEF Tap
    <2>a. Steady /\ ~cut
      BY <1>4, <2>1 DEF Steady, NotifyInv, HistoryFits
    <2>2. InFlight' = {t} /\ t \notin Loads /\ t \notin Badgers /\ t \notin reached'
      BY <1>0, <1>1, <1>2, <2>1 DEF InFlight, TakenWasSent, Lists
    <2>3. tapped'[t] = Current[i].number /\ home'[t] = screen'
      BY <1>0, <1>2, <1>3 DEF TypeOK
    <2>4. Current' = Current /\ Unseen' = Unseen
      BY <1>2 DEF Current, Unseen, UnseenOf
    <2>5. Whole(Current) /\ HasPrefs /\ badge = Unseen + 0
      BY <2>1, <2>a DEF NotifyInv, ListKept, CountKept
    <2>6. Unseen \in Nat
      BY <1>0, <1>5, UnseenCounts DEF Unseen
    <2>7. Current[i].number \in 1..Len(Current)
      BY <1>5, <2>5 DEF Whole
    <2>8. HasPrefs'
      BY <1>0, <1>2, <1>3, <2>5 DEF HasPrefs, TypeOK, Lists
    <2>9. Whole(Current)'
      BY <1>2, <2>4, <2>5 DEF Whole
    <2>10. Alone' /\ ListKept'
      BY <2>2, <2>3, <2>8, <2>9 DEF ListKept, Alone
    <2>11. CountKept'
      BY <1>2, <2>1, <2>a, <2>2, <2>3, <2>4, <2>5, <2>6, <2>7 DEF CountKept
    <2> QED BY <1>6, <1>7, <1>8, <1>9, <1>10, <2>10, <2>11 DEF NotifyInv
  <1> QED BY <1>11, <1>12

\* A tap that nothing disturbed takes from the badge what the server took from its set,
\* unless the list is closed.
LEMMA TapEnds ==
  ASSUME NotifyInv, NEW t \in Taps, TapReturns(t)
  PROVE  NotifyInv'
  <1> DEFINE s == home[t]
             list == notifications[s]
  <1>0. /\ t \in Calls /\ t \in Loads \cup Taps /\ t \notin Lists /\ TypeOK /\ LoadsAwaited
        /\ TakenWasSent /\ MadeByOpened /\ FirstIsNewest /\ PrefsHaveCount
    BY NotifyConstants DEF NotifyInv, Calls
  <1>1. /\ Net!TypeOK' /\ response' \in reached \cup {NoAnswer} /\ DOMAIN fate = Calls
        /\ fate[t] = "waiting" /\ \E f \in {"ok", "failed"} : fate' = [fate EXCEPT ![t] = f]
        /\ fate'[t] = "ok" => t \in reached
    BY <1>0, GetReturns DEF TapReturns, TypeOK, TakenWasSent
  <1>2. s \in 1..screen /\ s \in States /\ screen > 0 /\ screen \in States
    BY <1>0, <1>1, NotifyConstants DEF MadeByOpened, TypeOK, States
  <1>3. UNCHANGED <<screen, mounted, header, notifications, home, task, tapped, listed, counted,
                    body, posted, unread, reached, since>>
    BY DEF TapReturns, server, calls
  <1>4. /\ list = <<>> => UNCHANGED <<marked, badge, sheets, cut>>
        /\ list # <<>> => marked' = [marked EXCEPT ![list[1].of] = @ \cup {list[1].number}]
        /\ list # <<>> /\ ~Mounted(s) =>
             cut' = (cut \/ s = screen) /\ UNCHANGED <<badge, sheets>>
        /\ Mounted(s) => cut' = cut
        /\ Mounted(s) /\ ~HasPrefs => UNCHANGED <<badge, sheets>>
        /\ list # <<>> /\ Mounted(s) /\ HasPrefs =>
             badge' = (IF badge = 0 THEN 0 ELSE badge - 1) /\ sheets' = sheets + 1
    BY DEF TapReturns, Mark, CountDown
  <1>5. list # <<>> =>
          /\ list[1].of \in Lists /\ list[1].number \in Items
          /\ list[1].number = listed[list[1].of]
    <2>1. SUFFICES ASSUME list # <<>>
                   PROVE  list[1].of \in Lists /\ list[1].number \in Items /\ Newest(list[1])
      BY DEF Newest
    <2>2. list[1] \in Item
      BY <1>0, <1>2, <2>1, ListedIsItem
    <2> QED BY <1>0, <1>2, <2>1, <2>2 DEF FirstIsNewest, Item
  <1>6. HasPrefs => badge # None
    BY <1>0 DEF PrefsHaveCount, HasPrefs
  <1>7. badge \in 0..Total \cup {None} /\ sheets \in Nat /\ cut \in BOOLEAN /\ Total \in Nat
    BY <1>0, NotifyConstants DEF TypeOK
  <1>8. badge' \in 0..Total \cup {None} /\ sheets' \in Nat /\ cut' \in BOOLEAN
    <2>1. CASE list # <<>> /\ Mounted(s) /\ HasPrefs
      BY <1>4, <1>6, <1>7, <2>1
    <2>2. CASE ~(list # <<>> /\ Mounted(s) /\ HasPrefs)
      BY <1>4, <1>7, <2>2
    <2> QED BY <2>1, <2>2
  <1>9. /\ marked' \in [Lists -> SUBSET Items]
        /\ \A a \in Lists : marked'[a] \subseteq marked[a] \cup ({listed[a]} \cap Items)
    <2>1. marked \in [Lists -> SUBSET Items]
      BY <1>0 DEF TypeOK
    <2>2. CASE list = <<>>
      BY <1>4, <2>1, <2>2
    <2>3. CASE list # <<>>
      BY <1>4, <1>5, <2>1, <2>3
    <2> QED BY <2>2, <2>3
  <1>10. TypeOK'
    <2>1. dirty' \in BOOLEAN
      BY DEF TapReturns
    <2> QED BY <1>0, <1>1, <1>3, <1>8, <1>9, <2>1 DEF TypeOK
  <1>11. LoadsAwaited' /\ TakenWasSent'
    BY <1>0, <1>1, <1>3 DEF LoadsAwaited, TakenWasSent, Lists, TypeOK
  <1>12. MadeByOpened' /\ FirstIsNewest'
    BY <1>0, <1>1, <1>3 DEF MadeByOpened, FirstIsNewest, Newest
  <1>13. PrefsHaveCount'
    <2>1. badge # None => badge' # None
      BY <1>4, <1>7, NotifyConstants
    <2> QED BY <1>0, <1>3, <2>1 DEF PrefsHaveCount
  <1>14. MarkedSeen'
    <2>1. MarkedSeen /\ posted \in Nat /\ listed \in [Lists -> 0..Total]
      BY <1>0, NotifyConstants DEF NotifyInv, TypeOK
    <2> QED BY <1>3, <1>9, <2>1, NotifyConstants DEF MarkedSeen, Items
  <1>15. HistoryFits'
    <2>1. HistoryFits
      BY DEF NotifyInv
    <2>2. CASE mounted /\ s = screen
      BY <1>3, <1>4, <2>1, <2>2 DEF HistoryFits, Mounted
    <2>3. CASE ~mounted
      BY <1>3, <2>1, <2>3 DEF HistoryFits
    <2>4. CASE s # screen
      <3>1. cut' = cut \/ cut' = (cut \/ s = screen)
        BY <1>4
      <3>2. cut' => cut
        BY <2>4, <3>1
      <3> QED BY <1>3, <2>1, <3>2 DEF HistoryFits
    <2> QED BY <2>2, <2>3, <2>4
  <1>16. CASE dirty'
    BY <1>10, <1>11, <1>12, <1>13, <1>14, <1>15, <1>16
       DEF NotifyInv, Alone, ListKept, CountKept, Steady
  <1>17. CASE ~dirty'
    <2>1. ~dirty /\ fate'[t] # "failed"
      BY <1>17 DEF TapReturns, Disturbed
    <2>2. fate' = [fate EXCEPT ![t] = "ok"] /\ t \in reached /\ Steady
      BY <1>0, <1>1, <1>2, <2>1 DEF Steady
    <2>3. InFlight = {t} /\ s = screen
      BY <1>0, <1>1, <2>2 DEF NotifyInv, Alone, InFlight
    <2>4. InFlight' = {} /\ t \notin Loads
      BY <1>0, <1>1, <2>2, <2>3 DEF InFlight, Lists
    <2>5. /\ Whole(Current) /\ (mounted => HasPrefs)
          /\ ~cut /\ tapped[t] \in 1..Len(Current) /\ badge = Unseen + 1
      BY <2>2, <2>3, <2>4 DEF NotifyInv, ListKept, CountKept
    <2>6. list # <<>> /\ Current = list /\ Unseen \in Nat
      <3>1. Len(Current) \in Nat /\ (Current = <<>> => Len(Current) = 0)
        BY <1>0, <1>2, ListedIsItem DEF Current
      <3>2. Unseen \in 0..Len(Current)
        BY <1>0, <3>1, UnseenCounts DEF Unseen
      <3> QED BY <2>3, <2>5, <3>1, <3>2 DEF Current
    <2>7. Current' = Current /\ Unseen' = Unseen /\ HasPrefs' = HasPrefs
      BY <1>3 DEF Current, Unseen, UnseenOf, HasPrefs
    <2>8. badge' = Unseen' + (IF cut' THEN 1 ELSE 0)
      <3>1. CASE mounted
        BY <1>4, <1>7, <2>3, <2>5, <2>6, <2>7, <3>1, NotifyConstants DEF Mounted
      <3>2. CASE ~mounted
        BY <1>4, <2>3, <2>5, <2>6, <2>7, <3>2 DEF Mounted
      <3> QED BY <3>1, <3>2
    <2>9. Whole(Current)'
      BY <1>3, <2>5, <2>7 DEF Whole
    <2>10. Alone' /\ ListKept' /\ CountKept'
      BY <1>3, <2>4, <2>5, <2>7, <2>8, <2>9 DEF Alone, ListKept, CountKept
    <2> QED BY <1>10, <1>11, <1>12, <1>13, <1>14, <1>15, <2>10 DEF NotifyInv
  <1> QED BY <1>16, <1>17

\* What a badge is answered is taken as it is; a badge disturbs the list it overlaps.
LEMMA BadgerStarts ==
  ASSUME NotifyInv, NEW c \in Badgers, BuildBadger(c)
  PROVE  NotifyInv'
  <1>0. /\ c \in Calls /\ c \notin Loads /\ c \notin Taps /\ TypeOK /\ LoadsAwaited
        /\ TakenWasSent /\ MadeByOpened
    BY NotifyConstants DEF NotifyInv, Calls, Lists
  <1>1. /\ Net!TypeOK' /\ response' = response /\ DOMAIN fate = Calls
        /\ fate[c] = "unsent" /\ fate' = [fate EXCEPT ![c] = "waiting"]
    BY <1>0, GetAsks DEF BuildBadger, TypeOK
  <1>2. UNCHANGED <<screen, mounted, header, sheets, notifications, home, task, tapped, listed,
                    marked, counted, body, badge, posted, unread, reached, since, cut>>
    BY DEF BuildBadger, view, answers, server, calls
  <1>3. TypeOK'
    BY <1>0, <1>1, <1>2 DEF TypeOK, BuildBadger
  <1>4. LoadsAwaited' /\ TakenWasSent' /\ MadeByOpened'
    BY <1>0, <1>1, <1>2 DEF LoadsAwaited, TakenWasSent, MadeByOpened, TypeOK
  <1>5. PrefsHaveCount' /\ FirstIsNewest' /\ MarkedSeen' /\ HistoryFits'
    BY <1>2 DEF NotifyInv, PrefsHaveCount, FirstIsNewest, Newest, MarkedSeen, HistoryFits
  \* a steady list without a call in flight has a count, so that no badge asks
  <1>6. ~Steady'
    <2>1. SUFFICES ASSUME Steady, InFlight = {} PROVE FALSE
      BY <1>2 DEF BuildBadger, Steady
    <2>2. screen \in States /\ badge = Unseen + (IF cut THEN 1 ELSE 0)
      BY <1>0, <2>1, NotifyConstants DEF NotifyInv, CountKept, Steady, TypeOK, States
    <2>3. Unseen \in Nat
      <3>1. Len(Current) \in Nat
        BY <1>0, <2>2, ListedIsItem DEF Current
      <3> QED BY <1>0, <3>1, UnseenCounts DEF Unseen
    <2>4. badge \in Nat
      BY <2>2, <2>3
    <2> QED BY <2>4, NotifyConstants DEF BuildBadger
  <1> QED BY <1>3, <1>4, <1>5, <1>6 DEF NotifyInv, Alone, ListKept, CountKept

\* A badge takes the count of its answer, which a steady list never waits for.
LEMMA BadgerEnds ==
  ASSUME NotifyInv, NEW c \in Badgers, BadgerReturns(c)
  PROVE  NotifyInv'
  <1>0. /\ c \in Calls /\ c \notin Loads /\ c \notin Taps /\ TypeOK /\ LoadsAwaited
        /\ TakenWasSent /\ MadeByOpened
    BY NotifyConstants DEF NotifyInv, Calls, Lists
  <1>1. /\ Net!TypeOK' /\ response' \in reached \cup {NoAnswer} /\ DOMAIN fate = Calls
        /\ fate[c] = "waiting" /\ \E f \in {"ok", "failed"} : fate' = [fate EXCEPT ![c] = f]
    BY <1>0, GetReturns DEF BadgerReturns, TypeOK, TakenWasSent
  <1>2. UNCHANGED <<screen, mounted, header, sheets, notifications, home, task, tapped, listed,
                    marked, counted, body, posted, unread, reached, since, cut>>
    BY DEF BadgerReturns, view, answers, server, calls
  <1>3. badge' \in 0..Total \cup {None} /\ (badge # None => badge' # None)
    BY <1>0, NotifyConstants DEF BadgerReturns, Has, TypeOK
  <1>4. TypeOK'
    BY <1>0, <1>1, <1>2, <1>3 DEF TypeOK, BadgerReturns
  <1>5. LoadsAwaited' /\ TakenWasSent' /\ MadeByOpened'
    BY <1>0, <1>1, <1>2 DEF LoadsAwaited, TakenWasSent, MadeByOpened, TypeOK
  <1>6. PrefsHaveCount' /\ FirstIsNewest' /\ MarkedSeen' /\ HistoryFits'
    BY <1>2, <1>3 DEF NotifyInv, PrefsHaveCount, FirstIsNewest, Newest, MarkedSeen, HistoryFits
  \* no badge asks while the list is steady
  <1>7. ~Steady'
    BY <1>0, <1>1, <1>2 DEF NotifyInv, Alone, InFlight, Steady, BadgerReturns
  <1> QED BY <1>4, <1>5, <1>6, <1>7 DEF NotifyInv, Alone, ListKept, CountKept

\* The server takes a load with its own count.
LEMMA ServerAnswers ==
  ASSUME NotifyInv, NEW c \in Lists, Reach(c), AnswerList(c)
  PROVE  NotifyInv'
  <1>0. TypeOK /\ LoadsAwaited /\ TakenWasSent /\ DOMAIN fate = Calls /\ c \in Calls
    BY DEF NotifyInv, TypeOK, Net!TypeOK, Calls
  <1>1. fate[c] = "waiting" /\ c \notin reached /\ reached' = reached \cup {c}
    BY DEF Reach, AnswerList
  <1>2. UNCHANGED <<fate, response, screen, mounted, header, sheets, notifications, home, task,
                    tapped, badge, posted, unread, dirty, since, cut>>
    BY DEF Reach, AnswerList, netVars, view, calls
  <1>3. /\ listed' = [listed EXCEPT ![c] = posted]
        /\ marked' = [marked EXCEPT ![c] = (1..posted) \ unread]
        /\ counted' = [counted EXCEPT ![c] = Cardinality(unread)]
    BY DEF AnswerList
  <1>4. posted \in Nat /\ posted <= Total /\ Total \in Nat /\ unread \subseteq 1..posted
    BY <1>0, NotifyConstants DEF TypeOK
  <1>5. unread \cap (1..posted) = unread /\ UnseenOf(posted) = Cardinality(unread)
    BY <1>4 DEF UnseenOf
  <1>6. TypeOK'
    <2>1. Net!TypeOK'
      BY <1>0 DEF TypeOK, Net!TypeOK, netVars, Reach
    <2>2. body' \in [Lists -> SUBSET Parts]
      BY <1>0 DEF AnswerList, TypeOK
    <2>3. Cardinality(unread) \in 0..Total
      BY <1>4, Counts
    <2>4. (1..posted) \ unread \in SUBSET Items
      BY <1>4 DEF Items
    <2> QED BY <1>0, <1>1, <1>2, <1>3, <1>4, <2>1, <2>2, <2>3, <2>4 DEF TypeOK
  <1>7. LoadsAwaited' /\ TakenWasSent'
    BY <1>0, <1>1, <1>2 DEF LoadsAwaited, TakenWasSent
  <1>8. MadeByOpened' /\ PrefsHaveCount' /\ HistoryFits'
    BY <1>2 DEF NotifyInv, MadeByOpened, PrefsHaveCount, HistoryFits
  <1>9. FirstIsNewest'
    BY <1>0, <1>1, <1>2, <1>3 DEF NotifyInv, FirstIsNewest, Newest, TypeOK
  <1>10. MarkedSeen'
    BY <1>0, <1>2, <1>3, <1>4 DEF NotifyInv, MarkedSeen, TypeOK
  <1>11. InFlight' = InFlight /\ c \in InFlight /\ (Steady' <=> Steady)
    BY <1>0, <1>1, <1>2 DEF InFlight, Steady
  <1>12. Current' = Current /\ Unseen' = Unseen /\ HasPrefs' = HasPrefs
    BY <1>2 DEF Current, Unseen, UnseenOf, HasPrefs
  <1>13. ASSUME Steady PROVE Alone' /\ ListKept' /\ CountKept'
    <2>1. InFlight = {c} /\ c \in Loads /\ c \notin Taps
      BY <1>11, <1>13, NotifyConstants DEF NotifyInv, Alone, Lists
    <2>2. Alone'
      BY <1>2, <1>11 DEF NotifyInv, Alone
    <2>3. ListKept'
      BY <1>2, <1>11, <1>12, <1>13, <2>1 DEF NotifyInv, ListKept
    <2>4. listed'[c] = posted /\ counted'[c] = UnseenOf(posted)
      BY <1>0, <1>3, <1>5 DEF TypeOK
    <2>5. since <= posted /\ ~cut
      BY <1>13, <2>1 DEF NotifyInv, HistoryFits, CountKept
    <2>6. UnseenOf(posted)' = UnseenOf(posted)
      BY <1>2 DEF UnseenOf
    <2>7. CountKept'
      BY <1>0, <1>2, <1>4, <1>11, <2>1, <2>4, <2>5, <2>6 DEF CountKept, TypeOK, UnseenOf
    <2> QED BY <2>2, <2>3, <2>7
  <1> QED BY <1>6, <1>7, <1>8, <1>9, <1>10, <1>11, <1>13 DEF NotifyInv, Alone, ListKept, CountKept

\* The server takes a tap away from its count.
LEMMA ServerTakesTap ==
  ASSUME NotifyInv, NEW t \in Taps, Reach(t), TakeTap(t)
  PROVE  NotifyInv'
  <1>0. TypeOK /\ LoadsAwaited /\ TakenWasSent /\ DOMAIN fate = Calls /\ t \in Calls /\ t \notin Lists
    BY NotifyConstants DEF NotifyInv, TypeOK, Net!TypeOK, Calls
  <1>1. fate[t] \in {"waiting", "failed"} /\ t \notin reached /\ reached' = reached \cup {t}
    BY DEF Reach, TakeTap
  <1>2. UNCHANGED <<fate, response, screen, mounted, header, sheets, notifications, home, task,
                    tapped, listed, marked, counted, body, badge, posted, since, cut>>
    BY DEF Reach, TakeTap, netVars, view, calls, answers
  <1>3. unread' = unread \ {tapped[t]} /\ dirty' = (dirty \/ fate[t] = "failed")
    BY DEF TakeTap
  <1>4. TypeOK'
    <2>1. Net!TypeOK'
      BY <1>0 DEF TypeOK, Net!TypeOK, netVars, Reach
    <2> QED BY <1>0, <1>1, <1>2, <1>3, <2>1 DEF TypeOK
  <1>5. LoadsAwaited' /\ TakenWasSent'
    BY <1>0, <1>1, <1>2 DEF LoadsAwaited, TakenWasSent
  <1>6. MadeByOpened' /\ PrefsHaveCount' /\ HistoryFits'
    BY <1>2 DEF NotifyInv, MadeByOpened, PrefsHaveCount, HistoryFits
  <1>7. FirstIsNewest' /\ MarkedSeen'
    BY <1>1, <1>2, <1>3 DEF NotifyInv, FirstIsNewest, Newest, MarkedSeen
  <1>8. CASE dirty'
    BY <1>4, <1>5, <1>6, <1>7, <1>8 DEF NotifyInv, Alone, ListKept, CountKept, Steady
  <1>9. CASE ~Steady'
    BY <1>4, <1>5, <1>6, <1>7, <1>9 DEF NotifyInv, Alone, ListKept, CountKept
  <1>10. CASE Steady' /\ ~dirty'
    <2>a. ~dirty /\ fate[t] = "waiting"
      BY <1>1, <1>3, <1>10
    <2>1. Steady /\ fate[t] = "waiting" /\ screen \in States
      <3>1. screen > 0 /\ screen \in 0..MaxOpens
        BY <1>0, <1>2, <1>10 DEF Steady, TypeOK
      <3> QED BY <2>a, <3>1, NotifyConstants DEF Steady, States
    <2>2. InFlight' = InFlight /\ InFlight = {t} /\ t \notin Loads /\ t \in InFlight \cap Taps
      BY <1>0, <1>2, <2>1 DEF NotifyInv, Alone, InFlight, Lists
    <2>3. Current' = Current /\ HasPrefs' = HasPrefs
      BY <1>2 DEF Current, HasPrefs
    <2>4. tapped[t] \in unread /\ tapped[t] \in 1..Len(Current) /\ badge = Unseen /\ ~cut
      BY <1>1, <2>1, <2>2 DEF NotifyInv, CountKept
    <2>5. Unseen' = Unseen - 1 /\ Unseen \in Nat
      <3>1. Len(Current) \in Nat
        BY <1>0, <2>1, ListedIsItem DEF Current
      <3>2. /\ Unseen \in Nat
            /\ Cardinality((unread \ {tapped[t]}) \cap (1..Len(Current))) = Unseen - 1
        BY <1>0, <2>4, <3>1, UnseenCounts DEF Unseen
      <3> QED BY <1>3, <2>3, <3>2 DEF Unseen, UnseenOf
    <2>6. Whole(Current)' /\ (mounted => HasPrefs)'
      BY <1>2, <2>1, <2>2, <2>3 DEF NotifyInv, ListKept, Whole
    <2>7. Alone' /\ ListKept'
      BY <1>2, <2>1, <2>2, <2>6 DEF NotifyInv, Alone, ListKept
    <2>8. badge' = Unseen' + 1 /\ t \in reached'
      BY <1>1, <1>2, <2>4, <2>5
    <2>9. CountKept'
      BY <1>2, <2>2, <2>3, <2>4, <2>8 DEF CountKept
    <2> QED BY <1>4, <1>5, <1>6, <1>7, <2>7, <2>9 DEF NotifyInv
  <1> QED BY <1>8, <1>9, <1>10

\* A notification that comes is newer than what any answer counted.
LEMMA ServerGets ==
  ASSUME NotifyInv, Arrive
  PROVE  NotifyInv'
  <1>0. TypeOK /\ posted \in Nat /\ posted + 1 <= Total /\ Total \in Nat
    <2>1. TypeOK
      BY DEF NotifyInv
    <2>2. posted \in 0..Total /\ posted < Total
      BY <2>1 DEF TypeOK, Arrive
    <2> QED BY <2>1, <2>2, NotifyConstants
  <1>1. posted' = posted + 1 /\ unread' = unread \cup {posted + 1}
    BY DEF Arrive
  <1>2. UNCHANGED <<fate, response, screen, mounted, header, sheets, notifications, home, task,
                    tapped, listed, marked, counted, body, badge, reached, dirty, since, cut>>
    BY DEF Arrive, netVars, view, calls, answers, history
  <1>3. TypeOK'
    <2>1. Net!TypeOK'
      BY <1>0 DEF TypeOK, Net!TypeOK, netVars, Arrive
    <2>2. posted' \in 0..Total /\ unread' \subseteq 1..posted'
      BY <1>0, <1>1 DEF TypeOK
    <2> QED BY <1>0, <1>2, <2>1, <2>2 DEF TypeOK
  <1>4. LoadsAwaited' /\ TakenWasSent' /\ MadeByOpened' /\ PrefsHaveCount' /\ FirstIsNewest'
    BY <1>2 DEF NotifyInv, LoadsAwaited, TakenWasSent, MadeByOpened, PrefsHaveCount, FirstIsNewest, Newest
  <1>5. MarkedSeen'
    <2>1. listed \in [Lists -> 0..Total] /\ marked \in [Lists -> SUBSET Items] /\ MarkedSeen
      BY <1>0 DEF NotifyInv, TypeOK
    <2> QED BY <1>0, <1>1, <1>2, <2>1 DEF MarkedSeen
  <1>6. HistoryFits'
    BY <1>0, <1>1, <1>2 DEF NotifyInv, HistoryFits, TypeOK
  <1>7. \A n \in Nat : n <= posted => UnseenOf(n)' = UnseenOf(n)
    <2>1. ASSUME NEW n \in Nat, n <= posted PROVE unread' \cap (1..n) = unread \cap (1..n)
      BY <1>0, <1>1, <2>1
    <2> QED BY <2>1 DEF UnseenOf
  <1>8. InFlight' = InFlight /\ (Steady' <=> Steady) /\ Current' = Current /\ HasPrefs' = HasPrefs
    BY <1>2 DEF InFlight, Steady, Current, HasPrefs
  <1>9. ASSUME Steady PROVE Alone' /\ ListKept' /\ CountKept'
    <2>1. Alone'
      BY <1>2, <1>8 DEF NotifyInv, Alone
    <2>2. Len(Current) \in Nat /\ (Current = <<>> => Len(Current) = 0)
      <3>1. screen \in States
        BY <1>0, <1>9, NotifyConstants DEF Steady, TypeOK, States
      <3> QED BY <1>0, <3>1, ListedIsItem DEF Current
    <2>3. Len(Current) <= posted
      BY <1>0, <1>9, <2>2 DEF NotifyInv, ListKept, Whole
    <2>4. Unseen' = Unseen
      BY <1>7, <1>8, <2>2, <2>3 DEF Unseen
    <2>5. ListKept'
      BY <1>0, <1>1, <1>2, <1>8, <1>9, <2>2, <2>3 DEF NotifyInv, ListKept, Whole
    <2>6. \A c \in Loads : listed[c] \in Nat /\ UnseenOf(listed[c])' = UnseenOf(listed[c])
      <3>1. \A c \in Loads : listed[c] \in 0..Total /\ listed[c] <= posted
        BY <1>0 DEF NotifyInv, MarkedSeen, TypeOK, Lists
      <3> QED BY <1>0, <1>2, <1>7, <3>1
    <2>7. CountKept'
      <3>1. ASSUME InFlight' = {} PROVE badge' = Unseen' + (IF cut' THEN 1 ELSE 0)
        BY <1>2, <1>8, <1>9, <2>4, <3>1 DEF NotifyInv, CountKept
      <3>2. ASSUME NEW c \in InFlight' \cap Loads
            PROVE  ~cut' /\ (c \in reached' => listed'[c] >= since' /\ counted'[c] = UnseenOf(listed[c])')
        BY <1>2, <1>8, <1>9, <2>6, <3>2 DEF NotifyInv, CountKept
      <3>3. ASSUME NEW t \in InFlight' \cap Taps
            PROVE  /\ ~cut' /\ tapped'[t] \in 1..Len(Current')
                   /\ IF t \in reached' THEN badge' = Unseen' + 1
                      ELSE tapped'[t] \in unread' /\ badge' = Unseen'
        BY <1>1, <1>2, <1>8, <1>9, <2>4, <3>3 DEF NotifyInv, CountKept
      <3> QED BY <3>1, <3>2, <3>3 DEF CountKept
    <2> QED BY <2>1, <2>5, <2>7
  <1> QED BY <1>3, <1>4, <1>5, <1>6, <1>8, <1>9 DEF NotifyInv, Alone, ListKept, CountKept

-----------------------------------------------------------------------------
(* The invariant holds.                                                    *)

\* Before the list is opened the invariant holds.
LEMMA NotifyInvInit == Init => NotifyInv
  <1> SUFFICES ASSUME Init PROVE NotifyInv
    OBVIOUS
  <1>1. TypeOK
    <2>1. Net!TypeOK
      BY DEF Init, Net!Init, Net!TypeOK, Net!Fates, Net!Methods
    <2>2. notifications \in [States -> Seq([of : Lists, number : Items])]
      BY EmptySeq DEF Init
    <2>3. /\ listed \in [Lists -> 0..Total] /\ marked \in [Lists -> SUBSET Items]
          /\ counted \in [Lists -> 0..Total] /\ body \in [Lists -> SUBSET Parts]
      BY NotifyConstants DEF Init
    <2>4. /\ task \in [Loads -> {"none", "init", "refresh", "delay", "done", "threw"}]
          /\ tapped \in [Taps -> Items \cup {None}] /\ home \in [Calls -> 0..MaxOpens]
      BY NotifyConstants DEF Init
    <2>5. screen = 0 /\ header = "idle" /\ sheets = 0 /\ badge = None /\ since = 0
      BY DEF Init
    <2>6. posted \in 0..Total /\ unread \in SUBSET (1..posted) /\ reached = {}
      BY DEF Init
    <2>7. mounted = FALSE /\ dirty = FALSE /\ cut = FALSE
      BY DEF Init
    <2>8. 0 \in 0..Total /\ 0 \in 0..MaxOpens /\ 0 \in Nat
      BY NotifyConstants
    <2> QED BY <2>1, <2>2, <2>3, <2>4, <2>5, <2>6, <2>7, <2>8 DEF TypeOK
  <1>2. fate = [c \in Calls |-> "unsent"] /\ task = [c \in Loads |-> "none"] /\ response = NoAnswer
    BY DEF Init, Net!Init
  <1>3. LoadsAwaited /\ TakenWasSent /\ MadeByOpened /\ PrefsHaveCount
    BY <1>2 DEF Init, LoadsAwaited, TakenWasSent, MadeByOpened, PrefsHaveCount, Calls, Lists
  <1>4. FirstIsNewest /\ MarkedSeen /\ HistoryFits
    BY <1>1 DEF Init, FirstIsNewest, MarkedSeen, HistoryFits, TypeOK
  <1>5. ~Steady
    BY DEF Init, Steady
  <1> QED BY <1>1, <1>3, <1>4, <1>5 DEF NotifyInv, Alone, ListKept, CountKept

\* What only closes a list or moves its sheets and its header keeps the invariant.
LEMMA ViewMoves ==
  ASSUME NotifyInv, mounted' \in BOOLEAN, mounted' => mounted,
         sheets' \in Nat, header' \in {"idle", "refreshing"},
         UNCHANGED <<netVars, screen, notifications, home, tapped, answers, badge, server, history>>,
         task' = task \/ \E c \in Loads : /\ task[c] = "delay"
                                          /\ task' = [task EXCEPT ![c] = "done"]
  PROVE  NotifyInv'
  <1>1. UNCHANGED <<fate, response, listed, marked, counted, body, posted, unread, reached,
                    dirty, since, cut, screen, notifications, home, tapped, badge>>
    BY DEF netVars, answers, server, history
  <1>2. /\ task \in [Loads -> {"none", "init", "refresh", "delay", "done", "threw"}]
        /\ task' \in [Loads -> {"none", "init", "refresh", "delay", "done", "threw"}]
        /\ \A c \in Loads : /\ task'[c] \in {"delay", "done"} <=> task[c] \in {"delay", "done"}
                            /\ task'[c] \in {"init", "refresh"} <=> task[c] \in {"init", "refresh"}
                            /\ task'[c] = "none" <=> task[c] = "none"
    BY DEF NotifyInv, TypeOK
  <1>3. TypeOK'
    <2>1. TypeOK /\ Net!TypeOK'
      BY DEF NotifyInv, TypeOK, Net!TypeOK, netVars
    <2> QED BY <1>1, <1>2, <2>1 DEF TypeOK
  <1>4. LoadsAwaited' /\ TakenWasSent' /\ MadeByOpened' /\ PrefsHaveCount' /\ HistoryFits'
    BY <1>1, <1>2 DEF NotifyInv, LoadsAwaited, TakenWasSent, MadeByOpened, PrefsHaveCount, HistoryFits
  <1>5. FirstIsNewest' /\ MarkedSeen'
    BY <1>1 DEF NotifyInv, FirstIsNewest, Newest, MarkedSeen
  <1>6. /\ InFlight' = InFlight /\ (Steady' <=> Steady) /\ Current' = Current
        /\ Unseen' = Unseen /\ (HasPrefs' <=> HasPrefs)
    BY <1>1, <1>2 DEF InFlight, Steady, Current, Unseen, UnseenOf, HasPrefs
  <1>7. Alone'
    BY <1>1, <1>6 DEF NotifyInv, Alone
  <1>8. ListKept'
    BY <1>1, <1>6 DEF NotifyInv, ListKept, Whole
  <1>9. CountKept'
    BY <1>1, <1>6 DEF NotifyInv, CountKept, UnseenOf
  <1> QED BY <1>3, <1>4, <1>5, <1>7, <1>8, <1>9 DEF NotifyInv

\* Every step keeps the invariant.
LEMMA NotifyInvNext == NotifyInv /\ [Next]_vars => NotifyInv'
  <1> SUFFICES ASSUME NotifyInv, [Next]_vars PROVE NotifyInv'
    OBVIOUS
  <1>0. /\ TypeOK /\ screen \in 0..MaxOpens /\ MaxOpens \in Nat /\ mounted \in BOOLEAN
        /\ header \in {"idle", "refreshing"} /\ sheets \in Nat
        /\ notifications \in [States -> Seq(Item)]
    BY NotifyConstants DEF NotifyInv, TypeOK, Item
  <1>1. ASSUME NEW c \in Loads, Open(c) PROVE NotifyInv'
    <2>1. screen' \in States /\ screen' = screen + 1 /\ mounted' = TRUE /\ header' = "idle"
      BY <1>0, <1>1 DEF Open, States
    <2>2. notifications[screen'] = <<>> /\ notifications' = notifications
      BY <1>0, <1>1, <2>1 DEF Open, NotifyInv, MadeByOpened, States
    <2>3. notifications' = [notifications EXCEPT ![screen'] = <<>>]
      BY <1>0, <2>1, <2>2
    <2> QED BY <1>1, <2>1, <2>3, LoadStarts DEF Open
  <1>2. ASSUME NEW c \in Loads, Refresh(c) PROVE NotifyInv'
    <2>1. screen \in States /\ screen' = screen /\ mounted' = TRUE
      BY <1>0, <1>2 DEF Refresh, TypeOK, States
    <2> QED BY <1>2, <2>1, LoadStarts DEF Refresh
  <1>3. ASSUME NEW c \in Loads, Resume(c) PROVE NotifyInv'
    BY <1>3, LoadEnds
  <1>4. ASSUME NEW c \in Loads, Complete(c) PROVE NotifyInv'
    BY <1>0, <1>4, ViewMoves DEF Complete
  <1>5. ASSUME Close PROVE NotifyInv'
    BY <1>0, <1>5, ViewMoves DEF Close, calls
  <1>6. ASSUME NEW item, TapRead(item) PROVE NotifyInv'
    BY <1>0, <1>6, ViewMoves DEF TapRead, calls
  <1>7. ASSUME CloseSheet PROVE NotifyInv'
    BY <1>0, <1>7, ViewMoves DEF CloseSheet, calls
  <1>8. ASSUME mounted, NEW i \in DOMAIN notifications[screen], NEW t \in Taps,
               Tap(t, notifications[screen][i])
        PROVE  NotifyInv'
    BY <1>8, TapStarts DEF Current
  <1>9. ASSUME NEW t \in Taps, TapReturns(t) PROVE NotifyInv'
    BY <1>9, TapEnds
  <1>10. ASSUME NEW c \in Badgers, BuildBadger(c) \/ BadgerReturns(c) PROVE NotifyInv'
    BY <1>10, BadgerStarts, BadgerEnds
  <1>11. ASSUME NEW c \in Calls, Reach(c) PROVE NotifyInv'
    BY <1>11, ServerAnswers, ServerTakesTap DEF Reach, AnswerList, TakeTap
  <1>12. CASE Arrive
    BY <1>12, ServerGets
  <1>13. CASE UNCHANGED vars
    BY <1>0, <1>13, ViewMoves DEF vars, view, calls
  <1> QED BY <1>1, <1>2, <1>3, <1>4, <1>5, <1>6, <1>7, <1>8, <1>9, <1>10, <1>11, <1>12, <1>13
          DEF Next, OfList

\* Every reachable state has the invariant.
LEMMA NotifyInvariant == Spec => []NotifyInv
  BY NotifyInvInit, NotifyInvNext, PTL DEF Spec

\* The state has its type: however taps and answers cross, the badge stays between
\* nothing and the number of notifications, and a listed item is one of the server's.
THEOREM TypeCorrect == Spec => []TypeOK
  BY NotifyInvariant, PTL DEF NotifyInv

\* A whole list shows the numbers up to its length.
LEMMA WholeNumbers ==
  ASSUME TypeOK, NEW s \in States, Whole(notifications[s])
  PROVE  Numbers(notifications[s]) = 1..Len(notifications[s])
  <1> DEFINE list == notifications[s]
  <1>1. Len(list) \in Nat /\ DOMAIN list = 1..Len(list)
    BY ListedIsItem
  <1>2. \A i \in 1..Len(list) : list[i].number = Len(list) + 1 - i
    BY <1>1 DEF Whole
  <1> HIDE DEF list
  <1>3. ASSUME NEW n \in 1..Len(list) PROVE n \in Numbers(list)
    <2>1. Len(list) + 1 - n \in 1..Len(list) /\ Len(list) + 1 - (Len(list) + 1 - n) = n
      BY <1>1
    <2> QED BY <1>1, <1>2, <2>1 DEF Numbers
  <1>4. Numbers(list) \subseteq 1..Len(list)
    BY <1>1, <1>2 DEF Numbers
  <1> QED BY <1>3, <1>4 DEF list

\* Whatever overlapped, failed or was counted twice before, and however many
\* notifications come: a list opened or refreshed afresh, with nothing lost or
\* overlapping since, has as its badge the server's count of what it shows, and one more
\* if it was closed under a tap.
THEOREM BadgeIsServersCount == Spec => []BadgeCountsUnread
  <1>1. ASSUME NotifyInv PROVE BadgeCountsUnread
    <2>1. SUFFICES ASSUME Clean
                   PROVE  badge = Cardinality(unread \cap Numbers(Current)) + (IF cut THEN 1 ELSE 0)
      BY DEF BadgeCountsUnread, Current
    <2>2. Whole(Current) /\ badge = Unseen + (IF cut THEN 1 ELSE 0)
      BY <1>1, <2>1 DEF NotifyInv, Clean, Steady, ListKept, CountKept
    <2>3. screen \in States
      BY <1>1, <2>1, NotifyConstants DEF NotifyInv, TypeOK, Clean, States
    <2>4. Numbers(Current) = 1..Len(Current)
      BY <1>1, <2>2, <2>3, WholeNumbers DEF NotifyInv, Current
    <2> QED BY <2>2, <2>4 DEF Unseen, UnseenOf
  <1> QED BY <1>1, NotifyInvariant, PTL

\* Such a list has each notification exactly once, the newest first, and all that had
\* come when it was asked for.
THEOREM NothingListedTwice == Spec => []ListedOnce
  <1>1. NotifyInv => ListedOnce
    BY DEF NotifyInv, ListKept, Steady, ListedOnce, Clean, Whole, Current
  <1> QED BY <1>1, NotifyInvariant, PTL

\* The mark that a tap sets falls on the first item alone, which is the newest of its
\* answer; any other item that looks read was seen, in every state and every list.
THEOREM MarksFallOnTheFirst == Spec => []OnlyFirstLooksRead
  <1>1. ASSUME NotifyInv PROVE OnlyFirstLooksRead
    <2>1. SUFFICES ASSUME NEW s \in States, NEW i \in DOMAIN notifications[s],
                          IsRead(notifications[s][i]), notifications[s][i].number \in unread
                   PROVE  notifications[s][i].number = listed[notifications[s][i].of]
      BY DEF OnlyFirstLooksRead
    <2>2. notifications[s][i].of \in Lists
      BY <1>1, ListedIsItem DEF NotifyInv, Item
    <2> QED BY <1>1, <2>1, <2>2 DEF NotifyInv, MarkedSeen, IsRead
  <1> QED BY <1>1, NotifyInvariant, PTL

-----------------------------------------------------------------------------
(* The list and its badge as callers of the helper that all screens share. *)

Helper == INSTANCE NetworkUtilProofs

\* Whatever the list, its badge and its taps do is to the helper a call made, the
\* return of one that is in flight, or nothing; the server's own steps are nothing.
LEMMA HelperStep == [Next]_vars => [Net!Next]_(Net!vars)
<1> SUFFICES ASSUME [Next]_vars PROVE [Net!Next]_(Net!vars)
  OBVIOUS
<1>1. ASSUME NEW c \in Calls,
             Net!Get(c, NoBase) \/ Net!Post(c, NoBase) \/ Net!Answer(c) \/ Net!Fail(c)
      PROVE  Net!Next
  BY <1>1 DEF Net!Next, Bases
<1>2. ASSUME NEW c \in Calls, Back(c) PROVE Net!Next
  BY <1>1, <1>2 DEF Back, Net!Answer, Net!Fail
<1>3. ASSUME NEW c \in Loads, Open(c) \/ Refresh(c) \/ Resume(c) PROVE Net!Next
  BY <1>1, <1>2, <1>3 DEF Open, Refresh, GetNotificationList, Resume, Calls, Lists
<1>4. ASSUME NEW t \in Taps, NEW item, Tap(t, item) \/ TapReturns(t) PROVE Net!Next
  BY <1>1, <1>2, <1>4 DEF Tap, TapReturns, Calls
<1>5. ASSUME NEW c \in Badgers, BuildBadger(c) \/ BadgerReturns(c) PROVE Net!Next
  BY <1>1, <1>2, <1>5 DEF BuildBadger, BadgerReturns, Calls, Lists
<1>6. ASSUME UNCHANGED netVars PROVE UNCHANGED Net!vars
  BY <1>6 DEF netVars, Net!vars, Net!sharedVars, Net!callVars
<1> QED BY <1>3, <1>4, <1>5, <1>6 DEF Next, OfList, Close, Complete, TapRead, CloseSheet, Arrive, Reach, vars

\* The list, the badge and the taps use the helper as NetworkUtil says: what is proved
\* of the helper holds for all three.
THEOREM NotifyUsesHelper == Spec => Net!Spec
<1>1. Init => Net!Init BY DEF Init
<1> QED BY <1>1, HelperStep, PTL DEF Spec, Net!Spec

\* The instance that the theorems of NetworkUtil are about is the helper of the screen.
LEMMA SameHelper == Net!Spec => Helper!Spec
<1>1. Net!Init => Helper!Init
  BY DEF Net!Init, Helper!Init
<1>2. [Net!Next]_(Net!vars) => [Helper!Next]_(Helper!vars)
  BY DEF Net!Next, Net!Get, Net!Post, Net!Begin, Net!Answer, Net!Fail, Net!Return, Net!GetAnswered,
         Net!GetFailed, Net!PostAnswered, Net!PostNot200, Net!PostBadBody, Net!PostFailed,
         Net!vars, Net!sharedVars, Net!callVars,
         Helper!Next, Helper!Get, Helper!Post, Helper!Begin, Helper!Answer, Helper!Fail,
         Helper!Return, Helper!GetAnswered, Helper!GetFailed, Helper!PostAnswered,
         Helper!PostNot200, Helper!PostBadBody, Helper!PostFailed,
         Helper!vars, Helper!sharedVars, Helper!callVars
<1> QED BY <1>1, <1>2, PTL DEF Net!Spec, Helper!Spec

\* So list, badge and taps may rely on HttpContract: an answered get hands over its own
\* answer, one that fails at most an answer that some server gave before, and what was
\* handed over is final.
THEOREM NotifyKeepsContract == Spec => Net!ContractSpec
<1>1. Helper!Sentinels
  BY HelperConstants
<1>2. Helper!Spec => Helper!ContractSpec
  BY <1>1, Helper!Refinement
<1>3. Helper!ContractSpec => Net!ContractSpec
  <2>1. Helper!Contract!Init => Net!Contract!Init
    BY DEF Helper!Contract!Init, Net!Contract!Init, Helper!Arrived, Net!Arrived,
           Helper!Accepted, Net!Accepted
  <2>2. [Helper!Contract!Next]_(Helper!Contract!vars) => [Net!Contract!Next]_(Net!Contract!vars)
    BY DEF Helper!Contract!Next, Helper!Contract!Ask, Helper!Contract!EndGet,
           Helper!Contract!EndPost, Helper!Contract!Fallback, Helper!Contract!vars,
           Net!Contract!Next, Net!Contract!Ask, Net!Contract!EndGet,
           Net!Contract!EndPost, Net!Contract!Fallback, Net!Contract!vars,
           Helper!Arrived, Net!Arrived, Helper!Accepted, Net!Accepted
  <2> QED BY <2>1, <2>2, PTL DEF Helper!ContractSpec, Net!ContractSpec,
             Helper!Contract!Spec, Net!Contract!Spec
<1> QED BY <1>2, <1>3, NotifyUsesHelper, SameHelper
=============================================================================
