--------------------------- MODULE PagedListProofs ---------------------------
(***************************************************************************)
(* Theorems about the paginated screens for every number of loads, of      *)
(* items and of calls of other screens: what a list may show, where items  *)
(* of another screen come from, what leaves a spinner turning, that the    *)
(* screens use the helper as NetworkUtil allows, and that a refresh ends.  *)
(***************************************************************************)
EXTENDS PagedList, TLAPS, SequenceTheorems

-----------------------------------------------------------------------------
(* The guard totalPage >= page.                                            *)

\* What rounding to the nearest page and rounding up have in common: both
\* quotients are fixed by the multiples of perPage around total.
LEMMA Quotient ==
  ASSUME NEW a \in Int, NEW b \in Nat \ {0}
  PROVE  /\ a \div b \in Int
         /\ b * (a \div b) <= a
         /\ a < b * (a \div b) + b
  BY SMT

\* The number of pages that getItemList computes is never too small, so that it
\* skips no page of the server, and too large by one page at the most, so that
\* it shows at most one answer without items.
THEOREM GuardCoversEveryPage ==
  ASSUME NEW total \in Nat, NEW perPage \in Nat \ {0}
  PROVE  /\ LastPage(total, perPage) <= TotalPage(total, perPage)
         /\ TotalPage(total, perPage) <= LastPage(total, perPage) + 1
<1> DEFINE up == (total + perPage - 1) \div perPage
           near == (2 * total + perPage) \div (2 * perPage)
<1>1. /\ up \in Int
      /\ perPage * up <= total + perPage - 1
      /\ total + perPage - 1 < perPage * up + perPage
  BY Quotient
<1>2. /\ near \in Int
      /\ 2 * perPage * near <= 2 * total + perPage
      /\ 2 * total + perPage < 2 * perPage * near + 2 * perPage
  <2> DEFINE d == 2 * perPage
  <2>1. d \in Nat \ {0} /\ 2 * total + perPage \in Int
    OBVIOUS
  <2> HIDE DEF d
  <2>2. LET q == (2 * total + perPage) \div d
        IN  q \in Int /\ d * q <= 2 * total + perPage /\ 2 * total + perPage < d * q + d
    BY <2>1, Quotient
  <2> QED BY <2>2 DEF d
<1> HIDE DEF up, near
<1>3. up <= near + 1
  <2>1. perPage * (2 * up - 2 * near - 4) < 0
    BY <1>1, <1>2
  <2>2. 2 * up - 2 * near - 4 < 0
    BY <1>1, <1>2, <2>1
  <2> QED BY <1>1, <1>2, <2>2
<1>4. near <= up
  <2>1. perPage * (2 * near - 2 * up - 1) <= 0
    BY <1>1, <1>2
  <2>2. 2 * near - 2 * up - 1 <= 0
    BY <1>1, <1>2, <2>1
  <2> QED BY <1>1, <1>2, <2>2
<1> QED BY <1>1, <1>2, <1>3, <1>4 DEF up, near, LastPage, TotalPage

-----------------------------------------------------------------------------
(* The type of the state.                                                  *)

\* The part of the type that is about this screen.
Screen ==
  /\ jobs \in Seq(Nat) /\ page \in Nat \ {0}
  /\ header \in {"idle", "refreshing"} /\ footer \in {"idle", "loading"}
  /\ task \in [ListCalls -> Tasks]
  /\ urlPage \in [ListCalls -> Nat] /\ garbled \subseteq ListCalls
  /\ dirty \in BOOLEAN

Typed == Net!TypeOK /\ Screen

\* The calls of the helper keep the type of its fields.
LEMMA BeginTyped ==
  ASSUME Net!TypeOK, NEW c \in Calls, Net!Get(c, NoBase) \/ Net!Post(c, NoBase)
  PROVE  Net!TypeOK'
  BY DEF Net!TypeOK, Net!Get, Net!Post, Net!Begin, Net!Methods, Net!Fates, Bases

\* So do the ends of the calls.
LEMMA EndTyped ==
  ASSUME Net!TypeOK, NEW c \in Calls, Net!Answer(c) \/ Net!Fail(c)
  PROVE  Net!TypeOK'
<1> USE DEF Net!TypeOK, Net!Return, Net!Fates, Net!callVars
<1>1. CASE Net!GetAnswered(c) \/ Net!GetFailed(c)
  BY <1>1 DEF Net!GetAnswered, Net!GetFailed
<1>2. CASE Net!PostAnswered(c) \/ Net!PostNot200(c)
  BY <1>2 DEF Net!PostAnswered, Net!PostNot200
<1>3. CASE Net!PostBadBody(c) \/ Net!PostFailed(c)
  BY <1>3 DEF Net!PostBadBody, Net!PostFailed
<1> QED BY <1>1, <1>2, <1>3 DEF Net!Answer, Net!Fail

\* What a get of this screen hands over when it returns.
LEMMA Handed ==
  ASSUME Typed, NEW c \in ListCalls, Net!GetAnswered(c) \/ Net!GetFailed(c)
  PROVE  /\ fate[c] = "waiting"
         /\ \A d \in Calls \ {c} : fate'[d] = fate[d] /\ result'[d] = result[d]
         /\ \/ fate'[c] = "ok" /\ result'[c] = c /\ response' = c
            \/ fate'[c] = "failed" /\ result'[c] = response /\ response' = response
         /\ result'[c] \in Calls \cup {NoAnswer}
<1>1. c \in Calls
  BY DEF Calls
<1> QED BY <1>1 DEF Typed, Net!TypeOK, Net!GetAnswered, Net!GetFailed, Net!Return

\* The items an answer adds are page numbers.
LEMMA ItemsTyped ==
  ASSUME Screen, NEW a
  PROVE  AnswerItems(a) \in Seq(Nat)
  BY DEF Screen, AnswerItems

\* A load that resumes keeps the type of the screen's fields.
LEMMA ResumeTyped ==
  ASSUME Typed, NEW c \in ListCalls, Resume(c)
  PROVE  Typed'
<1> DEFINE a == result'[c]
<1>1. Net!TypeOK'
  BY EndTyped DEF Resume, Typed, Calls, Net!Answer, Net!Fail
<1>2. task[c] \in {"init", "refresh", "load"} /\ garbled' \subseteq ListCalls
  BY DEF Resume, InFlight, Typed, Screen
<1>3. Afterwards[task[c]] \in Tasks
  BY <1>2 DEF Afterwards, Tasks
<1>4. task' \in [ListCalls -> Tasks]
  BY <1>3 DEF Resume, AfterGet, Typed, Screen, Tasks
<1>5. jobs \o AnswerItems(a) \in Seq(Nat) /\ jobs \in Seq(Nat)
  BY ItemsTyped, ConcatProperties DEF Typed, Screen
<1>6. jobs' \in Seq(Nat)
  BY <1>5 DEF Resume, AfterGet
<1>7. dirty' \in BOOLEAN
  BY DEF Resume, Typed, Screen
<1>8. UNCHANGED <<page, header, footer, urlPage>>
  BY DEF Resume
<1> QED BY <1>1, <1>2, <1>4, <1>6, <1>7, <1>8 DEF Typed, Screen

\* Every step keeps the type.
LEMMA TypedNext == Typed /\ [Next]_vars => Typed'
<1> SUFFICES ASSUME Typed, [Next]_vars PROVE Typed'
  OBVIOUS
<1>1. ASSUME NEW c \in ListCalls, NEW t \in {"init", "refresh", "load"}, NEW p \in Nat \ {0},
             GetItemList(c, t, p),
             jobs' \in Seq(Nat), header' \in {"idle", "refreshing"}, footer' \in {"idle", "loading"},
             dirty' \in BOOLEAN, UNCHANGED garbled
      PROVE  Typed'
  <2>1. Net!TypeOK'
    BY <1>1, BeginTyped DEF GetItemList, Typed, Calls
  <2> QED BY <1>1, <2>1 DEF GetItemList, Typed, Screen, Tasks
<1>2. ASSUME NEW c \in ListCalls, Open(c) PROVE Typed'
  BY <1>1, <1>2 DEF Open, Typed, Screen
<1>3. ASSUME NEW c \in ListCalls, Refresh(c) PROVE Typed'
  BY <1>1, <1>3 DEF Refresh, Typed, Screen
<1>4. ASSUME NEW c \in ListCalls, LoadMore(c) PROVE Typed'
  <2>1. page + 1 \in Nat \ {0}
    BY DEF Typed, Screen
  <2> QED BY <1>1, <1>4, <2>1 DEF LoadMore, Typed, Screen
<1>5. ASSUME NEW c \in ListCalls, Resume(c) PROVE Typed'
  BY <1>5, ResumeTyped
<1>6. ASSUME NEW c \in ListCalls, Complete(c) PROVE Typed'
  BY <1>6 DEF Complete, Typed, Screen, Tasks, netVars, Net!TypeOK
<1>7. CASE Elsewhere
  <2>1. Net!TypeOK'
    BY <1>7, BeginTyped, EndTyped DEF Elsewhere, Typed, Calls
  <2> QED BY <1>7, <2>1 DEF Elsewhere, Typed, Screen
<1>8. CASE UNCHANGED vars
  BY <1>8 DEF vars, netVars, Typed, Screen, Net!TypeOK
<1> QED BY <1>2, <1>3, <1>4, <1>5, <1>6, <1>7, <1>8 DEF Next

\* The state has its type at the start.
LEMMA PagedInit == Init => Typed
<1> SUFFICES ASSUME Init PROVE Typed
  OBVIOUS
<1>1. Net!TypeOK
  BY DEF Init, Net!Init, Net!TypeOK, Net!Methods, Net!Fates, Bases
<1>2. jobs \in Seq(Nat) /\ page \in Nat \ {0} /\ urlPage \in [ListCalls -> Nat]
  BY DEF Init
<1>3. dirty \in BOOLEAN
  BY DEF Init
<1>4. Screen
  BY <1>2, <1>3 DEF Init, Screen, Tasks
<1> QED BY <1>1, <1>4 DEF Typed

\* Every field of the screen and of the helper it shares keeps its type, however
\* many loads overlap and whatever they are handed.
THEOREM PagedTypeCorrect == Spec => []TypeOK
<1>1. Typed => TypeOK
  BY DEF Typed, Screen, TypeOK
<1> QED BY <1>1, PagedInit, TypedNext, PTL DEF Spec

-----------------------------------------------------------------------------
(* Items of another screen.                                                *)

\* The two sides of the property.
HasForeign == \E i \in 1..Len(jobs) : jobs[i] = 0
Excuse == \E c \in ListCalls : fate[c] = "failed" /\ result[c] \in ForeignLists

\* The strengthening: an answer to this screen that can still be handed over was
\* asked for with a page number.
Foreign ==
  /\ \A c \in ListCalls : c = response \/ fate[c] = "waiting" => urlPage[c] # 0
  /\ ForeignItemsNeedFailure

\* What a call that returned was handed stays: the excuse of a failure is for good.
LEMMA ReturnedStays ==
  ASSUME Typed, [Next]_vars
  PROVE  \A c \in Calls : fate[c] \in {"ok", "failed"} =>
           fate'[c] = fate[c] /\ result'[c] = result[c]
<1> USE DEF Typed, Net!TypeOK
<1>1. ASSUME NEW d \in Calls, Net!Get(d, NoBase) \/ Net!Post(d, NoBase)
      PROVE  \A c \in Calls : fate[c] \in {"ok", "failed"} =>
               fate'[c] = fate[c] /\ result'[c] = result[c]
  BY <1>1 DEF Net!Get, Net!Post, Net!Begin
<1>2. ASSUME NEW d \in Calls, Net!Answer(d) \/ Net!Fail(d)
      PROVE  \A c \in Calls : fate[c] \in {"ok", "failed"} =>
               fate'[c] = fate[c] /\ result'[c] = result[c]
  BY <1>2 DEF Net!Answer, Net!Fail, Net!Return, Net!GetAnswered, Net!GetFailed,
              Net!PostAnswered, Net!PostNot200, Net!PostBadBody, Net!PostFailed
<1>3. CASE Elsewhere
  BY <1>1, <1>2, <1>3 DEF Elsewhere, Calls
<1>4. ASSUME NEW d \in ListCalls, Open(d) \/ Refresh(d) \/ LoadMore(d) \/ Resume(d) \/ Complete(d)
      PROVE  \A c \in Calls : fate[c] \in {"ok", "failed"} =>
               fate'[c] = fate[c] /\ result'[c] = result[c]
  BY <1>1, <1>2, <1>4 DEF Open, Refresh, LoadMore, GetItemList, Resume, Complete, Calls,
                          Net!Answer, Net!Fail, netVars
<1>5. CASE UNCHANGED vars
  BY <1>5 DEF vars, netVars
<1> QED BY <1>3, <1>4, <1>5 DEF Next

\* Without another screen's items before the step, only a load that resumes after
\* a failure adds some.
LEMMA ResumeForeign ==
  ASSUME Typed, Foreign, NEW c \in ListCalls, Resume(c)
  PROVE  ForeignItemsNeedFailure'
<1> DEFINE a == result'[c]
<1>1. /\ fate[c] = "waiting"
      /\ \/ fate'[c] = "ok" /\ a = c
         \/ fate'[c] = "failed" /\ a = response
      /\ a \in Calls \cup {NoAnswer}
  BY Handed DEF Resume
<1>2. SUFFICES ASSUME HasForeign' PROVE Excuse'
  BY DEF ForeignItemsNeedFailure, HasForeign, Excuse
<1>3. CASE HasForeign
  <2>1. PICK d \in ListCalls : fate[d] = "failed" /\ result[d] \in ForeignLists
    BY <1>3 DEF Foreign, ForeignItemsNeedFailure, HasForeign
  <2>2. fate'[d] = "failed" /\ result'[d] = result[d]
    BY <2>1, ReturnedStays DEF Next, Calls
  <2> QED BY <2>1, <2>2 DEF Excuse
<1>4. CASE ~HasForeign
  <2>1. jobs' = jobs \o AnswerItems(a) /\ a \notin ForeignPlain \cup {NoAnswer}
    BY <1>2, <1>4 DEF Resume, AfterGet, HasForeign
  <2>2. jobs \in Seq(Nat) /\ AnswerItems(a) \in Seq(Nat)
    BY ItemsTyped DEF Typed, Screen
  <2>3. \E i \in 1..Len(AnswerItems(a)) : AnswerItems(a)[i] = 0
    <3>1. PICK i \in 1..Len(jobs') : jobs'[i] = 0
      BY <1>2 DEF HasForeign
    <3>2. /\ Len(jobs') = Len(jobs) + Len(AnswerItems(a))
          /\ jobs'[i] = IF i <= Len(jobs) THEN jobs[i] ELSE AnswerItems(a)[i - Len(jobs)]
          /\ Len(jobs) \in Nat /\ Len(AnswerItems(a)) \in Nat
      BY <2>1, <2>2, <3>1, ConcatProperties, LenProperties
    <3>3. i > Len(jobs)
      BY <1>4, <3>1, <3>2 DEF HasForeign
    <3> QED BY <3>1, <3>2, <3>3
  <2>4. a \notin ListCalls
    <3> SUFFICES ASSUME a \in ListCalls PROVE FALSE
      OBVIOUS
    <3>1. urlPage[a] # 0
      BY <1>1 DEF Foreign
    <3> QED BY <2>3, <3>1 DEF AnswerItems
  <2>5. a \in ForeignLists /\ fate'[c] = "failed"
    BY <1>1, <2>1, <2>4 DEF Calls
  <2> QED BY <2>5 DEF Excuse
<1> QED BY <1>3, <1>4

\* Every step keeps the strengthening.
LEMMA ForeignNext ==
  ASSUME Typed, Foreign, [Next]_vars
  PROVE  Foreign'
<1> DEFINE Asked == \A c \in ListCalls : c = response \/ fate[c] = "waiting" => urlPage[c] # 0
<1>1. ASSUME UNCHANGED jobs PROVE ForeignItemsNeedFailure'
  <2> SUFFICES ASSUME HasForeign PROVE Excuse'
    BY <1>1 DEF ForeignItemsNeedFailure, HasForeign, Excuse
  <2>1. PICK d \in ListCalls : fate[d] = "failed" /\ result[d] \in ForeignLists
    BY DEF Foreign, ForeignItemsNeedFailure, HasForeign
  <2>2. fate'[d] = "failed" /\ result'[d] = result[d]
    BY <2>1, ReturnedStays DEF Calls
  <2> QED BY <2>1, <2>2 DEF Excuse
<1>2. ASSUME NEW c \in ListCalls, NEW t, NEW p \in Nat \ {0}, GetItemList(c, t, p) PROVE Asked'
  BY <1>2 DEF GetItemList, Net!Get, Net!Begin, Foreign, Typed, Screen, Net!TypeOK
<1>3. ASSUME NEW c \in ListCalls, Open(c) \/ LoadMore(c) PROVE Foreign'
  <2>1. page \in Nat \ {0} /\ page + 1 \in Nat \ {0}
    BY DEF Typed, Screen
  <2>2. UNCHANGED jobs /\ Asked'
    BY <1>2, <1>3, <2>1 DEF Open, LoadMore
  <2> QED BY <1>1, <2>2 DEF Foreign
<1>4. ASSUME NEW c \in ListCalls, Refresh(c) PROVE Foreign'
  <2>1. jobs' = <<>> /\ Asked'
    BY <1>2, <1>4 DEF Refresh
  <2>2. ForeignItemsNeedFailure'
    BY <2>1 DEF ForeignItemsNeedFailure
  <2> QED BY <2>1, <2>2 DEF Foreign
<1>5. ASSUME NEW c \in ListCalls, Resume(c) PROVE Foreign'
  <2>1. ForeignItemsNeedFailure'
    BY <1>5, ResumeForeign
  <2>2. Asked'
    BY <1>5, Handed DEF Resume, Foreign, Calls
  <2> QED BY <2>1, <2>2 DEF Foreign
<1>6. ASSUME NEW c \in ListCalls, Complete(c) PROVE Foreign'
  BY <1>6 DEF Complete, Foreign, ForeignItemsNeedFailure, netVars
<1>7. CASE Elsewhere
  <2>1. ASSUME NEW d \in ForeignLists \cup ForeignPlain, Net!Get(d, NoBase) \/ Net!Post(d, NoBase)
        PROVE  Asked'
    BY <1>7, <2>1, CallsApart
    DEF Elsewhere, Net!Get, Net!Post, Net!Begin, Foreign, Typed, Net!TypeOK, Calls
  <2>2. ASSUME NEW d \in ForeignLists \cup ForeignPlain, Net!Answer(d) \/ Net!Fail(d)
        PROVE  Asked'
    BY <1>7, <2>2, CallsApart
    DEF Elsewhere, Net!Answer, Net!Fail, Net!Return, Net!GetAnswered, Net!GetFailed, Net!PostAnswered,
        Net!PostNot200, Net!PostBadBody, Net!PostFailed, Foreign, Typed, Net!TypeOK, Calls
  <2>3. Asked'
    BY <1>7, <2>1, <2>2 DEF Elsewhere
  <2> QED BY <1>1, <1>7, <2>3 DEF Elsewhere, Foreign
<1>8. CASE UNCHANGED vars
  BY <1>8 DEF vars, netVars, Foreign, ForeignItemsNeedFailure
<1> QED BY <1>3, <1>4, <1>5, <1>6, <1>7, <1>8 DEF Next

\* Items of another screen's list are in this one only after a load of this screen
\* failed and was handed that screen's answer: overlapping loads never mix them in.
THEOREM ForeignItemsOnlyAfterFailure == Spec => []ForeignItemsNeedFailure
<1>1. Init => Typed /\ Foreign
  <2>1. Init => Typed
    BY PagedInit
  <2>2. Init => Foreign
    BY CallsApart, HelperConstants DEF Net!Sentinels, Init, Net!Init, Foreign, ForeignItemsNeedFailure, Calls
  <2> QED BY <2>1, <2>2
<1>2. Typed /\ Foreign /\ [Next]_vars => (Typed /\ Foreign)'
  BY TypedNext, ForeignNext
<1>3. Foreign => ForeignItemsNeedFailure
  BY DEF Foreign
<1> QED BY <1>1, <1>2, <1>3, PTL DEF Spec

-----------------------------------------------------------------------------
(* Spinners.                                                               *)

\* A load that threw, and why.
Stuck == \E c \in ListCalls : /\ task[c] = "threw" /\ (fate[c] = "failed" \/ c \in garbled)
                              /\ result[c] \in ForeignPlain \cup {NoAnswer} \cup garbled

\* The property, with the two spinners apart.
Spinning ==
  /\ header = "refreshing" =>
       Stuck \/ \E c \in ListCalls : task[c] \in {"refresh", "refreshDelay"}
  /\ footer = "loading" =>
       Stuck \/ \E c \in ListCalls : task[c] \in {"load", "loadDelay"}

\* A call of this screen that has returned is no longer awaited.
Ended == \A c \in ListCalls :
           (task[c] = "threw" => fate[c] \in {"ok", "failed"}) /\ (task[c] = "none" => fate[c] = "unsent")

\* What keeps a spinner turning stays.
LEMMA StuckStays ==
  ASSUME Typed, Ended, Stuck, garbled \subseteq garbled',
         \A c \in ListCalls : task[c] = "threw" => task'[c] = "threw", [Next]_vars
  PROVE  Stuck'
<1>1. PICK c \in ListCalls : /\ task[c] = "threw" /\ (fate[c] = "failed" \/ c \in garbled)
                             /\ result[c] \in ForeignPlain \cup {NoAnswer} \cup garbled
  BY DEF Stuck
<1>2. fate'[c] = fate[c] /\ result'[c] = result[c]
  BY <1>1, ReturnedStays DEF Ended, Calls
<1> QED BY <1>1, <1>2 DEF Stuck

\* Every step keeps it.
LEMMA SpinningNext ==
  ASSUME Typed, Ended, Spinning, [Next]_vars
  PROVE  (Ended /\ Spinning)'
<1> USE DEF Typed, Screen
<1>1. ASSUME NEW c \in ListCalls, NEW t \in {"init", "refresh", "load"}, NEW p,
             GetItemList(c, t, p), UNCHANGED garbled
      PROVE  /\ Ended' /\ (Stuck => Stuck') /\ task'[c] = t
             /\ \A d \in ListCalls \ {c} : task'[d] = task[d]
             /\ task[c] = "none"
  <2>1. /\ task[c] = "none" /\ task'[c] = t /\ \A d \in ListCalls \ {c} : task'[d] = task[d]
        /\ \A d \in ListCalls \ {c} : fate'[d] = fate[d]
    BY <1>1 DEF GetItemList, Net!Get, Net!Begin, Net!TypeOK, Calls
  <2>2. Ended'
    BY <2>1 DEF Ended
  <2>3. Stuck => Stuck'
    BY <1>1, <2>1, StuckStays
  <2> QED BY <2>1, <2>2, <2>3
<1>2. ASSUME NEW c \in ListCalls, Open(c) PROVE (Ended /\ Spinning)'
  BY <1>1, <1>2 DEF Open, Spinning
<1>3. ASSUME NEW c \in ListCalls, Refresh(c) PROVE (Ended /\ Spinning)'
  BY <1>1, <1>3 DEF Refresh, Spinning
<1>4. ASSUME NEW c \in ListCalls, LoadMore(c) PROVE (Ended /\ Spinning)'
  BY <1>1, <1>4 DEF LoadMore, Spinning
<1>5. ASSUME NEW c \in ListCalls, Resume(c) PROVE (Ended /\ Spinning)'
  <2> DEFINE a == result'[c]
  <2>1. /\ task[c] \in {"init", "refresh", "load"}
        /\ \A d \in ListCalls \ {c} : task'[d] = task[d] /\ fate'[d] = fate[d]
        /\ garbled \subseteq garbled' /\ UNCHANGED <<header, footer>>
        /\ \/ fate'[c] = "ok" /\ a = c
           \/ fate'[c] = "failed"
        /\ \/ task'[c] = "threw" /\ a \in ForeignPlain \cup {NoAnswer} \cup garbled'
           \/ task'[c] = Afterwards[task[c]]
    BY <1>5, Handed DEF Resume, InFlight, AfterGet, Calls
  <2>2. task'[c] \in {"threw", "done", "refreshDelay", "loadDelay"}
    BY <2>1 DEF Afterwards
  <2>3. Ended'
    BY <2>1, <2>2 DEF Ended
  <2>4. Stuck => Stuck'
    BY <1>5, <2>1, StuckStays DEF Next
  <2>5. CASE task'[c] = "threw"
    <3>1. fate'[c] = "failed" \/ c \in garbled'
      BY <2>1, <2>5, CallsApart, HelperConstants DEF Net!Sentinels, Afterwards, Calls
    <3>2. a \in ForeignPlain \cup {NoAnswer} \cup garbled'
      BY <2>1, <2>5 DEF Afterwards
    <3>3. Stuck'
      BY <2>5, <3>1, <3>2 DEF Stuck
    <3> QED BY <2>3, <3>3 DEF Spinning
  <2>6. CASE task'[c] = Afterwards[task[c]]
    <3>1. /\ task[c] = "refresh" => task'[c] = "refreshDelay"
          /\ task[c] = "load" => task'[c] = "loadDelay"
          /\ task[c] \notin {"refreshDelay", "loadDelay"}
      BY <2>1, <2>6 DEF Afterwards
    <3> QED BY <2>1, <2>3, <2>4, <3>1 DEF Spinning
  <2> QED BY <2>1, <2>5, <2>6
<1>6. ASSUME NEW c \in ListCalls, Complete(c) PROVE (Ended /\ Spinning)'
  <2>1. /\ \/ task[c] = "refreshDelay" /\ header' = "idle" /\ UNCHANGED footer
           \/ task[c] = "loadDelay" /\ footer' = "idle" /\ UNCHANGED header
        /\ task'[c] = "done" /\ \A d \in ListCalls \ {c} : task'[d] = task[d]
        /\ UNCHANGED <<garbled, fate>>
    BY <1>6 DEF Complete, netVars
  <2>2. Ended'
    BY <2>1 DEF Ended
  <2>3. Stuck => Stuck'
    BY <1>6, <2>1, StuckStays DEF Next
  <2> QED BY <2>1, <2>2, <2>3 DEF Spinning
<1>7. CASE Elsewhere
  <2>1. UNCHANGED <<task, garbled, header, footer>>
    BY <1>7 DEF Elsewhere
  <2>2. ASSUME NEW d \in ForeignLists \cup ForeignPlain,
               Net!Get(d, NoBase) \/ Net!Post(d, NoBase) \/ Net!Answer(d) \/ Net!Fail(d)
        PROVE  \A c \in ListCalls : fate'[c] = fate[c]
    BY <2>2, CallsApart
    DEF Net!Get, Net!Post, Net!Begin, Net!Answer, Net!Fail, Net!Return, Net!GetAnswered,
        Net!GetFailed, Net!PostAnswered, Net!PostNot200, Net!PostBadBody, Net!PostFailed,
        Net!TypeOK, Calls
  <2>3. \A c \in ListCalls : fate'[c] = fate[c]
    BY <1>7, <2>2 DEF Elsewhere
  <2>4. Stuck => Stuck'
    BY <1>7, <2>1, StuckStays DEF Next
  <2> QED BY <2>1, <2>3, <2>4 DEF Ended, Spinning
<1>8. CASE UNCHANGED vars
  BY <1>8 DEF vars, netVars, Ended, Spinning, Stuck
<1> QED BY <1>2, <1>3, <1>4, <1>5, <1>6, <1>7, <1>8 DEF Next

\* A spinner turns with no load behind it only after a load that threw, on a
\* failure or a garbled answer: loads that overlap never leave one turning.
THEOREM SpinnerOnlyAfterFailure == Spec => []SpinnerStuckOnlyAfterFailure
<1>1. Init => Typed /\ Ended /\ Spinning
  <2>1. Init => Ended /\ Spinning
    BY DEF Init, Net!Init, Ended, Spinning, Calls
  <2> QED BY <2>1, PagedInit
<1>2. Typed /\ Ended /\ Spinning /\ [Next]_vars => (Typed /\ Ended /\ Spinning)'
  BY TypedNext, SpinningNext
<1>3. Spinning => SpinnerStuckOnlyAfterFailure
  BY DEF Spinning, Stuck, SpinnerStuckOnlyAfterFailure
<1> QED BY <1>1, <1>2, <1>3, PTL DEF Spec

-----------------------------------------------------------------------------
(* What a clean list shows.                                                *)

Prefix(n) == [i \in 1..n |-> i]
Lesser(m, n) == IF m < n THEN m ELSE n

\* One more page on a prefix of the pages.
LEMMA PrefixGrows ==
  ASSUME NEW n \in Nat
  PROVE  Prefix(n) \in Seq(Nat) /\ Prefix(n) \o <<n + 1>> = Prefix(n + 1)
<1>1. /\ Prefix(n) \in Seq(Nat) /\ Len(Prefix(n)) = n
      /\ Prefix(n + 1) \in Seq(Nat) /\ Len(Prefix(n + 1)) = n + 1
  BY DEF Prefix
<1>2. <<n + 1>> \in Seq(Nat) /\ Len(<<n + 1>>) = 1
  OBVIOUS
<1>3. /\ Prefix(n) \o <<n + 1>> \in Seq(Nat) /\ Len(Prefix(n) \o <<n + 1>>) = n + 1
      /\ \A i \in 1..n + 1 : (Prefix(n) \o <<n + 1>>)[i] =
                               IF i <= n THEN Prefix(n)[i] ELSE <<n + 1>>[i - n]
  BY <1>1, <1>2, ConcatProperties
<1>4. \A i \in 1..n + 1 : (Prefix(n) \o <<n + 1>>)[i] = Prefix(n + 1)[i]
  BY <1>3 DEF Prefix
<1> QED BY <1>1, <1>3, <1>4, SeqEqual

\* The pages that hold an item are counted by a natural number.
LEMMA LastPageIsNat == LastPage(Total, PerPage) \in Nat
<1>1. PerPage * LastPage(Total, PerPage) + PerPage > Total + PerPage - 1
      /\ LastPage(Total, PerPage) \in Int
  BY Quotient, SizesAreCounts DEF LastPage
<1> QED BY <1>1, SizesAreCounts

\* The strengthening: a screen that is not opened is empty; one load at most is in
\* flight for a clean list, for the page the field page names, and the list shows
\* the pages before it.
Shown(p) == jobs = Prefix(Lesser(p, LastPage(Total, PerPage)))
Clean ==
  /\ ~Opened => page = 1 /\ jobs = <<>>
  /\ Opened /\ ~dirty =>
       \/ InFlight = {} /\ Shown(page)
       \/ \E c \in ListCalls : InFlight = {c} /\ urlPage[c] = page /\ Shown(page - 1)

\* A load that starts while nothing is in flight is the only one.
LEMMA StartClean ==
  ASSUME Typed, NEW c \in ListCalls, NEW t \in {"init", "refresh", "load"}, NEW p,
         GetItemList(c, t, p), InFlight = {},
         jobs' = Prefix(Lesser(p - 1, LastPage(Total, PerPage)))
  PROVE  Clean'
<1>1. task[c] = "none" /\ task' = [task EXCEPT ![c] = t] /\ page' = p
      /\ urlPage' = [urlPage EXCEPT ![c] = p]
  BY DEF GetItemList
<1>2. InFlight' = {c} /\ urlPage'[c] = p /\ Opened'
  BY <1>1 DEF InFlight, Opened, Typed, Screen
<1> QED BY <1>1, <1>2 DEF Clean, Shown

\* A load that resumes undisturbed adds its page, if there is one.
LEMMA ResumeClean ==
  ASSUME Typed, Clean, NEW c \in ListCalls, Resume(c)
  PROVE  Clean'
<1> USE DEF Typed, Screen
<1> DEFINE a == result'[c]
           last == LastPage(Total, PerPage)
<1>1. /\ c \in InFlight /\ UNCHANGED <<page, urlPage>> /\ AfterGet(c, a)
      /\ dirty' = (dirty \/ Disturbed(c))
  BY DEF Resume
<1>2. Opened /\ Opened'
  <2>1. task[c] \in {"init", "refresh", "load"} /\ task'[c] # "none"
    BY <1>1 DEF InFlight, AfterGet, Afterwards
  <2> QED BY <2>1 DEF Opened
<1>3. SUFFICES ASSUME ~dirty' PROVE InFlight' = {} /\ Shown(page)'
  BY <1>2 DEF Clean
<1>4. ~dirty /\ fate'[c] # "failed" /\ c \notin garbled'
  BY <1>1, <1>3 DEF Disturbed
<1>5. a = c
  BY <1>4, Handed DEF Resume
<1>6. InFlight = {c} /\ urlPage[c] = page /\ Shown(page - 1)
  BY <1>1, <1>2, <1>4 DEF Clean
<1>7. a \notin ForeignPlain \cup {NoAnswer} \cup garbled'
  BY <1>4, <1>5, CallsApart, HelperConstants DEF Net!Sentinels, Calls
<1>8. /\ jobs' = IF TotalPage(Total, PerPage) >= page THEN jobs \o AnswerItems(a) ELSE jobs
      /\ task' = [task EXCEPT ![c] = Afterwards[task[c]]]
  BY <1>1, <1>5, <1>7 DEF AfterGet, AnswerTotal
<1>9. InFlight' = {}
  <2>1. task'[c] \in {"done", "refreshDelay", "loadDelay"}
    BY <1>1, <1>8 DEF InFlight, Afterwards
  <2> QED BY <1>6, <1>8, <2>1 DEF InFlight
<1>10. AnswerItems(a) = IF page <= last THEN <<page>> ELSE <<>>
  BY <1>5, <1>6 DEF AnswerItems
<1>11. /\ last \in Nat /\ page \in Nat \ {0} /\ last <= TotalPage(Total, PerPage)
       /\ TotalPage(Total, PerPage) <= last + 1
  BY LastPageIsNat, GuardCoversEveryPage, SizesAreCounts
<1> HIDE DEF last
<1>12. CASE page <= last
  <2>1. TotalPage(Total, PerPage) >= page
    <3>1. TotalPage(Total, PerPage) \in Int
      BY SizesAreCounts, Quotient DEF TotalPage
    <3> QED BY <1>11, <1>12, <3>1
  <2>2. jobs' = jobs \o <<page>>
    BY <1>8, <1>10, <1>12, <2>1
  <2>3. Lesser(page - 1, last) = page - 1 /\ Lesser(page, last) = page
    BY <1>11, <1>12 DEF Lesser
  <2>4. jobs = Prefix(page - 1)
    BY <1>6, <2>3 DEF Shown, last
  <2>5. page - 1 \in Nat /\ page - 1 + 1 = page
    BY <1>11
  <2>6. jobs' = Prefix(page)
    BY <2>2, <2>4, <2>5, PrefixGrows
  <2> QED BY <1>1, <1>9, <2>3, <2>6 DEF Shown, last
<1>13. CASE page > last
  <2>1. jobs' = jobs
    <3>1. jobs \in Seq(Nat) /\ jobs \o <<>> = jobs
      BY ConcatEmptySeq
    <3> QED BY <1>8, <1>10, <1>11, <1>13, <3>1
  <2>2. Lesser(page - 1, last) = last /\ Lesser(page, last) = last
    BY <1>11, <1>13 DEF Lesser
  <2> QED BY <1>1, <1>6, <1>9, <2>1, <2>2 DEF Shown, last
<1> QED BY <1>11, <1>12, <1>13

\* Every step keeps the strengthening: a load that overlaps another one makes the
\* list dirty, and a refresh on its own makes it clean again.
LEMMA CleanNext ==
  ASSUME Typed, Clean, [Next]_vars
  PROVE  Clean'
<1> USE DEF Typed, Screen
<1> DEFINE last == LastPage(Total, PerPage)
<1>1. Prefix(Lesser(0, last)) = <<>>
  BY LastPageIsNat DEF Prefix, Lesser
<1>2. ASSUME NEW c \in ListCalls, NEW t \in {"init", "refresh", "load"}, NEW p,
             GetItemList(c, t, p), dirty'
      PROVE  Clean'
  BY <1>2 DEF GetItemList, Clean, Opened
<1>3. ASSUME NEW c \in ListCalls, Open(c) PROVE Clean'
  <2>1. page = 1 /\ jobs' = <<>> /\ GetItemList(c, "init", 1) /\ InFlight = {}
    BY <1>3 DEF Open, Clean, Opened, InFlight
  <2> QED BY <1>1, <2>1, StartClean
<1>4. ASSUME NEW c \in ListCalls, Refresh(c) PROVE Clean'
  <2>1. jobs' = <<>> /\ GetItemList(c, "refresh", 1) /\ dirty' = (InFlight # {})
    BY <1>4 DEF Refresh
  <2>2. CASE InFlight = {}
    BY <1>1, <2>1, <2>2, StartClean
  <2>3. CASE InFlight # {}
    BY <1>2, <2>1, <2>3
  <2> QED BY <2>2, <2>3
<1>5. ASSUME NEW c \in ListCalls, LoadMore(c) PROVE Clean'
  <2>1. /\ GetItemList(c, "load", page + 1) /\ UNCHANGED jobs /\ jobs # <<>>
        /\ dirty' = (dirty \/ InFlight # {})
    BY <1>5 DEF LoadMore
  <2>2. CASE dirty \/ InFlight # {}
    BY <1>2, <2>1, <2>2
  <2>3. CASE ~dirty /\ InFlight = {}
    <3>1. Opened
      BY <2>1 DEF Clean
    <3>2. jobs = Prefix(Lesser(page, last))
      BY <2>3, <3>1 DEF Clean, Shown
    <3>3. page + 1 - 1 = page
      OBVIOUS
    <3> QED BY <2>1, <2>3, <3>2, <3>3, StartClean
  <2> QED BY <2>2, <2>3
<1>6. ASSUME NEW c \in ListCalls, Resume(c) PROVE Clean'
  BY <1>6, ResumeClean
<1>7. ASSUME NEW c \in ListCalls, Complete(c) PROVE Clean'
  <2>1. InFlight' = InFlight /\ Opened' /\ Opened
    BY <1>7 DEF Complete, InFlight, Opened
  <2> QED BY <1>7, <2>1 DEF Complete, Clean, Shown
<1>8. CASE Elsewhere \/ UNCHANGED vars
  BY <1>8 DEF Elsewhere, vars, Clean, Shown, InFlight, Opened
<1> QED BY <1>3, <1>4, <1>5, <1>6, <1>7, <1>8 DEF Next

\* Without overlap or failure since it was last started afresh, a list at rest is
\* the pages from the first to the requested one or the last there is, for every
\* number of items, page size and number of loads.
THEOREM CleanListShowsPrefix == Spec => []CleanListIsPrefix
<1>1. Init => Typed /\ Clean
  <2>1. Init => Clean
    BY DEF Init, Clean, Opened
  <2> QED BY <2>1, PagedInit
<1>2. Typed /\ Clean /\ [Next]_vars => (Typed /\ Clean)'
  BY TypedNext, CleanNext
<1>3. Clean => CleanListIsPrefix
  BY DEF Clean, Shown, Prefix, Lesser, CleanListIsPrefix
<1> QED BY <1>1, <1>2, <1>3, PTL DEF Spec
-----------------------------------------------------------------------------
(* The screen as a caller of the helper that all screens share.            *)

Helper == INSTANCE NetworkUtilProofs

\* Whatever the screen, its callbacks and the other screens do is to the helper a
\* call made, the return of one that is in flight, or nothing.
LEMMA HelperStep == [Next]_vars => [Net!Next]_(Net!vars)
<1> SUFFICES ASSUME [Next]_vars PROVE [Net!Next]_(Net!vars)
  OBVIOUS
<1>1. ASSUME NEW c \in Calls,
             Net!Get(c, NoBase) \/ Net!Post(c, NoBase) \/ Net!Answer(c) \/ Net!Fail(c)
      PROVE  Net!Next
  BY <1>1 DEF Net!Next, Bases
<1>2. ASSUME NEW c \in ListCalls, Open(c) \/ Refresh(c) \/ LoadMore(c) PROVE Net!Next
  BY <1>1, <1>2 DEF Open, Refresh, LoadMore, GetItemList, Calls
<1>3. ASSUME NEW c \in ListCalls, Resume(c) PROVE Net!Next
  BY <1>1, <1>3 DEF Resume, Net!Answer, Net!Fail, Calls
<1>4. CASE Elsewhere
  BY <1>1, <1>4 DEF Elsewhere, Calls
<1>5. ASSUME UNCHANGED netVars PROVE UNCHANGED Net!vars
  BY <1>5 DEF netVars, Net!vars, Net!sharedVars, Net!callVars
<1> QED BY <1>2, <1>3, <1>4, <1>5 DEF Next, Complete, vars

\* The screen and its neighbours use the helper as NetworkUtil says: what is proved
\* of the helper holds wherever this screen runs.
THEOREM PagedUsesHelper == Spec => Net!Spec
<1>1. Init => Net!Init BY DEF Init
<1> QED BY <1>1, HelperStep, PTL DEF Spec, Net!Spec

\* The instance that the theorems of NetworkUtil are about is the helper of the screen.
LEMMA SameHelper == Net!Spec => Helper!Spec
<1>1. Net!Init => Helper!Init
  BY DEF Net!Init, Helper!Init
<1>2. [Net!Next]_(Net!vars) => [Helper!Next]_(Helper!vars)
  BY DEF Net!Next, Net!Get, Net!Post, Net!Begin, Net!Answer, Net!Fail, Net!Return, Net!GetAnswered,
         Net!GetFailed, Net!PostAnswered, Net!PostNot200, Net!PostBadBody, Net!PostFailed,
         Net!vars, Net!sharedVars, Net!callVars,
         Helper!Next, Helper!Get, Helper!Post, Helper!Begin, Helper!Answer, Helper!Fail,
         Helper!Return, Helper!GetAnswered, Helper!GetFailed, Helper!PostAnswered,
         Helper!PostNot200, Helper!PostBadBody, Helper!PostFailed,
         Helper!vars, Helper!sharedVars, Helper!callVars
<1> QED BY <1>1, <1>2, PTL DEF Net!Spec, Helper!Spec

\* So the screen may rely on HttpContract: an answered load gets its own answer, one
\* that fails at most an answer that some server gave before, and what a load was
\* handed is final.
THEOREM PagedKeepsContract == Spec => Net!ContractSpec
<1>1. Helper!Sentinels
  BY HelperConstants
<1>2. Helper!Spec => Helper!ContractSpec
  BY <1>1, Helper!Refinement
<1>3. Helper!ContractSpec => Net!ContractSpec
  <2>1. Helper!Contract!Init => Net!Contract!Init
    BY DEF Helper!Contract!Init, Net!Contract!Init, Helper!Arrived, Net!Arrived,
           Helper!Accepted, Net!Accepted
  <2>2. [Helper!Contract!Next]_(Helper!Contract!vars) => [Net!Contract!Next]_(Net!Contract!vars)
    BY DEF Helper!Contract!Next, Helper!Contract!Ask, Helper!Contract!EndGet,
           Helper!Contract!EndPost, Helper!Contract!Fallback, Helper!Contract!vars,
           Net!Contract!Next, Net!Contract!Ask, Net!Contract!EndGet,
           Net!Contract!EndPost, Net!Contract!Fallback, Net!Contract!vars,
           Helper!Arrived, Net!Arrived, Helper!Accepted, Net!Accepted
  <2> QED BY <2>1, <2>2, PTL DEF Helper!ContractSpec, Net!ContractSpec,
             Helper!Contract!Spec, Net!Contract!Spec
<1> QED BY <1>2, <1>3, PagedUsesHelper, SameHelper

-----------------------------------------------------------------------------
(* Every refresh ends.  As in NetworkUtilProofs, the fairness is stated    *)
(* with the conditions under which the steps are enabled.                  *)

\* The timeout of a load's get fires.  Resume(c) with a failure is enabled as long as
\* the load c is in flight.
LoadTimesOut(c) == []<>~(c \in InFlight) \/ []<><<Resume(c) /\ fate'[c] = "failed">>_vars

\* The delay of one second ends.  Complete(c) is enabled as long as it lasts.
DelayEnds(c) ==
  []<>~(task[c] \in {"refreshDelay", "loadDelay"}) \/ []<><<Complete(c)>>_vars

\* The load of a refresh ends in the delay or throws, when the get returns and not before.
LEMMA RefreshLoads ==
  ASSUME TypeOK, NEW c \in ListCalls, task[c] = "refresh", [Next]_vars
  PROVE  /\ (task[c] = "refresh")' \/ (task[c] = "refreshDelay")' \/ (task[c] = "threw")'
         /\ Resume(c) => (task[c] = "refreshDelay")' \/ (task[c] = "threw")'
<1>1. ASSUME Resume(c) PROVE (task[c] = "refreshDelay")' \/ (task[c] = "threw")'
  BY <1>1 DEF Resume, AfterGet, Afterwards, TypeOK
<1>2. ASSUME NEW d \in ListCalls, Open(d) \/ Refresh(d) \/ LoadMore(d) \/ Complete(d)
      PROVE  (task[c] = "refresh")'
  BY <1>2 DEF Open, Refresh, LoadMore, GetItemList, Complete, TypeOK
<1>3. ASSUME NEW d \in ListCalls \ {c}, Resume(d) PROVE (task[c] = "refresh")'
  BY <1>3 DEF Resume, AfterGet, TypeOK
<1>4. CASE Elsewhere \/ UNCHANGED vars
  BY <1>1, <1>4 DEF Elsewhere, vars
<1> QED BY <1>1, <1>2, <1>3, <1>4 DEF Next

\* The delay after a refresh ends with an idle header, and not before.
LEMMA RefreshDelays ==
  ASSUME TypeOK, NEW c \in ListCalls, task[c] = "refreshDelay", [Next]_vars
  PROVE  /\ (task[c] = "refreshDelay")' \/ (header = "idle")'
         /\ Complete(c) => (header = "idle")'
<1>1. ASSUME Complete(c) PROVE (header = "idle")'
  BY <1>1 DEF Complete
<1>2. ASSUME NEW d \in ListCalls, Open(d) \/ Refresh(d) \/ LoadMore(d)
      PROVE  (task[c] = "refreshDelay")'
  BY <1>2 DEF Open, Refresh, LoadMore, GetItemList, TypeOK
<1>3. ASSUME NEW d \in ListCalls, Resume(d) \/ (d # c /\ Complete(d))
      PROVE  (task[c] = "refreshDelay")'
  BY <1>3 DEF Resume, InFlight, AfterGet, Complete, TypeOK
<1>4. CASE Elsewhere \/ UNCHANGED vars
  BY <1>1, <1>4 DEF Elsewhere, vars
<1> QED BY <1>1, <1>2, <1>3, <1>4 DEF Next

\* If timeouts and timers fire, the header of a refresh comes to rest or its load threw,
\* for any number of other loads before, beside and after it.
THEOREM RefreshEndsInTime ==
  Spec /\ (\A c \in ListCalls : LoadTimesOut(c) /\ DelayEnds(c)) => RefreshEnds
<1>1. ASSUME NEW c \in ListCalls
      PROVE  Spec /\ LoadTimesOut(c) /\ DelayEnds(c)
             => (task[c] = "refresh" ~> header = "idle" \/ task[c] = "threw")
  <2>1. TypeOK /\ task[c] = "refresh" /\ [Next]_vars
        => (task[c] = "refresh")' \/ (task[c] = "refreshDelay")' \/ (task[c] = "threw")'
    BY RefreshLoads
  <2>2. TypeOK /\ task[c] = "refresh" /\ [Next]_vars /\ <<Resume(c) /\ fate'[c] = "failed">>_vars
        => (task[c] = "refreshDelay")' \/ (task[c] = "threw")'
    BY RefreshLoads
  <2>3. TypeOK /\ task[c] = "refreshDelay" /\ [Next]_vars
        => (task[c] = "refreshDelay")' \/ (header = "idle")'
    BY RefreshDelays
  <2>4. TypeOK /\ task[c] = "refreshDelay" /\ [Next]_vars /\ <<Complete(c)>>_vars
        => (header = "idle")'
    BY RefreshDelays
  <2>5. /\ task[c] = "refresh" => c \in InFlight
        /\ task[c] = "refreshDelay" => task[c] \in {"refreshDelay", "loadDelay"}
    BY DEF InFlight
  <2> QED BY <2>1, <2>2, <2>3, <2>4, <2>5, PagedTypeCorrect, PTL
          DEF Spec, LoadTimesOut, DelayEnds
<1> QED BY <1>1 DEF RefreshEnds
=============================================================================
