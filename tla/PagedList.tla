----------------------------- MODULE PagedList -----------------------------
(***************************************************************************)
(* The paginated screens of lib/ui/views/pages (volunteerWork, event,      *)
(* podCast, partTimeJob, knowLedge, law, eLearn share one text): a first   *)
(* load, pull-to-refresh and load-more, each a get through the shared      *)
(* NetworkUtil, beside the calls of the other screens.  A page of items is *)
(* abstracted to its number, 0 for a page of another screen's list.        *)
(***************************************************************************)
EXTENDS Sequences, PageCount

CONSTANTS ListCalls,     \* calls this screen may make
          ForeignLists,  \* calls of other paginated screens
          ForeignPlain,  \* calls of screens that are no list (contact, posts)
          Total, PerPage,               \* this list on the server
          ForeignTotal, ForeignPerPage, \* the other screens' lists
          Pending, Thrown, NoAnswer, ErrorModel, Configured, NoBase

Calls == ListCalls \cup ForeignLists \cup ForeignPlain
Bases == {}

ASSUME SizesAreCounts ==
  /\ Total \in Nat /\ ForeignTotal \in Nat
  /\ PerPage \in Nat \ {0} /\ ForeignPerPage \in Nat \ {0}

ASSUME CallsApart == ListCalls \cap (ForeignLists \cup ForeignPlain) = {}

VARIABLES baseUrl, response, r, method, named, sentTo, fate, result,
          jobs, page,      \* fields of the screen's State
          header, footer,  \* the modes of its RefreshController
          task,            \* of each call: the operation that awaits it
          urlPage,         \* of each call: the page number in its url
          garbled,         \* the calls answered with a body that is no page
          dirty            \* history: see Disturbed and Refresh

Net == INSTANCE NetworkUtil

ASSUME HelperConstants == Net!Sentinels

netVars == <<baseUrl, response, r, method, named, sentTo, fate, result>>
vars == <<netVars, jobs, page, header, footer, task, urlPage, garbled, dirty>>

Tasks == {"none", "init", "refresh", "load", "refreshDelay", "loadDelay",
          "done", "threw"}

Init ==
  /\ Net!Init
  /\ jobs = <<>> /\ page = 1
  /\ header = "idle" /\ footer = "idle"
  /\ task = [c \in ListCalls |-> "none"]
  /\ urlPage = [c \in ListCalls |-> 0] /\ garbled = {}
  /\ dirty = FALSE

InFlight == {c \in ListCalls : task[c] \in {"init", "refresh", "load"}}
Opened == \E c \in ListCalls : task[c] # "none"

\* The field page becomes p; then the synchronous part of getItemList, up to
\* its await.
GetItemList(c, t, p) ==
  /\ task[c] = "none"
  /\ page' = p
  /\ Net!Get(c, NoBase)
  /\ task' = [task EXCEPT ![c] = t]
  /\ urlPage' = [urlPage EXCEPT ![c] = p]

\* initState
Open(c) ==
  /\ ~Opened
  /\ GetItemList(c, "init", page)
  /\ UNCHANGED <<jobs, header, footer, garbled, dirty>>

\* Mutant: the list is not emptied.
MutRefreshKeeps(c) ==
  /\ Opened /\ header = "idle"
  /\ header' = "refreshing"
  /\ GetItemList(c, "refresh", 1)
  /\ dirty' = (InFlight # {})
  /\ UNCHANGED <<jobs, footer, garbled>>

\* onRefresh.  SmartRefresher does not call it again while it is refreshing.
\* A refresh that starts while nothing else is in flight starts afresh.
Refresh(c) ==
  /\ Opened /\ header = "idle"
  /\ header' = "refreshing"
  /\ jobs' = <<>>
  /\ GetItemList(c, "refresh", 1)
  /\ dirty' = (InFlight # {})
  /\ UNCHANGED <<footer, garbled>>

\* Mutant: loading goes back instead of on.
MutLoadBack(c) ==
  /\ footer = "idle" /\ jobs # <<>>
  /\ footer' = "loading"
  /\ GetItemList(c, "load", page - 1)
  /\ dirty' = (dirty \/ InFlight # {})
  /\ UNCHANGED <<jobs, header, garbled>>

\* onLoading.  SmartRefresher needs something to scroll before it calls it.
LoadMore(c) ==
  /\ footer = "idle" /\ jobs # <<>>
  /\ footer' = "loading"
  /\ GetItemList(c, "load", page + 1)
  /\ dirty' = (dirty \/ InFlight # {})
  /\ UNCHANGED <<jobs, header, garbled>>

\* What the body of getItemList reads from the answer a it was handed.
AnswerTotal(a) == IF a \in ListCalls THEN TotalPage(Total, PerPage)
                  ELSE TotalPage(ForeignTotal, ForeignPerPage)
AnswerItems(a) == IF a \notin ListCalls THEN <<0>>
                  ELSE IF urlPage[a] <= LastPage(Total, PerPage)
                       THEN <<urlPage[a]>> ELSE <<>>

\* What awaits the end of getItemList: nothing, or a callback with its delay.
Afterwards == [init |-> "done", refresh |-> "refreshDelay", load |-> "loadDelay"]

\* The rest of getItemList, run when the get returns the answer a: the guard
\* reads the field page, which may have moved since the url was built.  An answer
\* that is no page makes it throw.
AfterGet(c, a) ==
  IF a \in ForeignPlain \cup {NoAnswer} \cup garbled'
  THEN /\ task' = [task EXCEPT ![c] = "threw"]
       /\ UNCHANGED jobs
  ELSE /\ jobs' = IF AnswerTotal(a) >= page THEN jobs \o AnswerItems(a) ELSE jobs
       /\ task' = [task EXCEPT ![c] = Afterwards[task[c]]]

Disturbed(c) == fate'[c] = "failed" \/ c \in garbled'

Resume(c) ==
  /\ c \in InFlight
  /\ \/ Net!GetAnswered(c) /\ garbled' \in {garbled, garbled \cup {c}}
     \/ Net!GetFailed(c) /\ UNCHANGED garbled
  /\ AfterGet(c, result'[c])
  /\ dirty' = (dirty \/ Disturbed(c))
  /\ UNCHANGED <<page, header, footer, urlPage>>

\* Mutant: both callbacks end with refreshCompleted().
MutCompleteHeader(c) ==
  /\ task[c] \in {"refreshDelay", "loadDelay"}
  /\ header' = "idle" /\ UNCHANGED footer
  /\ task' = [task EXCEPT ![c] = "done"]
  /\ UNCHANGED <<netVars, jobs, page, urlPage, garbled, dirty>>

\* Mutant: both callbacks end with loadComplete().
MutCompleteFooter(c) ==
  /\ task[c] \in {"refreshDelay", "loadDelay"}
  /\ footer' = "idle" /\ UNCHANGED header
  /\ task' = [task EXCEPT ![c] = "done"]
  /\ UNCHANGED <<netVars, jobs, page, urlPage, garbled, dirty>>

\* One second later: refreshCompleted() or loadComplete().
Complete(c) ==
  /\ \/ task[c] = "refreshDelay" /\ header' = "idle" /\ UNCHANGED footer
     \/ task[c] = "loadDelay" /\ footer' = "idle" /\ UNCHANGED header
  /\ task' = [task EXCEPT ![c] = "done"]
  /\ UNCHANGED <<netVars, jobs, page, urlPage, garbled, dirty>>

\* The other screens use the helper meanwhile.
Elsewhere ==
  /\ \/ \E c \in ForeignLists : Net!Get(c, NoBase)
     \/ \E c \in ForeignPlain : Net!Get(c, NoBase) \/ Net!Post(c, NoBase)
     \/ \E c \in ForeignLists \cup ForeignPlain : Net!Answer(c) \/ Net!Fail(c)
  /\ UNCHANGED <<jobs, page, header, footer, task, urlPage, garbled, dirty>>

Next ==
  \/ \E c \in ListCalls :
       Open(c) \/ Refresh(c) \/ LoadMore(c) \/ Resume(c) \/ Complete(c)
  \/ Elsewhere

Spec == Init /\ [][Next]_vars

\* Timeouts end every get and timers fire; the user and the server need not act.
FairSpec ==
  /\ Spec
  /\ \A c \in ListCalls : /\ WF_vars(Resume(c) /\ fate'[c] = "failed")
                          /\ WF_vars(Complete(c))

-----------------------------------------------------------------------------
\* Every field holds a value of its type.
TypeOK ==
  /\ Net!TypeOK
  /\ jobs \in Seq(Nat) /\ page \in Nat \ {0}
  /\ header \in {"idle", "refreshing"} /\ footer \in {"idle", "loading"}
  /\ task \in [ListCalls -> Tasks]
  /\ urlPage \in [ListCalls -> Nat] /\ garbled \subseteq ListCalls
  /\ dirty \in BOOLEAN

\* If no two loads of the screen overlapped and none failed since the list was
\* last started afresh, what is shown once the loads have ended is the pages
\* from the first to the requested one, or to the last there is, each once and
\* in order: the guard on totalPage drops no page and loading past the end adds
\* nothing.  A refresh made while nothing is in flight repairs any list.
CleanListIsPrefix ==
  Opened /\ ~dirty /\ InFlight = {} =>
    LET last == LastPage(Total, PerPage)
    IN  jobs = [i \in 1..(IF page < last THEN page ELSE last) |-> i]

\* Items of another screen's list are shown only after a load of this screen
\* failed, and a failure of the very first get is no source of items at all.
ForeignItemsNeedFailure ==
  (\E i \in 1..Len(jobs) : jobs[i] = 0) =>
    \E c \in ListCalls : fate[c] = "failed" /\ result[c] \in ForeignLists

\* A spinner with no load behind it is the trace of a get that handed over null
\* or an answer that is no page, its own or after a failure another call's:
\* nothing else leaves it turning, not even loads that overlap.
SpinnerStuckOnlyAfterFailure ==
  LET Idle(stages) == \A c \in ListCalls : task[c] \notin stages
  IN  \/ header = "refreshing" /\ Idle({"refresh", "refreshDelay"})
      \/ footer = "loading" /\ Idle({"load", "loadDelay"})
      => \E c \in ListCalls : /\ task[c] = "threw" /\ (fate[c] = "failed" \/ c \in garbled)
                              /\ result[c] \in ForeignPlain \cup {NoAnswer} \cup garbled

\* A refresh ends: the header leaves its refreshing mode, or the refresh threw.
\* Other loads, before and after it, cannot hold it up.
RefreshEnds ==
  \A c \in ListCalls : task[c] = "refresh" ~> header = "idle" \/ task[c] = "threw"
=============================================================================
