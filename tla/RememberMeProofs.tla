-------------------------- MODULE RememberMeProofs --------------------------
(***************************************************************************)
(* Theorems about RememberMe for every set of addresses and any number of  *)
(* pages and late runs of initAuth.                                        *)
(***************************************************************************)
EXTENDS RememberMe, SequenceTheorems, TLAPS

\* The provider and the preference agree about the switch, and a login under way
\* was tapped with the switch as it is: so login may ask for it late.
SwitchAgrees ==
  /\ agent.remember = prefs.remember
  /\ run.stage = "posting" => run.on = agent.remember
  /\ RememberedAsAsked

\* What initAuth may put on a page.
Kept == /\ latest \in asked \cup {Null}
        /\ agent.login \in asked \cup {Null, Empty}
        /\ ~switched => agent.login = Null /\ ~agent.remember

RInv == TypeOK /\ SwitchAgrees /\ Kept /\ OffersRemembered /\ TypedTextStays

\* The values at the start have their types.
LEMMA Records ==
  /\ NoRun \in ARun /\ NewPage \in APage /\ <<>> \in Seq(APage)
  /\ [remember |-> FALSE, login |-> Null] \in Memory
  BY EmptySeq DEF NoRun, ARun, NewPage, APage, Memory, Texts

\* One page is replaced.
LEMMA PageReplaced ==
  ASSUME pages \in Seq(APage), NEW i \in DOMAIN pages, NEW page \in APage,
         pages' = [pages EXCEPT ![i] = page]
  PROVE  /\ pages' \in Seq(APage) /\ DOMAIN pages' = DOMAIN pages
         /\ (pages' = <<>> <=> pages = <<>>)
         /\ pages'[i] = page /\ \A j \in DOMAIN pages : j # i => pages'[j] = pages[j]
  BY ExceptSeq, EmptySeq

\* A page on the stack.
LEMMA PageTyped ==
  ASSUME TypeOK, NEW i \in DOMAIN pages
  PROVE  /\ pages[i] \in APage /\ pages[i].loading \in BOOLEAN
         /\ pages[i].text \in Texts /\ pages[i].typed \in Texts
<1>1. pages[i] \in APage
  BY ElementOfSeq, LenProperties DEF TypeOK
<1> QED BY <1>1 DEF APage

\* There is a page on top unless it is the home screen.
LEMMA TopPage ==
  ASSUME TypeOK, ~home
  PROVE  pages # <<>> /\ 1 \in DOMAIN pages
<1>1. pages # <<>> /\ pages \in Seq(APage)
  BY DEF TypeOK
<1> QED BY <1>1, EmptySeq, LenProperties

\* A LoginPage is opened on top of the others.
LEMMA OpenKeeps ==
  ASSUME RInv, OpenLogin \/ OpenRegistered
  PROVE  RInv'
<1>1. /\ NewPage \in APage /\ pages' = <<NewPage>> \o pages
      /\ UNCHANGED <<prefs, agent, ready, left, run, switched, asked, latest>>
      /\ home' \in BOOLEAN /\ user' \in BOOLEAN
  BY DEF RInv, TypeOK, OpenLogin, OpenRegistered, NewPage, APage, Texts
<1>2. /\ pages' \in Seq(APage) /\ pages' # <<>>
      /\ \A i \in DOMAIN pages' : pages'[i] = NewPage \/ \E j \in DOMAIN pages : pages'[i] = pages[j]
  BY <1>1 DEF RInv, TypeOK
<1>3. TypeOK'
  BY <1>1, <1>2 DEF RInv, TypeOK
<1>4. OffersRemembered' /\ TypedTextStays'
  BY <1>1, <1>2 DEF RInv, OffersRemembered, TypedTextStays, NewPage
<1> QED BY <1>1, <1>3, <1>4 DEF RInv, SwitchAgrees, Kept, RememberedAsAsked

\* The page on top goes away.
LEMMA PopKeeps ==
  ASSUME RInv, ~home,
         pages' = Tail(pages), left' \in {left, left + 1}, home' \in BOOLEAN,
         Len(pages) = 1 => home',
         UNCHANGED <<prefs, agent, ready, switched, asked, latest>>,
         user' \in BOOLEAN, run' \in {run, NoRun}
  PROVE  RInv'
<1>1. pages # <<>> /\ pages \in Seq(APage) /\ left \in Nat
  BY DEF RInv, TypeOK
<1>2. /\ pages' \in Seq(APage)
      /\ Len(pages') = Len(pages) - 1 /\ Len(pages) \in Nat
      /\ \A i \in 1..Len(pages') : pages'[i] = pages[i + 1]
  BY <1>1, HeadTailProperties
<1>3. \A i \in DOMAIN pages' : \E j \in DOMAIN pages : pages'[i] = pages[j]
  <2> SUFFICES ASSUME NEW i \in 1..Len(pages')
               PROVE  \E j \in DOMAIN pages : pages'[i] = pages[j]
    BY <1>2
  <2>1. i + 1 \in 1..Len(pages)
    BY <1>2
  <2> QED BY <1>1, <1>2, <2>1
<1>4. pages' = <<>> => home'
  BY <1>2
<1>5. TypeOK'
  <2>1. run' \in ARun
    BY Records DEF RInv, TypeOK
  <2>2. left' \in Nat
    BY <1>1
  <2> QED BY <1>2, <1>4, <2>1, <2>2 DEF RInv, TypeOK
<1>6. OffersRemembered' /\ TypedTextStays'
  BY <1>3 DEF RInv, OffersRemembered, TypedTextStays
<1> QED BY <1>5, <1>6 DEF RInv, SwitchAgrees, Kept, RememberedAsAsked, NoRun

\* loadAgentData leaves the switch alone and takes over what is to be remembered.
LEMMA LoadKeeps ==
  ASSUME RInv, LoadAgentData
  PROVE  /\ ready' \in BOOLEAN /\ agent' \in Memory
         /\ agent'.remember = agent.remember
         /\ agent'.login \in asked \cup {Null, Empty}
         /\ ~switched => agent'.login = Null
  BY RememberConstants
  DEF RInv, TypeOK, SwitchAgrees, RememberedAsAsked, Kept, LoadAgentData, Texts, Memory

\* A page's initAuth ends.
LEMMA InitAuthKeeps ==
  ASSUME RInv, NEW i \in DOMAIN pages, InitAuthLoads(i) \/ InitAuthThrows(i)
  PROVE  RInv'
<1>0. TypeOK /\ SwitchAgrees /\ Kept /\ OffersRemembered /\ TypedTextStays
  BY DEF RInv
<1>1. CASE InitAuthLoads(i)
  <2>1. /\ ready' \in BOOLEAN /\ agent' \in Memory
        /\ agent'.remember = agent.remember
        /\ agent'.login \in asked \cup {Null, Empty}
        /\ ~switched => agent'.login = Null
    BY <1>1, LoadKeeps DEF InitAuthLoads
  <2>2. PICK text \in {pages[i].text, agent'.login} \ {Null} :
          /\ agent'.login = Null => text = pages[i].text
          /\ pages' = [pages EXCEPT ![i] = [loading |-> FALSE, text |-> text,
                                           typed |-> pages[i].typed]]
    <3> DEFINE text == IF agent'.login = Null THEN pages[i].text ELSE agent'.login
    <3>1. pages[i] \in APage /\ pages[i].text # Null
      BY <1>0, PageTyped, RememberConstants DEF Texts
    <3>2. /\ text \in {pages[i].text, agent'.login} \ {Null}
          /\ agent'.login = Null => text = pages[i].text
      BY <3>1
    <3>3. pages' = [pages EXCEPT ![i] = [loading |-> FALSE, text |-> text,
                                        typed |-> pages[i].typed]]
      BY <1>1 DEF InitAuthLoads
    <3> QED BY <3>2, <3>3
  <2>3. [loading |-> FALSE, text |-> text, typed |-> pages[i].typed] \in APage
    <3>1. text \in Texts /\ pages[i].typed \in Texts
      BY <1>0, <2>1, <2>2, PageTyped DEF Memory
    <3> QED BY <3>1 DEF APage
  <2>4. /\ pages' \in Seq(APage) /\ DOMAIN pages' = DOMAIN pages
        /\ (pages' = <<>> <=> pages = <<>>)
        /\ \A j \in DOMAIN pages : j # i => pages'[j] = pages[j]
        /\ pages'[i].text = text /\ pages'[i].typed = pages[i].typed
    BY <1>0, <2>2, <2>3, PageReplaced DEF TypeOK
  <2>5. UNCHANGED <<prefs, left, home, user, run, switched, asked, latest>>
    BY <1>1 DEF InitAuthLoads
  <2>6. TypeOK'
    BY <1>0, <2>1, <2>4, <2>5 DEF TypeOK
  <2>7. OffersRemembered' /\ TypedTextStays'
    BY <1>0, <2>1, <2>2, <2>4, <2>5 DEF OffersRemembered, TypedTextStays
  <2>8. SwitchAgrees' /\ Kept'
    BY <1>0, <2>1, <2>5 DEF SwitchAgrees, Kept, RememberedAsAsked
  <2> QED BY <2>6, <2>7, <2>8 DEF RInv
<1>2. CASE InitAuthThrows(i)
  <2>1. /\ pages' = [pages EXCEPT ![i] = [pages[i] EXCEPT !.loading = FALSE]]
        /\ UNCHANGED <<prefs, agent, ready, left, home, user, run, switched, asked, latest>>
    BY <1>2 DEF InitAuthThrows
  <2>2. /\ [pages[i] EXCEPT !.loading = FALSE] \in APage
        /\ [pages[i] EXCEPT !.loading = FALSE].text = pages[i].text
        /\ [pages[i] EXCEPT !.loading = FALSE].typed = pages[i].typed
    BY <1>0, PageTyped DEF APage
  <2>3. /\ pages' \in Seq(APage) /\ DOMAIN pages' = DOMAIN pages
        /\ (pages' = <<>> <=> pages = <<>>)
        /\ \A j \in DOMAIN pages : pages'[j].text = pages[j].text /\ pages'[j].typed = pages[j].typed
    BY <1>0, <2>1, <2>2, PageReplaced DEF TypeOK
  <2>4. TypeOK' /\ OffersRemembered' /\ TypedTextStays'
    BY <1>0, <2>1, <2>3 DEF TypeOK, OffersRemembered, TypedTextStays
  <2> QED BY <1>0, <2>1, <2>4 DEF RInv, SwitchAgrees, Kept, RememberedAsAsked
<1> QED BY <1>1, <1>2

\* The user types on the page on top.
LEMMA TypeKeeps ==
  ASSUME RInv, NEW a \in Accounts, Type(a)
  PROVE  RInv'
<1>0. TypeOK /\ SwitchAgrees /\ Kept /\ OffersRemembered /\ TypedTextStays
  BY DEF RInv
<1>1. 1 \in DOMAIN pages /\ pages[1].loading \in BOOLEAN
  BY <1>0, TopPage, PageTyped DEF Type, OnPage
<1>2. /\ pages' = [pages EXCEPT ![1] = [loading |-> pages[1].loading, text |-> a, typed |-> a]]
      /\ UNCHANGED <<prefs, agent, ready, left, home, user, run, switched, asked, latest>>
  BY DEF Type
<1>3. [loading |-> pages[1].loading, text |-> a, typed |-> a] \in APage
  BY <1>1 DEF APage, Texts
<1>4. /\ pages' \in Seq(APage) /\ DOMAIN pages' = DOMAIN pages
      /\ (pages' = <<>> <=> pages = <<>>)
      /\ \A j \in DOMAIN pages : j # 1 => pages'[j] = pages[j]
      /\ pages'[1].text = a /\ pages'[1].typed = a
  BY <1>0, <1>1, <1>2, <1>3, PageReplaced DEF TypeOK
<1>5. TypeOK' /\ OffersRemembered' /\ TypedTextStays'
  BY <1>0, <1>2, <1>4 DEF TypeOK, OffersRemembered, TypedTextStays
<1> QED BY <1>0, <1>2, <1>5 DEF RInv, SwitchAgrees, Kept, RememberedAsAsked

\* The switch is flipped in the provider and in the preferences.
LEMMA SwitchKeeps ==
  ASSUME RInv, NEW value \in BOOLEAN, HandleRemember(value)
  PROVE  RInv'
<1>1. /\ agent' = [agent EXCEPT !.remember = value] /\ prefs' = [prefs EXCEPT !.remember = value]
      /\ switched' = TRUE /\ run.stage = "none"
      /\ UNCHANGED <<ready, pages, left, home, user, run, asked, latest>>
  BY DEF HandleRemember, OnPage
<1>2. agent \in Memory /\ prefs \in Memory
  BY DEF RInv, TypeOK
<1>3. /\ agent' \in Memory /\ agent'.remember = value /\ agent'.login = agent.login
      /\ prefs' \in Memory /\ prefs'.remember = value /\ prefs'.login = prefs.login
  BY <1>1, <1>2 DEF Memory
<1>4. TypeOK'
  BY <1>1, <1>3 DEF RInv, TypeOK
<1> QED BY <1>1, <1>3, <1>4 DEF RInv, SwitchAgrees, RememberedAsAsked, Kept, OffersRemembered,
                                TypedTextStays

\* The steps that leave the pages alone.
LEMMA OthersKeep ==
  ASSUME RInv,
         LeftEnds \/ TapLogin \/ LoginAccepted \/ LoginThrows \/ LoginRefused
  PROVE  RInv'
<1> USE RememberConstants DEF RInv
<1>2. CASE LeftEnds
  <2>1. /\ UNCHANGED <<prefs, pages, home, user, run, switched, asked, latest>>
        /\ left' \in Nat
        /\ LoadAgentData \/ UNCHANGED <<ready, agent>>
    BY <1>2 DEF LeftEnds, TypeOK
  <2>2. CASE LoadAgentData
    BY <2>1, <2>2, LoadKeeps DEF TypeOK, SwitchAgrees, RememberedAsAsked, Kept, OffersRemembered,
                             TypedTextStays
  <2>3. CASE UNCHANGED <<ready, agent>>
    BY <2>1, <2>3 DEF TypeOK, SwitchAgrees, RememberedAsAsked, Kept, OffersRemembered,
                      TypedTextStays
  <2> QED BY <2>1, <2>2, <2>3
<1>3. CASE TapLogin
  <2>1. pages[1].text \in Texts /\ agent.remember \in BOOLEAN
    BY <1>3, TopPage, PageTyped DEF TapLogin, OnPage, TypeOK, Memory
  <2>2. run' \in ARun /\ run'.on = agent.remember
    BY <1>3, <2>1 DEF TapLogin, ARun
  <2> QED BY <1>3, <2>2 DEF TapLogin, TypeOK, SwitchAgrees, RememberedAsAsked, Kept,
                            OffersRemembered, TypedTextStays
<1>4. CASE LoginAccepted
  <2>1. /\ run \in ARun /\ prefs \in Memory /\ run.stage = "posting"
        /\ run' = [run EXCEPT !.stage = "accepted"]
        /\ UNCHANGED <<agent, ready, pages, left, home, user, switched>>
    BY <1>4 DEF LoginAccepted, TypeOK
  <2>2. run' \in ARun /\ run'.stage = "accepted" /\ run.sent \in Texts
    BY <2>1 DEF ARun
  <2>3. CASE agent.remember
    <3>1. prefs' = [prefs EXCEPT !.login = run.sent]
          /\ asked' = asked \cup {run.sent} /\ latest' = run.sent
      BY <1>4, <2>1, <2>3 DEF LoginAccepted, Store, SwitchAgrees
    <3>2. prefs' \in Memory /\ prefs'.remember = prefs.remember /\ prefs'.login = run.sent
      BY <2>1, <2>2, <3>1 DEF Memory
    <3> QED BY <2>1, <2>2, <3>1, <3>2 DEF TypeOK, SwitchAgrees, RememberedAsAsked, Kept,
                                          OffersRemembered, TypedTextStays
  <2>4. CASE ~agent.remember
    <3>1. UNCHANGED <<prefs, asked, latest>>
      BY <1>4, <2>1, <2>4 DEF LoginAccepted, Store, SwitchAgrees
    <3> QED BY <2>1, <2>2, <3>1 DEF TypeOK, SwitchAgrees, RememberedAsAsked, Kept,
                                    OffersRemembered, TypedTextStays
  <2> QED BY <2>3, <2>4
<1>5. CASE LoginThrows \/ LoginRefused
  <2>1. run' \in ARun /\ run'.stage # "posting"
    <3>1. run \in ARun
      BY DEF TypeOK
    <3> QED BY <1>5, <3>1, Records DEF LoginThrows, LoginRefused, ARun, NoRun
  <2> QED BY <1>5, <2>1 DEF LoginThrows, LoginRefused, TypeOK, SwitchAgrees, RememberedAsAsked,
                            Kept, OffersRemembered, TypedTextStays
<1> QED BY <1>2, <1>3, <1>4, <1>5

\* A login runs on a page.
RunOnPage == run.stage # "none" => ~home

\* No step takes the page from under a login.
LEMMA RunOnPageKept == RunOnPage /\ [Next]_vars => RunOnPage'
<1> SUFFICES ASSUME RunOnPage, [Next]_vars PROVE RunOnPage'
  OBVIOUS
<1> USE DEF RunOnPage, NoRun, OnPage
<1>1. CASE OpenLogin \/ OpenRegistered \/ Back \/ \E value \in BOOLEAN : HandleRemember(value)
  BY <1>1 DEF OpenLogin, OpenRegistered, Back, HandleRemember
<1>2. CASE \E a \in Accounts : Type(a)
  BY <1>2 DEF Type
<1>3. CASE \E i \in DOMAIN pages : InitAuthLoads(i) \/ InitAuthThrows(i)
  BY <1>3 DEF InitAuthLoads, InitAuthThrows
<1>4. CASE LeftEnds \/ TapLogin \/ LoginThrows \/ LoginRefused \/ LoginEnds
  BY <1>4 DEF LeftEnds, TapLogin, LoginThrows, LoginRefused, LoginEnds
<1>5. CASE LoginAccepted
  <2>1. run.stage # "none" /\ UNCHANGED home
    BY <1>5 DEF LoginAccepted
  <2> QED BY <2>1
<1>6. CASE Restart
  BY <1>6 DEF Restart
<1>7. CASE UNCHANGED vars
  BY <1>7 DEF vars
<1> QED BY <1>1, <1>2, <1>3, <1>4, <1>5, <1>6, <1>7 DEF Next

\* The invariant is inductive.
LEMMA RNext == RInv /\ RunOnPage /\ [Next]_vars => RInv'
<1> SUFFICES ASSUME RInv, RunOnPage, [Next]_vars PROVE RInv'
  OBVIOUS
<1>1. CASE OpenLogin \/ OpenRegistered
  BY <1>1, OpenKeeps
<1>2. CASE Back
  <2>1. CASE OnPage /\ pages' = Tail(pages)
    <3>1. left \in Nat /\ user \in BOOLEAN
      BY DEF RInv, TypeOK
    <3>2. /\ ~home /\ home' = (Len(pages) = 1)
          /\ left' = left + (IF pages[1].loading THEN 1 ELSE 0)
          /\ UNCHANGED <<prefs, agent, ready, user, run, switched, asked, latest>>
      BY <1>2, <2>1 DEF Back, OnPage
    <3>3. home' \in BOOLEAN /\ (Len(pages) = 1 => home')
      BY <3>2
    <3>4. left' \in {left, left + 1}
      BY <3>1, <3>2
    <3> QED BY <2>1, <3>1, <3>2, <3>3, <3>4, PopKeeps
  <2>2. CASE home /\ pages # <<>>
    BY <1>2, <2>2 DEF Back, OnPage, RInv, TypeOK, SwitchAgrees, RememberedAsAsked, Kept,
                      OffersRemembered, TypedTextStays
  <2> QED BY <1>2, <2>1, <2>2 DEF Back
<1>3. ASSUME NEW a \in Accounts, Type(a) PROVE RInv'
  BY <1>3, TypeKeeps
<1>4. ASSUME NEW i \in DOMAIN pages, InitAuthLoads(i) \/ InitAuthThrows(i) PROVE RInv'
  BY <1>4, InitAuthKeeps
<1>5. ASSUME NEW value \in BOOLEAN, HandleRemember(value) PROVE RInv'
  BY <1>5, SwitchKeeps
<1>6. CASE LeftEnds \/ TapLogin \/ LoginAccepted \/ LoginThrows \/ LoginRefused
  BY <1>6, OthersKeep
<1>7. CASE LoginEnds
  <2>1. ~home /\ left \in Nat
    BY <1>7 DEF RunOnPage, LoginEnds, RInv, TypeOK
  <2>2. /\ home' = TRUE /\ user' = TRUE /\ run' = NoRun /\ pages' = Tail(pages)
        /\ left' \in {left, left + 1}
        /\ UNCHANGED <<prefs, agent, ready, switched, asked, latest>>
    BY <1>7, <2>1 DEF LoginEnds
  <2> QED BY <2>1, <2>2, PopKeeps
<1>8. CASE Restart
  <2>1. TypeOK'
    BY <1>8, Records DEF Restart, TypeOK
  <2>2. SwitchAgrees' /\ Kept'
    BY <1>8 DEF Restart, NoRun, SwitchAgrees, RememberedAsAsked, Kept
  <2>3. OffersRemembered' /\ TypedTextStays'
    BY <1>8 DEF Restart, OffersRemembered, TypedTextStays
  <2> QED BY <2>1, <2>2, <2>3 DEF RInv
<1>9. CASE UNCHANGED vars
  BY <1>9 DEF vars, RInv, TypeOK, SwitchAgrees, RememberedAsAsked, Kept, OffersRemembered,
              TypedTextStays
<1> QED BY <1>1, <1>2, <1>3, <1>4, <1>5, <1>6, <1>7, <1>8, <1>9 DEF Next

\* The invariant holds throughout.
LEMMA RInvariance == Spec => [](RInv /\ RunOnPage)
<1>1. Init => RInv /\ RunOnPage
  <2> SUFFICES ASSUME Init PROVE RInv /\ RunOnPage
    OBVIOUS
  <2>1. TypeOK
    BY Records DEF Init, TypeOK
  <2>2. SwitchAgrees /\ Kept /\ RunOnPage
    BY DEF Init, NoRun, SwitchAgrees, RememberedAsAsked, Kept, RunOnPage
  <2>3. OffersRemembered /\ TypedTextStays
    BY DEF Init, OffersRemembered, TypedTextStays
  <2> QED BY <2>1, <2>2, <2>3 DEF RInv
<1> QED BY <1>1, RNext, RunOnPageKept, PTL DEF Spec

\* The state has its type.
THEOREM RememberTypeCorrect == Spec => []TypeOK
<1>1. RInv => TypeOK BY DEF RInv
<1> QED BY <1>1, RInvariance, PTL

\* The stored login is that of the latest login tapped with the switch on.
THEOREM StoredAsAsked == Spec => []RememberedAsAsked
<1>1. RInv => RememberedAsAsked BY DEF RInv, SwitchAgrees
<1> QED BY <1>1, RInvariance, PTL

\* No initAuth, however late, changes what a user typed who never touched the switch.
THEOREM TypedStays == Spec => []TypedTextStays
<1>1. RInv => TypedTextStays BY DEF RInv
<1> QED BY <1>1, RInvariance, PTL

\* A page offers what was typed there or was to be remembered.
THEOREM OnlyRememberedOffered == Spec => []OffersRemembered
<1>1. RInv => OffersRemembered BY DEF RInv
<1> QED BY <1>1, RInvariance, PTL
=============================================================================
