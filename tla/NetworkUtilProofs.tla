------------------------- MODULE NetworkUtilProofs --------------------------
(***************************************************************************)
(* Theorems about NetworkUtil for every set of calls and of addresses: its *)
(* type invariant, what a post may return, when null may be returned,      *)
(* which calls go astray, that it implements HttpContract, and that every  *)
(* call ends.  The screens' proofs cite them for the helper they share.    *)
(***************************************************************************)
EXTENDS NetworkUtil, TLAPS

\* What a call that has not returned looks like: it has no result yet, and one
\* that was not made has no method either.
Outstanding ==
  \A c \in Calls : /\ fate[c] \in {"unsent", "waiting"} => result[c] = Pending
                   /\ method[c] = "none" <=> fate[c] = "unsent"

\* The field response and the global r hold what they are said to hold.
Holders ==
  /\ IF Arrived = {} THEN response = NoAnswer ELSE response \in Arrived
  /\ r \in Accepted \cup {ErrorModel}

IInv == TypeOK /\ Outstanding /\ Holders /\ PostsSeeOnlyPosts

-----------------------------------------------------------------------------
\* The start state satisfies the invariant.
LEMMA InitInv == Init => IInv
  BY Sentinels
  DEF Init, IInv, TypeOK, Outstanding, Holders, PostsSeeOnlyPosts, Arrived,
      Accepted, Methods, Fates

\* Making a call keeps the invariant: nobody has an answer to it yet.
LEMMA BeginInv ==
  ASSUME IInv, NEW c \in Calls, NEW m \in {"get", "post"},
         NEW base \in Bases \cup {NoBase}, Begin(c, m, base)
  PROVE  IInv'
<1>1. TypeOK'
  BY DEF IInv, TypeOK, Begin, Methods, Fates
<1>2. Arrived' = Arrived
  BY DEF IInv, TypeOK, Begin, Arrived
<1>3. Accepted' = Accepted
  BY DEF IInv, TypeOK, Begin, Accepted
<1>4. Outstanding'
  BY DEF IInv, TypeOK, Outstanding, Begin
<1>5. Holders'
  BY <1>2, <1>3 DEF IInv, Holders, Begin
<1>6. PostsSeeOnlyPosts'
  BY <1>3 DEF IInv, TypeOK, Outstanding, PostsSeeOnlyPosts, Begin
<1> QED BY <1>1, <1>4, <1>5, <1>6 DEF IInv

\* A get that is answered keeps the invariant.
LEMMA GetAnsweredInv ==
  ASSUME IInv, NEW c \in Calls, GetAnswered(c)
  PROVE  IInv'
<1> USE Sentinels DEF IInv, GetAnswered, Return, callVars
<1>1. TypeOK'
  BY DEF TypeOK, Fates
<1>2. Arrived' = Arrived \cup {c}
  BY DEF TypeOK, Arrived
<1>3. Accepted' = Accepted
  BY DEF TypeOK, Accepted
<1>4. Outstanding'
  BY DEF TypeOK, Outstanding
<1>5. Holders'
  BY <1>2, <1>3 DEF Holders
<1>6. PostsSeeOnlyPosts'
  BY <1>3 DEF TypeOK, PostsSeeOnlyPosts
<1> QED BY <1>1, <1>4, <1>5, <1>6 DEF IInv

\* A get that fails keeps the invariant.
LEMMA GetFailedInv ==
  ASSUME IInv, NEW c \in Calls, GetFailed(c)
  PROVE  IInv'
<1> USE Sentinels DEF IInv, GetFailed, Return, callVars
<1>1. TypeOK'
  BY DEF TypeOK, Fates
<1>2. Arrived' = Arrived
  BY DEF TypeOK, Arrived
<1>3. Accepted' = Accepted
  BY DEF TypeOK, Accepted
<1>4. Outstanding'
  BY DEF TypeOK, Outstanding
<1>5. Holders'
  BY <1>2, <1>3 DEF Holders
<1>6. PostsSeeOnlyPosts'
  BY <1>3 DEF TypeOK, PostsSeeOnlyPosts
<1> QED BY <1>1, <1>4, <1>5, <1>6 DEF IInv

\* A post that succeeds keeps the invariant: it joins the accepted ones.
LEMMA PostAnsweredInv ==
  ASSUME IInv, NEW c \in Calls, PostAnswered(c)
  PROVE  IInv'
<1> USE Sentinels DEF IInv, PostAnswered, Return, callVars
<1>1. TypeOK'
  BY DEF TypeOK, Fates
<1>2. Arrived' = Arrived \cup {c}
  BY DEF TypeOK, Arrived
<1>3. Accepted' = Accepted \cup {c}
  BY DEF TypeOK, Accepted
<1>4. Outstanding'
  BY DEF TypeOK, Outstanding
<1>5. Holders'
  BY <1>2, <1>3 DEF Holders
<1>6. PostsSeeOnlyPosts'
  BY <1>3 DEF TypeOK, PostsSeeOnlyPosts
<1> QED BY <1>1, <1>4, <1>5, <1>6 DEF IInv

\* A post that is answered without being accepted keeps the invariant.
LEMMA PostUnacceptedInv ==
  ASSUME IInv, NEW c \in Calls, PostNot200(c) \/ PostBadBody(c)
  PROVE  IInv'
<1> USE Sentinels DEF IInv, PostNot200, PostBadBody, Return, callVars
<1>1. TypeOK'
  BY DEF TypeOK, Fates
<1>2. Arrived' = Arrived \cup {c}
  BY DEF TypeOK, Arrived
<1>3. Accepted' = Accepted
  BY DEF TypeOK, Accepted
<1>4. Outstanding'
  BY DEF TypeOK, Outstanding
<1>5. Holders'
  BY <1>2, <1>3 DEF Holders
<1>6. PostsSeeOnlyPosts'
  BY <1>3 DEF TypeOK, PostsSeeOnlyPosts, Holders
<1> QED BY <1>1, <1>4, <1>5, <1>6 DEF IInv

\* A post that fails keeps the invariant.
LEMMA PostFailedInv ==
  ASSUME IInv, NEW c \in Calls, PostFailed(c)
  PROVE  IInv'
<1> USE Sentinels DEF IInv, PostFailed, Return, callVars
<1>1. TypeOK'
  BY DEF TypeOK, Fates
<1>2. Arrived' = Arrived
  BY DEF TypeOK, Arrived
<1>3. Accepted' = Accepted
  BY DEF TypeOK, Accepted
<1>4. Outstanding'
  BY DEF TypeOK, Outstanding
<1>5. Holders'
  BY <1>2, <1>3 DEF Holders
<1>6. PostsSeeOnlyPosts'
  BY <1>3 DEF TypeOK, PostsSeeOnlyPosts
<1> QED BY <1>1, <1>4, <1>5, <1>6 DEF IInv

\* The invariant is inductive.
LEMMA NextInv == IInv /\ [Next]_vars => IInv'
<1> SUFFICES ASSUME IInv, [Next]_vars PROVE IInv'
  OBVIOUS
<1>1. ASSUME NEW c \in Calls, NEW base \in Bases \cup {NoBase},
             Get(c, base) \/ Post(c, base)
      PROVE  IInv'
  BY <1>1, BeginInv DEF Get, Post
<1>2. ASSUME NEW c \in Calls, Answer(c) PROVE IInv'
  BY <1>2, GetAnsweredInv, PostAnsweredInv, PostUnacceptedInv DEF Answer
<1>3. ASSUME NEW c \in Calls, Fail(c) PROVE IInv'
  BY <1>3, GetFailedInv, PostFailedInv DEF Fail
<1>4. CASE UNCHANGED vars
  BY <1>4 DEF vars, sharedVars, callVars, IInv, TypeOK, Outstanding, Holders,
              PostsSeeOnlyPosts, Arrived, Accepted
<1> QED BY <1>1, <1>2, <1>3, <1>4 DEF Next

\* Every reachable state satisfies the invariant.
THEOREM Invariance == Spec => []IInv
<1>1. Init => IInv BY InitInv
<1>2. IInv /\ [Next]_vars => IInv' BY NextInv
<1> QED BY <1>1, <1>2, PTL DEF Spec

\* The fields of the helper keep their types, whatever calls are made.
THEOREM TypeCorrect == Spec => []TypeOK
<1>1. IInv => TypeOK BY DEF IInv
<1> QED BY <1>1, Invariance, PTL

\* post() never hands over what a get, a refused or an unparsable post brought,
\* although get() and post() write the same field.
THEOREM PostsSafe == Spec => []PostsSeeOnlyPosts
<1>1. IInv => PostsSeeOnlyPosts BY DEF IInv
<1> QED BY <1>1, Invariance, PTL

\* The field that get() falls back on is null exactly until the first answer.
THEOREM NullSafe == Spec => []NullOnlyBeforeFirstAnswer
<1>1. IInv => NullOnlyBeforeFirstAnswer
  BY Sentinels DEF IInv, Holders, NullOnlyBeforeFirstAnswer, Arrived
<1> QED BY <1>1, Invariance, PTL

-----------------------------------------------------------------------------
(* Refinement: every step of the helper is a step of the contract.         *)

gets == {c \in Calls : method[c] = "get"}
posts == {c \in Calls : method[c] = "post"}

\* Making a call is asking.
LEMMA BeginAsks ==
  ASSUME IInv, NEW c \in Calls, NEW m \in {"get", "post"},
         NEW base \in Bases \cup {NoBase}, Begin(c, m, base)
  PROVE  Contract!Ask(c)
<1> USE DEF IInv, TypeOK, Begin
<1>1. c \notin gets \cup posts
  BY DEF Outstanding, gets, posts
<1>2. /\ m = "get" => gets' = gets \cup {c} /\ posts' = posts
      /\ m = "post" => posts' = posts \cup {c} /\ gets' = gets
  BY <1>1 DEF gets, posts
<1>3. Arrived' = Arrived /\ Accepted' = Accepted /\ result' = result
  BY DEF Arrived, Accepted
<1> QED BY <1>1, <1>2, <1>3 DEF Contract!Ask, gets, posts

\* A get that returns ends as the contract allows.
LEMMA GetEnds ==
  ASSUME IInv, NEW c \in Calls, GetAnswered(c) \/ GetFailed(c)
  PROVE  Contract!EndGet(c)
<1> USE DEF IInv, TypeOK, GetAnswered, GetFailed, Return, callVars
<1>1. c \in gets /\ result[c] = Pending
  BY DEF Outstanding, gets
<1>2. gets' = gets /\ posts' = posts /\ Accepted' = Accepted
  BY DEF gets, posts, Accepted
<1>3. CASE GetAnswered(c)
  <2>1. Arrived' = Arrived \cup {c} /\ result' = [result EXCEPT ![c] = c]
    BY <1>3 DEF Arrived
  <2> QED BY <1>1, <1>2, <2>1 DEF Contract!EndGet, gets, posts
<1>4. CASE GetFailed(c)
  <2>1. Arrived' = Arrived /\ result' = [result EXCEPT ![c] = response]
    BY <1>4 DEF Arrived
  <2>2. response \in Contract!Fallback
    BY DEF Holders, Contract!Fallback
  <2> QED BY <1>1, <1>2, <2>1, <2>2 DEF Contract!EndGet, gets, posts
<1> QED BY <1>3, <1>4

\* A post that returns or throws ends as the contract allows.
LEMMA PostEnds ==
  ASSUME IInv, NEW c \in Calls,
         PostAnswered(c) \/ PostNot200(c) \/ PostBadBody(c) \/ PostFailed(c)
  PROVE  Contract!EndPost(c)
<1> USE DEF IInv, TypeOK, PostAnswered, PostNot200, PostBadBody, PostFailed, Return, callVars
<1>1. c \in posts /\ result[c] = Pending
  BY DEF Outstanding, posts
<1>2. gets' = gets /\ posts' = posts
  BY DEF gets, posts
<1>3. CASE PostAnswered(c)
  <2>1. /\ Arrived' = Arrived \cup {c} /\ Accepted' = Accepted \cup {c}
        /\ result' = [result EXCEPT ![c] = c]
    BY <1>3 DEF Arrived, Accepted
  <2> QED BY <1>1, <1>2, <2>1 DEF Contract!EndPost, gets, posts
<1>4. CASE PostNot200(c) \/ PostBadBody(c)
  <2>1. Arrived' = Arrived \cup {c} /\ Accepted' = Accepted
    BY <1>4 DEF Arrived, Accepted
  <2>2. PICK a \in Accepted \cup {ErrorModel, Thrown} : result' = [result EXCEPT ![c] = a]
    BY <1>4 DEF Holders
  <2> QED BY <1>1, <1>2, <2>1, <2>2 DEF Contract!EndPost, gets, posts
<1>5. CASE PostFailed(c)
  <2>1. /\ Arrived' = Arrived /\ Accepted' = Accepted
        /\ result' = [result EXCEPT ![c] = ErrorModel]
    BY <1>5 DEF Arrived, Accepted
  <2> QED BY <1>1, <1>2, <2>1 DEF Contract!EndPost, gets, posts
<1> QED BY <1>3, <1>4, <1>5

\* The helper implements HttpContract: an answered call hands over its own
\* answer, and a call that is not answered at most an earlier one.
THEOREM Refinement == Spec => ContractSpec
<1>1. Init => Contract!Init
  BY DEF Init, Contract!Init, Arrived, Accepted
<1>2. ASSUME IInv, [Next]_vars PROVE [Contract!Next]_(Contract!vars)
  <2>1. ASSUME NEW c \in Calls, NEW base \in Bases \cup {NoBase},
               Get(c, base) \/ Post(c, base)
        PROVE  Contract!Next
    BY <1>2, <2>1, BeginAsks DEF Get, Post, Contract!Next
  <2>2. ASSUME NEW c \in Calls, Answer(c) PROVE Contract!Next
    BY <1>2, <2>2, GetEnds, PostEnds DEF Answer, Contract!Next
  <2>3. ASSUME NEW c \in Calls, Fail(c) PROVE Contract!Next
    BY <1>2, <2>3, GetEnds, PostEnds DEF Fail, Contract!Next
  <2>4. CASE UNCHANGED vars
    BY <2>4 DEF vars, sharedVars, callVars, Contract!vars, Arrived, Accepted
  <2> QED BY <1>2, <2>1, <2>2, <2>3, <2>4 DEF Next
<1> QED BY <1>1, <1>2, Invariance, PTL DEF Spec, ContractSpec, Contract!Spec
-----------------------------------------------------------------------------
(* Where calls are sent.                                                   *)

\* The shared address is the configured one or one that some call named; a call
\* that was made was sent to an address, and one that was not named none.
Addresses ==
  /\ baseUrl # Configured => \E d \in Calls : named[d] = baseUrl
  /\ \A c \in Calls : IF fate[c] = "unsent" THEN named[c] = NoBase
                      ELSE sentTo[c] # NoBase

StrayInv == TypeOK /\ Addresses /\ NoStrayCall

\* Only making a call changes an address.
LEMMA ReturnKeepsAddresses ==
  ASSUME StrayInv, NEW c \in Calls, Answer(c) \/ Fail(c)
  PROVE  Addresses' /\ NoStrayCall'
<1>1. fate[c] = "waiting" /\ fate' \in [Calls -> Fates]
      /\ fate'[c] # "unsent" /\ \A d \in Calls \ {c} : fate'[d] = fate[d]
  BY DEF StrayInv, TypeOK, Answer, Fail, GetAnswered, GetFailed, PostAnswered,
         PostNot200, PostBadBody, PostFailed, Return, Fates
<1>2. UNCHANGED <<baseUrl, named, sentTo>>
  BY DEF Answer, Fail, GetAnswered, GetFailed, PostAnswered, PostNot200,
         PostBadBody, PostFailed, Return, callVars
<1>3. \A d \in Calls : fate'[d] = "unsent" <=> fate[d] = "unsent"
  BY <1>1
<1>4. Addresses'
  BY <1>2, <1>3 DEF StrayInv, Addresses
<1>5. NoStrayCall'
  BY <1>2, <1>3 DEF StrayInv, NoStrayCall
<1> QED BY <1>4, <1>5

\* Making a call sends it to the address it names, or to the shared one, which
\* another call has named unless it is the configured one.
LEMMA BeginKeepsAddresses ==
  ASSUME StrayInv, NEW c \in Calls, NEW m \in {"get", "post"},
         NEW base \in Bases \cup {NoBase}, Begin(c, m, base)
  PROVE  Addresses' /\ NoStrayCall'
<1> USE Sentinels DEF StrayInv, TypeOK
<1>1. /\ named'[c] = base /\ sentTo'[c] = baseUrl' /\ fate'[c] = "waiting"
      /\ baseUrl' = IF base = NoBase THEN baseUrl ELSE base
      /\ fate[c] = "unsent" /\ named[c] = NoBase
  BY DEF Begin, Addresses
<1>2. \A d \in Calls \ {c} : /\ named'[d] = named[d] /\ sentTo'[d] = sentTo[d]
                             /\ fate'[d] = fate[d]
  BY DEF Begin
<1>3. baseUrl' # Configured => \E d \in Calls : named'[d] = baseUrl'
  <2>1. CASE base # NoBase BY <1>1, <2>1
  <2>2. CASE base = NoBase
    <3>1. baseUrl' = baseUrl /\ baseUrl # NoBase BY <1>1, <2>2
    <3>2. ASSUME baseUrl # Configured PROVE \E d \in Calls \ {c} : named[d] = baseUrl
      BY <1>1, <3>1, <3>2 DEF Addresses
    <3> QED BY <1>2, <3>1, <3>2
  <2> QED BY <2>1, <2>2
<1>4. Addresses'
  BY <1>1, <1>2, <1>3 DEF Addresses
<1>5. ASSUME NEW e \in Calls, fate'[e] # "unsent"
      PROVE  IF named'[e] # NoBase THEN sentTo'[e] = named'[e]
             ELSE sentTo'[e] # Configured => \E d \in Calls \ {e} : named'[d] = sentTo'[e]
  <2>1. CASE e = c
    <3>1. CASE base # NoBase BY <1>1, <2>1, <3>1
    <3>2. CASE base = NoBase
      <4>1. baseUrl' = baseUrl /\ baseUrl # NoBase BY <1>1, <3>2
      <4>2. baseUrl # Configured => \E d \in Calls \ {c} : named[d] = baseUrl
        BY <1>1, <4>1 DEF Addresses
      <4> QED BY <1>1, <1>2, <2>1, <3>2, <4>1, <4>2
    <3> QED BY <3>1, <3>2
  <2>2. CASE e # c
    <3>1. fate[e] # "unsent" /\ named'[e] = named[e] /\ sentTo'[e] = sentTo[e]
      BY <1>2, <1>5, <2>2
    <3>2. CASE named[e] # NoBase BY <3>1, <3>2 DEF NoStrayCall
    <3>3. CASE named[e] = NoBase /\ sentTo[e] # Configured
      <4>1. PICK d \in Calls \ {e} : named[d] = sentTo[e]
        BY <3>1, <3>3 DEF NoStrayCall
      <4>2. d # c
        BY <1>1, <3>1, <4>1 DEF Addresses
      <4> QED BY <1>2, <3>1, <3>3, <4>1, <4>2
    <3> QED BY <3>1, <3>2, <3>3
  <2> QED BY <2>1, <2>2
<1>6. NoStrayCall'
  BY <1>5 DEF NoStrayCall
<1> QED BY <1>4, <1>6

\* A call goes to the address it names, and one that names none goes to the
\* address of initNetwork as long as no other call has named one.
THEOREM CallsReachTheirServer == Spec => []NoStrayCall
<1>1. Init => StrayInv
  BY InitInv DEF IInv, Init, StrayInv, Addresses, NoStrayCall
<1>2. ASSUME TypeOK, TypeOK', StrayInv, [Next]_vars PROVE StrayInv'
  <2>1. ASSUME NEW c \in Calls, NEW base \in Bases \cup {NoBase},
               Get(c, base) \/ Post(c, base)
        PROVE  Addresses' /\ NoStrayCall'
    BY <1>2, <2>1, BeginKeepsAddresses DEF Get, Post
  <2>2. ASSUME NEW c \in Calls, Answer(c) \/ Fail(c)
        PROVE  Addresses' /\ NoStrayCall'
    BY <1>2, <2>2, ReturnKeepsAddresses
  <2>3. CASE UNCHANGED vars
    BY <1>2, <2>3 DEF vars, sharedVars, callVars, StrayInv, Addresses, NoStrayCall
  <2> QED BY <1>2, <2>1, <2>2, <2>3 DEF Next, StrayInv
<1>3. StrayInv => NoStrayCall BY DEF StrayInv
<1> QED BY <1>1, <1>2, <1>3, TypeCorrect, PTL DEF Spec

-----------------------------------------------------------------------------
(* Every call ends.  The prover knows nothing of ENABLED, so the fairness  *)
(* is stated with the condition under which the step is enabled.           *)

\* The timeout of a call fires: no call waits for ever without it.  Fail(c) is enabled
\* as long as c waits, so this is what WF_vars(Fail(c)) says in FairSpec.
TimeoutFires(c) == []<>~(fate[c] = "waiting") \/ []<><<Fail(c)>>_vars

\* A call waits until it returns, and what it returns is not Pending.
LEMMA WaitsUntilReturn ==
  ASSUME TypeOK, NEW c \in Calls, fate[c] = "waiting", [Next]_vars
  PROVE  (fate[c] = "waiting")' \/ (result[c] # Pending)'
<1>1. ASSUME NEW d \in Calls, NEW base \in Bases \cup {NoBase}, Get(d, base) \/ Post(d, base)
      PROVE  (fate[c] = "waiting")'
  BY <1>1 DEF Get, Post, Begin, TypeOK
<1>2. ASSUME NEW d \in Calls, NEW f, NEW value \in Calls \cup {Thrown, NoAnswer, ErrorModel},
             Return(d, f, value)
      PROVE  (fate[c] = "waiting")' \/ (result[c] # Pending)'
  BY <1>2, Sentinels DEF Return, TypeOK
<1>3. ASSUME NEW d \in Calls, Answer(d) \/ Fail(d)
      PROVE  \E f : \E value \in Calls \cup {Thrown, NoAnswer, ErrorModel} : Return(d, f, value)
  BY <1>3 DEF Answer, Fail, GetAnswered, GetFailed, PostAnswered, PostNot200, PostBadBody,
              PostFailed, TypeOK
<1>4. CASE UNCHANGED vars
  BY <1>4 DEF vars
<1> QED BY <1>1, <1>2, <1>3, <1>4 DEF Next

\* Its timeout ends a call.
LEMMA TimeoutEnds ==
  ASSUME TypeOK, NEW c \in Calls, Fail(c)
  PROVE  (result[c] # Pending)'
  BY Sentinels DEF Fail, GetFailed, PostFailed, Return, TypeOK

\* Every call returns or throws if the timeouts fire, although no server need answer.
THEOREM CallsEndByTimeout == Spec /\ (\A c \in Calls : TimeoutFires(c)) => EveryCallEnds
<1>1. ASSUME NEW c \in Calls
      PROVE  Spec /\ TimeoutFires(c) => (fate[c] = "waiting" ~> result[c] # Pending)
  <2>1. TypeOK /\ fate[c] = "waiting" /\ [Next]_vars
        => (fate[c] = "waiting")' \/ (result[c] # Pending)'
    BY WaitsUntilReturn
  <2>2. TypeOK /\ <<Fail(c)>>_vars => (result[c] # Pending)'
    BY TimeoutEnds
  <2> QED BY <2>1, <2>2, TypeCorrect, PTL DEF Spec, TimeoutFires
<1> QED BY <1>1 DEF EveryCallEnds
=============================================================================
