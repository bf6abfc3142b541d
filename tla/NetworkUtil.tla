---------------------------- MODULE NetworkUtil ----------------------------
(***************************************************************************)
(* lambda/lib/modules/network_util.dart: one helper, shared by every       *)
(* screen, that keeps the last dio response in the field "response", the   *)
(* last parsed post answer in the global "r" and the server's address in   *)
(* the global "options".  A call suspends once, at its await; from the     *)
(* answer to the return nothing else runs.  The content of an answer is    *)
(* abstracted to the call it answers.                                      *)
(***************************************************************************)
CONSTANTS Calls,       \* the calls the screens make, each made once
          Bases,       \* addresses a call may name in its argument "base"
          Configured,  \* the address given to initNetwork
          NoBase,      \* null: the call names no base
          Pending, Thrown, NoAnswer, ErrorModel

ASSUME Sentinels ==
  /\ {Pending, Thrown, NoAnswer, ErrorModel} \cap Calls = {}
  /\ Pending \notin {Thrown, NoAnswer, ErrorModel}
  /\ Thrown \notin {NoAnswer, ErrorModel}
  /\ NoBase \notin Bases \cup {Configured}

VARIABLES baseUrl,   \* options.baseUrl
          response,  \* the call whose answer the field response holds
          r,         \* the post whose parsed answer the global r holds
          method, named, sentTo,  \* of each call: its method, the base it
                                  \* named, the address it was sent to
          fate,      \* of each call: how far it is and how it ended
          result     \* of each call: what it handed to its caller

sharedVars == <<baseUrl, response, r>>
callVars == <<method, named, sentTo>>
vars == <<sharedVars, callVars, fate, result>>

Methods == {"none", "get", "post"}
Fates == {"unsent", "waiting", "ok", "other2xx", "badBody", "failed"}

\* App.initState calls initNetwork before the first screen is built.
Init ==
  /\ baseUrl = Configured
  /\ response = NoAnswer
  /\ r = ErrorModel
  /\ method = [c \in Calls |-> "none"]
  /\ named = [c \in Calls |-> NoBase]
  /\ sentTo = [c \in Calls |-> NoBase]
  /\ fate = [c \in Calls |-> "unsent"]
  /\ result = [c \in Calls |-> Pending]

\* Mutant: the base is taken over without the test for null.
MutBeginNoTest(c, m, base) ==
  /\ fate[c] = "unsent"
  /\ baseUrl' = base
  /\ method' = [method EXCEPT ![c] = m]
  /\ named' = [named EXCEPT ![c] = base]
  /\ sentTo' = [sentTo EXCEPT ![c] = baseUrl']
  /\ fate' = [fate EXCEPT ![c] = "waiting"]
  /\ UNCHANGED <<response, r, result>>

\* Mutant: the request is built before the base is taken over.
MutBeginLate(c, m, base) ==
  /\ fate[c] = "unsent"
  /\ baseUrl' = IF base = NoBase THEN baseUrl ELSE base
  /\ method' = [method EXCEPT ![c] = m]
  /\ named' = [named EXCEPT ![c] = base]
  /\ sentTo' = [sentTo EXCEPT ![c] = baseUrl]
  /\ fate' = [fate EXCEPT ![c] = "waiting"]
  /\ UNCHANGED <<response, r, result>>

\* The synchronous part of a call.  A base that a call names replaces the
\* shared address for good.
Begin(c, m, base) ==
  /\ fate[c] = "unsent"
  /\ baseUrl' = IF base = NoBase THEN baseUrl ELSE base
  /\ method' = [method EXCEPT ![c] = m]
  /\ named' = [named EXCEPT ![c] = base]
  /\ sentTo' = [sentTo EXCEPT ![c] = baseUrl']
  /\ fate' = [fate EXCEPT ![c] = "waiting"]
  /\ UNCHANGED <<response, r, result>>

Get(c, base) == Begin(c, "get", base)
Post(c, base) == Begin(c, "post", base)

Return(c, f, value) ==
  /\ fate[c] = "waiting"
  /\ fate' = [fate EXCEPT ![c] = f]
  /\ result' = [result EXCEPT ![c] = value]
  /\ UNCHANGED <<baseUrl, callVars>>

\* Mutant: the field is read before the answer is assigned to it.
MutGetReadsEarly(c) ==
  /\ method[c] = "get"
  /\ response' = c
  /\ Return(c, "ok", response)
  /\ UNCHANGED r

GetAnswered(c) ==
  /\ method[c] = "get"
  /\ response' = c
  /\ Return(c, "ok", response')
  /\ UNCHANGED r

\* A DioError is caught and printed; the call returns the field as it is.
GetFailed(c) ==
  /\ method[c] = "get"
  /\ Return(c, "failed", response)
  /\ UNCHANGED <<response, r>>

PostAnswered(c) ==
  /\ method[c] = "post"
  /\ response' = c
  /\ r' = c
  /\ Return(c, "ok", r')

\* Mutant: any 2xx status counts as a success.
MutPostAny2xx(c) ==
  /\ method[c] = "post"
  /\ response' = c
  /\ r' = c
  /\ Return(c, "other2xx", r')

\* A 2xx status other than 200 leaves r alone, and r is what is returned.
PostNot200(c) ==
  /\ method[c] = "post"
  /\ response' = c
  /\ Return(c, "other2xx", r)
  /\ UNCHANGED r

\* A 200 whose body is no JSON object: fromJson throws, past the catch.
PostBadBody(c) ==
  /\ method[c] = "post"
  /\ response' = c
  /\ Return(c, "badBody", Thrown)
  /\ UNCHANGED r

\* Mutant: a post that fails returns the field response, as a get does.
MutPostFailedAsGet(c) ==
  /\ method[c] = "post"
  /\ Return(c, "failed", response)
  /\ UNCHANGED <<response, r>>

PostFailed(c) ==
  /\ method[c] = "post"
  /\ r' = ErrorModel
  /\ Return(c, "failed", r')
  /\ UNCHANGED response

\* Mutant: only gets have a timeout.
MutFailGetsOnly(c) == GetFailed(c)

\* The server refuses, the network drops, or a timeout of "options" fires.
Fail(c) == GetFailed(c) \/ PostFailed(c)

Answer(c) == GetAnswered(c) \/ PostAnswered(c) \/ PostNot200(c) \/ PostBadBody(c)

Next == \E c \in Calls :
          \/ \E base \in Bases \cup {NoBase} : Get(c, base) \/ Post(c, base)
          \/ Answer(c)
          \/ Fail(c)

Spec == Init /\ [][Next]_vars

\* connectTimeout and receiveTimeout end a call the server never answers;
\* nothing obliges the server to answer.
FairSpec == Spec /\ \A c \in Calls : WF_vars(Fail(c))

-----------------------------------------------------------------------------
Arrived == {c \in Calls : fate[c] \in {"ok", "other2xx", "badBody"}}
Accepted == {c \in Calls : method[c] = "post" /\ fate[c] = "ok"}

\* Every field holds a value of its type.
TypeOK ==
  /\ baseUrl \in Bases \cup {Configured}
  /\ response \in Calls \cup {NoAnswer}
  /\ r \in Calls \cup {ErrorModel}
  /\ method \in [Calls -> Methods]
  /\ named \in [Calls -> Bases \cup {NoBase}]
  /\ sentTo \in [Calls -> Bases \cup {Configured, NoBase}]
  /\ fate \in [Calls -> Fates]
  /\ result \in [Calls -> Calls \cup {Pending, Thrown, NoAnswer, ErrorModel}]

\* The parsed answer of a post never comes from a get, from a post that was
\* refused or from one whose body did not parse, although the get and the post
\* path share the field response: a screen that posts sees its own answer, the
\* error, or the answer to an earlier successful post.
PostsSeeOnlyPosts ==
  \A c \in Calls : method[c] = "post" =>
    result[c] \in {Pending, Thrown, ErrorModel} \cup Accepted

\* Only a call with nothing to fall back on hands null to its screen: once any
\* answer arrived, null is not returned any more.  Stated on the field, it says
\* that the field is null exactly as long as no call was answered.
NullOnlyBeforeFirstAnswer == (response = NoAnswer) <=> (Arrived = {})

\* As long as no call has named a base, every call goes to the address given to
\* initNetwork; one that names a base goes there.
NoStrayCall ==
  \A c \in Calls : fate[c] # "unsent" =>
    IF named[c] # NoBase THEN sentTo[c] = named[c]
    ELSE sentTo[c] # Configured => \E d \in Calls \ {c} : named[d] = sentTo[c]

\* Every call returns or throws, even if the server never answers.
EveryCallEnds == \A c \in Calls : fate[c] = "waiting" ~> result[c] # Pending

\* What the screens may rely on.
Contract == INSTANCE HttpContract WITH
              gets <- {c \in Calls : method[c] = "get"},
              posts <- {c \in Calls : method[c] = "post"},
              arrived <- Arrived, accepted <- Accepted, handed <- result

ContractSpec == Contract!Spec
=============================================================================
