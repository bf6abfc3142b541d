---------------------------- MODULE HttpContract ----------------------------
(***************************************************************************)
(* What the screens may rely on when they call the shared network helper.  *)
(* A call that is answered hands its own answer to its caller.  A call that *)
(* is not answered may hand over an answer that arrived for another call,  *)
(* but never one that no server gave: a get falls back on any earlier      *)
(* answer, a post only on an earlier well-formed answer to a post.  What is *)
(* handed over is final.                                                   *)
(***************************************************************************)
CONSTANTS Calls,      \* the calls the screens make, each made once
          Pending,    \* the result of a call that has not returned
          Thrown,     \* the result of a call that ended in an exception
          NoAnswer,   \* null, what the field response holds at first
          ErrorModel  \* ResponseModel.fromError()

VARIABLES gets, posts,   \* the calls made so far, by method
          arrived,       \* the calls whose answer the server gave
          accepted,      \* the posts answered 200 with a well-formed body
          handed         \* handed[c]: what call c returned

vars == <<gets, posts, arrived, accepted, handed>>

Init == /\ gets = {} /\ posts = {}
        /\ arrived = {} /\ accepted = {}
        /\ handed = [c \in Calls |-> Pending]

Ask(c) ==
  /\ c \notin gets \cup posts
  /\ \/ gets' = gets \cup {c} /\ UNCHANGED posts
     \/ posts' = posts \cup {c} /\ UNCHANGED gets
  /\ UNCHANGED <<arrived, accepted, handed>>

\* The answers a get that failed may fall back on.
Fallback == IF arrived = {} THEN {NoAnswer} ELSE arrived

EndGet(c) ==
  /\ c \in gets /\ handed[c] = Pending
  /\ \/ arrived' = arrived \cup {c} /\ handed' = [handed EXCEPT ![c] = c]
     \/ /\ UNCHANGED arrived
        /\ \E a \in Fallback : handed' = [handed EXCEPT ![c] = a]
  /\ UNCHANGED <<gets, posts, accepted>>

EndPost(c) ==
  /\ c \in posts /\ handed[c] = Pending
  /\ \/ /\ arrived' = arrived \cup {c}
        /\ accepted' = accepted \cup {c}
        /\ handed' = [handed EXCEPT ![c] = c]
     \/ /\ arrived' = arrived \cup {c} /\ UNCHANGED accepted
        /\ \E a \in accepted \cup {ErrorModel, Thrown} :
             handed' = [handed EXCEPT ![c] = a]
     \/ /\ UNCHANGED <<arrived, accepted>>
        /\ handed' = [handed EXCEPT ![c] = ErrorModel]
  /\ UNCHANGED <<gets, posts>>

Next == \E c \in Calls : Ask(c) \/ EndGet(c) \/ EndPost(c)

Spec == Init /\ [][Next]_vars
=============================================================================
