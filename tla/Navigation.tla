----------------------------- MODULE Navigation -----------------------------
(***************************************************************************)
(* Flutter's navigator as the screens of lib/ use it: a stack of routes,   *)
(* and the routes whose exit transition still runs.  A route that is       *)
(* neither is unmounted: its BuildContext finds no navigator and no        *)
(* provider any more.  All that tells two routes of one screen apart is    *)
(* which suspended runs of the code hold their contexts: a route is a      *)
(* record [name, of], and a route that nobody holds is not kept as leaving.*)
(***************************************************************************)
EXTENDS Sequences, Naturals

Route(name, of) == [name |-> name, of |-> of]

Top(nav) == nav.stack[Len(nav.stack)]
OnTop(nav, name) == nav.stack # <<>> /\ Top(nav).name = name

Push(nav, route) == [nav EXCEPT !.stack = Append(@, route)]

\* Navigator.of(context).pop() pops the top route, whose context it is or not.
Pop(nav) ==
  IF nav.stack = <<>> THEN nav
  ELSE [stack |-> SubSeq(nav.stack, 1, Len(nav.stack) - 1),
        leaving |-> nav.leaving \cup {r \in {Top(nav)} : r.of # {}}]

\* pushReplacementNamed puts the route in the place of the top one.
Replace(nav, route) == Push(Pop(nav), route)

\* The exit transition of a route ends and its elements are unmounted.
Unmount(nav, route) == [nav EXCEPT !.leaving = @ \ {route}]

Routes(nav) == {nav.stack[i] : i \in DOMAIN nav.stack} \cup nav.leaving
HasDialog(nav, run) == \E r \in Routes(nav) : r.name = "dialog" /\ run \in r.of
HasPage(nav, run) == \E r \in Routes(nav) : r.name # "dialog" /\ run \in r.of

\* A run lets go of the routes it held, except those of the names kept: a dialog object
\* that a field refers to keeps its context when the run is over.
Release(nav, run, kept) ==
  LET Free(r) == IF r.name \in kept THEN r ELSE [r EXCEPT !.of = @ \ {run}]
  IN  [stack |-> [i \in DOMAIN nav.stack |-> Free(nav.stack[i])],
       leaving |-> {r \in {Free(q) : q \in nav.leaving} : r.of # {}}]

\* A run starts on the top page; what an earlier one of its name held is let go.
Hold(nav, run) ==
  [Release(nav, run, {}) EXCEPT !.stack[Len(nav.stack)].of = @ \cup {run}]
=============================================================================
