--------------------------- MODULE FlexibleTitle ----------------------------
(***************************************************************************)
(* DynamicFlexibleSpaceBarTitle of lib/ui/views/home.dart: a title whose   *)
(* padding follows the extent of the app bar.  The scroll position calls   *)
(* its listener when the user scrolls, but what the listener reads are the *)
(* settings of the last layout; the next layout changes the settings and   *)
(* runs the listener once more.  Extents are what toInt() makes of them:    *)
(* whole pixels.                                                           *)
(***************************************************************************)
EXTENDS Integers

CONSTANTS MinExtent,  \* of the collapsed app bar, in logical pixels
          MaxExtent   \* of the expanded app bar

ASSUME Extents == MinExtent \in Nat /\ MaxExtent \in Nat /\ MinExtent < MaxExtent

VARIABLES scrolled,       \* the extent that the scroll position asks for
          currentExtent,  \* the extent in the settings of the last layout
          leftPadding, bottomPadding

vars == <<scrolled, currentExtent, leftPadding, bottomPadding>>

\* The step of a cascade of comparisons with 1, 2, ... n-ths of the range: the
\* first k with pixels <= k * range / n, and 1 for no pixels at all.
Step(pixels, range, n) == IF pixels = 0 THEN 1 ELSE (n * pixels + range - 1) \div range

\* Mutant: the last branch falls back on the padding of the collapsed bar.
MutPaddingElse(minExtent, maxExtent, current) ==
  LET k == Step(current - minExtent, maxExtent - minExtent, 31)
  IN  IF current < minExtent \/ k > 30 THEN 29 ELSE 30 - k

\* Thirty branches, from 29 pixels on the collapsed bar down to none.
getPadding(minExtent, maxExtent, current) ==
  LET k == Step(current - minExtent, maxExtent - minExtent, 31)
  IN  IF current < minExtent \/ k > 30 THEN 0 ELSE 30 - k

\* Mutant: every branch is one pixel lower.
MutPaddingBottomShift(minExtent, maxExtent, current) ==
  LET k == Step(current - minExtent, maxExtent - minExtent, 20)
  IN  IF current < minExtent \/ k > 17 THEN 20 ELSE 4 + k

\* Seventeen branches, from 4 pixels on the collapsed bar up to 20.
getPaddingBottom(minExtent, maxExtent, current) ==
  LET k == Step(current - minExtent, maxExtent - minExtent, 20)
  IN  IF current < minExtent \/ k > 17 THEN 20 ELSE 3 + k

Init ==
  /\ scrolled = MaxExtent /\ currentExtent = MaxExtent
  /\ leftPadding = getPadding(MinExtent, MaxExtent, MaxExtent)
  /\ bottomPadding = getPaddingBottom(MinExtent, MaxExtent, MaxExtent)

\* _positionListener, on the settings of extent.
PositionListener(extent) ==
  /\ leftPadding' = getPadding(MinExtent, MaxExtent, extent)
  /\ bottomPadding' = getPaddingBottom(MinExtent, MaxExtent, extent)

\* The user scrolls; the position notifies its listener before the layout.
Scroll(extent) ==
  /\ scrolled' = extent
  /\ PositionListener(currentExtent)
  /\ UNCHANGED currentExtent

\* Mutant: the listener still sees the settings of the layout before.
MutLayoutBehind ==
  /\ currentExtent # scrolled
  /\ currentExtent' = scrolled
  /\ PositionListener(currentExtent)
  /\ UNCHANGED scrolled

\* The layout of the next frame changes the inherited settings, and with them
\* didChangeDependencies registers the listener again and runs it.
Layout ==
  /\ currentExtent # scrolled
  /\ currentExtent' = scrolled
  /\ PositionListener(scrolled)
  /\ UNCHANGED scrolled

Next == Layout \/ \E extent \in MinExtent..MaxExtent : Scroll(extent)

Spec == Init /\ [][Next]_vars

-----------------------------------------------------------------------------
\* The type of the state.
TypeOK ==
  /\ scrolled \in MinExtent..MaxExtent /\ currentExtent \in MinExtent..MaxExtent
  /\ leftPadding \in 0..29 /\ bottomPadding \in 4..20

\* The title ends where the design wants it: above the menu button once the bar
\* has collapsed, and at the left edge, clear of the subtitle, once it is open.
RestsAtEnds ==
  /\ currentExtent = MinExtent => leftPadding = 29 /\ bottomPadding = 4
  /\ currentExtent = MaxExtent => leftPadding = 0 /\ bottomPadding = 20

\* "when currentExtent changes the padding smoothly change": a layout one pixel
\* higher or lower moves the title by one pixel at the most, in each direction,
\* although the listener has run on old settings in between.
Within(a, b, d) == a - b <= d /\ b - a <= d
MovesSmoothly ==
  [][Within(currentExtent', currentExtent, 1) =>
       /\ Within(leftPadding', leftPadding, 1)
       /\ Within(bottomPadding', bottomPadding, 1)]_vars
=============================================================================
