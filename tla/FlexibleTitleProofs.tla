------------------------ MODULE FlexibleTitleProofs -------------------------
(***************************************************************************)
(* The title of the home screen for every pair of extents: it stays within *)
(* its paddings, and as long as the bar collapses over no fewer pixels     *)
(* than there are steps it moves pixel by pixel.                           *)
(***************************************************************************)
EXTENDS FlexibleTitle, TLAPS

\* A quotient is fixed by the multiples of its divisor around the dividend.
LEMMA Quotient ==
  ASSUME NEW a \in Int, NEW b \in Nat \ {0}
  PROVE  /\ a \div b \in Int
         /\ b * (a \div b) <= a
         /\ a < b * (a \div b) + b
  BY SMT

\* What the cascade of comparisons finds: the step whose interval holds pixels.
LEMMA StepInterval ==
  ASSUME NEW range \in Nat \ {0}, NEW n \in Nat \ {0}, NEW pixels \in Nat
  PROVE  /\ Step(pixels, range, n) \in Nat \ {0}
         /\ n * pixels <= range * Step(pixels, range, n)
         /\ pixels # 0 => range * Step(pixels, range, n) < n * pixels + range
<1>1. CASE pixels = 0
  BY <1>1 DEF Step
<1>2. CASE pixels # 0
  <2> DEFINE q == (n * pixels + range - 1) \div range
  <2>1. n * pixels \in Nat \ {0}
    BY <1>2
  <2>2. n * pixels + range - 1 \in Int
    BY <2>1
  <2>3. q \in Int /\ range * q <= n * pixels + range - 1
                  /\ n * pixels + range - 1 < range * q + range
    BY <2>2, Quotient
  <2> HIDE DEF q
  <2>4. q > 0
    <3>1. range * (q + 1) > range
      BY <2>1, <2>3
    <3>2. SUFFICES ASSUME q + 1 <= 1 PROVE FALSE
      BY <2>3
    <3>3. range * (q + 1) <= range
      BY <2>3, <3>2
    <3> QED BY <3>1, <3>3, <2>3
  <2>5. Step(pixels, range, n) = q
    BY <1>2 DEF Step, q
  <2> QED BY <2>1, <2>3, <2>4, <2>5
<1> QED BY <1>1, <1>2

\* Numbers that differ by 0 or 1 are close, whichever is the greater.
LEMMA StepIsClose ==
  ASSUME NEW a \in Int, NEW b \in Int, a - b \in {0, 1}
  PROVE  Within(a, b, 1) /\ Within(b, a, 1)
  BY DEF Within

\* Numbers no further than one apart.
LEMMA CloseIsStep ==
  ASSUME NEW a \in Int, NEW b \in Int, Within(a, b, 1)
  PROVE  a = b \/ a = b + 1 \/ b = a + 1
  BY DEF Within

\* The last branches cut the cascades off without a jump.
LEMMA CutOff ==
  ASSUME NEW j \in Nat \ {0}, NEW k \in Nat \ {0}, k - j \in {0, 1}
  PROVE  /\ (IF j > 30 THEN 0 ELSE 30 - j) - (IF k > 30 THEN 0 ELSE 30 - k) \in {0, 1}
         /\ (IF k > 17 THEN 20 ELSE 3 + k) - (IF j > 17 THEN 20 ELSE 3 + j) \in {0, 1}
<1>1. CASE k = j
  BY <1>1
<1>2. CASE k = j + 1
  BY <1>2
<1> QED BY <1>1, <1>2

\* One pixel further is at most one step further, and never a step back, in a
\* cascade of no more steps than there are pixels.
LEMMA StepIsSmooth ==
  ASSUME NEW range \in Nat \ {0}, NEW n \in 1..range, NEW pixels \in Nat
  PROVE  Step(pixels + 1, range, n) - Step(pixels, range, n) \in {0, 1}
<1> DEFINE j == Step(pixels, range, n)
           k == Step(pixels + 1, range, n)
<1>1. /\ j \in Nat \ {0} /\ n * pixels <= range * j
      /\ pixels # 0 => range * j < n * pixels + range
  <2>1. n \in Nat \ {0}
    OBVIOUS
  <2> QED BY <2>1, StepInterval
<1>2. /\ k \in Nat \ {0} /\ n * (pixels + 1) <= range * k
      /\ range * k < n * (pixels + 1) + range
  <2>1. pixels + 1 \in Nat /\ pixels + 1 # 0 /\ n \in Nat \ {0}
    OBVIOUS
  <2> QED BY <2>1, StepInterval
<1> HIDE DEF j, k
<1>3. n * (pixels + 1) = n * pixels + n /\ n * pixels \in Nat
  OBVIOUS
<1>4. k <= j + 1
  <2>1. range * (k - j - 2) < 0
    BY <1>1, <1>2, <1>3
  <2> QED BY <1>1, <1>2, <2>1
<1>5. j <= k
  <2>1. CASE pixels = 0
    <3>1. j = 1
      BY <2>1 DEF j, Step
    <3> QED BY <1>2, <3>1
  <2>2. CASE pixels # 0
    <3>1. range * (j - k - 1) < 0
      BY <1>1, <1>2, <1>3, <2>2
    <3> QED BY <1>1, <1>2, <3>1
  <2> QED BY <2>1, <2>2
<1>6. k - j \in {0, 1}
  BY <1>1, <1>2, <1>4, <1>5
<1> QED BY <1>6 DEF j, k

\* Both paddings are in their range, whatever the extents.
LEMMA PaddingRange ==
  ASSUME NEW extent \in MinExtent..MaxExtent
  PROVE  /\ getPadding(MinExtent, MaxExtent, extent) \in 0..29
         /\ getPaddingBottom(MinExtent, MaxExtent, extent) \in 4..20
<1>1. /\ MaxExtent - MinExtent \in Nat \ {0} /\ extent - MinExtent \in Nat
      /\ ~(extent < MinExtent)
  BY Extents
<1>2. /\ Step(extent - MinExtent, MaxExtent - MinExtent, 31) \in Nat \ {0}
      /\ Step(extent - MinExtent, MaxExtent - MinExtent, 20) \in Nat \ {0}
  <2>1. 31 \in Nat \ {0} /\ 20 \in Nat \ {0}
    OBVIOUS
  <2> QED BY <1>1, <2>1, StepInterval
<1> QED BY <1>1, <1>2 DEF getPadding, getPaddingBottom

\* One pixel of the bar is one pixel of the title at the most.
LEMMA PaddingIsSmooth ==
  ASSUME MaxExtent - MinExtent >= 31,
         NEW extent \in MinExtent..MaxExtent, extent + 1 \in MinExtent..MaxExtent
  PROVE  /\ getPadding(MinExtent, MaxExtent, extent)
            - getPadding(MinExtent, MaxExtent, extent + 1) \in {0, 1}
         /\ getPaddingBottom(MinExtent, MaxExtent, extent + 1)
            - getPaddingBottom(MinExtent, MaxExtent, extent) \in {0, 1}
<1> DEFINE Left(e) == Step(e - MinExtent, MaxExtent - MinExtent, 31)
           Bottom(e) == Step(e - MinExtent, MaxExtent - MinExtent, 20)
<1>1. /\ MaxExtent - MinExtent \in Nat \ {0} /\ extent - MinExtent \in Nat
      /\ 31 \in 1..(MaxExtent - MinExtent) /\ 20 \in 1..(MaxExtent - MinExtent)
      /\ (extent + 1) - MinExtent = (extent - MinExtent) + 1
      /\ ~(extent < MinExtent) /\ ~(extent + 1 < MinExtent)
  BY Extents
<1>2. /\ Left(extent + 1) - Left(extent) \in {0, 1}
      /\ Bottom(extent + 1) - Bottom(extent) \in {0, 1}
  BY <1>1, StepIsSmooth
<1>3. /\ Left(extent) \in Nat \ {0} /\ Left(extent + 1) \in Nat \ {0}
      /\ Bottom(extent) \in Nat \ {0} /\ Bottom(extent + 1) \in Nat \ {0}
  <2>1. 31 \in Nat \ {0} /\ 20 \in Nat \ {0} /\ (extent - MinExtent) + 1 \in Nat
    BY <1>1
  <2> QED BY <1>1, <2>1, StepInterval
<1>4. \A e \in {extent, extent + 1} :
        /\ getPadding(MinExtent, MaxExtent, e) = IF Left(e) > 30 THEN 0 ELSE 30 - Left(e)
        /\ getPaddingBottom(MinExtent, MaxExtent, e)
           = IF Bottom(e) > 17 THEN 20 ELSE 3 + Bottom(e)
  BY <1>1 DEF getPadding, getPaddingBottom
<1> HIDE DEF Left, Bottom
<1>5. /\ (IF Left(extent) > 30 THEN 0 ELSE 30 - Left(extent))
         - (IF Left(extent + 1) > 30 THEN 0 ELSE 30 - Left(extent + 1)) \in {0, 1}
      /\ (IF Bottom(extent + 1) > 17 THEN 20 ELSE 3 + Bottom(extent + 1))
         - (IF Bottom(extent) > 17 THEN 20 ELSE 3 + Bottom(extent)) \in {0, 1}
  BY <1>2, <1>3, CutOff
<1> QED BY <1>4, <1>5

-----------------------------------------------------------------------------
\* Inductive: whatever the listener read, the paddings are those of the settings.
Follows ==
  /\ scrolled \in MinExtent..MaxExtent /\ currentExtent \in MinExtent..MaxExtent
  /\ leftPadding = getPadding(MinExtent, MaxExtent, currentExtent)
  /\ bottomPadding = getPaddingBottom(MinExtent, MaxExtent, currentExtent)

\* The paddings follow the settings through every step.
LEMMA AlwaysFollows == Spec => []Follows
<1>1. Init => Follows
  BY Extents DEF Init, Follows
<1>2. Follows /\ [Next]_vars => Follows'
  <2> SUFFICES ASSUME Follows, [Next]_vars PROVE Follows'
    OBVIOUS
  <2>1. CASE Layout
    BY <2>1 DEF Follows, Layout, PositionListener
  <2>2. ASSUME NEW extent \in MinExtent..MaxExtent, Scroll(extent) PROVE Follows'
    BY <2>2 DEF Follows, Scroll, PositionListener
  <2>3. CASE UNCHANGED vars
    BY <2>3 DEF Follows, vars
  <2> QED BY <2>1, <2>2, <2>3 DEF Next
<1> QED BY <1>1, <1>2, PTL DEF Spec

\* The state keeps its type: no extent takes a padding out of its range.
THEOREM TitleTypeCorrect == Spec => []TypeOK
<1>1. Follows => TypeOK
  BY PaddingRange DEF Follows, TypeOK
<1> QED BY <1>1, AlwaysFollows, PTL

\* A bar that collapses over 31 pixels or more moves its title smoothly.
THEOREM TitleMovesSmoothly ==
  ASSUME MaxExtent - MinExtent >= 31
  PROVE  Spec => MovesSmoothly
<1> DEFINE Smooth == Within(currentExtent', currentExtent, 1) =>
                       /\ Within(leftPadding', leftPadding, 1)
                       /\ Within(bottomPadding', bottomPadding, 1)
<1>1. Follows /\ Follows' /\ [Next]_vars => [Smooth]_vars
  <2> SUFFICES ASSUME Follows, Follows', Within(currentExtent', currentExtent, 1)
               PROVE  /\ Within(leftPadding', leftPadding, 1)
                      /\ Within(bottomPadding', bottomPadding, 1)
    OBVIOUS
  <2>1. currentExtent \in Int /\ currentExtent' \in Int
    BY Extents DEF Follows
  <2>2. /\ leftPadding \in Int /\ leftPadding' \in Int
        /\ bottomPadding \in Int /\ bottomPadding' \in Int
    BY PaddingRange DEF Follows
  <2>3. CASE currentExtent' = currentExtent
    <3>1. leftPadding' = leftPadding /\ bottomPadding' = bottomPadding
      BY <2>3 DEF Follows
    <3> QED BY <2>2, <3>1 DEF Within
  <2>4. CASE currentExtent' = currentExtent + 1
    <3>1. leftPadding - leftPadding' \in {0, 1} /\ bottomPadding' - bottomPadding \in {0, 1}
      BY <2>4, PaddingIsSmooth DEF Follows
    <3> QED BY <2>2, <3>1, StepIsClose
  <2>5. CASE currentExtent = currentExtent' + 1
    <3>1. leftPadding' - leftPadding \in {0, 1} /\ bottomPadding - bottomPadding' \in {0, 1}
      BY <2>5, PaddingIsSmooth DEF Follows
    <3> QED BY <2>2, <3>1, StepIsClose
  <2>6. \/ currentExtent' = currentExtent \/ currentExtent' = currentExtent + 1
        \/ currentExtent = currentExtent' + 1
    BY <2>1, CloseIsStep
  <2> QED BY <2>3, <2>4, <2>5, <2>6
<1> QED BY <1>1, AlwaysFollows, PTL DEF Spec, MovesSmoothly

\* The whole range of extents takes every step of a cascade.
LEMMA LastStep ==
  ASSUME NEW range \in Nat \ {0}, NEW n \in Nat \ {0}
  PROVE  Step(range, range, n) >= n /\ Step(range, range, n) \in Nat \ {0}
<1> DEFINE k == Step(range, range, n)
<1>1. k \in Nat \ {0} /\ n * range <= range * k
  BY StepInterval
<1> HIDE DEF k
<1>2. range * (n - k) <= 0
  BY <1>1
<1>3. n - k <= 0
  BY <1>1, <1>2
<1> QED BY <1>1, <1>3 DEF k

\* Whatever range an app bar collapses over, and however often the listener ran on
\* settings of before, the title rests at its two ends.
THEOREM TitleRestsAtEnds == Spec => []RestsAtEnds
<1> DEFINE range == MaxExtent - MinExtent
<1>1. /\ range \in Nat \ {0} /\ MinExtent - MinExtent = 0
      /\ ~(MinExtent < MinExtent) /\ ~(MaxExtent < MinExtent)
  BY Extents
<1>2. Step(0, range, 31) = 1 /\ Step(0, range, 20) = 1
  BY DEF Step
<1>3. getPadding(MinExtent, MaxExtent, MinExtent) = 29
      /\ getPaddingBottom(MinExtent, MaxExtent, MinExtent) = 4
  BY <1>1, <1>2 DEF getPadding, getPaddingBottom
<1>4. Step(range, range, 31) > 30 /\ Step(range, range, 20) > 17
  <2>1. Step(range, range, 31) >= 31 /\ Step(range, range, 31) \in Nat
    BY <1>1, LastStep
  <2>2. Step(range, range, 20) >= 20 /\ Step(range, range, 20) \in Nat
    BY <1>1, LastStep
  <2> QED BY <2>1, <2>2
<1>5. getPadding(MinExtent, MaxExtent, MaxExtent) = 0
      /\ getPaddingBottom(MinExtent, MaxExtent, MaxExtent) = 20
  BY <1>4 DEF getPadding, getPaddingBottom
<1>6. Follows => RestsAtEnds
  BY <1>3, <1>5 DEF Follows, RestsAtEnds
<1> QED BY <1>6, AlwaysFollows, PTL
=============================================================================
