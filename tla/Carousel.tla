------------------------------ MODULE Carousel ------------------------------
(***************************************************************************)
(* Carousel of lambda/lib/plugins/carousel/carousel_pro.dart: pages of     *)
(* images that a timer turns, while the user swipes and taps the dots.     *)
(* All of them move one PageController, whose position is counted here in  *)
(* halves of a page; whoever moves it last ends what moved it before.      *)
(***************************************************************************)
EXTENDS Integers

CONSTANT Images  \* how many images: widget.images.length

ASSUME CarouselConstants == Images \in Nat \ {0}

VARIABLES
  position,  \* the position of _controller, in halves of a page
  activity,  \* what moves it: "rest", "drag", or an animation of "timer" or "user"
  goal,      \* where an animation ends
  image,     \* _currentImageIndex
  alive,     \* not disposed: the timer runs
  quiet,     \* the user has left the carousel to its timer
  patient    \* the timer's period, autoplayDuration, is longer than an animation

carouselVars == <<position, activity, goal, image, alive, quiet, patient>>

CarouselInit ==
  /\ position = 0 /\ activity = "rest" /\ goal = 0
  /\ image = 0
  /\ alive = TRUE /\ quiet = FALSE
  /\ patient \in BOOLEAN

\* page.round(), which rounds a half up.
Rounded(p) == (p + 1) \div 2

\* PageView reports a page as soon as it is the nearest: onPageChanged.
MoveTo(p) == position' = p /\ image' = Rounded(p)

\* animateToPage: nothing moves when the page is already there.
AnimateTo(page, who) ==
  /\ goal' = 2 * page
  /\ activity' = IF position = 2 * page THEN "rest" ELSE who
  /\ UNCHANGED <<position, image, alive, quiet, patient>>

\* Mutant: the last page is taken to be the number of images.
MutTickPastEnd ==
  /\ alive /\ (patient => activity # "timer")
  /\ AnimateTo(IF Rounded(position) = Images THEN 0 ELSE Rounded(position) + 1, "timer")

\* Mutant: the last page is not followed by the first.
MutTickStops ==
  /\ alive /\ (patient => activity # "timer")
  /\ AnimateTo(IF Rounded(position) = Images - 1 THEN Rounded(position) ELSE Rounded(position) + 1, "timer")

\* The timer's callback: the next page, or after the last one the first.  It does
\* not ask whether the user is dragging the page or has just tapped a dot.
Tick ==
  /\ alive /\ (patient => activity # "timer")
  /\ AnimateTo(IF Rounded(position) = Images - 1 THEN 0 ELSE Rounded(position) + 1, "timer")

\* An animation goes on by half a page.
Animate ==
  /\ alive /\ activity \in {"timer", "user"}
  /\ MoveTo(IF position < goal THEN position + 1 ELSE position - 1)
  /\ activity' = IF position' = goal THEN "rest" ELSE activity
  /\ UNCHANGED <<goal, alive, quiet, patient>>

\* onPageSelected of the DotsIndicator.
TapDot(page) == alive /\ ~quiet /\ AnimateTo(page, "user")

\* A finger holds the page, which ends an animation, and moves it.
Touch ==
  /\ alive /\ ~quiet
  /\ activity' = "drag"
  /\ UNCHANGED <<position, goal, image, alive, quiet, patient>>

Drag ==
  /\ alive /\ activity = "drag"
  /\ \E p \in {position - 1, position + 1} \cap 0..2 * (Images - 1) : MoveTo(p)
  /\ UNCHANGED <<activity, goal, alive, quiet, patient>>

\* The page snaps to the one the position and the speed of the finger suggest.
LetGo ==
  /\ alive /\ activity = "drag"
  /\ \E page \in {position \div 2, Rounded(position), (position + 2) \div 2} \cap 0..Images - 1 :
       AnimateTo(page, "user")

LeaveAlone ==
  /\ alive /\ activity # "drag"
  /\ quiet' = TRUE
  /\ UNCHANGED <<position, activity, goal, image, alive, patient>>

\* dispose cancels the timer and forgets the controller.
Dispose ==
  /\ alive /\ alive' = FALSE
  /\ UNCHANGED <<position, activity, goal, image, quiet, patient>>

CarouselNext ==
  \/ Tick \/ Animate \/ Touch \/ Drag \/ LetGo \/ LeaveAlone \/ Dispose
  \/ \E page \in 0..Images - 1 : TapDot(page)

CarouselSpec == CarouselInit /\ [][CarouselNext]_carouselVars

\* A periodic timer fires, and frames are drawn.
FairCarouselSpec == CarouselSpec /\ WF_carouselVars(Tick) /\ WF_carouselVars(Animate)

-----------------------------------------------------------------------------
Positions == 0..2 * (Images - 1)

\* The type of the state: neither the timer nor a finger, in whatever order they
\* take the controller from each other, goes for a page that does not exist.
CarouselTypeOK ==
  /\ position \in Positions /\ goal \in Positions
  /\ activity \in {"rest", "drag", "timer", "user"}
  /\ image \in 0..Images - 1
  /\ {alive, quiet, patient} \subseteq BOOLEAN

\* Left alone, from wherever the user left it, a carousel whose timer is slower than
\* its animation shows every image, as long as it is there: the next one follows,
\* and the first one the last.
EveryImageShown == \A i \in 0..Images - 1 : quiet /\ patient ~> (image = i \/ ~alive)
=============================================================================
