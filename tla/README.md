# Verification of the youth application

The repository is a Flutter client for young people's services (volunteer work,
events, part-time jobs, laws, lessons) in `lib/`, on top of a small in-house
package in `lambda/`. This directory models its stateful parts in TLA+, checks
them with TLC on small instances and proves the main results with TLAPS for all
values of the constants.

Everything runs on one Dart isolate. There are no threads: a function runs
without interruption from one `await` to the next. All interleaving is between
*continuations*: answers of the server, delays, plugin calls, frames and the
user's taps arrive in any order where some function is suspended. An action of
a module is therefore one such stretch of code.

## Inventory

| Component | State it keeps | Operations | What is hard |
|---|---|---|---|
| Network helper (`lambda/lib/modules/network_util.dart`, `responseModel.dart`) | field `response`, global `r`, shared `options.baseUrl` | `initNetwork`, `get`, `post` | one field for all screens; a failed `get` returns whatever it holds, a post that is not answered 200 returns the `r` of an earlier post |
| Paginated screens (`lib/ui/views/pages/*.dart`) | `jobs`, `page`, the refresh controller | first load, pull-to-refresh, load-more | loads overlap; the guard reads `page` after the await; an exception leaves the spinner turning |
| Registration form (`register.dart`) | the two menus and their choices | choosing an aimag or a soum, submitting | soum lists arrive out of order, or while the old menu is open |
| Session (`agent_util.dart`, `user_model.dart`, `init.dart`, `login.dart`, `home.dart`, `settings.dart`) | preferences, `AgentUtil`'s fields, `UserModel`, the routes | start, initAuth, login, logout | fields of a singleton, read one second after they were written; contexts of pages that are gone |
| Loading dialog (`progress_dialog.dart`) | a route, four globals | `show`, `update`, `hide` | `hide` pops the top route, whichever that is |
| Title of the home screen (`home.dart`, from line 1400) | two paddings | scroll listener, layout | the listener runs before the settings it reads are renewed |
| Remember-me (`agent_util.dart`, `agent_state.dart`, `login.dart`) | two preferences, their copies in `AgentState`, the e-mail field of each login page | switch, `initAuth`, `login` | `initAuth` ends after the user has typed or left; the switch is read two awaits after the tap |
| Notification list and badge (`gcm/notify_list.dart`, `notify_badger.dart`) | the list, one preference `badgeCount` | load, refresh, tap, badge, close | counts of before a tap arrive after it; taps are counted twice; lost answers; the list is closed under a tap; notifications come that nobody has loaded |
| Code input (`verify_input.dart`) | texts and remembered digits of the boxes, the enabled one | typing, deleting | which of two characters is new; indices at both ends |
| Carousel (`carousel_pro.dart`) | one page controller, a timer | tick, swipe, dot | all of them move one controller |
| Recovery, verification, reset; profile; push notifications | see "Not modelled" | | |
| Tabbed main screen, view-model layer, detail and static screens | nothing that changes after they open, or nothing reachable | | |

How they interact: every screen calls the one `NetworkUtil` object, so an answer
to one screen changes what a failing call of another is handed. `LoginPage`,
`RegisterPage` and `AgentUtil` push and pop dialogs on the one navigator. The
provider `UserModel` connects start, login and registration with the home
screen. `PROJECT.json` lists every component with what is left out of it and
why, and every hazard at its line.

What makes the components correct, in a sentence each:
the network helper hands over answers that a server gave, its own to a call that
succeeded; a list that was loaded without overlap and failure is a prefix of the
server's; a form posts a soum of its aimag once things have settled; the app
stores and shows only accounts that the server confirmed, and a login stores its
own; whatever was begun ends; the title moves without jumps.

## Modules

`HttpContract` <- `NetworkUtil` <- `PagedList`, `RegisterForm`, `NotifyList` (each has an
instance of the network helper and lets other screens' calls run beside it);
`AuthContract` <- `Session`, which EXTENDS `Navigation`; `CodeEntry` <-
`VerifyInput`; `RememberMe`, `Carousel`, `FlexibleTitle` and `PageCount` stand
alone. An arrow from an abstract to a detailed module is a refinement that is
model-checked and proved (for `CodeEntry` until an edit in front of a character, and
for two boxes or more); that the three screens implement `NetworkUtil` is proved and in no run.

* **NetworkUtil**: `Begin` is the code up to the `await` (the address is taken
  over, the request leaves). `GetAnswered`, `GetFailed`, `PostAnswered`,
  `PostNot200`, `PostBadBody` and `PostFailed` are the paths after it. An answer
  is abstracted to the call it answers: that is all the properties need to tell
  apart. A call is made once; the set of calls is a constant.
* **HttpContract** says what may be observed through the helper: a failed get is
  handed any answer that has arrived, a failed post the error or an earlier
  *accepted* post, a result never changes.
* **PagedList** models the screens that share one text, `volunteerWork.dart` and
  seven more; `map` points at one or another of them, as any would do. `Open`, `Refresh` and `LoadMore` are the callbacks up to the await
  in `getItemList`, `Resume` is its rest, `Complete` the code after the delay of
  a second. A page of items is its number, 0 for items of another list. `garbled`
  holds the answers whose body is no page.
* **PageCount** holds the arithmetic of `totalPage`.
* **RegisterForm** models `getAimagList`, `getSumList` and the two menus. A soum
  is abstracted to the list it was taken from. A menu that is open shows the items
  it was opened with, as Flutter's dropdown route does. `Barren` are the aimags
  without soums: `TakeList` replaces the list and then throws at its first item, so
  that only the next `Build` shows it (`built` is the list the dropdown was given).
* **Navigation** is Flutter's navigator as these screens use it, a library
  modelled from its use: a stack of routes and those whose exit transition still
  runs. A record `[name, of]` says which suspended runs hold the route's context;
  a context is unusable once its route is unmounted, and code that uses it throws. A
  run that is over lets go of its page (`Release`), but `AgentUtil.pr` still refers to
  the dialog of the last login, and so to its context.
* **Session** models one run of `login` per member of `Logins` and one of
  `doRegister` per member of `Registers`, by its stage: `TapLogin` (show, post),
  `LoginAnswered`, `AcceptLogin` or `RejectLogin` after the first delay,
  `FinishLogin` or `DismissLogin` after the second. Because `main.dart` installs
  an in-memory preferences store, an await on it runs on at once and is no step,
  and `Restart` empties it; what the server confirmed to the process before
  (`vouched`) is forgotten with it. An exception ends a run in the stage "threw"; its
  dialog stays, as in the program. A `LoginPage` that is pushed is built in the next frame,
  behind which its `initAuth` begins (`openings`, `LoginPagesBuilt`); until then the
  user cannot act, but the runs go on. `r` is the network helper's global, so that a
  post answered with another 2xx status falls back on an earlier answer here too.
* **AuthContract** is what the screens may rely on: kept and shown accounts come
  from the server, the kept one changes by signing in only.
* **RememberMe** is the login page again, from the other side: routes are reduced to
  a stack of login pages and whether the home screen is on top, and a login is one
  run, which `Session` shows it to be (`DialogIsModal`). Each page has a run of
  `initAuth` that may end late; those whose page is gone still set the switch
  (`LeftEnds`). `asked` and `latest` record what the users wanted.
* **NotifyList** has the list of notifications and the badge, which share one
  preference. Notifications come at any time (`Arrive`). The server takes a request
  (`Reach`) some time before its answer arrives, after it was given up on, or never.
  The items of the list are the objects of an answer, so that a mark is seen again by
  whoever is handed the same answer. The list may be closed (`Close`) and opened again,
  with a State of its own each time: the loads and taps of a closed one go on (`home` is
  theirs) up to `setState`, where they throw: a load after it has set the badge, a tap
  before it counts down. An answer may lack its items or its count (`body`): the items
  are added before a missing count throws. Items that were added before the next build
  can be tapped at once, a little more than the program allows.
* **VerifyInput** models `onChanged` by its four outcomes, `Complete`, `Advance`,
  `Retreat` and `Keep`, on texts of at most two characters, edited anywhere; `inFront`
  records that an edit was in front of a character. **CodeEntry** is what it should
  be: digits appended and taken away at the end.
* **Carousel** counts the position of the controller in halves of a page. `Tick` is
  the timer, `Animate` a frame of an animation, `Touch`, `Drag`, `LetGo` and
  `TapDot` the user, who may leave it alone for good (`LeaveAlone`). Whether the
  timer is slower than an animation (`patient`) is settled at the start.
* **FlexibleTitle** models the listener and the two cascades of comparisons as
  one quotient. Extents are whole pixels (the code calls `toInt`); its boundaries
  `k * range / n` are computed in floating point, exact wherever a boundary of the
  configured range of 94 pixels is a whole number.
  The comment at `home.dart:1452` is of other numbers, 17 steps and paddings from 0
  to 16; the code has 31 and 29 to 0.

A definition whose name begins with `Mut` is a deliberately wrong variant of the
definition below it, a plausible slip. No specification uses it. With the variant
in the place of the real one, the run named in `PROJECT.json` must fail: that is
how we know that a property can tell right code from wrong.

## Runs

| Run | Bounds | Shows |
|---|---|---|
| `network_util` | 3 calls, 1 foreign base | the contract, and the three invariants behind it; every call ends by the timeouts alone. Three calls are the least for "an answer of A, handed to the failing B, while C is in flight" |
| `paged_list` | 3 loads, 1 foreign list, 1 foreign plain call, 4 items in pages of 3 | `CleanListIsPrefix`: a list is right unless loads overlapped or failed, and a refresh with nothing in flight repairs it; foreign items and stuck spinners have a failure behind them; a refresh ends. 4/3 rounds down, so that only the `+ 1` saves the last page; 3 loads reach one past the end |
| `register_form` | 3 aimags, one without soums, 3 soum gets, 1 submit, 1 foreign get | `FormAgrees`, `SoumIsListed`, and where aimags among the soums come from. Three gets are enough for an old answer after a new one, and a repair |
| `session_modal` | 3 logins, 2 registrations, 2 accounts, depth 5, system button, a calm user | the dialogs make login and registration modal: with them the shared fields are harmless, and each login stores the account it was for; the splash gives way |
| `session_back` | 2 logins, 2 accounts, no registration, depth 2, system button | overlapping logins still implement `AuthContract`, and each ends, by an exception if its dialog is gone |
| `session_register_live` | 2 registrations, depth 3, system button | each registration ends |
| `remember_me` | 2 accounts, 3 pages, 2 runs of `initAuth` without a page | only what was asked for is stored and offered, and what is typed stays while the switch is untouched. Three pages: one left behind, one underneath, one on top |
| `notify_list` | 2 notifications that come at any time, 2 loads, 2 openings, 2 taps | `BadgeCountsUnread`, `ListedOnce`: both right unless calls overlapped or failed or an item was reported twice, also after the list is closed, and repaired by a load alone; `OnlyFirstLooksRead`. Two loads are a disturbed one and its repair, two openings a list closed under its calls and the next |
| `notify_badge` | 1 notification, 2 loads, 2 openings, 1 tap, 1 badge | `BadgeCountsUnread` with a badge that asks for itself; the badge is never negative |
| `verify_input` | 2 digits, 6 boxes, edits anywhere | until an edit in front of a character the boxes implement `CodeEntry`; no digit is left behind the enabled box; a code is one digit too long at most. Two digits are enough to tell a new one from the one remembered; six is the length in `verify.dart:99` |
| `carousel` | 5 images, any period of the timer | no animation goes astray, whoever takes the controller from whom; every image is shown if the timer is slower than an animation |
| `flexible_title` | extents 80 to 174, the constants of the home screen under a status bar of 24 pixels | resting positions and smoothness |

`MaxDepth` bounds the routes the user piles up and `MaxWaiting` the runs of
`initAuth` that wait for the plugin while the user goes on; both are guards of
the user's actions only, no continuation is held back. Two logins
that overlap need a home and a login page, depth 2; two registrations also the form,
depth 3. `CHECK_DEADLOCK FALSE`
where every call is made once, or where a dialog that nothing will close leaves
the user stuck: that is what the program does.

Some properties have a premise, and each premise stands for a real defect we met:
`OwnAccount` is false once a post was answered 201 (`fellBack`), and for a user who
dismisses the dialog of a login and begins another (hence in `session_modal`);
`FormAgrees` is false while an older answer is the last that came;
`SoumIsListed` is false after an answer under an open menu. `SessionAgrees`
speaks of signed-in users: after a logout `UserModel` keeps the account, and as
`home.dart` never assigns its `_prefs`, the login page is out of reach.

The run `session_modal` is of a calm user (`Calm`), who does three things less than
the program allows; without any of them the run fails.
A system button that dismisses a dialog does not end the run behind it: the user
may start another, and `hide` then pops a page, in the end the last one. Whoever
leaves the registration in the 300 ms before its dialog, to log in from the page
beneath, gets that dialog on top of the login's; and if its push falls between the
route `'/'` and the callback of that route's first frame, the callback replaces the
dialog instead of the splash, which a later `hide` brings back for good. And who
registers while signed in, from a `LoginPage` left underneath, is shown as the new
user while the old one stays stored (`SessionAgrees`). Everything else a user does is
in the run: pages left underneath, logins after a refused registration, a dialog that
an exception leaves for good. The other two runs of `Session` are of any user.

`TypedTextStays` is false once the switch has been touched: `initAuth` then empties
the field or puts the stored login over what was typed. `EntrySpec` says nothing
after an edit in front of a character: a digit typed before the blank is lost if it is the
one the box had last, and the last box takes two digits once its blank is deleted. `EveryImageShown` leaves out a timer that is
faster than its animation, for which it is false. `BadgeCountsUnread` is false after a second tap on an
item that was not the first (the first one is marked in its place, and the badge counts
down again), after an overlap and after a failure, until a load that is alone. It is the
count of what the list shows: notifications that came since are not in it, as the badge
never asks again once there is a count (`notify_badger.dart:31`). A list that is closed
under a tap leaves the badge one too high: `setState` (`notify_list.dart:214`) throws
between the report and the count-down; the property counts that one in (`cut`).
`CompleteLength` says nothing exact of a single box, which `verify_input.dart:20` allows:
two digits typed at its end are handed over together.

`EveryLoginEnds` and `EveryRegisterEnds` say that every run ends, and an exception is an
end. They do not say that its dialog goes, that no page is popped in the dialog's place,
or that a registration is posted once; the program guarantees none of these.

## Fairness

Weak fairness is put on what the platform guarantees, never on the user or the
server: a call fails at the latest by `connectTimeout` and `receiveTimeout`
(`network_util.dart:13`), a timer of `Future.delayed` fires, a frame is drawn and
its callback runs. In `PagedList` fairness is on the failing outcome of a load,
which stays enabled until the load returns; in `Session` on all steps of one run
together, as its answer may come either way; a calm user gives up none of these steps,
only taps. Nothing is assumed of `initAuth`'s
plugin call or of the exit transitions. In `Carousel` the periodic timer fires and
frames are drawn; `patient` says that the timer's period is longer than an
animation, as with the widget's defaults of 3 seconds and 300 milliseconds.

## Proofs

`NetworkUtilProofs` proves every safety property of the run `network_util` for any sets
of calls and addresses, and that null is handed over before the first answer only
(`NullSafe`). The invariant `IInv` adds to `TypeOK` that `r` is the
error or an accepted post, that `response` is null or an answered call, and that
a result is pending exactly while its call is. Without the first,
`PostsSeeOnlyPosts` is not inductive: a post that is answered with another 2xx
hands over `r`, about which the property says nothing. `Refinement` maps each
action to a step of `HttpContract`; the fallback of a failed get is in the
contract's range because of the second part.

`SessionProofs` has two parts for safety, which rest on different invariants. The first proves
`NoThinAir` and `Spec => AuthSpec` for any accounts,
logins and registrations, with and without a system button. `AInv` adds that a
login in flight was typed with an account, and that `is_auth` or an accepted
login implies a stored user, which the step `Show` of the contract needs. This
part never looks at the navigator: the contract holds however dialogs get mixed
up, which is the point of it. Logins beside registrations, which share `r` and the
navigator, are in the run `session_modal`, for other
properties; that part of `TypeOK`, `NoThinAir` and `AuthSpec` rests on the theorems.

The second part proves `TypeOK` of `Session` for any logins and
registrations, and what depends on the navigator: `DialogIsModal`, `SessionAgrees`,
`ThrowsOnlyUnready` and `OwnAccount` for a calm user (`CalmSpec`), with any logins and
registrations beside each other. The invariant `MInv` says where the dialog is:
only the top route can be a dialog, a run that shows one is directly under it on a
page that it holds, a registration that waits to show its dialog has its page on top,
`pr` is the login that is shown, while the splash checks it is on top, and while a
`LoginPage` is pushed but not built no login is shown, so that its `initAuth` takes `pr`
from none. From that
the runs exclude each other (`OneShown`, `OneRegistering`): `login` and `doRegister`
have dialogs of their own, and nothing in the code but these dialogs keeps them apart.
`OwnAccount` needs in addition that the answer a run has taken is for the account it
typed, which holds as long as no two logins are shown (`Alone`).

`PagedListProofs` proves all four invariants of the run `paged_list`, for any sizes,
page sizes and calls. First that `totalPage` is the server's page count or one
more (`GuardCoversEveryPage`). `CleanListIsPrefix` is then carried by `Clean`: while
the screen is clean at most one load is in flight, its url has the field `page`, and
the list is the prefix of before it. The other two follow from invariants that keep
the failure as a witness: a call that has returned never changes.

`RememberMeProofs` proves `TypeOK` of `RememberMe` and the invariants of `remember_me`. `RInv` relates the
copy of the switch in `AgentState` to the preference it was written to, and the
switch a login was tapped with to the one it is stored with: no step in between
can change it, because the dialog keeps the user away and a late `initAuth` reads what
is there already.

`RegisterFormProofs` proves `TypeOK` of `RegisterForm` and the invariants of `register_form`. They rest on
an invariant that relates each soum get to the aimag in its url, the latest one to
the current aimag, and the list to the answer that came last, for aimags with and
without soums.

`NotifyListProofs` proves the invariants of `notify_list` and `notify_badge`, for any
numbers of notifications, openings, calls and badges. `BadgeCountsUnread` and `ListedOnce`
speak of moments when nothing is in flight, so neither is inductive: `NotifyInv` says
what is true in between. In a steady list, one that no overlap, failure or double report
has disturbed since it was last started afresh, at most one call is in flight, it is of
the latest State, and no badge asks (`Alone`); the list is whole, or empty while it is
loaded (`ListKept`); an answer that is on its way counted what the server has unread of
the notifications it lists, because nothing but new notifications can have changed that
since, while after a tap that the server took, and only then, the badge is one too high,
for good if the list was closed meanwhile (`CountKept`). A steady list on the screen that
is loaded has its `_prefs`, and a count is stored (`PrefsHaveCount`), so that a tap on it
does not throw. `OnlyFirstLooksRead` rests on the marks of the answers
(`MarkedSeen`) and on the first item of each list being the newest of its answer
(`FirstIsNewest`).

`PluginProofs` proves every property of the run `verify_input`, for any number of boxes
(that they implement `CodeEntry` for two or more: a single box does not).
`NothingBehind` needs no more than itself and that the boxes are there. The others
rest on `CodeInv`: until an edit in front of a character the boxes to the left of the
enabled one hold a digit each and those to the right none (`Ordered`); only the last
box holds two characters at rest. So the digits shown are those of the first
boxes (`OrderedCode`), and each edit at the end of a box is a step of `CodeEntry`
or, deleting in the empty first box, none (`EnterAtEnd`, `EraseAtEnd`). That
`GetInputVerify` reads the boxes in order is an induction over them, made from the least number
that is not in a set (`Reaching`). For any number of images the module also proves
`CarouselTypeOK`: an animation has not reached its goal, and the image shown
is the page nearest to the position (`Moving`).

`FlexibleTitleProofs` proves that the title keeps its range and its resting
positions for every pair of extents and moves smoothly for every range of at least
31 pixels; it rests on a lemma that fixes a quotient by the multiples around it, as
`GuardCoversEveryPage` does.

### The network helper beneath the screens

`PagedList`, `RegisterForm` and `NotifyList` each have an instance `Net` of
`NetworkUtil`, whose operations are parts of their actions. That the parts fit is
proved: `PagedUsesHelper`, `FormUsesHelper` and `NotifyUsesHelper` say that a
behaviour of the screen is one of `NetworkUtil`, where each step of the screen is an
operation of the helper or leaves its variables alone. Whatever
`NetworkUtilProofs` proves is then cited for the screen's helper (`Helper`, an
instance of it) and not proved again: the helper keeps `HttpContract` beneath each of the
screens (`PagedKeepsContract`, `FormKeepsContract`, `NotifyKeepsContract`), and what a
registration is handed is the answer to a registration or the error, never the aimags
or soums that the gets of the same form leave in the field they share
(`RegistrationSeesNoGet`).

### Liveness

The prover has no rules for ENABLED, which is inside `WF_`. The theorems about liveness
therefore have as a hypothesis that fairness with the condition under which the step is
enabled written out: `TimeoutFires(c)` of `NetworkUtilProofs` says "infinitely often `c`
does not wait, or infinitely often `Fail(c)` happens", and `LoadTimesOut`, `DelayEnds`,
`LoginGoesOn`, `RegisterGoesOn` and `FrameEnds` are of the same form. Each was confirmed
with TLC on the instances of the runs: the condition implies that the step is enabled,
so that the weak fairness of `FairSpec` (or `FairCalmSpec`) implies the hypothesis. From
it follow `EveryCallEnds`, `RefreshEnds`, `EveryLoginEnds`, `EveryRegisterEnds` and, for
a calm user, `SplashEnds`, each for all values of the constants, by what a run passes
through: its stage changes by its own steps only, unless the process ends, and each of
these takes it further. Two of them need an invariant besides. A login is not stuck
behind its delay, because the field `response` still holds an answer, this login's or
another's (`AnswerHeld`): no page that opens resets it, as `initAuth` resets `pr`. The
splash screen gives way because its callback always finds the page it was made for and
never a session without a user (`Splash`, with `StoredUser` and `MInv`).

`EveryImageShown` needs an induction over the pages, inside temporal logic, which
the prover cannot do. Proved is the step of it: from rest on an image the
timer leads to the next one (`NextImageFollows`).

### What is assumed, and what is not proved

Assumptions are those named in the modules: the sentinels differ from calls and
accounts (`HelperConstants`: also those of a screen's instance of the helper), the
calls of a screen from those of others, page sizes are positive, there is a box to type in,
extents are ordered, a carousel has an image. Behaviours are those of `Spec`, or of
`CalmSpec` where a theorem says so, with the fairness above where it is about liveness.

Every invariant, action property and refinement of a run is proved, and every liveness
property but `EveryImageShown`, which is model-checked. Only model-checked is also that
the fairness of the specifications implies the hypotheses of the theorems about
liveness. The other way round, the type invariants of `RememberMe` and `RegisterForm`
and the helper's contract beneath the screens are proved and in no run, and the lemmas'
strengthened invariants are in none either.

## Not modelled

* Layout, wording and animation curves; the text fields' validators and the terms. Most
  lines of the screens are of this kind: `map` names the callbacks and functions that the
  definitions translate and leaves the widgets around them out.
* The recovery chain. It is dead code: the handler of its send button is empty
  (`recovery.dart:154`), nothing calls `doRecovery`, nothing assigns the e-mail it
  would post, and the pages for the code and the new password open from there only.
  The link to the page is in `Session` (`TapLink`).
* The profile. `updateProfile` throws at `image.path` each time, as nothing assigns
  `image`, and never posts.
* Push notifications: the call that would configure them is commented out in
  `app.dart`, and `setToken` has no caller.
* Closing a paginated screen or the form while a get is in flight. There `setState` is
  the last thing that follows the answer (`volunteerWork.dart:49`, `register.dart:51` and
  64), and what it leaves is a State that nobody sees again. (Closing the notification
  list, the login page and a form that is being submitted is modelled.)
* Two notification lists open at once, notifications seen on another device, and more
  than one page of them (`notify_list.dart` never asks for a second). That the server
  lists the newest first is assumed.
* The frame between `show()` and its dialog being built, in which `hide()` would throw:
  a post and a second of delay lie between the two.
* `bioLogin` and its switch, `AgentUtil.checkAuth`, `updateUserState`, `setToken`,
  the tab bar and the view-model layer: nothing reachable calls them. (The
  notification list, the code input and the carousel are out of the application's reach
  too, but are finished parts of the in-house package and modelled as such.)
* `ios/Pods`, `build/` and the platform projects are vendored or generated; the one
  test is Flutter's template. All C and Objective-C of the repository is of that
  kind, and none of it is modelled: what is modelled is the program, which is Dart.

## Plan

Written, in this order: `NetworkUtil`, `PagedList`, `Session`, `RegisterForm`,
`FlexibleTitle`, `RememberMe`, `VerifyInput`, `Carousel`, `NotifyList`, with the proofs
above. What is left:

1. If the recovery chain is given its handler: `Recovery` over `Navigation`, beside
   `Session`.
2. A proof of `EveryImageShown`, with a prover that can induct over the pages in
   temporal logic.
