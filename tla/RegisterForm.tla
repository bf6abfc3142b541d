---------------------------- MODULE RegisterForm ----------------------------
(***************************************************************************)
(* lib/ui/views/register.dart, the choice of an aimag and of a soum in it: *)
(* every choice of an aimag asks for its soums through the shared          *)
(* NetworkUtil and nothing cancels or orders the answers; a menu that is   *)
(* open keeps the soums it was opened with.  A soum is abstracted to the   *)
(* list it comes from: an aimag's soums, or the aimags themselves when a   *)
(* failed request falls back on the first answer.  An aimag without soums  *)
(* replaces the list, but then the code indexes its first soum and throws. *)
(* The dialog and the routes of doRegister are in Session.                 *)
(***************************************************************************)
EXTENDS FiniteSets

CONSTANTS Aimags,        \* the aimags on the server
          Barren,        \* those without soums
          AimagCall,     \* the get of getAimagList
          SoumCalls,     \* gets of getSumList
          Submits,       \* posts of doRegister
          ForeignCalls,  \* gets of other screens: their data is no list
          None,          \* nothing chosen, no list
          Pending, Thrown, NoAnswer, ErrorModel, Configured, NoBase

Calls == {AimagCall} \cup SoumCalls \cup Submits \cup ForeignCalls
Bases == {}

ASSUME FormConstants ==
  /\ Barren \subseteq Aimags
  /\ AimagCall \notin Aimags \cup SoumCalls \cup Submits \cup ForeignCalls
  /\ None \notin Aimags \cup {AimagCall} \cup SoumCalls
  /\ SoumCalls \cap (Submits \cup ForeignCalls) = {}

VARIABLES baseUrl, response, r, method, named, sentTo, fate, result,
          aimags,    \* the aimag menu has items
          aimag,     \* _currentAimag
          soums,     \* the list in _dropDownMenuItemsSum
          soum,      \* the list _currentSum was taken from
          built,     \* the list that the last build gave the dropdown
          menu,      \* the list that the open soum menu shows
          asked,     \* of each soum get: the aimag in its url
          garbled,   \* the gets of this form answered with no list
          latest,    \* history: the soum get of the current aimag
          lastBack,  \* history: the soum get that returned last
          underMenu  \* history: the list was replaced under an open menu

Net == INSTANCE NetworkUtil

ASSUME HelperConstants == Net!Sentinels

netVars == <<baseUrl, response, r, method, named, sentTo, fate, result>>
form == <<aimags, aimag, soums, soum, built, menu>>
history == <<latest, lastBack, underMenu>>
vars == <<netVars, form, asked, garbled, history>>

Init ==
  /\ Net!Init
  /\ aimags = FALSE /\ aimag = None
  /\ soums = None /\ soum = None /\ built = None /\ menu = None
  /\ asked = [c \in SoumCalls |-> None]
  /\ garbled = {}
  /\ latest = None /\ lastBack = None /\ underMenu = FALSE

\* initState: getAimagList; getSumList(22) fails on the type of its argument
\* before it asks for anything.
Open ==
  /\ Net!Get(AimagCall, NoBase)
  /\ UNCHANGED <<form, asked, garbled, history>>

\* A get of this form returns; the body of its answer may be no list.
Back(c) ==
  \/ Net!GetAnswered(c) /\ garbled' \in {garbled, garbled \cup {c}}
  \/ Net!GetFailed(c) /\ UNCHANGED garbled

\* The list that an answer carries, None for what is no list.
ListOf(a) == IF a \in garbled' THEN None
             ELSE IF a \in SoumCalls THEN asked[a]
             ELSE IF a = AimagCall THEN AimagCall ELSE None

\* setState, or a build for another reason, such as the keyboard's.
Rebuild == built' = soums

\* The rest of getAimagList.  An answer that is no list makes it throw.
AimagsReturn ==
  /\ Back(AimagCall)
  /\ aimags' = (ListOf(result'[AimagCall]) # None)
  /\ IF aimags' THEN Rebuild ELSE UNCHANGED built
  /\ UNCHANGED <<aimag, soums, soum, menu, asked, history>>

\* Mutant: the url is built from the field, which setState has not changed yet.
MutAskOld(c, a) ==
  /\ aimags /\ menu = None /\ asked[c] = None
  /\ Net!Get(c, NoBase)
  /\ asked' = [asked EXCEPT ![c] = aimag]
  /\ aimag' = a /\ latest' = c /\ Rebuild
  /\ UNCHANGED <<aimags, soums, soum, menu, garbled, lastBack, underMenu>>

\* changedDropDownItemAimag.  The chosen soum stays until the answer is there.
ChooseAimag(c, a) ==
  /\ aimags /\ menu = None /\ asked[c] = None
  /\ Net!Get(c, NoBase)
  /\ asked' = [asked EXCEPT ![c] = a]
  /\ aimag' = a /\ latest' = c /\ Rebuild
  /\ UNCHANGED <<aimags, soums, soum, menu, garbled, lastBack, underMenu>>

\* Mutant: the chosen soum is not replaced with the list.
MutTakeList(list) == soums' = list /\ built' = list /\ UNCHANGED soum

\* Mutant: getDropDownMenuSum goes through the list of aimags.
MutSoumsOfAimags(list) == soums' = AimagCall /\ soum' = AimagCall /\ built' = AimagCall

\* The list and its first soum; an empty list ends the function between them.
TakeList(list) ==
  /\ soums' = list
  /\ IF list \in Barren THEN UNCHANGED <<soum, built>>
                       ELSE soum' = list /\ built' = list

\* The rest of getSumList.
SoumsReturn(c) ==
  /\ Back(c)
  /\ LET list == ListOf(result'[c])
     IN  IF list = None THEN UNCHANGED <<soums, soum, built, underMenu>>
         ELSE TakeList(list) /\ underMenu' = (menu # None)
  /\ lastBack' = c
  /\ UNCHANGED <<aimags, aimag, menu, asked, latest>>

Build ==
  /\ built # soums /\ Rebuild
  /\ UNCHANGED <<netVars, aimags, aimag, soums, soum, menu, asked, garbled, history>>

OpenMenu ==
  /\ menu = None /\ built \notin Barren \cup {None}
  /\ menu' = built
  /\ UNCHANGED <<netVars, aimags, aimag, soums, soum, built, asked, garbled, history>>

\* changedDropDownItemSum, with an item of the menu as it was opened, or the
\* menu is closed without a choice.
CloseMenu ==
  /\ menu # None
  /\ \/ soum' = menu /\ Rebuild
     \/ UNCHANGED <<soum, built>>
  /\ menu' = None
  /\ UNCHANGED <<netVars, aimags, aimag, soums, asked, garbled, history>>

\* The post of doRegister, whose province and soum are the fields of now.
Submit(c) ==
  /\ menu = None
  /\ Net!Post(c, NoBase)
  /\ UNCHANGED <<form, asked, garbled, history>>

Elsewhere ==
  /\ \/ \E c \in ForeignCalls : Net!Get(c, NoBase)
     \/ \E c \in ForeignCalls \cup Submits : Net!Answer(c) \/ Net!Fail(c)
  /\ UNCHANGED <<form, asked, garbled, history>>

Next ==
  \/ Open \/ AimagsReturn \/ Build \/ OpenMenu \/ CloseMenu \/ Elsewhere
  \/ \E c \in SoumCalls : SoumsReturn(c) \/ \E a \in Aimags : ChooseAimag(c, a)
  \/ \E c \in Submits : Submit(c)

Spec == Init /\ [][Next]_vars

-----------------------------------------------------------------------------
Lists == Aimags \cup {AimagCall, None}

\* The type of the state.
TypeOK ==
  /\ Net!TypeOK
  /\ aimags \in BOOLEAN /\ aimag \in Aimags \cup {None}
  /\ {soums, soum, built, menu} \subseteq Lists
  /\ asked \in [SoumCalls -> Aimags \cup {None}]
  /\ garbled \subseteq SoumCalls \cup {AimagCall}
  /\ {latest, lastBack} \subseteq SoumCalls \cup {None} /\ underMenu \in BOOLEAN

\* The form is consistent from the moment the answer for the current aimag is
\* the last that came, and came to a closed menu: what a post then sends is an
\* aimag and a soum of it, whatever failed, came out of order or had no soums before.
FormAgrees ==
  /\ latest # None /\ lastBack = latest /\ fate[latest] = "ok" /\ latest \notin garbled
  /\ ~underMenu /\ aimag \notin Barren
  => soums = aimag /\ soum = aimag

\* The chosen soum is one of the dropdown's items, as the dropdown asserts in
\* its build unless it has no items, or the list was replaced under an open menu:
\* neither answers out of order nor failures nor aimags without soums separate them.
SoumIsListed == ~underMenu => soum = soums \/ soums \in Barren

\* The aimags stand in for soums only after a request for soums failed with the
\* aimags as the last answer of the helper.
AimagsAsSoumsNeedFailure ==
  soums = AimagCall => \E c \in SoumCalls : fate[c] = "failed" /\ result[c] = AimagCall
=============================================================================
