------------------------- MODULE RegisterFormProofs -------------------------
(***************************************************************************)
(* Theorems about RegisterForm for every set of aimags and any number of   *)
(* choices: the type of the form, that the chosen soum is an item of the   *)
(* menu, that the form agrees with itself once the answer for the current  *)
(* aimag was the last to come, when aimags are offered as soums, and, by   *)
(* the theorems of the network helper, what a registration may be handed.  *)
(***************************************************************************)
EXTENDS RegisterForm, TLAPS

\* The part of the type invariant that is needed.
Typed ==
  /\ asked \in [SoumCalls -> Aimags \cup {None}]
  /\ fate \in [Calls -> Net!Fates] /\ DOMAIN result = Calls
  /\ {latest, lastBack} \subseteq SoumCalls \cup {None}

\* A soum get was made exactly when it has an aimag; the latest one has the
\* current aimag, and one that came back was made.
Asked ==
  /\ \A c \in SoumCalls : asked[c] = None <=> fate[c] = "unsent"
  /\ latest # None => asked[latest] = aimag /\ aimag # None
  /\ lastBack # None => asked[lastBack] # None

\* Unless the list was replaced under an open menu or has no soums, the dropdown
\* and its menu show the list that the chosen soum is from.
MenuAgrees ==
  ~underMenu => \/ soums \in Barren
                \/ soum = soums /\ built = soums /\ menu \in {None, soums}

\* Its own answer is in the form if it was the last that came.
LastAnswerShown ==
  /\ latest # None /\ lastBack = latest /\ fate[latest] = "ok" /\ latest \notin garbled
  => soums = aimag

FInv == Typed /\ Asked /\ MenuAgrees /\ LastAnswerShown /\ AimagsAsSoumsNeedFailure

\* The steps that are not about soums change the state of no soum get.
OtherStep == Open \/ AimagsReturn \/ Elsewhere \/ (\E c \in Submits : Submit(c))

\* Steps of the aimags, of a submit and of other screens.
LEMMA OtherSteps ==
  ASSUME Typed, OtherStep
  PROVE  /\ UNCHANGED <<aimag, soums, soum, menu, asked, history>>
         /\ built' \in {built, soums}
         /\ fate' \in [Calls -> Net!Fates] /\ DOMAIN result' = Calls
         /\ \A c \in SoumCalls : fate'[c] = fate[c] /\ result'[c] = result[c]
         /\ \A c \in SoumCalls : c \in garbled' <=> c \in garbled
<1> USE FormConstants
    DEF Typed, Calls, Net!Begin, Net!Return, Net!Fates, form, history
<1>1. CASE Open
  BY <1>1 DEF Open, Net!Get
<1>2. CASE AimagsReturn
  BY <1>2 DEF AimagsReturn, Rebuild, Back, Net!GetAnswered, Net!GetFailed
<1>3. CASE Elsewhere
  <2>1. CASE \E c \in ForeignCalls : Net!Get(c, NoBase)
    BY <1>3, <2>1 DEF Elsewhere, Net!Get
  <2>2. CASE \E c \in ForeignCalls \cup Submits : Net!Answer(c) \/ Net!Fail(c)
    BY <1>3, <2>2 DEF Elsewhere, Net!Answer, Net!Fail, Net!GetAnswered,
       Net!GetFailed, Net!PostAnswered, Net!PostNot200, Net!PostBadBody, Net!PostFailed
  <2> QED BY <1>3, <2>1, <2>2 DEF Elsewhere
<1>4. CASE \E c \in Submits : Submit(c)
  BY <1>4 DEF Submit, Net!Post
<1> QED BY <1>1, <1>2, <1>3, <1>4 DEF OtherStep

\* Choosing an aimag makes a new request the latest one; it has not come back.
LEMMA ChooseKeeps ==
  ASSUME FInv, NEW c \in SoumCalls, NEW a \in Aimags, ChooseAimag(c, a)
  PROVE  FInv'
<1> USE FormConstants
    DEF FInv, Typed, Calls, Net!Get, Net!Begin, Net!Fates, ChooseAimag, Rebuild
<1>1. Typed'
  OBVIOUS
<1>2. Asked'
  BY DEF Asked
<1>3. MenuAgrees'
  BY DEF MenuAgrees
<1>4. LastAnswerShown'
  BY DEF LastAnswerShown
<1>5. AimagsAsSoumsNeedFailure'
  BY DEF AimagsAsSoumsNeedFailure, Asked
<1> QED BY <1>1, <1>2, <1>3, <1>4, <1>5

\* An answer replaces the list and the soum together, or neither.
LEMMA ReturnKeeps ==
  ASSUME FInv, NEW c \in SoumCalls, SoumsReturn(c)
  PROVE  FInv'
<1> USE FormConstants
    DEF FInv, Typed, Calls, Net!GetAnswered, Net!GetFailed, Net!Return, Net!Fates,
        SoumsReturn, TakeList, Back
<1>1. /\ fate[c] = "waiting" /\ fate'[c] \in {"ok", "failed"}
      /\ \A d \in SoumCalls \ {c} : fate'[d] = fate[d]
      /\ fate'[c] = "ok" => result'[c] = c
  OBVIOUS
<1>2. Typed'
  OBVIOUS
<1>3. Asked'
  BY <1>1 DEF Asked
<1>4. MenuAgrees'
  <2>1. /\ UNCHANGED menu
        /\ \/ UNCHANGED <<soums, soum, built, underMenu>>
           \/ soums' \in Barren
           \/ soum' = soums' /\ built' = soums' /\ underMenu' = (menu # None)
    OBVIOUS
  <2>2. CASE UNCHANGED <<soums, soum, built, underMenu>>
    BY <2>1, <2>2 DEF MenuAgrees
  <2>3. CASE soums' \in Barren
    BY <2>3 DEF MenuAgrees
  <2>4. CASE soum' = soums' /\ built' = soums' /\ underMenu' = (menu # None)
    BY <2>1, <2>4 DEF MenuAgrees
  <2> QED BY <2>1, <2>2, <2>3, <2>4
<1>5. LastAnswerShown'
  <2> SUFFICES ASSUME latest = c, fate'[c] = "ok", c \notin garbled'
               PROVE  soums' = aimag
    BY DEF LastAnswerShown
  <2>1. ListOf(result'[c]) = aimag /\ aimag # None
    BY <1>1 DEF ListOf, Asked
  <2> QED BY <2>1
<1>6. AimagsAsSoumsNeedFailure'
  <2> SUFFICES ASSUME soums' = AimagCall
               PROVE  \E d \in SoumCalls : fate'[d] = "failed" /\ result'[d] = AimagCall
    BY DEF AimagsAsSoumsNeedFailure
  <2>1. CASE soums = AimagCall
    <3>1. PICK d \in SoumCalls : fate[d] = "failed" /\ result[d] = AimagCall
      BY <2>1 DEF AimagsAsSoumsNeedFailure
    <3>2. d # c /\ fate'[d] = fate[d] /\ result'[d] = result[d]
      BY <3>1, <1>1
    <3> QED BY <3>1, <3>2
  <2>2. CASE soums # AimagCall
    <3>1. ListOf(result'[c]) = AimagCall
      BY <2>2
    <3>2. result'[c] = AimagCall
      BY <3>1 DEF ListOf
    <3>3. fate'[c] = "failed"
      BY <3>2, <1>1
    <3> QED BY <3>2, <3>3
  <2> QED BY <2>1, <2>2
<1> QED BY <1>2, <1>3, <1>4, <1>5, <1>6

\* The invariant is inductive.
LEMMA FNext == FInv /\ [Next]_vars => FInv'
<1> SUFFICES ASSUME FInv, [Next]_vars PROVE FInv'
  OBVIOUS
<1>1. CASE OtherStep
  BY <1>1, OtherSteps
  DEF FInv, Typed, Asked, MenuAgrees, LastAnswerShown, history, AimagsAsSoumsNeedFailure
<1>2. ASSUME NEW c \in SoumCalls, NEW a \in Aimags, ChooseAimag(c, a) PROVE FInv'
  BY <1>2, ChooseKeeps
<1>3. ASSUME NEW c \in SoumCalls, SoumsReturn(c) PROVE FInv'
  BY <1>3, ReturnKeeps
<1>4. CASE Build \/ OpenMenu \/ CloseMenu
  BY <1>4 DEF Build, OpenMenu, CloseMenu, Rebuild, netVars, history, FInv, Typed, Asked,
              MenuAgrees, LastAnswerShown, AimagsAsSoumsNeedFailure
<1>5. CASE UNCHANGED vars
  BY <1>5 DEF vars, netVars, form, history, FInv, Typed, Asked, MenuAgrees,
              LastAnswerShown, AimagsAsSoumsNeedFailure
<1> QED BY <1>1, <1>2, <1>3, <1>4, <1>5 DEF Next, OtherStep

\* The invariant holds throughout.
LEMMA FInvariance == Spec => []FInv
<1>1. Init => FInv
  BY FormConstants
  DEF Init, Net!Init, Net!Fates, Calls, FInv, Typed, Asked, MenuAgrees, LastAnswerShown,
      AimagsAsSoumsNeedFailure
<1> QED BY <1>1, FNext, PTL DEF Spec

\* The dropdown's assertion that the chosen soum is one of its items holds for
\* any order of answers, unless the list was replaced under an open menu.
THEOREM ChosenSoumIsListed == Spec => []SoumIsListed
<1>1. FInv => SoumIsListed BY DEF FInv, MenuAgrees, SoumIsListed
<1> QED BY <1>1, FInvariance, PTL

\* The pair that a post sends is an aimag and a soum of it from the moment the
\* answer for the current aimag came last.
THEOREM FormConsistent == Spec => []FormAgrees
<1>1. FInv => FormAgrees
  BY DEF FInv, MenuAgrees, LastAnswerShown, FormAgrees
<1> QED BY <1>1, FInvariance, PTL

\* Aimags are offered as soums only after a get for soums has failed.
THEOREM AimagsAsSoums == Spec => []AimagsAsSoumsNeedFailure
<1>1. FInv => AimagsAsSoumsNeedFailure BY DEF FInv
<1> QED BY <1>1, FInvariance, PTL

-----------------------------------------------------------------------------
(* The type of the state.                                                  *)

\* The calls of the helper keep the type of its fields.
LEMMA HelperTyped ==
  ASSUME Net!TypeOK, NEW c \in Calls,
         Net!Get(c, NoBase) \/ Net!Post(c, NoBase) \/ Net!Answer(c) \/ Net!Fail(c)
  PROVE  Net!TypeOK'
<1> USE DEF Net!TypeOK, Net!Fates
<1>1. CASE Net!Get(c, NoBase) \/ Net!Post(c, NoBase)
  BY <1>1 DEF Net!Get, Net!Post, Net!Begin, Net!Methods, Bases
<1>2. CASE Net!GetAnswered(c) \/ Net!GetFailed(c)
  BY <1>2 DEF Net!GetAnswered, Net!GetFailed, Net!Return, Net!callVars
<1>3. CASE Net!PostAnswered(c) \/ Net!PostNot200(c)
  BY <1>3 DEF Net!PostAnswered, Net!PostNot200, Net!Return, Net!callVars
<1>4. CASE Net!PostBadBody(c) \/ Net!PostFailed(c)
  BY <1>4 DEF Net!PostBadBody, Net!PostFailed, Net!Return, Net!callVars
<1> QED BY <1>1, <1>2, <1>3, <1>4 DEF Net!Answer, Net!Fail

\* The part of the type that is about the form.
FormTyped ==
  /\ aimags \in BOOLEAN /\ aimag \in Aimags \cup {None}
  /\ {soums, soum, built, menu} \subseteq Lists
  /\ asked \in [SoumCalls -> Aimags \cup {None}]
  /\ garbled \subseteq SoumCalls \cup {AimagCall}
  /\ {latest, lastBack} \subseteq SoumCalls \cup {None} /\ underMenu \in BOOLEAN

\* What an answer is taken for is a list or none.
LEMMA ListTyped ==
  ASSUME asked \in [SoumCalls -> Aimags \cup {None}], NEW a
  PROVE  ListOf(a) \in Lists
  BY DEF ListOf, Lists

\* Every step keeps the type of the form.
LEMMA FormTypedNext == FormTyped /\ [Next]_vars => FormTyped'
<1> SUFFICES ASSUME FormTyped, [Next]_vars PROVE FormTyped'
  OBVIOUS
<1> USE DEF FormTyped, form, history, Rebuild
<1>1. CASE Open \/ Elsewhere \/ (\E c \in Submits : Submit(c))
  BY <1>1 DEF Open, Elsewhere, Submit
<1>2. CASE AimagsReturn
  BY <1>2 DEF AimagsReturn, Back
<1>3. CASE Build \/ OpenMenu \/ CloseMenu
  BY <1>3 DEF Build, OpenMenu, CloseMenu, Lists
<1>4. ASSUME NEW c \in SoumCalls, SoumsReturn(c) PROVE FormTyped'
  <2>1. ListOf(result'[c]) \in Lists
    BY ListTyped
  <2> QED BY <1>4, <2>1 DEF SoumsReturn, TakeList, Back
<1>5. ASSUME NEW c \in SoumCalls, NEW a \in Aimags, ChooseAimag(c, a) PROVE FormTyped'
  BY <1>5 DEF ChooseAimag
<1>6. CASE UNCHANGED vars
  BY <1>6 DEF vars
<1> QED BY <1>1, <1>2, <1>3, <1>4, <1>5, <1>6 DEF Next

\* Every step keeps the type of the helper.
LEMMA HelperTypedNext == Net!TypeOK /\ [Next]_vars => Net!TypeOK'
<1> SUFFICES ASSUME Net!TypeOK, [Next]_vars PROVE Net!TypeOK'
  OBVIOUS
<1>1. CASE Open \/ AimagsReturn
  BY <1>1, HelperTyped DEF Open, AimagsReturn, Back, Calls, Net!Answer, Net!Fail
<1>2. CASE Elsewhere
  BY <1>2, HelperTyped DEF Elsewhere, Calls
<1>3. CASE \E c \in Submits : Submit(c)
  BY <1>3, HelperTyped DEF Submit, Calls
<1>4. ASSUME NEW c \in SoumCalls, SoumsReturn(c) \/ \E a \in Aimags : ChooseAimag(c, a)
      PROVE  Net!TypeOK'
  BY <1>4, HelperTyped DEF SoumsReturn, ChooseAimag, Back, Calls, Net!Answer, Net!Fail
<1>5. CASE Build \/ OpenMenu \/ CloseMenu \/ UNCHANGED vars
  BY <1>5 DEF Build, OpenMenu, CloseMenu, vars, netVars, Net!TypeOK
<1> QED BY <1>1, <1>2, <1>3, <1>4, <1>5 DEF Next

\* Every field of the form keeps its type, for any aimags and any answers.
THEOREM FormTypeCorrect == Spec => []TypeOK
<1>1. Init => Net!TypeOK /\ FormTyped
  BY DEF Init, Net!Init, Net!TypeOK, Net!Fates, Net!Methods, FormTyped, Lists
<1>2. Net!TypeOK /\ FormTyped => TypeOK
  BY DEF FormTyped, TypeOK
<1> QED BY <1>1, <1>2, FormTypedNext, HelperTypedNext, PTL DEF Spec

-----------------------------------------------------------------------------
(* The form as a caller of the helper that all screens share.              *)

Helper == INSTANCE NetworkUtilProofs

\* Whatever the form and the other screens do is to the helper a call made, the return
\* of one that is in flight, or nothing.
LEMMA HelperStep == [Next]_vars => [Net!Next]_(Net!vars)
<1> SUFFICES ASSUME [Next]_vars PROVE [Net!Next]_(Net!vars)
  OBVIOUS
<1>1. ASSUME NEW c \in Calls,
             Net!Get(c, NoBase) \/ Net!Post(c, NoBase) \/ Net!Answer(c) \/ Net!Fail(c)
      PROVE  Net!Next
  BY <1>1 DEF Net!Next, Bases
<1>2. CASE Open
  BY <1>1, <1>2 DEF Open, Calls
<1>3. ASSUME NEW c \in Calls, Back(c) PROVE Net!Next
  BY <1>1, <1>3 DEF Back, Net!Answer, Net!Fail
<1>4. CASE AimagsReturn
  BY <1>3, <1>4 DEF AimagsReturn, Calls
<1>5. ASSUME NEW c \in SoumCalls, SoumsReturn(c) \/ \E a \in Aimags : ChooseAimag(c, a)
      PROVE  Net!Next
  BY <1>1, <1>3, <1>5 DEF SoumsReturn, ChooseAimag, Calls
<1>6. ASSUME NEW c \in Submits, Submit(c) PROVE Net!Next
  BY <1>1, <1>6 DEF Submit, Calls
<1>7. CASE Elsewhere
  BY <1>1, <1>7 DEF Elsewhere, Calls
<1>8. ASSUME UNCHANGED netVars PROVE UNCHANGED Net!vars
  BY <1>8 DEF netVars, Net!vars, Net!sharedVars, Net!callVars
<1> QED BY <1>2, <1>4, <1>5, <1>6, <1>7, <1>8 DEF Next, Build, OpenMenu, CloseMenu, vars

\* The form and its neighbours use the helper as NetworkUtil says: what is proved of
\* the helper holds wherever the form is open.
THEOREM FormUsesHelper == Spec => Net!Spec
<1>1. Init => Net!Init BY DEF Init
<1> QED BY <1>1, HelperStep, PTL DEF Spec, Net!Spec

\* The instance that the theorems of NetworkUtil are about is the helper of the screen.
LEMMA SameHelper == Net!Spec => Helper!Spec
<1>1. Net!Init => Helper!Init
  BY DEF Net!Init, Helper!Init
<1>2. [Net!Next]_(Net!vars) => [Helper!Next]_(Helper!vars)
  BY DEF Net!Next, Net!Get, Net!Post, Net!Begin, Net!Answer, Net!Fail, Net!Return, Net!GetAnswered,
         Net!GetFailed, Net!PostAnswered, Net!PostNot200, Net!PostBadBody, Net!PostFailed,
         Net!vars, Net!sharedVars, Net!callVars,
         Helper!Next, Helper!Get, Helper!Post, Helper!Begin, Helper!Answer, Helper!Fail,
         Helper!Return, Helper!GetAnswered, Helper!GetFailed, Helper!PostAnswered,
         Helper!PostNot200, Helper!PostBadBody, Helper!PostFailed,
         Helper!vars, Helper!sharedVars, Helper!callVars
<1> QED BY <1>1, <1>2, PTL DEF Net!Spec, Helper!Spec

\* So the form may rely on HttpContract: an answered choice gets its own soums, one
\* that fails at most an answer that some server gave before, and a registration no
\* answer to a get.
THEOREM FormKeepsContract == Spec => Net!ContractSpec
<1>1. Helper!Sentinels
  BY HelperConstants
<1>2. Helper!Spec => Helper!ContractSpec
  BY <1>1, Helper!Refinement
<1>3. Helper!ContractSpec => Net!ContractSpec
  <2>1. Helper!Contract!Init => Net!Contract!Init
    BY DEF Helper!Contract!Init, Net!Contract!Init, Helper!Arrived, Net!Arrived,
           Helper!Accepted, Net!Accepted
  <2>2. [Helper!Contract!Next]_(Helper!Contract!vars) => [Net!Contract!Next]_(Net!Contract!vars)
    BY DEF Helper!Contract!Next, Helper!Contract!Ask, Helper!Contract!EndGet,
           Helper!Contract!EndPost, Helper!Contract!Fallback, Helper!Contract!vars,
           Net!Contract!Next, Net!Contract!Ask, Net!Contract!EndGet,
           Net!Contract!EndPost, Net!Contract!Fallback, Net!Contract!vars,
           Helper!Arrived, Net!Arrived, Helper!Accepted, Net!Accepted
  <2> QED BY <2>1, <2>2, PTL DEF Helper!ContractSpec, Net!ContractSpec,
             Helper!Contract!Spec, Net!Contract!Spec
<1> QED BY <1>2, <1>3, FormUsesHelper, SameHelper

\* The form posts nothing but registrations, and what a registration that returned
\* shows its user is the answer to a registration or the error, never the aimags or
\* soums that the form's gets left in the field which gets and posts share.
OutcomeIsOfARegistration ==
  \A c \in Calls : method[c] = "post" =>
    c \in Submits /\ result[c] \in {Pending, Thrown, ErrorModel} \cup Submits

OnlySubmitsPost == \A c \in Calls : method[c] = "post" => c \in Submits

\* No step but Submit makes a call a post.
LEMMA OnlySubmitsPostNext == Net!TypeOK /\ OnlySubmitsPost /\ [Next]_vars => OnlySubmitsPost'
<1> SUFFICES ASSUME Net!TypeOK, OnlySubmitsPost, [Next]_vars PROVE OnlySubmitsPost'
  OBVIOUS
<1>1. ASSUME NEW c \in Calls, Net!Get(c, NoBase) PROVE OnlySubmitsPost'
  BY <1>1 DEF Net!Get, Net!Begin, Net!TypeOK, OnlySubmitsPost
<1>2. ASSUME NEW c \in Submits, Net!Post(c, NoBase) PROVE OnlySubmitsPost'
  BY <1>2 DEF Net!Post, Net!Begin, Net!TypeOK, OnlySubmitsPost
<1>3. ASSUME UNCHANGED method PROVE OnlySubmitsPost'
  BY <1>3 DEF OnlySubmitsPost
<1>4. ASSUME NEW c \in Calls, Back(c) \/ Net!Answer(c) \/ Net!Fail(c) PROVE UNCHANGED method
  BY <1>4 DEF Back, Net!Answer, Net!Fail, Net!Return, Net!callVars, Net!GetAnswered,
              Net!GetFailed, Net!PostAnswered, Net!PostNot200, Net!PostBadBody, Net!PostFailed
<1>5. CASE Open \/ AimagsReturn
  BY <1>1, <1>3, <1>4, <1>5 DEF Open, AimagsReturn, Calls
<1>6. ASSUME NEW c \in SoumCalls, SoumsReturn(c) \/ \E a \in Aimags : ChooseAimag(c, a)
      PROVE  OnlySubmitsPost'
  BY <1>1, <1>3, <1>4, <1>6 DEF SoumsReturn, ChooseAimag, Calls
<1>7. ASSUME NEW c \in Submits, Submit(c) PROVE OnlySubmitsPost'
  BY <1>2, <1>7 DEF Submit
<1>8. CASE Elsewhere
  BY <1>1, <1>3, <1>4, <1>8 DEF Elsewhere, Calls
<1>9. CASE Build \/ OpenMenu \/ CloseMenu \/ UNCHANGED vars
  BY <1>3, <1>9 DEF Build, OpenMenu, CloseMenu, vars, netVars
<1> QED BY <1>5, <1>6, <1>7, <1>8, <1>9 DEF Next

\* The outcome of a registration is that of a registration, for any number of gets in
\* flight beside it: PostsSeeOnlyPosts of the helper, read at the form.
THEOREM RegistrationSeesNoGet == Spec => []OutcomeIsOfARegistration
<1>1. Init => Net!TypeOK /\ OnlySubmitsPost
  BY DEF Init, Net!Init, Net!TypeOK, Net!Fates, Net!Methods, OnlySubmitsPost
<1>2. Helper!Spec => []Helper!PostsSeeOnlyPosts
  BY HelperConstants, Helper!PostsSafe
<1>3. ASSUME OnlySubmitsPost, Helper!PostsSeeOnlyPosts PROVE OutcomeIsOfARegistration
  BY <1>3 DEF OnlySubmitsPost, Helper!PostsSeeOnlyPosts, Helper!Accepted, OutcomeIsOfARegistration
<1> QED BY <1>1, <1>2, <1>3, OnlySubmitsPostNext, HelperTypedNext, FormUsesHelper, SameHelper,
           PTL DEF Spec
=============================================================================
