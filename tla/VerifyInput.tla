---------------------------- MODULE VerifyInput -----------------------------
(***************************************************************************)
(* lambda/lib/plugins/verify_input/verify_input.dart: a row of text fields *)
(* of at most two characters.  A box but the first starts with a blank, so *)
(* that deleting in it can be noticed; only the box _currentIdex is        *)
(* enabled, and every edit of it moves the focus on or back.  Boxes count  *)
(* from 1 here.  One key changes one character.                            *)
(***************************************************************************)
EXTENDS SequencesExt, Naturals

CONSTANTS Digits,
          Blank,   \* the space
          Length   \* widget.length

ASSUME VerifyConstants == Blank \notin Digits /\ Length \in Nat \ {0}

VARIABLES texts,      \* the texts of the controllers
          code,       \* _code
          current,    \* _currentIdex
          completed,  \* what onCompleted was called with last
          inFront     \* history: an edit was not at the end of its box

vars == <<texts, code, current, completed, inFront>>

Boxes == 1..Length

Init ==
  /\ texts = [i \in Boxes |-> <<>>]
  /\ code = [i \in Boxes |-> Blank]
  /\ current = 1 /\ completed = <<>> /\ inFront = FALSE

\* What a box holds but blanks; it has room for two characters.
Held(text) ==
  LET kept(at) == IF at > Len(text) \/ text[at] = Blank THEN <<>> ELSE <<text[at]>>
  IN  kept(1) \o kept(2)

\* All that the boxes hold but blanks.
GetInputVerify(boxes) ==
  LET verifycode[i \in 0..Length] ==
        IF i = 0 THEN <<>> ELSE verifycode[i - 1] \o Held(boxes[i])
  IN  verifycode[Length]

\* Mutant: the remembered digit is not compared with the new characters.
MutNewDigit(old, value) == value[1]

\* Which of two characters is the new one.
NewDigit(old, value) ==
  IF value[1] = Blank THEN value[2]
  ELSE IF value[1] # old THEN value[1]
  ELSE IF value[2] # old THEN value[2] ELSE old

\* The box before one that was emptied.
Erased(value) == <<Blank>>

\* The box that gets the focus next is never empty.
Prepared(text) == IF text = <<>> THEN <<Blank>> ELSE text

\* Mutant: after the last box the first is enabled again.
MutCompleteFirst(value) ==
  /\ current = Length
  /\ Len(value) > 1 \/ (current = 1 /\ value # <<>>)
  /\ texts' = [texts EXCEPT ![current] = value]
  /\ completed' = GetInputVerify(texts')
  /\ current' = 1 /\ UNCHANGED code

\* Mutant: the code is put together before the last box has its text.
MutCompleteBefore(value) ==
  /\ current = Length
  /\ Len(value) > 1 \/ (current = 1 /\ value # <<>>)
  /\ texts' = [texts EXCEPT ![current] = value]
  /\ completed' = GetInputVerify(texts)
  /\ UNCHANGED <<code, current>>

\* onChanged of the last box, with a value to hand over: two characters, or any
\* character if it is the first box as well.
Complete(value) ==
  /\ current = Length
  /\ Len(value) > 1 \/ (current = 1 /\ value # <<>>)
  /\ texts' = [texts EXCEPT ![current] = value]
  /\ completed' = GetInputVerify(texts')
  /\ UNCHANGED <<code, current>>

\* Mutant: the last box advances as well.
MutAdvanceLast(value) ==
  /\ Len(value) > 1 \/ (current = 1 /\ value # <<>>)
  /\ texts' = [texts EXCEPT ![current] = value] /\ current' = current + 1
  /\ UNCHANGED <<code, completed>>

\* onChanged of another box: two characters are reduced to the new one.
Advance(value) ==
  /\ current < Length
  /\ Len(value) > 1 \/ (current = 1 /\ value # <<>>)
  /\ LET digit == IF Len(value) = 2 THEN NewDigit(code[current], value) ELSE code[current]
         text == IF Len(value) = 2 THEN <<digit>> ELSE value
     IN  /\ code' = [code EXCEPT ![current] = digit]
         /\ texts' = [texts EXCEPT ![current] = text, ![current + 1] = Prepared(@)]
  /\ current' = current + 1
  /\ UNCHANGED completed

\* onChanged of a box that is empty now: the focus moves back, and the digit there
\* goes.  In the first box the index before it is out of range.
Retreat(value) ==
  /\ value = <<>>
  /\ IF current = 1
     THEN /\ texts' = [texts EXCEPT ![1] = value]
          /\ UNCHANGED current
     ELSE /\ texts' = [texts EXCEPT ![current] = value, ![current - 1] = Erased(@)]
          /\ current' = current - 1
  /\ UNCHANGED <<code, completed>>

\* onChanged does nothing with a single character.
Keep(value) ==
  /\ Len(value) = 1 /\ current > 1
  /\ texts' = [texts EXCEPT ![current] = value]
  /\ UNCHANGED <<code, current, completed>>

OnChanged(value) == Complete(value) \/ Advance(value) \/ Retreat(value) \/ Keep(value)

Type(d) ==
  LET text == texts[current]
  IN  /\ Len(text) < 2
      /\ \E at \in 1..Len(text) + 1 :
           /\ OnChanged(InsertAt(text, at, d))
           /\ inFront' = (inFront \/ at <= Len(text))

Delete ==
  LET text == texts[current]
  IN  /\ text # <<>>
      /\ \E at \in 1..Len(text) :
           /\ OnChanged(RemoveAt(text, at))
           /\ inFront' = (inFront \/ at < Len(text))

Next == Delete \/ \E d \in Digits : Type(d)

Spec == Init /\ [][Next]_vars

-----------------------------------------------------------------------------
Chars == Digits \cup {Blank}
Shown == GetInputVerify(texts)

\* The type of the state.
TypeOK ==
  /\ DOMAIN texts = Boxes /\ \A i \in Boxes : texts[i] \in BoundedSeq(Chars, 2)
  /\ code \in [Boxes -> Chars] /\ current \in Boxes
  /\ completed \in Seq(Digits) /\ inFront \in BOOLEAN

\* Until an edit is in front of a character, and the keyboard edits at the end of a
\* box, two boxes or more implement CodeEntry: what deleting, coming back and typing
\* the same or another digit again leave in _code never shows.  (A single box does
\* not: the first digit is handed over, and then a second with it.)
Entry == INSTANCE CodeEntry WITH entered <- Shown
EntrySpec == Entry!Init /\ [][Entry!Next \/ inFront']_Entry!vars

\* No digit is left behind to the right of the box that is enabled, where it would
\* be handed over with the others and could not be reached.
NothingBehind == \A i \in Boxes : i > current => Range(texts[i]) \cap Digits = {}

\* A code handed over by two boxes or more may be too short or too long only by an
\* edit in front of a character; no code is longer than the row by more than a digit,
\* a single box's, which takes two characters, included.
CompleteLength ==
  completed # <<>> => /\ Len(completed) <= Length + 1
                      /\ ~inFront /\ Length > 1 => Len(completed) = Length
=============================================================================
