---------------------------- MODULE PluginProofs ----------------------------
(***************************************************************************)
(* Theorems about the two stateful plugins of lambda/lib/plugins.  The row *)
(* of boxes VerifyInput, for every length and set of digits: its type, no  *)
(* digit left behind and the length of a code, with edits anywhere in a    *)
(* box, and that two boxes or more implement CodeEntry as long as the      *)
(* edits are at the end of a box.  The Carousel, for every number of       *)
(* images: its type, and that the timer turns from one image to the next.  *)
(*                                                                         *)
(* What GetInputVerify computes needs an induction over the boxes; it is   *)
(* made from the least number that is not in a set, Reaching.              *)
(***************************************************************************)
EXTENDS VerifyInput, Carousel, TLAPS, SequenceTheorems, WellFoundedInduction

-----------------------------------------------------------------------------
(* No digit is left behind.                                                *)

\* The boxes are there, and those to the right of the enabled one hold no digit.
Behind == DOMAIN texts = Boxes /\ texts = [i \in Boxes |-> texts[i]] /\ current \in Boxes /\ NothingBehind

\* A box that was emptied holds no digit.
LEMMA EmptyBox == Range(<<>>) \cap Digits = {}
  BY DEF Range

\* Whatever the edit hands over, onChanged leaves no digit behind.
LEMMA ChangeKeeps ==
  ASSUME Behind, NEW value, OnChanged(value)
  PROVE  Behind'
<1> USE VerifyConstants DEF Behind, NothingBehind, Boxes
<1>1. CASE Complete(value) \/ Keep(value)
  BY <1>1 DEF Complete, Keep
<1>2. CASE Advance(value)
  <2>1. /\ current' = current + 1 /\ DOMAIN texts' = Boxes /\ texts' = [i \in Boxes |-> texts'[i]]
        /\ \A i \in Boxes : i > current + 1 => texts'[i] = texts[i]
    <3>1. PICK text : texts' = [texts EXCEPT ![current] = text, ![current + 1] = Prepared(@)]
      BY <1>2 DEF Advance
    <3>2. DOMAIN texts' = Boxes /\ texts' = [i \in Boxes |-> texts'[i]]
      BY <3>1
    <3>3. \A i \in Boxes : i > current + 1 => texts'[i] = texts[i]
      BY <3>1
    <3>4. current' = current + 1
      BY <1>2 DEF Advance
    <3> QED BY <3>2, <3>3, <3>4
  <2>2. current' \in Boxes
    BY <1>2, <2>1 DEF Advance
  <2> QED BY <2>1, <2>2
<1>3. CASE Retreat(value)
  <2>1. CASE current = 1
    BY <1>3, <2>1 DEF Retreat
  <2>2. CASE current # 1
    <3>1. /\ current' = current - 1 /\ DOMAIN texts' = Boxes /\ texts' = [i \in Boxes |-> texts'[i]]
          /\ \A i \in Boxes : i > current => texts'[i] = texts[i]
          /\ texts'[current] = <<>>
      BY <1>3, <2>2 DEF Retreat
    <3>2. current' \in Boxes
      BY <2>2, <3>1
    <3>3. ASSUME NEW i \in Boxes, i > current' PROVE Range(texts'[i]) \cap Digits = {}
      <4>1. i = current \/ i > current
        BY <3>1, <3>3
      <4> QED BY <3>1, <4>1, EmptyBox
    <3> QED BY <3>1, <3>2, <3>3
  <2> QED BY <2>1, <2>2
<1> QED BY <1>1, <1>2, <1>3 DEF OnChanged

\* No digit is left to the right of the enabled box, where it would be handed over
\* with the code and could not be reached, wherever in a box the user edits.
THEOREM NothingLeftBehind == Spec => []NothingBehind
<1>1. Init => Behind
  BY VerifyConstants, EmptyBox DEF Init, Behind, NothingBehind, Boxes
<1>2. Behind /\ [Next]_vars => Behind'
  <2>1. ASSUME Behind, UNCHANGED vars PROVE Behind'
    BY <2>1 DEF Behind, NothingBehind, vars
  <2>2. ASSUME Behind, Next PROVE Behind'
    BY <2>2, ChangeKeeps DEF Next, Type, Delete
  <2> QED BY <2>1, <2>2
<1>3. Behind => NothingBehind
  BY DEF Behind
<1> QED BY <1>1, <1>2, <1>3, PTL DEF Spec

-----------------------------------------------------------------------------
(* Induction, and short sequences.                                         *)

\* A set of numbers that has 0 and with each number the next has them all.
LEMMA Reaching ==
  ASSUME NEW Good, 0 \in Good, \A n \in Nat : n \in Good => n + 1 \in Good
  PROVE  Nat \subseteq Good
<1>1. SUFFICES ASSUME Nat \ Good # {} PROVE FALSE
  OBVIOUS
<1>2. PICK x \in Nat \ Good : \A y \in Nat \ Good : ~ (<<y, x>> \in OpToRel(<, Nat))
  <2>1. IsWellFoundedOn(OpToRel(<, Nat), Nat)
    BY NatLessThanWellFounded
  <2> QED BY <1>1, <2>1, WFMin
<1>3. x # 0 /\ x - 1 \in Nat /\ x - 1 < x
  OBVIOUS
<1>4. x - 1 \in Good
  BY <1>2, <1>3 DEF OpToRel
<1>5. x - 1 + 1 = x
  OBVIOUS
<1> QED BY <1>3, <1>4, <1>5

\* Short sequences put together.
LEMMA Concats ==
  /\ \A a : <<>> \o <<a>> = <<a>> /\ <<a>> \o <<>> = <<a>>
  /\ \A a, b : <<a>> \o <<b>> = <<a, b>>
<1>1. ASSUME NEW a, NEW b PROVE <<a>> \o <<b>> = <<a, b>>
  <2>1. <<a>> \in Seq({a, b}) /\ <<b>> \in Seq({a, b}) /\ Len(<<a>>) = 1 /\ Len(<<b>>) = 1
    OBVIOUS
  <2>2. /\ <<a>> \o <<b>> \in Seq({a, b}) /\ Len(<<a>> \o <<b>>) = 2
        /\ (<<a>> \o <<b>>)[1] = a /\ (<<a>> \o <<b>>)[2] = b
    BY <2>1, ConcatProperties
  <2>3. <<a, b>> \in Seq({a, b}) /\ Len(<<a, b>>) = 2 /\ <<a, b>>[1] = a /\ <<a, b>>[2] = b
    OBVIOUS
  <2>4. \A i \in 1..2 : (<<a>> \o <<b>>)[i] = <<a, b>>[i]
    BY <2>2, <2>3
  <2> QED BY <2>2, <2>3, <2>4, SeqEqual
<1>2. \A a : <<>> \o <<a>> = <<a>> /\ <<a>> \o <<>> = <<a>>
  OBVIOUS
<1> QED BY <1>1, <1>2

\* The parts of short sequences.
LEMMA Parts ==
  /\ \A a : SubSeq(<<a>>, 1, 1) = <<a>>
  /\ \A a, b : SubSeq(<<a, b>>, 1, 1) = <<a>> /\ SubSeq(<<a, b>>, 2, 2) = <<b>>
<1>1. ASSUME NEW s, NEW m \in Int, NEW n \in Int, m = n PROVE SubSeq(s, m, n) = <<s[m]>>
  <2>1. \A j \in m..n : s[j] \in {s[m]}
    BY <1>1
  <2>2. /\ SubSeq(s, m, n) \in Seq({s[m]})
        /\ Len(SubSeq(s, m, n)) = IF m <= n THEN n - m + 1 ELSE 0
        /\ \A j \in 1..n - m + 1 : SubSeq(s, m, n)[j] = s[m + j - 1]
    BY <2>1, SubSeqProperties
  <2>3. Len(SubSeq(s, m, n)) = 1 /\ SubSeq(s, m, n)[1] = s[m]
    <3>1. m <= n /\ n - m + 1 = 1 /\ m + 1 - 1 = m /\ 1 \in 1..n - m + 1
      BY <1>1
    <3> QED BY <2>2, <3>1
  <2>4. <<s[m]>> \in Seq({s[m]}) /\ Len(<<s[m]>>) = 1 /\ <<s[m]>>[1] = s[m]
    OBVIOUS
  <2>5. \A j \in 1..1 : SubSeq(s, m, n)[j] = <<s[m]>>[j]
    BY <2>3, <2>4
  <2> QED BY <2>2, <2>3, <2>4, <2>5, SeqEqual
<1>2. ASSUME NEW a PROVE SubSeq(<<a>>, 1, 1) = <<a>>
  BY <1>1
<1>3. ASSUME NEW a, NEW b PROVE SubSeq(<<a, b>>, 1, 1) = <<a>> /\ SubSeq(<<a, b>>, 2, 2) = <<b>>
  BY <1>1
<1> QED BY <1>2, <1>3

\* f[i] is the code of the first i boxes, for each i up to n.
Codes(f, n, boxes) == f = [i \in 0..n |-> IF i = 0 THEN <<>> ELSE f[i - 1] \o Held(boxes[i])]

\* GetInputVerify reads box after box: the recursive function is there.
LEMMA CodeReads ==
  ASSUME NEW boxes
  PROVE  \E f : /\ f[0] = <<>> /\ \A n \in Nat : n + 1 <= Length => f[n + 1] = f[n] \o Held(boxes[n + 1])
               /\ GetInputVerify(boxes) = f[Length]
<1> DEFINE Good == {n \in Nat : \E f : Codes(f, n, boxes)}
<1>1. 0 \in Good
  <2>1. Codes([i \in 0..0 |-> <<>>], 0, boxes)
    BY DEF Codes
  <2> QED BY <2>1
<1>2. ASSUME NEW n \in Nat, n \in Good PROVE n + 1 \in Good
  <2>1. PICK f : Codes(f, n, boxes)
    BY <1>2
  <2> DEFINE g == [i \in 0..n + 1 |-> IF i = n + 1 THEN f[n] \o Held(boxes[n + 1]) ELSE f[i]]
  <2>2. ASSUME NEW i \in 0..n + 1
        PROVE  g[i] = IF i = 0 THEN <<>> ELSE g[i - 1] \o Held(boxes[i])
    <3>1. CASE i = n + 1
      <4>1. i # 0 /\ i - 1 = n /\ n \in 0..n + 1 /\ n # n + 1 /\ g[n] = f[n]
        BY <3>1
      <4>2. g[i] = f[n] \o Held(boxes[i])
        BY <3>1
      <4> QED BY <4>1, <4>2
    <3>2. CASE i # n + 1
      <4>1. i \in 0..n /\ (i # 0 => i - 1 \in 0..n)
        BY <3>2
      <4>2. f[i] = IF i = 0 THEN <<>> ELSE f[i - 1] \o Held(boxes[i])
        BY <2>1, <4>1 DEF Codes
      <4> QED BY <3>2, <4>1, <4>2
    <3> QED BY <3>1, <3>2
  <2>3. Codes(g, n + 1, boxes)
    BY <2>2 DEF Codes
  <2> HIDE DEF g
  <2> QED BY <2>3
<1>3. PICK f : Codes(f, Length, boxes)
  <2> HIDE DEF Good
  <2>1. Length \in Good
    BY <1>1, <1>2, Reaching, VerifyConstants
  <2> QED BY <2>1 DEF Good
<1> DEFINE v == CHOOSE h : h = [i \in 0..Length |-> IF i = 0 THEN <<>> ELSE h[i - 1] \o Held(boxes[i])]
<1>4. Codes(v, Length, boxes)
  BY <1>3 DEF Codes
<1>5. GetInputVerify(boxes) = v[Length]
  BY DEF GetInputVerify
<1> HIDE DEF v
<1>6. v[0] = <<>>
  <2>1. 0 \in 0..Length
    BY VerifyConstants
  <2> QED BY <1>4, <2>1 DEF Codes
<1>7. ASSUME NEW n \in Nat, n + 1 <= Length PROVE v[n + 1] = v[n] \o Held(boxes[n + 1])
  <2> DEFINE m == n + 1
  <2>1. m \in 0..Length /\ m # 0 /\ m - 1 = n
    BY <1>7, VerifyConstants
  <2> HIDE DEF m
  <2>2. v[m] = v[m - 1] \o Held(boxes[m])
    BY <1>4, <2>1 DEF Codes
  <2> QED BY <2>1, <2>2 DEF m
<1>8. /\ v[0] = <<>> /\ \A n \in Nat : n + 1 <= Length => v[n + 1] = v[n] \o Held(boxes[n + 1])
      /\ GetInputVerify(boxes) = v[Length]
  BY <1>5, <1>6, <1>7
<1> QED BY <1>8

\* Each of the first k boxes holds one digit, and the others none.
LEMMA CodeOfDigits ==
  ASSUME NEW boxes, NEW k \in 0..Length, NEW digit \in [1..k -> Digits],
         \A i \in 1..k : Held(boxes[i]) = <<digit[i]>>,
         \A i \in k + 1..Length : Held(boxes[i]) = <<>>
  PROVE  GetInputVerify(boxes) = digit
<1>1. PICK f : /\ f[0] = <<>>
               /\ \A n \in Nat : n + 1 <= Length => f[n + 1] = f[n] \o Held(boxes[n + 1])
               /\ GetInputVerify(boxes) = f[Length]
  BY CodeReads
<1>2. Length \in Nat
  BY VerifyConstants
<1> DEFINE Upto(n) == [i \in 1..n |-> digit[i]]
           Good == {n \in Nat : n <= Length => f[n] = IF n <= k THEN Upto(n) ELSE digit}
<1>3. digit = Upto(k) /\ digit \in Seq(Digits)
  BY DEF Upto
<1>4. 0 \in Good
  BY <1>1, <1>2
<1>5. ASSUME NEW n \in Nat, n \in Good PROVE n + 1 \in Good
  <2>1. CASE n + 1 <= Length /\ n < k
    <3>1. f[n + 1] = Upto(n) \o <<digit[n + 1]>>
      <4>1. f[n] = Upto(n) /\ Held(boxes[n + 1]) = <<digit[n + 1]>>
        BY <1>2, <1>5, <2>1
      <4> QED BY <1>1, <2>1, <4>1
    <3>2. Upto(n) \in Seq(Digits) /\ digit[n + 1] \in Digits /\ Len(Upto(n)) = n
      BY <2>1
    <3>3. Append(Upto(n), digit[n + 1]) = Upto(n + 1)
      BY <3>2, <2>1
    <3>4. Upto(n) \o <<digit[n + 1]>> = Append(Upto(n), digit[n + 1])
      <4> HIDE DEF Upto
      <4> QED BY <3>2, AppendIsConcat
    <3>5. f[n + 1] = Upto(n + 1)
      BY <3>1, <3>3, <3>4
    <3>6. n + 1 <= k
      BY <2>1
    <3> HIDE DEF Upto
    <3> QED BY <3>5, <3>6
  <2>2. CASE n + 1 <= Length /\ n >= k
    <3>1. f[n] = digit
      <4>1. n <= Length /\ (n <= k => n = k)
        BY <1>2, <2>2
      <4> QED BY <1>3, <1>5, <4>1
    <3>2. f[n + 1] = digit \o <<>>
      <4>1. n + 1 \in k + 1..Length
        BY <1>2, <2>2
      <4> QED BY <1>1, <2>2, <3>1, <4>1
    <3>3. digit \o <<>> = digit
      BY <1>3, ConcatEmptySeq
    <3> QED BY <2>2, <3>2, <3>3
  <2>3. CASE ~(n + 1 <= Length)
    BY <2>3
  <2> QED BY <1>2, <2>1, <2>2, <2>3
<1>6. Length \in Good
  <2>1. \A n \in Nat : n \in Good => n + 1 \in Good
    BY <1>5
  <2> HIDE DEF Good
  <2>2. Nat \subseteq Good
    BY <1>4, <2>1, Reaching
  <2> QED BY <1>2, <2>2
<1>7. f[Length] = digit
  <2>1. f[Length] = IF Length <= k THEN Upto(Length) ELSE digit
    BY <1>2, <1>6
  <2> HIDE DEF Upto
  <2>2. Length <= k => Length = k
    BY <1>2
  <2> QED BY <1>3, <2>1, <2>2
<1> QED BY <1>1, <1>7

\* Boxes that hold one digit at most, the last one two, hold a code of bounded length.
LEMMA CodeIsShort ==
  ASSUME NEW boxes,
         \A i \in Boxes : Held(boxes[i]) \in Seq(Digits) /\ Len(Held(boxes[i])) <= IF i = Length THEN 2 ELSE 1
  PROVE  GetInputVerify(boxes) \in Seq(Digits) /\ Len(GetInputVerify(boxes)) <= Length + 1
<1>1. PICK f : /\ f[0] = <<>>
               /\ \A n \in Nat : n + 1 <= Length => f[n + 1] = f[n] \o Held(boxes[n + 1])
               /\ GetInputVerify(boxes) = f[Length]
  BY CodeReads
<1>2. Length \in Nat
  BY VerifyConstants
<1> DEFINE Good == {n \in Nat : n <= Length => /\ f[n] \in Seq(Digits)
                                               /\ Len(f[n]) <= IF n = Length THEN n + 1 ELSE n}
<1>3. 0 \in Good
  <2>1. <<>> \in Seq(Digits) /\ Len(<<>>) = 0
    OBVIOUS
  <2>2. f[0] = <<>>
    BY <1>1
  <2>3. f[0] \in Seq(Digits) /\ Len(f[0]) <= IF 0 = Length THEN 0 + 1 ELSE 0
    BY <2>1, <2>2
  <2> QED BY <2>3
<1>4. ASSUME NEW n \in Nat, n \in Good PROVE n + 1 \in Good
  <2>1. SUFFICES ASSUME n + 1 <= Length
                 PROVE  f[n + 1] \in Seq(Digits) /\ Len(f[n + 1]) <= IF n + 1 = Length THEN n + 2 ELSE n + 1
    OBVIOUS
  <2>2. f[n] \in Seq(Digits) /\ Len(f[n]) <= n
    BY <1>2, <1>4, <2>1
  <2>3. Held(boxes[n + 1]) \in Seq(Digits) /\ Len(Held(boxes[n + 1])) <= IF n + 1 = Length THEN 2 ELSE 1
    <3>1. n + 1 \in Boxes
      BY <1>2, <2>1 DEF Boxes
    <3> QED BY <3>1
  <2>4. f[n + 1] = f[n] \o Held(boxes[n + 1])
    BY <1>1, <2>1
  <2>5. f[n + 1] \in Seq(Digits) /\ Len(f[n + 1]) = Len(f[n]) + Len(Held(boxes[n + 1]))
    BY <2>2, <2>3, <2>4, ConcatProperties
  <2>6. Len(f[n]) \in Nat /\ Len(Held(boxes[n + 1])) \in Nat
    BY <2>2, <2>3, LenProperties
  <2>7. Len(f[n + 1]) <= n + Len(Held(boxes[n + 1]))
    BY <2>2, <2>5, <2>6
  <2>8. Len(Held(boxes[n + 1])) <= IF n + 1 = Length THEN 2 ELSE 1
    BY <2>3
  <2>9. Len(f[n + 1]) <= IF n + 1 = Length THEN n + 2 ELSE n + 1
    <3>1. Len(f[n + 1]) \in Nat
      BY <2>5, LenProperties
    <3> HIDE DEF Good
    <3>2. CASE n + 1 = Length
      BY <2>6, <2>7, <2>8, <3>1, <3>2
    <3>3. CASE n + 1 # Length
      BY <2>6, <2>7, <2>8, <3>1, <3>3
    <3> QED BY <3>2, <3>3
  <2> QED BY <2>5, <2>9
<1>5. Length \in Good
  <2>1. \A n \in Nat : n \in Good => n + 1 \in Good
    BY <1>4
  <2> HIDE DEF Good
  <2>2. Nat \subseteq Good
    BY <1>3, <2>1, Reaching
  <2> QED BY <1>2, <2>2
<1> QED BY <1>1, <1>2, <1>5

-----------------------------------------------------------------------------
(* The texts of a box.                                                     *)

Text == BoundedSeq(Chars, 2)

\* A text has no character, one or two.
LEMMA TextForms ==
  /\ <<>> \in Text
  /\ \A a \in Chars : <<a>> \in Text
  /\ \A a, b \in Chars : <<a, b>> \in Text
  /\ \A text \in Text : \/ text = <<>>
                        \/ \E a \in Chars : text = <<a>>
                        \/ \E a, b \in Chars : text = <<a, b>>
<1>1. Text = UNION {[1..m -> Chars] : m \in 0..2}
  BY DEF Text, BoundedSeq, SeqOf
<1>2. ASSUME NEW text \in Text
      PROVE  \/ text = <<>>
             \/ \E a \in Chars : text = <<a>>
             \/ \E a, b \in Chars : text = <<a, b>>
  <2>1. PICK m \in 0..2 : text \in [1..m -> Chars]
    BY <1>1
  <2>2. CASE m = 0
    BY <2>1, <2>2
  <2>3. CASE m = 1
    <3>1. text = <<text[1]>> /\ text[1] \in Chars
      BY <2>1, <2>3
    <3> QED BY <3>1
  <2>4. CASE m = 2
    <3>1. text = <<text[1], text[2]>> /\ text[1] \in Chars /\ text[2] \in Chars
      BY <2>1, <2>4
    <3> QED BY <3>1
  <2> QED BY <2>2, <2>3, <2>4
<1>3. <<>> \in [1..0 -> Chars]
  OBVIOUS
<1>4. \A a \in Chars : <<a>> \in [1..1 -> Chars]
  OBVIOUS
<1>5. \A a, b \in Chars : <<a, b>> \in [1..2 -> Chars]
  OBVIOUS
<1> QED BY <1>1, <1>2, <1>3, <1>4, <1>5

\* What a box with no character, one or two holds but blanks.
LEMMA HeldForms ==
  /\ Held(<<>>) = <<>>
  /\ \A a \in Chars : Held(<<a>>) = IF a = Blank THEN <<>> ELSE <<a>>
  /\ \A a, b \in Chars : Held(<<a, b>>) = IF a = Blank THEN IF b = Blank THEN <<>> ELSE <<b>>
                                          ELSE IF b = Blank THEN <<a>> ELSE <<a, b>>
<1>1. Held(<<>>) = <<>>
  BY DEF Held
<1>2. ASSUME NEW a \in Chars PROVE Held(<<a>>) = IF a = Blank THEN <<>> ELSE <<a>>
  BY DEF Held
<1>3. ASSUME NEW a \in Chars, NEW b \in Chars
      PROVE  Held(<<a, b>>) = IF a = Blank THEN IF b = Blank THEN <<>> ELSE <<b>>
                              ELSE IF b = Blank THEN <<a>> ELSE <<a, b>>
  <2>1. /\ 2 <= Len(<<a, b>>) /\ Len(<<a, b>>) = 2
        /\ <<a, b>>[1] = a /\ <<a, b>>[2] = b
    OBVIOUS
  <2>2. Held(<<a, b>>) = (IF a = Blank THEN <<>> ELSE <<a>>) \o (IF b = Blank THEN <<>> ELSE <<b>>)
    BY <2>1 DEF Held
  <2>3. CASE a = Blank
    <3>1. Held(<<a, b>>) = <<>> \o (IF b = Blank THEN <<>> ELSE <<b>>)
      BY <2>2, <2>3
    <3> QED BY <2>3, <3>1, Concats
  <2>4. CASE a # Blank
    <3>1. Held(<<a, b>>) = <<a>> \o (IF b = Blank THEN <<>> ELSE <<b>>)
      BY <2>2, <2>4
    <3> QED BY <2>4, <3>1, Concats
  <2> QED BY <2>3, <2>4
<1> QED BY <1>1, <1>2, <1>3

\* A character typed into an empty box, and into one with a character.
LEMMA InsertForms ==
  ASSUME NEW d
  PROVE  /\ InsertAt(<<>>, 1, d) = <<d>>
         /\ \A a : InsertAt(<<a>>, 1, d) = <<d, a>> /\ InsertAt(<<a>>, 2, d) = <<a, d>>
<1>1. InsertAt(<<>>, 1, d) = <<d>>
  <2>1. SubSeq(<<>>, 1, 1 - 1) = <<>> /\ SubSeq(<<>>, 1, Len(<<>>)) = <<>>
    BY Parts
  <2> QED BY <2>1, Concats DEF InsertAt
<1>2. ASSUME NEW a PROVE InsertAt(<<a>>, 1, d) = <<d, a>>
  <2>1. SubSeq(<<a>>, 1, 1 - 1) = <<>> /\ SubSeq(<<a>>, 1, Len(<<a>>)) = <<a>>
    BY Parts
  <2> QED BY <2>1, Concats DEF InsertAt
<1>3. ASSUME NEW a PROVE InsertAt(<<a>>, 2, d) = <<a, d>>
  <2>1. InsertAt(<<a>>, 2, d) = SubSeq(<<a>>, 1, 1) \o <<d>> \o SubSeq(<<a>>, 2, 1)
    BY DEF InsertAt
  <2>2. SubSeq(<<a>>, 1, 1) = <<a>> /\ SubSeq(<<a>>, 2, 1) = <<>>
    BY Parts
  <2>3. <<a, d>> \o <<>> = <<a, d>>
    OBVIOUS
  <2>4. <<a>> \o <<d>> = <<a, d>>
    BY Concats
  <2>5. InsertAt(<<a>>, 2, d) = <<a>> \o <<d>> \o <<>>
    BY <2>1, <2>2
  <2> QED BY <2>3, <2>4, <2>5
<1> QED BY <1>1, <1>2, <1>3

\* A character deleted from a box with one, and from one with two.
LEMMA RemoveForms ==
  /\ \A a : RemoveAt(<<a>>, 1) = <<>>
  /\ \A a, b : RemoveAt(<<a, b>>, 1) = <<b>> /\ RemoveAt(<<a, b>>, 2) = <<a>>
<1>1. ASSUME NEW a PROVE RemoveAt(<<a>>, 1) = <<>>
  <2>1. SubSeq(<<a>>, 1, 1 - 1) = <<>> /\ SubSeq(<<a>>, 1 + 1, Len(<<a>>)) = <<>>
    BY Parts
  <2> QED BY <2>1, Concats DEF RemoveAt
<1>2. ASSUME NEW a, NEW b PROVE RemoveAt(<<a, b>>, 1) = <<b>>
  <2>1. SubSeq(<<a, b>>, 1, 1 - 1) = <<>> /\ SubSeq(<<a, b>>, 1 + 1, Len(<<a, b>>)) = <<b>>
    BY Parts
  <2> QED BY <2>1, Concats DEF RemoveAt
<1>3. ASSUME NEW a, NEW b PROVE RemoveAt(<<a, b>>, 2) = <<a>>
  <2>1. SubSeq(<<a, b>>, 1, 2 - 1) = <<a>> /\ SubSeq(<<a, b>>, 2 + 1, Len(<<a, b>>)) = <<>>
    BY Parts
  <2> QED BY <2>1, Concats DEF RemoveAt
<1> QED BY <1>1, <1>2, <1>3

\* Short sequences: their lengths, elements and types.
LEMMA Tuples ==
  /\ Len(<<>>) = 0
  /\ \A a : Len(<<a>>) = 1 /\ <<a>>[1] = a /\ <<a>> # <<>>
  /\ \A a, b : Len(<<a, b>>) = 2 /\ <<a, b>>[1] = a /\ <<a, b>>[2] = b /\ <<a, b>> # <<>>
  /\ \A S : /\ <<>> \in Seq(S)
            /\ \A a \in S : <<a>> \in Seq(S)
            /\ \A a, b \in S : <<a, b>> \in Seq(S)
<1>1. \A a : Len(<<a>>) = 1 /\ <<a>>[1] = a /\ <<a>> # <<>>
  OBVIOUS
<1>2. \A a, b : Len(<<a, b>>) = 2 /\ <<a, b>>[1] = a /\ <<a, b>>[2] = b /\ <<a, b>> # <<>>
  OBVIOUS
<1>3. Len(<<>>) = 0 /\ \A S : <<>> \in Seq(S)
  OBVIOUS
<1>4. \A S : \A a \in S : <<a>> \in Seq(S)
  OBVIOUS
<1>5. \A S : \A a, b \in S : <<a, b>> \in Seq(S)
  OBVIOUS
<1> QED BY <1>1, <1>2, <1>3, <1>4, <1>5

\* What a box hands over: digits, one at most for each of its characters.
LEMMA HeldTyped ==
  ASSUME NEW text \in Text
  PROVE  /\ Len(text) \in 0..2
         /\ Held(text) \in Seq(Digits) /\ Len(Held(text)) <= Len(text)
<1>1. CASE text = <<>>
  <2>1. Held(text) = <<>>
    BY <1>1, HeldForms
  <2>2. Len(text) = 0 /\ Len(Held(text)) = 0
    BY <1>1, <2>1, Tuples
  <2>3. Held(text) \in Seq(Digits)
    BY <2>1, Tuples
  <2> QED BY <2>2, <2>3
<1>2. CASE \E a \in Chars : text = <<a>>
  <2>1. PICK a \in Chars : text = <<a>>
    BY <1>2
  <2>2. Held(text) = IF a = Blank THEN <<>> ELSE <<a>>
    BY <2>1, HeldForms
  <2>3. Len(text) = 1 /\ (a # Blank => a \in Digits)
    BY <2>1, Tuples DEF Chars
  <2>4. CASE a = Blank
    <3>1. Held(text) = <<>>
      BY <2>2, <2>4
    <3> QED BY <2>3, <3>1, Tuples
  <2>5. CASE a # Blank
    <3>1. Held(text) = <<a>>
      BY <2>2, <2>5
    <3> QED BY <2>3, <2>5, <3>1, Tuples
  <2> QED BY <2>4, <2>5
<1>3. CASE \E a, b \in Chars : text = <<a, b>>
  <2>1. PICK a \in Chars, b \in Chars : text = <<a, b>>
    BY <1>3
  <2>2. Held(text) = IF a = Blank THEN IF b = Blank THEN <<>> ELSE <<b>>
                     ELSE IF b = Blank THEN <<a>> ELSE <<a, b>>
    BY <2>1, HeldForms
  <2>3. Len(text) = 2 /\ (a # Blank => a \in Digits) /\ (b # Blank => b \in Digits)
    BY <2>1, Tuples DEF Chars
  <2>4. CASE Held(text) = <<>>
    BY <2>3, <2>4, Tuples
  <2>5. CASE Held(text) = <<a>> /\ a # Blank
    <3>1. Len(Held(text)) = 1 /\ Held(text) \in Seq(Digits)
      BY <2>3, <2>5, Tuples
    <3> QED BY <2>3, <3>1
  <2>6. CASE Held(text) = <<b>> /\ b # Blank
    <3>1. Len(Held(text)) = 1 /\ Held(text) \in Seq(Digits)
      BY <2>3, <2>6, Tuples
    <3> QED BY <2>3, <3>1
  <2>7. CASE Held(text) = <<a, b>> /\ a # Blank /\ b # Blank
    <3>1. Len(Held(text)) = 2 /\ Held(text) \in Seq(Digits)
      BY <2>3, <2>7, Tuples
    <3> QED BY <2>3, <3>1
  <2> QED BY <2>2, <2>4, <2>5, <2>6, <2>7
<1> QED BY <1>1, <1>2, <1>3, TextForms

\* What typing leaves in a box; at its end the digit comes last.
LEMMA TypedText ==
  ASSUME NEW text \in Text, Len(text) < 2, NEW at \in 1..Len(text) + 1, NEW d \in Digits
  PROVE  /\ InsertAt(text, at, d) \in Text
         /\ at > Len(text) => InsertAt(text, at, d) = IF text = <<>> THEN <<d>> ELSE <<text[1], d>>
<1>1. d \in Chars
  BY DEF Chars
<1>2. CASE text = <<>>
  <2>1. at = 1 /\ InsertAt(text, at, d) = <<d>>
    BY <1>2, InsertForms
  <2> QED BY <1>1, <1>2, <2>1, TextForms
<1>3. CASE text # <<>>
  <2>1. PICK a \in Chars : text = <<a>>
    BY <1>3, TextForms
  <2>2. Len(text) = 1 /\ text[1] = a
    BY <2>1
  <2>3. CASE at = 1
    <3>1. InsertAt(text, at, d) = <<d, a>>
      BY <2>1, <2>3, InsertForms
    <3>2. <<d, a>> \in Text
      BY <1>1, TextForms
    <3> QED BY <2>2, <2>3, <3>1, <3>2
  <2>4. CASE at = 2
    <3>1. InsertAt(text, at, d) = <<a, d>>
      BY <2>1, <2>4, InsertForms
    <3>2. <<a, d>> \in Text
      BY <1>1, TextForms
    <3> QED BY <1>3, <2>2, <3>1, <3>2
  <2> QED BY <2>2, <2>3, <2>4
<1> QED BY <1>2, <1>3

\* What deleting leaves in a box; at its end the last character goes.
LEMMA DeletedText ==
  ASSUME NEW text \in Text, text # <<>>, NEW at \in 1..Len(text)
  PROVE  /\ RemoveAt(text, at) \in Text
         /\ at = Len(text) => RemoveAt(text, at) = IF Len(text) = 1 THEN <<>> ELSE <<text[1]>>
<1>1. CASE \E a \in Chars : text = <<a>>
  <2>1. PICK a \in Chars : text = <<a>>
    BY <1>1
  <2>2. at = 1 /\ Len(text) = 1
    BY <2>1
  <2> QED BY <2>1, <2>2, RemoveForms, TextForms
<1>2. CASE \E a, b \in Chars : text = <<a, b>>
  <2>1. PICK a \in Chars, b \in Chars : text = <<a, b>>
    BY <1>2
  <2>2. Len(text) = 2 /\ text[1] = a /\ at \in {1, 2}
    BY <2>1
  <2>3. RemoveAt(text, at) = IF at = 1 THEN <<b>> ELSE <<a>>
    BY <2>1, <2>2, RemoveForms
  <2> QED BY <2>2, <2>3, TextForms
<1> QED BY <1>1, <1>2, TextForms

-----------------------------------------------------------------------------
(* The type of the state, with edits anywhere in a box.                    *)

\* No box but the enabled one has two characters.
Typed ==
  /\ texts \in [Boxes -> Text] /\ code \in [Boxes -> Chars] /\ current \in Boxes
  /\ completed \in Seq(Digits) /\ inFront \in BOOLEAN
  /\ \A i \in Boxes \ {current} : Len(texts[i]) <= 1

\* A code that is handed over has one digit more than there are boxes at most.
LEMMA CompleteTyped ==
  ASSUME Typed, NEW value \in Text, Complete(value)
  PROVE  /\ Typed' \/ inFront' \notin BOOLEAN
         /\ Len(completed') <= Length + 1
<1>1. texts' \in [Boxes -> Text] /\ \A i \in Boxes \ {current} : texts'[i] = texts[i]
  BY DEF Typed, Complete
<1>2. ASSUME NEW i \in Boxes
      PROVE  Held(texts'[i]) \in Seq(Digits) /\ Len(Held(texts'[i])) <= IF i = Length THEN 2 ELSE 1
  <2>1. texts'[i] \in Text /\ (i # Length => Len(texts'[i]) <= 1)
    BY <1>1 DEF Typed, Complete
  <2> DEFINE has == Len(texts'[i])
             held == Len(Held(texts'[i]))
  <2>2. has \in 0..2 /\ Held(texts'[i]) \in Seq(Digits) /\ held <= has
    BY <2>1, HeldTyped
  <2>3. held \in Nat /\ (i # Length => has <= 1)
    BY <2>1, <2>2, LenProperties
  <2> HIDE DEF has, held
  <2>4. held <= 2 /\ (i # Length => held <= 1)
    BY <2>2, <2>3
  <2>5. held <= IF i = Length THEN 2 ELSE 1
    BY <2>4
  <2> QED BY <2>2, <2>5 DEF held
<1>3. completed' \in Seq(Digits) /\ Len(completed') <= Length + 1
  BY <1>2, CodeIsShort DEF Complete
<1> QED BY <1>1, <1>3 DEF Typed, Complete

\* A box that is left keeps one character, and the next one is prepared.
LEMMA AdvanceTyped ==
  ASSUME Typed, NEW value \in Text, Advance(value), inFront' \in BOOLEAN
  PROVE  Typed'
<1> DEFINE digit == IF Len(value) = 2 THEN NewDigit(code[current], value) ELSE code[current]
           text == IF Len(value) = 2 THEN <<digit>> ELSE value
<1>1. /\ code' = [code EXCEPT ![current] = digit]
      /\ texts' = [texts EXCEPT ![current] = text, ![current + 1] = Prepared(@)]
      /\ current' = current + 1 /\ completed' = completed /\ current < Length /\ value # <<>>
  BY DEF Advance
<1>2. current' \in Boxes /\ current + 1 \in Boxes /\ current # current + 1
  BY <1>1, VerifyConstants DEF Typed, Boxes
<1>3. digit \in Chars
  <2>1. code[current] \in Chars
    BY DEF Typed
  <2>2. CASE Len(value) = 2
    <3>1. PICK a \in Chars, b \in Chars : value = <<a, b>>
      BY <2>2, TextForms
    <3>2. value[1] = a /\ value[2] = b
      BY <3>1
    <3>3. NewDigit(code[current], value) \in Chars
      BY <2>1, <3>2 DEF NewDigit
    <3> QED BY <2>2, <3>3
  <2> QED BY <2>1, <2>2
<1>4. text \in Text /\ Len(text) <= 1
  <2>1. CASE Len(value) = 2
    <3> HIDE DEF digit
    <3>1. text = <<digit>>
      BY <2>1
    <3> HIDE DEF text
    <3> QED BY <1>3, <3>1, Tuples, TextForms
  <2>2. CASE Len(value) # 2
    <3>1. Len(value) \in 0..2
      BY HeldTyped
    <3> QED BY <2>2, <3>1
  <2> QED BY <2>1, <2>2
<1>5. texts[current + 1] \in Text /\ Len(texts[current + 1]) <= 1
  BY <1>2 DEF Typed
<1>6. Prepared(texts[current + 1]) \in Text /\ Len(Prepared(texts[current + 1])) <= 1
  BY <1>5, TextForms DEF Prepared, Chars
<1> HIDE DEF digit, text
<1>7. /\ texts' \in [Boxes -> Text] /\ texts'[current] = text
      /\ texts'[current + 1] = Prepared(texts[current + 1])
      /\ \A i \in Boxes \ {current, current + 1} : texts'[i] = texts[i]
  BY <1>1, <1>2, <1>4, <1>6 DEF Typed
<1>8. \A i \in Boxes \ {current'} : Len(texts'[i]) <= 1
  BY <1>1, <1>4, <1>6, <1>7 DEF Typed
<1> QED BY <1>1, <1>2, <1>3, <1>7, <1>8 DEF Typed

\* A box that was emptied stays so, and the one before it holds a blank.
LEMMA RetreatTyped ==
  ASSUME Typed, NEW value \in Text, Retreat(value), inFront' \in BOOLEAN
  PROVE  Typed'
<1>1. <<>> \in Text /\ <<Blank>> \in Text /\ Len(<<>>) = 0 /\ Len(<<Blank>>) = 1
  BY TextForms DEF Chars
<1>2. CASE current = 1
  BY <1>1, <1>2 DEF Retreat, Typed
<1>3. CASE current # 1
  <2>1. /\ texts' = [texts EXCEPT ![current] = <<>>, ![current - 1] = <<Blank>>]
        /\ current' = current - 1 /\ UNCHANGED <<code, completed>>
    BY <1>3 DEF Retreat, Erased
  <2>2. current' \in Boxes /\ current - 1 \in Boxes /\ current # current - 1
    BY <1>3, <2>1, VerifyConstants DEF Typed, Boxes
  <2>3. /\ texts' \in [Boxes -> Text] /\ texts'[current] = <<>>
        /\ \A i \in Boxes \ {current, current - 1} : texts'[i] = texts[i]
    BY <1>1, <2>1, <2>2 DEF Typed
  <2> QED BY <1>1, <2>1, <2>2, <2>3 DEF Typed
<1> QED BY <1>2, <1>3

\* onChanged keeps the type whatever it does.
LEMMA ChangeTyped ==
  ASSUME Typed, NEW value \in Text, OnChanged(value), inFront' \in BOOLEAN
  PROVE  Typed' /\ (completed' = completed \/ Len(completed') <= Length + 1)
<1>1. CASE Complete(value)
  BY <1>1, CompleteTyped
<1>2. CASE Advance(value)
  BY <1>2, AdvanceTyped DEF Advance
<1>3. CASE Retreat(value)
  BY <1>3, RetreatTyped DEF Retreat
<1>4. CASE Keep(value)
  BY <1>4 DEF Keep, Typed
<1> QED BY <1>1, <1>2, <1>3, <1>4 DEF OnChanged

-----------------------------------------------------------------------------
(* Edits at the end of a box: the boxes hold the digits in order.          *)

\* One digit in each box before the enabled one, none behind it.
Ordered(boxes, cur) ==
  /\ \A i \in 1..cur - 1 : \E d \in Digits : boxes[i] = <<d>>
  /\ \/ boxes[cur] = <<Blank>>
     \/ cur = 1 /\ boxes[cur] = <<>>
     \/ cur = Length /\ \E d \in Digits : boxes[cur] = <<Blank, d>>
  /\ \A i \in cur + 1..Length : boxes[i] \in {<<>>, <<Blank>>}

\* How many boxes hold a digit then, and those digits.
Full(boxes, cur) == IF Len(boxes[cur]) = 2 THEN cur ELSE cur - 1
DigitsOf(boxes, k) == [i \in 1..k |-> boxes[i][Len(boxes[i])]]

\* The code of such boxes is the digits of the full ones, in order.
LEMMA OrderedCode ==
  ASSUME NEW boxes, NEW cur \in Boxes, Ordered(boxes, cur)
  PROVE  LET k == Full(boxes, cur)
         IN  /\ k \in 0..Length
             /\ DigitsOf(boxes, k) \in [1..k -> Digits]
             /\ GetInputVerify(boxes) = DigitsOf(boxes, k)
<1> DEFINE k == Full(boxes, cur)
<1>1. Blank \in Chars /\ Digits \subseteq Chars /\ Length \in Nat /\ cur \in Nat /\ cur \in 1..Length
  BY VerifyConstants DEF Chars, Boxes
<1>2. ASSUME NEW d \in Digits
      PROVE  /\ Held(<<d>>) = <<d>> /\ <<d>>[Len(<<d>>)] = d
             /\ Held(<<Blank, d>>) = <<d>> /\ <<Blank, d>>[Len(<<Blank, d>>)] = d
  <2>1. d # Blank
    BY VerifyConstants
  <2> QED BY <1>1, <2>1, HeldForms, Tuples
<1>3. Held(<<>>) = <<>> /\ Held(<<Blank>>) = <<>>
  BY <1>1, HeldForms
<1>4. ASSUME NEW i \in 1..cur - 1
      PROVE  boxes[i][Len(boxes[i])] \in Digits /\ Held(boxes[i]) = <<boxes[i][Len(boxes[i])]>>
  <2>1. PICK d \in Digits : boxes[i] = <<d>>
    BY DEF Ordered
  <2> QED BY <1>2, <2>1
<1>5. ASSUME NEW i \in cur + 1..Length PROVE Held(boxes[i]) = <<>>
  <2>1. boxes[i] \in {<<>>, <<Blank>>}
    BY DEF Ordered
  <2> QED BY <1>3, <2>1
<1>6. CASE Len(boxes[cur]) = 2
  <2>1. k = cur
    BY <1>6 DEF Full
  <2>2. PICK d \in Digits : boxes[cur] = <<Blank, d>>
    BY <1>6, Tuples DEF Ordered
  <2>3. boxes[cur][Len(boxes[cur])] \in Digits /\ Held(boxes[cur]) = <<boxes[cur][Len(boxes[cur])]>>
    <3> DEFINE text == boxes[cur]
    <3>1. text = <<Blank, d>>
      BY <2>2
    <3> HIDE DEF text
    <3>2. text[Len(text)] = d /\ Held(text) = <<d>>
      BY <1>2, <3>1
    <3>3. text[Len(text)] \in Digits /\ Held(text) = <<text[Len(text)]>>
      BY <3>2
    <3> QED BY <3>3 DEF text
  <2>4. \A i \in 1..cur : boxes[i][Len(boxes[i])] \in Digits /\ Held(boxes[i]) = <<boxes[i][Len(boxes[i])]>>
    BY <1>1, <1>4, <2>3
  <2>5. /\ DigitsOf(boxes, cur) \in [1..cur -> Digits]
        /\ \A i \in 1..cur : Held(boxes[i]) = <<DigitsOf(boxes, cur)[i]>>
    BY <2>4 DEF DigitsOf
  <2>6. GetInputVerify(boxes) = DigitsOf(boxes, cur)
    BY <1>1, <1>5, <2>5, CodeOfDigits
  <2> QED BY <1>1, <2>1, <2>5, <2>6
<1>7. CASE Len(boxes[cur]) # 2
  <2>1. k = cur - 1
    BY <1>7 DEF Full
  <2>2. boxes[cur] \in {<<>>, <<Blank>>}
    BY <1>7, Tuples DEF Ordered
  <2>3. \A i \in cur - 1 + 1..Length : Held(boxes[i]) = <<>>
    BY <1>1, <1>3, <1>5, <2>2
  <2> DEFINE n == cur - 1
  <2>4. n \in 0..Length /\ \A i \in n + 1..Length : Held(boxes[i]) = <<>>
    BY <1>1, <2>3
  <2>5. /\ DigitsOf(boxes, n) \in [1..n -> Digits]
        /\ \A i \in 1..n : Held(boxes[i]) = <<DigitsOf(boxes, n)[i]>>
    BY <1>4 DEF DigitsOf
  <2> HIDE DEF n
  <2>6. GetInputVerify(boxes) = DigitsOf(boxes, n)
    BY <2>4, <2>5, CodeOfDigits
  <2> QED BY <2>1, <2>4, <2>5, <2>6 DEF n
<1> QED BY <1>6, <1>7

\* One box more that holds a digit: the digits get one more.
LEMMA DigitAppended ==
  ASSUME NEW boxes, NEW others, NEW k \in Nat, DigitsOf(boxes, k) \in [1..k -> Digits],
         \A i \in 1..k : others[i] = boxes[i],
         NEW d \in Digits, others[k + 1][Len(others[k + 1])] = d
  PROVE  DigitsOf(others, k + 1) = Append(DigitsOf(boxes, k), d)
<1>1. DigitsOf(boxes, k) \in Seq(Digits) /\ Len(DigitsOf(boxes, k)) = k
  OBVIOUS
<1>2. /\ DOMAIN DigitsOf(others, k + 1) = 1..k + 1
      /\ \A i \in 1..k : DigitsOf(others, k + 1)[i] = DigitsOf(boxes, k)[i]
      /\ DigitsOf(others, k + 1)[k + 1] = d
  BY DEF DigitsOf
<1>3. DigitsOf(others, k + 1) \in [1..k + 1 -> Digits]
  <2>1. DigitsOf(others, k + 1) = [i \in 1..k + 1 |-> DigitsOf(others, k + 1)[i]]
    BY DEF DigitsOf
  <2>2. \A i \in 1..k + 1 : DigitsOf(others, k + 1)[i] \in Digits
    BY <1>2
  <2> QED BY <2>1, <2>2
<1>4. DigitsOf(others, k + 1) \in Seq(Digits) /\ Len(DigitsOf(others, k + 1)) = k + 1
  BY <1>3
<1>5. /\ Append(DigitsOf(boxes, k), d) \in Seq(Digits) /\ Len(Append(DigitsOf(boxes, k), d)) = k + 1
      /\ \A i \in 1..k : Append(DigitsOf(boxes, k), d)[i] = DigitsOf(boxes, k)[i]
      /\ Append(DigitsOf(boxes, k), d)[k + 1] = d
  BY <1>1, AppendProperties
<1>6. \A i \in 1..k + 1 : DigitsOf(others, k + 1)[i] = Append(DigitsOf(boxes, k), d)[i]
  BY <1>2, <1>5
<1> QED BY <1>4, <1>5, <1>6, SeqEqual

\* The last of the full boxes no longer counts: the digits lose their last.
LEMMA DigitDropped ==
  ASSUME NEW boxes, NEW others, NEW k \in Nat, DigitsOf(boxes, k + 1) \in [1..k + 1 -> Digits],
         \A i \in 1..k : others[i] = boxes[i]
  PROVE  /\ DigitsOf(boxes, k + 1) # <<>>
         /\ DigitsOf(others, k) = SubSeq(DigitsOf(boxes, k + 1), 1, Len(DigitsOf(boxes, k + 1)) - 1)
<1> DEFINE s == DigitsOf(boxes, k + 1)
<1>1. s \in Seq(Digits) /\ Len(s) = k + 1 /\ s # <<>>
  BY EmptySeq
<1>2. \A i \in 1..k : s[i] \in Digits
  OBVIOUS
<1>3. /\ SubSeq(s, 1, k) \in Seq(Digits) /\ Len(SubSeq(s, 1, k)) = k
      /\ \A i \in 1..k : SubSeq(s, 1, k)[i] = s[i]
  <2> HIDE DEF s
  <2>1. /\ SubSeq(s, 1, k) \in Seq(Digits)
        /\ Len(SubSeq(s, 1, k)) = IF 1 <= k THEN k - 1 + 1 ELSE 0
        /\ \A i \in 1..k - 1 + 1 : SubSeq(s, 1, k)[i] = s[1 + i - 1]
    BY <1>2, SubSeqProperties
  <2> QED BY <2>1
<1>4. \A i \in 1..k : DigitsOf(others, k)[i] = s[i]
  BY DEF DigitsOf
<1>5. DigitsOf(others, k) \in Seq(Digits) /\ Len(DigitsOf(others, k)) = k
  <2>1. DigitsOf(others, k) = [i \in 1..k |-> DigitsOf(others, k)[i]]
    BY DEF DigitsOf
  <2>2. DigitsOf(others, k) \in [1..k -> Digits]
    BY <1>2, <1>4, <2>1
  <2> QED BY <2>2
<1>6. DigitsOf(others, k) = SubSeq(s, 1, k)
  <2>1. \A i \in 1..k : DigitsOf(others, k)[i] = SubSeq(s, 1, k)[i]
    BY <1>3, <1>4
  <2> HIDE DEF s
  <2> QED BY <1>3, <1>5, <2>1, SeqEqual
<1> QED BY <1>1, <1>6

\* A digit typed at the end of the enabled box is the next of the code, and the last
\* hands the code over.
LEMMA EnterAtEnd ==
  ASSUME Typed, Ordered(texts, current), NEW d \in Digits, NEW value, OnChanged(value),
         Len(texts[current]) < 2, Length > 1,
         value = IF texts[current] = <<>> THEN <<d>> ELSE <<texts[current][1], d>>
  PROVE  Ordered(texts', current') /\ Entry!Enter(d)
<1>1. /\ Length \in Nat /\ current \in 1..Length /\ current \in Nat /\ d # Blank
      /\ DOMAIN texts = 1..Length /\ Length # 1 /\ current - 1 \in Nat
  BY VerifyConstants DEF Typed, Boxes
<1>2. texts[current] = <<Blank>> \/ (current = 1 /\ texts[current] = <<>>)
  BY Tuples DEF Ordered
<1>3. /\ Shown = DigitsOf(texts, current - 1)
      /\ DigitsOf(texts, current - 1) \in [1..current - 1 -> Digits]
  <2>1. Full(texts, current) = current - 1
    BY DEF Full
  <2> QED BY <2>1, OrderedCode DEF Shown, Typed
<1>4. Shown \in Seq(Digits) /\ Len(Shown) = current - 1
  BY <1>1, <1>3
<1>5. ASSUME /\ texts'[current][Len(texts'[current])] = d /\ \A i \in 1..current - 1 : texts'[i] = texts[i]
             /\ Ordered(texts', current') /\ Full(texts', current') = current /\ current' \in Boxes
      PROVE  Shown' = Append(Shown, d)
  <2>1. Shown' = DigitsOf(texts', current)
    BY <1>5, OrderedCode DEF Shown
  <2> DEFINE k == current - 1
  <2>2. k \in Nat /\ k + 1 = current
    BY <1>1
  <2>3. /\ DigitsOf(texts, k) \in [1..k -> Digits] /\ \A i \in 1..k : texts'[i] = texts[i]
        /\ Shown = DigitsOf(texts, k)
    BY <1>3, <1>5
  <2> HIDE DEF k
  <2>4. texts'[k + 1][Len(texts'[k + 1])] = d
    BY <1>5, <2>2
  <2>5. DigitsOf(texts', k + 1) = Append(DigitsOf(texts, k), d)
    BY <2>2, <2>3, <2>4, DigitAppended
  <2> QED BY <2>1, <2>2, <2>3, <2>5
<1>6. CASE current < Length
  <2>1. value = <<Blank, d>> \/ (current = 1 /\ value = <<d>>)
    BY <1>2, Tuples
  <2>2. Len(value) > 1 \/ (current = 1 /\ Len(value) = 1)
    BY <2>1, Tuples
  <2>3. Advance(value)
    <3>1. value # <<>> /\ ~Complete(value) /\ ~Retreat(value) /\ ~Keep(value)
      BY <1>1, <1>6, <2>1, <2>2, Tuples DEF Complete, Retreat, Keep
    <3> QED BY <3>1 DEF OnChanged
  <2>4. /\ texts' = [texts EXCEPT ![current] = <<d>>, ![current + 1] = Prepared(@)]
        /\ current' = current + 1 /\ completed' = completed
    <3>1. CASE value = <<Blank, d>>
      <4>1. Len(value) = 2 /\ value[1] = Blank /\ value[2] = d
        BY <3>1, Tuples
      <4>2. NewDigit(code[current], value) = d
        BY <4>1 DEF NewDigit
      <4> QED BY <2>3, <4>1, <4>2 DEF Advance
    <3>2. CASE value = <<d>>
      <4>1. Len(value) # 2
        BY <3>2, Tuples
      <4> QED BY <2>3, <3>2, <4>1 DEF Advance
    <3> QED BY <2>1, <3>1, <3>2
  <2>5. texts[current + 1] \in {<<>>, <<Blank>>}
    BY <1>1, <1>6 DEF Ordered
  <2>6. /\ texts'[current] = <<d>> /\ texts'[current + 1] = <<Blank>>
        /\ \A i \in 1..Length : i \notin {current, current + 1} => texts'[i] = texts[i]
    BY <1>1, <1>6, <2>4, <2>5 DEF Prepared
  <2>7. Ordered(texts', current') /\ current' \in Boxes
    <3>1. \A i \in 1..current' - 1 : \E e \in Digits : texts'[i] = <<e>>
      <4>1. \A i \in 1..current - 1 : \E e \in Digits : texts'[i] = <<e>>
        BY <1>1, <2>6 DEF Ordered
      <4>2. \A i \in 1..current' - 1 : i \in 1..current - 1 \/ i = current
        BY <1>1, <2>4
      <4> QED BY <2>6, <4>1, <4>2
    <3>2. \A i \in current' + 1..Length : texts'[i] \in {<<>>, <<Blank>>}
      BY <1>1, <2>4, <2>6 DEF Ordered
    <3>3. current' \in Boxes /\ texts'[current'] = <<Blank>>
      BY <1>1, <1>6, <2>4, <2>6 DEF Boxes
    <3> QED BY <3>1, <3>2, <3>3 DEF Ordered
  <2>8. Full(texts', current') = current /\ texts'[current][Len(texts'[current])] = d
    <3>1. Len(texts'[current']) = 1 /\ current' - 1 = current
      <4>1. texts'[current'] = <<Blank>>
        BY <2>4, <2>6
      <4>2. Len(texts'[current']) = 1
        BY <4>1, Tuples
      <4> QED BY <1>1, <2>4, <4>2
    <3>2. texts'[current][Len(texts'[current])] = d
      BY <2>6, Tuples
    <3> QED BY <3>1, <3>2 DEF Full
  <2>9. Shown' = Append(Shown, d)
    BY <1>1, <1>5, <2>6, <2>7, <2>8
  <2>10. Len(Shown') = current
    BY <1>1, <1>4, <2>9, AppendProperties
  <2> QED BY <1>1, <1>4, <1>6, <2>4, <2>7, <2>9, <2>10 DEF Entry!Enter
<1>7. CASE current = Length
  <2>1. value = <<Blank, d>> /\ Complete(value)
    <3>1. value = <<Blank, d>>
      BY <1>1, <1>2, <1>7, Tuples
    <3> QED BY <1>1, <1>7, <3>1, Tuples DEF OnChanged, Advance, Retreat, Keep
  <2>2. /\ texts' = [texts EXCEPT ![current] = <<Blank, d>>]
        /\ current' = current /\ completed' = Shown'
    BY <2>1 DEF Complete, Shown
  <2>3. /\ texts'[current] = <<Blank, d>> /\ \A i \in 1..Length : i # current => texts'[i] = texts[i]
    BY <1>1, <2>2
  <2>4. Ordered(texts', current')
    BY <1>1, <1>7, <2>2, <2>3 DEF Ordered
  <2>5. Full(texts', current') = current /\ texts'[current][Len(texts'[current])] = d
    BY <2>2, <2>3, Tuples DEF Full
  <2>6. Shown' = Append(Shown, d)
    BY <1>1, <1>5, <2>2, <2>3, <2>4, <2>5 DEF Boxes
  <2>7. Len(Shown') = Length
    BY <1>1, <1>4, <1>7, <2>6, AppendProperties
  <2> QED BY <1>1, <1>4, <1>7, <2>2, <2>4, <2>6, <2>7 DEF Entry!Enter
<1> QED BY <1>1, <1>6, <1>7

\* Deleting at the end of the enabled box takes the last digit of the code, if any.
LEMMA EraseAtEnd ==
  ASSUME Typed, Ordered(texts, current), NEW value, OnChanged(value), texts[current] # <<>>,
         Length > 1,
         value = IF Len(texts[current]) = 1 THEN <<>> ELSE <<texts[current][1]>>
  PROVE  /\ Ordered(texts', current') /\ completed' = completed
         /\ Entry!Erase \/ UNCHANGED Entry!vars
<1>1. /\ Length \in Nat /\ current \in 1..Length /\ current \in Nat
      /\ DOMAIN texts = 1..Length /\ Length # 1 /\ Length # 0
  BY VerifyConstants DEF Typed, Boxes
<1>2. CASE texts[current] = <<Blank>>
  <2>1. value = <<>>
    BY <1>2, Tuples
  <2>2. Retreat(value)
    BY <2>1, Tuples DEF OnChanged, Complete, Advance, Keep
  <2>3. Shown = DigitsOf(texts, current - 1) /\ DigitsOf(texts, current - 1) \in [1..current - 1 -> Digits]
    <3>1. Full(texts, current) = current - 1
      BY <1>2, Tuples DEF Full
    <3> QED BY <3>1, OrderedCode DEF Shown, Typed
  <2>4. CASE current = 1
    <3>1. texts' = [texts EXCEPT ![1] = <<>>] /\ current' = 1 /\ UNCHANGED completed
      BY <2>1, <2>2, <2>4 DEF Retreat
    <3>2. texts'[1] = <<>> /\ \A i \in 2..Length : texts'[i] = texts[i]
      BY <1>1, <3>1
    <3>3. Ordered(texts', current') /\ current' \in Boxes
      BY <1>1, <2>4, <3>1, <3>2 DEF Ordered, Boxes
    <3>4. Shown' = DigitsOf(texts', 0)
      <4>1. Full(texts', current') = 0
        BY <3>1, <3>2, Tuples DEF Full
      <4> QED BY <3>3, <4>1, OrderedCode DEF Shown
    <3>5. Shown' = Shown
      BY <2>3, <2>4, <3>4 DEF DigitsOf
    <3> QED BY <3>1, <3>3, <3>5 DEF Entry!vars
  <2>5. CASE current # 1
    <3> DEFINE k == current - 2
    <3>1. /\ texts' = [texts EXCEPT ![current] = <<>>, ![current - 1] = <<Blank>>]
          /\ current' = current - 1 /\ UNCHANGED completed
      BY <2>1, <2>2, <2>5 DEF Retreat, Erased
    <3>2. k \in Nat /\ current - 1 = k + 1 /\ current' = k + 1 /\ current' \in Boxes
      BY <1>1, <2>5, <3>1 DEF Boxes
    <3>3. /\ texts'[current] = <<>> /\ texts'[current'] = <<Blank>>
          /\ \A i \in 1..Length : i \notin {current, current - 1} => texts'[i] = texts[i]
      BY <1>1, <2>5, <3>1
    <3>4. Ordered(texts', current')
      <4>1. \A i \in 1..current' - 1 : \E e \in Digits : texts'[i] = <<e>>
        <5>1. \A i \in 1..current' - 1 : i \in 1..current - 1 /\ texts'[i] = texts[i]
          BY <1>1, <3>1, <3>3
        <5>2. \A i \in 1..current - 1 : \E e \in Digits : texts[i] = <<e>>
          BY DEF Ordered
        <5> QED BY <5>1, <5>2
      <4>2. \A i \in current' + 1..Length : texts'[i] \in {<<>>, <<Blank>>}
        <5>1. \A i \in current' + 1..Length : i = current \/ i \in current + 1..Length
          BY <1>1, <3>1
        <5>2. \A i \in current + 1..Length : texts'[i] = texts[i]
          BY <1>1, <3>3
        <5> QED BY <3>3, <5>1, <5>2 DEF Ordered
      <4> QED BY <3>3, <4>1, <4>2 DEF Ordered
    <3>5. \A i \in 1..k : texts'[i] = texts[i]
      BY <1>1, <3>3
    <3> HIDE DEF k
    <3>6. Shown' = DigitsOf(texts', k)
      <4>1. Full(texts', current') = k
        BY <3>2, <3>3, Tuples DEF Full
      <4> QED BY <3>2, <3>4, <4>1, OrderedCode DEF Shown
    <3>7. Shown = DigitsOf(texts, k + 1) /\ DigitsOf(texts, k + 1) \in [1..k + 1 -> Digits]
      BY <2>3, <3>2
    <3>8. Shown # <<>> /\ Shown' = SubSeq(Shown, 1, Len(Shown) - 1)
      BY <3>2, <3>5, <3>6, <3>7, DigitDropped
    <3> QED BY <3>1, <3>4, <3>8 DEF Entry!Erase
  <2> QED BY <2>4, <2>5
<1>3. CASE current = Length /\ \E d \in Digits : texts[current] = <<Blank, d>>
  <2> DEFINE k == current - 1
  <2>1. PICK d \in Digits : texts[current] = <<Blank, d>>
    BY <1>3
  <2>2. value = <<Blank>>
    BY <2>1, Tuples
  <2>3. Keep(value)
    <3>1. Len(value) = 1 /\ value # <<>> /\ current # 1
      BY <1>1, <1>3, <2>2, Tuples
    <3>2. ~Complete(value) /\ ~Retreat(value) /\ ~Advance(value)
      BY <1>1, <3>1 DEF Complete, Advance, Retreat
    <3> QED BY <3>2 DEF OnChanged
  <2>4. texts' = [texts EXCEPT ![current] = <<Blank>>] /\ UNCHANGED <<current, completed>>
    BY <2>2, <2>3 DEF Keep
  <2>5. /\ texts'[current] = <<Blank>>
        /\ \A i \in 1..Length : i # current => texts'[i] = texts[i]
    BY <1>1, <2>4
  <2>6. Ordered(texts', current') /\ current' \in Boxes
    BY <1>1, <2>4, <2>5 DEF Ordered, Boxes
  <2>7. k \in Nat /\ current = k + 1 /\ \A i \in 1..k : texts'[i] = texts[i]
    BY <1>1, <2>5
  <2> HIDE DEF k
  <2>8. Shown = DigitsOf(texts, k + 1) /\ DigitsOf(texts, k + 1) \in [1..k + 1 -> Digits]
    <3>1. Full(texts, current) = k + 1
      BY <2>1, <2>7, Tuples DEF Full
    <3> QED BY <3>1, OrderedCode DEF Shown, Typed
  <2>9. Shown' = DigitsOf(texts', k)
    <3>1. Full(texts', current') = k
      BY <2>4, <2>5, <2>7, Tuples DEF Full
    <3> QED BY <2>6, <3>1, OrderedCode DEF Shown
  <2>10. Shown # <<>> /\ Shown' = SubSeq(Shown, 1, Len(Shown) - 1)
    BY <2>7, <2>8, <2>9, DigitDropped
  <2> QED BY <2>4, <2>6, <2>10 DEF Entry!Erase
<1> QED BY <1>2, <1>3 DEF Ordered

-----------------------------------------------------------------------------
(* The invariant holds.                                                    *)

CodeInv ==
  /\ Typed
  /\ ~inFront /\ Length > 1 => Ordered(texts, current)
  /\ CompleteLength

\* The empty boxes have the invariant and show no digit.
LEMMA CodeInvInit == Init => CodeInv /\ Ordered(texts, current) /\ Shown = <<>>
<1> SUFFICES ASSUME Init PROVE CodeInv /\ Ordered(texts, current) /\ Shown = <<>>
  OBVIOUS
<1>1. Length \in Nat /\ 1 \in Boxes /\ texts = [i \in Boxes |-> <<>>] /\ current = 1
  BY VerifyConstants DEF Init, Boxes
<1>2. Typed
  <2>1. <<>> \in Text /\ Len(<<>>) = 0
    BY TextForms
  <2>2. texts \in [Boxes -> Text] /\ \A i \in Boxes : Len(texts[i]) <= 1
    BY <1>1, <2>1
  <2>3. code \in [Boxes -> Chars] /\ completed \in Seq(Digits) /\ inFront \in BOOLEAN
    <3>1. code \in [Boxes -> Chars]
      BY DEF Init, Chars
    <3>2. completed \in Seq(Digits)
      BY Tuples DEF Init
    <3> QED BY <3>1, <3>2 DEF Init
  <2> QED BY <1>1, <2>2, <2>3 DEF Typed
<1>3. Ordered(texts, current)
  BY <1>1 DEF Ordered, Boxes
<1>4. Shown = <<>>
  <2>1. Full(texts, current) = 0
    BY <1>1, Tuples DEF Full
  <2>2. Shown = DigitsOf(texts, 0)
    BY <1>1, <1>3, <2>1, OrderedCode DEF Shown
  <2> QED BY <2>2 DEF DigitsOf
<1> QED BY <1>2, <1>3, <1>4 DEF CodeInv, CompleteLength, Init

\* With an edit at the end of its box the digits of two boxes or more stay in order, and
\* CodeEntry takes the same step; an edit anywhere keeps what is typed.
LEMMA CodeStep ==
  ASSUME CodeInv, Next
  PROVE  /\ CodeInv'
         /\ ~inFront' /\ Length > 1 => Entry!Next \/ UNCHANGED Entry!vars
<1> DEFINE text == texts[current]
<1>1. Typed /\ text \in Text /\ Len(text) \in 0..2
  BY HeldTyped DEF CodeInv, Typed
<1>2. ASSUME NEW value \in Text, OnChanged(value), inFront' \in BOOLEAN, inFront => inFront',
             ~inFront' /\ Length > 1 =>
               /\ Ordered(texts', current')
               /\ completed' = completed \/ Len(completed') = Length
      PROVE  CodeInv'
  <2>1. Typed' /\ (completed' = completed \/ Len(completed') <= Length + 1)
    BY <1>1, <1>2, ChangeTyped
  <2>2. CompleteLength'
    BY <1>2, <2>1 DEF CodeInv, CompleteLength
  <2> QED BY <1>2, <2>1, <2>2 DEF CodeInv
<1>3. ASSUME NEW d \in Digits, Type(d)
      PROVE  CodeInv' /\ (~inFront' /\ Length > 1 => Entry!Next)
  <2>1. PICK at \in 1..Len(text) + 1 :
           OnChanged(InsertAt(text, at, d)) /\ inFront' = (inFront \/ at <= Len(text))
    BY <1>3 DEF Type
  <2> DEFINE value == InsertAt(text, at, d)
  <2>2. /\ Len(text) < 2 /\ value \in Text
        /\ at > Len(text) => value = IF text = <<>> THEN <<d>> ELSE <<text[1], d>>
    BY <1>1, <1>3, TypedText DEF Type
  <2>3. ASSUME ~inFront', Length > 1
        PROVE  Ordered(texts', current') /\ Entry!Enter(d)
    <3>1. at > Len(text) /\ Ordered(texts, current)
      <4>1. ~inFront /\ ~(at <= Len(text))
        BY <2>1, <2>3
      <4> QED BY <1>1, <2>3, <4>1 DEF CodeInv
    <3> QED BY <1>1, <2>1, <2>2, <2>3, <3>1, EnterAtEnd
  <2>4. Entry!Enter(d) => completed' = completed \/ Len(completed') = Length
    BY DEF Entry!Enter
  <2>5. inFront' \in BOOLEAN /\ (inFront => inFront')
    BY <2>1
  <2>6. CodeInv'
    BY <1>2, <2>1, <2>2, <2>3, <2>4, <2>5
  <2> QED BY <2>3, <2>6 DEF Entry!Next
<1>4. ASSUME Delete
      PROVE  CodeInv' /\ (~inFront' /\ Length > 1 => Entry!Next \/ UNCHANGED Entry!vars)
  <2>1. PICK at \in 1..Len(text) :
           OnChanged(RemoveAt(text, at)) /\ inFront' = (inFront \/ at < Len(text))
    BY <1>4 DEF Delete
  <2> DEFINE value == RemoveAt(text, at)
  <2>2. /\ text # <<>> /\ value \in Text
        /\ at = Len(text) => value = IF Len(text) = 1 THEN <<>> ELSE <<text[1]>>
    BY <1>1, <1>4, DeletedText DEF Delete
  <2>3. ASSUME ~inFront', Length > 1
        PROVE  /\ Ordered(texts', current') /\ completed' = completed
               /\ Entry!Erase \/ UNCHANGED Entry!vars
    <3>1. at = Len(text) /\ Ordered(texts, current)
      <4>1. ~inFront /\ ~(at < Len(text))
        BY <2>1, <2>3
      <4> QED BY <1>1, <2>3, <4>1 DEF CodeInv
    <3> QED BY <1>1, <2>1, <2>2, <2>3, <3>1, EraseAtEnd
  <2>4. inFront' \in BOOLEAN /\ (inFront => inFront')
    BY <2>1
  <2>5. CodeInv'
    BY <1>2, <2>1, <2>2, <2>3, <2>4
  <2> QED BY <2>3, <2>5 DEF Entry!Next
<1> QED BY <1>3, <1>4 DEF Next

\* Every step keeps the invariant.
LEMMA CodeInvNext == CodeInv /\ [Next]_vars => CodeInv'
<1>1. ASSUME CodeInv, UNCHANGED vars PROVE CodeInv'
  BY <1>1 DEF CodeInv, Typed, CompleteLength, vars
<1> QED BY <1>1, CodeStep

\* Every reachable state has the invariant.
LEMMA CodeInvariant == Spec => []CodeInv
BY CodeInvInit, CodeInvNext, PTL DEF Spec

\* Wherever in a box the user edits, no box gets more than two characters, the enabled
\* box is one of the row, and only digits are handed over.
THEOREM TypeCorrect == Spec => []TypeOK
<1>1. CodeInv => TypeOK
  BY DEF CodeInv, Typed, TypeOK, Text
<1> QED BY <1>1, CodeInvariant, PTL

\* For every number of boxes, a code that is handed over has at most one digit too many;
\* for two boxes or more it has as many as there are boxes, as long as every edit was at
\* the end of its box.
THEOREM CompleteHasLength == Spec => []CompleteLength
<1>1. CodeInv => CompleteLength
  BY DEF CodeInv
<1> QED BY <1>1, CodeInvariant, PTL

\* Until an edit is in front of a character a row of two boxes or more implements
\* CodeEntry: the digits it shows are a stack, and the full stack is handed over.
THEOREM BoxesImplementEntry == Length > 1 => (Spec => EntrySpec)
<1> SUFFICES ASSUME Length > 1 PROVE Spec => EntrySpec
  OBVIOUS
<1>1. Init => Entry!Init
  BY CodeInvInit DEF Entry!Init, Init
<1>2. CodeInv /\ [Next]_vars => [Entry!Next \/ inFront']_Entry!vars
  <2>1. ASSUME UNCHANGED vars PROVE UNCHANGED Entry!vars
    BY <2>1 DEF vars, Entry!vars, Shown
  <2> QED BY <2>1, CodeStep
<1> QED BY <1>1, <1>2, CodeInvariant, PTL DEF Spec, EntrySpec

-----------------------------------------------------------------------------
(* The pages of the Carousel.                                              *)

\* What moves the pages has not arrived yet, and the page shown is the nearest.
Moving ==
  /\ CarouselTypeOK
  /\ activity \in {"timer", "user"} => position # goal
  /\ image = Rounded(position)

\* The nearest page of a position is there, and so is the position of a page.
LEMMA NearestPage ==
  /\ \A p \in Positions : Rounded(p) \in 0..Images - 1
  /\ \A page \in 0..Images - 1 : 2 * page \in Positions
  BY CarouselConstants DEF Positions, Rounded

\* Whoever sets the pages in motion does so towards a page that is there.
LEMMA AnimationKeeps ==
  ASSUME Moving, NEW page \in 0..Images - 1, NEW who \in {"timer", "user"},
         AnimateTo(page, who)
  PROVE  Moving'
<1>1. 2 * page \in Positions
  BY NearestPage
<1> QED BY <1>1, CarouselConstants DEF Moving, CarouselTypeOK, AnimateTo, Positions, Rounded

\* Each step of the timer, the frames and the user keeps the pages in place.
LEMMA MovingNext == Moving /\ [CarouselNext]_carouselVars => Moving'
<1> SUFFICES ASSUME Moving, [CarouselNext]_carouselVars PROVE Moving'
  OBVIOUS
<1>0. position \in Positions /\ goal \in Positions /\ Images \in Nat \ {0}
  BY CarouselConstants DEF Moving, CarouselTypeOK
<1>1. ASSUME Tick PROVE Moving'
  <2>1. Rounded(position) \in 0..Images - 1
    BY <1>0, NearestPage
  <2>2. (IF Rounded(position) = Images - 1 THEN 0 ELSE Rounded(position) + 1) \in 0..Images - 1
    BY <1>0, <2>1
  <2> QED BY <1>1, <2>2, AnimationKeeps DEF Tick
<1>2. ASSUME Animate PROVE Moving'
  <2> DEFINE next == IF position < goal THEN position + 1 ELSE position - 1
  <2>1. next \in Positions
    BY <1>0, <1>2 DEF Animate, Positions, Moving
  <2>2. Rounded(next) \in 0..Images - 1
    BY <2>1, NearestPage
  <2> QED BY <1>0, <1>2, <2>1, <2>2 DEF Animate, MoveTo, Moving, CarouselTypeOK, Positions
<1>3. ASSUME Touch \/ LeaveAlone \/ Dispose PROVE Moving'
  BY <1>3 DEF Touch, LeaveAlone, Dispose, Moving, CarouselTypeOK, Positions, Rounded
<1>4. ASSUME Drag PROVE Moving'
  <2>1. PICK next \in {position - 1, position + 1} \cap 0..2 * (Images - 1) : MoveTo(next)
    BY <1>4 DEF Drag
  <2>2. next \in Positions /\ Rounded(next) \in 0..Images - 1
    BY <2>1, NearestPage DEF Positions
  <2> QED BY <1>0, <1>4, <2>1, <2>2 DEF Drag, MoveTo, Moving, CarouselTypeOK, Positions
<1>5. ASSUME LetGo PROVE Moving'
  BY <1>5, AnimationKeeps DEF LetGo
<1>6. ASSUME NEW page \in 0..Images - 1, TapDot(page) PROVE Moving'
  BY <1>6, AnimationKeeps DEF TapDot
<1>7. CASE UNCHANGED carouselVars
  BY <1>7 DEF carouselVars, Moving, CarouselTypeOK, Positions, Rounded
<1> QED BY <1>1, <1>2, <1>3, <1>4, <1>5, <1>6, <1>7 DEF CarouselNext

\* For any number of images, the timer, the dots and a finger take the controller from
\* each other in any order and never go for a page that does not exist.
THEOREM CarouselTypeCorrect == CarouselSpec => []CarouselTypeOK
<1>1. CarouselInit => Moving
  <2>1. SUFFICES ASSUME CarouselInit PROVE Moving
    OBVIOUS
  <2>2. 0 \in Positions /\ Rounded(0) = 0 /\ 0 \in 0..Images - 1
    BY CarouselConstants DEF Positions, Rounded
  <2>3. alive = TRUE /\ quiet = FALSE /\ patient \in BOOLEAN
    BY <2>1 DEF CarouselInit
  <2>4. {alive, quiet, patient} \subseteq BOOLEAN
    BY <2>3
  <2> QED BY <2>1, <2>2, <2>4 DEF CarouselInit, Moving, CarouselTypeOK
<1>2. Moving => CarouselTypeOK
  BY DEF Moving
<1> QED BY <1>1, <1>2, MovingNext, PTL DEF CarouselSpec

-----------------------------------------------------------------------------
(* The timer turns the pages.  The prover knows nothing of ENABLED, so the *)
(* fairness is stated with conditions under which the steps are enabled.   *)

\* The timer fires while the pages are at rest, and frames are drawn while they move,
\* as WF_carouselVars(Tick) and WF_carouselVars(Animate) say in FairCarouselSpec.
TimerFires ==
  []<>~(alive /\ activity = "rest" /\ Images > 1) \/ []<><<Tick>>_carouselVars
FramesDrawn ==
  []<>~(alive /\ activity \in {"timer", "user"}) \/ []<><<Animate>>_carouselVars

\* The carousel rests on page j with its timer alone; it is on its way from there to the
\* next page, and has not come to the middle of them.
RestsOn(j) == quiet /\ alive /\ activity = "rest" /\ position = 2 * j
LeavesFrom(j) ==
  quiet /\ alive /\ patient /\ activity = "timer" /\ position = 2 * j /\ goal = 2 * (j + 1)

\* At rest there is nothing but the timer, which goes for the next page.
LEMMA TimerTurns ==
  ASSUME NEW j \in 0..Images - 2, patient, RestsOn(j), [CarouselNext]_carouselVars
  PROVE  /\ patient' /\ (RestsOn(j)' \/ LeavesFrom(j)' \/ ~alive')
         /\ Tick => LeavesFrom(j)'
<1> USE CarouselConstants DEF RestsOn, LeavesFrom
<1>1. ASSUME Tick PROVE patient' /\ LeavesFrom(j)'
  BY <1>1 DEF Tick, AnimateTo, Rounded
<1>2. CASE LeaveAlone \/ Dispose \/ UNCHANGED carouselVars
  BY <1>2, <1>1 DEF LeaveAlone, Dispose, carouselVars
<1> QED BY <1>1, <1>2 DEF CarouselNext, Animate, Touch, Drag, LetGo, TapDot

\* The first frame on the way comes to the middle, where the next page is the nearest;
\* until then a patient timer waits.
LEMMA FrameTurns ==
  ASSUME NEW j \in 0..Images - 2, LeavesFrom(j), [CarouselNext]_carouselVars
  PROVE  /\ LeavesFrom(j)' \/ (image = j + 1)' \/ ~alive'
         /\ Animate => (image = j + 1)'
<1> USE CarouselConstants DEF LeavesFrom
<1>1. ASSUME Animate PROVE (image = j + 1)'
  BY <1>1 DEF Animate, MoveTo, Rounded
<1>2. CASE LeaveAlone \/ Dispose \/ UNCHANGED carouselVars
  BY <1>2, <1>1 DEF LeaveAlone, Dispose, carouselVars
<1> QED BY <1>1, <1>2 DEF CarouselNext, Tick, Touch, Drag, LetGo, TapDot

\* Of EveryImageShown the step from one page to the next, for any number of images: a
\* carousel that rests on an image and is left to a timer slower than its animation
\* shows the next image, as long as it is there.
THEOREM NextImageFollows ==
  ASSUME NEW j \in 0..Images - 2
  PROVE  CarouselSpec /\ TimerFires /\ FramesDrawn
         => (RestsOn(j) /\ patient ~> image = j + 1 \/ ~alive)
<1>1. Images > 1
  BY CarouselConstants
<1>2. RestsOn(j) /\ patient /\ [CarouselNext]_carouselVars
      => patient' /\ (RestsOn(j)' \/ LeavesFrom(j)' \/ ~alive')
  BY TimerTurns
<1>3. RestsOn(j) /\ patient /\ [CarouselNext]_carouselVars /\ <<Tick>>_carouselVars
      => LeavesFrom(j)'
  BY TimerTurns
<1>4. LeavesFrom(j) /\ [CarouselNext]_carouselVars
      => LeavesFrom(j)' \/ (image = j + 1)' \/ ~alive'
  BY FrameTurns
<1>5. LeavesFrom(j) /\ [CarouselNext]_carouselVars /\ <<Animate>>_carouselVars
      => (image = j + 1)'
  BY FrameTurns
<1>6. RestsOn(j) => alive /\ activity = "rest" /\ Images > 1
  BY <1>1 DEF RestsOn
<1>7. LeavesFrom(j) => alive /\ activity \in {"timer", "user"}
  BY DEF LeavesFrom
<1> QED BY <1>2, <1>3, <1>4, <1>5, <1>6, <1>7, PTL DEF CarouselSpec, TimerFires, FramesDrawn
=============================================================================
