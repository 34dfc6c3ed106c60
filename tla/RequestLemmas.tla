---------------------------- MODULE RequestLemmas ----------------------------
(***************************************************************************)
(* Lemmas about what the request parser is built from, for every stream,   *)
(* every cut and every request: the searches and the lines, the words and  *)
(* the fields, the text of a request, the headers its fields make.         *)
(*                                                                         *)
(* Where they speak of all fields or all chunks the induction is by a      *)
(* least counterexample (Least).                                           *)
(***************************************************************************)
EXTENDS RequestMessage, SequenceTheorems, WellFoundedInduction, TLAPS

(* Every set of numbers that is not empty has a least element.              *)
LEMMA Least ==
  ASSUME NEW S, S \subseteq Nat, S # {}
  PROVE  \E i \in S : \A j \in S : i <= j
<1> DEFINE R == OpToRel(<, Nat)
<1>1. IsWellFoundedOn(R, Nat)
  BY NatLessThanWellFounded
<1>2. PICK x \in S : \A y \in S : <<y, x>> \notin R
  <2> HIDE DEF R
  <2> QED BY <1>1, WFMin
<1>3. ASSUME NEW y \in S PROVE x <= y
  <2>1. x \in Nat /\ y \in Nat
    OBVIOUS
  <2>2. y < x => <<y, x>> \in R
    BY <2>1 DEF OpToRel
  <2>3. ~(y < x)
    BY <1>2, <2>2
  <2> HIDE DEF R
  <2> QED BY <2>1, <2>3
<1>4. QED BY <1>3

(* What First returns.                                                      *)
LEMMA FirstIs ==
  ASSUME NEW S, S \subseteq Nat \ {0}, NEW i \in S, \A j \in S : i <= j
  PROVE  First(S) = i
<1>1. First(S) \in S /\ \A j \in S : First(S) <= j
  BY DEF First
<1>2. First(S) <= i /\ i <= First(S)
  BY <1>1
<1>3. First(S) \in Nat /\ i \in Nat
  BY <1>1
<1> QED BY <1>2, <1>3

(* First of no positions is 0, and only of none.                            *)
LEMMA FirstNone ==
  ASSUME NEW S, S \subseteq Nat \ {0}
  PROVE  First(S) = 0 <=> S = {}
<1>1. ASSUME S # {} PROVE First(S) # 0
  <2>1. \E i \in S : \A j \in S : i <= j
    BY <1>1, Least
  <2>2. First(S) \in S
    BY <1>1, <2>1 DEF First
  <2> QED BY <2>2
<1> QED BY <1>1 DEF First

(* std::find returns end() exactly when the element is nowhere.             *)
LEMMA FindNone ==
  ASSUME NEW s \in Seq(Token), NEW t
  PROVE  Find(s, t) = 0 <=> \A i \in 1..Len(s) : s[i] # t
<1> DEFINE S == {i \in 1..Len(s) : s[i] = t}
<1>1. S \subseteq Nat \ {0}
  OBVIOUS
<1>2. First(S) = 0 <=> S = {}
  BY <1>1, FirstNone
<1> QED BY <1>2 DEF Find

(* std::find returns the first place of the element.                        *)
LEMMA FindIs ==
  ASSUME NEW s \in Seq(Token), NEW t, NEW i \in 1..Len(s), s[i] = t,
         \A j \in 1..(i - 1) : s[j] # t
  PROVE  Find(s, t) = i
<1> DEFINE S == {k \in 1..Len(s) : s[k] = t}
<1>1. S \subseteq Nat \ {0} /\ i \in S
  OBVIOUS
<1>2. \A j \in S : i <= j
  OBVIOUS
<1>3. First(S) = i
  BY <1>1, <1>2, FirstIs
<1> QED BY <1>3 DEF Find

(* Concatenation is associative, for streams.                               *)
LEMMA Assoc ==
  ASSUME NEW a \in Seq(Token), NEW b \in Seq(Token), NEW c \in Seq(Token)
  PROVE  (a \o b) \o c = a \o (b \o c)
BY ConcatAssociative

(* The bytes that l \o r = x \o y puts into l.                              *)
LEMMA Prefix ==
  ASSUME NEW l \in Seq(Token), NEW r \in Seq(Token),
         NEW x \in Seq(Token), NEW y \in Seq(Token), l \o r = x \o y
  PROVE  /\ Len(l) + Len(r) = Len(x) + Len(y)
         /\ \A i \in 1..Len(l) : i <= Len(x) => l[i] = x[i]
<1>1. /\ Len(l \o r) = Len(l) + Len(r)
      /\ \A i \in 1..(Len(l) + Len(r)) :
           (l \o r)[i] = IF i <= Len(l) THEN l[i] ELSE r[i - Len(l)]
  BY ConcatProperties
<1>2. /\ Len(x \o y) = Len(x) + Len(y)
      /\ \A i \in 1..(Len(x) + Len(y)) :
           (x \o y)[i] = IF i <= Len(x) THEN x[i] ELSE y[i - Len(x)]
  BY ConcatProperties
<1>3. Len(l) \in Nat /\ Len(r) \in Nat /\ Len(x) \in Nat /\ Len(y) \in Nat
  BY LenProperties
<1>4. Len(l) + Len(r) = Len(x) + Len(y)
  BY <1>1, <1>2
<1>5. ASSUME NEW i \in 1..Len(l), i <= Len(x)
      PROVE  l[i] = x[i]
  <2>1. i \in 1..(Len(l) + Len(r)) /\ i \in 1..(Len(x) + Len(y)) /\ i <= Len(l)
    BY <1>3, <1>5
  <2>2. (l \o r)[i] = l[i] /\ (x \o y)[i] = x[i]
    BY <1>1, <1>2, <1>5, <2>1
  <2> QED BY <2>2
<1> QED BY <1>4, <1>5

(* Taking x off, when all of it is there.                                   *)
LEMMA TakeOff ==
  ASSUME NEW l \in Seq(Token), NEW r \in Seq(Token),
         NEW x \in Seq(Token), NEW y \in Seq(Token),
         l \o r = x \o y, Len(l) >= Len(x)
  PROVE  /\ SubSeq(l, Len(x) + 1, Len(l)) \in Seq(Token)
         /\ SubSeq(l, Len(x) + 1, Len(l)) \o r = y
         /\ SubSeq(l, 1, Len(x)) = x
<1> DEFINE h == SubSeq(l, 1, Len(x))
           t == SubSeq(l, Len(x) + 1, Len(l))
<1>1. Len(l) \in Nat /\ Len(x) \in Nat /\ Len(r) \in Nat
  BY LenProperties
<1>2. \A i \in 1..Len(l) : l[i] \in Token
  BY ElementOfSeq
<1>3. /\ h \in Seq(Token) /\ Len(h) = Len(x)
      /\ \A i \in 1..Len(x) : h[i] = l[i]
  <2>1. /\ SubSeq(l, 1, Len(x)) \in Seq(Token)
        /\ Len(SubSeq(l, 1, Len(x))) = IF 1 <= Len(x) THEN Len(x) - 1 + 1 ELSE 0
        /\ \A i \in 1..(Len(x) - 1 + 1) : SubSeq(l, 1, Len(x))[i] = l[1 + i - 1]
    BY <1>1, <1>2, SubSeqProperties
  <2>2. Len(x) - 1 + 1 = Len(x) /\ \A i \in 1..Len(x) : 1 + i - 1 = i
    BY <1>1
  <2> QED BY <1>1, <2>1, <2>2
<1>4. /\ t \in Seq(Token) /\ Len(t) = Len(l) - Len(x)
  <2>1. /\ SubSeq(l, Len(x) + 1, Len(l)) \in Seq(Token)
        /\ Len(SubSeq(l, Len(x) + 1, Len(l))) =
             IF Len(x) + 1 <= Len(l) THEN Len(l) - (Len(x) + 1) + 1 ELSE 0
    <3>1. Len(x) + 1 \in Int /\ Len(l) \in Int
      BY <1>1
    <3>2. \A i \in (Len(x) + 1)..Len(l) : l[i] \in Token
      BY <1>1, <1>2
    <3> QED BY <3>1, <3>2, SubSeqProperties
  <2> QED BY <1>1, <2>1
<1>5. h \o t = l
  <2>1. 1 \in 1..(Len(l) + 1) /\ Len(x) \in (1 - 1)..Len(l) /\ Len(l) \in Len(x)..Len(l)
    BY <1>1
  <2>2. SubSeq(l, 1, Len(x)) \o SubSeq(l, Len(x) + 1, Len(l)) = SubSeq(l, 1, Len(l))
    BY <2>1, ConcatAdjacentSubSeq
  <2> QED BY <2>2, SubSeqFull
<1>6. h = x
  <2>0. \A i \in 1..Len(l) : i <= Len(x) => l[i] = x[i]
    BY Prefix
  <2>1. \A i \in 1..Len(x) : l[i] = x[i]
    BY <1>1, <2>0
  <2>2. Len(h) = Len(x) /\ \A i \in 1..Len(h) : h[i] = x[i]
    BY <1>3, <2>1
  <2> HIDE DEF h, t
  <2> QED BY <1>3, <2>2, SeqEqual
<1>7. x \o (t \o r) = x \o y
  <2> HIDE DEF h, t
  <2>1. (h \o t) \o r = h \o (t \o r)
    BY <1>3, <1>4, Assoc, ZenonT(60)
  <2> QED BY <1>5, <1>6, <2>1
<1>8. t \o r \in Seq(Token)
  <2> HIDE DEF t
  <2> QED BY <1>4, ConcatProperties
<1>9. t \o r = y
  <2> HIDE DEF t
  <2>1. \A S : \A u, v, w \in Seq(S) : u \o v = u \o w => v = w
    BY ConcatSimplifications
  <2> QED BY <1>7, <1>8, <2>1
<1> QED BY <1>4, <1>6, <1>9

(* The type and the length of a concatenation.                              *)
LEMMA Cat ==
  ASSUME NEW a \in Seq(Token), NEW b \in Seq(Token)
  PROVE  /\ a \o b \in Seq(Token)
         /\ Len(a \o b) = Len(a) + Len(b)
         /\ Len(a) \in Nat /\ Len(b) \in Nat
BY ConcatProperties, LenProperties


(* A sequence of two bytes.                                                 *)
LEMMA Pair ==
  ASSUME NEW a \in Token, NEW b \in Token
  PROVE  /\ <<a, b>> \in Seq(Token) /\ Len(<<a, b>>) = 2
         /\ <<a, b>>[1] = a /\ <<a, b>>[2] = b
OBVIOUS

(* A line break is two bytes.                                               *)
LEMMA CrlfSeq ==
  CRLF \in Seq(Token) /\ Len(CRLF) = 2 /\ CRLF[1] = "CR" /\ CRLF[2] = "LF"
<1>1. "CR" \in Token /\ "LF" \in Token
  BY TokenAssumption
<1> QED BY <1>1, Pair DEF CRLF

(* A line without a line break in it.                                       *)
NoBreak(t) == \A j \in 1..(Len(t) - 1) : ~(t[j] = "CR" /\ t[j + 1] = "LF")

(* A line with its line break, byte by byte.                                *)
LEMMA LineSeq ==
  ASSUME NEW t \in Seq(Token)
  PROVE  /\ t \o CRLF \in Seq(Token) /\ Len(t \o CRLF) = Len(t) + 2
         /\ \A i \in 1..Len(t) : (t \o CRLF)[i] = t[i]
         /\ (t \o CRLF)[Len(t) + 1] = "CR"
         /\ (t \o CRLF)[Len(t) + 2] = "LF"
<1>1. /\ CRLF \in Seq(Token) /\ Len(CRLF) = 2
      /\ CRLF[1] = "CR" /\ CRLF[2] = "LF"
  BY CrlfSeq
<1>2. /\ t \o CRLF \in Seq(Token)
      /\ Len(t \o CRLF) = Len(t) + Len(CRLF)
      /\ \A i \in 1..(Len(t) + Len(CRLF)) :
           (t \o CRLF)[i] = IF i <= Len(t) THEN t[i] ELSE CRLF[i - Len(t)]
  BY <1>1, ConcatProperties
<1>3. Len(t) \in Nat
  BY LenProperties
<1> QED BY <1>1, <1>2, <1>3

(* Of a line t and its break in the stream, the search finds the break if   *)
(* all of it is in l, and nothing otherwise.                                *)
LineSplit(l, r, t, y) ==
  /\ FindCrlf(l) = 0 => Len(r) > Len(y)
  /\ FindCrlf(l) # 0 =>
       /\ Before(l, FindCrlf(l)) = t
       /\ After(l, FindCrlf(l) + 1) \in Seq(Token)
       /\ After(l, FindCrlf(l) + 1) \o r = y

(* A stream that begins with a line, cut anywhere between what the parser   *)
(* has (l) and what it has not (r): see LineSplit.                          *)
LEMMA LineOf ==
  ASSUME NEW l \in Seq(Token), NEW r \in Seq(Token),
         NEW t \in Seq(Token), NEW y \in Seq(Token),
         l \o r = Lined(t, y), NoBreak(t)
  PROVE  LineSplit(l, r, t, y)
<1>0. PICK x \in Seq(Token) : x = t \o CRLF
  BY LineSeq
<1> DEFINE S == {i \in 1..(Len(l) - 1) : l[i] = "CR" /\ l[i + 1] = "LF"}
<1>1. /\ x \in Seq(Token) /\ Len(x) = Len(t) + 2
      /\ \A i \in 1..Len(t) : x[i] = t[i]
      /\ x[Len(t) + 1] = "CR" /\ x[Len(t) + 2] = "LF"
  BY <1>0, LineSeq
<1>2. l \o r = x \o y
  BY <1>0 DEF Lined
<1>3. Len(l) \in Nat /\ Len(r) \in Nat /\ Len(t) \in Nat /\ Len(y) \in Nat
  BY LenProperties
<1>4. /\ Len(l) + Len(r) = Len(t) + 2 + Len(y)
      /\ \A i \in 1..Len(l) : i <= Len(t) + 2 => l[i] = x[i]
  <2>1. /\ Len(l) + Len(r) = Len(x) + Len(y)
        /\ \A i \in 1..Len(l) : i <= Len(x) => l[i] = x[i]
    BY <1>2, Prefix
  <2> QED BY <1>1, <1>3, <2>1
<1>5. S \subseteq Nat \ {0}
  BY <1>3
<1>6. FindCrlf(l) = First(S)
  BY DEF FindCrlf
<1>7. ASSUME NEW i \in S PROVE i > Len(t)
  <2>1. i \in 1..(Len(l) - 1) /\ l[i] = "CR" /\ l[i + 1] = "LF"
    OBVIOUS
  <2>2. CASE i <= Len(t) - 1
    <3>1. /\ i \in 1..Len(t) /\ i \in 1..Len(l) /\ i <= Len(t) + 2
          /\ i + 1 \in 1..Len(t) /\ i + 1 \in 1..Len(l) /\ i + 1 <= Len(t) + 2
          /\ i \in 1..(Len(t) - 1)
      BY <1>3, <2>1, <2>2
    <3>2. l[i] = t[i] /\ l[i + 1] = t[i + 1]
      BY <1>1, <1>4, <3>1
    <3> QED BY <2>1, <3>1, <3>2 DEF NoBreak
  <2>3. CASE i = Len(t)
    <3>1. l[i + 1] = "CR"
      BY <1>1, <1>3, <1>4, <2>1, <2>3, SMTT(30)
    <3> QED BY <2>1, <3>1
  <2> QED BY <1>3, <2>1, <2>2, <2>3
<1>8. CASE Len(l) < Len(t) + 2
  <2>1. ASSUME NEW i \in S PROVE FALSE
    <3>1. i \in Nat /\ i <= Len(l) - 1 /\ i > Len(t)
      BY <1>3, <1>7
    <3> QED BY <1>3, <1>8, <3>1
  <2>2. FindCrlf(l) = 0
    BY <1>5, <1>6, <2>1, FirstNone
  <2> QED BY <1>3, <1>4, <1>8, <2>2 DEF LineSplit
<1>9. CASE Len(l) >= Len(t) + 2
  <2>1. Len(t) + 1 \in S
    <3>1. Len(t) + 1 \in 1..Len(l) /\ Len(t) + 1 <= Len(t) + 2
      BY <1>3, <1>9
    <3>2. Len(t) + 2 \in 1..Len(l) /\ Len(t) + 2 <= Len(t) + 2
      BY <1>3, <1>9
    <3>3. l[Len(t) + 1] = "CR" /\ l[Len(t) + 2] = "LF"
      BY <1>1, <1>4, <3>1, <3>2
    <3>4. Len(t) + 1 \in 1..(Len(l) - 1) /\ Len(t) + 1 + 1 = Len(t) + 2
      BY <1>3, <1>9
    <3> QED BY <3>3, <3>4
  <2>2. \A j \in S : Len(t) + 1 <= j
    BY <1>3, <1>7
  <2>3. FindCrlf(l) = Len(t) + 1
    BY <1>5, <1>6, <2>1, <2>2, FirstIs
  <2>4. /\ After(l, Len(x)) \in Seq(Token)
        /\ After(l, Len(x)) \o r = y
    <3>1. Len(l) >= Len(x)
      BY <1>1, <1>9
    <3> QED BY <1>2, <3>1, TakeOff, ZenonT(30) DEF After
  <2>5. l \o r = t \o (CRLF \o y)
    <3>1. (t \o CRLF) \o y = t \o (CRLF \o y)
      BY CrlfSeq, Assoc, ZenonT(90)
    <3> QED BY <1>0, <1>2, <3>1
  <2>6. CRLF \o y \in Seq(Token)
    BY CrlfSeq, Cat
  <2>7. SubSeq(l, 1, Len(t)) = t
    <3>1. Len(l) >= Len(t)
      BY <1>3, <1>9
    <3> QED BY <2>5, <2>6, <3>1, TakeOff
  <2>8. Before(l, Len(t) + 1) = t
    <3>1. Len(t) + 1 - 1 = Len(t)
      BY <1>3
    <3> QED BY <2>7, <3>1 DEF Before
  <2>9. Len(t) + 1 + 1 = Len(x) /\ FindCrlf(l) # 0
    BY <1>1, <1>3, <2>3
  <2> QED BY <2>3, <2>4, <2>8, <2>9 DEF LineSplit
<1> QED BY <1>3, <1>8, <1>9

(* The first byte, taken off as a sequence.                                 *)
LEMMA OneOf ==
  ASSUME NEW l \in Seq(Token), Len(l) >= 1
  PROVE  SubSeq(l, 1, 2 - 1) = <<l[1]>>
<1>1. Len(l) \in Nat /\ 1 \in 1..Len(l) /\ l[1] \in Token
  BY LenProperties, ElementOfSeq
<1>2. /\ SubSeq(l, 1, 1) \in Seq(Token) /\ Len(SubSeq(l, 1, 1)) = 1
      /\ SubSeq(l, 1, 1)[1] = l[1]
  <2>1. \A i \in 1..1 : l[i] \in Token
    BY <1>1
  <2>2. /\ SubSeq(l, 1, 1) \in Seq(Token)
        /\ Len(SubSeq(l, 1, 1)) = IF 1 <= 1 THEN 1 - 1 + 1 ELSE 0
        /\ \A i \in 1..(1 - 1 + 1) : SubSeq(l, 1, 1)[i] = l[1 + i - 1]
    BY <2>1, SubSeqProperties
  <2> QED BY <2>2
<1>3. <<l[1]>> \in Seq(Token) /\ Len(<<l[1]>>) = 1 /\ <<l[1]>>[1] = l[1]
  BY <1>1
<1>4. SubSeq(l, 1, 1) = <<l[1]>>
  <2>1. \A i \in 1..1 : SubSeq(l, 1, 1)[i] = <<l[1]>>[i]
    BY <1>2, <1>3
  <2> QED BY <1>2, <1>3, <2>1, SeqEqual
<1> QED BY <1>4

(* A word and the space after it.                                           *)
WordSplit(l, r, w, y) ==
  /\ Find(l, "SP") = 0 => Len(r) > Len(y)
  /\ Find(l, "SP") # 0 =>
       /\ Before(l, Find(l, "SP")) = <<w>>
       /\ After(l, Find(l, "SP")) \in Seq(Token)
       /\ After(l, Find(l, "SP")) \o r = y

(* A stream that begins with a word and a space, cut anywhere: see          *)
(* WordSplit.                                                               *)
LEMMA WordOf ==
  ASSUME NEW l \in Seq(Token), NEW r \in Seq(Token),
         NEW w \in Word, NEW y \in Seq(Token),
         l \o r = <<w, "SP">> \o y
  PROVE  WordSplit(l, r, w, y)
<1>0. PICK x \in Seq(Token) : x = <<w, "SP">>
  <2>1. w \in Token /\ "SP" \in Token
    BY TokenAssumption DEF Word
  <2> QED BY <2>1, Pair
<1>1. /\ x \in Seq(Token) /\ Len(x) = 2 /\ x[1] = w /\ x[2] = "SP"
      /\ w # "SP"
  <2>1. w \in Token /\ "SP" \in Token /\ w # "SP"
    BY TokenAssumption DEF Word
  <2> QED BY <1>0, <2>1, Pair
<1>2. l \o r = x \o y
  BY <1>0
<1>3. Len(l) \in Nat /\ Len(r) \in Nat /\ Len(y) \in Nat
  BY LenProperties
<1>4. /\ Len(l) + Len(r) = 2 + Len(y)
      /\ \A i \in 1..Len(l) : i <= 2 => l[i] = x[i]
  BY <1>1, <1>2, Prefix
<1>5. CASE Len(l) < 2
  <2>1. \A i \in 1..Len(l) : l[i] # "SP"
    BY <1>1, <1>3, <1>4, <1>5
  <2>2. Find(l, "SP") = 0
    BY <2>1, FindNone
  <2> QED BY <1>3, <1>4, <1>5, <2>2 DEF WordSplit
<1>6. CASE Len(l) >= 2
  <2>1. 2 \in 1..Len(l) /\ l[2] = "SP" /\ \A j \in 1..(2 - 1) : l[j] # "SP"
    BY <1>1, <1>3, <1>4, <1>6
  <2>2. Find(l, "SP") = 2
    BY <2>1, FindIs
  <2>3. After(l, 2) \in Seq(Token) /\ After(l, 2) \o r = y
    <3>1. Len(l) >= Len(x)
      BY <1>1, <1>6
    <3>2. /\ After(l, Len(x)) \in Seq(Token)
          /\ After(l, Len(x)) \o r = y
      BY <1>2, <3>1, TakeOff, ZenonT(90) DEF After
    <3> QED BY <1>1, <3>2
  <2>4. Before(l, 2) = <<w>>
    <3>1. l[1] = w
      BY <1>1, <1>3, <1>4, <1>6
    <3>2. SubSeq(l, 1, 2 - 1) = <<l[1]>>
      BY <1>3, <1>6, OneOf
    <3> QED BY <3>1, <3>2 DEF Before
  <2> QED BY <2>2, <2>3, <2>4 DEF WordSplit
<1> QED BY <1>3, <1>5, <1>6

(* What a search for a line finds, in the words of the parser.              *)
LEMMA OneLine ==
  ASSUME NEW x, x.leftover \in Seq(Token),
         NEW r \in Seq(Token), NEW t \in Seq(Token), NEW y \in Seq(Token),
         x.leftover \o r = Lined(t, y), NoBreak(t)
  PROVE  /\ ~HasLine(x) => Len(r) > Len(y)
         /\ HasLine(x) =>
              /\ Line(x) = t
              /\ \E l \in Seq(Token) :
                   l \o r = y /\ DropLine(x) = [x EXCEPT !.leftover = l]
<1>1. PICK l \in Seq(Token) : l = x.leftover
  OBVIOUS
<1>2. l \o r = Lined(t, y)
  BY <1>1
<1>3. LineSplit(l, r, t, y)
  BY <1>2, LineOf
<1>4. DropLine(x) = [x EXCEPT !.leftover = After(l, FindCrlf(l) + 1)]
  BY <1>1 DEF DropLine
<1>5. HasLine(x) <=> FindCrlf(l) # 0
  BY <1>1 DEF HasLine
<1>6. Line(x) = Before(l, FindCrlf(l))
  BY <1>1 DEF Line
<1> QED BY <1>3, <1>4, <1>5, <1>6 DEF LineSplit

-----------------------------------------------------------------------------
(* What a field is made of.                                                 *)
FieldType(f) ==
  /\ f.colon \in BOOLEAN /\ (~f.colon => f.name # <<>>)
  /\ f.name \in Seq(Token) /\ f.value \in Seq(Token) /\ f.pad \in Seq(Token)
  /\ \A i \in 1..Len(f.name) : f.name[i] \notin {"CR", "LF", ":"}
  /\ \A i \in 1..Len(f.value) : f.value[i] \notin {"CR", "LF"}
  /\ \A i \in 1..Len(f.pad) : f.pad[i] = "SP"
  /\ f.value # <<>> /\ f.value[1] # "SP" /\ f.value[Len(f.value)] # "SP"

(* Every field of a request has the type of a field.                        *)
LEMMA FieldTyped ==
  ASSUME NEW f, IsField(f)
  PROVE  FieldType(f)
<1>0. f.colon \in BOOLEAN /\ (~f.colon => f.name # <<>>)
  BY DEF IsField
<1>1. /\ f.name \in Seq(Token \ {"CR", "LF", ":"})
      /\ f.value \in Seq(Token \ {"CR", "LF"}) /\ f.value # <<>>
      /\ f.value[1] # "SP" /\ f.value[Len(f.value)] # "SP"
      /\ f.pad \in Seq({"SP"})
  BY DEF IsField
<1>2. {"SP"} \subseteq Token
  BY TokenAssumption
<1>3. f.name \in Seq(Token) /\ f.value \in Seq(Token) /\ f.pad \in Seq(Token)
  BY <1>1, <1>2, SeqMonotonic
<1>4. \A i \in 1..Len(f.name) : f.name[i] \in Token \ {"CR", "LF", ":"}
  BY <1>1, ElementOfSeq
<1>5. \A i \in 1..Len(f.value) : f.value[i] \in Token \ {"CR", "LF"}
  BY <1>1, ElementOfSeq
<1>6. \A i \in 1..Len(f.pad) : f.pad[i] \in {"SP"}
  BY <1>1, ElementOfSeq
<1> QED BY <1>0, <1>1, <1>3, <1>4, <1>5, <1>6 DEF FieldType

(* The line of a field, element by element.                                 *)
LineShape(g, f) ==
  LET n == Len(f.name)  v == Len(f.value) IN
  /\ g \in Seq(Token)
  /\ Len(g) = n + 2 + v + Len(f.pad)
  /\ \A i \in 1..n : g[i] = f.name[i]
  /\ g[n + 1] = ":" /\ g[n + 2] = "SP"
  /\ \A i \in 1..v : g[n + 2 + i] = f.value[i]
  /\ \A i \in 1..Len(f.pad) : g[n + 2 + v + i] = "SP"

(* The line of a field is its name, colon, space, value and padding.        *)
LEMMA FieldLineShape ==
  ASSUME NEW f, FieldType(f), f.colon
  PROVE  LineShape(FieldLine(f), f)
<1>1. PICK a \in Seq(Token), b \in Seq(Token), c \in Seq(Token) :
        a = f.name /\ b = f.value /\ c = f.pad
  BY DEF FieldType
<1>2. PICK e \in Seq(Token) : e = <<":", "SP">>
  <2>1. ":" \in Token /\ "SP" \in Token
    BY TokenAssumption
  <2> QED BY <2>1, Pair
<1>3. Len(e) = 2 /\ e[1] = ":" /\ e[2] = "SP"
  BY <1>2
<1>4. Len(a) \in Nat /\ Len(b) \in Nat /\ Len(c) \in Nat
  BY LenProperties
<1>5. PICK s1 \in Seq(Token) : s1 = a \o e
  BY Cat
<1>6. Len(s1) = Len(a) + Len(e) /\ \A i \in 1..(Len(a) + Len(e)) :
        s1[i] = IF i <= Len(a) THEN a[i] ELSE e[i - Len(a)]
  BY <1>5, ConcatProperties
<1>7. PICK s2 \in Seq(Token) : s2 = s1 \o b
  BY Cat
<1>8. Len(s2) = Len(s1) + Len(b) /\ \A i \in 1..(Len(s1) + Len(b)) :
        s2[i] = IF i <= Len(s1) THEN s1[i] ELSE b[i - Len(s1)]
  BY <1>7, ConcatProperties
<1>9. PICK g \in Seq(Token) : g = s2 \o c
  BY Cat
<1>10. Len(g) = Len(s2) + Len(c) /\ \A i \in 1..(Len(s2) + Len(c)) :
        g[i] = IF i <= Len(s2) THEN s2[i] ELSE c[i - Len(s2)]
  BY <1>9, ConcatProperties
<1>11. g = FieldLine(f)
  BY <1>1, <1>2, <1>5, <1>7, <1>9 DEF FieldLine
<1>12. Len(s1) = Len(a) + 2 /\ Len(s2) = Len(a) + 2 + Len(b)
       /\ Len(g) = Len(a) + 2 + Len(b) + Len(c)
  BY <1>3, <1>4, <1>6, <1>8, <1>10
<1>13. ASSUME NEW i \in 1..Len(a) PROVE g[i] = a[i]
  <2>1. g[i] = s2[i]
    BY <1>4, <1>10, <1>12
  <2>2. s2[i] = s1[i]
    BY <1>4, <1>8, <1>12
  <2>3. s1[i] = a[i]
    BY <1>3, <1>4, <1>6
  <2> QED BY <2>1, <2>2, <2>3
<1>14. ASSUME NEW i \in 1..2 PROVE g[Len(a) + i] = e[i]
  <2>1. g[Len(a) + i] = s2[Len(a) + i]
    BY <1>4, <1>10, <1>12
  <2>2. s2[Len(a) + i] = s1[Len(a) + i]
    BY <1>4, <1>8, <1>12
  <2>3. s1[Len(a) + i] = e[i]
    <3>1. /\ Len(a) + i \in 1..(Len(a) + Len(e)) /\ ~(Len(a) + i <= Len(a))
          /\ Len(a) + i - Len(a) = i
      BY <1>3, <1>4
    <3>2. s1[Len(a) + i] = e[Len(a) + i - Len(a)]
      BY <1>6, <3>1
    <3> QED BY <3>1, <3>2
  <2> QED BY <2>1, <2>2, <2>3
<1>15. ASSUME NEW i \in 1..Len(b) PROVE g[Len(a) + 2 + i] = b[i]
  <2>1. g[Len(a) + 2 + i] = s2[Len(a) + 2 + i]
    BY <1>4, <1>10, <1>12
  <2>2. s2[Len(a) + 2 + i] = b[i]
    <3>1. /\ Len(a) + 2 + i \in 1..(Len(s1) + Len(b))
          /\ ~(Len(a) + 2 + i <= Len(s1)) /\ Len(a) + 2 + i - Len(s1) = i
      BY <1>4, <1>12
    <3>2. s2[Len(a) + 2 + i] = b[Len(a) + 2 + i - Len(s1)]
      BY <1>8, <3>1
    <3> QED BY <3>1, <3>2
  <2> QED BY <2>1, <2>2
<1>16. ASSUME NEW i \in 1..Len(c) PROVE g[Len(a) + 2 + Len(b) + i] = c[i]
  <2> DEFINE k == Len(a) + 2 + Len(b) + i
  <2>1. k \in 1..(Len(s2) + Len(c)) /\ ~(k <= Len(s2)) /\ k - Len(s2) = i
    BY <1>4, <1>12
  <2> HIDE DEF k
  <2>2. g[k] = c[k - Len(s2)]
    BY <1>10, <2>1
  <2>3. g[k] = c[i]
    BY <2>1, <2>2
  <2> QED BY <2>3 DEF k
<1>17. \A i \in 1..Len(c) : c[i] = "SP"
  BY <1>1 DEF FieldType
<1>18. g[Len(a) + 1] = ":" /\ g[Len(a) + 2] = "SP"
  BY <1>3, <1>14
<1>19. \A i \in 1..Len(c) : g[Len(a) + 2 + Len(b) + i] = "SP"
  BY <1>16, <1>17
<1> QED BY <1>1, <1>11, <1>12, <1>13, <1>15, <1>18, <1>19, ZenonT(80) DEF LineShape

(* Trim takes the space off both ends of a value.                           *)
LEMMA TrimIs ==
  ASSUME NEW w \in Seq(Token), NEW v \in Seq(Token), Len(v) >= 1,
         Len(w) >= Len(v) + 1, w[1] = "SP", v[1] # "SP", v[Len(v)] # "SP",
         \A i \in 1..Len(v) : w[1 + i] = v[i],
         \A i \in (Len(v) + 2)..Len(w) : w[i] = "SP"
  PROVE  Trim(w) = v
<1> DEFINE kept == {i \in 1..Len(w) : w[i] # "SP"}
           n == Len(v) + 1
           last == CHOOSE i \in kept : \A j \in kept : i >= j
<1>1. Len(w) \in Nat /\ Len(v) \in Nat
  BY LenProperties
<1>2. kept \subseteq Nat \ {0}
  BY <1>1
<1>3. 2 \in kept
  <2>1. 1 \in 1..Len(v) /\ 1 + 1 = 2 /\ 2 \in 1..Len(w)
    BY <1>1
  <2>2. w[2] = v[1]
    BY <2>1
  <2> QED BY <2>1, <2>2
<1>4. ASSUME NEW j \in kept PROVE 2 <= j /\ j <= n /\ j \in Nat
  <2>1. j \in 1..Len(w) /\ w[j] # "SP"
    OBVIOUS
  <2>2. j # 1 /\ j \notin (Len(v) + 2)..Len(w)
    BY <2>1
  <2> QED BY <1>1, <2>1, <2>2
<1>5. First(kept) = 2
  BY <1>2, <1>3, <1>4, FirstIs
<1>6. n \in kept
  <2>1. Len(v) \in 1..Len(v) /\ 1 + Len(v) = n /\ n \in 1..Len(w)
    BY <1>1
  <2>2. w[n] = v[Len(v)]
    BY <2>1
  <2> QED BY <2>1, <2>2
<1>7. last = n
  <2>1. \A j \in kept : n >= j
    BY <1>1, <1>4
  <2>2. last \in kept /\ \A j \in kept : last >= j
    <3> HIDE DEF kept, n
    <3> QED BY <1>6, <2>1
  <2>3. last >= n /\ last <= n /\ last \in Nat
    <3> HIDE DEF last, kept, n
    <3> QED BY <1>4, <1>6, <2>2
  <2> HIDE DEF last
  <2> QED BY <1>1, <2>3
<1>8. SubSeq(w, 2, n) = v
  <2>1. \A i \in 2..n : w[i] \in Token
    <3>1. ASSUME NEW i \in 2..n PROVE i \in 1..Len(w)
      BY <1>1
    <3> QED BY <3>1, ElementOfSeq
  <2>2. 2 \in Int /\ n \in Int
    BY <1>1
  <2>3. /\ SubSeq(w, 2, n) \in Seq(Token)
        /\ Len(SubSeq(w, 2, n)) = IF 2 <= n THEN n - 2 + 1 ELSE 0
        /\ \A i \in 1..(n - 2 + 1) : SubSeq(w, 2, n)[i] = w[2 + i - 1]
    <3> HIDE DEF n
    <3> QED BY <2>1, <2>2, SubSeqProperties
  <2>4. Len(SubSeq(w, 2, n)) = Len(v)
    BY <1>1, <2>3
  <2>5. ASSUME NEW i \in 1..Len(v) PROVE SubSeq(w, 2, n)[i] = v[i]
    <3>1. i \in 1..(n - 2 + 1) /\ 2 + i - 1 = 1 + i
      BY <1>1
    <3>2. SubSeq(w, 2, n)[i] = w[2 + i - 1]
      BY <2>3, <3>1
    <3>3. w[1 + i] = v[i]
      OBVIOUS
    <3> QED BY <3>1, <3>2, <3>3
  <2> HIDE DEF n
  <2> QED BY <2>3, <2>4, <2>5, SeqEqual
<1>9. kept # {}
  BY <1>3
<1>10. Trim(w) = SubSeq(w, First(kept), last)
  BY <1>9 DEF Trim
<1> QED BY <1>5, <1>7, <1>8, <1>10

(* What parseField reads in the line of a field.                            *)
FieldRead(g, f) ==
  LET colon == Find(g, ":") IN
  /\ colon # 0
  /\ Before(g, colon) = f.name
  /\ Find(After(g, colon), "NUL") = 0 <=> Find(f.value, "NUL") = 0
  /\ Trim(After(g, colon)) = f.value

(* The line of a field with a colon, searched and trimmed, gives the field  *)
(* back; it is no empty line and holds no line break.                       *)
LEMMA FieldLineRead ==
  ASSUME NEW f, FieldType(f), f.colon
  PROVE  /\ FieldRead(FieldLine(f), f)
         /\ FieldLine(f) \in Seq(Token) /\ FieldLine(f) # <<>> /\ NoBreak(FieldLine(f))
         /\ FieldLine(f)[1] = "SP" => Find(f.name, "SP") # 0
<1>1. PICK a \in Seq(Token), b \in Seq(Token), c \in Seq(Token) :
        a = f.name /\ b = f.value /\ c = f.pad
  BY DEF FieldType
<1>2. /\ \A i \in 1..Len(a) : a[i] \notin {"CR", "LF", ":"}
      /\ \A i \in 1..Len(b) : b[i] \notin {"CR", "LF"}
      /\ b # <<>> /\ b[1] # "SP" /\ b[Len(b)] # "SP"
  BY <1>1 DEF FieldType
<1>3. PICK g \in Seq(Token) :
        /\ g = FieldLine(f)
        /\ Len(g) = Len(a) + 2 + Len(b) + Len(c)
        /\ \A i \in 1..Len(a) : g[i] = a[i]
        /\ g[Len(a) + 1] = ":" /\ g[Len(a) + 2] = "SP"
        /\ \A i \in 1..Len(b) : g[Len(a) + 2 + i] = b[i]
        /\ \A i \in 1..Len(c) : g[Len(a) + 2 + Len(b) + i] = "SP"
  <2>1. LineShape(FieldLine(f), f)
    BY FieldLineShape
  <2> QED BY <1>1, <2>1, ZenonT(80) DEF LineShape
<1>4. Len(a) \in Nat /\ Len(b) \in Nat /\ Len(c) \in Nat /\ Len(b) >= 1
  BY <1>2, LenProperties, EmptySeq
<1> DEFINE n == Len(a)
<1>5. Find(g, ":") = n + 1
  <2>1. n + 1 \in 1..Len(g) /\ n + 1 - 1 = n
    BY <1>3, <1>4
  <2>2. \A j \in 1..(n + 1 - 1) : g[j] # ":"
    BY <1>2, <1>3, <2>1
  <2>3. g[n + 1] = ":"
    BY <1>3
  <2>4. PICK k \in 1..Len(g) : k = n + 1
    BY <2>1
  <2>5. g[k] = ":" /\ \A j \in 1..(k - 1) : g[j] # ":"
    BY <2>2, <2>3, <2>4
  <2>6. Find(g, ":") = k
    BY <2>5, FindIs
  <2> QED BY <2>4, <2>6
<1>6. SubSeq(g, 1, n + 1 - 1) = a
  <2>1. n + 1 - 1 = n /\ n \in Int /\ 1 \in Int
    BY <1>4
  <2>2. \A i \in 1..n : g[i] \in Token
    BY <1>3, ElementOfSeq
  <2>3. /\ SubSeq(g, 1, n) \in Seq(Token)
        /\ Len(SubSeq(g, 1, n)) = IF 1 <= n THEN n - 1 + 1 ELSE 0
        /\ \A i \in 1..(n - 1 + 1) : SubSeq(g, 1, n)[i] = g[1 + i - 1]
    <3> HIDE DEF n
    <3> QED BY <2>1, <2>2, SubSeqProperties
  <2>4. Len(SubSeq(g, 1, n)) = Len(a)
    BY <1>4, <2>3
  <2>5. ASSUME NEW i \in 1..Len(a) PROVE SubSeq(g, 1, n)[i] = a[i]
    <3>1. i \in 1..(n - 1 + 1) /\ 1 + i - 1 = i
      BY <1>4
    <3>2. SubSeq(g, 1, n)[i] = g[1 + i - 1]
      BY <2>3, <3>1
    <3>3. g[i] = a[i]
      BY <1>3
    <3> QED BY <3>1, <3>2, <3>3
  <2>6. SubSeq(g, 1, n) = a
    <3> HIDE DEF n
    <3> QED BY <2>3, <2>4, <2>5, SeqEqual
  <2> QED BY <2>1, <2>6
<1>7. PICK w \in Seq(Token) :
        /\ w = SubSeq(g, n + 1 + 1, Len(g))
        /\ Len(w) = 1 + Len(b) + Len(c)
        /\ \A i \in 1..Len(w) : w[i] = g[n + 1 + i]
  <2>1. n + 1 + 1 \in Int /\ Len(g) \in Int /\ n + 1 + 1 <= Len(g)
        /\ Len(g) - (n + 1 + 1) + 1 = 1 + Len(b) + Len(c)
    BY <1>3, <1>4
  <2>2. ASSUME NEW i \in (n + 1 + 1)..Len(g) PROVE g[i] \in Token
    <3>1. i \in 1..Len(g)
      BY <1>3, <1>4
    <3> QED BY <3>1, ElementOfSeq
  <2> DEFINE k == n + 1 + 1
  <2>3. /\ SubSeq(g, k, Len(g)) \in Seq(Token)
        /\ Len(SubSeq(g, k, Len(g))) = IF k <= Len(g) THEN Len(g) - k + 1 ELSE 0
        /\ \A i \in 1..(Len(g) - k + 1) : SubSeq(g, k, Len(g))[i] = g[k + i - 1]
    <3>1. k \in Int /\ Len(g) \in Int /\ \A i \in k..Len(g) : g[i] \in Token
      BY <2>1, <2>2
    <3> HIDE DEF k
    <3> QED BY <3>1, SubSeqProperties
  <2>4. Len(SubSeq(g, k, Len(g))) = 1 + Len(b) + Len(c)
    BY <2>1, <2>3
  <2>5. ASSUME NEW i \in 1..(1 + Len(b) + Len(c))
        PROVE  SubSeq(g, k, Len(g))[i] = g[n + 1 + i]
    <3>1. i \in 1..(Len(g) - k + 1) /\ k + i - 1 = n + 1 + i
      BY <1>4, <2>1
    <3>2. SubSeq(g, k, Len(g))[i] = g[k + i - 1]
      BY <2>3, <3>1
    <3> QED BY <3>1, <3>2
  <2>6. SubSeq(g, k, Len(g)) = SubSeq(g, n + 1 + 1, Len(g))
    OBVIOUS
  <2> HIDE DEF k, n
  <2> QED BY <2>3, <2>4, <2>5, <2>6
<1>8. w[1] = "SP"
  <2>1. 1 \in 1..Len(w) /\ n + 1 + 1 = n + 2
    BY <1>4, <1>7
  <2>2. w[1] = g[n + 1 + 1]
    BY <1>7, <2>1
  <2> QED BY <1>3, <2>1, <2>2
<1>9. ASSUME NEW i \in 1..Len(b) PROVE w[1 + i] = b[i] /\ 1 + i \in 1..Len(w)
  <2>0. Len(w) = 1 + Len(b) + Len(c) /\ i \in Nat /\ i >= 1 /\ i <= Len(b) /\ n \in Nat
    BY <1>4, <1>7
  <2>1. 1 + i \in 1..Len(w) /\ n + 1 + (1 + i) = n + 2 + i
    <3> HIDE DEF n
    <3> QED BY <1>4, <2>0
  <2>2. w[1 + i] = g[n + 1 + (1 + i)]
    BY <1>7, <2>1
  <2>3. g[n + 2 + i] = b[i]
    BY <1>3
  <2> QED BY <2>1, <2>2, <2>3
<1>10. ASSUME NEW i \in (Len(b) + 2)..Len(w) PROVE w[i] = "SP"
  <2> DEFINE j == i - Len(b) - 1
  <2>1. /\ i \in 1..Len(w) /\ j \in 1..Len(c)
        /\ n + 1 + i = n + 2 + Len(b) + j
    BY <1>4, <1>7
  <2>2. w[i] = g[n + 1 + i]
    BY <1>7, <2>1
  <2>3. g[n + 2 + Len(b) + j] = "SP"
    <3> HIDE DEF j
    <3> QED BY <1>3, <2>1
  <2> QED BY <2>1, <2>2, <2>3
<1>11. Trim(w) = b
  <2>1. Len(w) >= Len(b) + 1
    BY <1>4, <1>7
  <2> QED BY <1>2, <1>4, <1>8, <1>9, <1>10, <2>1, TrimIs
<1>12. Find(w, "NUL") = 0 <=> Find(b, "NUL") = 0
  <2>1. ASSUME NEW i \in 1..Len(w), w[i] = "NUL"
        PROVE  \E j \in 1..Len(b) : b[j] = "NUL"
    <3>1. i # 1 /\ i \notin (Len(b) + 2)..Len(w)
      BY <1>8, <1>10, <2>1
    <3>2. i - 1 \in 1..Len(b) /\ 1 + (i - 1) = i
      BY <1>4, <1>7, <3>1
    <3>3. w[1 + (i - 1)] = b[i - 1]
      BY <1>9, <3>2
    <3> QED BY <2>1, <3>2, <3>3
  <2>2. ASSUME NEW j \in 1..Len(b), b[j] = "NUL"
        PROVE  \E i \in 1..Len(w) : w[i] = "NUL"
    BY <1>9, <2>2
  <2>3. Find(w, "NUL") = 0 <=> \A i \in 1..Len(w) : w[i] # "NUL"
    BY FindNone
  <2>4. Find(b, "NUL") = 0 <=> \A i \in 1..Len(b) : b[i] # "NUL"
    BY FindNone
  <2> QED BY <2>1, <2>2, <2>3, <2>4
<1>13. FieldRead(g, f)
  <2>1. Before(g, n + 1) = a
    BY <1>6 DEF Before
  <2>2. After(g, n + 1) = w
    BY <1>7 DEF After
  <2>3. n + 1 # 0
    BY <1>4
  <2> HIDE DEF n
  <2> QED BY <1>1, <1>5, <1>11, <1>12, <2>1, <2>2, <2>3 DEF FieldRead
<1>14. g # <<>>
  <2>1. Len(g) >= 1 /\ Len(<<>>) = 0
    BY <1>3, <1>4
  <2> QED BY <2>1
<1>15. NoBreak(g)
  <2>1. ASSUME NEW j \in 1..(Len(g) - 1), g[j] = "CR"
        PROVE  FALSE
    <3>1. j \in Nat /\ j >= 1 /\ j <= Len(g)
      BY <1>3, <1>4
    <3>2. CASE j <= n
      BY <1>2, <1>3, <1>4, <2>1, <3>1, <3>2
    <3>3. CASE j = n + 1 \/ j = n + 2
      BY <1>3, <2>1, <3>3
    <3>4. CASE j > n + 2 /\ j <= n + 2 + Len(b)
      <4>1. j - n - 2 \in 1..Len(b) /\ n + 2 + (j - n - 2) = j
        BY <1>4, <3>1, <3>4
      <4>2. g[n + 2 + (j - n - 2)] = b[j - n - 2]
        BY <1>3, <4>1
      <4> QED BY <1>2, <2>1, <4>1, <4>2
    <3>5. CASE j > n + 2 + Len(b)
      <4> DEFINE k == j - n - 2 - Len(b)
      <4>1. k \in 1..Len(c) /\ n + 2 + Len(b) + k = j
        BY <1>3, <1>4, <3>1, <3>5
      <4>2. g[n + 2 + Len(b) + k] = "SP"
        <5> HIDE DEF k
        <5> QED BY <1>3, <4>1
      <4> QED BY <2>1, <4>1, <4>2
    <3>6. n \in Nat /\ Len(b) \in Nat
      BY <1>4
    <3> HIDE DEF n
    <3> QED BY <3>1, <3>2, <3>3, <3>4, <3>5, <3>6
  <2> QED BY <2>1 DEF NoBreak
<1>16. g[1] = "SP" => Find(a, "SP") # 0
  <2>1. CASE n = 0
    BY <1>3, <2>1
  <2>2. CASE n # 0
    <3>1. 1 \in 1..Len(a)
      BY <1>4, <2>2
    <3>2. g[1] = a[1]
      BY <1>3, <3>1
    <3>3. Find(a, "SP") = 0 => a[1] # "SP"
      BY <3>1, FindNone
    <3> QED BY <3>2, <3>3
  <2> QED BY <2>1, <2>2
<1> QED BY <1>1, <1>3, <1>13, <1>14, <1>15, <1>16

(* A line without a colon is read as such; it is no empty line and holds no *)
(* line break either.                                                       *)
LEMMA ColonlessRead ==
  ASSUME NEW f, FieldType(f), ~f.colon
  PROVE  /\ Find(FieldLine(f), ":") = 0
         /\ FieldLine(f) \in Seq(Token) /\ FieldLine(f) # <<>> /\ NoBreak(FieldLine(f))
         /\ FieldLine(f)[1] = "SP" => Find(f.name, "SP") # 0
<1>1. PICK a \in Seq(Token) : a = f.name
  BY DEF FieldType
<1>2. FieldLine(f) = a /\ a # <<>> /\ \A i \in 1..Len(a) : a[i] \notin {"CR", "LF", ":"}
  BY <1>1 DEF FieldLine, FieldType
<1>3. Find(a, ":") = 0
  <2>1. \A i \in 1..Len(a) : a[i] # ":"
    BY <1>2
  <2> QED BY <2>1, FindNone
<1>4. Len(a) \in Nat /\ Len(a) >= 1
  BY <1>2, LenProperties, EmptySeq
<1>5. NoBreak(a)
  <2>1. \A j \in 1..(Len(a) - 1) : j \in 1..Len(a)
    BY <1>4
  <2> QED BY <1>2, <2>1 DEF NoBreak
<1>6. a[1] = "SP" => Find(a, "SP") # 0
  <2>1. 1 \in 1..Len(a)
    BY <1>4
  <2> QED BY <2>1, FindNone
<1> QED BY <1>1, <1>2, <1>3, <1>5, <1>6

(* Every field makes a line.                                                *)
LEMMA FieldLineSeq ==
  ASSUME NEW f, FieldType(f)
  PROVE  /\ FieldLine(f) \in Seq(Token) /\ FieldLine(f) # <<>> /\ NoBreak(FieldLine(f))
         /\ FieldLine(f)[1] = "SP" => Find(f.name, "SP") # 0
<1>1. CASE f.colon
  BY <1>1, FieldLineRead
<1>2. CASE ~f.colon
  BY <1>2, ColonlessRead
<1> QED BY <1>1, <1>2

-----------------------------------------------------------------------------
(* What a request is made of.                                               *)
MessageType(m) ==
  /\ m.method \in Word /\ m.uri \in Word /\ m.protocol \in Word
  /\ Len(m.fields) \in Nat /\ m.head \in 1..Len(m.fields)
  /\ \A i \in 1..Len(m.fields) : FieldType(m.fields[i])
  /\ Len(m.chunks) \in Nat
  /\ \A i \in 1..(m.head + 1) : m.lines[i] \in Seq(Token)
  /\ \A i \in 1..(Len(m.fields) + 1) : m.trail[i] \in Seq(Token)
  /\ \A i \in 1..(Len(m.chunks) + 1) : m.parts[i] \in Seq(Token)
  /\ \A i \in 1..(Len(m.chunks) + 1) : m.upto[i] \in Seq(Token)
  /\ \A i \in 1..Len(m.chunks) : m.chunks[i] \in Seq(Token)
  /\ m.body \in Seq(Token) /\ Len(m.body) \in 0..MaxSize

(* The messages that have the shape of a request.                           *)
Fitting == {m \in Messages : Fits(m)}

(* Every request has the parts the parser is to find.                       *)
LEMMA MessageTyped ==
  ASSUME NEW m \in Fitting
  PROVE  MessageType(m) /\ Rendered(m) /\ Framed(m) /\ m.framing \in Framing
<1>1. m.body \in Seq(Token) /\ IsRequest(m)
  BY MessagesAssumption DEF Fitting, IsMessage
<1>2. Rendered(m) /\ Framed(m) /\ m.framing \in Framing
  BY <1>1 DEF IsRequest
<1>3. m.method \in Word /\ m.uri \in Word /\ m.protocol \in Word
  BY <1>1 DEF IsRequest
<1>4. Len(m.fields) \in Nat /\ m.head \in 1..Len(m.fields)
  <2>1. m.fields \in Seq([colon : BOOLEAN, name : Seq(Token), value : Seq(Token),
                       pad : Seq(Token)])
        /\ m.head \in 1..Len(m.fields)
    BY <1>1 DEF IsRequest
  <2> QED BY <2>1, LenProperties
<1>5. \A i \in 1..Len(m.fields) : FieldType(m.fields[i])
  <2>1. \A i \in 1..Len(m.fields) : IsField(m.fields[i])
    BY <1>1 DEF IsRequest
  <2> QED BY <2>1, FieldTyped
<1>6. /\ Len(m.chunks) \in Nat
      /\ \A i \in 1..Len(m.chunks) : m.chunks[i] \in Seq(Token)
  <2>1. m.chunks \in Seq(Seq(Token))
    BY <1>1 DEF IsRequest
  <2> QED BY <2>1, LenProperties, ElementOfSeq
<1>7. /\ Len(m.lines) = m.head + 1 /\ Len(m.trail) = Len(m.fields) + 1
      /\ Len(m.parts) = Len(m.chunks) + 1 /\ Len(m.upto) = Len(m.chunks) + 1
  BY <1>2 DEF Rendered
<1>8. /\ m.lines \in Seq(Seq(Token)) /\ m.trail \in Seq(Seq(Token))
      /\ m.parts \in Seq(Seq(Token)) /\ m.upto \in Seq(Seq(Token))
  BY <1>1 DEF IsRequest
<1>9. /\ \A i \in 1..Len(m.lines) : m.lines[i] \in Seq(Token)
      /\ \A i \in 1..Len(m.trail) : m.trail[i] \in Seq(Token)
      /\ \A i \in 1..Len(m.parts) : m.parts[i] \in Seq(Token)
      /\ \A i \in 1..Len(m.upto) : m.upto[i] \in Seq(Token)
  BY <1>8, ElementOfSeq
<1>10. m.body \in Seq(Token) /\ Len(m.body) \in 0..MaxSize
  <2>1. m.body \in Seq(Token) /\ Len(m.body) <= MaxSize
    BY <1>1 DEF IsRequest
  <2>2. Len(m.body) \in Nat
    BY <2>1, LenProperties
  <2> QED BY <2>1, <2>2, NumbersAssumption
<1> QED BY <1>2, <1>3, <1>4, <1>5, <1>6, <1>7, <1>9, <1>10 DEF MessageType

(* The type and the length of a line and what follows it.                   *)
LEMMA LinedSeq ==
  ASSUME NEW t \in Seq(Token), NEW y \in Seq(Token)
  PROVE  Lined(t, y) \in Seq(Token) /\ Len(Lined(t, y)) = Len(t) + 2 + Len(y)
<1>1. t \o CRLF \in Seq(Token) /\ Len(t \o CRLF) = Len(t) + 2
  BY LineSeq
<1> QED BY <1>1, Cat DEF Lined

(* More behind a line and what follows it is more behind what follows.      *)
LEMMA LinedOnto ==
  ASSUME NEW t \in Seq(Token), NEW y \in Seq(Token), NEW f \in Seq(Token)
  PROVE  Lined(t, y) \o f = Lined(t, y \o f)
<1>1. t \o CRLF \in Seq(Token)
  BY LineSeq
<1> QED BY <1>1, Assoc DEF Lined

(* A line break is the line break of an empty line.                         *)
LEMMA EmptyLine ==
  ASSUME NEW y \in Seq(Token)
  PROVE  CRLF \o y = Lined(<<>>, y) /\ <<>> \in Seq(Token) /\ NoBreak(<<>>)
<1>1. <<>> \in Seq(Token) /\ Len(<<>>) = 0
  BY EmptySeq
<1>2. <<>> \o CRLF = CRLF
  BY CrlfSeq, ConcatEmptySeq
<1> QED BY <1>1, <1>2 DEF Lined, NoBreak

(* A line of one word.                                                      *)
LEMMA ShortLine ==
  ASSUME NEW a \in Token
  PROVE  /\ <<a>> \in Seq(Token) /\ Len(<<a>>) = 1 /\ <<a>>[1] = a
         /\ NoBreak(<<a>>) /\ <<a>> # <<>>
<1>1. <<a>> \in Seq(Token) /\ Len(<<a>>) = 1 /\ <<a>>[1] = a
  OBVIOUS
<1> QED BY <1>1 DEF NoBreak

(* The text of a request: its start line and its fields.                    *)
StartLine(m) == <<m.method, "SP", m.uri, "SP", m.protocol>>

(* The text of a request is its start line and its fields, perhaps after    *)
(* an empty line.                                                           *)
LEMMA StartSeq ==
  ASSUME NEW m \in Fitting
  PROVE  /\ StartLine(m) \in Seq(Token) /\ NoBreak(StartLine(m))
         /\ StartLine(m) # <<>> /\ StartLine(m)[1] # "SP"
         /\ m.lines[1] \in Seq(Token)
         /\ Start(m) = Lined(StartLine(m), m.lines[1])
         /\ Start(m) \in Seq(Token) /\ Text(m) \in Seq(Token)
         /\ Text(m) = Start(m) \/ Text(m) = Lined(<<>>, Start(m))
<1>1. MessageType(m)
  BY MessageTyped
<1>2. PICK a \in Word, b \in Word, c \in Word :
        a = m.method /\ b = m.uri /\ c = m.protocol
  BY <1>1 DEF MessageType
<1>3. "SP" \in Token /\ a \in Token /\ b \in Token /\ c \in Token
  BY TokenAssumption DEF Word
<1>4. PICK s : s = <<a, "SP", b, "SP", c>>
  OBVIOUS
<1>5. /\ s \in Seq(Token) /\ Len(s) = 5
      /\ s[1] = a /\ s[2] = "SP" /\ s[3] = b /\ s[4] = "SP" /\ s[5] = c
  BY <1>3, <1>4
<1>6. s = StartLine(m)
  BY <1>2, <1>4 DEF StartLine
<1>7. NoBreak(s) /\ s # <<>> /\ s[1] # "SP"
  <2>1. ASSUME NEW j \in 1..(Len(s) - 1) PROVE s[j + 1] # "LF"
    <3>1. j \in 1..4 /\ j + 1 \in 2..5
      BY <1>5
    <3> QED BY <1>5, <3>1 DEF Word
  <2>2. NoBreak(s)
    BY <2>1 DEF NoBreak
  <2>3. s[1] # "SP"
    BY <1>5 DEF Word
  <2>4. s # <<>>
    <3>1. Len(s) = 5 /\ Len(<<>>) = 0
      BY <1>5
    <3> QED BY <3>1, SMTT(30)
  <2> QED BY <2>2, <2>3, <2>4
<1>8. m.lines[1] \in Seq(Token)
  BY <1>1 DEF MessageType
<1>9. Start(m) = Lined(StartLine(m), m.lines[1])
  BY DEF Start, StartLine
<1>10. Start(m) \in Seq(Token) /\ Len(Start(m)) = 5 + 2 + Len(m.lines[1])
  <2>1. PICK z \in Seq(Token) : z = m.lines[1]
    BY <1>8
  <2>2. /\ Lined(s, z) \in Seq(Token)
        /\ Len(Lined(s, z)) = Len(s) + 2 + Len(z)
    BY <1>5, LinedSeq
  <2>3. Start(m) = Lined(s, z)
    BY <1>6, <1>9, <2>1, Zenon
  <2> QED BY <1>5, <2>1, <2>2, <2>3
<1>11. m.lead \in {<<>>, CRLF}
  BY MessagesAssumption DEF Fitting, IsMessage, IsRequest
<1>14. Text(m) = m.lead \o Start(m)
  BY DEF Text, Fitting
<1>12. CASE m.lead = <<>>
  <2>1. Text(m) = Start(m)
    BY <1>10, <1>12, <1>14, ConcatEmptySeq
  <2>2. Len(m.lines[1]) \in Nat
    BY <1>8, LenProperties
  <2> QED BY <1>5, <1>6, <1>7, <1>8, <1>9, <1>10, <2>1, <2>2
<1>13. CASE m.lead = CRLF
  <2>1. Text(m) = Lined(<<>>, Start(m)) /\ <<>> \in Seq(Token)
    BY <1>10, <1>13, <1>14, EmptyLine
  <2>2. Text(m) \in Seq(Token) /\ Len(Text(m)) = Len(<<>>) + 2 + Len(Start(m))
    BY <1>10, <2>1, LinedSeq
  <2>3. Len(m.lines[1]) \in Nat /\ Len(<<>>) = 0
    BY <1>8, LenProperties, EmptySeq
  <2> QED BY <1>5, <1>6, <1>7, <1>8, <1>9, <1>10, <2>1, <2>2, <2>3
<1> QED BY <1>11, <1>12, <1>13

(* Whatever a client sends is a stream of bytes.                            *)
LEMMA TextSeq ==
  ASSUME NEW m \in Messages
  PROVE  Text(m) \in Seq(Token)
<1>1. CASE Fits(m)
  BY <1>1, StartSeq DEF Fitting
<1>2. CASE ~Fits(m)
  BY <1>2, MessagesAssumption DEF Text, IsMessage
<1> QED BY <1>1, <1>2

(* The body grows chunk by chunk.                                           *)
LEMMA UptoGrows ==
  ASSUME NEW m \in Fitting, Chunked(m), NEW i \in 1..(Len(m.chunks) + 1)
  PROVE  Len(m.upto[i]) \in 0..MaxSize
<1>1. MessageType(m) /\ Rendered(m)
  BY MessageTyped
<1> DEFINE last == Len(m.chunks) + 1
<1>2. last \in Nat /\ last >= 1 /\ MaxSize \in Nat
  BY <1>1, NumbersAssumption DEF MessageType
<1>3. \A j \in 1..last : m.upto[j] \in Seq(Token) /\ Len(m.upto[j]) \in Nat
  BY <1>1, LenProperties DEF MessageType
<1>4. ASSUME NEW j \in 1..Len(m.chunks)
      PROVE  Len(m.upto[j]) <= Len(m.upto[j + 1])
  <2>1. m.upto[j + 1] = m.upto[j] \o m.chunks[j]
    BY <1>1 DEF Rendered
  <2>2. m.chunks[j] \in Seq(Token) /\ m.upto[j] \in Seq(Token)
    BY <1>1, <1>2, <1>3 DEF MessageType
  <2>3. /\ Len(m.upto[j + 1]) = Len(m.upto[j]) + Len(m.chunks[j])
        /\ Len(m.upto[j]) \in Nat /\ Len(m.chunks[j]) \in Nat
    BY <2>1, <2>2, Cat
  <2>4. \A a, b, c \in Nat : a = b + c => b <= a
    OBVIOUS
  <2>5. Len(m.upto[j + 1]) \in Nat
    BY <1>2, <1>3
  <2> QED BY <2>3, <2>4, <2>5
<1>5. Len(m.upto[last]) <= MaxSize
  <2>1. m.upto[Len(m.chunks) + 1] = m.body
    BY <1>1 DEF Rendered
  <2>2. Len(m.body) <= MaxSize
    BY <1>1, <1>2 DEF MessageType
  <2> QED BY <2>1, <2>2
<1> DEFINE S == {k \in 0..last : \E j \in 1..last : j + k = last /\ Len(m.upto[j]) > MaxSize}
<1>6. S = {}
  <2> SUFFICES ASSUME S # {} PROVE FALSE
    OBVIOUS
  <2>1. S \subseteq Nat
    BY <1>2
  <2>2. PICK k \in S : \A j \in S : k <= j
    <3> HIDE DEF S
    <3> QED BY <2>1, Least
  <2>3. PICK j \in 1..last : j + k = last /\ Len(m.upto[j]) > MaxSize
    OBVIOUS
  <2>4. k \in Nat /\ k # 0
    BY <1>2, <1>5, <2>1, <2>3
  <2>5. /\ j \in 1..Len(m.chunks) /\ j + 1 \in 1..last /\ k - 1 \in 0..last
        /\ j + 1 + (k - 1) = last
    BY <1>2, <2>3, <2>4, SMTT(30)
  <2>6. Len(m.upto[j]) <= Len(m.upto[j + 1])
    BY <1>4, <2>5
  <2>7. Len(m.upto[j]) \in Nat /\ Len(m.upto[j + 1]) \in Nat
    <3> HIDE DEF last
    <3> QED BY <1>3, <2>5
  <2>8. Len(m.upto[j + 1]) > MaxSize
    BY <1>2, <2>3, <2>6, <2>7, SMTT(30)
  <2>9. k - 1 \in S
    <3> HIDE DEF last
    <3> QED BY <2>5, <2>8
  <2>10. k <= k - 1
    <3> HIDE DEF S
    <3> QED BY <2>2, <2>9
  <2> QED BY <2>4, <2>10
<1>7. ~(Len(m.upto[i]) > MaxSize)
  <2>1. i \in 1..last /\ last - i \in 0..last /\ i + (last - i) = last
    BY <1>2
  <2> HIDE DEF last
  <2> QED BY <1>6, <2>1
<1>8. Len(m.upto[i]) \in Nat
  BY <1>3
<1> QED BY <1>2, <1>7, <1>8

(* Data without a line break is a line.                                     *)
LEMMA Whole ==
  ASSUME NEW c \in Seq(Token), FindCrlf(c) = 0
  PROVE  NoBreak(c)
<1> DEFINE S == {j \in 1..(Len(c) - 1) : c[j] = "CR" /\ c[j + 1] = "LF"}
<1>1. S \subseteq Nat \ {0}
  OBVIOUS
<1>2. First(S) = 0
  BY DEF FindCrlf
<1>3. S = {}
  BY <1>1, <1>2, FirstNone
<1> QED BY <1>3 DEF NoBreak

(* Data with a line break is never taken for a line of its own length.      *)
LEMMA Broken ==
  ASSUME NEW l \in Seq(Token), NEW r \in Seq(Token),
         NEW c \in Seq(Token), NEW y \in Seq(Token),
         l \o r = c \o y, FindCrlf(c) # 0, FindCrlf(l) # 0
  PROVE  Len(Before(l, FindCrlf(l))) # Len(c)
<1> DEFINE S == {j \in 1..(Len(c) - 1) : c[j] = "CR" /\ c[j + 1] = "LF"}
           L == {j \in 1..(Len(l) - 1) : l[j] = "CR" /\ l[j + 1] = "LF"}
<1>1. Len(c) \in Nat /\ Len(l) \in Nat
  BY LenProperties
<1>2. S \subseteq Nat \ {0} /\ L \subseteq Nat \ {0}
  BY <1>1
<1>3. First(S) # 0 /\ First(L) # 0
  BY DEF FindCrlf
<1>4. S # {} /\ L # {}
  <2> HIDE DEF S, L
  <2> QED BY <1>2, <1>3, FirstNone
<1>5. PICK j \in S : TRUE
  BY <1>4
<1>6. PICK k \in L : \A i \in L : k <= i
  <2> HIDE DEF L
  <2> QED BY <1>2, <1>4, Least
<1>7. FindCrlf(l) = k
  <2>1. FindCrlf(l) = First(L)
    BY DEF FindCrlf
  <2> HIDE DEF L
  <2> QED BY <1>2, <1>6, <2>1, FirstIs
<1>8. j \in 1..(Len(c) - 1) /\ c[j] = "CR" /\ c[j + 1] = "LF" /\ k \in 1..(Len(l) - 1)
  OBVIOUS
<1>9. Len(Before(l, k)) = k - 1
  <2>1. /\ 1 \in Int /\ k - 1 \in Int /\ \A i \in 1..(k - 1) : l[i] \in Token
    BY <1>1, <1>8, ElementOfSeq
  <2>2. Len(SubSeq(l, 1, k - 1)) = IF 1 <= k - 1 THEN k - 1 - 1 + 1 ELSE 0
    BY <2>1, SubSeqProperties
  <2> QED BY <1>1, <1>8, <2>2 DEF Before
<1>10. ASSUME k - 1 = Len(c) PROVE FALSE
  <2>1. j \in 1..Len(l) /\ j <= Len(c) /\ j + 1 \in 1..Len(l) /\ j + 1 <= Len(c)
        /\ j \in 1..(Len(l) - 1) /\ ~(k <= j)
    BY <1>1, <1>8, <1>10
  <2>2. \A i \in 1..Len(l) : i <= Len(c) => l[i] = c[i]
    BY Prefix, SMTT(40)
  <2>3. l[j] = "CR" /\ l[j + 1] = "LF"
    BY <1>8, <2>1, <2>2
  <2>4. j \in L
    BY <2>1, <2>3
  <2> HIDE DEF L
  <2> QED BY <1>6, <2>1, <2>4
<1> QED BY <1>7, <1>9, <1>10

(* A line, read as what comes before its break and what comes then.         *)
LEMMA LinedParts ==
  ASSUME NEW t \in Seq(Token), NEW w \in Seq(Token)
  PROVE  \E z \in Seq(Token) : Lined(t, w) = t \o z
<1>1. CRLF \in Seq(Token)
  BY CrlfSeq
<1>2. CRLF \o w \in Seq(Token)
  BY <1>1, Cat
<1>3. (t \o CRLF) \o w = t \o (CRLF \o w)
  BY <1>1, Assoc, Zenon
<1> QED BY <1>2, <1>3 DEF Lined

(* A chunk: its bytes, its text, and the body up to it and with it.         *)
LEMMA ChunkFacts ==
  ASSUME NEW m \in Fitting, Chunked(m), NEW i \in 1..Len(m.chunks)
  PROVE  /\ m.chunks[i] \in Seq(Token)
         /\ Len(m.chunks[i]) \in 1..MaxSize
         /\ m.parts[i] = Lined(<<Hex[Len(m.chunks[i])]>>, Lined(m.chunks[i], m.parts[i + 1]))
         /\ m.parts[i + 1] \in Seq(Token)
         /\ m.upto[i] \in Seq(Token) /\ m.upto[i + 1] = m.upto[i] \o m.chunks[i]
         /\ Len(m.upto[i + 1]) = Len(m.upto[i]) + Len(m.chunks[i])
         /\ i + 1 \in 1..(Len(m.chunks) + 1)
<1>1. MessageType(m) /\ Rendered(m)
  BY MessageTyped
<1>2. PICK c \in Seq(Token) : c = m.chunks[i]
  BY <1>1 DEF MessageType
<1>3. /\ m.parts[i] = Lined(<<Hex[Len(m.chunks[i])]>>, Lined(m.chunks[i], m.parts[i + 1]))
      /\ m.upto[i + 1] = m.upto[i] \o m.chunks[i]
      /\ m.chunks[i] # <<>>
  BY <1>1 DEF Rendered
<1>4. i \in 1..(Len(m.chunks) + 1) /\ i + 1 \in 1..(Len(m.chunks) + 1)
  BY <1>1 DEF MessageType
<1>5. m.parts[i + 1] \in Seq(Token) /\ m.upto[i] \in Seq(Token) /\ m.upto[i + 1] \in Seq(Token)
  BY <1>1, <1>4 DEF MessageType
<1>7. /\ Len(m.upto[i + 1]) = Len(m.upto[i]) + Len(c)
      /\ Len(c) \in Nat /\ Len(m.upto[i]) \in Nat
  BY <1>2, <1>3, <1>5, Cat
<1>8. Len(m.upto[i + 1]) \in 0..MaxSize
  BY <1>4, UptoGrows
<1>9. Len(c) # 0
  BY <1>2, <1>3, EmptySeq
<1>10. Len(c) \in 1..MaxSize
  BY <1>7, <1>8, <1>9, NumbersAssumption
<1> QED BY <1>2, <1>3, <1>4, <1>5, <1>7, <1>10

(* A text of one word that is no white space: where a number in it would be. *)
LEMMA OneWord ==
  ASSUME NEW t \in Word
  PROVE  NumberAt(<<t>>) = 1
<1> DEFINE S == {i \in 1..Len(<<t>>) : <<t>>[i] \notin {"SP", "CR", "LF"}}
<1>1. 1 \in S /\ S \subseteq Nat \ {0} /\ \A j \in S : 1 <= j
  BY DEF Word
<1>2. First(S) = 1
  <2> HIDE DEF S
  <2> QED BY <1>1, FirstIs
<1> QED BY <1>2 DEF NumberAt

(* A number written alone is read as it is written, up to the end.          *)
LEMMA NumeralRead ==
  ASSUME NEW base, IsNumeral(base), NEW n \in -1..MaxSize
  PROVE  /\ HasNumber(<<Numeral(n, base)>>, base)
         /\ StrToL(<<Numeral(n, base)>>, base) = n
         /\ StrEnd(<<Numeral(n, base)>>, base) = 2
         /\ Numeral(n, base) \in Token /\ Numeral(n, base) # "NUL"
<1>1. MaxSize \in Nat
  BY NumbersAssumption
<1>2. \A k \in 0..MaxSize : base[k] \in Word \ {"-1", "NUL", "more"}
  BY DEF IsNumeral
<1>3. \A j, k \in 0..MaxSize : base[j] = base[k] => j = k
  BY DEF IsNumeral
<1>4. \A k \in Numbers : Numeral(k, base) = CASE k = -1 -> "-1"
                                                [] k \in 0..MaxSize -> base[k]
                                                [] OTHER -> "more"
  BY DEF Numeral
<1>5. n \in Numbers /\ (n = -1 \/ n \in 0..MaxSize)
  BY <1>1 DEF Numbers
<1>6. Numeral(n, base) = IF n = -1 THEN "-1" ELSE base[n]
  BY <1>4, <1>5
<1>7. \A k \in Numbers : Numeral(k, base) = Numeral(n, base) => k = n
  BY <1>1, <1>2, <1>3, <1>4, <1>5, <1>6 DEF Numbers
<1>8. PICK t : t = Numeral(n, base)
  OBVIOUS
<1>9. t \in Word /\ t # "NUL"
  BY <1>2, <1>5, <1>6, <1>8, TokenAssumption DEF Word
<1>10. NumberAt(<<t>>) = 1 /\ <<t>>[1] = t
  BY <1>9, OneWord
<1>11. HasNumber(<<t>>, base)
  BY <1>5, <1>8, <1>10 DEF HasNumber
<1>12. (CHOOSE k \in Numbers : <<t>>[NumberAt(<<t>>)] = Numeral(k, base)) = n
  BY <1>5, <1>7, <1>8, <1>10
<1>13. StrToL(<<t>>, base) = n /\ StrEnd(<<t>>, base) = 2
  BY <1>10, <1>11, <1>12 DEF StrToL, StrEnd
<1> QED BY <1>8, <1>9, <1>11, <1>13 DEF Word

(* Numbers up to MaxSize.                                                   *)
LEMMA NumberRead ==
  ASSUME NEW base, IsNumeral(base), NEW n \in 0..MaxSize
  PROVE  /\ StrToL(<<base[n]>>, base) = n /\ StrEnd(<<base[n]>>, base) = 2
         /\ Numeral(n, base) = base[n]
         /\ base[n] \in Token /\ base[n] # "NUL"
<1>1. n \in -1..MaxSize /\ n # -1
  BY NumbersAssumption
<1>2. Numeral(n, base) = base[n]
  BY <1>1 DEF Numeral
<1> QED BY <1>1, <1>2, NumeralRead

(* strtol of a negative content-length.                                     *)
LEMMA NegativeRead ==
  StrToL(<<"-1">>, Decimal) = -1
<1>1. -1 \in -1..MaxSize /\ IsNumeral(Decimal)
  BY NumbersAssumption
<1>2. Numeral(-1, Decimal) = "-1"
  BY DEF Numeral
<1> QED BY <1>1, <1>2, NumeralRead

-----------------------------------------------------------------------------
(* The headers of the first n fields: none at first, one more or one        *)
(* replaced by each field that counts.                                      *)
LEMMA NoHeaders ==
  ASSUME NEW m
  PROVE  HeadersOf(m, 0) = {}
BY DEF HeadersOf, Counting

HeaderOf(f) == [name |-> Lower(f.name), value |-> f.value]

(* Every header comes from a field that was taken.                          *)
LEMMA HeadersFrom ==
  ASSUME NEW m, NEW n \in Nat, NEW h \in HeadersOf(m, n)
  PROVE  \E i \in 1..n : /\ FieldOK(m.fields[i])
                         /\ h.name = Lower(m.fields[i].name)
                         /\ h.value = m.fields[i].value
BY DEF HeadersOf, Counting

(* A field that is refused adds no header.                                  *)
LEMMA HeadersSkip ==
  ASSUME NEW m, NEW n \in Nat, ~FieldOK(m.fields[n + 1])
  PROVE  HeadersOf(m, n + 1) = HeadersOf(m, n)
<1>1. Counting(m, n + 1) = Counting(m, n)
  <2>1. ASSUME NEW i \in Counting(m, n + 1) PROVE i \in Counting(m, n)
    <3>1. /\ i \in 1..(n + 1) /\ FieldOK(m.fields[i])
          /\ \A j \in (i + 1)..(n + 1) :
               FieldOK(m.fields[j]) => Lower(m.fields[j].name) # Lower(m.fields[i].name)
      BY DEF Counting
    <3>2. i \in 1..n
      <4>1. i # n + 1
        BY <3>1
      <4> QED BY <3>1, <4>1
    <3>3. \A j \in (i + 1)..n : j \in (i + 1)..(n + 1)
      BY <3>2
    <3> QED BY <3>1, <3>2, <3>3 DEF Counting
  <2>2. ASSUME NEW i \in Counting(m, n) PROVE i \in Counting(m, n + 1)
    <3>1. /\ i \in 1..n /\ FieldOK(m.fields[i])
          /\ \A j \in (i + 1)..n :
               FieldOK(m.fields[j]) => Lower(m.fields[j].name) # Lower(m.fields[i].name)
      BY DEF Counting
    <3>2. ASSUME NEW j \in (i + 1)..(n + 1), FieldOK(m.fields[j])
          PROVE  Lower(m.fields[j].name) # Lower(m.fields[i].name)
      <4>1. j # n + 1
        BY <3>2
      <4>2. j \in (i + 1)..n
        BY <3>1, <4>1
      <4> QED BY <3>1, <3>2, <4>2
    <3>3. i \in 1..(n + 1)
      BY <3>1
    <3> QED BY <3>1, <3>2, <3>3 DEF Counting
  <2> QED BY <2>1, <2>2
<1> QED BY <1>1 DEF HeadersOf

(* A field that is taken sets the header of its name (headers_[name] =      *)
(* value).                                                                  *)
LEMMA HeadersEntered ==
  ASSUME NEW m, NEW n \in Nat, FieldOK(m.fields[n + 1])
  PROVE  HeadersOf(m, n + 1) =
           Entered(HeadersOf(m, n), Lower(m.fields[n + 1].name), m.fields[n + 1].value)
<1> DEFINE name == Lower(m.fields[n + 1].name)
<1>1. ASSUME NEW i
      PROVE  i \in Counting(m, n + 1) <=>
               i = n + 1 \/ (i \in Counting(m, n) /\ Lower(m.fields[i].name) # name)
  <2>1. ASSUME i \in Counting(m, n + 1), i # n + 1
        PROVE  i \in Counting(m, n) /\ Lower(m.fields[i].name) # name
    <3>1. /\ i \in 1..(n + 1) /\ FieldOK(m.fields[i])
          /\ \A j \in (i + 1)..(n + 1) :
               FieldOK(m.fields[j]) => Lower(m.fields[j].name) # Lower(m.fields[i].name)
      BY <2>1 DEF Counting
    <3>2. i \in 1..n /\ n + 1 \in (i + 1)..(n + 1)
      BY <2>1, <3>1
    <3>3. \A j \in (i + 1)..n : j \in (i + 1)..(n + 1)
      BY <3>2
    <3>4. Lower(m.fields[i].name) # name
      BY <3>1, <3>2
    <3> QED BY <3>1, <3>2, <3>3, <3>4 DEF Counting
  <2>2. n + 1 \in Counting(m, n + 1)
    <3>1. n + 1 \in 1..(n + 1) /\ (n + 1 + 1)..(n + 1) = {}
      OBVIOUS
    <3> QED BY <3>1 DEF Counting
  <2>3. ASSUME i \in Counting(m, n), Lower(m.fields[i].name) # name
        PROVE  i \in Counting(m, n + 1)
    <3>1. /\ i \in 1..n /\ FieldOK(m.fields[i])
          /\ \A j \in (i + 1)..n :
               FieldOK(m.fields[j]) => Lower(m.fields[j].name) # Lower(m.fields[i].name)
      BY <2>3 DEF Counting
    <3>2. ASSUME NEW j \in (i + 1)..(n + 1), FieldOK(m.fields[j])
          PROVE  Lower(m.fields[j].name) # Lower(m.fields[i].name)
      <4>1. CASE j = n + 1
        BY <2>3, <4>1
      <4>2. CASE j # n + 1
        <5>1. j \in (i + 1)..n
          BY <3>1, <4>2
        <5> QED BY <3>1, <3>2, <5>1
      <4> QED BY <4>1, <4>2
    <3>3. i \in 1..(n + 1)
      BY <3>1
    <3> QED BY <3>1, <3>2, <3>3 DEF Counting
  <2> QED BY <2>1, <2>2, <2>3
<1>2. \A k \in Nat : HeadersOf(m, k) = {HeaderOf(m.fields[i]) : i \in Counting(m, k)}
  BY DEF HeadersOf, HeaderOf
<1>3. \A i : HeaderOf(m.fields[i]).name = Lower(m.fields[i].name)
  BY DEF HeaderOf
<1>4. ASSUME NEW h \in HeadersOf(m, n + 1)
      PROVE  h \in Entered(HeadersOf(m, n), name, m.fields[n + 1].value)
  <2>1. n + 1 \in Nat
    OBVIOUS
  <2>2. PICK i \in Counting(m, n + 1) : h = HeaderOf(m.fields[i])
    BY <1>2, <2>1
  <2>3. CASE i = n + 1
    BY <2>2, <2>3 DEF Entered, HeaderOf
  <2>4. CASE i # n + 1
    <3>1. i \in Counting(m, n) /\ Lower(m.fields[i].name) # name
      BY <1>1, <2>4
    <3>2. h \in HeadersOf(m, n) /\ h.name # name
      BY <1>2, <1>3, <2>2, <3>1
    <3> QED BY <3>2 DEF Entered
  <2> QED BY <2>3, <2>4
<1>5. ASSUME NEW h \in Entered(HeadersOf(m, n), name, m.fields[n + 1].value)
      PROVE  h \in HeadersOf(m, n + 1)
  <2>1. n + 1 \in Nat
    OBVIOUS
  <2>2. CASE h = HeaderOf(m.fields[n + 1])
    <3>1. n + 1 \in Counting(m, n + 1)
      BY <1>1
    <3> QED BY <1>2, <2>1, <2>2, <3>1
  <2>3. CASE h \in HeadersOf(m, n) /\ h.name # name
    <3>1. PICK i \in Counting(m, n) : h = HeaderOf(m.fields[i])
      BY <1>2, <2>3
    <3>2. i \in Counting(m, n + 1)
      BY <1>1, <1>3, <2>3, <3>1
    <3> QED BY <1>2, <2>1, <3>1, <3>2
  <2> QED BY <2>2, <2>3 DEF Entered, HeaderOf
<1> QED BY <1>4, <1>5

(* One header of a name, and one of every name that a sound field has.      *)
LEMMA HeadersUnique ==
  ASSUME NEW m, NEW n \in Nat, NEW g \in HeadersOf(m, n), NEW h \in HeadersOf(m, n),
         g.name = h.name
  PROVE  g = h
<1>1. PICK i \in Counting(m, n) : g = HeaderOf(m.fields[i])
  BY DEF HeadersOf, HeaderOf
<1>2. PICK j \in Counting(m, n) : h = HeaderOf(m.fields[j])
  BY DEF HeadersOf, HeaderOf
<1>3. Lower(m.fields[i].name) = Lower(m.fields[j].name)
  BY <1>1, <1>2 DEF HeaderOf
<1>4. i \in 1..n /\ j \in 1..n /\ FieldOK(m.fields[i]) /\ FieldOK(m.fields[j])
  BY DEF Counting
<1>5. ~(i < j)
  <2>1. i < j => j \in (i + 1)..n
    BY <1>4
  <2> QED BY <1>3, <1>4, <2>1 DEF Counting
<1>6. ~(j < i)
  <2>1. j < i => i \in (j + 1)..n
    BY <1>4
  <2> QED BY <1>3, <1>4, <2>1 DEF Counting
<1>7. i = j
  BY <1>4, <1>5, <1>6
<1> QED BY <1>1, <1>2, <1>7

(* Every field that is taken has a header of its name.                      *)
LEMMA HeadersCover ==
  ASSUME NEW m, NEW n \in Nat, NEW i \in 1..n, FieldOK(m.fields[i])
  PROVE  \E h \in HeadersOf(m, n) : h.name = Lower(m.fields[i].name)
<1> DEFINE Same(j) == FieldOK(m.fields[j]) /\ Lower(m.fields[j].name) = Lower(m.fields[i].name)
           S == {k \in 0..n : \E j \in 1..n : j + k = n /\ Same(j)}
<1>1. S \subseteq Nat /\ S # {}
  <2>1. n - i \in 0..n /\ i + (n - i) = n
    OBVIOUS
  <2>2. n - i \in S
    BY <2>1
  <2>3. S \subseteq Nat
    OBVIOUS
  <2> HIDE DEF S
  <2> QED BY <2>2, <2>3
<1>2. PICK k \in S : \A j \in S : k <= j
  <2> HIDE DEF S
  <2> QED BY <1>1, Least
<1>3. PICK j \in 1..n : j + k = n /\ Same(j)
  OBVIOUS
<1>4. ASSUME NEW l \in (j + 1)..n, Same(l) PROVE FALSE
  <2>1. l \in 1..n /\ n - l \in 0..n /\ l + (n - l) = n /\ k \in Nat /\ n - l < k
    BY <1>3
  <2>2. n - l \in S
    BY <1>4, <2>1
  <2>3. k <= n - l
    <3> HIDE DEF S
    <3> QED BY <1>2, <2>2
  <2> QED BY <2>1, <2>3
<1>5. j \in Counting(m, n)
  BY <1>3, <1>4 DEF Counting
<1>6. HeaderOf(m.fields[j]) \in HeadersOf(m, n)
  BY <1>5 DEF HeadersOf, HeaderOf
<1>7. HeaderOf(m.fields[j]).name = Lower(m.fields[i].name)
  BY <1>3 DEF HeaderOf
<1> QED BY <1>6, <1>7

(* toLower keeps the length.                                                *)
LEMMA LowerSeq ==
  ASSUME NEW s \in Seq(Token)
  PROVE  Lower(s) \in Seq(Token) /\ Len(Lower(s)) = Len(s)
<1>1. \A i \in 1..Len(s) : s[i] \in Token
  BY ElementOfSeq
<1>2. "host" \in Token
  BY TokenAssumption
<1>3. \A i \in 1..Len(s) : ToLower(s[i]) \in Token
  BY <1>1, <1>2 DEF ToLower
<1>4. Len(s) \in Nat
  BY LenProperties
<1>5. Lower(s) \in [1..Len(s) -> Token]
  BY <1>3 DEF Lower
<1>6. Lower(s) \in Seq(Token)
  <2>1. Seq(Token) = UNION {[1..k -> Token] : k \in Nat}
    BY SeqDef
  <2>2. [1..Len(s) -> Token] \in {[1..k -> Token] : k \in Nat}
    BY <1>4
  <2> QED BY <1>5, <2>1, <2>2
<1>7. DOMAIN Lower(s) = 1..Len(Lower(s)) /\ Len(Lower(s)) \in Nat
  BY <1>6, LenProperties
<1>8. DOMAIN Lower(s) = 1..Len(s)
  BY DEF Lower
<1>9. \A a, b \in Nat : 1..a = 1..b => a = b
  <2>1. ASSUME NEW a \in Nat, NEW b \in Nat, 1..a = 1..b, a < b PROVE FALSE
    <3>1. b \in 1..b /\ b \notin 1..a
      BY <2>1
    <3> QED BY <2>1, <3>1
  <2>2. ASSUME NEW a \in Nat, NEW b \in Nat, 1..a = 1..b, b < a PROVE FALSE
    <3>1. a \in 1..a /\ a \notin 1..b
      BY <2>2
    <3> QED BY <2>2, <3>1
  <2> QED BY <2>1, <2>2
<1> QED BY <1>4, <1>6, <1>7, <1>8, <1>9

HeaderType == [name : Seq(Token), value : Seq(Token)]

(* Headers are pairs of byte strings.                                       *)
LEMMA HeadersTyped ==
  ASSUME NEW m \in Fitting, NEW n \in 0..Len(m.fields)
  PROVE  HeadersOf(m, n) \subseteq HeaderType
<1>1. ASSUME NEW h \in HeadersOf(m, n) PROVE h \in HeaderType
  <2>1. PICK i \in Counting(m, n) : h = HeaderOf(m.fields[i])
    BY DEF HeadersOf, HeaderOf
  <2>2. Len(m.fields) \in Nat /\ \A j \in 1..Len(m.fields) : FieldType(m.fields[j])
    BY MessageTyped DEF MessageType
  <2>3. i \in 1..Len(m.fields)
    BY <2>2 DEF Counting
  <2>4. m.fields[i].name \in Seq(Token) /\ m.fields[i].value \in Seq(Token)
    BY <2>2, <2>3 DEF FieldType
  <2>5. Lower(m.fields[i].name) \in Seq(Token)
    BY <2>4, LowerSeq
  <2> QED BY <2>1, <2>4, <2>5 DEF HeaderOf, HeaderType
<1> QED BY <1>1

-----------------------------------------------------------------------------
(* What the framing of a request tells of its fields.                       *)
LEMMA NameOK ==
  ASSUME NEW f, FieldType(f), NEW t, t # "SP", Lower(f.name) = <<t>>
  PROVE  Find(f.name, "SP") = 0
<1>1. f.name \in Seq(Token)
  BY DEF FieldType
<1>2. Len(f.name) = 1
  <2>1. Len(<<t>>) = 1
    OBVIOUS
  <2> QED BY <1>1, <2>1, LowerSeq
<1>3. ToLower(f.name[1]) = t
  <2>1. 1 \in 1..Len(f.name) /\ <<t>>[1] = t
    BY <1>2
  <2>2. Lower(f.name)[1] = ToLower(f.name[1])
    BY <2>1 DEF Lower
  <2> QED BY <2>1, <2>2
<1>4. f.name[1] # "SP"
  BY <1>3 DEF ToLower
<1>5. \A i \in 1..Len(f.name) : f.name[i] # "SP"
  BY <1>2, <1>4
<1> QED BY <1>1, <1>5, FindNone

(* A word other than NUL holds no NUL.                                      *)
LEMMA WordOK ==
  ASSUME NEW t \in Token, t # "NUL"
  PROVE  Find(<<t>>, "NUL") = 0
<1>1. <<t>> \in Seq(Token) /\ Len(<<t>>) = 1 /\ <<t>>[1] = t
  BY ShortLine
<1>2. \A i \in 1..Len(<<t>>) : <<t>>[i] # "NUL"
  BY <1>1
<1> QED BY <1>1, <1>2, FindNone

(* A field with the name t.                                                 *)
LEMMA FieldOf ==
  ASSUME NEW m \in Fitting, NEW t, NEW i \in Named(m, t)
  PROVE  /\ i \in 1..Len(m.fields) /\ FieldType(m.fields[i])
         /\ m.fields[i].colon /\ Lower(m.fields[i].name) = <<t>>
         /\ t # "SP" => Find(m.fields[i].name, "SP") = 0
<1>1. i \in 1..Len(m.fields) /\ m.fields[i].colon /\ Lower(m.fields[i].name) = <<t>>
  BY DEF Named
<1>2. FieldType(m.fields[i])
  BY <1>1, MessageTyped DEF MessageType
<1> QED BY <1>1, <1>2, NameOK

(* A content-length field has the value the framing says, and is taken when *)
(* that is a number.                                                        *)
LEMMA LengthField ==
  ASSUME NEW m \in Fitting, NEW i \in Named(m, "content-length")
  PROVE  /\ m.framing \in {"length", "negative", "garbled", "both"}
         /\ m.framing = "length" => m.fields[i].value = <<Decimal[Len(m.body)]>>
         /\ m.framing = "negative" => m.fields[i].value = <<"-1">>
         /\ m.framing = "garbled" => ~HasNumber(m.fields[i].value, Decimal)
         /\ m.framing \in {"length", "negative"} => FieldOK(m.fields[i])
<1>1. Framed(m) /\ MessageType(m)
  BY MessageTyped
<1>2. m.framing \in {"length", "negative", "garbled", "both"}
  BY <1>1 DEF Framed
<1>3. m.framing = "length" => m.fields[i].value = <<Decimal[Len(m.body)]>>
  BY <1>1 DEF Framed
<1>4. m.framing = "negative" => m.fields[i].value = <<"-1">>
  BY <1>1 DEF Framed
<1>10. m.framing = "garbled" => ~HasNumber(m.fields[i].value, Decimal)
  BY <1>1 DEF Framed
<1>5. Len(m.body) \in 0..MaxSize
  BY <1>1 DEF MessageType
<1>6. Decimal[Len(m.body)] \in Token /\ Decimal[Len(m.body)] # "NUL"
  BY <1>5, NumberRead, NumbersAssumption
<1>7. "-1" \in Token
  BY TokenAssumption
<1>8. m.framing \in {"length", "negative"} => Find(m.fields[i].value, "NUL") = 0
  BY <1>3, <1>4, <1>6, <1>7, WordOK
<1>9. m.fields[i].colon /\ Find(m.fields[i].name, "SP") = 0
  BY FieldOf
<1> QED BY <1>2, <1>3, <1>4, <1>8, <1>9, <1>10 DEF FieldOK, FieldBad

(* A transfer-encoding field is in the head, of a request that is in        *)
(* chunks or says that it is.                                               *)
LEMMA EncodingField ==
  ASSUME NEW m \in Fitting, NEW i \in Named(m, "transfer-encoding")
  PROVE  /\ Chunked(m) \/ m.framing = "both"
         /\ i \in 1..m.head
         /\ m.framing = "chunked" =>
              m.fields[i].value = <<"chunked">> /\ FieldOK(m.fields[i])
         /\ m.framing = "encoded" => Find(m.fields[i].value, "chunked") = 0
<1>1. Framed(m)
  BY MessageTyped
<1>2. (Chunked(m) \/ m.framing = "both") /\ i \in 1..m.head
  BY <1>1 DEF Framed, Chunked
<1>3. m.framing = "chunked" => m.fields[i].value = <<"chunked">>
  BY <1>1 DEF Framed
<1>4. m.framing = "encoded" => Find(m.fields[i].value, "chunked") = 0
  BY <1>1 DEF Framed
<1>5. m.fields[i].colon /\ Find(m.fields[i].name, "SP") = 0
  BY FieldOf
<1>6. Find(<<"chunked">>, "NUL") = 0
  BY TokenAssumption, WordOK
<1> QED BY <1>2, <1>3, <1>4, <1>5, <1>6 DEF FieldOK, FieldBad

(* A request without chunks has no trailer fields.                          *)
LEMMA HeadIsAll ==
  ASSUME NEW m \in Fitting, ~Chunked(m)
  PROVE  m.head = Len(m.fields)
BY MessageTyped DEF Rendered

(* A content-length, or a transfer-encoding, that the parser has taken.     *)
Sized(m)   == \E i \in Named(m, "content-length") : FieldOK(m.fields[i])
Encoded(m) == \E i \in Named(m, "transfer-encoding") : FieldOK(m.fields[i])

(* What checkBodyType finds in the headers of the head.                     *)
LEMMA LengthHeader ==
  ASSUME NEW m \in Fitting, NEW x, x.headers = HeadersOf(m, m.head)
  PROVE  /\ Has(x, "content-length") <=> Sized(m)
         /\ Sized(m) => m.framing \in {"length", "negative", "garbled", "both"}
         /\ m.framing \in {"length", "negative", "both"} => Sized(m)
         /\ Has(x, "content-length") /\ m.framing # "both" =>
              StrToL(Value(x, "content-length"), Decimal) =
                IF m.framing = "negative" THEN -1 ELSE Len(m.body)
<1>1. Framed(m) /\ MessageType(m) /\ m.framing \in Framing
  BY MessageTyped
<1>2. m.head \in Nat /\ m.head \in 1..Len(m.fields) /\ Len(m.fields) \in Nat
  BY <1>1 DEF MessageType
<1>3. ASSUME NEW h \in x.headers, h.name = <<"content-length">>
      PROVE  \E i \in Named(m, "content-length") :
               FieldOK(m.fields[i]) /\ h.value = m.fields[i].value
  <2>1. PICK i \in 1..m.head : /\ FieldOK(m.fields[i])
                               /\ h.name = Lower(m.fields[i].name)
                               /\ h.value = m.fields[i].value
    BY <1>2, HeadersFrom
  <2>2. i \in Named(m, "content-length")
    <3>1. i \in 1..Len(m.fields)
      BY <1>2
    <3>2. Lower(m.fields[i].name) = <<"content-length">> /\ m.fields[i].colon
      BY <1>3, <2>1 DEF FieldOK
    <3> QED BY <3>1, <3>2 DEF Named
  <2> QED BY <2>1, <2>2
<1>4. Has(x, "content-length") => Sized(m)
  BY <1>3 DEF Has, Sized
<1>5. Sized(m) => m.framing \in {"length", "negative", "garbled", "both"}
  BY LengthField DEF Sized
<1>6. ASSUME Sized(m) PROVE Has(x, "content-length")
  <2>1. PICK i \in Named(m, "content-length") : FieldOK(m.fields[i])
    BY <1>6 DEF Sized
  <2>2. ~Chunked(m)
    BY <1>5, <1>6 DEF Chunked
  <2>3. i \in 1..m.head
    BY <2>1, <2>2, HeadIsAll, FieldOf
  <2>4. \E h \in HeadersOf(m, m.head) : h.name = Lower(m.fields[i].name)
    BY <1>2, <2>1, <2>3, HeadersCover
  <2>5. Lower(m.fields[i].name) = <<"content-length">>
    BY <2>1, FieldOf
  <2> QED BY <2>4, <2>5 DEF Has
<1>7. m.framing \in {"length", "negative", "both"} => Sized(m)
  <2>1. CASE m.framing \in {"length", "negative"}
    <3>1. PICK i \in Named(m, "content-length") : TRUE
      BY <1>1, <2>1 DEF Framed
    <3> QED BY <2>1, <3>1, LengthField DEF Sized
  <2>2. CASE m.framing = "both"
    BY <1>1, <2>2 DEF Framed, Sized
  <2> QED BY <2>1, <2>2
<1>8. ASSUME Has(x, "content-length"), m.framing # "both"
      PROVE  StrToL(Value(x, "content-length"), Decimal) =
               IF m.framing = "negative" THEN -1 ELSE Len(m.body)
  <2> DEFINE h == CHOOSE g \in x.headers : g.name = <<"content-length">>
  <2>1. h \in x.headers /\ h.name = <<"content-length">>
    BY <1>8 DEF Has
  <2>2. Value(x, "content-length") = h.value
    BY DEF Value
  <2> HIDE DEF h
  <2>3. PICK i \in Named(m, "content-length") : h.value = m.fields[i].value
    BY <1>3, <2>1
  <2>4. CASE m.framing = "length"
    <3>1. Len(m.body) \in 0..MaxSize
      BY <1>1 DEF MessageType
    <3>2. StrToL(<<Decimal[Len(m.body)]>>, Decimal) = Len(m.body)
      BY <3>1, NumberRead, NumbersAssumption
    <3> QED BY <2>2, <2>3, <2>4, <3>2, LengthField
  <2>5. CASE m.framing = "negative"
    BY <2>2, <2>3, <2>5, NegativeRead, LengthField
  <2>6. CASE m.framing = "garbled"
    <3>1. ~HasNumber(h.value, Decimal)
      BY <2>3, <2>6, LengthField
    <3>2. m.body = <<>>
      BY <1>1, <2>6 DEF Framed
    <3>3. Len(m.body) = 0
      BY <3>2, EmptySeq
    <3> QED BY <2>2, <2>6, <3>1, <3>3 DEF StrToL
  <2> QED BY <1>4, <1>5, <1>8, <2>4, <2>5, <2>6
<1> QED BY <1>4, <1>5, <1>6, <1>7, <1>8

(* There is a transfer-encoding header when a field for it was taken; its   *)
(* value is that of the framing.                                            *)
LEMMA EncodingHeader ==
  ASSUME NEW m \in Fitting, NEW n \in m.head..Len(m.fields), NEW x, x.headers = HeadersOf(m, n)
  PROVE  /\ Has(x, "transfer-encoding") <=> Encoded(m)
         /\ Encoded(m) => Chunked(m) \/ m.framing = "both"
         /\ m.framing \in {"chunked", "both"} => Encoded(m)
         /\ Has(x, "transfer-encoding") =>
              /\ m.framing = "chunked" => Value(x, "transfer-encoding") = <<"chunked">>
              /\ m.framing = "encoded" => Find(Value(x, "transfer-encoding"), "chunked") = 0
<1>1. Framed(m) /\ MessageType(m) /\ m.framing \in Framing
  BY MessageTyped
<1>2. /\ n \in Nat /\ m.head \in 1..n /\ n <= Len(m.fields)
      /\ Len(m.fields) \in Nat
  BY <1>1 DEF MessageType
<1>3. ASSUME NEW h \in x.headers, h.name = <<"transfer-encoding">>
      PROVE  \E i \in Named(m, "transfer-encoding") :
               FieldOK(m.fields[i]) /\ h.value = m.fields[i].value
  <2>1. PICK i \in 1..n : /\ FieldOK(m.fields[i])
                          /\ h.name = Lower(m.fields[i].name)
                          /\ h.value = m.fields[i].value
    BY <1>2, HeadersFrom
  <2>2. i \in Named(m, "transfer-encoding")
    <3>1. i \in 1..Len(m.fields)
      BY <1>2
    <3>2. Lower(m.fields[i].name) = <<"transfer-encoding">> /\ m.fields[i].colon
      BY <1>3, <2>1 DEF FieldOK
    <3> QED BY <3>1, <3>2 DEF Named
  <2> QED BY <2>1, <2>2
<1>4. Has(x, "transfer-encoding") => Encoded(m)
  BY <1>3 DEF Has, Encoded
<1>5. ASSUME Encoded(m) PROVE Has(x, "transfer-encoding")
  <2>1. PICK i \in Named(m, "transfer-encoding") : FieldOK(m.fields[i])
    BY <1>5 DEF Encoded
  <2>2. i \in 1..n
    BY <1>2, EncodingField
  <2>3. \E h \in HeadersOf(m, n) : h.name = Lower(m.fields[i].name)
    BY <1>2, <2>1, <2>2, HeadersCover
  <2>4. Lower(m.fields[i].name) = <<"transfer-encoding">>
    BY FieldOf
  <2> QED BY <2>3, <2>4 DEF Has
<1>6. Encoded(m) => Chunked(m) \/ m.framing = "both"
  BY EncodingField DEF Encoded
<1>7. m.framing \in {"chunked", "both"} => Encoded(m)
  <2>1. CASE m.framing = "chunked"
    <3>1. PICK i \in Named(m, "transfer-encoding") : TRUE
      BY <1>1, <2>1 DEF Framed
    <3> QED BY <2>1, <3>1, EncodingField DEF Encoded
  <2>2. CASE m.framing = "both"
    BY <1>1, <2>2 DEF Framed, Encoded
  <2> QED BY <2>1, <2>2
<1>8. ASSUME Has(x, "transfer-encoding")
      PROVE  /\ m.framing = "chunked" => Value(x, "transfer-encoding") = <<"chunked">>
             /\ m.framing = "encoded" => Find(Value(x, "transfer-encoding"), "chunked") = 0
  <2> DEFINE h == CHOOSE g \in x.headers : g.name = <<"transfer-encoding">>
  <2>1. h \in x.headers /\ h.name = <<"transfer-encoding">>
    BY <1>8 DEF Has
  <2>2. Value(x, "transfer-encoding") = h.value
    BY DEF Value
  <2> HIDE DEF h
  <2>3. PICK i \in Named(m, "transfer-encoding") : h.value = m.fields[i].value
    BY <1>3, <2>1
  <2> QED BY <2>2, <2>3, EncodingField
<1> QED BY <1>4, <1>5, <1>6, <1>7, <1>8

(* What is left of the word chunked.                                        *)
LEMMA NothingLeft ==
  /\ Find(<<"chunked">>, "chunked") = 1
  /\ Before(<<"chunked">>, 1) \o After(<<"chunked">>, 1) = <<>>
<1>1. /\ <<"chunked">> \in Seq(Token) /\ Len(<<"chunked">>) = 1
      /\ <<"chunked">>[1] = "chunked"
  BY TokenAssumption, ShortLine
<1>2. Find(<<"chunked">>, "chunked") = 1
  <2>1. 1 \in 1..Len(<<"chunked">>) /\ \A j \in 1..(1 - 1) : <<"chunked">>[j] # "chunked"
    BY <1>1
  <2> QED BY <1>1, <2>1, FindIs
<1>3. Before(<<"chunked">>, 1) = <<>>
  <2>1. SubSeq(<<"chunked">>, 1, 1 - 1) = <<>>
    BY SubSeqEmpty
  <2> QED BY <2>1 DEF Before
<1>4. After(<<"chunked">>, 1) = <<>>
  <2>1. SubSeq(<<"chunked">>, 1 + 1, 1) = <<>>
    BY SubSeqEmpty
  <2> QED BY <1>1, <2>1 DEF After
<1>5. <<>> \o <<>> = <<>>
  BY EmptySeq, ConcatEmptySeq
<1> QED BY <1>2, <1>3, <1>4, <1>5
==============================================================================
