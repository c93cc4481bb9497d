---- MODULE KermitCodecProofs ----
(***************************************************************************)
(* Proofs about KermitCodec for every answer, name and file: packets stay  *)
(* within what the board takes, always carry data and never hold a control *)
(* character, and an encoded byte is decoded as itself whatever follows    *)
(* it, so that the board has of every packet the file it was filled from.  *)
(***************************************************************************)
EXTENDS KermitCodec, FiniteSetTheorems, WellFoundedInduction, SequenceTheorems, TLAPS

Quotes == 33 .. 126 \union {NoQuote}

(***************************************************************************)
(* Induction over the naturals                                             *)
(***************************************************************************)

\* A set of naturals has a least element.
LEMMA Least ==
    ASSUME NEW S \in SUBSET Nat, S # {} PROVE \E x \in S : \A y \in S : x <= y
  <1>1. PICK n \in S : TRUE OBVIOUS
  <1> DEFINE U == 0 .. n
             upTo(x) == {y \in U : y \in S /\ y <= x}
             family == {upTo(x) : x \in S \intersect U}
             R == StrictSubsetOrdering(U)
  <1>2. IsFiniteSet(U) BY <1>1, FS_Interval
  <1>3. IsWellFoundedOn(R, SUBSET U)
    BY <1>2, FS_FiniteSubsetsOfFinite, FS_StrictSubsetOrderingWellFounded
  <1>4. \A x \in S \intersect U : upTo(x) \in SUBSET U OBVIOUS
  <1>5. upTo(n) \in family BY <1>1
  <1>6. \E M \in family : \A N \in family : <<N, M>> \notin R
    <2>1. family \subseteq SUBSET U
      <3> HIDE DEF upTo
      <3> QED BY <1>4
    <2> HIDE DEF family, R
    <2> QED BY <1>3, <2>1, <1>5, WFMin
  <1>7. PICK x \in S \intersect U : \A N \in family : <<N, upTo(x)>> \notin R
    BY <1>6
  <1>8. ASSUME NEW y \in S, y < x PROVE FALSE
    <2>0. y \in U /\ x \in U /\ y \in Nat /\ x \in Nat BY <1>8, <1>7
    <2>1. upTo(y) \in family BY <1>8, <2>0
    <2>2. x \in upTo(x) /\ x \notin upTo(y) BY <1>8, <2>0
    <2>3. upTo(y) \subseteq upTo(x) BY <1>8, <2>0
    <2>4. upTo(y) \in SUBSET U /\ upTo(x) \in SUBSET U OBVIOUS
    <2>5. <<upTo(y), upTo(x)>> \in R
      <3> HIDE DEF upTo
      <3> QED BY <2>2, <2>3, <2>4 DEF StrictSubsetOrdering
    <2> QED BY <2>1, <2>5, <1>7
  <1> QED BY <1>7, <1>8

\* What holds of 0 and of the successor of each that it holds of.
LEMMA Induction ==
    ASSUME NEW S \in SUBSET Nat, 0 \in S, \A n \in S : n + 1 \in S
    PROVE  S = Nat
  <1> SUFFICES ASSUME NEW m \in Nat \ S PROVE FALSE OBVIOUS
  <1>1. PICK n \in Nat \ S : \A k \in Nat \ S : n <= k
    <2>1. Nat \ S \in SUBSET Nat /\ Nat \ S # {} OBVIOUS
    <2> QED BY <2>1, Least, Zenon
  <1>2. n # 0 OBVIOUS
  <1>3. n - 1 \in Nat /\ ~(n <= n - 1) /\ (n - 1) + 1 = n BY <1>1, <1>2
  <1>4. n - 1 \in S BY <1>1, <1>3
  <1> QED BY <1>3, <1>4

(***************************************************************************)
(* Bytes                                                                   *)
(***************************************************************************)

\* The low seven bits of a byte.
LEMMA LowType ==
    ASSUME NEW b \in Byte
    PROVE  /\ Low(b) \in 0 .. 127
           /\ b < 128 => Low(b) = b
           /\ b >= 128 => Low(b) = b - 128
  <1>1. CASE b < 128
    <2>1. b \in 0 .. 127 BY <1>1 DEF Byte
    <2>2. b % 128 = b BY <2>1
    <2> QED BY <1>1, <2>1, <2>2 DEF Low
  <1>2. CASE b >= 128
    <2>1. b \in 128 .. 255 BY <1>2 DEF Byte
    <2>2. b % 128 = b - 128 BY <2>1
    <2> QED BY <1>2, <2>1, <2>2 DEF Low
  <1> QED BY <1>1, <1>2 DEF Byte

\* Turning over bit 6, for each quarter of the bytes.
LEMMA CtlRanges ==
    ASSUME NEW b \in Byte
    PROVE  /\ b \in 0 .. 63 \union 128 .. 191 => ctl(b) = b + 64
           /\ b \in 64 .. 127 \union 192 .. 255 => ctl(b) = b - 64
  <1>1. CASE b \in 0 .. 63
    <2>1. b \div 64 = 0 BY <1>1
    <2> QED BY <1>1, <2>1 DEF ctl
  <1>2. CASE b \in 64 .. 127
    <2>1. b \div 64 = 1 BY <1>2
    <2> QED BY <1>2, <2>1 DEF ctl
  <1>3. CASE b \in 128 .. 191
    <2>1. b \div 64 = 2 BY <1>3
    <2> QED BY <1>3, <2>1 DEF ctl
  <1>4. CASE b \in 192 .. 255
    <2>1. b \div 64 = 3 BY <1>4
    <2> QED BY <1>4, <2>1 DEF ctl
  <1> QED BY <1>1, <1>2, <1>3, <1>4 DEF Byte

\* Turning over bit 6 of a control character, or of a control character's image.
LEMMA CtlType ==
    ASSUME NEW b \in Byte
    PROVE  /\ ctl(b) \in Byte
           /\ Low(b) < 32 => ctl(b) = b + 64 /\ Low(ctl(b)) = Low(b) + 64
           /\ Low(b) = 127 => ctl(b) = b - 64 /\ Low(ctl(b)) = 63
           /\ Low(b) \in 64 .. 95 => ctl(b) = b - 64
           /\ Low(b) = 63 => ctl(b) = b + 64
  <1> DEFINE l == Low(b)
             c == ctl(b)
  <1>1. /\ l \in 0 .. 127
        /\ b < 128 => l = b
        /\ b >= 128 => l = b - 128
    BY LowType
  <1>2. /\ b \in 0 .. 63 \union 128 .. 191 => c = b + 64
        /\ b \in 64 .. 127 \union 192 .. 255 => c = b - 64
    BY CtlRanges
  <1> HIDE DEF l, c
  <1>3. c \in Byte BY <1>2 DEF Byte
  <1>4. /\ Low(c) \in 0 .. 127
        /\ c < 128 => Low(c) = c
        /\ c >= 128 => Low(c) = c - 128
    BY <1>3, LowType
  <1> DEFINE m == Low(c)
  <1> HIDE DEF m
  <1>5. /\ l < 32 => c = b + 64 /\ m = l + 64
        /\ l = 127 => c = b - 64 /\ m = 63
        /\ l \in 64 .. 95 => c = b - 64
        /\ l = 63 => c = b + 64
    <2>1. CASE b < 128 BY <2>1, <1>1, <1>2, <1>4 DEF Byte, m
    <2>2. CASE b >= 128 BY <2>2, <1>1, <1>2, <1>4 DEF Byte, m
    <2> QED BY <2>1, <2>2 DEF Byte
  <1> QED BY <1>3, <1>5 DEF l, c, m

\* What quoting a byte makes of it: one character or two, none of them a control
\* character.
LEMMA QuotedType ==
    ASSUME NEW b \in Byte, NEW q \in Quotes
    PROVE  /\ Quoted(b, q) \in Seq(Byte)
           /\ Len(Quoted(b, q)) \in 1 .. 2
           /\ Clean(Quoted(b, q))
  <1>1. Qctl \in Byte /\ ~Control(Qctl)
    <2>1. Qctl \in Byte BY DEF Qctl, Byte
    <2>2. Low(Qctl) = 35 BY DEF Qctl, Low
    <2> QED BY <2>1, <2>2 DEF Control
  <1>2. CASE Control(b)
    <2>1. Low(b) < 32 \/ Low(b) = 127 BY <1>2 DEF Control
    <2>2. ctl(b) \in Byte /\ (ctl(b) = b + 64 \/ ctl(b) = b - 64) BY <2>1, CtlType
    <2>3. ~Control(ctl(b))
      <3>1. CASE Low(b) < 32
        <4>1. Low(ctl(b)) \in 64 .. 95 BY <3>1, LowType, CtlType
        <4> QED BY <4>1 DEF Control
      <3>2. CASE Low(b) = 127
        <4>1. Low(ctl(b)) = 63 BY <3>2, CtlType
        <4> QED BY <4>1 DEF Control
      <3> QED BY <3>1, <3>2, <2>1
    <2>4. Quoted(b, q) = <<Qctl, ctl(b)>> BY <1>2 DEF Quoted
    <2> QED BY <1>1, <2>2, <2>3, <2>4 DEF Clean
  <1>3. CASE ~Control(b) /\ Low(b) \in {Qctl, q}
    <2>1. Quoted(b, q) = <<Qctl, b>> BY <1>3 DEF Quoted
    <2> QED BY <2>1, <1>1, <1>3 DEF Clean
  <1>4. CASE ~Control(b) /\ Low(b) \notin {Qctl, q}
    <2>1. Quoted(b, q) = <<b>> BY <1>4 DEF Quoted
    <2> QED BY <2>1, <1>4 DEF Clean
  <1> QED BY <1>2, <1>3, <1>4

\* An encoded byte is one to three characters, none of them a control character.
LEMMA EncodeByteType ==
    ASSUME NEW b \in Byte, NEW q \in Quotes
    PROVE  /\ EncodeByte(b, q) \in Seq(Byte)
           /\ Len(EncodeByte(b, q)) \in 1 .. 3
           /\ Clean(EncodeByte(b, q))
  <1>1. CASE q # NoQuote /\ b >= 128
    <2>1. Low(b) \in Byte
      <3>1. Low(b) \in 0 .. 127 BY LowType
      <3> QED BY <3>1 DEF Byte
    <2> DEFINE s == Quoted(Low(b), q)
    <2>2. s \in Seq(Byte) /\ Len(s) \in 1 .. 2 /\ Clean(s) BY <2>1, QuotedType
    <2>3. q \in Byte /\ ~Control(q)
      <3>1. q \in 33 .. 126 BY <1>1 DEF Quotes
      <3>2. q \in Byte /\ q < 128 BY <3>1 DEF Byte
      <3>3. Low(q) = q BY <3>2, LowType
      <3> QED BY <3>1, <3>2, <3>3 DEF Control
    <2>4. EncodeByte(b, q) = <<q>> \o s BY <1>1 DEF EncodeByte
    <2> HIDE DEF s
    <2>5. /\ <<q>> \o s \in Seq(Byte) /\ Len(<<q>> \o s) = Len(s) + 1
          /\ (<<q>> \o s)[1] = q
          /\ \A j \in 2 .. Len(s) + 1 : (<<q>> \o s)[j] = s[j - 1]
      BY <2>2, <2>3
    <2>6. Clean(<<q>> \o s)
      <3> SUFFICES ASSUME NEW j \in 1 .. Len(<<q>> \o s)
                   PROVE  ~Control((<<q>> \o s)[j])
        BY DEF Clean
      <3>1. CASE j = 1 BY <3>1, <2>3, <2>5
      <3>2. CASE j \in 2 .. Len(s) + 1
        BY <3>2, <2>2, <2>5 DEF Clean
      <3> QED BY <3>1, <3>2, <2>2, <2>5
    <2> QED BY <2>2, <2>4, <2>5, <2>6
  <1>2. CASE ~(q # NoQuote /\ b >= 128)
    BY <1>2, QuotedType DEF EncodeByte
  <1> QED BY <1>1, <1>2

\* A control character's image is read as the control character.
LEMMA UnquotedCtl == \A b \in Byte : Control(b) => Unquoted(ctl(b)) = b
  <1> SUFFICES ASSUME NEW b \in Byte, Control(b) PROVE Unquoted(ctl(b)) = b
    OBVIOUS
  <1>1. CASE Low(b) < 32
    <2>1. ctl(b) = b + 64 /\ ctl(b) \in Byte BY <1>1, CtlType
    <2>2. Low(ctl(b)) \in 64 .. 95 BY <1>1, LowType, CtlType
    <2>3. ctl(ctl(b)) = ctl(b) - 64 BY <2>1, <2>2, CtlType
    <2> QED BY <2>1, <2>2, <2>3 DEF Unquoted, Byte
  <1>2. CASE Low(b) = 127
    <2>1. ctl(b) = b - 64 /\ ctl(b) \in Byte BY <1>2, CtlType
    <2>2. Low(ctl(b)) = 63 BY <1>2, CtlType
    <2>3. ctl(ctl(b)) = ctl(b) + 64 BY <2>1, <2>2, CtlType
    <2> QED BY <2>1, <2>2, <2>3 DEF Unquoted, Byte
  <1> QED BY <1>1, <1>2 DEF Control

\* A byte the receiver would leave alone after a quote.
LEMMA UnquotedLiteral ==
    ASSUME NEW b \in Byte, NEW q \in Int, LegalQuote(q), Low(b) \in {Qctl, q}
    PROVE  Unquoted(b) = b
  <1>1. Low(b) \in 0 .. 127 BY LowType
  <1>2. CASE Low(b) = Qctl BY <1>2 DEF Unquoted, Qctl
  <1>3. CASE Low(b) = q
    <2>1. q # NoQuote BY <1>1, <1>3 DEF NoQuote
    <2>2. q \notin 63 .. 95 BY <2>1 DEF LegalQuote
    <2> QED BY <1>3, <2>2 DEF Unquoted
  <1> QED BY <1>2, <1>3

\* A character in front of a sequence.
LEMMA InFront ==
    ASSUME NEW r \in Seq(Byte), NEW a \in Byte, NEW b \in Byte, NEW c \in Byte
    PROVE  /\ (<<a>> \o r)[1] = a
           /\ (<<a, b>> \o r)[1] = a /\ (<<a, b>> \o r)[2] = b
           /\ (<<a, b, c>> \o r)[1] = a /\ (<<a, b, c>> \o r)[2] = b
           /\ (<<a, b, c>> \o r)[3] = c
  OBVIOUS

\* A prefixed character, spelled out.
LEMMA PrefixedOne ==
    ASSUME NEW a \in Byte, NEW b \in Byte
    PROVE  <<a>> \o <<b>> = <<a, b>>
  <1> DEFINE two == <<a>> \o <<b>>
  <1>1. two \in Seq(Byte) /\ Len(two) = 2 /\ two[1] = a /\ two[2] = b
    OBVIOUS
  <1> HIDE DEF two
  <1>2. two = <<two[1], two[2]>> BY <1>1
  <1>3. two = <<a, b>> BY <1>1, <1>2
  <1> QED BY <1>3 DEF two

\* A prefixed pair, spelled out.
LEMMA PrefixedPair ==
    ASSUME NEW a \in Byte, NEW b \in Byte, NEW c \in Byte
    PROVE  <<a>> \o <<b, c>> = <<a, b, c>>
  <1> DEFINE three == <<a>> \o <<b, c>>
  <1>1. /\ three \in Seq(Byte) /\ Len(three) = 3
        /\ three[1] = a /\ three[2] = b /\ three[3] = c
    OBVIOUS
  <1> HIDE DEF three
  <1>2. three = <<three[1], three[2], three[3]>> BY <1>1
  <1>3. three = <<a, b, c>> BY <1>1, <1>2
  <1> QED BY <1>3 DEF three

\* The four shapes of an encoded byte, as the receiver takes them apart.
LEMMA DecodeShapes ==
    ASSUME NEW d \in Seq(Byte), NEW q \in Int
    PROVE  /\ q # NoQuote /\ d[1] = q /\ d[2] = Qctl
                => DecodeAt(d, 1, q) = [value |-> Unquoted(d[3]) + 128, next |-> 4]
           /\ q # NoQuote /\ d[1] = q /\ d[2] # Qctl
                => DecodeAt(d, 1, q) = [value |-> d[2] + 128, next |-> 3]
           /\ ~(q # NoQuote /\ d[1] = q) /\ d[1] = Qctl
                => DecodeAt(d, 1, q) = [value |-> Unquoted(d[2]), next |-> 3]
           /\ ~(q # NoQuote /\ d[1] = q) /\ d[1] # Qctl
                => DecodeAt(d, 1, q) = [value |-> d[1], next |-> 2]
  BY DEF DecodeAt

\* Whatever comes after it, a receiver that agreed on the same 8th-bit quote
\* reads an encoded byte as that byte and goes on behind it.
THEOREM ByteSurvives ==
    ASSUME NEW b \in Byte, NEW q \in Int, LegalQuote(q), NEW r \in Seq(Byte)
    PROVE  DecodeAt(EncodeByte(b, q) \o r, 1, q)
               = [value |-> b, next |-> Len(EncodeByte(b, q)) + 1]
  <1>1. /\ q \in Quotes /\ q # Qctl /\ Qctl \in Byte /\ Qctl < 128 /\ Qctl # NoQuote
        /\ q # NoQuote => q \in Byte
    BY DEF LegalQuote, Quotes, Qctl, NoQuote, Byte
  <1> DEFINE low == Low(b)
             d == EncodeByte(b, q) \o r
  <1>a. d \in Seq(Byte) BY <1>1, EncodeByteType
  <1>2. CASE q # NoQuote /\ b >= 128
    <2>1. low \in Byte /\ Low(low) = low /\ low + 128 = b
      <3>1. low \in 0 .. 127 /\ low = b - 128 BY <1>2, LowType
      <3>2. low \in Byte /\ low + 128 = b BY <3>1 DEF Byte
      <3> HIDE DEF low
      <3>3. Low(low) = low BY <3>1, <3>2, LowType
      <3> QED BY <3>2, <3>3
    <2>2. EncodeByte(b, q) = <<q>> \o Quoted(low, q) BY <1>2 DEF EncodeByte
    <2> HIDE DEF low, d
    <2>3. q \in Byte BY <1>1, <1>2
    <2>4. CASE Control(low)
      <3>1. ctl(low) \in Byte /\ Unquoted(ctl(low)) = low
        BY <2>1, <2>4, CtlType, UnquotedCtl
      <3>2. Quoted(low, q) = <<Qctl, ctl(low)>> BY <2>4 DEF Quoted
      <3>a. <<q>> \o <<Qctl, ctl(low)>> = <<q, Qctl, ctl(low)>>
        BY <3>1, <2>3, <1>1, PrefixedPair, Zenon
      <3>3. EncodeByte(b, q) = <<q, Qctl, ctl(low)>> BY <3>2, <3>a, <2>2
      <3>4. /\ d[1] = q
            /\ d[2] = Qctl
            /\ d[3] = ctl(low)
        BY <3>1, <3>3, <2>3, <1>1, InFront DEF d
      <3>5. Len(EncodeByte(b, q)) + 1 = 4 BY <3>3
      <3>6. DecodeAt(d, 1, q) = [value |-> Unquoted(d[3]) + 128, next |-> 4]
        BY <3>4, <1>2, <1>a, DecodeShapes
      <3>7. Unquoted(d[3]) + 128 = b BY <3>1, <3>4, <2>1
      <3> QED BY <3>5, <3>6, <3>7 DEF d
    <2>5. CASE ~Control(low) /\ low \in {Qctl, q}
      <3>1. Unquoted(low) = low BY <2>1, <2>5, UnquotedLiteral
      <3>2. Quoted(low, q) = <<Qctl, low>> BY <2>1, <2>5 DEF Quoted
      <3>a. <<q>> \o <<Qctl, low>> = <<q, Qctl, low>>
        BY <2>1, <2>3, <1>1, PrefixedPair, Zenon
      <3>3. EncodeByte(b, q) = <<q, Qctl, low>> BY <3>2, <3>a, <2>2
      <3>4. /\ d[1] = q
            /\ d[2] = Qctl
            /\ d[3] = low
        BY <3>3, <2>1, <2>3, <1>1, InFront DEF d
      <3>5. Len(EncodeByte(b, q)) + 1 = 4 BY <3>3
      <3>6. DecodeAt(d, 1, q) = [value |-> Unquoted(d[3]) + 128, next |-> 4]
        BY <3>4, <1>2, <1>a, DecodeShapes
      <3>7. Unquoted(d[3]) + 128 = b BY <3>1, <3>4, <2>1
      <3> QED BY <3>5, <3>6, <3>7 DEF d
    <2>6. CASE ~Control(low) /\ low \notin {Qctl, q}
      <3>1. Quoted(low, q) = <<low>> BY <2>1, <2>6 DEF Quoted
      <3>a. <<q>> \o <<low>> = <<q, low>> BY <2>1, <2>3, PrefixedOne, Zenon
      <3>2. EncodeByte(b, q) = <<q, low>> BY <3>1, <3>a, <2>2
      <3>3. d[1] = q /\ d[2] = low
        BY <3>2, <2>1, <2>3, <1>1, InFront DEF d
      <3>4. Len(EncodeByte(b, q)) + 1 = 3 BY <3>2
      <3>5. d[2] # Qctl BY <3>3, <2>6
      <3>6. DecodeAt(d, 1, q) = [value |-> d[2] + 128, next |-> 3]
        BY <3>3, <3>5, <1>2, <1>a, DecodeShapes
      <3> QED BY <3>3, <3>4, <3>6, <2>1 DEF d
    <2> QED BY <2>4, <2>5, <2>6
  <1>3. CASE ~(q # NoQuote /\ b >= 128)
    <2>1. EncodeByte(b, q) = Quoted(b, q) BY <1>3 DEF EncodeByte
    <2> HIDE DEF low, d
    <2>2. CASE Control(b)
      <3>1. ctl(b) \in Byte /\ Unquoted(ctl(b)) = b
        BY <2>2, CtlType, UnquotedCtl
      <3>2. EncodeByte(b, q) = <<Qctl, ctl(b)>> BY <2>1, <2>2 DEF Quoted
      <3>3. d[1] = Qctl /\ d[2] = ctl(b)
        BY <3>1, <3>2, <1>1, InFront DEF d
      <3>4. Len(EncodeByte(b, q)) + 1 = 3 BY <3>2
      <3>5. DecodeAt(d, 1, q) = [value |-> Unquoted(d[2]), next |-> 3]
        BY <3>3, <1>1, <1>a, DecodeShapes
      <3> QED BY <3>1, <3>3, <3>4, <3>5 DEF d
    <2>3. CASE ~Control(b) /\ Low(b) \in {Qctl, q}
      <3>1. Unquoted(b) = b BY <2>3, UnquotedLiteral
      <3>2. EncodeByte(b, q) = <<Qctl, b>> BY <2>1, <2>3 DEF Quoted
      <3>3. d[1] = Qctl /\ d[2] = b
        BY <3>2, <1>1, InFront DEF d
      <3>4. Len(EncodeByte(b, q)) + 1 = 3 BY <3>2
      <3>5. DecodeAt(d, 1, q) = [value |-> Unquoted(d[2]), next |-> 3]
        BY <3>3, <1>1, <1>a, DecodeShapes
      <3> QED BY <3>1, <3>3, <3>4, <3>5 DEF d
    <2>4. CASE ~Control(b) /\ Low(b) \notin {Qctl, q}
      <3>1. b # Qctl /\ ~(q # NoQuote /\ b = q)
        <4>1. b < 128 => Low(b) = b BY LowType
        <4>2. b \in Int /\ Qctl = 35 BY DEF Byte, Qctl
        <4> QED BY <4>1, <4>2, <2>4, <1>3
      <3>2. EncodeByte(b, q) = <<b>> BY <2>1, <2>4 DEF Quoted
      <3>3. d[1] = b BY <3>2, InFront DEF d
      <3>4. Len(EncodeByte(b, q)) + 1 = 2 BY <3>2
      <3>5. ~(q # NoQuote /\ d[1] = q) /\ d[1] # Qctl BY <3>1, <3>3
      <3>6. DecodeAt(d, 1, q) = [value |-> d[1], next |-> 2]
        BY <3>5, <1>a, DecodeShapes
      <3> QED BY <3>3, <3>4, <3>6 DEF d
    <2> QED BY <2>2, <2>3, <2>4
  <1> QED BY <1>2, <1>3

(***************************************************************************)
(* What a packet is read as                                                *)
(***************************************************************************)

\* The byte that starts at character i is v, and the next one starts at y.
ReadsTo(d, i, q, v, y) == DecodeAt(d, i, q) = [value |-> v, next |-> y]

\* The characters of data, read one byte after another, are the bytes bs.
ReadAs(data, q, bs, pos) ==
    /\ pos[1] = 1 /\ pos[Len(bs) + 1] = Len(data) + 1
    /\ \A k \in 1 .. Len(bs) :
        /\ pos[k] <= Len(data)
        /\ ReadsTo(data, pos[k], q, bs[k], pos[k + 1])

Reads(data, q, bs) ==
    \E pos \in [1 .. Len(bs) + 1 -> 1 .. Len(data) + 1] : ReadAs(data, q, bs, pos)

\* Two places that hold the same characters are read alike.
Alike(d, i, e, j, y) ==
    /\ d[i] = e[j]
    /\ i + 1 < y => d[i + 1] = e[j + 1]
    /\ i + 2 < y => d[i + 2] = e[j + 2]

LEMMA SameRead ==
    ASSUME NEW d, NEW e, NEW i \in Nat, NEW j \in Nat, NEW q \in Int, NEW v, NEW y \in Nat,
           ReadsTo(d, i, q, v, y), Alike(d, i, e, j, y)
    PROVE  ReadsTo(e, j, q, v, (y - i) + j)
  <1>2. CASE q # NoQuote /\ d[i] = q /\ d[i + 1] = Qctl
    <2>1. DecodeAt(d, i, q) = [value |-> Unquoted(d[i + 2]) + 128, next |-> i + 3]
      <3>1. i + 1 + 1 = i + 2 /\ i + 1 + 2 = i + 3 OBVIOUS
      <3> QED BY <1>2, <3>1 DEF DecodeAt
    <2>a. v = Unquoted(d[i + 2]) + 128 /\ y = i + 3 BY <2>1 DEF ReadsTo
    <2>2. e[j] = q /\ e[j + 1] = Qctl /\ e[j + 2] = d[i + 2] BY <1>2, <2>a DEF Alike
    <2>3. DecodeAt(e, j, q) = [value |-> Unquoted(e[j + 2]) + 128, next |-> j + 3]
      <3>1. j + 1 + 1 = j + 2 /\ j + 1 + 2 = j + 3 OBVIOUS
      <3> QED BY <1>2, <2>2, <3>1 DEF DecodeAt
    <2> QED BY <2>a, <2>2, <2>3 DEF ReadsTo
  <1>3. CASE q # NoQuote /\ d[i] = q /\ d[i + 1] # Qctl
    <2>1. DecodeAt(d, i, q) = [value |-> d[i + 1] + 128, next |-> i + 2]
      <3>1. i + 1 + 1 = i + 2 OBVIOUS
      <3> QED BY <1>3, <3>1 DEF DecodeAt
    <2>a. v = d[i + 1] + 128 /\ y = i + 2 BY <2>1 DEF ReadsTo
    <2>2. e[j] = q /\ e[j + 1] = d[i + 1] BY <1>3, <2>a DEF Alike
    <2>3. DecodeAt(e, j, q) = [value |-> e[j + 1] + 128, next |-> j + 2]
      <3>1. j + 1 + 1 = j + 2 OBVIOUS
      <3> QED BY <1>3, <2>2, <3>1 DEF DecodeAt
    <2> QED BY <2>a, <2>2, <2>3 DEF ReadsTo
  <1>4. CASE ~(q # NoQuote /\ d[i] = q) /\ d[i] = Qctl
    <2>1. DecodeAt(d, i, q) = [value |-> Unquoted(d[i + 1]), next |-> i + 2]
      BY <1>4 DEF DecodeAt
    <2>a. v = Unquoted(d[i + 1]) /\ y = i + 2 BY <2>1 DEF ReadsTo
    <2>2. e[j] = d[i] /\ e[j + 1] = d[i + 1] BY <2>a DEF Alike
    <2>3. DecodeAt(e, j, q) = [value |-> Unquoted(e[j + 1]), next |-> j + 2]
      BY <1>4, <2>2 DEF DecodeAt
    <2> QED BY <2>a, <2>2, <2>3 DEF ReadsTo
  <1>5. CASE ~(q # NoQuote /\ d[i] = q) /\ d[i] # Qctl
    <2>1. DecodeAt(d, i, q) = [value |-> d[i], next |-> i + 1]
      BY <1>5 DEF DecodeAt
    <2>a. v = d[i] /\ y = i + 1 BY <2>1 DEF ReadsTo
    <2>2. e[j] = d[i] BY <2>a DEF Alike
    <2>3. DecodeAt(e, j, q) = [value |-> e[j], next |-> j + 1]
      BY <1>5, <2>2 DEF DecodeAt
    <2> QED BY <2>a, <2>2, <2>3 DEF ReadsTo
  <1> QED BY <1>2, <1>3, <1>4, <1>5

\* Where the next byte starts.
LEMMA NextPlace ==
    ASSUME NEW d, NEW i \in Nat, NEW q \in Int
    PROVE  DecodeAt(d, i, q).next \in {i + 1, i + 2, i + 3}
  BY DEF DecodeAt

\* An empty packet holds nothing.
LEMMA NothingRead == ASSUME NEW q PROVE Reads(<<>>, q, <<>>)
  <1> DEFINE pos == [k \in 1 .. 1 |-> 1]
  <1>1. pos \in [1 .. Len(<<>>) + 1 -> 1 .. Len(<<>>) + 1] OBVIOUS
  <1>2. ReadAs(<<>>, q, <<>>, pos) BY DEF ReadAs
  <1> QED BY <1>1, <1>2 DEF Reads

\* What is read of a packet stays so when a byte is encoded behind it, and the
\* byte is read last.
LEMMA OneMoreRead ==
    ASSUME NEW c \in Seq(Byte), NEW bs \in Seq(Byte), NEW b \in Byte,
           NEW q \in Int, LegalQuote(q), Reads(c, q, bs)
    PROVE  Reads(c \o EncodeByte(b, q), q, Append(bs, b))
  <1>1. PICK e \in Seq(Byte) : e = EncodeByte(b, q) /\ Len(e) \in 1 .. 3
    <2>1. q \in Quotes BY DEF LegalQuote, Quotes
    <2> QED BY <2>1, EncodeByteType
  <1>2. PICK n \in Nat : n = Len(bs) OBVIOUS
  <1>3. PICK l \in Nat : l = Len(c) OBVIOUS
  <1>4. PICK d \in Seq(Byte) : /\ d = c \o e /\ Len(d) = l + Len(e)
                               /\ \A k \in 1 .. l : d[k] = c[k]
                               /\ \A k \in 1 .. Len(e) : d[l + k] = e[k]
    <2>1. c \o e \in Seq(Byte) /\ Len(c \o e) = l + Len(e) BY <1>3
    <2>2. \A k \in 1 .. l : (c \o e)[k] = c[k] BY <1>3
    <2>3. \A k \in 1 .. Len(e) : (c \o e)[l + k] = e[k] BY <1>3
    <2> QED BY <2>1, <2>2, <2>3
  <1>5. PICK pos \in [1 .. n + 1 -> 1 .. l + 1] : ReadAs(c, q, bs, pos)
    BY <1>2, <1>3 DEF Reads
  <1> DEFINE more == [k \in 1 .. n + 2 |-> IF k <= n + 1 THEN pos[k] ELSE l + Len(e) + 1]
             bs2 == Append(bs, b)
  <1>6. /\ bs2 \in Seq(Byte) /\ Len(bs2) = n + 1 /\ bs2[n + 1] = b
        /\ \A k \in 1 .. n : bs2[k] = bs[k]
    BY <1>2
  <1> HIDE DEF bs2
  <1>7. more \in [1 .. Len(bs2) + 1 -> 1 .. Len(d) + 1]
    BY <1>1, <1>4, <1>6
  <1>8. /\ \A k \in 1 .. n + 1 : more[k] = pos[k]
        /\ more[n + 2] = l + Len(e) + 1
    BY <1>2, <1>3
  <1> HIDE DEF more
  <1>a. more[1] = 1 /\ more[n + 1] = l + 1
    <2>1. pos[1] = 1 /\ pos[n + 1] = l + 1 BY <1>2, <1>3, <1>5 DEF ReadAs
    <2> QED BY <2>1, <1>8
  <1>9. ASSUME NEW k \in 1 .. n
        PROVE  /\ more[k] <= Len(d)
               /\ ReadsTo(d, more[k], q, bs2[k], more[k + 1])
    <2>0. k \in 1 .. n + 1 /\ k + 1 \in 1 .. n + 1 OBVIOUS
    <2>1. PICK x \in 1 .. l + 1 : x = pos[k] /\ x = more[k] BY <2>0, <1>5, <1>8
    <2>2. PICK y \in 1 .. l + 1 : y = pos[k + 1] /\ y = more[k + 1] BY <2>0, <1>5, <1>8
    <2>3. x <= l /\ ReadsTo(c, x, q, bs[k], y)
      BY <1>2, <1>3, <1>5, <2>1, <2>2 DEF ReadAs
    <2>5. Alike(c, x, d, x, y)
      <3>1. x \in 1 .. l BY <2>3
      <3>2. x + 1 < y => x + 1 \in 1 .. l OBVIOUS
      <3>3. x + 2 < y => x + 2 \in 1 .. l OBVIOUS
      <3> QED BY <3>1, <3>2, <3>3, <1>4 DEF Alike
    <2>6. ReadsTo(d, x, q, bs[k], (y - x) + x)
      <3>1. x \in Nat /\ y \in Nat OBVIOUS
      <3> QED BY <2>3, <2>5, <3>1, SameRead
    <2>7. (y - x) + x = y OBVIOUS
    <2>8. ReadsTo(d, x, q, bs[k], y) BY <2>6, <2>7
    <2>9. x <= Len(d)
      <3>1. PICK m \in 1 .. 3 : m = Len(e) BY <1>1
      <3> QED BY <3>1, <2>3, <1>4
    <2> QED BY <2>1, <2>2, <2>8, <2>9, <1>6
  <1>10. /\ more[n + 1] <= Len(d)
         /\ ReadsTo(d, more[n + 1], q, bs2[n + 1], more[n + 2])
    <2>0. PICK m \in 1 .. 3 : m = Len(e) BY <1>1
    <2>1. ReadsTo(e, 1, q, b, m + 1)
      <3>1. <<>> \in Seq(Byte) OBVIOUS
      <3>2. EncodeByte(b, q) \o <<>> = e BY <1>1
      <3>3. DecodeAt(EncodeByte(b, q) \o <<>>, 1, q)
                = [value |-> b, next |-> Len(EncodeByte(b, q)) + 1]
        BY <3>1, ByteSurvives
      <3> QED BY <3>2, <3>3, <1>1, <2>0 DEF ReadsTo
    <2>3. PICK x \in Nat : x = l + 1 OBVIOUS
    <2>4. Alike(e, 1, d, x, m + 1)
      <3>1. 1 \in 1 .. m /\ (1 + 1 < m + 1 => 2 \in 1 .. m) /\ (1 + 2 < m + 1 => 3 \in 1 .. m)
        OBVIOUS
      <3>2. \A i \in 1 .. m : d[l + i] = e[i] BY <1>4, <2>0
      <3>3. x = l + 1 /\ x + 1 = l + 2 /\ x + 2 = l + 3 /\ 1 + 1 = 2 /\ 1 + 2 = 3 BY <2>3
      <3> QED BY <3>1, <3>2, <3>3 DEF Alike
    <2>5. ReadsTo(d, x, q, b, ((m + 1) - 1) + x)
      <3>1. 1 \in Nat /\ m + 1 \in Nat OBVIOUS
      <3> QED BY <2>1, <2>4, <3>1, SameRead
    <2>6. ((m + 1) - 1) + x = l + m + 1 /\ x <= l + m BY <2>3
    <2>7. ReadsTo(d, x, q, b, l + m + 1) BY <2>5, <2>6
    <2> QED BY <2>0, <2>3, <2>6, <2>7, <1>4, <1>6, <1>8, <1>a
  <1>11. ReadAs(d, q, bs2, more)
    <2>1. \A k \in 1 .. n + 1 :
            /\ more[k] <= Len(d)
            /\ ReadsTo(d, more[k], q, bs2[k], more[k + 1])
      <3>1. \A k \in 1 .. n + 1 : k \in 1 .. n \/ k = n + 1 OBVIOUS
      <3>2. n + 1 + 1 = n + 2 OBVIOUS
      <3> QED BY <3>1, <3>2, <1>9, <1>10
    <2>2. more[1] = 1 /\ more[Len(bs2) + 1] = Len(d) + 1
      <3>1. Len(bs2) + 1 = n + 2 BY <1>6
      <3> QED BY <3>1, <1>8, <1>a, <1>4
    <2> QED BY <2>1, <2>2, <1>6 DEF ReadAs
  <1> QED BY <1>1, <1>4, <1>7, <1>11 DEF Reads, bs2

\* What a receiver makes of the rest of a packet from character i on, given what
\* it makes of each later place.
Rest(data, q, g, i) ==
    IF i > Len(data) THEN <<>>
    ELSE LET d == DecodeAt(data, i, q)
         IN  <<d.value>> \o g[AtMost(d.next, Len(data) + 1)]

\* The receiver goes forward.
LEMMA RestLooksAhead ==
    ASSUME NEW data \in Seq(Byte), NEW q \in Int, NEW i \in Nat, NEW g, NEW h,
           \A k \in i + 1 .. Len(data) + 1 : g[k] = h[k]
    PROVE  Rest(data, q, g, i) = Rest(data, q, h, i)
  <1>1. CASE i > Len(data) BY <1>1 DEF Rest
  <1>2. CASE ~(i > Len(data))
    <2>1. PICK n \in Nat : n = Len(data) OBVIOUS
    <2>2. PICK y \in {i + 1, i + 2, i + 3} : y = DecodeAt(data, i, q).next BY NextPlace
    <2>3. AtMost(y, n + 1) \in i + 1 .. n + 1 BY <1>2, <2>1, <2>2 DEF AtMost
    <2>4. g[AtMost(y, n + 1)] = h[AtMost(y, n + 1)] BY <2>1, <2>3
    <2> QED BY <1>2, <2>1, <2>2, <2>4 DEF Rest
  <1> QED BY <1>1, <1>2

\* The recursion that defines Decoding has a solution: built from the end.
LEMMA DecodingExists ==
    ASSUME NEW data \in Seq(Byte), NEW q \in Int
    PROVE  \E g : g = [i \in 1 .. Len(data) + 1 |-> Rest(data, q, g, i)]
  <1>1. PICK n \in Nat : n = Len(data) OBVIOUS
  <1> DEFINE S == {m \in Nat : m <= n =>
                     \E g : g = [i \in n + 1 - m .. n + 1 |-> Rest(data, q, g, i)]}
  <1>2. 0 \in S
    <2> DEFINE g == [i \in n + 1 - 0 .. n + 1 |-> <<>>]
    <2>1. ASSUME NEW i \in n + 1 - 0 .. n + 1 PROVE Rest(data, q, g, i) = <<>>
      BY <1>1 DEF Rest
    <2>2. g = [i \in n + 1 - 0 .. n + 1 |-> Rest(data, q, g, i)]
      <3> HIDE DEF g
      <3>1. g = [i \in n + 1 - 0 .. n + 1 |-> <<>>] BY DEF g
      <3> QED BY <3>1, <2>1
    <2> HIDE DEF g
    <2> QED BY <2>2
  <1>3. ASSUME NEW m \in S PROVE m + 1 \in S
    <2> SUFFICES ASSUME m + 1 <= n
                 PROVE  \E g : g = [i \in n + 1 - (m + 1) .. n + 1 |-> Rest(data, q, g, i)]
      OBVIOUS
    <2>1. m \in Nat /\ m <= n OBVIOUS
    <2>2. PICK g : g = [i \in n + 1 - m .. n + 1 |-> Rest(data, q, g, i)] BY <2>1
    <2> HIDE DEF S
    <2>3. PICK a \in Nat : a = n + 1 - (m + 1) /\ a + 1 = n + 1 - m /\ a <= n BY <2>1
    <2> DEFINE h == [i \in a .. n + 1 |-> IF i = a THEN Rest(data, q, g, i) ELSE g[i]]
    <2>4. \A i \in a + 1 .. n + 1 : h[i] = g[i] /\ g[i] = Rest(data, q, g, i)
      <3> SUFFICES ASSUME NEW i \in a + 1 .. n + 1
                   PROVE  h[i] = g[i] /\ g[i] = Rest(data, q, g, i)
        OBVIOUS
      <3>1. i \in a .. n + 1 /\ i # a /\ i \in n + 1 - m .. n + 1 BY <2>3
      <3> QED BY <3>1, <2>2
    <2>5. h[a] = Rest(data, q, g, a) BY <2>3
    <2>6. DOMAIN h = a .. n + 1 /\ h = [i \in a .. n + 1 |-> h[i]] OBVIOUS
    <2> HIDE DEF h
    <2>7. ASSUME NEW i \in a .. n + 1 PROVE h[i] = Rest(data, q, h, i)
      <3>1. i \in Nat /\ i >= a BY <2>3
      <3>2. \A k \in i + 1 .. Len(data) + 1 : g[k] = h[k]
        <4> SUFFICES ASSUME NEW k \in i + 1 .. Len(data) + 1 PROVE g[k] = h[k] OBVIOUS
        <4>1. k \in a + 1 .. n + 1 BY <3>1, <1>1
        <4> QED BY <4>1, <2>4
      <3>3. Rest(data, q, g, i) = Rest(data, q, h, i) BY <3>1, <3>2, RestLooksAhead
      <3>4. h[i] = Rest(data, q, g, i)
        <4>1. i = a \/ i \in a + 1 .. n + 1 BY <3>1
        <4> QED BY <4>1, <2>4, <2>5
      <3> QED BY <3>3, <3>4
    <2>8. h = [i \in a .. n + 1 |-> Rest(data, q, h, i)] BY <2>6, <2>7
    <2> QED BY <2>3, <2>8
  <1>4. S = Nat
    <2>1. S \in SUBSET Nat OBVIOUS
    <2> HIDE DEF S
    <2> QED BY <1>2, <1>3, <2>1, Induction
  <1>5. n \in S BY <1>4
  <1>6. \E g : g = [i \in n + 1 - n .. n + 1 |-> Rest(data, q, g, i)] BY <1>5
  <1>7. n + 1 - n = 1 OBVIOUS
  <1> QED BY <1>1, <1>6, <1>7

LEMMA DecodingUnfolds ==
    ASSUME NEW data \in Seq(Byte), NEW q \in Int, NEW i \in 1 .. Len(data) + 1
    PROVE  Decoding(data, q)[i] = Rest(data, q, Decoding(data, q), i)
  <1>1. Decoding(data, q)
            = CHOOSE g : g = [k \in 1 .. Len(data) + 1 |-> Rest(data, q, g, k)]
    BY DEF Decoding, Rest
  <1>2. Decoding(data, q)
            = [k \in 1 .. Len(data) + 1 |-> Rest(data, q, Decoding(data, q), k)]
    BY <1>1, DecodingExists
  <1> DEFINE dec == Decoding(data, q)
  <1>3. dec = [k \in 1 .. Len(data) + 1 |-> Rest(data, q, dec, k)] BY <1>2
  <1> HIDE DEF dec
  <1>4. dec[i] = Rest(data, q, dec, i) BY <1>3
  <1> QED BY <1>4 DEF dec

\* A packet that reads as bs is decoded as bs.
LEMMA DecodeReads ==
    ASSUME NEW data \in Seq(Byte), NEW q \in Int, NEW bs \in Seq(Byte), Reads(data, q, bs)
    PROVE  Decode(data, q) = bs
  <1>1. PICK n \in Nat : n = Len(bs) OBVIOUS
  <1>2. PICK l \in Nat : l = Len(data) OBVIOUS
  <1>3. PICK pos \in [1 .. n + 1 -> 1 .. l + 1] : ReadAs(data, q, bs, pos)
    BY <1>1, <1>2 DEF Reads
  <1> DEFINE dec == Decoding(data, q)
             S == {m \in Nat : m <= n => dec[pos[n + 1 - m]] = SubSeq(bs, n + 1 - m, n)}
  <1>4. 0 \in S
    <2>1. n + 1 - 0 = n + 1 /\ pos[n + 1] = l + 1 /\ l + 1 \in 1 .. l + 1
      BY <1>1, <1>2, <1>3 DEF ReadAs
    <2>2. dec[l + 1] = <<>>
      <3>1. dec[l + 1] = Rest(data, q, dec, l + 1) BY <1>2, <2>1, DecodingUnfolds
      <3>2. l + 1 > Len(data) BY <1>2
      <3> QED BY <3>1, <3>2 DEF Rest
    <2>3. SubSeq(bs, n + 1, n) = <<>>
      <3>1. n + 1 \in Int /\ n \in Int /\ n < n + 1 OBVIOUS
      <3> QED BY <3>1, SubSeqEmpty
    <2> HIDE DEF dec
    <2> QED BY <2>1, <2>2, <2>3
  <1>5. ASSUME NEW m \in S PROVE m + 1 \in S
    <2> SUFFICES ASSUME m + 1 <= n
                 PROVE  dec[pos[n + 1 - (m + 1)]] = SubSeq(bs, n + 1 - (m + 1), n)
      OBVIOUS
    <2>1. m \in Nat /\ dec[pos[n + 1 - m]] = SubSeq(bs, n + 1 - m, n) OBVIOUS
    <2>2. PICK k \in 1 .. n : k = n + 1 - (m + 1) /\ k + 1 = n + 1 - m BY <2>1
    <2> HIDE DEF S
    <2>3. PICK x \in 1 .. l + 1 : x = pos[k]
      <3>1. k \in 1 .. n + 1 OBVIOUS
      <3> QED BY <3>1, <1>3
    <2>4. PICK y \in 1 .. l + 1 : y = pos[k + 1]
      <3>1. k + 1 \in 1 .. n + 1 OBVIOUS
      <3> QED BY <3>1, <1>3
    <2>5. x <= l /\ ReadsTo(data, x, q, bs[k], y)
      BY <1>1, <1>2, <1>3, <2>3, <2>4 DEF ReadAs
    <2>6. dec[x] = Rest(data, q, dec, x) BY <1>2, DecodingUnfolds
    <2> HIDE DEF dec
    <2>7. DecodeAt(data, x, q).value = bs[k] /\ DecodeAt(data, x, q).next = y
      BY <2>5 DEF ReadsTo
    <2>8. AtMost(y, l + 1) = y /\ ~(x > l) BY <2>5 DEF AtMost
    <2>9. Rest(data, q, dec, x) = <<bs[k]>> \o dec[y] BY <1>2, <2>7, <2>8 DEF Rest
    <2>10. dec[y] = SubSeq(bs, k + 1, n) BY <2>1, <2>2, <2>4
    <2>11. SubSeq(bs, k, n) = <<bs[k]>> \o SubSeq(bs, k + 1, n)
      <3>1. k \in 1 .. Len(bs) /\ n \in k .. Len(bs) BY <1>1
      <3> QED BY <3>1, SubSeqRecursiveFirst
    <2> QED BY <2>2, <2>3, <2>6, <2>9, <2>10, <2>11
  <1>6. S = Nat
    <2>1. S \in SUBSET Nat OBVIOUS
    <2> HIDE DEF S
    <2> QED BY <1>4, <1>5, <2>1, Induction
  <1>7. n \in S BY <1>6
  <1>8. dec[pos[n + 1 - n]] = SubSeq(bs, n + 1 - n, n) BY <1>7
  <1>9. n + 1 - n = 1 /\ pos[1] = 1 BY <1>3 DEF ReadAs
  <1>10. SubSeq(bs, 1, n) = bs BY <1>1, SubSeqFull
  <1> HIDE DEF dec
  <1>11. dec[1] = bs BY <1>8, <1>9, <1>10
  <1> QED BY <1>11 DEF Decode, dec

(***************************************************************************)
(* The packing loop                                                        *)
(***************************************************************************)

\* A field that is missing or zero is the default.
LEMMA UnlessType ==
    ASSUME NEW b \in Byte \union {Missing}, NEW d \in Byte
    PROVE  Unless(b, d) \in Byte
  <1>1. CASE b = Missing BY <1>1 DEF Unless
  <1>2. CASE b \in Byte
    <2>1. unchar(b) \in Byte BY <1>2, SMTT(30) DEF unchar, Byte
    <2> QED BY <2>1 DEF Unless
  <1> QED BY <1>1, <1>2

\* What parse_params makes of any answer.
LEMMA ParseParamsType == ASSUME NEW a \in Seq(Byte) PROVE ParseParams(a) \in ParamsType
  <1>1. \A i \in Nat \ {0} : Get(a, i) \in Byte \union {Missing}
    BY DEF Get
  <1>2. /\ Get(a, 1) \in Byte \union {Missing} /\ Get(a, 3) \in Byte \union {Missing}
        /\ Get(a, 4) \in Byte \union {Missing} /\ Get(a, 5) \in Byte \union {Missing}
    BY <1>1
  <1>3. 80 \in Byte /\ 0 \in Byte /\ 13 \in Byte BY DEF Byte
  <1>4. AtMost(Unless(Get(a, 1), 80), 94) \in 0 .. 94
    <2> DEFINE x == Unless(Get(a, 1), 80)
    <2>1. x \in Byte BY <1>2, <1>3, UnlessType
    <2> HIDE DEF x
    <2>2. AtMost(x, 94) \in 0 .. 94 BY <2>1 DEF AtMost, Byte
    <2> QED BY <2>2 DEF x
  <1>5. Unless(Get(a, 3), 0) \in Byte /\ Unless(Get(a, 5), 13) \in Byte
    BY <1>2, <1>3, UnlessType
  <1>6. (IF Get(a, 4) = Missing THEN 0 ELSE ctl(Get(a, 4))) \in Byte
    BY <1>2, <1>3, CtlType
  <1>7. Qbin(Get(a, 7)) \in 33 .. 126 \union {NoQuote}
    BY DEF Qbin
  <1>8. Chkt(Get(a, 8)) \in {1, 2, 3}
    BY DEF Chkt
  <1> QED BY <1>4, <1>5, <1>6, <1>7, <1>8 DEF ParseParams, ParamsType

\* There is always room for four characters.
LEMMA BudgetType ==
    ASSUME NEW p \in ParamsType
    PROVE  /\ Budget(p) \in Nat /\ Budget(p) >= 4
           /\ Overhead(p) \in Nat
           /\ \/ Budget(p) + Overhead(p) = p.maxl
              \/ Budget(p) = 4 /\ p.maxl < Overhead(p) + 4
  <1>1. p.maxl \in 0 .. 94 /\ p.chkt \in {1, 2, 3} BY DEF ParamsType
  <1> QED BY <1>1 DEF Budget, Overhead, AtLeast

\* Encoding one more byte into a packet.
LEMMA Extended ==
    ASSUME NEW c \in Seq(Byte), Clean(c), NEW b \in Byte, NEW q \in Quotes
    PROVE  /\ c \o EncodeByte(b, q) \in Seq(Byte)
           /\ Len(c) \in Nat
           /\ Len(c \o EncodeByte(b, q)) <= Len(c) + 3
           /\ c \o EncodeByte(b, q) # <<>>
           /\ Clean(c \o EncodeByte(b, q))
  <1> DEFINE e == EncodeByte(b, q)
  <1>1. e \in Seq(Byte) /\ Len(e) \in 1 .. 3 /\ Clean(e) BY EncodeByteType
  <1> HIDE DEF e
  <1>2. /\ c \o e \in Seq(Byte) /\ Len(c \o e) = Len(c) + Len(e) /\ Len(c) \in Nat
        /\ \A j \in 1 .. Len(c) : (c \o e)[j] = c[j]
        /\ \A j \in Len(c) + 1 .. Len(c) + Len(e) : (c \o e)[j] = e[j - Len(c)]
    BY <1>1
  <1>3. Clean(c \o e)
    <2> SUFFICES ASSUME NEW j \in 1 .. Len(c) + Len(e) PROVE ~Control((c \o e)[j])
      BY <1>2 DEF Clean
    <2>1. CASE j \in 1 .. Len(c) BY <2>1, <1>2 DEF Clean
    <2>2. CASE j \in Len(c) + 1 .. Len(c) + Len(e)
      <3>1. j - Len(c) \in 1 .. Len(e) BY <2>2, <1>1, <1>2
      <3> QED BY <3>1, <2>2, <1>1, <1>2 DEF Clean
    <2> QED BY <2>1, <2>2, <1>1, <1>2
  <1>4. Len(c \o e) >= 1 /\ Len(c \o e) <= Len(c) + 3
    <2> DEFINE n == Len(c \o e)
               l == Len(c)
               m == Len(e)
    <2>1. n = l + m /\ l \in Nat /\ m \in 1 .. 3 BY <1>1, <1>2
    <2> HIDE DEF n, l, m
    <2>2. n >= 1 /\ n <= l + 3 BY <2>1
    <2> QED BY <2>2 DEF n, l
  <1>5. c \o e # <<>>
    <2> SUFFICES ASSUME c \o e = <<>> PROVE FALSE
      OBVIOUS
    <2>1. Len(<<>>) = 0 OBVIOUS
    <2> DEFINE n == Len(c \o e)
    <2>2. n = 0 /\ n >= 1 BY <2>1, <1>4
    <2> HIDE DEF n
    <2> QED BY <2>2
  <1> QED BY <1>2, <1>3, <1>4, <1>5 DEF e

\* Encoding starts in the invariant.
LEMMA InitIndInv == Init => IndInv
  <1> SUFFICES ASSUME Init PROVE IndInv OBVIOUS
  <1>1. params \in ParamsType
    BY CodecAssumption, ParseParamsType DEF Init
  <1>2. name \in Seq(Byte) /\ bytes \in Seq(Byte)
    BY CodecAssumption DEF Init
  <1>3. index \in 0 .. Len(name) BY <1>2 DEF Init
  <1>4. TypeOK
    BY <1>1, <1>2, <1>3 DEF Init, TypeOK
  <1>5. ChunkOK BY DEF Init, ChunkOK, Clean
  <1>6. PacketsOK BY DEF Init, PacketsOK
  <1>7. HeaderFirst BY DEF Init, HeaderFirst
  <1> QED BY <1>4, <1>5, <1>6, <1>7 DEF IndInv

\* One packet more.
LEMMA PacketAdded ==
    ASSUME IndInv, NEW p \in Seq(Byte), Len(p) <= Budget(params), Clean(p),
           packets = <<>> \/ p # <<>>,
           packets' = Append(packets, p), params' = params
    PROVE  /\ PacketsOK' /\ packets' \in Seq(Seq(Byte)) /\ packets' # <<>>
  <1>1. packets \in Seq(Seq(Byte)) BY DEF IndInv, TypeOK
  <1>2. /\ packets' \in Seq(Seq(Byte)) /\ packets' # <<>>
        /\ Len(packets) \in Nat /\ Len(packets') = Len(packets) + 1
        /\ \A i \in 1 .. Len(packets) : packets'[i] = packets[i]
        /\ packets'[Len(packets) + 1] = p
    BY <1>1
  <1>3. packets = <<>> => Len(packets) = 0 OBVIOUS
  <1>4. ASSUME NEW i \in 1 .. Len(packets')
        PROVE  /\ Len(packets'[i]) <= Budget(params)
               /\ Clean(packets'[i])
               /\ i >= 2 => packets'[i] # <<>>
    <2>1. CASE i \in 1 .. Len(packets)
      BY <2>1, <1>2 DEF IndInv, PacketsOK
    <2>2. CASE i = Len(packets) + 1
      BY <2>2, <1>2, <1>3
    <2> QED BY <2>1, <2>2, <1>2
  <1> QED BY <1>2, <1>4 DEF PacketsOK

\* Every step of the encoding preserves the invariant.
LEMMA NextIndInv == IndInv /\ [Next]_vars => IndInv'
  <1> SUFFICES ASSUME IndInv, [Next]_vars PROVE IndInv' OBVIOUS
  <1>1. /\ params \in ParamsType /\ name \in Seq(Byte) /\ bytes \in Seq(Byte)
        /\ chunk \in Seq(Byte) /\ Clean(chunk) /\ Len(chunk) \in Nat
        /\ packets \in Seq(Seq(Byte))
        /\ Len(name) \in Nat /\ Len(bytes) \in Nat
    BY DEF IndInv, TypeOK, ChunkOK
  <1>2. /\ index \in 0 .. Len(IF stage \in {"header", "refused"} THEN name ELSE bytes)
        /\ index \in Nat
        /\ stage \in {"header", "loop", "filling", "done", "refused"}
    BY <1>1 DEF IndInv, TypeOK
  <1>3. Budget(params) \in Nat /\ Budget(params) >= 4 /\ params.qbin \in Quotes
    BY <1>1, BudgetType DEF ParamsType, Quotes
  <1>4. CASE EncodeName
    <2>1. index \in 0 .. Len(name) /\ index < Len(name) /\ name[index + 1] \in Byte
      BY <1>1, <1>2, <1>4 DEF EncodeName
    <2>2. chunk' \in Seq(Byte) /\ Clean(chunk')
      BY <2>1, <1>1, <1>3, <1>4, Extended DEF EncodeName
    <2>3. index' \in 0 .. Len(name)
      BY <2>1, <1>1, <1>4 DEF EncodeName
    <2>4. TypeOK' BY <2>2, <2>3, <1>1, <1>4 DEF EncodeName, TypeOK
    <2>5. ChunkOK' BY <2>2, <1>4 DEF EncodeName, ChunkOK
    <2>6. PacketsOK' /\ HeaderFirst'
      BY <1>4 DEF EncodeName, IndInv, PacketsOK, HeaderFirst
    <2> QED BY <2>4, <2>5, <2>6 DEF IndInv
  <1>5. CASE SendHeader
    <2>1. packets = <<>> BY <1>5 DEF SendHeader, IndInv, HeaderFirst
    <2>2. packets' = Append(packets, chunk) BY <2>1, <1>5 DEF SendHeader
    <2>3. PacketsOK' /\ packets' \in Seq(Seq(Byte)) /\ packets' # <<>>
      BY <2>1, <2>2, <1>1, <1>5, PacketAdded DEF SendHeader
    <2>4. TypeOK' BY <2>3, <1>1, <1>5 DEF SendHeader, TypeOK
    <2>5. ChunkOK' BY <1>3, <1>5 DEF SendHeader, ChunkOK, Clean
    <2>6. HeaderFirst' BY <2>3, <1>5 DEF SendHeader, HeaderFirst
    <2> QED BY <2>3, <2>4, <2>5, <2>6 DEF IndInv
  <1>6. CASE RefuseName
    BY <1>1, <1>2, <1>6
       DEF RefuseName, IndInv, TypeOK, ChunkOK, PacketsOK, HeaderFirst
  <1>7. CASE StartChunk
    BY <1>1, <1>2, <1>3, <1>7
       DEF StartChunk, IndInv, TypeOK, ChunkOK, PacketsOK, HeaderFirst, Clean
  <1>8. CASE EncodeNext
    <2>1. index \in 0 .. Len(bytes) /\ index < Len(bytes) /\ bytes[index + 1] \in Byte
      BY <1>1, <1>2, <1>8 DEF EncodeNext, Room
    <2>2. /\ chunk' \in Seq(Byte) /\ Clean(chunk') /\ chunk' # <<>>
          /\ Len(chunk') <= Len(chunk) + 3 /\ Len(chunk') \in Nat
      BY <2>1, <1>1, <1>3, <1>8, Extended DEF EncodeNext
    <2>3. Len(chunk') <= Budget(params)
      BY <2>2, <1>1, <1>3, <1>8 DEF EncodeNext, Room
    <2>4. index' \in 0 .. Len(bytes)
      BY <2>1, <1>1, <1>8 DEF EncodeNext
    <2>5. TypeOK' BY <2>2, <2>4, <1>1, <1>8 DEF EncodeNext, TypeOK
    <2>6. ChunkOK' BY <2>2, <2>3, <1>8 DEF EncodeNext, ChunkOK
    <2>7. PacketsOK' /\ HeaderFirst'
      BY <1>8 DEF EncodeNext, IndInv, PacketsOK, HeaderFirst
    <2> QED BY <2>5, <2>6, <2>7 DEF IndInv
  <1>9. CASE SendChunk
    <2>1. chunk # <<>>
      <3> SUFFICES ASSUME chunk = <<>> PROVE FALSE OBVIOUS
      <3>1. index < Len(bytes) BY <1>9 DEF SendChunk, IndInv, ChunkOK
      <3>2. Len(chunk) = 0 OBVIOUS
      <3> QED BY <3>1, <3>2, <1>3, <1>9 DEF SendChunk, Room
    <2>2. Len(chunk) <= Budget(params) BY <1>9 DEF SendChunk, IndInv, ChunkOK
    <2>3. PacketsOK' /\ packets' \in Seq(Seq(Byte)) /\ packets' # <<>>
      BY <2>1, <2>2, <1>1, <1>9, PacketAdded DEF SendChunk
    <2>4. TypeOK' BY <2>3, <1>1, <1>2, <1>9 DEF SendChunk, TypeOK
    <2>5. ChunkOK' BY <2>2, <1>1, <1>9 DEF SendChunk, ChunkOK
    <2>6. HeaderFirst' BY <2>3, <1>9 DEF SendChunk, HeaderFirst
    <2> QED BY <2>3, <2>4, <2>5, <2>6 DEF IndInv
  <1>10. CASE Finish
    BY <1>1, <1>2, <1>10
       DEF Finish, IndInv, TypeOK, ChunkOK, PacketsOK, HeaderFirst
  <1>11. CASE UNCHANGED vars
    BY <1>11 DEF vars, IndInv, TypeOK, ChunkOK, PacketsOK, HeaderFirst
  <1> QED
    BY <1>4, <1>5, <1>6, <1>7, <1>8, <1>9, <1>10, <1>11 DEF Next, Done

\* The invariant holds for every file.
THEOREM Invariance == Spec => []IndInv
  <1> QED BY InitIndInv, NextIndInv, PTL DEF Spec

\* The loop of send_file never sends an empty data packet, and no packet exceeds
\* what the board takes, unless the board takes less than the budget's floor.
THEOREM Fits == Spec => []PacketFits
  <1>1. ASSUME IndInv, NEW i \in 1 .. Len(packets)
        PROVE  \/ Len(packets[i]) + Overhead(params) <= params.maxl
               \/ params.maxl < Overhead(params) + 4 /\ Len(packets[i]) <= 4
    <2> USE <1>1
    <2>1. params \in ParamsType /\ packets[i] \in Seq(Byte) BY DEF IndInv, TypeOK
    <2>2. Len(packets[i]) \in Nat /\ Len(packets[i]) <= Budget(params)
      BY <2>1 DEF IndInv, PacketsOK
    <2> DEFINE m == params.maxl
    <2>3. m \in 0 .. 94 BY <2>1 DEF ParamsType
    <2>4. /\ Budget(params) \in Nat /\ Overhead(params) \in Nat
          /\ \/ Budget(params) + Overhead(params) = m
             \/ Budget(params) = 4 /\ m < Overhead(params) + 4
      BY <2>1, BudgetType
    <2> HIDE DEF m
    <2>5. \/ Len(packets[i]) + Overhead(params) <= m
          \/ m < Overhead(params) + 4 /\ Len(packets[i]) <= 4
      BY <2>2, <2>3, <2>4
    <2> QED BY <2>5 DEF m
  <1>2. ASSUME IndInv, NEW i \in 2 .. Len(packets) PROVE packets[i] # <<>>
    <2>1. Len(packets) \in Nat BY <1>2 DEF IndInv, TypeOK
    <2>2. i \in 1 .. Len(packets) /\ i >= 2 BY <2>1
    <2> QED BY <1>2, <2>2 DEF IndInv, PacketsOK
  <1>3. IndInv => PacketFits BY <1>1, <1>2 DEF PacketFits
  <1> QED BY <1>3, Invariance, PTL

\* Nothing a packet holds can be taken for the start of the next one.
THEOREM NoControl == Spec => []NoControlInside
  <1>1. IndInv => NoControlInside
    BY DEF IndInv, PacketsOK, NoControlInside
  <1> QED BY <1>1, Invariance, PTL

(***************************************************************************)
(* The file, packet by packet                                              *)
(***************************************************************************)

\* Packet i holds the bytes of the file from behind cut[i - 1] up to cut[i], the
\* packet being filled those from behind the last cut up to the index.
CutAt(cut) ==
    /\ cut[1] = 0
    /\ \A i \in 2 .. Len(packets) :
        /\ cut[i - 1] <= cut[i]
        /\ Reads(packets[i], params.qbin, SubSeq(bytes, cut[i - 1] + 1, cut[i]))
    /\ stage \in {"loop", "done"} => cut[Len(packets)] = index
    /\ stage = "filling" =>
        /\ cut[Len(packets)] <= index
        /\ Reads(chunk, params.qbin, SubSeq(bytes, cut[Len(packets)] + 1, index))

HoldTheFile ==
    LegalQuote(params.qbin) /\ stage \notin {"header", "refused"} =>
        \E cut \in [1 .. Len(packets) -> 0 .. Len(bytes)] : CutAt(cut)

\* A piece of the file and the byte behind it.
LEMMA PieceGrows ==
    ASSUME NEW s \in Seq(Byte), NEW a \in Nat, NEW k \in Nat, a <= k, k < Len(s)
    PROVE  /\ SubSeq(s, a + 1, k) \in Seq(Byte)
           /\ s[k + 1] \in Byte
           /\ SubSeq(s, a + 1, k + 1) = Append(SubSeq(s, a + 1, k), s[k + 1])
  <1>1. PICK n \in Nat : n = Len(s) OBVIOUS
  <1>2. k + 1 \in 1 .. n /\ a + 1 \in 1 .. n /\ k + 1 \in a + 1 .. n /\ (k + 1) - 1 = k
    BY <1>1
  <1>3. SubSeq(s, a + 1, k) \in Seq(Byte)
    <2>1. \A i \in a + 1 .. k : s[i] \in Byte BY <1>1
    <2>2. a + 1 \in Int /\ k \in Int OBVIOUS
    <2> QED BY <2>1, <2>2, SubSeqProperties
  <1>4. s[k + 1] \in Byte BY <1>1, <1>2
  <1>5. SubSeq(s, a + 1, k + 1) = SubSeq(s, a + 1, (k + 1) - 1) \o <<s[k + 1]>>
    BY <1>1, <1>2, SubSeqRecursiveSecond
  <1>6. Append(SubSeq(s, a + 1, k), s[k + 1]) = SubSeq(s, a + 1, k) \o <<s[k + 1]>>
    BY <1>3, <1>4, AppendIsConcat
  <1> QED BY <1>2, <1>3, <1>4, <1>5, <1>6

LEMMA QbinType == ASSUME NEW p \in ParamsType PROVE p.qbin \in Int
  <1>1. p.qbin \in 33 .. 126 \union {NoQuote} BY DEF ParamsType
  <1> QED BY <1>1 DEF NoQuote

LEMMA InitHolds == Init => HoldTheFile
  BY DEF Init, HoldTheFile

\* The loop of send_file keeps the cuts.
LEMMA NextHolds == IndInv /\ HoldTheFile /\ [Next]_vars => HoldTheFile'
  <1> SUFFICES ASSUME IndInv, HoldTheFile, [Next]_vars PROVE HoldTheFile' OBVIOUS
  <1>1. /\ params \in ParamsType /\ bytes \in Seq(Byte) /\ chunk \in Seq(Byte)
        /\ packets \in Seq(Seq(Byte))
        /\ stage \in {"header", "loop", "filling", "done", "refused"}
    BY DEF IndInv, TypeOK
  <1>2. /\ params' = params /\ bytes' = bytes
        /\ params.qbin \in Int
    <2>1. params' = params /\ bytes' = bytes
      BY DEF Next, EncodeName, SendHeader, RefuseName, StartChunk, EncodeNext, SendChunk,
             Finish, Done, vars
    <2> QED BY <2>1, <1>1, QbinType
  <1>3. PICK n \in Nat : n = Len(bytes) BY <1>1
  <1>4. PICK m \in Nat : m = Len(packets) BY <1>1
  <1>5. stage \notin {"header", "refused"} => m >= 1 /\ index \in 0 .. n
    <2>1. packets # <<>> => m # 0 BY <1>1, <1>4
    <2> QED BY <2>1, <1>1, <1>3, <1>4 DEF IndInv, TypeOK, HeaderFirst
  <1> SUFFICES ASSUME LegalQuote(params.qbin), stage' \notin {"header", "refused"}
               PROVE  \E cut \in [1 .. Len(packets') -> 0 .. n] : CutAt(cut)'
    BY <1>2, <1>3 DEF HoldTheFile
  <1>6. CASE EncodeName \/ RefuseName
    BY <1>6 DEF EncodeName, RefuseName
  <1>7. CASE SendHeader
    <2> DEFINE cut == [i \in 1 .. 1 |-> 0]
    <2>1. packets' = <<chunk>> /\ index' = 0 /\ stage' = "loop" BY <1>7 DEF SendHeader
    <2>2. Len(packets') = 1 BY <2>1
    <2>3. cut \in [1 .. Len(packets') -> 0 .. n] BY <2>2
    <2>4. CutAt(cut)' BY <2>1, <2>2 DEF CutAt
    <2> QED BY <2>3, <2>4
  <1>8. ASSUME stage \notin {"header", "refused"}, packets' = packets,
               \A cut \in [1 .. m -> 0 .. n] : CutAt(cut) => CutAt(cut)'
        PROVE  \E cut \in [1 .. Len(packets') -> 0 .. n] : CutAt(cut)'
    BY <1>3, <1>4, <1>8 DEF HoldTheFile
  <1>9. CASE StartChunk
    <2>1. /\ stage = "loop" /\ stage' = "filling" /\ chunk' = <<>>
          /\ packets' = packets /\ index' = index
      BY <1>9 DEF StartChunk
    <2>2. ASSUME NEW cut \in [1 .. m -> 0 .. n], CutAt(cut) PROVE CutAt(cut)'
      <3>1. cut[m] = index /\ index \in Int BY <1>4, <1>5, <2>1, <2>2 DEF CutAt
      <3>2. SubSeq(bytes, index + 1, index) = <<>> BY <3>1, SubSeqEmpty
      <3>3. Reads(chunk', params.qbin, SubSeq(bytes, cut[m] + 1, index))
        BY <2>1, <3>1, <3>2, NothingRead
      <3> QED BY <1>2, <1>4, <2>1, <2>2, <3>1, <3>3 DEF CutAt
    <2> QED BY <1>8, <2>1, <2>2
  <1>10. CASE EncodeNext
    <2>1. /\ stage = "filling" /\ stage' = stage /\ packets' = packets
          /\ chunk' = chunk \o EncodeByte(bytes[index + 1], params.qbin)
          /\ index' = index + 1 /\ index < n
      BY <1>3, <1>10 DEF EncodeNext, Room
    <2>2. ASSUME NEW cut \in [1 .. m -> 0 .. n], CutAt(cut) PROVE CutAt(cut)'
      <3>1. PICK a \in Nat : a = cut[m] BY <1>5, <2>1
      <3>2. a <= index /\ index \in Nat /\ Reads(chunk, params.qbin, SubSeq(bytes, a + 1, index))
        BY <1>4, <1>5, <2>1, <2>2, <3>1 DEF CutAt
      <3>3. /\ SubSeq(bytes, a + 1, index) \in Seq(Byte) /\ bytes[index + 1] \in Byte
            /\ SubSeq(bytes, a + 1, index + 1)
                   = Append(SubSeq(bytes, a + 1, index), bytes[index + 1])
        BY <1>1, <1>3, <2>1, <3>2, PieceGrows
      <3>4. Reads(chunk', params.qbin, SubSeq(bytes, a + 1, index + 1))
        BY <1>1, <1>2, <2>1, <3>2, <3>3, OneMoreRead
      <3>5. a <= index + 1 BY <3>2
      <3> QED BY <1>2, <1>4, <2>1, <2>2, <3>1, <3>4, <3>5 DEF CutAt
    <2> QED BY <1>8, <2>1, <2>2
  <1>11. CASE SendChunk
    <2>1. /\ stage = "filling" /\ stage' = "loop" /\ packets' = Append(packets, chunk)
          /\ index' = index
      BY <1>11 DEF SendChunk
    <2>2. /\ Len(packets') = m + 1 /\ packets'[m + 1] = chunk
          /\ \A i \in 1 .. m : packets'[i] = packets[i]
      BY <1>1, <1>4, <2>1
    <2>3. PICK cut \in [1 .. m -> 0 .. n] : CutAt(cut)
      BY <1>3, <1>4, <2>1 DEF HoldTheFile
    <2>4. PICK longer \in [1 .. m + 1 -> 0 .. n] :
                longer[m + 1] = index /\ \A i \in 1 .. m : longer[i] = cut[i]
      <3> DEFINE l == [i \in 1 .. m + 1 |-> IF i = m + 1 THEN index ELSE cut[i]]
      <3>1. l \in [1 .. m + 1 -> 0 .. n] BY <1>5, <2>1
      <3>2. l[m + 1] = index /\ \A i \in 1 .. m : l[i] = cut[i] OBVIOUS
      <3> HIDE DEF l
      <3> QED BY <3>1, <3>2
    <2>5. longer[1] = 0 BY <1>5, <2>1, <2>3, <2>4 DEF CutAt
    <2>6. ASSUME NEW i \in 2 .. m + 1
          PROVE  /\ longer[i - 1] <= longer[i]
                 /\ Reads(packets'[i], params.qbin, SubSeq(bytes, longer[i - 1] + 1, longer[i]))
      <3>1. CASE i \in 2 .. m
        <4>1. i \in 1 .. m /\ i - 1 \in 1 .. m BY <3>1
        <4> QED BY <3>1, <4>1, <1>4, <2>2, <2>3, <2>4 DEF CutAt
      <3>2. CASE i = m + 1
        <4>1. m \in 1 .. m /\ i - 1 = m BY <3>2, <1>5, <2>1
        <4> QED BY <3>2, <4>1, <1>4, <2>1, <2>2, <2>3, <2>4 DEF CutAt
      <3> QED BY <3>1, <3>2
    <2>7. CutAt(longer)' BY <1>2, <2>1, <2>2, <2>4, <2>5, <2>6 DEF CutAt
    <2> QED BY <2>2, <2>4, <2>7
  <1>12. CASE Finish
    <2>1. /\ stage = "loop" /\ stage' = "done" /\ packets' = packets /\ index' = index
      BY <1>12 DEF Finish
    <2>2. ASSUME NEW cut \in [1 .. m -> 0 .. n], CutAt(cut) PROVE CutAt(cut)'
      BY <1>2, <2>1, <2>2 DEF CutAt
    <2> QED BY <1>8, <2>1, <2>2
  <1>13. CASE UNCHANGED vars
    <2>1. /\ stage' = stage /\ packets' = packets /\ index' = index /\ chunk' = chunk
      BY <1>13 DEF vars
    <2>2. ASSUME NEW cut \in [1 .. m -> 0 .. n], CutAt(cut) PROVE CutAt(cut)'
      BY <1>2, <2>1, <2>2 DEF CutAt
    <2> QED BY <1>8, <2>1, <2>2
  <1> QED
    BY <1>6, <1>7, <1>9, <1>10, <1>11, <1>12, <1>13 DEF Next, Done

\* What the board has after packet i, given what it has after the one before.
After(q, g, i) == IF i = 1 THEN <<>> ELSE g[i - 1] \o Decode(packets[i], q)

\* What the board has after packet i is the file up to the i-th cut.
LEMMA ReceivedCut ==
    ASSUME IndInv, NEW q \in Int, q = params.qbin, NEW m \in Nat, m = Len(packets), m >= 1,
           NEW cut \in [1 .. m -> 0 .. Len(bytes)], CutAt(cut)
    PROVE  Received[m] = SubSeq(bytes, 1, cut[m])
  <1>1. bytes \in Seq(Byte) /\ packets \in Seq(Seq(Byte)) BY DEF IndInv, TypeOK
  <1>2. PICK n \in Nat : n = Len(bytes) BY <1>1
  <1>3. ASSUME NEW i \in 2 .. m
        PROVE  SubSeq(bytes, 1, cut[i])
                   = SubSeq(bytes, 1, cut[i - 1]) \o Decode(packets[i], q)
    <2>1. i \in 1 .. m /\ i - 1 \in 1 .. m OBVIOUS
    <2>2. PICK a \in 0 .. n : a = cut[i - 1] BY <1>2, <2>1
    <2>3. PICK b \in 0 .. n : b = cut[i] BY <1>2, <2>1
    <2>4. a <= b /\ Reads(packets[i], q, SubSeq(bytes, a + 1, b)) BY <2>2, <2>3 DEF CutAt
    <2>5. packets[i] \in Seq(Byte) BY <1>1, <2>1
    <2>6. SubSeq(bytes, a + 1, b) \in Seq(Byte)
      <3>1. \A k \in a + 1 .. b : bytes[k] \in Byte BY <1>1, <1>2
      <3>2. a + 1 \in Int /\ b \in Int OBVIOUS
      <3> QED BY <3>1, <3>2, SubSeqProperties
    <2>7. Decode(packets[i], q) = SubSeq(bytes, a + 1, b) BY <2>4, <2>5, <2>6, DecodeReads
    <2>8. SubSeq(bytes, 1, a) \o SubSeq(bytes, a + 1, b) = SubSeq(bytes, 1, b)
      <3>1. 1 \in 1 .. Len(bytes) + 1 /\ a \in 1 - 1 .. Len(bytes) /\ b \in a .. Len(bytes)
        BY <1>2, <2>4
      <3> QED BY <3>1, <1>1, ConcatAdjacentSubSeq
    <2> QED BY <2>2, <2>3, <2>7, <2>8
  <1>4. SubSeq(bytes, 1, cut[1]) = <<>>
    <2>1. cut[1] = 0 BY DEF CutAt
    <2>2. SubSeq(bytes, 1, 0) = <<>>
      <3>1. 1 \in Int /\ 0 \in Int /\ 0 < 1 OBVIOUS
      <3> QED BY <3>1, SubSeqEmpty
    <2> QED BY <2>1, <2>2
  <1> DEFINE up == [i \in 1 .. m |-> SubSeq(bytes, 1, cut[i])]
  <1>5. \E g : g = [i \in 1 .. m |-> After(q, g, i)]
    <2>0. up = [i \in 1 .. m |-> up[i]] /\ \A i \in 1 .. m : up[i] = SubSeq(bytes, 1, cut[i])
      OBVIOUS
    <2> HIDE DEF up
    <2>1. ASSUME NEW i \in 1 .. m PROVE up[i] = After(q, up, i)
      <3>1. CASE i = 1 BY <3>1, <2>0, <1>4 DEF After
      <3>2. CASE i # 1
        <4>1. i \in 2 .. m /\ i - 1 \in 1 .. m BY <3>2
        <4>2. up[i] = SubSeq(bytes, 1, cut[i]) /\ up[i - 1] = SubSeq(bytes, 1, cut[i - 1])
          BY <4>1, <2>0
        <4> QED BY <3>2, <4>1, <4>2, <1>3 DEF After
      <3> QED BY <3>1, <3>2
    <2>2. up = [i \in 1 .. m |-> After(q, up, i)] BY <2>0, <2>1
    <2> QED BY <2>2
  <1>6. Received = CHOOSE g : g = [i \in 1 .. m |-> After(q, g, i)] BY DEF Received, After
  <1> HIDE DEF up
  <1>7. Received = [i \in 1 .. m |-> After(q, Received, i)] BY <1>5, <1>6
  <1> DEFINE S == {k \in Nat : k + 1 <= m => Received[k + 1] = SubSeq(bytes, 1, cut[k + 1])}
  <1>8. 0 \in S
    <2>1. Received[1] = <<>>
      <3>1. 1 \in 1 .. m OBVIOUS
      <3>2. Received[1] = After(q, Received, 1) BY <3>1, <1>7
      <3> QED BY <3>2 DEF After
    <2>2. 0 + 1 = 1 OBVIOUS
    <2> QED BY <2>1, <2>2, <1>4
  <1>9. ASSUME NEW k \in S PROVE k + 1 \in S
    <2> SUFFICES ASSUME k + 1 + 1 <= m
                 PROVE  Received[k + 1 + 1] = SubSeq(bytes, 1, cut[k + 1 + 1])
      OBVIOUS
    <2>1. k \in Nat /\ Received[k + 1] = SubSeq(bytes, 1, cut[k + 1]) OBVIOUS
    <2>2. PICK i \in 2 .. m : i = k + 1 + 1 /\ i - 1 = k + 1 BY <2>1
    <2>3. i \in 1 .. m /\ i # 1 OBVIOUS
    <2>4. Received[i] = After(q, Received, i) BY <2>3, <1>7
    <2>5. Received[i] = Received[i - 1] \o Decode(packets[i], q) BY <2>3, <2>4 DEF After
    <2> HIDE DEF S
    <2> QED BY <2>1, <2>2, <2>5, <1>3
  <1>10. S = Nat
    <2>1. S \in SUBSET Nat OBVIOUS
    <2> HIDE DEF S
    <2> QED BY <1>8, <1>9, <2>1, Induction
  <1>11. m - 1 \in Nat /\ m - 1 + 1 = m OBVIOUS
  <1>12. m - 1 \in S BY <1>10, <1>11
  <1> QED BY <1>11, <1>12

\* Whatever the file and whatever 8th-bit quote the protocol allows, what the
\* board decodes packet by packet is the file.
THEOREM Survives == Spec => []RoundTrip
  <1>1. IndInv /\ HoldTheFile => RoundTrip
    <2> SUFFICES ASSUME IndInv, HoldTheFile, stage \in {"loop", "done"}, LegalQuote(params.qbin)
                 PROVE  Received[Len(packets)] = SubSeq(bytes, 1, index)
      BY DEF RoundTrip
    <2>1. params.qbin \in Int BY QbinType DEF IndInv, TypeOK
    <2>2. PICK m \in Nat : m = Len(packets) BY DEF IndInv, TypeOK
    <2>3. m >= 1
      <3>1. packets # <<>> /\ packets \in Seq(Seq(Byte)) BY DEF IndInv, TypeOK, HeaderFirst
      <3> QED BY <2>2, <3>1
    <2>4. PICK cut \in [1 .. m -> 0 .. Len(bytes)] : CutAt(cut) BY <2>2 DEF HoldTheFile
    <2>5. Received[m] = SubSeq(bytes, 1, cut[m]) BY <2>1, <2>2, <2>3, <2>4, ReceivedCut
    <2>6. cut[m] = index BY <2>2, <2>4 DEF CutAt
    <2> QED BY <2>2, <2>5, <2>6
  <1>2. Spec => [](IndInv /\ HoldTheFile)
    BY Invariance, InitHolds, NextHolds, PTL DEF Spec
  <1> QED BY <1>1, <1>2, PTL
====
