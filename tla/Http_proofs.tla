----------------------------- MODULE Http_proofs -----------------------------
(***************************************************************************)
(* Theorems about the HTTP layer: HttpServer, for streams of any length, and *)
(* the StaticFileServer that is its callback, for paths of any length and    *)
(* any files.  Both rest on functions defined by recursion over a stream,    *)
(* which are scans in the sense of QueueLemmas.                              *)
(***************************************************************************)
EXTENDS HttpServer, StaticFileServer, QueueLemmas

-----------------------------------------------------------------------------
(* StaticFileServer: urlDecode *)

Bytes8 == 0 .. 255

\* The digits of the hexadecimal numbers that escapes are written in.
LEMMA DigitIs ==
    /\ \A c \in 48 .. 57 : Digit(c) = c - 48
    /\ \A c \in 65 .. 70 : Digit(c) = c - 55
    /\ \A c \in 97 .. 102 : Digit(c) = c - 87
    /\ \A c : c \notin (48 .. 57) \cup (65 .. 70) \cup (97 .. 102) => Digit(c) = -1
<1>1. \A c \in 48 .. 57 : c \notin 65 .. 70 /\ c \notin 97 .. 102
  OBVIOUS
<1>2. \A c \in 65 .. 70 : c \notin 48 .. 57 /\ c \notin 97 .. 102
  OBVIOUS
<1>3. \A c \in 97 .. 102 : c \notin 48 .. 57 /\ c \notin 65 .. 70
  OBVIOUS
<1>4. \A c \in 48 .. 57 : Digit(c) = c - 48
  BY <1>1, Zenon DEF Digit
<1>5. \A c \in 65 .. 70 : Digit(c) = c - 55
  BY <1>2, Zenon DEF Digit
<1>6. \A c \in 97 .. 102 : Digit(c) = c - 87
  BY <1>3, Zenon DEF Digit
<1>7. \A c : c \notin (48 .. 57) \cup (65 .. 70) \cup (97 .. 102) => Digit(c) = -1
  BY Zenon DEF Digit
<1> QED
  BY <1>4, <1>5, <1>6, <1>7

LEMMA DigitType ==
    ASSUME NEW c
    PROVE  Digit(c) \in -1 .. 15
  BY DigitIs, SMT

\* std::stoi gives a char, or throws.
LEMMA StoiType ==
    ASSUME NEW a, NEW b
    PROVE  Stoi(a, b) \in 0 .. Throws
<1>1. Digit(a) \in -1 .. 15 /\ Digit(b) \in -1 .. 15
  BY DigitType
<1>2. IsHex(a) => Digit(a) \in 0 .. 15
  BY <1>1 DEF IsHex
<1>3. IsHex(b) => Digit(b) \in 0 .. 15
  BY <1>1 DEF IsHex
<1>4. CASE IsHex(a) /\ IsHex(b)
  <2>1. Stoi(a, b) = 16 * Digit(a) + Digit(b)
    <3>1. a \notin Blanks \cup {Plus, Minus}
      BY <1>4, DigitIs, SMT DEF IsHex, Blanks, Plus, Space, Minus
    <3> QED
      BY <1>4, <3>1, Zenon DEF Stoi
  <2> QED
    BY <1>2, <1>3, <1>4, <2>1 DEF Throws
<1>5. CASE IsHex(a) /\ ~IsHex(b)
  <2>1. Stoi(a, b) = Digit(a)
    BY <1>5, Zenon DEF Stoi
  <2> QED
    BY <1>2, <1>5, <2>1 DEF Throws
<1>6. CASE ~IsHex(a) /\ a \in Blanks \cup {Plus} /\ IsHex(b)
  <2>1. a # Minus
    BY <1>6 DEF Blanks, Plus, Space, Minus
  <2>2. Stoi(a, b) = Digit(b)
    BY <1>6, <2>1, Zenon DEF Stoi
  <2> QED
    BY <1>3, <1>6, <2>2 DEF Throws
<1>7. CASE ~IsHex(a) /\ a \notin Blanks \cup {Plus} /\ a = Minus /\ IsHex(b)
  <2>1. Stoi(a, b) = (-Digit(b)) % 256
    BY <1>7, Zenon DEF Stoi
  <2> QED
    BY <1>3, <1>7, <2>1 DEF Throws
<1>8. CASE ~IsHex(a) /\ ~(a \in Blanks \cup {Plus, Minus} /\ IsHex(b))
  <2>1. Stoi(a, b) = Throws
    BY <1>8, Zenon DEF Stoi
  <2> QED
    BY <2>1 DEF Throws
<1> QED
  BY <1>4, <1>5, <1>6, <1>7, <1>8

\* What the recursion of urlDecode makes of a function g.
DecodeStep(u, g) ==
    [i \in 1 .. Len(u) + 1 |->
        IF i > Len(u) THEN <<>>
        ELSE CASE EscapeAt(u, i) -> <<Stoi(u[i + 1], u[i + 2])>> \o g[i + 3]
               [] u[i] = Plus    -> <<Space>> \o g[i + 1]
               [] OTHER          -> <<u[i]>> \o g[i + 1]]

LEMMA DecodeStepIs ==
    ASSUME NEW u \in Seq(Bytes8), NEW g, NEW i \in 1 .. Len(u) + 1
    PROVE  /\ i > Len(u) => DecodeStep(u, g)[i] = <<>>
           /\ i <= Len(u) /\ EscapeAt(u, i) =>
                 DecodeStep(u, g)[i] = <<Stoi(u[i + 1], u[i + 2])>> \o g[i + 3]
           /\ i <= Len(u) /\ ~EscapeAt(u, i) =>
                 DecodeStep(u, g)[i] =
                     <<IF u[i] = Plus THEN Space ELSE u[i]>> \o g[i + 1]
<1> DEFINE escaped == <<Stoi(u[i + 1], u[i + 2])>> \o g[i + 3]
           space == <<Space>> \o g[i + 1]
           itself == <<u[i]>> \o g[i + 1]
           here == CASE EscapeAt(u, i) -> escaped
                     [] u[i] = Plus    -> space
                     [] OTHER          -> itself
<1>1. DecodeStep(u, g)[i] = IF i > Len(u) THEN <<>> ELSE here
  BY Zenon DEF DecodeStep
<1>2. i > Len(u) <=> ~(i <= Len(u))
  BY LenProperties
<1>3. EscapeAt(u, i) => here = escaped
  <2>1. EscapeAt(u, i) => u[i] # Plus
    BY DEF EscapeAt, Percent, Plus
  <2> QED
    BY <2>1, Zenon
<1>4. ~EscapeAt(u, i) /\ u[i] = Plus => here = space
  BY Zenon
<1>5. ~EscapeAt(u, i) /\ u[i] # Plus => here = itself
  BY Zenon
<1> HIDE DEF here
<1> QED
  BY <1>1, <1>2, <1>3, <1>4, <1>5, Zenon

\* The recursion is well-founded, so that DecodeFrom is what it says.
LEMMA DecodeFromIs ==
    ASSUME NEW u \in Seq(Bytes8)
    PROVE  /\ DecodeFrom(u) = DecodeStep(u, DecodeFrom(u))
           /\ \A i \in 1 .. Len(u) + 1 : DecodeFrom(u)[i] \in Seq(0 .. Throws)
<1> DEFINE n == Len(u) + 1
           more == 1 .. Len(u)
           item == [i \in 1 .. n |->
                      IF EscapeAt(u, i) THEN <<Stoi(u[i + 1], u[i + 2])>>
                      ELSE IF u[i] = Plus THEN <<Space>> ELSE <<u[i]>>]
           next == [i \in 1 .. n |-> IF EscapeAt(u, i) THEN i + 3 ELSE i + 1]
           base == [i \in 1 .. n |-> <<>>]
           Scanned(g) == Scan(n, more, item, next, base, g)
<1>1. Len(u) \in Nat /\ n \in Nat
  BY LenProperties
<1>2. \A i \in 1 .. n : i \in more => next[i] \in i + 1 .. n
  BY <1>1 DEF EscapeAt
<1>3. \E g : g = Scanned(g)
  <2>1. n \in Nat
    BY <1>1
  <2> HIDE DEF n, more, item, next, base
  <2> QED
    BY <1>2, <2>1, ScanExists
<1>4. ASSUME NEW g
      PROVE  Scanned(g) = DecodeStep(u, g)
  <2>1. ASSUME NEW i \in 1 .. Len(u) + 1
        PROVE  Scanned(g)[i] = DecodeStep(u, g)[i]
    <3> DEFINE here == IF u[i] = Plus THEN Space ELSE u[i]
    <3>1. /\ i > Len(u) => Scanned(g)[i] = <<>>
          /\ i <= Len(u) => Scanned(g)[i] = item[i] \o g[next[i]]
      BY <1>1 DEF Scan
    <3>2. /\ EscapeAt(u, i) =>
               item[i] = <<Stoi(u[i + 1], u[i + 2])>> /\ next[i] = i + 3
          /\ ~EscapeAt(u, i) => item[i] = <<here>> /\ next[i] = i + 1
      BY <1>1
    <3>3. /\ i > Len(u) => DecodeStep(u, g)[i] = <<>>
          /\ i <= Len(u) /\ EscapeAt(u, i) =>
               DecodeStep(u, g)[i] = <<Stoi(u[i + 1], u[i + 2])>> \o g[i + 3]
          /\ i <= Len(u) /\ ~EscapeAt(u, i) =>
               DecodeStep(u, g)[i] = <<here>> \o g[i + 1]
      BY DecodeStepIs
    <3>4. i > Len(u) \/ i <= Len(u)
      BY <1>1
    <3> HIDE DEF here, item, next, Scanned
    <3> QED
      BY <3>1, <3>2, <3>3, <3>4, Zenon
  <2>2. /\ Scanned(g) = [i \in 1 .. Len(u) + 1 |-> Scanned(g)[i]]
        /\ DecodeStep(u, g) = [i \in 1 .. Len(u) + 1 |-> DecodeStep(u, g)[i]]
    BY DEF DecodeStep, Scan
  <2> HIDE DEF Scanned
  <2> QED
    BY <2>1, <2>2
<1>5. DecodeFrom(u) = DecodeStep(u, DecodeFrom(u))
  <2> HIDE DEF Scanned
  <2>1. \E g : g = DecodeStep(u, g)
    BY <1>3, <1>4
  <2>2. DecodeFrom(u) = CHOOSE g : g = DecodeStep(u, g)
    BY DEF DecodeFrom, DecodeStep
  <2> QED
    BY <2>1, <2>2
<1>6. ASSUME NEW i \in 1 .. n
      PROVE  IF i \in more THEN item[i] \in Seq(0 .. Throws)
                          ELSE base[i] \in Seq(0 .. Throws)
  <2>1. i \in 1 .. Len(u) /\ ~EscapeAt(u, i) => u[i] \in 0 .. Throws
    BY ElementOfSeq DEF Bytes8, Throws
  <2>2. \A a, b : Stoi(a, b) \in 0 .. Throws
    BY StoiType
  <2>3. CASE i \in more /\ EscapeAt(u, i)
    <3>1. item[i] = <<Stoi(u[i + 1], u[i + 2])>>
      BY <2>3
    <3> HIDE DEF more, item
    <3> QED
      BY <2>2, <2>3, <3>1
  <2>4. CASE i \in more /\ ~EscapeAt(u, i)
    <3>1. item[i] = <<IF u[i] = Plus THEN Space ELSE u[i]>>
      BY <2>4
    <3>2. (IF u[i] = Plus THEN Space ELSE u[i]) \in 0 .. Throws
      BY <2>1, <2>4 DEF Space, Throws
    <3> HIDE DEF more, item
    <3> QED
      BY <2>4, <3>1, <3>2
  <2>5. CASE i \notin more
    BY <2>5
  <2> QED
    BY <2>3, <2>4, <2>5
<1> QED
  <2>1. DecodeFrom(u) = Scanned(DecodeFrom(u))
    BY <1>4, <1>5
  <2>2. \A i \in 1 .. n : DecodeFrom(u)[i] \in Seq(0 .. Throws)
    <3>1. n \in Nat
      BY <1>1
    <3> HIDE DEF n, more, item, next, base
    <3> QED
      BY <1>2, <1>6, <2>1, <3>1, ScanType
  <2> QED
    BY <1>5, <2>2

\* An escape stands for its character, as it is the number it spells, in capital
\* or small letters.
LEMMA EscapeIs ==
    ASSUME NEW c \in 1 .. 127,
           NEW x \in HexDigits(c \div 16), NEW y \in HexDigits(c % 16)
    PROVE  /\ x \in Bytes8 /\ y \in Bytes8
           /\ Stoi(x, y) = c
<1> DEFINE h == c \div 16
           l == c % 16
<1>1. h \in 0 .. 15 /\ l \in 0 .. 15 /\ c = 16 * h + l
  BY Z3
<1>2. x \in HexDigits(h) /\ y \in HexDigits(l)
  OBVIOUS
<1> HIDE DEF h, l
<1>3. ASSUME NEW d \in 0 .. 15, NEW z \in HexDigits(d)
      PROVE  z \in Bytes8 /\ Digit(z) = d /\ z \notin Blanks \cup {Plus, Minus}
  <2>1. CASE d < 10
    <3>1. z = 48 + d /\ z \in 48 .. 57
      BY <2>1 DEF HexDigits
    <3> QED
      BY <3>1, DigitIs DEF Bytes8, Blanks, Space, Plus, Minus
  <2>2. CASE d >= 10
    <3>1. z = 55 + d \/ z = 87 + d
      BY <2>2 DEF HexDigits
    <3>2. CASE z = 55 + d
      <4>1. z \in 65 .. 70
        BY <2>2, <3>2
      <4>2. Digit(z) = z - 55
        BY <4>1, DigitIs, Zenon
      <4> QED
        BY <3>2, <4>1, <4>2 DEF Bytes8, Blanks, Space, Plus, Minus
    <3>3. CASE z = 87 + d
      <4>1. z \in 97 .. 102
        BY <2>2, <3>3
      <4>2. Digit(z) = z - 87
        BY <4>1, DigitIs, Zenon
      <4> QED
        BY <3>3, <4>1, <4>2 DEF Bytes8, Blanks, Space, Plus, Minus
    <3> QED
      BY <3>1, <3>2, <3>3
  <2> QED
    BY <2>1, <2>2
<1>4. /\ x \in Bytes8 /\ Digit(x) = h /\ x \notin Blanks \cup {Plus, Minus}
      /\ y \in Bytes8 /\ Digit(y) = l
  BY <1>1, <1>2, <1>3
<1>5. IsHex(x) /\ IsHex(y)
  BY <1>1, <1>4 DEF IsHex
<1>6. Stoi(x, y) = 16 * Digit(x) + Digit(y)
  BY <1>4, <1>5, Zenon DEF Stoi
<1> QED
  BY <1>1, <1>4, <1>6

\* What a writing is: an escape, a plus for a space, or the character.
LEMMA WritingIs ==
    ASSUME NEW c \in 1 .. 127, NEW w \in Writings(c)
    PROVE  /\ w \in Seq(Bytes8)
           /\ \/ \E x \in HexDigits(c \div 16), y \in HexDigits(c % 16) :
                    w = <<Percent, x, y>>
              \/ c = Space /\ w = <<Plus>>
              \/ w = <<c>> /\ (careful => c \notin {Space, Percent, Plus})
<1>1. \/ w \in Escapes(c)
      \/ c = Space /\ w = <<Plus>>
      \/ w = <<c>> /\ (careful => c \notin {Space, Percent, Plus})
  BY Zenon DEF Writings
<1>2. w \in Escapes(c) =>
         \E x \in HexDigits(c \div 16), y \in HexDigits(c % 16) :
            w = <<Percent, x, y>>
  BY SMT DEF Escapes
<1>3. \A x \in HexDigits(c \div 16), y \in HexDigits(c % 16) :
         <<Percent, x, y>> \in Seq(Bytes8)
  <2>1. \A x \in HexDigits(c \div 16), y \in HexDigits(c % 16) :
           x \in Bytes8 /\ y \in Bytes8
    BY EscapeIs
  <2>2. Percent \in Bytes8
    BY DEF Bytes8, Percent
  <2>3. \A p, d, e \in Bytes8 : <<p, d, e>> \in Seq(Bytes8)
    OBVIOUS
  <2> QED
    BY <2>1, <2>2, <2>3, Zenon
<1>4. <<Plus>> \in Seq(Bytes8) /\ <<c>> \in Seq(Bytes8)
  <2>1. Plus \in Bytes8 /\ c \in Bytes8
    BY DEF Plus, Bytes8
  <2> QED
    BY <2>1
<1> QED
  BY <1>1, <1>2, <1>3, <1>4, Zenon

\* What a careful client writes for a character is read as it, wherever it
\* stands.
LEMMA WritingDecoded ==
    ASSUME careful, NEW c \in Chars, NEW w \in Writings(c),
           NEW u \in Seq(Bytes8), NEW rest \in Seq(Bytes8)
    PROVE  /\ w \in Seq(Bytes8)
           /\ DecodeFrom((u \o w) \o rest)[Len(u) + 1] =
                 <<c>> \o DecodeFrom((u \o w) \o rest)[Len(u \o w) + 1]
<1> DEFINE s == (u \o w) \o rest
           i == Len(u) + 1
           D == DecodeFrom(s)
<1>1. c \in 1 .. 127
  BY PathAssumption
<1>2. \/ \E x \in HexDigits(c \div 16), y \in HexDigits(c % 16) :
            w = <<Percent, x, y>>
      \/ c = Space /\ w = <<Plus>>
      \/ c \notin {Space, Percent, Plus} /\ w = <<c>>
  BY <1>1, WritingIs, Zenon
<1>3. w \in Seq(Bytes8)
  BY <1>1, WritingIs, Zenon
<1>4. /\ u \o w \in Seq(Bytes8) /\ Len(u \o w) = Len(u) + Len(w)
      /\ s \in Seq(Bytes8) /\ Len(s) = Len(u) + Len(w) + Len(rest)
      /\ Len(u) \in Nat /\ Len(w) \in Nat /\ Len(rest) \in Nat
  BY <1>3, QueueConcat, LenProperties
<1>5. \A k \in 1 .. Len(w) : s[Len(u) + k] = w[k]
  <2> SUFFICES ASSUME NEW k \in 1 .. Len(w)
               PROVE  s[Len(u) + k] = w[k]
    OBVIOUS
  <2>1. Len(u) + k \in 1 .. Len(u \o w)
    BY <1>4
  <2>2. s[Len(u) + k] = (u \o w)[Len(u) + k]
    BY <1>4, <2>1, QueueConcat
  <2> QED
    BY <1>3, <2>2, QueueConcat
<1> HIDE DEF s
<1>6. D = DecodeStep(s, D)
  BY <1>4, DecodeFromIs
<1> HIDE DEF D
<1>7. i \in 1 .. Len(s) + 1
  BY <1>4
<1>8. ASSUME i <= Len(s), EscapeAt(s, i)
      PROVE  D[i] = <<Stoi(s[i + 1], s[i + 2])>> \o D[i + 3]
  <2>1. DecodeStep(s, D)[i] = <<Stoi(s[i + 1], s[i + 2])>> \o D[i + 3]
    BY <1>4, <1>7, <1>8, DecodeStepIs
  <2> QED
    BY <1>6, <2>1
<1>9. ASSUME i <= Len(s), ~EscapeAt(s, i)
      PROVE  D[i] = <<IF s[i] = Plus THEN Space ELSE s[i]>> \o D[i + 1]
  <2>1. DecodeStep(s, D)[i] = <<IF s[i] = Plus THEN Space ELSE s[i]>> \o D[i + 1]
    BY <1>4, <1>7, <1>9, DecodeStepIs
  <2> QED
    BY <1>6, <2>1
<1>10. D[i] = <<c>> \o D[Len(u \o w) + 1]
  <2>1. ASSUME NEW x \in HexDigits(c \div 16), NEW y \in HexDigits(c % 16),
               w = <<Percent, x, y>>
        PROVE  D[i] = <<c>> \o D[Len(u \o w) + 1]
    <3>1. Len(w) = 3 /\ w[1] = Percent /\ w[2] = x /\ w[3] = y
      BY <2>1
    <3>2. s[i] = Percent /\ s[i + 1] = x /\ s[i + 2] = y
      <4>1. i = Len(u) + 1 /\ i + 1 = Len(u) + 2 /\ i + 2 = Len(u) + 3
        BY <1>4
      <4>2. 1 \in 1 .. Len(w) /\ 2 \in 1 .. Len(w) /\ 3 \in 1 .. Len(w)
        BY <3>1
      <4> HIDE DEF i
      <4> QED
        BY <1>5, <3>1, <4>1, <4>2
    <3>3. i <= Len(s) /\ i + 2 <= Len(s) /\ i + 3 = Len(u \o w) + 1
      BY <1>4, <3>1
    <3>4. EscapeAt(s, i)
      BY <3>2, <3>3 DEF EscapeAt
    <3>5. Stoi(s[i + 1], s[i + 2]) = c
      BY <1>1, <3>2, EscapeIs
    <3> HIDE DEF i
    <3> QED
      BY <1>8, <3>3, <3>4, <3>5
  <2>2. CASE c = Space /\ w = <<Plus>>
    <3>1. Len(w) = 1 /\ w[1] = Plus
      BY <2>2
    <3>2. s[i] = Plus
      BY <1>5, <3>1
    <3>3. i <= Len(s) /\ i + 1 = Len(u \o w) + 1
      BY <1>4, <3>1
    <3>4. ~EscapeAt(s, i)
      BY <3>2 DEF EscapeAt, Percent, Plus
    <3> HIDE DEF i
    <3> QED
      BY <1>9, <2>2, <3>2, <3>3, <3>4
  <2>3. CASE c \notin {Space, Percent, Plus} /\ w = <<c>>
    <3>1. Len(w) = 1 /\ w[1] = c
      BY <2>3
    <3>2. s[i] = c
      BY <1>5, <3>1
    <3>3. i <= Len(s) /\ i + 1 = Len(u \o w) + 1
      BY <1>4, <3>1
    <3>4. ~EscapeAt(s, i) /\ s[i] # Plus
      BY <2>3, <3>2 DEF EscapeAt
    <3> HIDE DEF i
    <3> QED
      BY <1>9, <3>2, <3>3, <3>4
  <2> QED
    BY <1>2, <2>1, <2>2, <2>3
<1> QED
  BY <1>3, <1>10 DEF D, s

-----------------------------------------------------------------------------
(* StaticFileServer: the invariant *)

\* What was written of a path so far decodes to what is meant so far.
LEMMA DecodedWhole ==
    ASSUME careful, DecodesSoFar, url \in Seq(Bytes8), meant \in Seq(Chars)
    PROVE  Path = meant
<1>1. <<>> \in Seq(Bytes8) /\ url \o <<>> = url /\ meant \o <<>> = meant
  BY ConcatEmptySeq, EmptySeq
<1>2. UrlDecode(url \o <<>>) = meant \o DecodeFrom(url \o <<>>)[Len(url) + 1]
  BY <1>1 DEF DecodesSoFar, Bytes8
<1>3. Len(url) + 1 \in 1 .. Len(url) + 1 /\ Len(url) + 1 > Len(url)
  BY LenProperties
<1>4. DecodeFrom(url)[Len(url) + 1] = <<>>
  <2>1. DecodeStep(url, DecodeFrom(url))[Len(url) + 1] = <<>>
    BY <1>3, DecodeStepIs
  <2> QED
    BY <2>1, DecodeFromIs
<1> QED
  BY <1>1, <1>2, <1>4 DEF Path

\* There is nothing to say of an answer before there is one.
LEMMA NoAnswerYet ==
    ASSUME phase' \notin {"answered", "lost"}, ServesWhatIsNamed'
    PROVE  AnswersWhatIsMeant'
<1>1. response' = NoResponse
  BY Zenon DEF ServesWhatIsNamed
<1>2. response'.status # 200
  <2>1. response'.status = 0
    BY <1>1, Zenon DEF NoResponse
  <2> QED
    BY <2>1
<1>3. phase' # "answered" /\ phase' # "lost"
  OBVIOUS
<1> QED
  BY <1>2, <1>3, Zenon DEF AnswersWhatIsMeant

LEMMA FileInitInvariant == FileInit => FileInvariant
<1> SUFFICES ASSUME FileInit PROVE FileInvariant
  OBVIOUS
<1>1. FileTypeOK
  <2>1. <<>> \in Contents
    <3>1. <<>> \in [1 .. 0 -> Bytes]
      OBVIOUS
    <3>2. 0 \in 0 .. MaxSize
      BY PathAssumption
    <3> QED
      BY <3>1, <3>2 DEF Contents
  <2>2. 0 \in 0 .. MaxSize
    BY PathAssumption
  <2>3. <<>> \in Seq(Chars) /\ <<>> \in Seq(0 .. 255)
    BY EmptySeq
  <2>4. response.status = 0
    BY DEF FileInit, NoResponse
  <2>5. /\ careful \in BOOLEAN /\ opens \in BOOLEAN /\ written = FALSE
        /\ phase = "composing"
        /\ meant = <<>> /\ url = <<>> /\ file = <<>> /\ size = 0
    BY DEF FileInit
  <2>6. response.status \in {0, 200, 400, 404} /\ response.status # 200
    BY <2>4
  <2>7. /\ {careful, opens, written} \subseteq BOOLEAN
        /\ phase \in {"composing", "opened", "measured", "answered", "lost"}
    BY <2>5
  <2>8. /\ meant \in Seq(Chars) /\ url \in Seq(0 .. 255)
        /\ file \in Contents /\ size \in 0 .. MaxSize
    BY <2>1, <2>2, <2>3, <2>5, Zenon
  <2> QED
    BY <2>6, <2>7, <2>8, Zenon DEF FileTypeOK
<1>2. DecodesSoFar
  <2> SUFFICES ASSUME NEW rest \in Seq(0 .. 255)
               PROVE  UrlDecode(url \o rest) =
                         meant \o DecodeFrom(url \o rest)[Len(url) + 1]
    BY DEF DecodesSoFar
  <2>1. url = <<>> /\ meant = <<>> /\ <<>> \o rest = rest /\ Len(<<>>) = 0
    BY ConcatEmptySeq, EmptySeq DEF FileInit
  <2>2. 1 \in 1 .. Len(rest) + 1
    BY LenProperties
  <2>3. DecodeFrom(rest)[1] \in Seq(0 .. Throws)
    BY <2>2, DecodeFromIs DEF Bytes8
  <2>4. <<>> \o DecodeFrom(rest)[1] = DecodeFrom(rest)[1] /\ 0 + 1 = 1
    BY <2>3, ConcatEmptySeq
  <2> QED
    BY <2>1, <2>4 DEF UrlDecode
<1>3. phase = "composing" /\ size = 0 /\ response = NoResponse
  BY DEF FileInit
<1>4. ServesWhatIsNamed
  BY <1>3 DEF ServesWhatIsNamed
<1>5. AnswersWhatIsMeant
  <2>1. response.status = 0
    BY <1>3, Zenon DEF NoResponse
  <2>2. response.status # 200 /\ phase # "answered" /\ phase # "lost"
    BY <1>3, <2>1
  <2> QED
    BY <2>2, Zenon DEF AnswersWhatIsMeant
<1> QED
  BY <1>1, <1>2, <1>4, <1>5 DEF FileInvariant

LEMMA ComposeInvariant ==
    ASSUME FileInvariant, NEW c \in Chars, Compose(c)
    PROVE  FileInvariant'
<1>1. PICK w \in Writings(c) : url' = url \o w
  BY DEF Compose
<1>2. /\ meant' = Append(meant, c)
      /\ UNCHANGED <<careful, opens, phase, file, written, size, response>>
      /\ phase = "composing"
  BY DEF Compose
<1>3. /\ url \in Seq(Bytes8) /\ meant \in Seq(Chars) /\ Chars \subseteq 1 .. 127
  BY PathAssumption DEF FileInvariant, FileTypeOK, Bytes8
<1>4. w \in Seq(Bytes8)
  <2>1. c \in 1 .. 127
    BY <1>3
  <2> QED
    BY <2>1, WritingIs, Zenon
<1>5. url' \in Seq(Bytes8) /\ meant' \in Seq(Chars)
  BY <1>1, <1>2, <1>3, <1>4, QueueConcat, AppendProperties
<1>6. FileTypeOK'
  BY <1>2, <1>5 DEF FileInvariant, FileTypeOK, Bytes8
<1>7. DecodesSoFar'
  <2> SUFFICES ASSUME careful, NEW rest \in Seq(Bytes8)
               PROVE  UrlDecode(url' \o rest) =
                         meant' \o DecodeFrom(url' \o rest)[Len(url') + 1]
    BY <1>2 DEF DecodesSoFar, Bytes8
  <2> DEFINE s == (url \o w) \o rest
             D == DecodeFrom(s)
             left == D[Len(url \o w) + 1]
  <2>1. s = url \o (w \o rest) /\ w \o rest \in Seq(Bytes8)
    <3>1. (url \o w) \o rest = url \o (w \o rest)
      BY <1>3, <1>4, ConcatAssociative
    <3>2. w \o rest \in Seq(Bytes8)
      BY <1>4, QueueConcat, Zenon
    <3> QED
      BY <3>1, <3>2, Zenon
  <2>2. UrlDecode(s) = meant \o D[Len(url) + 1]
    BY <2>1 DEF FileInvariant, DecodesSoFar, Bytes8
  <2>3. D[Len(url) + 1] = <<c>> \o left
    BY <1>3, WritingDecoded
  <2>4. left \in Seq(0 .. Throws)
    <3>1. /\ s \in Seq(Bytes8) /\ Len(url \o w) \in Nat
          /\ Len(s) = Len(url \o w) + Len(rest) /\ Len(rest) \in Nat
      BY <1>3, <1>4, QueueConcat, LenProperties
    <3>2. Len(url \o w) + 1 \in 1 .. Len(s) + 1
      BY <3>1
    <3> QED
      BY <3>1, <3>2, DecodeFromIs
  <2>5. meant \o (<<c>> \o left) = Append(meant, c) \o left
    <3> DEFINE T == 0 .. Throws
    <3>1. Chars \subseteq T /\ left \in Seq(T)
      BY <1>3, <2>4 DEF Throws
    <3> HIDE DEF T, left
    <3>2. meant \in Seq(T)
      BY <1>3, <3>1, SeqMonotonic, Zenon
    <3>3. <<c>> \in Seq(T)
      BY <3>1
    <3>4. (meant \o <<c>>) \o left = meant \o (<<c>> \o left)
      BY <3>1, <3>2, <3>3, ConcatAssociative
    <3>5. Append(meant, c) = meant \o <<c>>
      BY <1>3, AppendIsConcat
    <3> QED
      BY <3>4, <3>5
  <2> QED
    BY <1>1, <1>2, <2>2, <2>3, <2>5
<1>8. ServesWhatIsNamed'
  BY <1>2 DEF FileInvariant, ServesWhatIsNamed, NoResponse
<1>9. AnswersWhatIsMeant'
  <2>1. phase' \notin {"answered", "lost"}
    BY <1>2
  <2> QED
    BY <1>8, <2>1, NoAnswerYet
<1> QED
  BY <1>6, <1>7, <1>8, <1>9 DEF FileInvariant

\* What is in a file is a sequence of its bytes.
LEMMA FileIsBytes ==
    ASSUME NEW f \in Contents
    PROVE  f \in Seq(Bytes) /\ Len(f) \in 0 .. MaxSize /\ f \in [1 .. Len(f) -> Bytes]
<1>1. PICK n \in 0 .. MaxSize : f \in [1 .. n -> Bytes]
  BY DEF Contents
<1>2. n \in Nat
  BY PathAssumption
<1>3. f \in Seq(Bytes)
  BY <1>1, <1>2
<1>4. Len(f) = n
  BY <1>1, <1>2, <1>3, LenProperties
<1> QED
  BY <1>1, <1>3, <1>4

\* An action of serveFile or of another program leaves the client's part alone.
LEMMA ClientUnchanged ==
    ASSUME UNCHANGED given
    PROVE  /\ UNCHANGED <<careful, opens, meant, url>>
           /\ Path' = Path /\ Name' = Name
           /\ DecodesSoFar => DecodesSoFar'
<1>1. careful' = careful /\ opens' = opens /\ meant' = meant /\ url' = url
  BY DEF given
<1>2. Path' = Path /\ Name' = Name
  BY <1>1 DEF Path, Name
<1>3. DecodesSoFar => DecodesSoFar'
  BY <1>1 DEF DecodesSoFar
<1> QED
  BY <1>1, <1>2, <1>3

\* The parts of the invariant, for a step that answers the request.
LEMMA AnswerInvariant ==
    ASSUME FileInvariant,
           NEW status \in {200, 400, 404}, NEW type, NEW body,
           Answer(status, type, body), size' \in 0 .. MaxSize,
           status = 200 => body \in [1 .. size' -> Bytes \cup {0}],
           HasDots(Path) => status = 400,
           ~HasDots(Path) /\ Opened => status = 200,
           ~HasDots(Path) /\ ~Opened => status = 404,
           status = 200 => type = GetType(Name),
           status = 200 /\ Name \in Files /\ ~written => body = file,
           status = 200 /\ Name \in Directories =>
               \A i \in DOMAIN body : body[i] = 0
    PROVE  FileInvariant'
<1>1. /\ phase' = "answered"
      /\ response' = [status |-> status, type |-> type, body |-> body]
      /\ UNCHANGED <<given, file, written>>
  BY DEF Answer
<1>2. /\ response'.status = status /\ response'.type = type
      /\ response'.body = body
  BY <1>1
<1>3. UNCHANGED <<careful, opens, meant, url>> /\ DecodesSoFar'
  BY <1>1, ClientUnchanged DEF FileInvariant
<1>4. FileTypeOK'
  <2>1. response'.status \in {0, 200, 400, 404}
    BY <1>2
  <2>2. response'.status = 200 => response'.body \in [1 .. size' -> Bytes \cup {0}]
    BY <1>2, Zenon
  <2>3. /\ {careful', opens', written'} \subseteq BOOLEAN
        /\ meant' \in Seq(Chars) /\ url' \in Seq(0 .. 255)
        /\ phase' \in {"composing", "opened", "measured", "answered", "lost"}
        /\ file' \in Contents /\ size' \in 0 .. MaxSize
    BY <1>1, <1>3 DEF FileInvariant, FileTypeOK
  <2> QED
    BY <2>1, <2>2, <2>3, Zenon DEF FileTypeOK
<1>5. ServesWhatIsNamed'
  BY <1>1 DEF ServesWhatIsNamed
<1>6. AnswersWhatIsMeant'
  <2> DEFINE name == FileName(meant)
             found == opens /\ name \in Files \cup Directories
  <2> SUFFICES ASSUME careful
               PROVE  /\ status = IF HasDots(meant) THEN 400
                                  ELSE IF found THEN 200 ELSE 404
                      /\ status = 200 =>
                            /\ type = GetType(name)
                            /\ name \in Files /\ ~written => body = file
                            /\ name \in Directories =>
                                  \A i \in DOMAIN body : body[i] = 0
    BY <1>1, <1>2, <1>3 DEF AnswersWhatIsMeant
  <2>1. Path = meant /\ Name = name /\ (Opened <=> found)
    BY DecodedWhole DEF FileInvariant, FileTypeOK, Bytes8, Name, Opened
  <2> HIDE DEF name, found
  <2>2. status = IF HasDots(meant) THEN 400 ELSE IF found THEN 200 ELSE 404
    <3>1. HasDots(meant) => status = 400
      BY <2>1, ZenonT(30)
    <3>2. ~HasDots(meant) /\ found => status = 200
      BY <2>1, ZenonT(30)
    <3>3. ~HasDots(meant) /\ ~found => status = 404
      BY <2>1, ZenonT(30)
    <3> QED
      BY <3>1, <3>2, <3>3, SMT
  <2>3. status = 200 =>
           /\ type = GetType(name)
           /\ name \in Files /\ ~written => body = file
           /\ name \in Directories => \A i \in DOMAIN body : body[i] = 0
    <3>1. status = 200 => type = GetType(name)
      BY <2>1, ZenonT(30)
    <3>2. status = 200 /\ name \in Files /\ ~written => body = file
      BY <2>1, ZenonT(30)
    <3>3. status = 200 /\ name \in Directories =>
             \A i \in DOMAIN body : body[i] = 0
      BY <2>1, ZenonT(30)
    <3> QED
      BY <3>1, <3>2, <3>3, Zenon
  <2> QED
    BY <2>2, <2>3, Zenon
<1> QED
  BY <1>3, <1>4, <1>5, <1>6 DEF FileInvariant

LEMMA FailsInvariant == FileInvariant /\ Fails => FileInvariant'
<1> SUFFICES ASSUME FileInvariant, Fails PROVE FileInvariant'
  OBVIOUS
<1>1. /\ phase' = "lost"
      /\ UNCHANGED <<given, file, written, size, response>>
      /\ phase = "composing" /\ \E i \in DOMAIN Path : Path[i] = Throws
  BY DEF Fails, Called
<1>2. UNCHANGED <<careful, opens, meant, url>> /\ DecodesSoFar'
  BY <1>1, ClientUnchanged DEF FileInvariant
<1>3. ~careful
  <2> SUFFICES ASSUME careful PROVE FALSE
    OBVIOUS
  <2>1. Path = meant /\ meant \in Seq(Chars)
    BY DecodedWhole DEF FileInvariant, FileTypeOK, Bytes8
  <2>2. PICK i \in DOMAIN meant : meant[i] = Throws
    BY <1>1, <2>1
  <2>3. i \in 1 .. Len(meant)
    BY <2>1, LenProperties
  <2>4. meant[i] \in Chars
    BY <2>1, <2>3, ElementOfSeq
  <2> QED
    BY <2>2, <2>4, PathAssumption DEF Throws
<1>4. FileTypeOK'
  BY <1>1, <1>2 DEF FileInvariant, FileTypeOK
<1>5. ServesWhatIsNamed'
  BY <1>1 DEF FileInvariant, ServesWhatIsNamed
<1>6. AnswersWhatIsMeant'
  BY <1>2, <1>3 DEF AnswersWhatIsMeant
<1> QED
  BY <1>2, <1>4, <1>5, <1>6 DEF FileInvariant

LEMMA RefuseInvariant == FileInvariant /\ Refuse => FileInvariant'
<1> SUFFICES ASSUME FileInvariant, Refuse PROVE FileInvariant'
  OBVIOUS
<1> DEFINE status == 400
           type == ""
           body == <<"400 Bad Request">>
<1>1. Answer(status, type, body) /\ HasDots(Path) /\ size' \in 0 .. MaxSize
  BY DEF Refuse, FileInvariant, FileTypeOK
<1>2. status \in {200, 400, 404} /\ status = 400 /\ status # 200
  OBVIOUS
<1> HIDE DEF status, type, body
<1> QED
  BY <1>1, <1>2, AnswerInvariant

LEMMA NotFoundInvariant == FileInvariant /\ NotFound => FileInvariant'
<1> SUFFICES ASSUME FileInvariant, NotFound PROVE FileInvariant'
  OBVIOUS
<1> DEFINE status == 404
           type == "text/html"
           body == <<"<h1>404 Not Found</h1>">>
<1>1. /\ Answer(status, type, body) /\ size' \in 0 .. MaxSize
      /\ ~HasDots(Path) /\ ~Opened
  BY DEF NotFound, FileInvariant, FileTypeOK
<1>2. status \in {200, 400, 404} /\ status = 404 /\ status # 200
  OBVIOUS
<1> HIDE DEF status, type, body
<1> QED
  BY <1>1, <1>2, AnswerInvariant

LEMMA OpenDirectoryInvariant == FileInvariant /\ OpenDirectory => FileInvariant'
<1> SUFFICES ASSUME FileInvariant, OpenDirectory PROVE FileInvariant'
  OBVIOUS
<1>1. /\ ~HasDots(Path) /\ Opened /\ Name \in Directories
      /\ phase = "composing" /\ Name \notin Files
  BY PathAssumption DEF OpenDirectory, Decoded, Called
<1>2. ASSUME NEW n \in 0 .. MaxSize, size' = n,
             Answer(200, GetType(Name), [i \in 1 .. n |-> 0])
      PROVE  FileInvariant'
  <2> DEFINE status == 200
             body == [i \in 1 .. n |-> 0]
  <2>1. /\ body \in [1 .. size' -> Bytes \cup {0}]
        /\ \A i \in DOMAIN body : body[i] = 0
    BY <1>2
  <2>2. /\ Answer(status, GetType(Name), body) /\ size' \in 0 .. MaxSize
        /\ status \in {200, 400, 404} /\ status = 200
    BY <1>2
  <2> HIDE DEF status, body
  <2> QED
    BY <1>1, <2>1, <2>2, AnswerInvariant
<1>3. CASE phase' = "lost" /\ UNCHANGED <<given, file, written, size, response>>
  <2>1. UNCHANGED <<careful, opens, meant, url>> /\ DecodesSoFar'
    BY <1>3, ClientUnchanged DEF FileInvariant
  <2>2. FileTypeOK'
    BY <1>3, <2>1 DEF FileInvariant, FileTypeOK
  <2>3. ServesWhatIsNamed'
    BY <1>1, <1>3 DEF FileInvariant, ServesWhatIsNamed
  <2>4. AnswersWhatIsMeant'
    <3>1. careful => opens /\ FileName(meant) \in Directories
      BY <1>1, DecodedWhole DEF FileInvariant, FileTypeOK, Bytes8, Name, Opened
    <3>2. response' = NoResponse
      BY <1>1, <1>3 DEF FileInvariant, ServesWhatIsNamed
    <3>3. response'.status = 0
      BY <3>2, Zenon DEF NoResponse
    <3>4. response'.status # 200 /\ phase' = "lost" /\ phase' # "answered"
      BY <1>3, <3>3
    <3> QED
      BY <2>1, <3>1, <3>4, Zenon DEF AnswersWhatIsMeant
  <2> QED
    BY <2>1, <2>2, <2>3, <2>4 DEF FileInvariant
<1> QED
  BY <1>2, <1>3, Zenon DEF OpenDirectory

LEMMA OpenInvariant == FileInvariant /\ Open => FileInvariant'
<1> SUFFICES ASSUME FileInvariant, Open PROVE FileInvariant'
  OBVIOUS
<1>1. /\ phase = "composing" /\ phase' = "opened" /\ file' \in Contents
      /\ UNCHANGED <<given, written, size, response>>
      /\ ~HasDots(Path) /\ opens /\ Name \in Files
  BY DEF Open, Opened, Decoded, Called
<1>2. /\ UNCHANGED <<careful, opens, meant, url>> /\ DecodesSoFar'
      /\ Path' = Path /\ Name' = Name
  BY <1>1, ClientUnchanged DEF FileInvariant
<1>3. FileTypeOK'
  BY <1>1, <1>2 DEF FileInvariant, FileTypeOK
<1>4. ServesWhatIsNamed'
  <2>1. response' = NoResponse /\ size' = 0
    BY <1>1 DEF FileInvariant, ServesWhatIsNamed
  <2>2. opens' /\ Name' \in Files /\ ~HasDots(Path')
    BY <1>1, <1>2
  <2> QED
    BY <1>1, <2>1, <2>2 DEF ServesWhatIsNamed, NoResponse
<1>5. AnswersWhatIsMeant'
  <2>1. phase' \notin {"answered", "lost"}
    BY <1>1
  <2> QED
    BY <1>4, <2>1, NoAnswerYet
<1> QED
  BY <1>2, <1>3, <1>4, <1>5 DEF FileInvariant

LEMMA WriteFileInvariant == FileInvariant /\ WriteFile => FileInvariant'
<1> SUFFICES ASSUME FileInvariant, WriteFile PROVE FileInvariant'
  OBVIOUS
<1>1. /\ phase \in {"opened", "measured"} /\ file' \in Contents /\ written' = TRUE
      /\ UNCHANGED <<given, phase, size, response>>
  BY DEF WriteFile
<1>2. /\ UNCHANGED <<careful, opens, meant, url>> /\ DecodesSoFar'
      /\ Path' = Path /\ Name' = Name
  BY <1>1, ClientUnchanged DEF FileInvariant
<1>3. FileTypeOK'
  BY <1>1, <1>2 DEF FileInvariant, FileTypeOK
<1>4. ServesWhatIsNamed'
  <2>1. /\ response' = NoResponse /\ (phase' = "opened" => size' = 0)
        /\ phase' # "composing"
    BY <1>1 DEF FileInvariant, ServesWhatIsNamed
  <2>2. opens' /\ Name' \in Files /\ ~HasDots(Path')
    BY <1>1, <1>2 DEF FileInvariant, ServesWhatIsNamed
  <2> QED
    BY <1>1, <2>1, <2>2 DEF ServesWhatIsNamed, NoResponse
<1>5. AnswersWhatIsMeant'
  <2>1. phase' \notin {"answered", "lost"}
    BY <1>1
  <2> QED
    BY <1>4, <2>1, NoAnswerYet
<1> QED
  BY <1>2, <1>3, <1>4, <1>5 DEF FileInvariant

LEMMA MeasureInvariant == FileInvariant /\ Measure => FileInvariant'
<1> SUFFICES ASSUME FileInvariant, Measure PROVE FileInvariant'
  OBVIOUS
<1>1. /\ phase = "opened" /\ phase' = "measured" /\ size' = Len(file)
      /\ UNCHANGED <<given, file, written, response>>
  BY DEF Measure
<1>2. /\ UNCHANGED <<careful, opens, meant, url>> /\ DecodesSoFar'
      /\ Path' = Path /\ Name' = Name
  BY <1>1, ClientUnchanged DEF FileInvariant
<1>3. response' = NoResponse
  BY <1>1 DEF FileInvariant, ServesWhatIsNamed
<1>4. FileTypeOK'
  <2>1. size' \in 0 .. MaxSize
    BY <1>1, FileIsBytes DEF FileInvariant, FileTypeOK
  <2>2. response'.status = 0
    BY <1>3 DEF NoResponse
  <2> QED
    BY <1>1, <1>2, <2>1, <2>2 DEF FileInvariant, FileTypeOK
<1>5. ServesWhatIsNamed'
  <2>1. opens' /\ Name' \in Files /\ ~HasDots(Path')
    BY <1>1, <1>2 DEF FileInvariant, ServesWhatIsNamed
  <2> QED
    BY <1>1, <1>3, <2>1 DEF ServesWhatIsNamed, NoResponse
<1>6. AnswersWhatIsMeant'
  <2>1. phase' \notin {"answered", "lost"}
    BY <1>1
  <2> QED
    BY <1>5, <2>1, NoAnswerYet
<1> QED
  BY <1>2, <1>4, <1>5, <1>6 DEF FileInvariant

LEMMA ReadFileInvariant == FileInvariant /\ ReadFile => FileInvariant'
<1> SUFFICES ASSUME FileInvariant, ReadFile PROVE FileInvariant'
  OBVIOUS
<1>1. phase = "measured" /\ Answer(200, GetType(Name), Read(size)) /\ size' = size
  BY DEF ReadFile
<1>2. /\ Opened /\ Name \in Files /\ Name \notin Directories
      /\ ~HasDots(Path) /\ (~written => size = Len(file))
  BY <1>1, PathAssumption DEF FileInvariant, ServesWhatIsNamed, Opened
<1>3. /\ file \in Seq(Bytes) /\ Len(file) \in Nat
      /\ file \in [1 .. Len(file) -> Bytes] /\ size \in Nat
  BY FileIsBytes, LenProperties DEF FileInvariant, FileTypeOK
<1>4. Read(size) \in [1 .. size -> Bytes \cup {0}]
  <2>1. \A i \in 1 .. size : i <= Len(file) => file[i] \in Bytes
    BY <1>3, ElementOfSeq
  <2> QED
    BY <2>1 DEF Read
<1>5. ~written => Read(size) = file
  BY <1>2, <1>3 DEF Read
<1>6. size' \in 0 .. MaxSize
  BY <1>1 DEF FileInvariant, FileTypeOK
<1> DEFINE status == 200
<1>7. /\ Answer(status, GetType(Name), Read(size))
      /\ Read(size) \in [1 .. size' -> Bytes \cup {0}]
      /\ status \in {200, 400, 404} /\ status = 200
  BY <1>1, <1>4
<1> HIDE DEF status
<1> QED
  BY <1>2, <1>5, <1>6, <1>7, AnswerInvariant

LEMMA FileNextInvariant == FileInvariant /\ [FileNext]_fileVars => FileInvariant'
<1> SUFFICES ASSUME FileInvariant, [FileNext]_fileVars PROVE FileInvariant'
  OBVIOUS
<1>1. ASSUME NEW c \in Chars, Compose(c) PROVE FileInvariant'
  BY <1>1, ComposeInvariant
<1>2. CASE OnRequest
  BY <1>2, FailsInvariant, RefuseInvariant, NotFoundInvariant,
     OpenDirectoryInvariant, OpenInvariant, MeasureInvariant, ReadFileInvariant,
     Zenon DEF OnRequest
<1>3. CASE WriteFile
  BY <1>3, WriteFileInvariant
<1>4. CASE UNCHANGED fileVars
  <2>1. UNCHANGED <<given, phase, file, written, size, response>>
    BY <1>4 DEF fileVars
  <2>2. /\ UNCHANGED <<careful, opens, meant, url>> /\ DecodesSoFar'
        /\ Path' = Path /\ Name' = Name
    BY <2>1, ClientUnchanged DEF FileInvariant
  <2>3. FileTypeOK'
    BY <2>1, <2>2 DEF FileInvariant, FileTypeOK
  <2>4. ServesWhatIsNamed'
    BY <2>1, <2>2 DEF FileInvariant, ServesWhatIsNamed, NoResponse
  <2>5. AnswersWhatIsMeant'
    BY <2>1, <2>2 DEF FileInvariant, AnswersWhatIsMeant
  <2> QED
    BY <2>2, <2>3, <2>4, <2>5 DEF FileInvariant
<1> QED
  BY <1>1, <1>2, <1>3, <1>4 DEF FileNext

\* serveFile answers for the file the decoded path names, whatever the file holds
\* and whoever writes to it: the invariant of the StaticFileServer holds in every
\* run.
THEOREM FileInvariantHolds == FileSpec => []FileInvariant
<1>1. FileInit => FileInvariant
  BY FileInitInvariant
<1>2. FileInvariant /\ [FileNext]_fileVars => FileInvariant'
  BY FileNextInvariant
<1> QED
  BY <1>1, <1>2, PTL DEF FileSpec

\* The variables keep their types, and the body of a file that was served is as
\* long as it was measured, for files of any size.
THEOREM FileTypeCorrect == FileSpec => []FileTypeOK
<1>1. FileInvariant => FileTypeOK
  BY DEF FileInvariant
<1> QED
  BY <1>1, FileInvariantHolds, PTL

\* urlDecode takes back what a careful client wrote of a path, for paths of any
\* length and every mixture of escapes and characters as they are.
THEOREM DecodesAllPaths == FileSpec => []DecodesWhatIsMeant
<1>1. FileInvariant => DecodesWhatIsMeant
  BY DecodedWhole DEF FileInvariant, FileTypeOK, Bytes8, Path, DecodesWhatIsMeant
<1> QED
  BY <1>1, FileInvariantHolds, PTL

\* A client that escapes what has to be escaped is answered for the path it means:
\* the file of that name as it was when it was read, zeros for a directory, and
\* "not found" both for what is not there and for what cannot be opened, as
\* serveFile answers every failure of open alike.  The process is lost to nothing
\* but a directory that opens.
THEOREM AnswersAllPaths == FileSpec => []AnswersWhatIsMeant
<1>1. FileInvariant => AnswersWhatIsMeant
  BY DEF FileInvariant
<1> QED
  BY <1>1, FileInvariantHolds, PTL

-----------------------------------------------------------------------------
(* HttpServer: the requests of a stream *)

LEMMA LeastIs ==
    ASSUME NEW S \in SUBSET Nat, S # {}
    PROVE  Least(S) \in S /\ \A j \in S : Least(S) <= j
<1>1. \E i \in S : \A j \in S : i <= j
  BY LeastOfNaturals
<1> QED
  BY <1>1 DEF Least

LEMMA LeastUnique ==
    ASSUME NEW S \in SUBSET Nat, NEW m \in S, \A j \in S : m <= j
    PROVE  Least(S) = m
<1>1. Least(S) \in S /\ \A j \in S : Least(S) <= j
  BY LeastIs
<1>2. Least(S) <= m /\ m <= Least(S) /\ m \in Nat /\ Least(S) \in Nat
  BY <1>1
<1> QED
  BY <1>2

\* A line ends before the stream does, and the next one starts within it or just
\* behind it.
LEMMA LinesFit ==
    ASSUME NEW s \in Seq(Symbols)
    PROVE  /\ Len(s) \in Nat
           /\ \A i \in LineEnds(s) :
                 i \in Nat /\ 1 <= i /\ i + 1 <= Len(s)
                 /\ s[i] = "cr" /\ s[i + 1] = "lf" /\ i + 2 \in LineStarts(s)
           /\ \A h \in LineStarts(s) :
                 h \in 1 .. Len(s) + 1 /\ (h = 1 \/ \E i \in LineEnds(s) : h = i + 2)
<1>1. Len(s) \in Nat
  BY LenProperties
<1>2. ASSUME NEW i \in LineEnds(s)
      PROVE  i \in Nat /\ 1 <= i /\ i + 1 <= Len(s)
             /\ s[i] = "cr" /\ s[i + 1] = "lf" /\ i + 2 \in LineStarts(s)
  BY <1>1 DEF LineEnds, LineStarts
<1>3. ASSUME NEW h \in LineStarts(s)
      PROVE  h \in 1 .. Len(s) + 1 /\ (h = 1 \/ \E i \in LineEnds(s) : h = i + 2)
  <2>1. h = 1 \/ \E i \in LineEnds(s) : h = i + 2
    BY DEF LineStarts
  <2> QED
    BY <1>1, <1>2, <2>1
<1> QED
  BY <1>1, <1>2, <1>3

LEMMA EndOfIs ==
    ASSUME NEW s \in Seq(Symbols), NEW p \in Nat, Whole(s, p)
    PROVE  /\ EndOf(s, p) \in LineEnds(s) /\ p <= EndOf(s, p)
           /\ EndOf(s, p) \in Nat /\ EndOf(s, p) + 1 <= Len(s)
           /\ \A i \in LineEnds(s) : p <= i => EndOf(s, p) <= i
<1> DEFINE S == {i \in LineEnds(s) : p <= i}
<1>1. S \in SUBSET Nat /\ S # {}
  BY LinesFit DEF Whole
<1>2. EndOf(s, p) = Least(S)
  BY DEF EndOf
<1>3. Least(S) \in S /\ \A j \in S : Least(S) <= j
  BY <1>1, LeastIs
<1> QED
  BY <1>2, <1>3, LinesFit

\* Between the start of a line and that of the next there is no other.
LEMMA NextLine ==
    ASSUME NEW s \in Seq(Symbols), NEW a \in LineStarts(s), Whole(s, a)
    PROVE  /\ EndOf(s, a) + 2 \in LineStarts(s)
           /\ \A h \in LineStarts(s) : a < h => EndOf(s, a) + 2 <= h
<1>1. /\ a \in Nat /\ EndOf(s, a) \in LineEnds(s) /\ EndOf(s, a) \in Nat
      /\ \A i \in LineEnds(s) : a <= i => EndOf(s, a) <= i
  BY LinesFit, EndOfIs
<1>2. ASSUME NEW h \in LineStarts(s), a < h
      PROVE  EndOf(s, a) + 2 <= h
  <2>1. PICK i \in LineEnds(s) : h = i + 2
    BY <1>1, <1>2, LinesFit
  <2>2. i \in Nat /\ 1 <= i /\ s[i] = "cr" /\ s[i + 1] = "lf"
    BY LinesFit
  <2>3. a <= i
    <3> SUFFICES ASSUME ~(a <= i) PROVE FALSE
      OBVIOUS
    <3>1. a = i + 1 /\ a # 1
      BY <1>1, <1>2, <2>1, <2>2
    <3>2. PICK j \in LineEnds(s) : a = j + 2
      BY <3>1, LinesFit
    <3>3. j \in Nat /\ s[j + 1] = "lf"
      BY LinesFit
    <3>4. j + 1 = i
      BY <2>2, <3>1, <3>2, <3>3
    <3> QED
      BY <2>2, <3>3, <3>4
  <2> QED
    BY <1>1, <2>1, <2>2, <2>3
<1> QED
  BY <1>1, <1>2, LinesFit

LEMMA HeadersEndFits ==
    ASSUME NEW s \in Seq(Symbols), NEW p \in 1 .. Len(s) + 1, HeadersEnd(s, p) # {}
    PROVE  LET q == Least(HeadersEnd(s, p))
           IN  /\ q \in HeadersEnd(s, p) /\ \A r \in HeadersEnd(s, p) : q <= r
               /\ EndOf(s, q) + 2 \in p + 1 .. Len(s) + 1
<1> DEFINE q == Least(HeadersEnd(s, p))
<1>1. HeadersEnd(s, p) \in SUBSET Nat
  BY LinesFit DEF HeadersEnd
<1>2. q \in HeadersEnd(s, p) /\ \A r \in HeadersEnd(s, p) : q <= r
  BY <1>1, LeastIs
<1>3. q \in Nat /\ p < q /\ Whole(s, q)
  BY <1>1, <1>2 DEF HeadersEnd
<1> HIDE DEF q
<1>4. EndOf(s, q) \in Nat /\ q <= EndOf(s, q) /\ EndOf(s, q) + 1 <= Len(s)
  BY <1>3, EndOfIs
<1>5. Len(s) \in Nat /\ p \in Nat
  BY LenProperties
<1>6. EndOf(s, q) + 2 \in p + 1 .. Len(s) + 1
  BY <1>3, <1>4, <1>5
<1> QED
  BY <1>2, <1>6 DEF q

\* What the recursion of MessagesFrom makes of a function g.
RequestAt(s, p) ==
    [line    |-> p,
     headers |-> {h \in LineStarts(s) : p < h /\ h < Least(HeadersEnd(s, p))}]
Behind(s, p) == EndOf(s, Least(HeadersEnd(s, p))) + 2
Complete(s, p) ==
    Whole(s, p) /\ Text(s, p) = <<"request">> /\ HeadersEnd(s, p) # {}
MessagesStep(s, g) ==
    [p \in 1 .. Len(s) + 1 |->
        CASE ~Whole(s, p) -> <<>>
          [] Whole(s, p) /\ Text(s, p) # <<"request">> -> <<BadRequest>>
          [] Whole(s, p) /\ Text(s, p) = <<"request">> /\ HeadersEnd(s, p) = {} -> <<>>
          [] OTHER ->
               LET q == Least(HeadersEnd(s, p))
               IN  <<[line    |-> p,
                      headers |-> {h \in LineStarts(s) : p < h /\ h < q}]>>
                     \o g[EndOf(s, q) + 2]]

LEMMA MessagesStepIs ==
    ASSUME NEW s, NEW g, NEW p \in 1 .. Len(s) + 1
    PROVE  /\ ~Whole(s, p) => MessagesStep(s, g)[p] = <<>>
           /\ Whole(s, p) /\ Text(s, p) # <<"request">> =>
                 MessagesStep(s, g)[p] = <<BadRequest>>
           /\ Whole(s, p) /\ Text(s, p) = <<"request">> /\ ~Complete(s, p) =>
                 MessagesStep(s, g)[p] = <<>>
           /\ Complete(s, p) =>
                 MessagesStep(s, g)[p] = <<RequestAt(s, p)>> \o g[Behind(s, p)]
<1> DEFINE more == <<RequestAt(s, p)>> \o g[Behind(s, p)]
           isRequest == Text(s, p) = <<"request">>
           none == HeadersEnd(s, p) = {}
           here == CASE ~Whole(s, p) -> <<>>
                     [] Whole(s, p) /\ ~isRequest -> <<BadRequest>>
                     [] Whole(s, p) /\ isRequest /\ none -> <<>>
                     [] OTHER -> more
<1>1. MessagesStep(s, g)[p] = here
  BY Zenon DEF MessagesStep, RequestAt, Behind
<1>2. Complete(s, p) <=> Whole(s, p) /\ isRequest /\ ~none
  BY DEF Complete
<1>3. /\ ~Whole(s, p) => here = <<>>
      /\ Whole(s, p) /\ ~isRequest => here = <<BadRequest>>
      /\ Whole(s, p) /\ isRequest /\ none => here = <<>>
      /\ Whole(s, p) /\ isRequest /\ ~none => here = more
  <2> HIDE DEF isRequest, none, more
  <2> QED
    BY Zenon
<1> HIDE DEF here
<1> QED
  BY <1>1, <1>2, <1>3, Zenon

LEMMA RequestAtType ==
    ASSUME NEW s \in Seq(Symbols), NEW p \in 1 .. Len(s) + 1
    PROVE  RequestAt(s, p) \in Requests
<1>1. p \in Nat /\ \A h \in LineStarts(s) : h \in Nat
  BY LinesFit
<1> QED
  BY <1>1 DEF RequestAt, Requests

\* The recursion is well-founded, so that MessagesFrom is what it says.
LEMMA MessagesFromIs ==
    ASSUME NEW s \in Seq(Symbols)
    PROVE  /\ MessagesFrom(s) = MessagesStep(s, MessagesFrom(s))
           /\ \A p \in 1 .. Len(s) + 1 : MessagesFrom(s)[p] \in Seq(Requests)
<1> DEFINE n == Len(s) + 1
           more == {p \in 1 .. n : Complete(s, p)}
           item == [p \in 1 .. n |-> <<RequestAt(s, p)>>]
           next == [p \in 1 .. n |-> Behind(s, p)]
           base == [p \in 1 .. n |->
                      IF Whole(s, p) /\ Text(s, p) # <<"request">>
                      THEN <<BadRequest>> ELSE <<>>]
           Scanned(g) == Scan(n, more, item, next, base, g)
<1>1. Len(s) \in Nat /\ n \in Nat
  BY LenProperties
<1>2. \A p \in 1 .. n : p \in more => next[p] \in p + 1 .. n
  BY HeadersEndFits DEF Complete, Behind
<1>3. \E g : g = Scanned(g)
  <2>1. n \in Nat
    BY <1>1
  <2> HIDE DEF n, more, item, next, base
  <2> QED
    BY <1>2, <2>1, ScanExists
<1>4. ASSUME NEW g
      PROVE  Scanned(g) = MessagesStep(s, g)
  <2>1. ASSUME NEW p \in 1 .. Len(s) + 1
        PROVE  Scanned(g)[p] = MessagesStep(s, g)[p]
    <3>1. /\ Complete(s, p) => Scanned(g)[p] = item[p] \o g[next[p]]
          /\ ~Complete(s, p) => Scanned(g)[p] = base[p]
      BY DEF Scan
    <3>2. item[p] = <<RequestAt(s, p)>> /\ next[p] = Behind(s, p)
      OBVIOUS
    <3>3. base[p] = IF Whole(s, p) /\ Text(s, p) # <<"request">>
                    THEN <<BadRequest>> ELSE <<>>
      OBVIOUS
    <3>4. Complete(s, p) => Whole(s, p) /\ Text(s, p) = <<"request">>
      BY DEF Complete
    <3> HIDE DEF item, next, base, Scanned
    <3> QED
      BY <3>1, <3>2, <3>3, <3>4, MessagesStepIs, Zenon
  <2>2. /\ Scanned(g) = [p \in 1 .. Len(s) + 1 |-> Scanned(g)[p]]
        /\ MessagesStep(s, g) = [p \in 1 .. Len(s) + 1 |-> MessagesStep(s, g)[p]]
    BY Zenon DEF MessagesStep, Scan
  <2> HIDE DEF Scanned
  <2> QED
    BY <2>1, <2>2
<1>5. MessagesFrom(s) = MessagesStep(s, MessagesFrom(s))
  <2> HIDE DEF Scanned
  <2>1. \E g : g = MessagesStep(s, g)
    BY <1>3, <1>4
  <2>2. MessagesFrom(s) = CHOOSE g : g = MessagesStep(s, g)
    BY DEF MessagesFrom, MessagesStep
  <2> QED
    BY <2>1, <2>2
<1>6. ASSUME NEW p \in 1 .. n
      PROVE  IF p \in more THEN item[p] \in Seq(Requests)
                          ELSE base[p] \in Seq(Requests)
  <2>1. RequestAt(s, p) \in Requests
    BY RequestAtType
  <2>2. BadRequest \in Requests
    BY DEF BadRequest, Requests
  <2>3. item[p] = <<RequestAt(s, p)>> /\ (base[p] = <<BadRequest>> \/ base[p] = <<>>)
    OBVIOUS
  <2>4. <<>> \in Seq(Requests) /\ \A r \in Requests : <<r>> \in Seq(Requests)
    BY EmptySeq, RangeOne
  <2>5. <<RequestAt(s, p)>> \in Seq(Requests) /\ <<BadRequest>> \in Seq(Requests)
    BY <2>1, <2>2, <2>4
  <2> HIDE DEF more, item, base
  <2> QED
    BY <2>3, <2>4, <2>5, Zenon
<1> QED
  <2>1. MessagesFrom(s) = Scanned(MessagesFrom(s))
    BY <1>4, <1>5
  <2>2. \A p \in 1 .. n : MessagesFrom(s)[p] \in Seq(Requests)
    <3>1. n \in Nat
      BY <1>1
    <3> HIDE DEF n, more, item, next, base
    <3> QED
      BY <1>2, <1>6, <2>1, <3>1, ScanType
  <2> QED
    BY <1>5, <2>2

\* What a stream says from a place on, by what stands there.
LEMMA MessagesAt ==
    ASSUME NEW s \in Seq(Symbols), NEW p \in 1 .. Len(s) + 1
    PROVE  /\ MessagesFrom(s)[p] \in Seq(Requests)
           /\ Whole(s, p) /\ Text(s, p) # <<"request">> =>
                 MessagesFrom(s)[p] = <<BadRequest>>
           /\ Complete(s, p) =>
                 MessagesFrom(s)[p] =
                    <<RequestAt(s, p)>> \o MessagesFrom(s)[Behind(s, p)]
<1>1. MessagesFrom(s)[p] = MessagesStep(s, MessagesFrom(s))[p]
  BY MessagesFromIs
<1> QED
  BY <1>1, MessagesFromIs, MessagesStepIs

-----------------------------------------------------------------------------
(* HttpServer: what the parser sees *)

\* A stream begins with what this one begins with.
LEMMA StreamsShrink ==
    ASSUME NEW m \in Nat, NEW n \in Nat, m <= n
    PROVE  Streams(n) \subseteq Streams(m)
  BY DEF Streams

LEMMA ArrivedIsStream ==
    ASSUME TypeOK, NEW n \in 0 .. Len(arrived)
    PROVE  /\ arrived \in Streams(n)
           /\ SubSeq(arrived, 1, n) \in Streams(n)
<1> DEFINE t == SubSeq(arrived, 1, n)
<1>1. arrived \in Seq(Symbols) /\ Len(arrived) \in Nat
  BY LenProperties DEF TypeOK
<1>2. /\ t \in Seq(Symbols) /\ Len(t) = n
      /\ \A i \in 1 .. n : t[i] = arrived[i]
  BY <1>1, QueuePart
<1>3. arrived \in Streams(n)
  BY <1>1 DEF Streams
<1> HIDE DEF t
<1>4. t \in Streams(n)
  BY <1>1, <1>2 DEF Streams
<1> QED
  BY <1>3, <1>4 DEF t

\* What the parser finds in the buffer is the next line of every stream that
\* begins like this one.
LEMMA LineParsed ==
    ASSUME TypeOK, FindCRLF # {}
    PROVE  /\ Least(FindCRLF) \in consumed + 1 .. taken - 1
           /\ \A s \in Streams(Least(FindCRLF) + 1) :
                 /\ s \in Seq(Symbols)
                 /\ Whole(s, consumed + 1)
                 /\ EndOf(s, consumed + 1) = Least(FindCRLF)
                 /\ Text(s, consumed + 1) = Line
<1> DEFINE m == Least(FindCRLF)
<1>1. /\ consumed \in Nat /\ taken \in Nat /\ taken <= Len(arrived)
      /\ Len(arrived) \in Nat /\ arrived \in Seq(Symbols)
  BY LenProperties DEF TypeOK
<1>2. m \in FindCRLF /\ \A i \in FindCRLF : m <= i
  <2>1. FindCRLF \in SUBSET Nat
    BY <1>1 DEF FindCRLF
  <2> QED
    BY <2>1, LeastIs
<1> HIDE DEF m
<1>3. m \in consumed + 1 .. taken - 1 /\ arrived[m] = "cr" /\ arrived[m + 1] = "lf"
  BY <1>2 DEF FindCRLF
<1>4. ASSUME NEW s \in Streams(m + 1)
      PROVE  /\ s \in Seq(Symbols)
             /\ Whole(s, consumed + 1)
             /\ EndOf(s, consumed + 1) = m
             /\ Text(s, consumed + 1) = Line
  <2>1. /\ s \in Seq(Symbols) /\ m + 1 <= Len(s) /\ Len(s) \in Nat
        /\ \A i \in 1 .. m + 1 : s[i] = arrived[i]
    BY LenProperties DEF Streams
  <2> DEFINE S == {i \in LineEnds(s) : consumed + 1 <= i}
  <2>2. m \in S
    <3>1. m \in 1 .. Len(s) - 1 /\ m \in 1 .. m + 1 /\ m + 1 \in 1 .. m + 1
      BY <1>1, <1>3, <2>1
    <3> QED
      BY <1>3, <2>1, <3>1 DEF LineEnds
  <2>3. \A i \in S : m <= i
    <3> SUFFICES ASSUME NEW i \in LineEnds(s), consumed + 1 <= i, i < m
                 PROVE  FALSE
      BY <1>1, <1>3, LinesFit, <2>1
    <3>1. i \in Nat /\ s[i] = "cr" /\ s[i + 1] = "lf"
      BY <2>1, LinesFit
    <3>2. i \in 1 .. m + 1 /\ i + 1 \in 1 .. m + 1 /\ i \in consumed + 1 .. taken - 1
      BY <1>1, <1>3, <3>1
    <3>3. i \in FindCRLF
      BY <2>1, <3>1, <3>2 DEF FindCRLF
    <3>4. m <= i /\ m \in Nat
      BY <1>1, <1>2, <1>3, <3>3
    <3> QED
      BY <3>1, <3>4
  <2>4. Whole(s, consumed + 1)
    BY <2>2 DEF Whole
  <2>5. EndOf(s, consumed + 1) = m
    <3>1. S \in SUBSET Nat
      BY <2>1, LinesFit
    <3>2. Least(S) = m
      BY <2>2, <2>3, <3>1, LeastUnique
    <3> QED
      BY <3>2 DEF EndOf
  <2>6. SubSeq(s, consumed + 1, m - 1) = SubSeq(arrived, consumed + 1, m - 1)
    <3>1. /\ consumed + 1 \in 1 .. Len(s) + 1 /\ m - 1 \in consumed .. Len(s)
          /\ consumed + 1 \in 1 .. Len(arrived) + 1
          /\ m - 1 \in consumed .. Len(arrived)
      BY <1>1, <1>3, <2>1
    <3>2. consumed = (consumed + 1) - 1
      BY <1>1
    <3>3. /\ SubSeq(s, consumed + 1, m - 1) \in Seq(Symbols)
          /\ Len(SubSeq(s, consumed + 1, m - 1)) = (m - 1) - (consumed + 1) + 1
          /\ \A i \in 1 .. (m - 1) - (consumed + 1) + 1 :
                SubSeq(s, consumed + 1, m - 1)[i] = s[(consumed + 1) + i - 1]
      BY <2>1, <3>1, <3>2, QueuePart
    <3>4. /\ SubSeq(arrived, consumed + 1, m - 1) \in Seq(Symbols)
          /\ Len(SubSeq(arrived, consumed + 1, m - 1)) = (m - 1) - (consumed + 1) + 1
          /\ \A i \in 1 .. (m - 1) - (consumed + 1) + 1 :
                SubSeq(arrived, consumed + 1, m - 1)[i] =
                    arrived[(consumed + 1) + i - 1]
      BY <1>1, <3>1, <3>2, QueuePart
    <3>5. \A i \in 1 .. (m - 1) - (consumed + 1) + 1 :
              s[(consumed + 1) + i - 1] = arrived[(consumed + 1) + i - 1]
      <4> SUFFICES ASSUME NEW i \in 1 .. (m - 1) - (consumed + 1) + 1
                   PROVE  (consumed + 1) + i - 1 \in 1 .. m + 1
        BY <2>1
      <4> QED
        BY <1>1, <1>3
    <3> QED
      BY <3>3, <3>4, <3>5, SeqEqual
  <2> QED
    BY <2>1, <2>4, <2>5, <2>6 DEF Text, Line, m
<1> QED
  BY <1>3, <1>4 DEF m

-----------------------------------------------------------------------------
(* HttpServer: the invariant *)

\* The place a stream is read on from is one of its places.
LEMMA StartFits ==
    ASSUME TypeOK, ContextFits, conn = "up", NEW s \in Streams(consumed)
    PROVE  /\ s \in Seq(Symbols) /\ Len(s) \in Nat
           /\ Start \in 1 .. Len(s) + 1 /\ consumed + 1 \in 1 .. Len(s) + 1
           /\ MessagesFrom(s)[Start] \in Seq(Requests)
           /\ MessagesFrom(s)[consumed + 1] \in Seq(Requests)
<1>1. s \in Seq(Symbols) /\ Len(s) \in Nat /\ consumed <= Len(s)
  BY LenProperties DEF Streams
<1>2. consumed \in Nat
  BY DEF TypeOK
<1>3. Start \in 1 .. Len(s) + 1 /\ consumed + 1 \in 1 .. Len(s) + 1
  BY <1>1, <1>2 DEF ContextFits, Start
<1> QED
  BY <1>1, <1>3, MessagesAt

LEMMA HttpInitInvariant == Init => HttpInvariant
<1> SUFFICES ASSUME Init PROVE HttpInvariant
  OBVIOUS
<1>1. /\ arrived = <<>> /\ taken = 0 /\ consumed = 0
      /\ state = "kExpectRequestLine" /\ request = NoRequest
      /\ parsing = FALSE /\ conn = "up" /\ calls = <<>> /\ answers = <<>>
      /\ polite \in BOOLEAN
  BY DEF Init
<1>2. TypeOK
  <2>1. /\ <<>> \in Seq(Symbols) /\ <<>> \in Seq(Requests) /\ Len(<<>>) = 0
    BY EmptySeq
  <2>2. NoRequest \in Requests
    BY DEF NoRequest, Requests
  <2>3. /\ arrived \in Seq(Symbols) /\ calls \in Seq(Requests)
        /\ answers \in Seq(Requests) /\ request \in Requests
        /\ Len(arrived) = 0
    BY <1>1, <2>1, <2>2, Zenon
  <2>4. taken \in 0 .. Len(arrived) /\ consumed \in 0 .. taken
    BY <1>1, <2>3
  <2>5. /\ state \in ParseStates \ {"kExpectBody"}
        /\ conn \in {"up", "shut", "down"}
    BY <1>1 DEF ParseStates
  <2>6. {parsing, polite} \subseteq BOOLEAN
    BY <1>1, Zenon
  <2> QED
    BY <2>3, <2>4, <2>5, <2>6, Zenon DEF TypeOK
<1>3. ContextFits
  BY <1>1, Zenon DEF ContextFits
<1>4. ParsesWhatIsSaid
  <2> SUFFICES ASSUME NEW s \in Streams(consumed)
               PROVE  /\ Messages(s) = answers \o MessagesFrom(s)[Start]
                      /\ consumed + 1 \in LineStarts(s)
    BY <1>1 DEF ParsesWhatIsSaid
  <2>1. Start = 1 /\ consumed + 1 = 1
    BY <1>1 DEF Start
  <2>2. MessagesFrom(s)[1] \in Seq(Requests)
    BY <1>1, <1>2, <1>3, <2>1, StartFits
  <2>3. <<>> \o MessagesFrom(s)[1] = MessagesFrom(s)[1]
    BY <2>2, ConcatEmptySeq
  <2> QED
    BY <1>1, <2>1, <2>3 DEF Messages, LineStarts
<1>5. AnswersStand
  BY <1>1 DEF AnswersStand
<1>6. CallsFit
  BY <1>1 DEF CallsFit
<1>7. PeerWaits
  <2>1. Len(arrived) = 0
    BY <1>1, EmptySeq
  <2> QED
    BY <1>1, <2>1 DEF PeerWaits
<1> QED
  BY <1>2, <1>3, <1>4, <1>5, <1>6, <1>7 DEF HttpInvariant

\* What holds of a connection as long as nothing is parsed out of its stream.
LEMMA ContextKept ==
    ASSUME HttpInvariant, arrived' = arrived,
           UNCHANGED <<context, consumed, conn, answers>>
    PROVE  ContextFits' /\ ParsesWhatIsSaid'
<1>1. UNCHANGED <<state, request>>
  BY DEF context
<1>2. ContextFits'
  BY <1>1 DEF HttpInvariant, ContextFits, NoRequest
<1>3. ParsesWhatIsSaid'
  BY <1>1 DEF HttpInvariant, ParsesWhatIsSaid, Streams, Start
<1> QED
  BY <1>2, <1>3

LEMMA PeerSendsInvariant ==
    ASSUME HttpInvariant, NEW x \in Symbols, PeerSends(x)
    PROVE  HttpInvariant'
<1>1. /\ arrived' = Append(arrived, x)
      /\ UNCHANGED <<polite, taken, consumed, context, parsing, conn, calls, answers>>
      /\ polite => conn = "up" /\ ~Unanswered
  BY DEF PeerSends
<1>2. UNCHANGED <<state, request>>
  BY <1>1 DEF context
<1>3. /\ arrived \in Seq(Symbols) /\ Len(arrived) \in Nat
      /\ taken \in 0 .. Len(arrived) /\ consumed \in 0 .. taken
  BY LenProperties DEF HttpInvariant, TypeOK
<1>4. /\ arrived' \in Seq(Symbols) /\ Len(arrived') = Len(arrived) + 1
      /\ \A i \in 1 .. Len(arrived) : arrived'[i] = arrived[i]
  BY <1>1, <1>3, AppendProperties
<1>5. TypeOK'
  BY <1>1, <1>2, <1>3, <1>4 DEF HttpInvariant, TypeOK
<1>6. Streams(consumed)' = Streams(consumed) /\ Streams(taken)' = Streams(taken)
  <2>1. consumed \in 0 .. Len(arrived) /\ consumed' = consumed /\ taken' = taken
    BY <1>1, <1>3
  <2>2. \A i \in 1 .. consumed : arrived'[i] = arrived[i]
    BY <1>3, <1>4
  <2>3. \A i \in 1 .. taken : arrived'[i] = arrived[i]
    BY <1>3, <1>4
  <2> QED
    BY <2>1, <2>2, <2>3 DEF Streams
<1>7. ContextFits'
  BY <1>1, <1>2 DEF HttpInvariant, ContextFits, NoRequest
<1>8. ParsesWhatIsSaid'
  BY <1>1, <1>2, <1>6 DEF HttpInvariant, ParsesWhatIsSaid, Start
<1>9. AnswersStand'
  BY <1>1, <1>6 DEF HttpInvariant, AnswersStand
<1>10. CallsFit'
  BY <1>1, <1>2 DEF HttpInvariant, CallsFit, Start
<1>11. PeerWaits'
  <2> SUFFICES ASSUME polite
               PROVE  \A n \in 0 .. Len(arrived) :
                         Len(Messages(SubSeq(arrived', 1, n))) <= Len(answers)
    BY <1>1, <1>3, <1>4 DEF PeerWaits
  <2> SUFFICES ASSUME NEW n \in 0 .. Len(arrived)
               PROVE  Len(Messages(SubSeq(arrived', 1, n))) <= Len(answers)
    OBVIOUS
  <2>1. SubSeq(arrived', 1, n) = SubSeq(arrived, 1, n)
    <3>1. n \in 0 .. Len(arrived')
      BY <1>3, <1>4
    <3>2. /\ SubSeq(arrived', 1, n) \in Seq(Symbols)
          /\ Len(SubSeq(arrived', 1, n)) = n
          /\ \A i \in 1 .. n : SubSeq(arrived', 1, n)[i] = arrived'[i]
      BY <1>4, <3>1, QueuePart
    <3>3. /\ SubSeq(arrived, 1, n) \in Seq(Symbols)
          /\ Len(SubSeq(arrived, 1, n)) = n
          /\ \A i \in 1 .. n : SubSeq(arrived, 1, n)[i] = arrived[i]
      BY <1>3, QueuePart
    <3>4. \A i \in 1 .. n : arrived'[i] = arrived[i]
      BY <1>3, <1>4
    <3> QED
      BY <3>2, <3>3, <3>4, SeqEqual
  <2>2. CASE n < Len(arrived)
    <3>1. n \in 0 .. Len(arrived) - 1
      BY <1>3, <2>2
    <3>2. Len(Messages(SubSeq(arrived, 1, n))) <= Len(answers)
      BY <1>1, <3>1 DEF HttpInvariant, PeerWaits
    <3> QED
      BY <2>1, <3>2
  <2>3. CASE n = Len(arrived)
    <3>1. SubSeq(arrived, 1, n) = arrived
      BY <1>3, <2>3, SubSeqFull
    <3>2. Messages(arrived) \in Seq(Requests)
      <4>1. 1 \in 1 .. Len(arrived) + 1
        BY <1>3
      <4> QED
        BY <1>3, <4>1, MessagesAt DEF Messages
    <3>3. Len(Messages(arrived)) \in Nat /\ Len(answers) \in Nat
      BY <3>2, LenProperties DEF HttpInvariant, TypeOK
    <3>4. Len(Messages(arrived)) <= Len(answers)
      BY <1>1, <3>3 DEF Unanswered
    <3> QED
      BY <2>1, <3>1, <3>4
  <2> QED
    BY <1>3, <2>2, <2>3
<1> QED
  BY <1>5, <1>7, <1>8, <1>9, <1>10, <1>11 DEF HttpInvariant

LEMMA ClosesInvariant == HttpInvariant /\ Closes => HttpInvariant'
<1> SUFFICES ASSUME HttpInvariant, Closes PROVE HttpInvariant'
  OBVIOUS
<1>1. /\ ~parsing /\ conn # "down" /\ conn' = "down"
      /\ UNCHANGED <<peer, taken, consumed, context, parsing, calls, answers>>
  BY DEF Closes
<1>2. UNCHANGED <<arrived, polite, state, request>>
  BY <1>1 DEF peer, context
<1>3. TypeOK'
  BY <1>1, <1>2 DEF HttpInvariant, TypeOK
<1>4. ContextFits' /\ ParsesWhatIsSaid'
  BY <1>1 DEF ContextFits, ParsesWhatIsSaid
<1>5. AnswersStand'
  <2>1. Streams(taken)' = Streams(taken)
    BY <1>1, <1>2 DEF Streams
  <2>2. ASSUME NEW s \in Streams(taken)
        PROVE  \E more \in Seq(Requests) : Messages(s) = answers \o more
    <3>1. CASE conn = "up"
      <4>1. s \in Streams(consumed)
        BY StreamsShrink DEF HttpInvariant, TypeOK
      <4>2. Messages(s) = answers \o MessagesFrom(s)[Start]
        BY <3>1, <4>1 DEF HttpInvariant, ParsesWhatIsSaid
      <4>3. MessagesFrom(s)[Start] \in Seq(Requests)
        BY <3>1, <4>1, StartFits DEF HttpInvariant
      <4> QED
        BY <4>2, <4>3
    <3>2. CASE conn # "up"
      BY <3>2 DEF HttpInvariant, AnswersStand
    <3> QED
      BY <3>1, <3>2
  <2> QED
    BY <1>1, <2>1, <2>2 DEF AnswersStand
<1>6. CallsFit'
  BY <1>1, <1>2 DEF HttpInvariant, CallsFit
<1>7. PeerWaits'
  BY <1>1, <1>2 DEF HttpInvariant, PeerWaits
<1> QED
  BY <1>3, <1>4, <1>5, <1>6, <1>7 DEF HttpInvariant

LEMMA HandleReadInvariant == HttpInvariant /\ HandleRead => HttpInvariant'
<1> SUFFICES ASSUME HttpInvariant, HandleRead PROVE HttpInvariant'
  OBVIOUS
<1>1. /\ conn # "down" /\ taken < Len(arrived) /\ taken' = Len(arrived)
      /\ parsing' = TRUE
      /\ UNCHANGED <<peer, consumed, context, conn, calls, answers>>
  BY DEF HandleRead
<1>2. UNCHANGED <<arrived, polite, state, request>>
  BY <1>1 DEF peer, context
<1>3. Len(arrived) \in Nat /\ taken \in 0 .. Len(arrived) /\ consumed \in 0 .. taken
  BY LenProperties DEF HttpInvariant, TypeOK
<1>4. TypeOK'
  BY <1>1, <1>2, <1>3 DEF HttpInvariant, TypeOK
<1>5. ContextFits' /\ ParsesWhatIsSaid'
  BY <1>1, <1>2, ContextKept
<1>6. AnswersStand'
  <2>1. Streams(taken)' = Streams(Len(arrived))
    BY <1>1, <1>2 DEF Streams
  <2>2. Streams(Len(arrived)) \subseteq Streams(taken)
    BY <1>3, StreamsShrink
  <2> QED
    BY <1>1, <2>1, <2>2 DEF HttpInvariant, AnswersStand
<1>7. CallsFit'
  BY <1>1, <1>2 DEF HttpInvariant, CallsFit, Start
<1>8. PeerWaits'
  <2>1. polite => conn = "up"
    BY <1>1, <1>3 DEF HttpInvariant, PeerWaits, TypeOK
  <2> QED
    BY <1>1, <1>2, <2>1 DEF HttpInvariant, PeerWaits
<1> QED
  BY <1>4, <1>5, <1>6, <1>7, <1>8 DEF HttpInvariant

\* What the steps that retrieve a line have in common.
LEMMA LineRetrieved ==
    ASSUME HttpInvariant, NEW st, ParsesLine(st), RetrieveLine,
           UNCHANGED <<peer, taken>>
    PROVE  /\ UNCHANGED <<arrived, polite>>
           /\ parsing /\ state = st
           /\ consumed \in Nat /\ taken \in Nat
           /\ taken' \in 0 .. Len(arrived') /\ consumed' \in 0 .. taken'
           /\ consumed < consumed'
           /\ polite => conn = "up"
           /\ \A s \in Streams(consumed)' :
                 /\ s \in Seq(Symbols) /\ s \in Streams(consumed)
                 /\ Whole(s, consumed + 1) /\ Text(s, consumed + 1) = Line
                 /\ EndOf(s, consumed + 1) + 2 = consumed' + 1
                 /\ consumed' + 1 \in LineStarts(s)
                 /\ conn = "up" =>
                       /\ consumed + 1 \in LineStarts(s)
                       /\ \A h \in LineStarts(s) :
                             /\ h \in Nat
                             /\ consumed + 1 < h => consumed' + 1 <= h
<1> DEFINE m == Least(FindCRLF)
<1>1. /\ UNCHANGED <<arrived, polite>> /\ taken' = taken
      /\ parsing /\ state = st /\ FindCRLF # {}
      /\ consumed' = m + 1
  BY DEF ParsesLine, RetrieveLine, peer
<1>2. /\ consumed \in Nat /\ taken \in Nat /\ taken \in 0 .. Len(arrived)
      /\ Len(arrived) \in Nat
  BY LenProperties DEF HttpInvariant, TypeOK
<1>3. m \in consumed + 1 .. taken - 1
  BY <1>1, LineParsed DEF HttpInvariant
<1>4. /\ taken' \in 0 .. Len(arrived') /\ consumed' \in 0 .. taken'
      /\ consumed < consumed'
  BY <1>1, <1>2, <1>3
<1>5. polite => conn = "up"
  BY <1>1 DEF HttpInvariant, PeerWaits
<1> HIDE DEF m
<1>6. ASSUME NEW s \in Streams(consumed)'
      PROVE  /\ s \in Seq(Symbols) /\ s \in Streams(consumed)
             /\ Whole(s, consumed + 1) /\ Text(s, consumed + 1) = Line
             /\ EndOf(s, consumed + 1) + 2 = consumed' + 1
             /\ consumed' + 1 \in LineStarts(s)
             /\ conn = "up" =>
                   /\ consumed + 1 \in LineStarts(s)
                   /\ \A h \in LineStarts(s) :
                         /\ h \in Nat
                         /\ consumed + 1 < h => consumed' + 1 <= h
  <2>1. s \in Streams(m + 1)
    BY <1>1 DEF Streams
  <2>2. /\ s \in Seq(Symbols) /\ Whole(s, consumed + 1)
        /\ EndOf(s, consumed + 1) = m /\ Text(s, consumed + 1) = Line
    BY <1>1, <2>1, LineParsed DEF HttpInvariant, m
  <2>3. s \in Streams(consumed)
    <3>1. consumed <= m + 1 /\ m + 1 \in Nat
      BY <1>2, <1>3
    <3> QED
      BY <1>2, <2>1, <3>1, StreamsShrink
  <2>4. m \in Nat /\ m + 2 = consumed' + 1
    BY <1>1, <1>2, <1>3
  <2>5. consumed' + 1 \in LineStarts(s)
    BY <1>2, <2>2, <2>4, EndOfIs, LinesFit
  <2>6. ASSUME conn = "up"
        PROVE  /\ consumed + 1 \in LineStarts(s)
               /\ \A h \in LineStarts(s) :
                     h \in Nat /\ (consumed + 1 < h => consumed' + 1 <= h)
    <3>1. consumed + 1 \in LineStarts(s)
      BY <2>3, <2>6 DEF HttpInvariant, ParsesWhatIsSaid
    <3> QED
      BY <2>2, <2>4, <3>1, NextLine, LinesFit
  <2> QED
    BY <2>2, <2>3, <2>4, <2>5, <2>6
<1> QED
  BY <1>1, <1>2, <1>4, <1>5, <1>6

\* What the parser writes to the fields of a request.
LEMMA RequestFields ==
    ASSUME NEW r \in Requests, NEW p \in Nat
    PROVE  /\ r.line \in Nat /\ r.headers \in SUBSET Nat
           /\ r = [line |-> r.line, headers |-> r.headers]
           /\ [r EXCEPT !.line = p] \in Requests
           /\ [r EXCEPT !.line = p].line = p
           /\ [r EXCEPT !.line = p].headers = r.headers
           /\ [r EXCEPT !.headers = @ \cup {p}] \in Requests
           /\ [r EXCEPT !.headers = @ \cup {p}].line = r.line
           /\ [r EXCEPT !.headers = @ \cup {p}].headers = r.headers \cup {p}
  BY DEF Requests

LEMMA ProcessRequestLineInvariant ==
    HttpInvariant /\ ProcessRequestLine => HttpInvariant'
<1> SUFFICES ASSUME HttpInvariant, ProcessRequestLine PROVE HttpInvariant'
  OBVIOUS
<1>1. /\ ParsesLine("kExpectRequestLine") /\ RetrieveLine
      /\ Line = <<"request">>
      /\ request' = [request EXCEPT !.line = consumed + 1]
      /\ state' = "kExpectHeaders"
      /\ UNCHANGED <<peer, taken, parsing, conn, calls, answers>>
  BY DEF ProcessRequestLine
<1>2. /\ UNCHANGED <<arrived, polite>>
      /\ parsing /\ state = "kExpectRequestLine"
      /\ consumed \in Nat /\ taken \in Nat
      /\ taken' \in 0 .. Len(arrived') /\ consumed' \in 0 .. taken'
      /\ consumed < consumed' /\ (polite => conn = "up")
  BY <1>1, LineRetrieved
<1>3. request' \in Requests /\ request'.line = consumed + 1
      /\ request'.headers = request.headers
  <2>1. request \in Requests /\ consumed + 1 \in Nat
    BY <1>2 DEF HttpInvariant, TypeOK
  <2> QED
    BY <1>1, <2>1, RequestFields, Zenon
<1>4. TypeOK'
  BY <1>1, <1>2, <1>3 DEF HttpInvariant, TypeOK, ParseStates
<1>5. Start' = consumed + 1 /\ Start = consumed + 1
  BY <1>1, <1>2, <1>3 DEF Start
<1>6. ContextFits'
  BY <1>1, <1>2, <1>3 DEF ContextFits
<1>7. ParsesWhatIsSaid'
  <2> SUFFICES ASSUME conn = "up", NEW s \in Streams(consumed)'
               PROVE  /\ Messages(s) = answers \o MessagesFrom(s)[Start']
                      /\ consumed' + 1 \in LineStarts(s)
                      /\ Whole(s, request'.line)
                      /\ Text(s, request'.line) = <<"request">>
                      /\ request'.headers =
                           {h \in LineStarts(s) : request'.line < h /\ h <= consumed'}
                      /\ \A h \in request'.headers :
                            Whole(s, h) /\ Text(s, h) = <<"header">>
    BY <1>1 DEF ParsesWhatIsSaid
  <2>1. /\ s \in Seq(Symbols) /\ s \in Streams(consumed)
        /\ Whole(s, consumed + 1) /\ Text(s, consumed + 1) = Line
        /\ consumed' + 1 \in LineStarts(s)
        /\ \A h \in LineStarts(s) :
              h \in Nat /\ (consumed + 1 < h => consumed' + 1 <= h)
    BY <1>1, LineRetrieved
  <2>2. Messages(s) = answers \o MessagesFrom(s)[Start']
    BY <1>5, <2>1 DEF HttpInvariant, ParsesWhatIsSaid
  <2>3. request.headers = {}
    BY <1>2 DEF HttpInvariant, ContextFits, NoRequest
  <2>4. {h \in LineStarts(s) : consumed + 1 < h /\ h <= consumed'} = {}
    <3>1. PICK c \in Nat : c = consumed'
      BY <1>2
    <3>2. \A h \in LineStarts(s) : h \in Nat /\ (consumed + 1 < h => c + 1 <= h)
      BY <2>1, <3>1
    <3>3. \A h \in LineStarts(s) : ~(consumed + 1 < h /\ h <= c)
      BY <3>2
    <3> QED
      BY <3>1, <3>3
  <2> QED
    BY <1>1, <1>3, <2>1, <2>2, <2>3, <2>4
<1>8. AnswersStand'
  BY <1>1, <1>2 DEF HttpInvariant, AnswersStand, Streams
<1>9. CallsFit'
  BY <1>1, <1>2, <1>5 DEF HttpInvariant, CallsFit
<1>10. PeerWaits'
  BY <1>1, <1>2 DEF HttpInvariant, PeerWaits
<1> QED
  BY <1>4, <1>6, <1>7, <1>8, <1>9, <1>10 DEF HttpInvariant

LEMMA AddHeaderInvariant == HttpInvariant /\ AddHeader => HttpInvariant'
<1> SUFFICES ASSUME HttpInvariant, AddHeader PROVE HttpInvariant'
  OBVIOUS
<1>1. /\ ParsesLine("kExpectHeaders") /\ RetrieveLine
      /\ Line = <<"header">>
      /\ request' = [request EXCEPT !.headers = @ \cup {consumed + 1}]
      /\ UNCHANGED <<peer, taken, state, parsing, conn, calls, answers>>
  BY DEF AddHeader
<1>2. /\ UNCHANGED <<arrived, polite>>
      /\ parsing /\ state = "kExpectHeaders"
      /\ consumed \in Nat /\ taken \in Nat
      /\ taken' \in 0 .. Len(arrived') /\ consumed' \in 0 .. taken'
      /\ consumed < consumed' /\ (polite => conn = "up")
  BY <1>1, LineRetrieved
<1>3. /\ request' \in Requests /\ request'.line = request.line
      /\ request'.headers = request.headers \cup {consumed + 1}
      /\ request.line \in Nat
  <2>1. request \in Requests /\ consumed + 1 \in Nat
    BY <1>2 DEF HttpInvariant, TypeOK
  <2> QED
    BY <1>1, <2>1, RequestFields, Zenon
<1>4. TypeOK'
  BY <1>1, <1>2, <1>3 DEF HttpInvariant, TypeOK
<1>5. Start' = Start /\ Start = request.line
  BY <1>1, <1>2, <1>3 DEF Start
<1>6. conn = "up" => request.line \in 1 .. consumed
  BY <1>2 DEF HttpInvariant, ContextFits
<1>7. ContextFits'
  <2>1. consumed' \in Nat
    BY <1>2
  <2>2. conn = "up" => request'.line \in 1 .. consumed'
    BY <1>2, <1>3, <1>6, <2>1
  <2> QED
    BY <1>1, <1>2, <2>2 DEF ContextFits
<1>8. ParsesWhatIsSaid'
  <2> SUFFICES ASSUME conn = "up", NEW s \in Streams(consumed)'
               PROVE  /\ Messages(s) = answers \o MessagesFrom(s)[Start']
                      /\ consumed' + 1 \in LineStarts(s)
                      /\ Whole(s, request'.line)
                      /\ Text(s, request'.line) = <<"request">>
                      /\ request'.headers =
                           {h \in LineStarts(s) : request'.line < h /\ h <= consumed'}
                      /\ \A h \in request'.headers :
                            Whole(s, h) /\ Text(s, h) = <<"header">>
    BY <1>1, <1>2 DEF ParsesWhatIsSaid
  <2>1. /\ s \in Seq(Symbols) /\ s \in Streams(consumed)
        /\ Whole(s, consumed + 1) /\ Text(s, consumed + 1) = Line
        /\ consumed' + 1 \in LineStarts(s) /\ consumed + 1 \in LineStarts(s)
        /\ \A h \in LineStarts(s) :
              h \in Nat /\ (consumed + 1 < h => consumed' + 1 <= h)
    BY <1>1, LineRetrieved
  <2>2. /\ Messages(s) = answers \o MessagesFrom(s)[Start]
        /\ Whole(s, request.line) /\ Text(s, request.line) = <<"request">>
        /\ request.headers =
              {h \in LineStarts(s) : request.line < h /\ h <= consumed}
        /\ \A h \in request.headers : Whole(s, h) /\ Text(s, h) = <<"header">>
    BY <1>2, <2>1 DEF HttpInvariant, ParsesWhatIsSaid
  <2>3. \A h \in LineStarts(s) :
            request.line < h /\ h <= consumed' <=>
                (request.line < h /\ h <= consumed) \/ h = consumed + 1
    <3>1. PICK c \in Nat : c = consumed'
      BY <1>2
    <3>2. \A h \in LineStarts(s) : h \in Nat /\ (consumed + 1 < h => c + 1 <= h)
      BY <2>1, <3>1
    <3>3. request.line \in Nat /\ request.line <= consumed /\ consumed \in Nat
      BY <1>2, <1>3, <1>6
    <3>4. consumed + 1 <= c
      BY <1>2, <3>1
    <3>5. \A h \in LineStarts(s) :
              request.line < h /\ h <= c <=>
                  (request.line < h /\ h <= consumed) \/ h = consumed + 1
      BY <3>2, <3>3, <3>4
    <3> QED
      BY <3>1, <3>5
  <2>4. request'.headers =
            {h \in LineStarts(s) : request'.line < h /\ h <= consumed'}
    BY <1>3, <2>1, <2>2, <2>3
  <2>5. \A h \in request'.headers : Whole(s, h) /\ Text(s, h) = <<"header">>
    BY <1>1, <1>3, <2>1, <2>2
  <2> QED
    BY <1>3, <1>5, <2>1, <2>2, <2>4, <2>5
<1>9. AnswersStand'
  BY <1>1, <1>2 DEF HttpInvariant, AnswersStand, Streams
<1>10. CallsFit'
  BY <1>1, <1>2, <1>5 DEF HttpInvariant, CallsFit
<1>11. PeerWaits'
  BY <1>1, <1>2 DEF HttpInvariant, PeerWaits
<1> QED
  BY <1>4, <1>7, <1>8, <1>9, <1>10, <1>11 DEF HttpInvariant

LEMMA EndHeadersInvariant == HttpInvariant /\ EndHeaders => HttpInvariant'
<1> SUFFICES ASSUME HttpInvariant, EndHeaders PROVE HttpInvariant'
  OBVIOUS
<1>1. /\ ParsesLine("kExpectHeaders") /\ RetrieveLine
      /\ Line # <<"header">>
      /\ state' = "kGotAll"
      /\ UNCHANGED <<peer, taken, request, parsing, conn, calls, answers>>
  BY DEF EndHeaders
<1>2. /\ UNCHANGED <<arrived, polite>>
      /\ parsing /\ state = "kExpectHeaders"
      /\ consumed \in Nat /\ taken \in Nat
      /\ taken' \in 0 .. Len(arrived') /\ consumed' \in 0 .. taken'
      /\ consumed < consumed' /\ (polite => conn = "up")
  BY <1>1, LineRetrieved
<1>3. request \in Requests /\ request = [line |-> request.line,
                                         headers |-> request.headers]
  BY RequestFields, <1>2 DEF HttpInvariant, TypeOK
<1>4. TypeOK'
  BY <1>1, <1>2 DEF HttpInvariant, TypeOK, ParseStates
<1>5. Start' = Start /\ Start = request.line
  BY <1>1, <1>2 DEF Start
<1>6. conn = "up" => request.line \in 1 .. consumed
  BY <1>2 DEF HttpInvariant, ContextFits
<1>7. ContextFits'
  <2>1. PICK c \in Nat : c = consumed'
    BY <1>2
  <2>2. consumed < c
    BY <1>2, <2>1
  <2>3. conn = "up" => request.line \in 1 .. c
    BY <1>2, <1>6, <2>2
  <2> QED
    BY <1>1, <2>1, <2>3 DEF ContextFits
<1>8. ParsesWhatIsSaid'
  <2> SUFFICES ASSUME conn = "up", NEW s \in Streams(consumed)'
               PROVE  /\ Messages(s) = answers \o MessagesFrom(s)[Start']
                      /\ consumed' + 1 \in LineStarts(s)
                      /\ MessagesFrom(s)[request.line] =
                            <<request>> \o MessagesFrom(s)[consumed' + 1]
    BY <1>1, <1>2 DEF ParsesWhatIsSaid
  <2> DEFINE p == request.line
             q == consumed + 1
  <2>1. /\ s \in Seq(Symbols) /\ s \in Streams(consumed)
        /\ Whole(s, q) /\ Text(s, q) = Line
        /\ EndOf(s, q) + 2 = consumed' + 1
        /\ consumed' + 1 \in LineStarts(s) /\ q \in LineStarts(s)
    BY <1>1, LineRetrieved
  <2>2. /\ Messages(s) = answers \o MessagesFrom(s)[Start]
        /\ Whole(s, p) /\ Text(s, p) = <<"request">>
        /\ request.headers = {h \in LineStarts(s) : p < h /\ h <= consumed}
        /\ \A h \in request.headers : Whole(s, h) /\ Text(s, h) = <<"header">>
    BY <1>2, <2>1 DEF HttpInvariant, ParsesWhatIsSaid
  <2>3. /\ p \in Nat /\ p <= consumed /\ p \in 1 .. Len(s) + 1
        /\ \A h \in LineStarts(s) : h \in Nat
    <3>1. Start \in 1 .. Len(s) + 1
      BY <2>1, StartFits DEF HttpInvariant
    <3> QED
      BY <1>2, <1>5, <1>6, <2>1, <3>1, LinesFit
  <2>4. \A h \in LineStarts(s) : h <= consumed <=> h < q
    BY <1>2, <2>3
  <2>5. q \in HeadersEnd(s, p)
    BY <1>1, <1>2, <2>1, <2>3 DEF HeadersEnd
  <2>6. \A h \in HeadersEnd(s, p) : q <= h
    <3> SUFFICES ASSUME NEW h \in HeadersEnd(s, p), ~(q <= h) PROVE FALSE
      OBVIOUS
    <3>1. h \in LineStarts(s) /\ p < h /\ Text(s, h) # <<"header">>
      BY DEF HeadersEnd
    <3>2. h <= consumed
      BY <1>2, <2>3, <3>1
    <3>3. h \in request.headers
      BY <2>2, <3>1, <3>2
    <3> QED
      BY <2>2, <3>1, <3>3
  <2>7. Least(HeadersEnd(s, p)) = q
    <3>1. HeadersEnd(s, p) \in SUBSET Nat
      BY <2>3 DEF HeadersEnd
    <3> QED
      BY <2>5, <2>6, <3>1, LeastUnique
  <2>8. Complete(s, p)
    BY <2>2, <2>5 DEF Complete
  <2>9. MessagesFrom(s)[p] = <<RequestAt(s, p)>> \o MessagesFrom(s)[Behind(s, p)]
    BY <2>1, <2>3, <2>8, MessagesAt
  <2>10. Behind(s, p) = consumed' + 1
    BY <2>1, <2>7 DEF Behind
  <2>11. RequestAt(s, p) = request
    <3>1. {h \in LineStarts(s) : p < h /\ h < q} = request.headers
      BY <2>2, <2>4
    <3> QED
      BY <1>3, <2>7, <3>1, Zenon DEF RequestAt
  <2> QED
    BY <1>5, <2>1, <2>2, <2>9, <2>10, <2>11
<1>9. AnswersStand'
  BY <1>1, <1>2 DEF HttpInvariant, AnswersStand, Streams
<1>10. CallsFit'
  BY <1>1, <1>2, <1>5 DEF HttpInvariant, CallsFit
<1>11. PeerWaits'
  BY <1>1, <1>2 DEF HttpInvariant, PeerWaits
<1> QED
  BY <1>4, <1>7, <1>8, <1>9, <1>10, <1>11 DEF HttpInvariant

LEMMA AwaitMoreInvariant == HttpInvariant /\ AwaitMore => HttpInvariant'
<1> SUFFICES ASSUME HttpInvariant, AwaitMore PROVE HttpInvariant'
  OBVIOUS
<1>1. /\ parsing' = FALSE
      /\ UNCHANGED <<peer, taken, consumed, context, conn, calls, answers>>
  BY DEF AwaitMore
<1>2. UNCHANGED <<arrived, polite, state, request>>
  BY <1>1 DEF peer, context
<1>3. TypeOK'
  BY <1>1, <1>2 DEF HttpInvariant, TypeOK
<1>4. ContextFits' /\ ParsesWhatIsSaid'
  BY <1>1, <1>2, ContextKept
<1>5. AnswersStand'
  BY <1>1, <1>2 DEF HttpInvariant, AnswersStand, Streams
<1>6. CallsFit'
  BY <1>1, <1>2 DEF HttpInvariant, CallsFit, Start
<1>7. PeerWaits'
  BY <1>1, <1>2 DEF HttpInvariant, PeerWaits
<1> QED
  BY <1>3, <1>4, <1>5, <1>6, <1>7 DEF HttpInvariant

\* What a last answer on a connection leaves behind, for the two steps that shut
\* the connection down with one.
LEMMA LastAnswer ==
    ASSUME HttpInvariant, conn = "up", NEW answer \in Requests,
           \A s \in Streams(taken) : \E more \in Seq(Requests) :
               MessagesFrom(s)[Start] = <<answer>> \o more
    PROVE  /\ Append(answers, answer) \in Seq(Requests)
           /\ \A s \in Streams(taken) : \E more \in Seq(Requests) :
                 Messages(s) = Append(answers, answer) \o more
           /\ polite => taken = Len(arrived)
<1>1. /\ answers \in Seq(Requests) /\ <<answer>> \in Seq(Requests)
      /\ Append(answers, answer) \in Seq(Requests)
      /\ Append(answers, answer) = answers \o <<answer>>
      /\ Len(Append(answers, answer)) = Len(answers) + 1 /\ Len(answers) \in Nat
  BY QueueAppend, RangeOne, LenProperties DEF HttpInvariant, TypeOK
<1>2. /\ taken \in Nat /\ consumed \in Nat /\ consumed <= taken
      /\ taken \in 0 .. Len(arrived) /\ Len(arrived) \in Nat
  BY LenProperties DEF HttpInvariant, TypeOK
<1>3. ASSUME NEW s \in Streams(taken)
      PROVE  \E more \in Seq(Requests) : Messages(s) = Append(answers, answer) \o more
  <2>1. s \in Streams(consumed)
    BY <1>2, StreamsShrink
  <2>2. Messages(s) = answers \o MessagesFrom(s)[Start]
    BY <2>1 DEF HttpInvariant, ParsesWhatIsSaid
  <2>3. PICK more \in Seq(Requests) : MessagesFrom(s)[Start] = <<answer>> \o more
    OBVIOUS
  <2>4. (answers \o <<answer>>) \o more = answers \o (<<answer>> \o more)
    BY <1>1, ConcatAssociative
  <2> QED
    BY <1>1, <2>2, <2>3, <2>4
<1>4. ASSUME polite
      PROVE  taken = Len(arrived)
  <2> SUFFICES ASSUME taken # Len(arrived) PROVE FALSE
    OBVIOUS
  <2>1. taken \in 0 .. Len(arrived) - 1
    BY <1>2
  <2> DEFINE s == SubSeq(arrived, 1, taken)
  <2>2. Len(Messages(s)) <= Len(answers)
    BY <1>4, <2>1 DEF HttpInvariant, PeerWaits
  <2>3. s \in Streams(taken)
    BY <1>2, ArrivedIsStream DEF HttpInvariant
  <2> HIDE DEF s
  <2>4. PICK more \in Seq(Requests) : Messages(s) = Append(answers, answer) \o more
    BY <1>3, <2>3
  <2>5. /\ Len(Messages(s)) = Len(Append(answers, answer)) + Len(more)
        /\ Len(more) \in Nat
    BY <1>1, <2>4, QueueConcat, LenProperties
  <2> QED
    BY <1>1, <2>2, <2>5
<1> QED
  BY <1>1, <1>3, <1>4

LEMMA RefuseRequestLineInvariant ==
    HttpInvariant /\ RefuseRequestLine => HttpInvariant'
<1> SUFFICES ASSUME HttpInvariant, RefuseRequestLine PROVE HttpInvariant'
  OBVIOUS
<1>1. /\ parsing /\ state = "kExpectRequestLine" /\ FindCRLF # {}
      /\ Line # <<"request">>
      /\ answers' = IF conn = "up" THEN Append(answers, BadRequest) ELSE answers
      /\ conn' = IF conn = "up" THEN "shut" ELSE conn
      /\ parsing' = FALSE
      /\ UNCHANGED <<peer, taken, consumed, context, calls>>
  BY DEF RefuseRequestLine, ParsesLine, Send, ShutdownAfter
<1>2. UNCHANGED <<arrived, polite, state, request>>
  BY <1>1 DEF peer, context
<1>3. /\ taken \in Nat /\ consumed \in Nat /\ consumed <= taken
      /\ taken \in 0 .. Len(arrived) /\ Len(arrived) \in Nat
  BY LenProperties DEF HttpInvariant, TypeOK
<1>4. /\ polite => conn = "up"
      /\ conn' # "up"
  BY <1>1 DEF HttpInvariant, PeerWaits
<1>5. ASSUME conn = "up"
      PROVE  /\ Append(answers, BadRequest) \in Seq(Requests)
             /\ \A s \in Streams(taken) : \E more \in Seq(Requests) :
                   Messages(s) = Append(answers, BadRequest) \o more
             /\ polite => taken = Len(arrived)
  <2>1. BadRequest \in Requests
    BY DEF BadRequest, Requests
  <2>2. \A s \in Streams(taken) : \E more \in Seq(Requests) :
            MessagesFrom(s)[Start] = <<BadRequest>> \o more
    <3> SUFFICES ASSUME NEW s \in Streams(taken)
                 PROVE  \E more \in Seq(Requests) :
                            MessagesFrom(s)[Start] = <<BadRequest>> \o more
      OBVIOUS
    <3>1. PICK m \in Nat : m = Least(FindCRLF) /\ m + 1 <= taken
      BY <1>1, <1>3, LineParsed DEF HttpInvariant
    <3>2. s \in Streams(m + 1) /\ s \in Streams(consumed)
      BY <1>3, <3>1, StreamsShrink
    <3>3. s \in Seq(Symbols) /\ Whole(s, consumed + 1) /\ Text(s, consumed + 1) = Line
      BY <1>1, <3>1, <3>2, LineParsed DEF HttpInvariant
    <3>4. Start = consumed + 1 /\ consumed + 1 \in 1 .. Len(s) + 1
      BY <1>1, <1>5, <3>2, StartFits DEF HttpInvariant, Start
    <3>5. MessagesFrom(s)[Start] = <<BadRequest>>
      BY <1>1, <3>3, <3>4, MessagesAt
    <3>6. <<BadRequest>> \in Seq(Requests)
      BY <2>1, RangeOne
    <3>7. <<>> \in Seq(Requests) /\ <<BadRequest>> \o <<>> = <<BadRequest>>
      BY <3>6, ConcatEmptySeq, EmptySeq
    <3> QED
      BY <3>5, <3>7
  <2> QED
    BY <1>5, <2>1, <2>2, LastAnswer
<1>6. TypeOK'
  BY <1>1, <1>2, <1>5 DEF HttpInvariant, TypeOK
<1>7. ContextFits' /\ ParsesWhatIsSaid'
  BY <1>4 DEF ContextFits, ParsesWhatIsSaid
<1>8. AnswersStand'
  <2>1. Streams(taken)' = Streams(taken)
    BY <1>1, <1>2 DEF Streams
  <2>2. \A s \in Streams(taken) : \E more \in Seq(Requests) :
            Messages(s) = answers' \o more
    BY <1>1, <1>5 DEF HttpInvariant, AnswersStand
  <2> QED
    BY <2>1, <2>2 DEF AnswersStand
<1>9. CallsFit'
  BY <1>1, <1>2, <1>4 DEF HttpInvariant, CallsFit
<1>10. PeerWaits'
  BY <1>1, <1>2, <1>4, <1>5 DEF PeerWaits
<1> QED
  BY <1>6, <1>7, <1>8, <1>9, <1>10 DEF HttpInvariant

LEMMA RespondInvariant == HttpInvariant /\ Respond => HttpInvariant'
<1> SUFFICES ASSUME HttpInvariant, Respond PROVE HttpInvariant'
  OBVIOUS
<1>1. /\ parsing /\ state = "kGotAll"
      /\ calls' = Append(calls, request)
      /\ answers' = IF conn = "up" THEN Append(answers, request) ELSE answers
      /\ parsing' = FALSE
      /\ UNCHANGED <<peer, taken, consumed>>
  BY DEF Respond, Send
<1>2. PICK closing \in BOOLEAN :
          /\ conn' = IF closing /\ conn = "up" THEN "shut" ELSE conn
          /\ IF closing THEN UNCHANGED context ELSE Reset
  BY DEF Respond, ShutdownAfter
<1>3. UNCHANGED <<arrived, polite>>
  BY <1>1 DEF peer
<1>4. /\ taken \in Nat /\ consumed \in Nat /\ consumed <= taken
      /\ request \in Requests /\ request.line \in Nat
      /\ answers \in Seq(Requests) /\ calls \in Seq(Requests)
  <2>1. /\ taken \in Nat /\ consumed \in Nat /\ consumed <= taken
        /\ request \in Requests
        /\ answers \in Seq(Requests) /\ calls \in Seq(Requests)
    BY LenProperties DEF HttpInvariant, TypeOK
  <2>2. request.line \in Nat
    BY <2>1, RequestFields
  <2> QED
    BY <2>1, <2>2
<1>5. /\ calls' \in Seq(Requests) /\ Len(calls) \in Nat
      /\ DOMAIN calls = 1 .. Len(calls) /\ DOMAIN calls' = 1 .. Len(calls) + 1
      /\ \A i \in 1 .. Len(calls) : calls'[i] = calls[i]
      /\ calls'[Len(calls) + 1] = request
  BY <1>1, <1>4, AppendProperties, LenProperties
<1>6. polite => conn = "up"
  BY <1>1 DEF HttpInvariant, PeerWaits
<1>7. conn = "up" => Start = request.line /\ request.line <= consumed
  BY <1>1 DEF HttpInvariant, ContextFits, Start
<1>8. conn = "up" => \A s \in Streams(consumed) :
          /\ consumed + 1 \in LineStarts(s)
          /\ Messages(s) = answers \o MessagesFrom(s)[Start]
          /\ MessagesFrom(s)[Start] = <<request>> \o MessagesFrom(s)[consumed + 1]
          /\ MessagesFrom(s)[consumed + 1] \in Seq(Requests)
  BY <1>1, <1>7, StartFits DEF HttpInvariant, ParsesWhatIsSaid
<1>9. Append(answers, request) \in Seq(Requests)
  BY <1>4, AppendProperties
<1>10. /\ state' \in ParseStates \ {"kExpectBody"} /\ request' \in Requests
       /\ conn' \in {"up", "shut", "down"}
  <2>1. NoRequest \in Requests
    BY DEF NoRequest, Requests
  <2>2. CASE closing
    BY <1>2, <2>2 DEF HttpInvariant, TypeOK, context
  <2>3. CASE ~closing
    BY <1>2, <2>1, <2>3 DEF HttpInvariant, TypeOK, Reset, ParseStates
  <2> QED
    BY <2>2, <2>3
<1>11. TypeOK'
  BY <1>1, <1>3, <1>5, <1>9, <1>10 DEF HttpInvariant, TypeOK
<1>12. CASE conn = "up" /\ ~closing
  <2>1. /\ conn' = "up" /\ state' = "kExpectRequestLine" /\ request' = NoRequest
        /\ answers' = Append(answers, request)
    BY <1>1, <1>2, <1>12 DEF Reset
  <2>2. ContextFits'
    BY <2>1 DEF ContextFits, NoRequest
  <2>3. Start' = consumed + 1
    BY <1>1, <2>1 DEF Start
  <2>4. ParsesWhatIsSaid'
    <3> SUFFICES ASSUME NEW s \in Streams(consumed)
                 PROVE  /\ Messages(s) =
                              answers' \o MessagesFrom(s)[consumed + 1]
                        /\ consumed + 1 \in LineStarts(s)
      BY <1>1, <1>3, <2>1, <2>3 DEF ParsesWhatIsSaid, Streams
    <3> DEFINE left == MessagesFrom(s)[consumed + 1]
    <3>1. /\ consumed + 1 \in LineStarts(s)
          /\ Messages(s) = answers \o (<<request>> \o left)
          /\ left \in Seq(Requests)
      BY <1>8, <1>12
    <3>2. <<request>> \in Seq(Requests)
      BY <1>4, RangeOne
    <3> HIDE DEF left
    <3>3. (answers \o <<request>>) \o left = answers \o (<<request>> \o left)
      BY <1>4, <3>1, <3>2, ConcatAssociative
    <3>4. Append(answers, request) = answers \o <<request>>
      BY <1>4, AppendIsConcat
    <3>5. Messages(s) = answers' \o left
      BY <2>1, <3>1, <3>3, <3>4
    <3> QED
      BY <3>1, <3>5 DEF left
  <2>5. AnswersStand'
    BY <2>1 DEF AnswersStand
  <2>6. /\ \A i \in 1 .. Len(calls) : calls[i].line < request.line
        /\ \A i, j \in 1 .. Len(calls) : calls[i].line = calls[j].line => i = j
    BY <1>5, <1>7, <1>12 DEF HttpInvariant, CallsFit
  <2>7. CallsFit'
    <3>1. \A i \in 1 .. Len(calls) : calls[i].line \in Nat
      BY <1>4, ElementOfSeq, RequestFields
    <3>2. ASSUME NEW i \in 1 .. Len(calls) + 1
          PROVE  calls'[i].line < consumed + 1
      <4>1. CASE i \in 1 .. Len(calls)
        BY <1>4, <1>5, <1>7, <1>12, <2>6, <3>1, <4>1
      <4>2. CASE i = Len(calls) + 1
        BY <1>4, <1>5, <1>7, <1>12, <4>2
      <4> QED
        BY <1>5, <4>1, <4>2
    <3>3. ASSUME NEW i \in 1 .. Len(calls) + 1, NEW j \in 1 .. Len(calls) + 1,
                 calls'[i].line = calls'[j].line
          PROVE  i = j
      <4>1. CASE i \in 1 .. Len(calls) /\ j \in 1 .. Len(calls)
        BY <1>5, <2>6, <3>3, <4>1
      <4>2. CASE i \in 1 .. Len(calls) /\ j = Len(calls) + 1
        BY <1>4, <1>5, <2>6, <3>1, <3>3, <4>2
      <4>3. CASE i = Len(calls) + 1 /\ j \in 1 .. Len(calls)
        BY <1>4, <1>5, <2>6, <3>1, <3>3, <4>3
      <4> QED
        BY <1>5, <4>1, <4>2, <4>3
    <3> QED
      BY <1>5, <2>3, <3>2, <3>3 DEF CallsFit
  <2>8. PeerWaits'
    <3>1. /\ Len(answers') = Len(answers) + 1 /\ Len(answers) \in Nat
      BY <1>4, <2>1, AppendProperties, LenProperties
    <3>2. \A n \in 0 .. Len(arrived) - 1 :
              polite => Len(Messages(SubSeq(arrived, 1, n))) <= Len(answers)
      BY <1>12 DEF HttpInvariant, PeerWaits
    <3>3. \A n \in 0 .. Len(arrived) - 1 :
              polite => Len(Messages(SubSeq(arrived, 1, n))) <= Len(answers')
      <4> SUFFICES ASSUME NEW n \in 0 .. Len(arrived) - 1, polite
                   PROVE  Len(Messages(SubSeq(arrived, 1, n))) <= Len(answers')
        OBVIOUS
      <4> DEFINE t == SubSeq(arrived, 1, n)
      <4>1. Len(Messages(t)) <= Len(answers)
        BY <3>2
      <4>2. Len(Messages(t)) \in Nat
        <5>1. arrived \in Seq(Symbols) /\ Len(arrived) \in Nat
          BY LenProperties DEF HttpInvariant, TypeOK
        <5>2. t \in Seq(Symbols)
          BY <5>1, QueuePart
        <5> HIDE DEF t
        <5>3. 1 \in 1 .. Len(t) + 1
          BY <5>2, LenProperties
        <5>4. Messages(t) \in Seq(Requests)
          BY <5>2, <5>3, MessagesAt DEF Messages
        <5> QED
          BY <5>4, LenProperties
      <4> HIDE DEF t
      <4>3. Len(Messages(t)) <= Len(answers')
        BY <3>1, <4>1, <4>2
      <4> QED
        BY <4>3 DEF t
    <3> QED
      BY <1>3, <2>1, <3>3 DEF PeerWaits
  <2> QED
    BY <1>11, <2>2, <2>4, <2>5, <2>7, <2>8 DEF HttpInvariant
<1>13. CASE conn = "up" /\ closing
  <2>1. conn' = "shut" /\ answers' = Append(answers, request)
    BY <1>1, <1>2, <1>13
  <2>2. ContextFits' /\ ParsesWhatIsSaid'
    BY <2>1 DEF ContextFits, ParsesWhatIsSaid
  <2>3. \A s \in Streams(taken) : \E more \in Seq(Requests) :
            MessagesFrom(s)[Start] = <<request>> \o more
    <3> SUFFICES ASSUME NEW s \in Streams(taken)
                 PROVE  \E more \in Seq(Requests) :
                            MessagesFrom(s)[Start] = <<request>> \o more
      OBVIOUS
    <3>1. s \in Streams(consumed)
      BY <1>4, StreamsShrink
    <3> QED
      BY <1>8, <1>13, <3>1
  <2>4. /\ \A s \in Streams(taken) : \E more \in Seq(Requests) :
              Messages(s) = Append(answers, request) \o more
        /\ polite => taken = Len(arrived)
    BY <1>4, <1>13, <2>3, LastAnswer
  <2>5. AnswersStand'
    BY <1>1, <1>3, <2>1, <2>4 DEF AnswersStand, Streams
  <2>6. /\ \A i \in 1 .. Len(calls) : calls[i].line < request.line
        /\ \A i, j \in 1 .. Len(calls) : calls[i].line = calls[j].line => i = j
    BY <1>5, <1>7, <1>13 DEF HttpInvariant, CallsFit
  <2>7. CallsFit'
    <3>1. \A i \in 1 .. Len(calls) : calls[i].line \in Nat
      BY <1>4, ElementOfSeq, RequestFields
    <3>2. ASSUME NEW i \in 1 .. Len(calls) + 1, NEW j \in 1 .. Len(calls) + 1,
                 calls'[i].line = calls'[j].line
          PROVE  i = j
      <4>1. CASE i \in 1 .. Len(calls) /\ j \in 1 .. Len(calls)
        BY <1>5, <2>6, <3>2, <4>1
      <4>2. CASE i \in 1 .. Len(calls) /\ j = Len(calls) + 1
        BY <1>4, <1>5, <2>6, <3>1, <3>2, <4>2
      <4>3. CASE i = Len(calls) + 1 /\ j \in 1 .. Len(calls)
        BY <1>4, <1>5, <2>6, <3>1, <3>2, <4>3
      <4> QED
        BY <1>5, <4>1, <4>2, <4>3
    <3> QED
      BY <1>5, <2>1, <3>2 DEF CallsFit
  <2>8. PeerWaits'
    BY <1>1, <1>3, <2>1, <2>4 DEF PeerWaits
  <2> QED
    BY <1>11, <2>2, <2>5, <2>7, <2>8 DEF HttpInvariant
<1>14. CASE conn # "up"
  <2>1. conn' = conn /\ answers' = answers /\ ~polite
    BY <1>1, <1>2, <1>6, <1>14
  <2>2. ContextFits' /\ ParsesWhatIsSaid'
    BY <1>14, <2>1 DEF ContextFits, ParsesWhatIsSaid
  <2>3. AnswersStand'
    BY <1>1, <1>3, <2>1 DEF HttpInvariant, AnswersStand, Streams
  <2>4. CallsFit' /\ PeerWaits'
    BY <1>3, <1>14, <2>1 DEF CallsFit, PeerWaits
  <2> QED
    BY <1>11, <2>2, <2>3, <2>4 DEF HttpInvariant
<1> QED
  BY <1>12, <1>13, <1>14

LEMMA HttpNextInvariant == HttpInvariant /\ [Next]_vars => HttpInvariant'
<1> SUFFICES ASSUME HttpInvariant, [Next]_vars PROVE HttpInvariant'
  OBVIOUS
<1>1. CASE OnMessage
  BY <1>1, HandleReadInvariant, ProcessRequestLineInvariant,
     RefuseRequestLineInvariant, AddHeaderInvariant, EndHeadersInvariant,
     AwaitMoreInvariant, RespondInvariant, Zenon DEF OnMessage
<1>2. CASE Closes
  BY <1>2, ClosesInvariant
<1>3. ASSUME NEW x \in Symbols, PeerSends(x) PROVE HttpInvariant'
  BY <1>3, PeerSendsInvariant
<1>4. CASE UNCHANGED vars
  <2>1. UNCHANGED <<arrived, polite, taken, consumed, state, request, parsing,
                    conn, calls, answers>>
    BY <1>4 DEF vars, peer, context
  <2>2. TypeOK'
    BY <2>1 DEF HttpInvariant, TypeOK
  <2>3. ContextFits' /\ ParsesWhatIsSaid'
    BY <2>1, ContextKept DEF context
  <2>4. AnswersStand'
    BY <2>1 DEF HttpInvariant, AnswersStand, Streams
  <2>5. CallsFit'
    BY <2>1 DEF HttpInvariant, CallsFit, Start
  <2>6. PeerWaits'
    BY <2>1 DEF HttpInvariant, PeerWaits
  <2> QED
    BY <2>2, <2>3, <2>4, <2>5, <2>6 DEF HttpInvariant
<1> QED
  BY <1>1, <1>2, <1>3, <1>4 DEF Next

\* The parser keeps its place in every stream that begins with what was retrieved,
\* whatever comes next and however it is cut: the invariant of the HttpServer
\* holds in every run.
THEOREM HttpInvariantHolds == Spec => []HttpInvariant
<1>1. Init => HttpInvariant
  BY HttpInitInvariant
<1>2. HttpInvariant /\ [Next]_vars => HttpInvariant'
  BY HttpNextInvariant
<1> QED
  BY <1>1, <1>2, PTL DEF Spec

\* The variables keep their types: parseRequest retrieves no more than there is in
\* the buffer, in streams of any length.
THEOREM HttpTypeCorrect == Spec => []TypeOK
<1>1. HttpInvariant => TypeOK
  BY DEF HttpInvariant
<1> QED
  BY <1>1, HttpInvariantHolds, PTL

LEMMA AnsweredFromInvariant == HttpInvariant => AnsweredInOrder
<1> SUFFICES ASSUME HttpInvariant PROVE AnsweredInOrder
  OBVIOUS
<1>1. /\ TypeOK /\ answers \in Seq(Requests) /\ calls \in Seq(Requests)
      /\ consumed \in 0 .. Len(arrived) /\ taken \in 0 .. Len(arrived)
      /\ Len(answers) \in Nat
  BY LenProperties DEF HttpInvariant, TypeOK
<1>2. PICK more \in Seq(Requests) : Messages(arrived) = answers \o more
  <2>1. CASE conn = "up"
    <3>1. arrived \in Streams(consumed)
      BY <1>1, ArrivedIsStream
    <3>2. /\ Messages(arrived) = answers \o MessagesFrom(arrived)[Start]
          /\ MessagesFrom(arrived)[Start] \in Seq(Requests)
      BY <2>1, <3>1, StartFits DEF HttpInvariant, ParsesWhatIsSaid
    <3> QED
      BY <3>2
  <2>2. CASE conn # "up"
    <3>1. arrived \in Streams(taken)
      BY <1>1, ArrivedIsStream
    <3> QED
      BY <2>2, <3>1 DEF HttpInvariant, AnswersStand
  <2> QED
    BY <2>1, <2>2
<1>3. Len(answers) \in 0 .. Len(Messages(arrived))
  BY <1>1, <1>2, QueueConcat, LenProperties
<1>4. answers = SubSeq(Messages(arrived), 1, Len(answers))
  <2> DEFINE all == answers \o more
             first == SubSeq(all, 1, Len(answers))
  <2>1. /\ all \in Seq(Requests) /\ Len(answers) \in 0 .. Len(all)
        /\ \A i \in 1 .. Len(answers) : all[i] = answers[i]
    BY <1>1, <1>2, <1>3, QueueConcat
  <2> HIDE DEF all
  <2>2. /\ first \in Seq(Requests) /\ Len(first) = Len(answers)
        /\ \A i \in 1 .. Len(answers) : first[i] = all[i]
    BY <1>1, <2>1, LenProperties, QueuePart
  <2> HIDE DEF first
  <2>3. first = answers
    BY <1>1, <2>1, <2>2, SeqEqual
  <2> QED
    BY <1>2, <2>3 DEF first, all
<1>5. polite \/ conn = "up" =>
          \A i, j \in DOMAIN calls : calls[i] = calls[j] => i = j
  BY DEF HttpInvariant, CallsFit
<1> QED
  BY <1>3, <1>4, <1>5 DEF AnsweredInOrder

\* However the stream of a connection is cut into segments and whenever the
\* connection is shut down, the answers are those to its first requests in order,
\* each with its own headers, and the callback is called once for each: for
\* streams of any length.
THEOREM AnswersInOrder == Spec => []AnsweredInOrder
<1>1. HttpInvariant => AnsweredInOrder
  BY AnsweredFromInvariant
<1> QED
  BY <1>1, HttpInvariantHolds, PTL

=============================================================================
