--------------------------- MODULE Buffer_proofs ----------------------------
(***************************************************************************)
(* Theorems about Buffer, for any sizes and any byte strings.                *)
(***************************************************************************)
EXTENDS Buffer, SequenceTheorems, TLAPS

-----------------------------------------------------------------------------
(* What each operator on the buffer does to its shape and its content *)

\* The content is a byte string as long as the readable space.
LEMMA ContentType ==
    ASSUME NEW b, WellFormed(b)
    PROVE  /\ Content(b) \in Seq(Bytes)
           /\ Len(Content(b)) = Readable(b)
           /\ Readable(b) \in Nat
           /\ \A i \in 1 .. Readable(b) : Content(b)[i] = b.mem[b.reader + i - 1]
<1>1. Readable(b) \in Nat
  BY SizeAssumption DEF WellFormed, Readable
<1>2. \A i \in 1 .. Readable(b) : b.reader + i - 1 \in 0 .. b.size - 1
  BY <1>1, SizeAssumption DEF WellFormed, Readable
<1>3. \A i \in 1 .. Readable(b) : b.mem[b.reader + i - 1] \in Bytes
  BY <1>2 DEF WellFormed
<1>4. Content(b) \in [1 .. Readable(b) -> Bytes]
  BY <1>3 DEF Content
<1>5. Content(b) \in Seq(Bytes)
  BY <1>1, <1>4, SeqDef
<1> QED
  BY <1>1, <1>4, <1>5 DEF Content

\* Growing the vector keeps the content and the indices.
LEMMA ResizeKeeps ==
    ASSUME NEW b, WellFormed(b), NEW n \in Nat, n >= b.size
    PROVE  /\ WellFormed(Resize(b, n))
           /\ Content(Resize(b, n)) = Content(b)
           /\ Resize(b, n).reader = b.reader
           /\ Resize(b, n).writer = b.writer
           /\ Resize(b, n).size = n
<1> DEFINE c == Resize(b, n)
<1>1. /\ DOMAIN c = {"mem", "size", "reader", "writer"}
      /\ c.reader = b.reader /\ c.writer = b.writer /\ c.size = n
      /\ c.mem = [i \in 0 .. n - 1 |-> IF i < b.size THEN b.mem[i] ELSE Nul]
  BY DEF Resize, WellFormed
<1>2. c.mem \in [0 .. n - 1 -> Bytes]
  BY <1>1, ByteAssumption DEF WellFormed
<1> HIDE DEF c
<1>3. WellFormed(c)
  BY <1>1, <1>2 DEF WellFormed
<1>4. Readable(c) = Readable(b)
  BY <1>1 DEF Readable
<1>5. \A i \in 1 .. Readable(b) :
         c.mem[c.reader + i - 1] = b.mem[b.reader + i - 1]
  <2> SUFFICES ASSUME NEW i \in 1 .. Readable(b)
               PROVE  c.mem[c.reader + i - 1] = b.mem[b.reader + i - 1]
    OBVIOUS
  <2>1. b.reader + i - 1 \in 0 .. n - 1 /\ b.reader + i - 1 < b.size
    <3>1. /\ b.size \in Nat /\ b.reader \in Nat /\ b.writer \in Nat
          /\ b.writer <= b.size /\ i \in 1 .. b.writer - b.reader
      BY DEF WellFormed, Readable
    <3> QED
      BY <3>1
  <2> QED
    BY <1>1, <2>1
<1>6. Content(c) = Content(b)
  BY <1>4, <1>5 DEF Content
<1> QED
  BY <1>1, <1>3, <1>6 DEF c

\* Moving the content down to kCheapPrepend keeps it.
LEMMA MoveDownKeeps ==
    ASSUME NEW b, WellFormed(b)
    PROVE  /\ WellFormed(MoveDown(b))
           /\ Content(MoveDown(b)) = Content(b)
           /\ MoveDown(b).reader = CheapPrepend
           /\ MoveDown(b).writer = CheapPrepend + Readable(b)
           /\ MoveDown(b).size = b.size
<1> DEFINE c == MoveDown(b)
           end == CheapPrepend + Readable(b)
<1>1. /\ DOMAIN c = {"mem", "size", "reader", "writer"}
      /\ c.reader = CheapPrepend /\ c.writer = end /\ c.size = b.size
      /\ c.mem = [i \in 0 .. b.size - 1 |->
                    IF i \in CheapPrepend .. end - 1
                    THEN b.mem[b.reader + (i - CheapPrepend)]
                    ELSE b.mem[i]]
  BY DEF MoveDown, WellFormed
<1>2. /\ Readable(b) \in Nat /\ end \in Nat /\ CheapPrepend \in Nat
      /\ end <= b.size /\ b.size \in Nat /\ b.reader \in Nat
      /\ CheapPrepend <= end /\ b.reader + Readable(b) <= b.size
      /\ end = CheapPrepend + Readable(b)
  BY SizeAssumption DEF WellFormed, Readable
<1> HIDE DEF c, end
<1>3. ASSUME NEW i \in 0 .. b.size - 1
      PROVE  c.mem[i] \in Bytes
  <2>1. CASE i \in CheapPrepend .. end - 1
    <3>1. b.reader + (i - CheapPrepend) \in 0 .. b.size - 1
      BY <1>2, <2>1
    <3> QED
      BY <1>1, <2>1, <3>1 DEF WellFormed
  <2>2. CASE i \notin CheapPrepend .. end - 1
    BY <1>1, <2>2 DEF WellFormed
  <2> QED
    BY <2>1, <2>2
<1>4. WellFormed(c)
  BY <1>1, <1>2, <1>3 DEF WellFormed
<1>5. Readable(c) = Readable(b)
  BY <1>1, <1>2 DEF Readable
<1>6. ASSUME NEW i \in 1 .. Readable(b)
      PROVE  c.mem[c.reader + i - 1] = b.mem[b.reader + i - 1]
  <2>1. /\ c.reader + i - 1 \in CheapPrepend .. end - 1
        /\ c.reader + i - 1 \in 0 .. b.size - 1
        /\ b.reader + ((c.reader + i - 1) - CheapPrepend) = b.reader + i - 1
    BY <1>1, <1>2
  <2> QED
    BY <1>1, <2>1
<1>7. Content(c) = Content(b)
  BY <1>5, <1>6 DEF Content
<1> QED
  BY <1>1, <1>4, <1>7 DEF c, end

\* ensureWritableBytes(len) keeps the content and makes room for len bytes, and
\* an empty buffer at the front stays there.
LEMMA EnsureWritableKeeps ==
    ASSUME NEW b, WellFormed(b), NEW len \in Nat
    PROVE  LET c == EnsureWritableBytes(b, len)
           IN  /\ WellFormed(c)
               /\ Content(c) = Content(b)
               /\ Writable(c) >= len
               /\ Readable(c) = Readable(b)
               /\ c.reader \in {b.reader, CheapPrepend}
<1> DEFINE c == EnsureWritableBytes(b, len)
<1>1. CASE Writable(b) >= len
  <2>1. c = b
    BY <1>1 DEF EnsureWritableBytes, Writable, WellFormed
  <2> QED
    BY <1>1, <2>1
<1>2. CASE /\ ~(Writable(b) >= len)
           /\ Prependable(b) + Writable(b) < len + CheapPrepend
  <2>1. c = Resize(b, b.writer + len)
    BY <1>2 DEF EnsureWritableBytes, MakeSpace, Writable, WellFormed
  <2>2. b.writer + len \in Nat /\ b.writer + len >= b.size
    BY <1>2 DEF Writable, WellFormed
  <2>3. Writable(c) = len /\ Readable(c) = Readable(b)
    BY <2>1, <2>2, ResizeKeeps DEF Writable, Readable, WellFormed
  <2> QED
    BY <2>1, <2>2, <2>3, ResizeKeeps
<1>3. CASE /\ ~(Writable(b) >= len)
           /\ ~(Prependable(b) + Writable(b) < len + CheapPrepend)
  <2>1. c = MoveDown(b)
    BY <1>3 DEF EnsureWritableBytes, MakeSpace, Writable, WellFormed
  <2>2. /\ b.size \in Nat /\ b.reader \in Nat /\ b.writer \in Nat
        /\ CheapPrepend \in Nat
    BY SizeAssumption DEF WellFormed
  <2>3. /\ c.size = b.size /\ c.reader = CheapPrepend
        /\ c.writer = CheapPrepend + (b.writer - b.reader)
    BY <2>1, MoveDownKeeps DEF Readable
  <2>4. Writable(c) >= len /\ Readable(c) = Readable(b)
    BY <1>3, <2>2, <2>3 DEF Writable, Readable, Prependable
  <2> QED
    BY <2>1, <2>3, <2>4, MoveDownKeeps
<1> QED
  BY <1>1, <1>2, <1>3

\* memcpy into writable space puts the bytes behind the content.
LEMMA StoreAppends ==
    ASSUME NEW b, WellFormed(b), NEW d \in Seq(Bytes), Len(d) <= Writable(b)
    PROVE  /\ WellFormed(Store(b, d))
           /\ Content(Store(b, d)) = Content(b) \o d
           /\ Store(b, d).reader = b.reader
           /\ Readable(Store(b, d)) = Readable(b) + Len(d)
           /\ Writable(Store(b, d)) = Writable(b) - Len(d)
<1> DEFINE c == Store(b, d)
           n == Len(d)
<1>0. n \in Nat /\ n = Len(d) /\ n <= Writable(b)
      /\ \A i \in 1 .. n : d[i] \in Bytes
  BY LenProperties, ElementOfSeq
<1>1. /\ DOMAIN c = {"mem", "size", "reader", "writer"}
      /\ c.reader = b.reader /\ c.writer = b.writer + n /\ c.size = b.size
      /\ c.mem = [i \in 0 .. b.size - 1 |->
                    IF i \in b.writer .. b.writer + n - 1
                    THEN d[i - b.writer + 1]
                    ELSE b.mem[i]]
  BY DEF Store, WellFormed
<1>2. /\ n \in Nat /\ b.size \in Nat /\ b.reader \in Nat /\ b.writer \in Nat
      /\ b.writer + n <= b.size /\ b.reader <= b.writer
      /\ \A i \in 1 .. n : d[i] \in Bytes
      /\ n = Len(d)
  <2> HIDE DEF c, n
  <2> QED
    BY <1>0 DEF WellFormed, Writable
<1> HIDE DEF c, n
<1>3. ASSUME NEW i \in 0 .. b.size - 1
      PROVE  c.mem[i] \in Bytes
  <2>1. CASE i \in b.writer .. b.writer + n - 1
    <3>1. i - b.writer + 1 \in 1 .. n
      BY <1>2, <2>1
    <3> QED
      BY <1>1, <1>2, <2>1, <3>1
  <2>2. CASE i \notin b.writer .. b.writer + n - 1
    BY <1>1, <2>2 DEF WellFormed
  <2> QED
    BY <2>1, <2>2
<1>4. WellFormed(c)
  BY <1>1, <1>2, <1>3 DEF WellFormed
<1>5. /\ Readable(c) = Readable(b) + n
      /\ Writable(c) = Writable(b) - n
      /\ Readable(b) \in Nat
  BY <1>1, <1>2 DEF Readable, Writable
<1>6. /\ Content(b) \o d \in Seq(Bytes)
      /\ Len(Content(b) \o d) = Readable(b) + n
      /\ \A i \in 1 .. Readable(b) + n :
            (Content(b) \o d)[i] = IF i <= Readable(b)
                                   THEN Content(b)[i]
                                   ELSE d[i - Readable(b)]
  <2> DEFINE s == Content(b)
  <2>1. s \in Seq(Bytes) /\ Len(s) = Readable(b)
    BY ContentType
  <2> HIDE DEF s
  <2>2. /\ s \o d \in Seq(Bytes)
        /\ Len(s \o d) = Len(s) + Len(d)
        /\ \A i \in 1 .. Len(s) + Len(d) :
              (s \o d)[i] = IF i <= Len(s) THEN s[i] ELSE d[i - Len(s)]
    BY <2>1, ConcatProperties
  <2> QED
    BY <1>2, <2>1, <2>2 DEF s
<1>7. ASSUME NEW i \in 1 .. Readable(b) + n
      PROVE  Content(c)[i] = (Content(b) \o d)[i]
  <2>1. Content(c)[i] = c.mem[b.reader + i - 1]
    <3>1. i \in 1 .. Readable(c)
      BY <1>5
    <3> QED
      BY <1>1, <3>1 DEF Content
  <2>2. b.reader + i - 1 \in 0 .. b.size - 1
    <3>1. i \in 1 .. (b.writer - b.reader) + n
      BY DEF Readable
    <3>2. /\ n \in Nat /\ b.size \in Nat /\ b.reader \in Nat /\ b.writer \in Nat
          /\ b.writer + n <= b.size /\ b.reader <= b.writer
      BY <1>2
    <3> QED
      BY <3>1, <3>2
  <2>3. CASE i <= Readable(b)
    <3>1. b.reader + i - 1 \notin b.writer .. b.writer + n - 1
      BY <1>2, <2>3 DEF Readable
    <3>2. Content(b)[i] = b.mem[b.reader + i - 1]
      BY <1>5, <2>3, ContentType
    <3> QED
      BY <1>1, <1>6, <2>1, <2>2, <2>3, <3>1, <3>2
  <2>4. CASE ~(i <= Readable(b))
    <3>1. /\ b.reader + i - 1 \in b.writer .. b.writer + n - 1
          /\ (b.reader + i - 1) - b.writer + 1 = i - Readable(b)
      <4>1. /\ n \in Nat /\ b.reader \in Nat /\ b.writer \in Nat
            /\ b.reader <= b.writer
        BY <1>2
      <4>2. /\ i \in 1 .. (b.writer - b.reader) + n
            /\ ~(i <= b.writer - b.reader)
        BY <2>4 DEF Readable
      <4> QED
        BY <4>1, <4>2 DEF Readable
    <3> QED
      BY <1>1, <1>6, <2>1, <2>2, <2>4, <3>1
  <2> QED
    BY <2>3, <2>4
<1>8. Content(c) \in Seq(Bytes) /\ Len(Content(c)) = Readable(b) + n
  BY <1>4, <1>5, ContentType
<1>9. Content(c) = Content(b) \o d
  BY <1>6, <1>7, <1>8, SeqEqual
<1> QED
  BY <1>1, <1>4, <1>5, <1>9 DEF c, n

\* append(d) puts d behind the content, making room first.
LEMMA AppendAppends ==
    ASSUME NEW b, WellFormed(b), NEW d \in Seq(Bytes)
    PROVE  /\ WellFormed(AppendTo(b, d))
           /\ Content(AppendTo(b, d)) = Content(b) \o d
           /\ AppendTo(b, d).reader \in {b.reader, CheapPrepend}
           /\ Readable(AppendTo(b, d)) = Readable(b) + Len(d)
<1> DEFINE c == EnsureWritableBytes(b, Len(d))
<1>1. Len(d) \in Nat
  BY LenProperties
<1>2. /\ WellFormed(c) /\ Content(c) = Content(b) /\ Writable(c) >= Len(d)
      /\ Readable(c) = Readable(b) /\ c.reader \in {b.reader, CheapPrepend}
  BY <1>1, EnsureWritableKeeps
<1>3. AppendTo(b, d) = Store(c, d)
  BY DEF AppendTo
<1> HIDE DEF c
<1>4. Len(d) <= Writable(c)
  BY <1>1, <1>2 DEF Writable, WellFormed
<1> QED
  BY <1>2, <1>3, <1>4, StoreAppends

\* retrieve(len) drops the first len bytes, or all there are; emptied, the
\* buffer starts at the front again.
LEMMA RetrieveDrops ==
    ASSUME NEW b, WellFormed(b), NEW len \in Nat
    PROVE  LET c == RetrieveFrom(b, len)
               n == IF len < Readable(b) THEN len ELSE Readable(b)
           IN  /\ WellFormed(c)
               /\ n \in 0 .. Len(Content(b))
               /\ Content(c) = SubSeq(Content(b), n + 1, Len(Content(b)))
               /\ Readable(c) = 0 => c.reader = CheapPrepend
<1> DEFINE c == RetrieveFrom(b, len)
           s == Content(b)
<1>1. /\ Readable(b) \in Nat /\ s \in Seq(Bytes) /\ Len(s) = Readable(b)
      /\ \A i \in 1 .. Readable(b) : s[i] = b.mem[b.reader + i - 1]
  BY ContentType
<1> HIDE DEF s
<1>2. CASE len < Readable(b)
  <2>1. c = [b EXCEPT !.reader = b.reader + len]
    BY <1>2 DEF RetrieveFrom
  <2>2. /\ DOMAIN c = {"mem", "size", "reader", "writer"}
        /\ c.reader = b.reader + len /\ c.writer = b.writer /\ c.size = b.size
        /\ c.mem = b.mem
    BY <2>1 DEF WellFormed
  <2> HIDE DEF c
  <2>3. WellFormed(c) /\ Readable(c) = Readable(b) - len
    BY <1>2, <2>2, SizeAssumption DEF WellFormed, Readable
  <2>4. /\ Content(c) \in Seq(Bytes)
        /\ Len(Content(c)) = Readable(b) - len
        /\ \A i \in 1 .. Readable(b) - len :
              Content(c)[i] = b.mem[b.reader + len + i - 1]
    BY <2>2, <2>3, ContentType
  <2> DEFINE t == SubSeq(s, len + 1, Len(s))
  <2>5. \A i \in len + 1 .. Len(s) : s[i] \in Bytes
    BY <1>1, ElementOfSeq
  <2>6. /\ t \in Seq(Bytes)
        /\ Len(t) = IF len + 1 <= Len(s) THEN Len(s) - (len + 1) + 1 ELSE 0
        /\ \A i \in 1 .. Len(s) - (len + 1) + 1 : t[i] = s[(len + 1) + i - 1]
    BY <1>1, <2>5, SubSeqProperties
  <2> HIDE DEF t
  <2>7. /\ Len(t) = Readable(b) - len
        /\ \A i \in 1 .. Readable(b) - len : t[i] = s[len + i]
    BY <1>1, <1>2, <2>6
  <2>8. ASSUME NEW i \in 1 .. Readable(b) - len
        PROVE  t[i] = Content(c)[i]
    <3>1. len + i \in 1 .. Readable(b)
      BY <1>1, <1>2
    <3>2. s[len + i] = b.mem[b.reader + (len + i) - 1]
      BY <1>1, <3>1
    <3>3. b.reader + (len + i) - 1 = b.reader + len + i - 1
      <4>1. b.reader \in Nat
        BY DEF WellFormed
      <4> QED
        BY <4>1
    <3>4. t[i] = s[len + i] /\ Content(c)[i] = b.mem[b.reader + len + i - 1]
      BY <2>4, <2>7
    <3> QED
      BY <3>2, <3>3, <3>4
  <2>9. t = Content(c)
    BY <2>4, <2>6, <2>7, <2>8, SeqEqual
  <2> QED
    BY <1>1, <1>2, <2>3, <2>9 DEF c, s, t
<1>3. CASE ~(len < Readable(b))
  <2>1. c = [b EXCEPT !.reader = CheapPrepend, !.writer = CheapPrepend]
    BY <1>3 DEF RetrieveFrom
  <2>2. /\ DOMAIN c = {"mem", "size", "reader", "writer"}
        /\ c.reader = CheapPrepend /\ c.writer = CheapPrepend
        /\ c.size = b.size /\ c.mem = b.mem
    BY <2>1 DEF WellFormed
  <2> HIDE DEF c
  <2>3. WellFormed(c) /\ Readable(c) = 0
    BY <2>2, SizeAssumption DEF WellFormed, Readable
  <2>4. Content(c) \in Seq(Bytes) /\ Len(Content(c)) = 0
    BY <2>3, ContentType
  <2>5. Content(c) = <<>>
    BY <2>4, EmptySeq
  <2>6. SubSeq(s, Len(s) + 1, Len(s)) = <<>>
    BY <1>1, SubSeqEmpty
  <2> QED
    BY <1>1, <1>3, <2>2, <2>3, <2>5, <2>6 DEF c, s
<1> QED
  BY <1>2, <1>3

-----------------------------------------------------------------------------
(* The invariant *)

BufferInvariant == TypeOK /\ EmptyIsReset

\* Every operation keeps the buffer well formed, and reset when empty.
LEMMA BufferStep == BufferInvariant /\ [Next]_vars => BufferInvariant'
<1> SUFFICES ASSUME BufferInvariant, [Next]_vars
             PROVE  BufferInvariant'
  OBVIOUS
<1>a. WellFormed(buf) /\ result \in {"in", "out"} \X Seq(Bytes) /\ EmptyIsReset
  BY DEF BufferInvariant, TypeOK
<1>b. Readable(buf) \in Nat
  BY <1>a, ContentType
<1>c. ASSUME NEW n \in Nat, n <= Readable(buf)
      PROVE  SubSeq(Content(buf), 1, n) \in Seq(Bytes)
  <2>1. \A i \in 1 .. n : Content(buf)[i] \in Bytes
    BY <1>a, <1>b, <1>c, ContentType, ElementOfSeq
  <2> QED
    BY <2>1, SubSeqProperties
<1>1. ASSUME NEW d \in Chunks, Append_(d)
      PROVE  BufferInvariant'
  <2>1. d \in Seq(Bytes) /\ Len(d) \in Nat
    BY ByteAssumption, LenProperties
  <2>2. buf' = AppendTo(buf, d) /\ result' = <<"in", d>>
    BY <1>1 DEF Append_
  <2>3. /\ WellFormed(buf') /\ buf'.reader \in {buf.reader, CheapPrepend}
        /\ Readable(buf') = Readable(buf) + Len(d)
    BY <1>a, <2>1, <2>2, AppendAppends
  <2> QED
    BY <1>a, <1>b, <2>1, <2>2, <2>3 DEF BufferInvariant, TypeOK, EmptyIsReset
<1>2. ASSUME NEW d \in Chunks, ReadFd(d)
      PROVE  BufferInvariant'
  <2> DEFINE w == Writable(buf)
             x == SubSeq(d, 1, w)
             y == SubSeq(d, w + 1, Len(d))
             c == Store(buf, x)
  <2>1. d \in Seq(Bytes) /\ Len(d) \in Nat /\ result' = <<"in", d>>
    BY <1>2, ByteAssumption, LenProperties DEF ReadFd
  <2>2. CASE Len(d) <= w
    <3>1. buf' = Store(buf, d)
      BY <1>2, <2>2 DEF ReadFd
    <3> QED
      BY <1>a, <1>b, <2>1, <2>2, <3>1, StoreAppends
         DEF BufferInvariant, TypeOK, EmptyIsReset
  <2>3. CASE ~(Len(d) <= w)
    <3>1. buf' = AppendTo(c, y)
      BY <1>2, <2>3 DEF ReadFd
    <3>2. w \in Nat
      BY <1>a DEF WellFormed, Writable
    <3>3. \A i \in 1 .. Len(d) : d[i] \in Bytes
      BY <2>1, ElementOfSeq
    <3> HIDE DEF w
    <3>4. x \in Seq(Bytes) /\ Len(x) = w
      <4>1. \A i \in 1 .. w : d[i] \in Bytes
        BY <2>1, <2>3, <3>2, <3>3
      <4> QED
        BY <3>2, <4>1, SubSeqProperties
    <3>5. y \in Seq(Bytes) /\ Len(y) = Len(d) - w
      <4>1. \A i \in w + 1 .. Len(d) : d[i] \in Bytes
        BY <2>1, <2>3, <3>2, <3>3
      <4> QED
        BY <2>1, <2>3, <3>2, <4>1, SubSeqProperties
    <3> HIDE DEF x, y
    <3>6. /\ WellFormed(c) /\ c.reader = buf.reader
          /\ Readable(c) = Readable(buf) + w
      BY <1>a, <3>2, <3>4, StoreAppends DEF w
    <3> HIDE DEF c
    <3>7. /\ WellFormed(buf') /\ buf'.reader \in {buf.reader, CheapPrepend}
          /\ Readable(buf') = Readable(buf) + w + (Len(d) - w)
      BY <3>1, <3>5, <3>6, AppendAppends
    <3> QED
      BY <1>a, <1>b, <2>1, <3>2, <3>7 DEF BufferInvariant, TypeOK, EmptyIsReset
  <2> QED
    BY <2>2, <2>3
<1>3. ASSUME NEW n \in 0 .. MaxReadable, EnsureWritable(n)
      PROVE  BufferInvariant'
  <2>1. n \in Nat
    BY SizeAssumption
  <2> QED
    BY <1>3, <1>a, <2>1, EnsureWritableKeeps
       DEF EnsureWritable, BufferInvariant, TypeOK, EmptyIsReset
<1>4. ASSUME NEW n \in 0 .. MaxReadable, Retrieve(n)
      PROVE  BufferInvariant'
  <2>1. n \in Nat
    BY SizeAssumption
  <2> QED
    BY <1>4, <1>a, <2>1, RetrieveDrops
       DEF Retrieve, BufferInvariant, TypeOK, EmptyIsReset
<1>5. ASSUME NEW n \in 0 .. MaxReadable, RetrieveAsString(n)
      PROVE  BufferInvariant'
  <2>1. n \in Nat
    BY SizeAssumption
  <2> QED
    BY <1>5, <1>a, <1>c, <2>1, RetrieveDrops
       DEF RetrieveAsString, BufferInvariant, TypeOK, EmptyIsReset
<1>6. ASSUME NEW n \in 0 .. MaxReadable, WriteFd(n)
      PROVE  BufferInvariant'
  <2>1. n \in Nat
    BY SizeAssumption
  <2> QED
    BY <1>6, <1>a, <1>c, <2>1 DEF WriteFd, BufferInvariant, TypeOK, EmptyIsReset
<1>7. CASE UNCHANGED vars
  BY <1>7 DEF vars, BufferInvariant, TypeOK, EmptyIsReset
<1> QED
  BY <1>1, <1>2, <1>3, <1>4, <1>5, <1>6, <1>7 DEF Next

\* The invariant holds in every reachable state.
THEOREM Invariant == Spec => []BufferInvariant
<1>1. Init => BufferInvariant
  <2> SUFFICES ASSUME Init
               PROVE  BufferInvariant
    OBVIOUS
  <2>1. WellFormed(buf)
    BY SizeAssumption, ByteAssumption DEF Init, WellFormed
  <2> QED
    BY <2>1, EmptySeq DEF Init, BufferInvariant, TypeOK, EmptyIsReset
<1> QED
  BY <1>1, BufferStep, PTL DEF Spec

\* For any kCheapPrepend, kInitialSize and size of extrabuf and any sequence of
\* calls, the indices stay in order inside the vector, so no memcpy, readv or
\* peek leaves it.
THEOREM AlwaysWellFormed == Spec => []TypeOK
<1>1. BufferInvariant => TypeOK
  BY DEF BufferInvariant
<1> QED
  BY <1>1, Invariant, PTL

\* Whatever calls emptied it, a buffer without content has its indices back at
\* kCheapPrepend and offers all its space again.
THEOREM EmptiedIsReset == Spec => []EmptyIsReset
<1>1. BufferInvariant => EmptyIsReset
  BY DEF BufferInvariant
<1> QED
  BY <1>1, Invariant, PTL

-----------------------------------------------------------------------------
(* The buffer is a queue of bytes *)

\* Every operation puts bytes behind the content, takes some from its front,
\* copies some or leaves it alone.
LEMMA QueueStep == BufferInvariant /\ [Next]_vars => [Queue!Next]_(Queue!vars)
<1> SUFFICES ASSUME BufferInvariant, [Next]_vars
             PROVE  [Queue!Next]_(Queue!vars)
  OBVIOUS
<1>a. WellFormed(buf)
  BY DEF BufferInvariant, TypeOK
<1>b. /\ Content(buf) \in Seq(Bytes) /\ Len(Content(buf)) = Readable(buf)
      /\ Readable(buf) \in Nat
  BY <1>a, ContentType
<1>1. ASSUME NEW d \in Chunks, Append_(d)
      PROVE  Queue!Put(d)
  <2>1. d \in Seq(Bytes)
    BY ByteAssumption
  <2>2. buf' = AppendTo(buf, d) /\ result' = <<"in", d>>
    BY <1>1 DEF Append_
  <2>3. Content(buf') = Content(buf) \o d
    BY <1>a, <2>1, <2>2, AppendAppends
  <2> QED
    BY <2>2, <2>3 DEF Queue!Put
<1>2. ASSUME NEW d \in Chunks, ReadFd(d)
      PROVE  Queue!Put(d)
  <2> DEFINE w == Writable(buf)
             x == SubSeq(d, 1, w)
             y == SubSeq(d, w + 1, Len(d))
             c == Store(buf, x)
  <2>1. d \in Seq(Bytes) /\ Len(d) \in Nat /\ result' = <<"in", d>>
    BY <1>2, ByteAssumption, LenProperties DEF ReadFd
  <2>2. CASE Len(d) <= w
    <3>1. buf' = Store(buf, d)
      BY <1>2, <2>2 DEF ReadFd
    <3>2. Content(buf') = Content(buf) \o d
      BY <1>a, <2>1, <2>2, <3>1, StoreAppends
    <3> QED
      BY <2>1, <3>2 DEF Queue!Put
  <2>3. CASE ~(Len(d) <= w)
    <3>1. buf' = AppendTo(c, y)
      BY <1>2, <2>3 DEF ReadFd
    <3>2. w \in Nat
      BY <1>a DEF WellFormed, Writable
    <3>3. \A i \in 1 .. Len(d) : d[i] \in Bytes
      BY <2>1, ElementOfSeq
    <3> HIDE DEF w
    <3>4. x \in Seq(Bytes) /\ Len(x) = w
      <4>1. \A i \in 1 .. w : d[i] \in Bytes
        BY <2>1, <2>3, <3>2, <3>3
      <4> QED
        BY <3>2, <4>1, SubSeqProperties
    <3>5. y \in Seq(Bytes)
      <4>1. \A i \in w + 1 .. Len(d) : d[i] \in Bytes
        BY <2>1, <2>3, <3>2, <3>3
      <4> QED
        BY <2>1, <3>2, <4>1, SubSeqProperties
    <3>6. x \o y = d
      <4> DEFINE lo == 1
                 hi == Len(d)
      <4>a. lo \in 1 .. Len(d) + 1 /\ w \in lo - 1 .. Len(d) /\ hi \in w .. Len(d)
        BY <2>1, <2>3, <3>2
      <4>b. SubSeq(d, lo, w) \o SubSeq(d, w + 1, hi) = SubSeq(d, lo, hi)
        BY <2>1, <4>a, ConcatAdjacentSubSeq
      <4>1. x \o y = SubSeq(d, 1, Len(d))
        BY <4>b
      <4> QED
        BY <2>1, <4>1, SubSeqFull
    <3> HIDE DEF x, y
    <3>7. WellFormed(c) /\ Content(c) = Content(buf) \o x
      BY <1>a, <3>2, <3>4, StoreAppends DEF w
    <3> HIDE DEF c
    <3>8. Content(buf') = Content(c) \o y
      BY <3>1, <3>5, <3>7, AppendAppends
    <3>9. (Content(buf) \o x) \o y = Content(buf) \o (x \o y)
      BY <1>b, <3>4, <3>5, ConcatAssociative
    <3>10. Content(buf') = Content(buf) \o d
      BY <3>6, <3>7, <3>8, <3>9
    <3> QED
      BY <2>1, <3>10 DEF Queue!Put
  <2> QED
    BY <2>2, <2>3
<1>3. ASSUME NEW n \in 0 .. MaxReadable, EnsureWritable(n)
      PROVE  UNCHANGED Queue!vars
  <2>1. n \in Nat
    BY SizeAssumption
  <2> QED
    BY <1>3, <1>a, <2>1, EnsureWritableKeeps DEF EnsureWritable, Queue!vars
<1>4. ASSUME NEW n \in 0 .. MaxReadable, Retrieve(n)
      PROVE  \E k \in 0 .. Len(Content(buf)) : Queue!Drop(k)
  <2> DEFINE k == IF n < Readable(buf) THEN n ELSE Readable(buf)
  <2>1. n \in Nat /\ buf' = RetrieveFrom(buf, n) /\ result' = result
    BY <1>4, SizeAssumption DEF Retrieve
  <2>2. /\ k \in 0 .. Len(Content(buf))
        /\ Content(buf') = SubSeq(Content(buf), k + 1, Len(Content(buf)))
    BY <1>a, <2>1, RetrieveDrops
  <2>3. Queue!Drop(k)
    BY <2>1, <2>2 DEF Queue!Drop, Queue!AllBut
  <2> QED
    BY <2>2, <2>3
<1>5. ASSUME NEW n \in 0 .. MaxReadable, RetrieveAsString(n)
      PROVE  \E k \in 0 .. Len(Content(buf)) : Queue!Take(k)
  <2> DEFINE k == IF n < Readable(buf) THEN n ELSE Readable(buf)
  <2>1. /\ n \in Nat /\ buf' = RetrieveFrom(buf, n) /\ n <= Readable(buf)
        /\ result' = <<"out", SubSeq(Content(buf), 1, n)>>
    BY <1>5, SizeAssumption DEF RetrieveAsString
  <2>2. /\ k \in 0 .. Len(Content(buf))
        /\ Content(buf') = SubSeq(Content(buf), k + 1, Len(Content(buf)))
    BY <1>a, <2>1, RetrieveDrops
  <2>3. k = n
    BY <1>b, <2>1
  <2>4. Queue!Take(n)
    BY <2>1, <2>2, <2>3 DEF Queue!Take, Queue!AllBut, Queue!First
  <2> QED
    BY <2>2, <2>3, <2>4
<1>6. ASSUME NEW n \in 0 .. MaxReadable, WriteFd(n)
      PROVE  \E k \in 0 .. Len(Content(buf)) : Queue!Copy(k)
  <2>1. n \in 0 .. Len(Content(buf))
    BY <1>6, <1>b, SizeAssumption DEF WriteFd
  <2>2. Queue!Copy(n)
    BY <1>6 DEF WriteFd, Queue!Copy, Queue!First
  <2> QED
    BY <2>1, <2>2
<1>7. CASE UNCHANGED vars
  BY <1>7 DEF vars, Queue!vars
<1> QED
  BY <1>1, <1>2, <1>3, <1>4, <1>5, <1>6, <1>7 DEF Next, Queue!Next

\* For any sizes and any byte strings, what is appended or received comes out
\* of retrieveAsString and goes to write() in order, with no byte lost,
\* repeated or altered by makeSpace or by the extrabuf of readFd.
THEOREM BufferIsByteQueue == Spec => ImplementsByteQueue
<1>1. Init => Queue!Init
  <2> SUFFICES ASSUME Init
               PROVE  Queue!Init
    OBVIOUS
  <2>1. WellFormed(buf) /\ Readable(buf) = 0
    BY SizeAssumption, ByteAssumption DEF Init, WellFormed, Readable
  <2>2. Content(buf) \in Seq(Bytes) /\ Len(Content(buf)) = 0
    BY <2>1, ContentType
  <2> QED
    BY <2>2, EmptySeq DEF Init, Queue!Init
<1> QED
  BY <1>1, Invariant, QueueStep, PTL DEF Spec, ImplementsByteQueue, Queue!Spec

=============================================================================
