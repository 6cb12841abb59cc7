----------------------------- MODULE QueueLemmas -----------------------------
(***************************************************************************)
(* Facts about the sequences that stand for the program's queues, stacks and *)
(* streams: what push_back, taking the first, pushing in front and reading   *)
(* two of them as one do to their length, places and elements, and what a    *)
(* scan of one from a place to its end is.  The proofs about the components  *)
(* cite these and never open Append, Tail or \o.                             *)
(***************************************************************************)
EXTENDS SequenceTheorems, WellFoundedInduction, TLAPS

\* An empty queue has a length and no element.
LEMMA QueueEmpty ==
    ASSUME NEW S
    PROVE  <<>> \in Seq(S) /\ Len(<<>>) = 0 /\ Range(<<>>) = {}
BY EmptySeq DEF Range

\* A queue is empty just when its length is zero; what it holds it has somewhere.
LEMMA QueuePlaces ==
    ASSUME NEW S, NEW q \in Seq(S)
    PROVE  /\ Len(q) \in Nat
           /\ DOMAIN q = 1 .. Len(q)
           /\ q = <<>> <=> Len(q) = 0
           /\ \A i \in 1 .. Len(q) : q[i] \in S /\ q[i] \in Range(q)
           /\ \A e : e \in Range(q) <=> \E i \in 1 .. Len(q) : q[i] = e
           /\ Range(q) \subseteq S
<1>1. Len(q) \in Nat /\ DOMAIN q = 1 .. Len(q)
  BY LenProperties
<1>2. q = <<>> <=> Len(q) = 0
  BY EmptySeq
<1>3. \A i \in 1 .. Len(q) : q[i] \in S
  BY ElementOfSeq
<1> QED
  BY <1>1, <1>2, <1>3 DEF Range

\* Two queues read one after the other, as to places ...
LEMMA QueueConcat ==
    ASSUME NEW S, NEW s \in Seq(S), NEW t \in Seq(S)
    PROVE  /\ s \o t \in Seq(S)
           /\ Len(s \o t) = Len(s) + Len(t)
           /\ \A i \in 1 .. Len(s) : (s \o t)[i] = s[i]
           /\ \A i \in 1 .. Len(t) : (s \o t)[Len(s) + i] = t[i]
<1>1. /\ s \o t \in Seq(S)
      /\ Len(s \o t) = Len(s) + Len(t)
      /\ \A i \in 1 .. Len(s) + Len(t) :
            (s \o t)[i] = IF i <= Len(s) THEN s[i] ELSE t[i - Len(s)]
  BY ConcatProperties
<1>2. Len(s) \in Nat /\ Len(t) \in Nat
  BY LenProperties
<1>3. ASSUME NEW i \in 1 .. Len(t)
      PROVE  (s \o t)[Len(s) + i] = t[i]
  <2>1. Len(s) + i \in 1 .. Len(s) + Len(t) /\ ~(Len(s) + i <= Len(s))
    BY <1>2
  <2>2. (Len(s) + i) - Len(s) = i
    BY <1>2
  <2> QED
    BY <1>1, <2>1, <2>2
<1>4. \A i \in 1 .. Len(s) : (s \o t)[i] = s[i]
  BY <1>1, <1>2
<1> QED
  BY <1>1, <1>3, <1>4

\* ... and as to elements.
LEMMA RangeConcat ==
    ASSUME NEW S, NEW s \in Seq(S), NEW t \in Seq(S)
    PROVE  s \o t \in Seq(S) /\ Range(s \o t) = Range(s) \cup Range(t)
BY ConcatProperties, RangeConcatenation

\* push_back, as to places ...
LEMMA QueueAppend ==
    ASSUME NEW S, NEW q \in Seq(S), NEW e \in S
    PROVE  /\ Append(q, e) \in Seq(S)
           /\ Append(q, e) = q \o <<e>>
           /\ Len(Append(q, e)) = Len(q) + 1
           /\ \A i \in 1 .. Len(q) : Append(q, e)[i] = q[i]
           /\ Append(q, e)[Len(q) + 1] = e
BY AppendIsConcat, AppendProperties

\* A queue of one.
LEMMA RangeOne ==
    ASSUME NEW S, NEW e \in S
    PROVE  <<e>> \in Seq(S) /\ Range(<<e>>) = {e} /\ Len(<<e>>) = 1
<1>1. <<e>> \in Seq(S) /\ Len(<<e>>) = 1
  OBVIOUS
<1>2. DOMAIN <<e>> = {1} /\ <<e>>[1] = e
  OBVIOUS
<1> QED
  BY <1>1, <1>2 DEF Range

\* ... and as to elements.
LEMMA RangeAppend ==
    ASSUME NEW S, NEW q \in Seq(S), NEW e \in S
    PROVE  Append(q, e) \in Seq(S) /\ Range(Append(q, e)) = Range(q) \cup {e}
<1>1. Append(q, e) = q \o <<e>> /\ Append(q, e) \in Seq(S)
  BY AppendIsConcat, AppendProperties
<1>2. <<e>> \in Seq(S) /\ Range(<<e>>) = {e}
  BY RangeOne
<1>3. Range(q \o <<e>>) = Range(q) \cup Range(<<e>>)
  <2> DEFINE p == <<e>>
  <2>1. p \in Seq(S)
    BY <1>2
  <2> HIDE DEF p
  <2>2. Range(q \o p) = Range(q) \cup Range(p)
    BY <2>1, RangeConcat
  <2> QED
    BY <2>2 DEF p
<1> QED
  BY <1>1, <1>2, <1>3

\* Taking the first.
LEMMA QueueTail ==
    ASSUME NEW S, NEW q \in Seq(S), q # <<>>
    PROVE  /\ Head(q) \in S /\ Head(q) = q[1] /\ Head(q) \in Range(q)
           /\ Tail(q) \in Seq(S)
           /\ Len(q) >= 1 /\ Len(Tail(q)) = Len(q) - 1
           /\ \A i \in 1 .. Len(q) - 1 : Tail(q)[i] = q[i + 1]
           /\ Range(Tail(q)) \subseteq Range(q)
           /\ q = <<Head(q)>> \o Tail(q)
<1>1. /\ Head(q) \in S /\ Tail(q) \in Seq(S)
      /\ Len(Tail(q)) = Len(q) - 1
      /\ \A i \in 1 .. Len(Tail(q)) : Tail(q)[i] = q[i + 1]
  BY HeadTailProperties
<1>2. Len(q) \in Nat \ {0}
  BY EmptySeq
<1>3. Head(q) = q[1]
  OBVIOUS
<1>4. q = <<Head(q)>> \o Tail(q)
  <2>1. q = SubSeq(q, 1, Len(q))
    BY SubSeqFull
  <2>2. SubSeq(q, 1, Len(q)) = <<q[1]>> \o SubSeq(q, 2, Len(q))
    BY <1>2, SubSeqRecursiveFirst
  <2> QED
    BY <1>3, <2>1, <2>2, TailIsSubSeq
<1> DEFINE h == Head(q)
           r == Tail(q)
           first == <<h>>
<1>5. h \in S /\ r \in Seq(S) /\ q = first \o r
  BY <1>1, <1>4
<1>6. first \in Seq(S) /\ Range(first) = {h}
  BY <1>5 DEF Range
<1> HIDE DEF h, r, first
<1>7. Range(first \o r) = Range(first) \cup Range(r)
  BY <1>5, <1>6, RangeConcatenation
<1>8. h \in Range(q) /\ Range(r) \subseteq Range(q)
  BY <1>5, <1>6, <1>7
<1> QED
  BY <1>1, <1>2, <1>3, <1>4, <1>8 DEF h, r

\* Pushing in front: what a call in progress does to the stack.
LEMMA QueuePush ==
    ASSUME NEW S, NEW q \in Seq(S), NEW e \in S
    PROVE  /\ <<e>> \o q \in Seq(S)
           /\ <<e>> \o q # <<>>
           /\ Head(<<e>> \o q) = e /\ Tail(<<e>> \o q) = q
           /\ Range(<<e>> \o q) = {e} \cup Range(q)
<1>1. <<e>> \in Seq(S) /\ Range(<<e>>) = {e} /\ Len(<<e>>) = 1
  BY RangeOne
<1>2. Range(<<e>> \o q) = Range(<<e>>) \cup Range(q)
  <2> DEFINE p == <<e>>
  <2>1. p \in Seq(S)
    BY <1>1
  <2> HIDE DEF p
  <2>2. Range(p \o q) = Range(p) \cup Range(q)
    BY <2>1, RangeConcat
  <2> QED
    BY <2>2 DEF p
<1>3. <<e>> \o q \in Seq(S) /\ Len(<<e>> \o q) = 1 + Len(q)
  BY <1>1, ConcatProperties
<1>4. Head(<<e>> \o q) = e /\ Tail(<<e>> \o q) = q /\ <<e>> \o q # <<>>
  OBVIOUS
<1> QED
  BY <1>1, <1>2, <1>3, <1>4

\* Pushing two at once.
LEMMA QueuePushTwo ==
    ASSUME NEW S, NEW q \in Seq(S), NEW d \in S, NEW e \in S
    PROVE  /\ <<d, e>> \o q \in Seq(S)
           /\ Range(<<d, e>> \o q) = {d, e} \cup Range(q)
<1> DEFINE two == <<d, e>>
<1>1. two \in Seq(S) /\ Range(two) = {d, e}
  BY DEF Range
<1> HIDE DEF two
<1>2. two \o q \in Seq(S) /\ Range(two \o q) = Range(two) \cup Range(q)
  BY <1>1, RangeConcatenation, ConcatProperties
<1> QED
  BY <1>1, <1>2 DEF two

\* Part of a queue.
LEMMA QueuePart ==
    ASSUME NEW S, NEW q \in Seq(S),
           NEW m \in 1 .. Len(q) + 1, NEW n \in m - 1 .. Len(q)
    PROVE  /\ SubSeq(q, m, n) \in Seq(S)
           /\ Len(SubSeq(q, m, n)) = n - m + 1
           /\ \A i \in 1 .. n - m + 1 : SubSeq(q, m, n)[i] = q[m + i - 1]
<1>1. Len(q) \in Nat
  BY LenProperties
<1>2. \A i \in m .. n : q[i] \in S
  BY <1>1, ElementOfSeq
<1>3. m \in Int /\ n \in Int
  BY <1>1
<1>4. /\ SubSeq(q, m, n) \in Seq(S)
      /\ Len(SubSeq(q, m, n)) = IF m <= n THEN n - m + 1 ELSE 0
      /\ \A i \in 1 .. n - m + 1 : SubSeq(q, m, n)[i] = q[m + i - 1]
  BY <1>2, <1>3, SubSeqProperties
<1> QED
  BY <1>1, <1>3, <1>4

\* A set of natural numbers that is not empty has a least element.
LEMMA LeastOfNaturals ==
    ASSUME NEW S \in SUBSET Nat, S # {}
    PROVE  \E n \in S : \A k \in S : n <= k
<1>1. IsWellFoundedOn(OpToRel(<, Nat), Nat)
  BY NatLessThanWellFounded
<1>2. PICK n \in S : \A k \in S : ~(<<k, n>> \in OpToRel(<, Nat))
  BY <1>1, WFMin
<1>3. \A k \in S : ~(k < n)
  BY <1>2 DEF OpToRel
<1> QED
  BY <1>3

\* What a scan of a stream from each place to its end makes of a function that
\* says it for the places behind: the item there, and on from the next place.
Scan(n, more, item, next, base, g) ==
    [i \in 1 .. n |-> IF i \in more THEN item[i] \o g[next[i]] ELSE base[i]]

\* A function that is defined by recursion on greater numbers up to a last one
\* exists.
LEMMA ScanExists ==
    ASSUME NEW n \in Nat, NEW more, NEW item, NEW base, NEW next,
           \A i \in 1 .. n : i \in more => next[i] \in i + 1 .. n
    PROVE  \E g : g = Scan(n, more, item, next, base, g)
<1> DEFINE Step(g, i) == IF i \in more THEN item[i] \o g[next[i]] ELSE base[i]
           Partial(g, k) == /\ DOMAIN g = k .. n
                            /\ g = [i \in k .. n |-> g[i]]
                            /\ \A i \in k .. n : g[i] = Step(g, i)
           Open == {m \in 0 .. n : ~\E g : Partial(g, n + 1 - m)}
<1>1. \E g : Partial(g, n + 1)
  <2> DEFINE g == [i \in n + 1 .. n |-> <<>>]
  <2>1. Partial(g, n + 1)
    <3>1. ~\E i \in n + 1 .. n : TRUE
      OBVIOUS
    <3> QED
      BY <3>1
  <2> QED
    BY <2>1
<1>2. ASSUME NEW k \in 1 .. n, NEW g, Partial(g, k + 1)
      PROVE  \E h : Partial(h, k)
  <2> DEFINE h == [i \in k .. n |-> IF i = k THEN Step(g, k) ELSE g[i]]
  <2>1. DOMAIN h = k .. n /\ h = [i \in k .. n |-> h[i]]
    OBVIOUS
  <2>2. \A i \in k .. n : h[i] = IF i = k THEN Step(g, k) ELSE g[i]
    OBVIOUS
  <2>3. \A i \in k + 1 .. n : g[i] = Step(g, i)
    BY <1>2
  <2> HIDE DEF h
  <2>4. ASSUME NEW i \in k .. n
        PROVE  h[i] = Step(h, i)
    <3>1. Step(h, i) = Step(g, i)
      <4>1. CASE i \in more
        <5>1. next[i] \in i + 1 .. n /\ i \in 1 .. n
          BY <4>1
        <5>2. next[i] \in k .. n /\ next[i] # k
          BY <5>1
        <5>3. h[next[i]] = g[next[i]]
          BY <2>2, <5>2
        <5> QED
          BY <4>1, <5>3
      <4>2. CASE i \notin more
        BY <4>2
      <4> QED
        BY <4>1, <4>2
    <3>2. CASE i = k
      BY <2>2, <3>1, <3>2
    <3>3. CASE i # k
      <4>1. i \in k + 1 .. n
        BY <3>3
      <4> QED
        BY <2>2, <2>3, <3>1, <3>3, <4>1
    <3> QED
      BY <3>2, <3>3
  <2> QED
    BY <2>1, <2>4
<1> HIDE DEF Partial
<1>3. Open = {}
  <2> SUFFICES ASSUME Open # {} PROVE FALSE
    OBVIOUS
  <2>1. PICK m \in Open : \A k \in Open : m <= k
    <3>1. Open \in SUBSET Nat
      OBVIOUS
    <3> QED
      BY <3>1, LeastOfNaturals
  <2>2. m \in 0 .. n /\ ~\E g : Partial(g, n + 1 - m)
    BY <2>1
  <2>3. m # 0
    <3>1. n + 1 - 0 = n + 1
      OBVIOUS
    <3> QED
      BY <1>1, <2>2, <3>1
  <2>4. m - 1 \in 0 .. n /\ m - 1 \notin Open
    BY <2>1, <2>2, <2>3
  <2>5. PICK g : Partial(g, n + 1 - (m - 1))
    BY <2>4
  <2>6. /\ n + 1 - (m - 1) = (n + 1 - m) + 1
        /\ n + 1 - m \in 1 .. n
    BY <2>2, <2>3
  <2> QED
    BY <1>2, <2>2, <2>5, <2>6
<1>4. PICK g : Partial(g, 1)
  <2>1. n \in 0 .. n /\ n + 1 - n = 1
    OBVIOUS
  <2> QED
    BY <1>3, <2>1
<1>5. g = [i \in 1 .. n |-> Step(g, i)]
  BY <1>4 DEF Partial
<1> QED
  BY <1>5 DEF Scan

\* Where every part of a scan is of the elements of a set, so is all of it.
LEMMA ScanType ==
    ASSUME NEW n \in Nat, NEW more, NEW item, NEW base, NEW next, NEW S,
           \A i \in 1 .. n : i \in more => next[i] \in i + 1 .. n,
           \A i \in 1 .. n : IF i \in more THEN item[i] \in Seq(S)
                                           ELSE base[i] \in Seq(S),
           NEW g,
           g = Scan(n, more, item, next, base, g)
    PROVE  \A i \in 1 .. n : g[i] \in Seq(S)
<1> DEFINE Bad == {m \in 0 .. n : n - m \in 1 .. n /\ g[n - m] \notin Seq(S)}
<1>1. ASSUME NEW i \in 1 .. n
      PROVE  g[i] = IF i \in more THEN item[i] \o g[next[i]] ELSE base[i]
  BY DEF Scan
<1>2. Bad = {}
  <2> SUFFICES ASSUME Bad # {} PROVE FALSE
    OBVIOUS
  <2>1. PICK m \in Bad : \A k \in Bad : m <= k
    <3>1. Bad \in SUBSET Nat
      OBVIOUS
    <3> QED
      BY <3>1, LeastOfNaturals
  <2>2. PICK i \in 1 .. n : i = n - m
    BY <2>1
  <2>3. g[i] \notin Seq(S)
    BY <2>1, <2>2
  <2>4. i \in more
    BY <1>1, <2>3
  <2>5. next[i] \in i + 1 .. n /\ item[i] \in Seq(S)
    BY <2>4
  <2>6. g[next[i]] \in Seq(S)
    <3>1. /\ n - next[i] \in 0 .. n /\ n - next[i] < m
          /\ n - (n - next[i]) = next[i] /\ next[i] \in 1 .. n
      BY <2>1, <2>2, <2>5
    <3>2. n - next[i] \notin Bad
      BY <2>1, <3>1
    <3> QED
      BY <3>1, <3>2
  <2>7. item[i] \o g[next[i]] \in Seq(S)
    BY <2>5, <2>6, ConcatProperties
  <2> QED
    BY <1>1, <2>3, <2>4, <2>7
<1>3. ASSUME NEW i \in 1 .. n
      PROVE  g[i] \in Seq(S)
  <2>1. n - i \in 0 .. n /\ n - (n - i) = i
    OBVIOUS
  <2>2. n - i \notin Bad
    BY <1>2
  <2> QED
    BY <2>1, <2>2
<1> QED
  BY <1>3

=============================================================================
