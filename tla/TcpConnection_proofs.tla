------------------------- MODULE TcpConnection_proofs ------------------------
(***************************************************************************)
(* Theorems about TcpConnection, for any number of bytes and messages.       *)
(***************************************************************************)
EXTENDS TcpConnection, QueueLemmas

-----------------------------------------------------------------------------
(* The bytes of a send *)

\* What send(n) appends are the next n bytes of the program's stream.
LEMMA BytesNext ==
    ASSUME accepted \in Nat, NEW n \in Nat, accepted + n <= MaxBytes
    PROVE  /\ Bytes(n) \in Seq(1 .. MaxBytes)
           /\ Len(Bytes(n)) = n
           /\ \A i \in 1 .. n : Bytes(n)[i] = accepted + i
<1>1. MaxBytes \in Nat
  BY BoundsAssumption
<1>2. \A i \in 1 .. n : accepted + i \in 1 .. MaxBytes
  BY <1>1
<1>3. Bytes(n) \in [1 .. n -> 1 .. MaxBytes]
  BY <1>2 DEF Bytes
<1>4. Bytes(n) \in Seq(1 .. MaxBytes)
  BY <1>3, SeqDef
<1>5. DOMAIN Bytes(n) = 1 .. n
  BY DEF Bytes
<1>6. Len(Bytes(n)) = n
  BY <1>4, <1>5, LenProperties
<1> QED
  BY <1>4, <1>6 DEF Bytes

\* The four ways sendInLoop disposes of the bytes d: all to the socket, some,
\* none because it failed, none because others are waiting.
LEMMA SendCases ==
    ASSUME NEW n \in 1 .. 2, Send(n), TypeOK
    PROVE  LET d == Bytes(n)
           IN  \/ /\ ~Writing /\ outBuf = <<>>
                  /\ wire' = wire \o d
                  /\ stack' = <<"user">> \o stack
                  /\ UNCHANGED <<outBuf, channel>>
               \/ /\ ~Writing /\ outBuf = <<>>
                  /\ \E k \in 0 .. n :
                        /\ k < n
                        /\ wire' = wire \o SubSeq(d, 1, k)
                        /\ outBuf' = outBuf \o SubSeq(d, k + 1, n)
                  /\ Update(events \cup {"write"})
                  /\ UNCHANGED stack
               \/ /\ ~Writing /\ outBuf = <<>>
                  /\ outBuf' = outBuf \o d
                  /\ Update(events \cup {"write"})
                  /\ UNCHANGED <<wire, stack>>
               \/ /\ Writing \/ outBuf # <<>>
                  /\ outBuf' = outBuf \o d
                  /\ UNCHANGED <<wire, channel, stack>>
<1> DEFINE d == Bytes(n)
<1>1. accepted \in Nat /\ accepted + n <= MaxBytes /\ n \in Nat
  BY BoundsAssumption DEF Send, TypeOK
<1>2. Len(d) = n
  BY <1>1, BytesNext
<1>3. SendInLoop(d)
  BY DEF Send
<1> HIDE DEF d
<1>4. CASE WriteAll(d) /\ ~Writing /\ outBuf = <<>>
  BY <1>4 DEF WriteAll, d
<1>5. CASE WritePart(d) /\ ~Writing /\ outBuf = <<>>
  <2>1. PICK k \in 0 .. n - 1 :
            /\ wire' = wire \o SubSeq(d, 1, k)
            /\ outBuf' = outBuf \o SubSeq(d, k + 1, n)
    BY <1>2, <1>5 DEF WritePart
  <2>2. k \in 0 .. n /\ k < n
    BY <1>1
  <2>3. Update(events \cup {"write"}) /\ UNCHANGED stack
    BY <1>5 DEF WritePart
  <2> QED
    BY <1>5, <2>1, <2>2, <2>3 DEF d
<1>6. CASE WriteFails(d) /\ ~Writing /\ outBuf = <<>>
  BY <1>6 DEF WriteFails, d
<1>7. CASE Postpone(d) /\ (Writing \/ outBuf # <<>>)
  BY <1>7 DEF Postpone, d
<1> QED
  BY <1>3, <1>4, <1>5, <1>6, <1>7 DEF SendInLoop

-----------------------------------------------------------------------------
(* The stream of bytes *)

\* Which steps leave the three places of a byte alone.
LEMMA StreamUnchanged ==
    ASSUME [Next]_vars, \A n \in 1 .. 2 : ~Send(n), ~HandleWrite
    PROVE  UNCHANGED <<wire, outBuf, accepted>>
BY DEF Next, Program, LoopThread, Others, vars, kernel, channel, history, owning,
       queues, Lost, SendRaisesSigpipe, Shutdown, ForceClose, HandleClose,
       UserReturns, CloseCallback, CloseCallbackDangles, AfterWrite, AfterDown,
       UsedAfterFree, Poll, OtherCallbacks, NewConnection, HandleError,
       HandleReadData, HandleReadClose, HandleWriteRaisesSigpipe,
       AssertionFails, HandleEventReturns, SwapFunctors, RunEstablished,
       RunDestroyed, NextIteration, OwnerDestroyed, OwnerRemoves, OwnerDangles,
       PeerSends, PeerCloses, PeerResets

\* What StreamWhole says of its three places: n bytes in all, those of w first.
IsStream(w, b, n) ==
    /\ n = Len(w) + Len(b)
    /\ \A i \in 1 .. Len(w) : w[i] = i
    /\ \A i \in 1 .. Len(b) : b[i] = Len(w) + i

\* Bytes taken from the front of what waits join the wire.
LEMMA StreamMoves ==
    ASSUME NEW w \in Seq(Nat), NEW b \in Seq(Nat), NEW m \in Nat,
           IsStream(w, b, m),
           NEW n \in 0 .. Len(b)
    PROVE  IsStream(w \o SubSeq(b, 1, n), SubSeq(b, n + 1, Len(b)), m)
<1> DEFINE p == SubSeq(b, 1, n)
           c == SubSeq(b, n + 1, Len(b))
<1>1. /\ Len(w) \in Nat /\ Len(b) \in Nat /\ n \in Nat
      /\ m = Len(w) + Len(b)
      /\ \A i \in 1 .. Len(w) : w[i] = i
      /\ \A i \in 1 .. Len(b) : b[i] = Len(w) + i
  BY LenProperties DEF IsStream
<1>2. /\ p \in Seq(Nat) /\ Len(p) = n
      /\ \A i \in 1 .. n : p[i] = b[i]
  <2>1. 1 \in 1 .. Len(b) + 1 /\ n \in 1 - 1 .. Len(b)
    BY <1>1
  <2>2. /\ p \in Seq(Nat) /\ Len(p) = n - 1 + 1
        /\ \A i \in 1 .. n - 1 + 1 : p[i] = b[1 + i - 1]
    BY <2>1, QueuePart
  <2>3. n - 1 + 1 = n /\ \A i \in 1 .. n : 1 + i - 1 = i
    BY <1>1
  <2> QED
    BY <2>2, <2>3
<1>3. /\ Len(c) = Len(b) - n
      /\ \A i \in 1 .. Len(b) - n : c[i] = b[n + i]
  <2>1. n + 1 \in 1 .. Len(b) + 1 /\ Len(b) \in (n + 1) - 1 .. Len(b)
    BY <1>1
  <2>2. /\ Len(c) = Len(b) - (n + 1) + 1
        /\ \A i \in 1 .. Len(b) - (n + 1) + 1 : c[i] = b[(n + 1) + i - 1]
    BY <2>1, QueuePart
  <2>3. /\ Len(b) - (n + 1) + 1 = Len(b) - n
        /\ \A i \in 1 .. Len(b) - n : (n + 1) + i - 1 = n + i
    BY <1>1
  <2> QED
    BY <2>2, <2>3
<1> HIDE DEF p, c
<1>p. p \in Seq(Nat)
  BY <1>2
<1> DEFINE v == w \o p
<1>4. /\ Len(v) = Len(w) + Len(p)
      /\ \A i \in 1 .. Len(w) : v[i] = w[i]
      /\ \A i \in 1 .. Len(p) : v[Len(w) + i] = p[i]
  BY <1>p, QueueConcat
<1> HIDE DEF v
<1>5. ASSUME NEW i \in 1 .. Len(v)
      PROVE  v[i] = i
  <2>1. CASE i <= Len(w)
    <3>1. i \in 1 .. Len(w)
      BY <1>1, <2>1
    <3> QED
      BY <1>1, <1>4, <3>1
  <2>2. CASE i > Len(w)
    <3>1. PICK j \in 1 .. n : Len(w) + j = i
      <4>1. i - Len(w) \in 1 .. n /\ Len(w) + (i - Len(w)) = i
        BY <1>1, <1>2, <1>4, <2>2
      <4> QED
        BY <4>1
    <3>2. j \in 1 .. Len(b)
      BY <1>1
    <3>3. v[i] = p[j]
      BY <1>2, <1>4, <3>1
    <3> QED
      BY <1>1, <1>2, <3>1, <3>2, <3>3
  <2> QED
    BY <1>1, <1>4, <1>2, <2>1, <2>2
<1>6. ASSUME NEW i \in 1 .. Len(c)
      PROVE  c[i] = Len(v) + i
  <2>1. n + i \in 1 .. Len(b) /\ i \in 1 .. Len(b) - n
    BY <1>1, <1>3
  <2>2. c[i] = Len(w) + (n + i)
    BY <1>1, <1>3, <2>1
  <2>3. Len(v) = Len(w) + n
    BY <1>2, <1>4
  <2>4. Len(w) \in Nat /\ n \in Nat /\ i \in Nat
    BY <1>1, <2>1
  <2> QED
    BY <2>2, <2>3, <2>4
<1>7. m = Len(v) + Len(c)
  <2>1. Len(w) \in Nat /\ Len(b) \in Nat /\ n \in Nat /\ m = Len(w) + Len(b)
    BY <1>1
  <2>2. Len(v) = Len(w) + n /\ Len(c) = Len(b) - n
    BY <1>2, <1>3, <1>4
  <2> QED
    BY <2>1, <2>2
<1>8. IsStream(v, c, m)
  BY <1>5, <1>6, <1>7 DEF IsStream
<1> QED
  BY <1>8 DEF v, c, p

\* The next bytes of the program may be put behind those that wait.
LEMMA StreamAppends ==
    ASSUME NEW w \in Seq(Nat), NEW b \in Seq(Nat), NEW m \in Nat,
           IsStream(w, b, m),
           NEW d \in Seq(Nat), \A i \in 1 .. Len(d) : d[i] = m + i
    PROVE  IsStream(w, b \o d, m + Len(d))
<1> DEFINE c == b \o d
<1>1. /\ Len(w) \in Nat /\ Len(b) \in Nat /\ Len(d) \in Nat
      /\ m = Len(w) + Len(b)
      /\ \A i \in 1 .. Len(w) : w[i] = i
      /\ \A i \in 1 .. Len(b) : b[i] = Len(w) + i
  BY LenProperties DEF IsStream
<1>2. /\ Len(c) = Len(b) + Len(d)
      /\ \A i \in 1 .. Len(b) : c[i] = b[i]
      /\ \A i \in 1 .. Len(d) : c[Len(b) + i] = d[i]
  BY QueueConcat
<1> HIDE DEF c
<1>3. ASSUME NEW i \in 1 .. Len(c)
      PROVE  c[i] = Len(w) + i
  <2>1. CASE i <= Len(b)
    BY <1>1, <1>2, <2>1
  <2>2. CASE i > Len(b)
    <3>1. PICK j \in 1 .. Len(d) : Len(b) + j = i
      <4>1. i - Len(b) \in 1 .. Len(d) /\ Len(b) + (i - Len(b)) = i
        BY <1>1, <1>2, <2>2
      <4> QED
        BY <4>1
    <3>2. c[i] = m + j
      BY <1>2, <3>1
    <3>3. PICK x \in Nat, y \in Nat : x = Len(w) /\ y = Len(b) /\ m = x + y
      BY <1>1
    <3>4. c[i] = (x + y) + j /\ i = y + j /\ j \in Nat
      BY <3>1, <3>2, <3>3
    <3>5. c[i] = x + i
      BY <3>4
    <3> QED
      BY <3>3, <3>5
  <2> QED
    BY <1>1, <1>2, <2>1, <2>2
<1>4. m + Len(d) = Len(w) + Len(c)
  <2>1. /\ Len(w) \in Nat /\ Len(b) \in Nat /\ Len(d) \in Nat
        /\ m = Len(w) + Len(b) /\ Len(c) = Len(b) + Len(d)
    BY <1>1, <1>2
  <2> QED
    BY <2>1
<1>5. IsStream(w, c, m + Len(d))
  BY <1>1, <1>3, <1>4 DEF IsStream
<1> QED
  BY <1>5 DEF c

\* The bytes on the wire and those waiting stay the program's stream, whatever
\* part of them each write takes.
LEMMA StreamStep ==
    TypeOK /\ StreamWhole /\ [Next]_vars => StreamWhole'
<1> SUFFICES ASSUME TypeOK, StreamWhole, [Next]_vars
             PROVE  IsStream(wire', outBuf', accepted')
  BY DEF StreamWhole, IsStream
<1>a. wire \in Seq(Nat) /\ outBuf \in Seq(Nat) /\ accepted \in Nat
  <2>1. 1 .. MaxBytes \subseteq Nat /\ 0 .. MaxBytes \subseteq Nat
    BY BoundsAssumption
  <2> QED
    BY <2>1, SeqMonotonic DEF TypeOK
<1>b. IsStream(wire, outBuf, accepted)
  BY DEF StreamWhole, IsStream
<1>1. ASSUME NEW n \in 1 .. 2, Send(n)
      PROVE  IsStream(wire', outBuf', accepted')
  <2> DEFINE d == Bytes(n)
             next == accepted + n
  <2>1. accepted' = next /\ next <= MaxBytes /\ n \in Nat
    BY <1>1 DEF Send
  <2>2. /\ d \in Seq(Nat) /\ Len(d) = n
        /\ \A i \in 1 .. Len(d) : d[i] = accepted + i
    <3>1. 1 .. MaxBytes \subseteq Nat
      BY BoundsAssumption
    <3> QED
      BY <1>a, <2>1, <3>1, BytesNext, SeqMonotonic
  <2>3. \/ outBuf = <<>> /\ wire' = wire \o d /\ outBuf' = outBuf
        \/ /\ outBuf = <<>>
           /\ \E k \in 0 .. n : /\ wire' = wire \o SubSeq(d, 1, k)
                                /\ outBuf' = outBuf \o SubSeq(d, k + 1, n)
        \/ outBuf' = outBuf \o d /\ wire' = wire
    BY <1>1, SendCases
  <2> HIDE DEF d
  <2>4. next \in Nat /\ next = accepted + Len(d)
    BY <1>a, <2>1, <2>2
  <2>5. IsStream(wire, outBuf \o d, next)
    BY <1>a, <1>b, <2>2, <2>4, StreamAppends
  <2> HIDE DEF next
  <2>6. CASE outBuf' = outBuf \o d /\ wire' = wire
    BY <2>1, <2>5, <2>6
  <2>7. ASSUME outBuf = <<>>, NEW k \in 0 .. n
        PROVE  IsStream(wire \o SubSeq(d, 1, k),
                        outBuf \o SubSeq(d, k + 1, n), next)
    <3>1. outBuf \o d = d
      BY <2>2, <2>7, ConcatEmptySeq
    <3>2. IsStream(wire \o SubSeq(d, 1, k), SubSeq(d, k + 1, n), next)
      BY <1>a, <2>2, <2>4, <2>5, <3>1, StreamMoves
    <3>3. SubSeq(d, k + 1, n) \in Seq(Nat)
      <4>1. k + 1 \in 1 .. Len(d) + 1 /\ n \in (k + 1) - 1 .. Len(d)
        BY <2>1, <2>2
      <4> QED
        BY <2>2, <4>1, QueuePart
    <3>4. outBuf \o SubSeq(d, k + 1, n) = SubSeq(d, k + 1, n)
      BY <2>7, <3>3, ConcatEmptySeq
    <3> QED
      BY <3>2, <3>4
  <2>8. CASE outBuf = <<>> /\ wire' = wire \o d /\ outBuf' = outBuf
    <3>1. n \in 0 .. n
      BY <2>1
    <3>2. SubSeq(d, 1, n) = d
      BY <2>2, SubSeqFull
    <3>3. outBuf \o SubSeq(d, n + 1, n) = outBuf
      <4>1. SubSeq(d, n + 1, n) = <<>>
        BY <2>1, <2>2, SubSeqEmpty
      <4> QED
        BY <1>a, <4>1, ConcatEmptySeq
    <3> QED
      BY <2>1, <2>7, <2>8, <3>1, <3>2, <3>3
  <2> QED
    BY <2>1, <2>3, <2>6, <2>7, <2>8
<1>2. ASSUME HandleWrite
      PROVE  IsStream(wire', outBuf', accepted')
  <2>1. accepted' = accepted
    BY <1>2 DEF HandleWrite, history
  <2>2. CASE UNCHANGED <<wire, outBuf>>
    BY <1>b, <2>1, <2>2
  <2>3. ASSUME NEW n \in 1 .. Len(outBuf)
        PROVE  IsStream(wire \o SubSeq(outBuf, 1, n),
                        SubSeq(outBuf, n + 1, Len(outBuf)), accepted)
    <3>1. n \in 0 .. Len(outBuf)
      BY <1>a, LenProperties
    <3> QED
      BY <1>a, <1>b, <3>1, StreamMoves
  <2>4. \/ UNCHANGED <<wire, outBuf>>
        \/ \E n \in 1 .. Len(outBuf) :
              /\ wire' = wire \o SubSeq(outBuf, 1, n)
              /\ outBuf' = SubSeq(outBuf, n + 1, Len(outBuf))
    BY <1>2 DEF HandleWrite
  <2> QED
    BY <2>1, <2>2, <2>3, <2>4
<1>3. CASE ~HandleWrite /\ \A n \in 1 .. 2 : ~Send(n)
  BY <1>3, <1>b, StreamUnchanged
<1> QED
  BY <1>1, <1>2, <1>3


-----------------------------------------------------------------------------
(* Interest in events *)

\* Which steps leave the connection's state and its channel alone.
LEMMA StateUnchanged ==
    ASSUME [Next]_vars, \A n \in 1 .. 2 : ~Send(n), ~Shutdown, ~ForceClose,
           ~HandleReadClose, ~AfterDown, ~NewConnection, ~RunEstablished,
           ~RunDestroyed, ~HandleWrite, ~OwnerDestroyed
    PROVE  UNCHANGED <<state, events, registered, outBuf, gone, accepted,
                       ups, downs>>
BY DEF Next, Program, LoopThread, Others, vars, kernel, channel, history, owning,
       queues, Lost, SendRaisesSigpipe, UserReturns, CloseCallback,
       CloseCallbackDangles, AfterWrite, UsedAfterFree, Poll, OtherCallbacks,
       HandleError, HandleReadData, HandleWriteRaisesSigpipe, AssertionFails,
       HandleEventReturns, SwapFunctors, NextIteration, OwnerRemoves,
       OwnerDangles, PeerSends, PeerCloses, PeerResets

\* After a send the channel wants to write exactly when bytes wait.
LEMMA SendWants ==
    ASSUME NEW n \in 1 .. 2, Send(n), TypeOK, ReadsWhileOpen, InterestExact
    PROVE  /\ state = "kConnected" /\ state' = state /\ gone' = gone
           /\ "read" \in events'
           /\ "write" \in events' <=> outBuf' # <<>>
           /\ registered => registered'
<1> DEFINE d == Bytes(n)
<1>1. /\ state = "kConnected" /\ state' = state /\ gone' = gone
      /\ accepted + n <= MaxBytes
  BY DEF Send, owning
<1>2. "read" \in events /\ ("write" \in events <=> outBuf # <<>>)
  BY <1>1 DEF ReadsWhileOpen, InterestExact, Open, Writing
<1>3. n \in Nat /\ accepted \in Nat /\ outBuf \in Seq(1 .. MaxBytes)
  BY BoundsAssumption DEF TypeOK
<1>4. d \in Seq(1 .. MaxBytes) /\ Len(d) = n
  BY <1>1, <1>3, BytesNext
<1>5. ASSUME NEW r \in Seq(1 .. MaxBytes), Len(r) # 0
      PROVE  outBuf \o r # <<>>
  <2>1. Len(outBuf \o r) = Len(outBuf) + Len(r) /\ outBuf \o r \in Seq(1 .. MaxBytes)
    BY <1>3, <1>5, QueueConcat
  <2>2. Len(outBuf) \in Nat /\ Len(r) \in Nat
    BY <1>3, <1>5, LenProperties
  <2>3. Len(outBuf \o r) # 0
    BY <1>5, <2>1, <2>2
  <2> QED
    BY <2>1, <2>3, EmptySeq
<1>6. \/ /\ ~Writing /\ outBuf = <<>>
         /\ UNCHANGED <<outBuf, channel>>
      \/ /\ ~Writing /\ outBuf = <<>>
         /\ \E k \in 0 .. n : k < n /\ outBuf' = outBuf \o SubSeq(d, k + 1, n)
         /\ Update(events \cup {"write"})
      \/ /\ ~Writing /\ outBuf = <<>>
         /\ outBuf' = outBuf \o d
         /\ Update(events \cup {"write"})
      \/ /\ Writing \/ outBuf # <<>>
         /\ outBuf' = outBuf \o d
         /\ UNCHANGED channel
  BY SendCases
<1>7. outBuf \o d # <<>>
  BY <1>3, <1>4, <1>5
<1>8. ASSUME NEW k \in 0 .. n, k < n
      PROVE  outBuf \o SubSeq(d, k + 1, n) # <<>>
  <2>1. k + 1 \in 1 .. Len(d) + 1 /\ n \in (k + 1) - 1 .. Len(d)
    BY <1>3, <1>4
  <2>2. /\ SubSeq(d, k + 1, n) \in Seq(1 .. MaxBytes)
        /\ Len(SubSeq(d, k + 1, n)) = n - (k + 1) + 1
    BY <1>4, <2>1, QueuePart
  <2>3. n - (k + 1) + 1 # 0
    BY <1>3, <1>8
  <2> QED
    BY <1>5, <2>2, <2>3
<1> HIDE DEF d
<1>9. \/ /\ ~Writing /\ outBuf = <<>>
         /\ UNCHANGED <<outBuf, channel>>
      \/ outBuf' # <<>> /\ Update(events \cup {"write"})
      \/ /\ Writing \/ outBuf # <<>>
         /\ outBuf' # <<>>
         /\ UNCHANGED channel
  BY <1>6, <1>7, <1>8
<1>10. CASE outBuf' # <<>> /\ Update(events \cup {"write"})
  <2>1. events' = events \cup {"write"} /\ registered'
    BY <1>10 DEF Update
  <2> QED
    BY <1>1, <1>2, <1>10, <2>1
<1>11. CASE UNCHANGED channel
  BY <1>1, <1>2, <1>9, <1>11 DEF Update, Writing, channel
<1> QED
  BY <1>9, <1>10, <1>11

\* The connection's last callback is about a connection that is down.
LEMMA DownChannel ==
    ASSUME HandleClose \/ (state = "kConnected" /\ ConnectDestroyed)
    PROVE  state' = "kDisconnected" /\ events' = {} /\ registered' = ~registered
BY DEF HandleClose, ConnectDestroyed, Update

\* Interest in events follows the connection's state and its bytes.
LEMMA InterestStep ==
    /\ TypeOK /\ StreamWhole /\ ReadsWhileOpen /\ ToldWithState /\ EndsWhenDown
    /\ EstablishedOnce /\ InterestExact /\ [Next]_vars
    => ReadsWhileOpen' /\ InterestExact'
<1> SUFFICES ASSUME TypeOK, StreamWhole, ReadsWhileOpen, ToldWithState,
                    EndsWhenDown, EstablishedOnce, InterestExact, [Next]_vars
             PROVE  ReadsWhileOpen' /\ InterestExact'
  OBVIOUS
<1> USE DEF ReadsWhileOpen, InterestExact, Open, Writing
<1>a. ASSUME state = "kConnecting"
      PROVE  outBuf = <<>>
  <2>1. accepted = 0 /\ outBuf \in Seq(1 .. MaxBytes) /\ wire \in Seq(1 .. MaxBytes)
    BY <1>a DEF ToldWithState, TypeOK
  <2>2. Len(outBuf) \in Nat /\ Len(wire) \in Nat
    BY <2>1, LenProperties
  <2>3. Len(wire) + Len(outBuf) = 0
    BY <2>1 DEF StreamWhole
  <2>4. Len(outBuf) = 0
    BY <2>2, <2>3
  <2> QED
    BY <2>1, <2>4, EmptySeq
<1>b. events \subseteq {"read", "write"} /\ registered \in BOOLEAN /\ gone \in BOOLEAN
  BY DEF TypeOK
<1>1. ASSUME NEW n \in 1 .. 2, Send(n)
      PROVE  ReadsWhileOpen' /\ InterestExact'
  BY <1>1, <1>b, SendWants
<1>2. CASE Shutdown
  BY <1>2 DEF Shutdown, channel, owning
<1>3. CASE ForceClose \/ HandleReadClose
  <2>1. HandleClose /\ Open /\ gone' = gone
    BY <1>3 DEF ForceClose, HandleReadClose, HandleClose, owning
  <2> QED
    BY <1>b, <2>1, DownChannel
<1>4. CASE AfterDown
  <2>1. "destroying" \in Range(stack)
    <3>1. stack \in Seq(Frames) /\ stack # <<>> /\ Head(stack) = "destroying"
      BY <1>4 DEF AfterDown, Top, TypeOK
    <3> QED
      BY <3>1, QueueTail
  <2>2. gone /\ state = "kDisconnected"
    BY <2>1 DEF EndsWhenDown
  <2>3. UNCHANGED <<state, events, gone>>
    BY <1>4 DEF AfterDown, RemoveChannel, owning
  <2> QED
    BY <2>2, <2>3
<1>5. CASE NewConnection \/ RunEstablished
  <2>1. ConnectEstablished /\ UNCHANGED <<outBuf, gone>>
    BY <1>5 DEF NewConnection, RunEstablished, owning
  <2>2. state = "kConnecting"
    <3>1. CASE RunEstablished
      <4>1. running # <<>> /\ Head(running) = "established"
        BY <3>1 DEF RunEstablished
      <4>2. running \in Seq({"established", "destroyed"})
        BY DEF TypeOK
      <4>3. "established" \in Range(running)
        BY <4>1, <4>2, QueueTail
      <4> QED
        BY <4>3 DEF EstablishedOnce
    <3> QED
      BY <1>5, <3>1 DEF NewConnection
  <2>3. events = {} /\ outBuf = <<>>
    BY <1>a, <2>2
  <2>4. state' = "kConnected" /\ events' = {"read"} /\ registered'
    BY <2>1, <2>3 DEF ConnectEstablished, Update
  <2> QED
    BY <2>1, <2>3, <2>4
<1>6. CASE RunDestroyed
  <2>1. ConnectDestroyed /\ UNCHANGED <<outBuf, gone>>
    BY <1>6 DEF RunDestroyed, owning
  <2>2. gone \/ state = "kDisconnected"
    <3>1. running # <<>> /\ Head(running) = "destroyed"
      BY <1>6 DEF RunDestroyed
    <3>2. running \in Seq({"established", "destroyed"})
      BY DEF TypeOK
    <3>3. "destroyed" \in Range(running)
      BY <3>1, <3>2, QueueTail
    <3> QED
      BY <3>3 DEF EndsWhenDown
  <2>3. CASE state = "kConnected"
    BY <1>b, <2>1, <2>2, <2>3, DownChannel
  <2>4. CASE state # "kConnected"
    <3>1. UNCHANGED <<state, events>> /\ registered' = FALSE
      BY <2>1, <2>4 DEF ConnectDestroyed, RemoveChannel
    <3> QED
      BY <2>1, <2>2, <3>1
  <2> QED
    BY <2>3, <2>4
<1>7. CASE HandleWrite
  <2>1. UNCHANGED <<state, gone>>
    BY <1>7 DEF HandleWrite, owning
  <2>2. \/ UNCHANGED <<events, registered, outBuf>>
        \/ /\ "write" \in events
           /\ outBuf' = <<>>
           /\ events' = events \ {"write"}
           /\ registered' = (~registered \/ events' # {})
        \/ /\ "write" \in events
           /\ outBuf' # <<>>
           /\ UNCHANGED <<events, registered>>
    BY <1>7 DEF HandleWrite, Drained, Update, channel
  <2>3. CASE UNCHANGED <<events, registered, outBuf>>
    BY <2>1, <2>3
  <2>4. CASE "write" \in events
    <3>1. Open /\ "read" \in events /\ "read" \in events \ {"write"}
      BY <2>4
    <3>2. registered => registered'
      BY <2>2, <3>1
    <3>3. "read" \in events' /\ ("write" \in events' <=> outBuf' # <<>>)
      BY <2>2, <2>4, <3>1
    <3> QED
      BY <1>b, <2>1, <3>1, <3>2, <3>3
  <2> QED
    BY <2>2, <2>3, <2>4
<1>8. CASE OwnerDestroyed
  <2>1. gone' = TRUE /\ outBuf' = outBuf
    BY <1>8 DEF OwnerDestroyed
  <2>2. ConnectDestroyed \/ UNCHANGED <<state, channel>>
    BY <1>8 DEF OwnerDestroyed
  <2>3. CASE UNCHANGED <<state, channel>>
    BY <2>1, <2>3 DEF channel
  <2>4. CASE ConnectDestroyed /\ state = "kConnected"
    BY <2>1, <2>4, DownChannel
  <2>5. CASE ConnectDestroyed /\ state # "kConnected"
    <3>1. UNCHANGED <<state, events>>
      BY <2>5 DEF ConnectDestroyed, RemoveChannel
    <3> QED
      BY <2>1, <3>1
  <2> QED
    BY <2>2, <2>3, <2>4, <2>5
<1>9. CASE UNCHANGED <<state, events, registered, outBuf, gone>>
  BY <1>9
<1> QED
  BY <1>1, <1>2, <1>3, <1>4, <1>5, <1>6, <1>7, <1>8, <1>9, StateUnchanged


-----------------------------------------------------------------------------
(* The calls in progress and the functors waiting *)

\* Which steps leave the calls in progress alone.
LEMMA StackUnchanged ==
    ASSUME [Next]_vars, \A n \in 1 .. 2 : ~Send(n), ~ForceClose, ~UserReturns,
           ~CloseCallback, ~AfterWrite, ~AfterDown, ~OwnerDestroyed,
           ~OtherCallbacks, ~NewConnection, ~RunEstablished, ~HandleReadData,
           ~HandleReadClose, ~HandleWrite, ~RunDestroyed
    PROVE  stack' = stack
BY DEF Next, Program, LoopThread, Others, vars, Lost, SendRaisesSigpipe,
       Shutdown, CloseCallbackDangles, UsedAfterFree, Poll, HandleError,
       HandleWriteRaisesSigpipe, AssertionFails, HandleEventReturns,
       SwapFunctors, NextIteration, OwnerRemoves, OwnerDangles, PeerSends,
       PeerCloses, PeerResets

\* A frame that finishes the connection is pushed only by the step that takes
\* the connection down.
LEMMA FramesStep ==
    ASSUME TypeOK, [Next]_vars
    PROVE  /\ stack' \in Seq(Frames)
           /\ \/ Range(stack') \subseteq Range(stack) \cup {"user", "wrote"}
              \/ /\ HandleClose
                 /\ Range(stack') = Range(stack) \cup {"user", "closing"}
              \/ /\ RunDestroyed \/ OwnerDestroyed
                 /\ state = "kConnected" /\ state' = "kDisconnected"
                 /\ Range(stack') = Range(stack) \cup {"user", "destroying"}
<1>a. stack \in Seq(Frames)
  BY DEF TypeOK
<1>b. /\ "user" \in Frames /\ "closing" \in Frames
      /\ "wrote" \in Frames /\ "destroying" \in Frames
  BY DEF Frames
<1> DEFINE Kept ==
              /\ stack' \in Seq(Frames)
              /\ Range(stack') \subseteq Range(stack) \cup {"user", "wrote"}
<1>c. CASE stack' = stack
  BY <1>a, <1>c
<1>d. CASE stack # <<>> /\ stack' = Tail(stack)
  <2>1. Tail(stack) \in Seq(Frames) /\ Range(Tail(stack)) \subseteq Range(stack)
    BY <1>a, <1>d, QueueTail
  <2> QED
    BY <1>d, <2>1
<1>e. CASE stack' = <<"user">> \o stack
  BY <1>a, <1>b, <1>e, QueuePush
<1>f. CASE stack' = <<>> \/ stack' = <<"user">> \/ stack' = <<"user", "wrote">>
  <2>1. stack' = <<>> => Kept
    BY QueueEmpty
  <2>2. stack' = <<"user">> => Kept
    BY <1>b DEF Range
  <2>3. stack' = <<"user", "wrote">> => Kept
    BY <1>b DEF Range
  <2> QED
    BY <1>f, <2>1, <2>2, <2>3
<1>g. CASE HandleClose
  BY <1>a, <1>b, <1>g, QueuePushTwo DEF HandleClose
<1>h. CASE /\ state = "kConnected" /\ state' = "kDisconnected"
           /\ stack' = <<"user", "destroying">> \o stack
           /\ RunDestroyed \/ OwnerDestroyed
  BY <1>a, <1>b, <1>h, QueuePushTwo
<1>1. ASSUME NEW n \in 1 .. 2, Send(n)
      PROVE  stack' = stack \/ stack' = <<"user">> \o stack
  BY <1>1 DEF Send, SendInLoop, WriteAll, WritePart, WriteFails, Postpone
<1>2. CASE ForceClose \/ HandleReadClose
  BY <1>2, <1>g DEF ForceClose, HandleReadClose
<1>3. CASE UserReturns \/ CloseCallback \/ AfterWrite \/ AfterDown
  BY <1>3, <1>d DEF UserReturns, CloseCallback, AfterWrite, AfterDown, Top
<1>4. CASE OtherCallbacks \/ NewConnection \/ RunEstablished \/ HandleReadData
  <2>1. stack' = <<>> \/ stack' = <<"user">>
    BY <1>4 DEF OtherCallbacks, NewConnection, RunEstablished, HandleReadData,
                ConnectEstablished
  <2> QED
    BY <1>f, <2>1
<1>5. CASE HandleWrite
  <2>1. stack' = stack \/ stack' = <<"user", "wrote">>
    BY <1>5 DEF HandleWrite, Drained
  <2> QED
    BY <1>c, <1>f, <2>1
<1>6. CASE RunDestroyed \/ OwnerDestroyed
  <2>1. ConnectDestroyed \/ stack' = stack
    BY <1>6 DEF RunDestroyed, OwnerDestroyed
  <2>2. \/ stack' = stack
        \/ /\ state = "kConnected" /\ state' = "kDisconnected"
           /\ stack' = <<"user", "destroying">> \o stack
    BY <2>1 DEF ConnectDestroyed
  <2> QED
    BY <1>6, <1>c, <1>h, <2>2
<1> QED
  BY <1>1, <1>2, <1>3, <1>4, <1>5, <1>6, <1>c, <1>e, StackUnchanged

\* What the steps do to the functors: none, one to destroy the connection that
\* is handed over, the swap, and the first of the batch being taken.
LEMMA QueuesStep ==
    ASSUME [Next]_vars
    PROVE  \/ UNCHANGED <<functors, running>>
           \/ /\ functors' = Append(functors, "destroyed") /\ running' = running
              /\ \/ CloseCallback /\ ~gone
                 \/ OwnerRemoves /\ told
                 \/ OwnerDestroyed
           \/ SwapFunctors /\ running' = functors /\ functors' = <<>>
           \/ /\ running # <<>> /\ running' = Tail(running) /\ functors' = functors
              /\ \/ Head(running) = "established" /\ RunEstablished
                 \/ Head(running) = "destroyed" /\ RunDestroyed
<1>1. CASE CloseCallback
  BY <1>1 DEF CloseCallback, RemoveConnection
<1>2. CASE OwnerRemoves
  BY <1>2 DEF OwnerRemoves
<1>3. CASE OwnerDestroyed
  BY <1>3 DEF OwnerDestroyed
<1>4. CASE SwapFunctors
  BY <1>4 DEF SwapFunctors
<1>5. CASE RunEstablished
  BY <1>5 DEF RunEstablished
<1>6. CASE RunDestroyed
  BY <1>6 DEF RunDestroyed
<1>7. CASE /\ ~CloseCallback /\ ~OwnerRemoves /\ ~OwnerDestroyed
           /\ ~SwapFunctors /\ ~RunEstablished /\ ~RunDestroyed
  <2>1. ASSUME NEW n \in 1 .. 2, Send(n)
        PROVE  UNCHANGED <<functors, running>>
    BY <2>1 DEF Send, queues
  <2>2. CASE \A n \in 1 .. 2 : ~Send(n)
    BY <1>7, <2>2 DEF Next, Program, LoopThread, Others, vars, queues, Lost,
          SendRaisesSigpipe, Shutdown, ForceClose, HandleClose, UserReturns,
          CloseCallbackDangles, AfterWrite, AfterDown, UsedAfterFree, Poll,
          OtherCallbacks, NewConnection, HandleError, HandleReadData,
          HandleReadClose, HandleWrite, HandleWriteRaisesSigpipe,
          AssertionFails, HandleEventReturns, NextIteration, OwnerDangles,
          PeerSends, PeerCloses, PeerResets
  <2> QED
    BY <2>1, <2>2
<1> QED
  BY <1>1, <1>2, <1>3, <1>4, <1>5, <1>6, <1>7


-----------------------------------------------------------------------------
(* The connection's state *)

\* What the head of the batch being run says of the connection.
LEMMA FirstOfBatch ==
    ASSUME TypeOK, running # <<>>
    PROVE  Head(running) \in Range(running)
<1>1. running \in Seq({"established", "destroyed"})
  BY DEF TypeOK
<1> QED
  BY <1>1, QueueTail

\* It goes forwards only, and each move that the program is told of is counted.
LEMMA StateMoves ==
    ASSUME TypeOK, EstablishedOnce, [Next]_vars
    PROVE  \/ UNCHANGED <<state, ups, downs>>
           \/ /\ Shutdown
              /\ state = "kConnected" /\ state' = "kDisconnecting"
              /\ UNCHANGED <<ups, downs>>
           \/ /\ Open /\ state' = "kDisconnected"
              /\ downs' = downs + 1 /\ ups' = ups
           \/ /\ NewConnection \/ RunEstablished
              /\ state = "kConnecting" /\ state' = "kConnected"
              /\ ups' = ups + 1 /\ downs' = downs
<1>1. ASSUME NEW n \in 1 .. 2, Send(n)
      PROVE  UNCHANGED <<state, ups, downs>>
  BY <1>1 DEF Send
<1>2. CASE Shutdown
  BY <1>2 DEF Shutdown, history
<1>3. CASE ForceClose \/ HandleReadClose
  BY <1>3 DEF ForceClose, HandleReadClose, HandleClose
<1>4. CASE AfterDown
  BY <1>4 DEF AfterDown, RemoveChannel
<1>5. CASE NewConnection
  BY <1>5 DEF NewConnection, ConnectEstablished
<1>6. CASE RunEstablished
  <2>1. state = "kConnecting"
    BY <1>6, FirstOfBatch DEF RunEstablished, EstablishedOnce
  <2> QED
    BY <1>6, <2>1 DEF RunEstablished, ConnectEstablished
<1>7. CASE RunDestroyed
  BY <1>7 DEF RunDestroyed, ConnectDestroyed, RemoveChannel, Open
<1>8. CASE OwnerDestroyed
  <2>1. (ConnectDestroyed \/ UNCHANGED <<state, downs>>) /\ ups' = ups
    BY <1>8 DEF OwnerDestroyed
  <2> QED
    BY <2>1 DEF ConnectDestroyed, RemoveChannel, Open
<1>9. CASE HandleWrite
  BY <1>9 DEF HandleWrite, history
<1> QED
  BY <1>1, <1>2, <1>3, <1>4, <1>5, <1>6, <1>7, <1>8, <1>9, StateUnchanged

\* Which steps leave the sending side of the socket alone.
LEMMA ShutUnchanged ==
    ASSUME [Next]_vars, ~Shutdown, ~AfterWrite
    PROVE  shutW' = shutW
<1>1. ASSUME NEW n \in 1 .. 2, Send(n)
      PROVE  shutW' = shutW
  BY <1>1 DEF Send
<1>2. CASE \A n \in 1 .. 2 : ~Send(n)
  BY <1>2 DEF Next, Program, LoopThread, Others, vars, kernel, Lost,
        SendRaisesSigpipe, ForceClose, HandleClose, UserReturns,
        CloseCallback, CloseCallbackDangles, AfterDown, UsedAfterFree,
        Poll, OtherCallbacks, NewConnection, HandleError, HandleReadData,
        HandleReadClose, HandleWrite, HandleWriteRaisesSigpipe,
        AssertionFails, HandleEventReturns, SwapFunctors, RunEstablished,
        RunDestroyed, NextIteration, OwnerDestroyed, OwnerRemoves,
        OwnerDangles, PeerSends, PeerCloses, PeerResets
<1> QED
  BY <1>1, <1>2

\* Each callback goes with the change of state it is about, and the end of the
\* stream is never sent before shutdown() or a close.
LEMMA ToldStep ==
    TypeOK /\ ToldWithState /\ EstablishedOnce /\ [Next]_vars => ToldWithState'
<1> SUFFICES ASSUME TypeOK, ToldWithState, EstablishedOnce, [Next]_vars
             PROVE  ToldWithState'
  OBVIOUS
<1>1. state \in States /\ ups \in 0 .. 1 /\ downs \in 0 .. 1
  BY DEF TypeOK
<1>2. /\ ups' = IF state' = "kConnecting" THEN 0 ELSE 1
      /\ downs' = IF state' = "kDisconnected" THEN 1 ELSE 0
  BY <1>1, StateMoves DEF ToldWithState, States, Open
<1>3. shutW' => state' \in {"kDisconnecting", "kDisconnected"}
  <2>1. CASE Shutdown
    BY <2>1 DEF Shutdown
  <2>2. CASE AfterWrite
    <3>1. state' = state /\ (shutW' = shutW \/ state = "kDisconnecting")
      BY <2>2 DEF AfterWrite
    <3> QED
      BY <3>1 DEF ToldWithState
  <2>3. CASE ~Shutdown /\ ~AfterWrite
    <3>1. shutW' = shutW
      BY <2>3, ShutUnchanged
    <3>2. state \in {"kDisconnecting", "kDisconnected"}
             => state' \in {"kDisconnecting", "kDisconnected"}
      BY StateMoves DEF Open
    <3> QED
      BY <3>1, <3>2 DEF ToldWithState
  <2> QED
    BY <2>1, <2>2, <2>3
<1>4. state' = "kConnecting" => accepted' = 0
  <2>1. ASSUME NEW n \in 1 .. 2, Send(n)
        PROVE  state' = "kConnected"
    BY <2>1 DEF Send
  <2>2. CASE \A n \in 1 .. 2 : ~Send(n)
    <3>1. accepted' = accepted
      BY <2>2, StreamUnchanged DEF HandleWrite, history
    <3>2. state' = "kConnecting" => state = "kConnecting"
      BY StateMoves
    <3> QED
      BY <3>1, <3>2 DEF ToldWithState
  <2> QED
    BY <2>1, <2>2
<1> QED
  BY <1>2, <1>3, <1>4 DEF ToldWithState

\* A connection being finished is down, or its owner is gone.
LEMMA EndsStep ==
    TypeOK /\ EndsWhenDown /\ EstablishedOnce /\ [Next]_vars => EndsWhenDown'
<1> SUFFICES ASSUME TypeOK, EndsWhenDown, EstablishedOnce, [Next]_vars
             PROVE  EndsWhenDown'
  OBVIOUS
<1>a. state = "kDisconnected" => state' = "kDisconnected"
  BY StateMoves DEF Open
<1>b. gone => gone'
  <2>1. ASSUME NEW n \in 1 .. 2, Send(n)
        PROVE  gone' = gone
    BY <2>1 DEF Send, owning
  <2>2. CASE \A n \in 1 .. 2 : ~Send(n)
    BY <2>2, StateUnchanged DEF owning, Shutdown, ForceClose, HandleReadClose,
          HandleClose, AfterDown, NewConnection, RunEstablished, RunDestroyed,
          HandleWrite, OwnerDestroyed
  <2> QED
    BY <2>1, <2>2
<1>c. CloseCallback => state = "kDisconnected"
  <2>1. CloseCallback => "closing" \in Range(stack)
    <3>1. stack \in Seq(Frames)
      BY DEF TypeOK
    <3>2. CloseCallback => stack # <<>> /\ Head(stack) = "closing"
      BY DEF CloseCallback, Top
    <3> QED
      BY <3>1, <3>2, QueueTail
  <2> QED
    BY <2>1 DEF EndsWhenDown
<1>1. told' => state' = "kDisconnected"
  <2>1. told' => told \/ CloseCallback
    <3>1. ASSUME NEW n \in 1 .. 2, Send(n)
          PROVE  told' = told
      BY <3>1 DEF Send, owning
    <3>2. CASE \A n \in 1 .. 2 : ~Send(n)
      BY <3>2 DEF Next, Program, LoopThread, Others, vars, owning, Lost,
            SendRaisesSigpipe, Shutdown, ForceClose, HandleClose, UserReturns,
            CloseCallbackDangles, AfterWrite, AfterDown, UsedAfterFree, Poll,
            OtherCallbacks, NewConnection, HandleError, HandleReadData,
            HandleReadClose, HandleWrite, HandleWriteRaisesSigpipe,
            AssertionFails, HandleEventReturns, SwapFunctors, RunEstablished,
            RunDestroyed, NextIteration, OwnerDestroyed, OwnerRemoves,
            OwnerDangles, PeerSends, PeerCloses, PeerResets
    <3> QED
      BY <3>1, <3>2
  <2> QED
    BY <1>a, <1>c, <2>1 DEF EndsWhenDown
<1>2. "closing" \in Range(stack') => state' = "kDisconnected"
  <2>1. "closing" \in Range(stack') => "closing" \in Range(stack) \/ HandleClose
    BY FramesStep
  <2> QED
    BY <1>a, <2>1 DEF EndsWhenDown, HandleClose
<1>3. "destroying" \in Range(stack') => gone' /\ state' = "kDisconnected"
  <2>1. \/ "destroying" \notin Range(stack')
        \/ "destroying" \in Range(stack)
        \/ /\ RunDestroyed \/ OwnerDestroyed
           /\ state = "kConnected" /\ state' = "kDisconnected"
    BY FramesStep
  <2>2. RunDestroyed => gone \/ state = "kDisconnected"
    BY FirstOfBatch DEF RunDestroyed, EndsWhenDown
  <2>3. OwnerDestroyed => gone'
    BY DEF OwnerDestroyed
  <2> QED
    BY <1>a, <1>b, <2>1, <2>2, <2>3 DEF EndsWhenDown
<1>4. "destroyed" \in Range(functors') \cup Range(running')
         => gone' \/ state' = "kDisconnected"
  <2> DEFINE F == {"established", "destroyed"}
  <2>a. functors \in Seq(F) /\ running \in Seq(F) /\ "destroyed" \in F
    BY DEF TypeOK
  <2>1. CASE UNCHANGED <<functors, running>>
    BY <1>a, <1>b, <2>1 DEF EndsWhenDown
  <2>2. CASE CloseCallback \/ (OwnerRemoves /\ told) \/ OwnerDestroyed
    <3>1. OwnerDestroyed => gone'
      BY DEF OwnerDestroyed
    <3> QED
      BY <1>a, <1>c, <2>2, <3>1 DEF EndsWhenDown
  <2>3. CASE running' = functors /\ functors' = <<>>
    BY <1>a, <1>b, <2>3, QueueEmpty DEF EndsWhenDown
  <2>4. CASE running # <<>> /\ running' = Tail(running) /\ functors' = functors
    <3>1. Range(running') \subseteq Range(running)
      BY <2>a, <2>4, QueueTail
    <3> QED
      BY <1>a, <1>b, <2>4, <3>1 DEF EndsWhenDown
  <2> QED
    BY <2>1, <2>2, <2>3, <2>4, QueuesStep
<1> QED
  BY <1>1, <1>2, <1>3, <1>4 DEF EndsWhenDown


\* "established" may only be the first of a queue.
FirstOnly(q) == \A i \in DOMAIN q : q[i] = "established" => i = 1

\* The functor that establishes the connection is first in its queue and runs once.
LEMMA EstablishedStep ==
    TypeOK /\ EstablishedOnce /\ EndsWhenDown /\ [Next]_vars => EstablishedOnce'
<1> SUFFICES ASSUME TypeOK, EstablishedOnce, EndsWhenDown, [Next]_vars
             PROVE  EstablishedOnce'
  OBVIOUS
<1> DEFINE Q == {"established", "destroyed"}
<1>a. functors \in Seq(Q) /\ running \in Seq(Q)
  BY DEF TypeOK
<1>b. FirstOnly(functors) /\ FirstOnly(running)
  BY DEF EstablishedOnce, FirstOnly
<1>c. owner' = owner
  <2>1. ASSUME NEW n \in 1 .. 2, Send(n)
        PROVE  owner' = owner
    BY <2>1 DEF Send, owning
  <2>2. CASE \A n \in 1 .. 2 : ~Send(n)
    BY <2>2 DEF Next, Program, LoopThread, Others, vars, owning, Lost,
          SendRaisesSigpipe, Shutdown, ForceClose, HandleClose, UserReturns,
          CloseCallback, CloseCallbackDangles, AfterWrite, AfterDown,
          UsedAfterFree, Poll, OtherCallbacks, NewConnection, HandleError,
          HandleReadData, HandleReadClose, HandleWrite,
          HandleWriteRaisesSigpipe, AssertionFails, HandleEventReturns,
          SwapFunctors, RunEstablished, RunDestroyed, NextIteration,
          OwnerDestroyed, OwnerRemoves, OwnerDangles, PeerSends, PeerCloses,
          PeerResets
  <2> QED
    BY <2>1, <2>2
<1>d. "established" \in Range(functors) \cup Range(running)
         => state = "kConnecting" /\ owner = "remoteServer"
  BY DEF EstablishedOnce
<1>e. ~RunEstablished /\ "established" \in Range(functors) \cup Range(running)
         => state' = state
  BY <1>d, StateMoves DEF NewConnection, Open
<1>f. ASSUME FirstOnly(functors'), FirstOnly(running'),
             "established" \notin Range(functors') \cap Range(running'),
             "established" \in Range(functors') \cup Range(running')
                => /\ "established" \in Range(functors) \cup Range(running)
                   /\ ~RunEstablished
      PROVE  EstablishedOnce'
  BY <1>c, <1>d, <1>e, <1>f DEF EstablishedOnce, FirstOnly
<1>g. "established" \notin Range(functors) \cap Range(running)
  BY DEF EstablishedOnce
<1>1. CASE UNCHANGED <<functors, running>>
  <2>1. CASE RunEstablished
    <3>1. Len(running) \in Nat /\ Len(Tail(running)) = Len(running) - 1
      BY <1>a, <2>1, QueueTail, LenProperties DEF RunEstablished
    <3>2. Tail(running) = running
      BY <1>1, <2>1 DEF RunEstablished
    <3> QED
      BY <3>1, <3>2
  <2>2. CASE ~RunEstablished
    BY <1>1, <1>b, <1>f, <1>g, <2>2
  <2> QED
    BY <2>1, <2>2
<1>2. CASE /\ functors' = Append(functors, "destroyed") /\ running' = running
           /\ CloseCallback \/ OwnerRemoves \/ OwnerDestroyed
  <2>1. /\ Append(functors, "destroyed") \in Seq(Q)
        /\ Range(Append(functors, "destroyed")) = Range(functors) \cup {"destroyed"}
    BY <1>a, RangeAppend
  <2>2. FirstOnly(Append(functors, "destroyed"))
    <3>1. /\ Len(Append(functors, "destroyed")) = Len(functors) + 1
          /\ \A i \in 1 .. Len(functors) : Append(functors, "destroyed")[i] = functors[i]
          /\ Append(functors, "destroyed")[Len(functors) + 1] = "destroyed"
      BY <1>a, QueueAppend
    <3>2. /\ Len(functors) \in Nat /\ DOMAIN functors = 1 .. Len(functors)
          /\ DOMAIN Append(functors, "destroyed") = 1 .. Len(functors) + 1
      BY <1>a, <2>1, <3>1, LenProperties
    <3>3. ASSUME NEW i \in 1 .. Len(functors) + 1,
                 Append(functors, "destroyed")[i] = "established"
          PROVE  i = 1
      <4>1. i \in 1 .. Len(functors)
        BY <3>1, <3>2, <3>3
      <4> QED
        BY <1>b, <3>1, <3>2, <3>3, <4>1 DEF FirstOnly
    <3> QED
      BY <3>2, <3>3 DEF FirstOnly
  <2>3. ~RunEstablished
    BY <1>2, <1>a DEF RunEstablished, CloseCallback, OwnerRemoves,
          OwnerDestroyed, Idle, Top
  <2> QED
    BY <1>2, <1>b, <1>f, <1>g, <2>1, <2>2, <2>3
<1>3. CASE SwapFunctors /\ running' = functors /\ functors' = <<>>
  <2>1. ~RunEstablished
    BY <1>3 DEF SwapFunctors, RunEstablished, Idle
  <2>2. Range(functors') = {} /\ FirstOnly(functors')
    BY <1>3, QueueEmpty DEF FirstOnly
  <2> QED
    BY <1>3, <1>b, <1>f, <2>1, <2>2
<1>4. CASE /\ running # <<>> /\ running' = Tail(running) /\ functors' = functors
           /\ \/ Head(running) = "established" /\ RunEstablished
              \/ Head(running) = "destroyed" /\ RunDestroyed
  <2>1. /\ Tail(running) \in Seq(Q)
        /\ Len(running) \in Nat /\ Len(running) >= 1
        /\ Len(Tail(running)) = Len(running) - 1
        /\ \A i \in 1 .. Len(running) - 1 : Tail(running)[i] = running[i + 1]
        /\ Range(Tail(running)) \subseteq Range(running)
        /\ Head(running) \in Range(running)
        /\ DOMAIN running = 1 .. Len(running)
    BY <1>4, <1>a, QueueTail, LenProperties
  <2>2. \A i \in 1 .. Len(running) - 1 : Tail(running)[i] # "established"
    <3>1. SUFFICES ASSUME NEW i \in 1 .. Len(running) - 1,
                          Tail(running)[i] = "established"
                   PROVE  FALSE
      OBVIOUS
    <3>2. i + 1 \in 1 .. Len(running) /\ i + 1 # 1
      BY <2>1
    <3>3. running[i + 1] = "established"
      BY <2>1, <3>1
    <3> QED
      BY <1>b, <2>1, <3>2, <3>3 DEF FirstOnly
  <2>3. DOMAIN Tail(running) = 1 .. Len(running) - 1
    BY <2>1, LenProperties
  <2>4. FirstOnly(Tail(running)) /\ "established" \notin Range(Tail(running))
    BY <2>2, <2>3 DEF FirstOnly, Range
  <2>5. CASE Head(running) = "established"
    BY <1>4, <1>b, <1>f, <1>g, <2>1, <2>4, <2>5
  <2>6. CASE Head(running) = "destroyed"
    BY <1>4, <1>b, <1>f, <2>4, <2>6 DEF RunEstablished
  <2> QED
    BY <1>4, <2>5, <2>6
<1> QED
  BY <1>1, <1>2, <1>3, <1>4, QueuesStep


-----------------------------------------------------------------------------
(* The shape of the state *)

\* What a send leaves alone.
LEMMA SendKeeps ==
    ASSUME NEW n \in 1 .. 2, Send(n)
    PROVE  /\ UNCHANGED <<shutW, inbox, received, fin, phase, revents, owner,
                          listed, told, gone, kept, destroyed, proc>>
           /\ reset' = reset \/ reset' = "cleared"
           /\ accepted' = accepted + n /\ accepted' <= MaxBytes
BY DEF Send, SendInLoop, WriteAll, WritePart, WriteFails, Postpone, owning

\* The peer's side of the connection.
LEMMA PeerStep ==
    TypeOK /\ inbox <= received /\ [Next]_vars
    => /\ fin' \in BOOLEAN
       /\ inbox' \in 0 .. MaxMessages /\ received' \in 0 .. MaxMessages
       /\ inbox' <= received'
       /\ reset' \in {"no", "pending", "cleared"}
<1> SUFFICES ASSUME TypeOK, inbox <= received, [Next]_vars
             PROVE  /\ fin' \in BOOLEAN
                    /\ inbox' \in 0 .. MaxMessages
                    /\ received' \in 0 .. MaxMessages
                    /\ inbox' <= received'
                    /\ reset' \in {"no", "pending", "cleared"}
  OBVIOUS
<1>a. /\ fin \in BOOLEAN /\ reset \in {"no", "pending", "cleared"}
      /\ inbox \in 0 .. MaxMessages /\ received \in 0 .. MaxMessages
      /\ inbox <= received /\ MaxMessages \in Nat
  BY BoundsAssumption DEF TypeOK
<1>1. CASE PeerSends
  <2>1. /\ received < MaxMessages /\ received' = received + 1
        /\ inbox' = inbox + 1 /\ UNCHANGED <<fin, reset>>
    BY <1>1 DEF PeerSends
  <2> QED
    BY <1>a, <2>1
<1>2. CASE PeerCloses
  BY <1>2, <1>a DEF PeerCloses
<1>3. CASE PeerResets
  BY <1>3, <1>a DEF PeerResets
<1>4. CASE HandleReadData
  <2>1. inbox' = 0 /\ UNCHANGED <<received, fin, reset>>
    BY <1>4 DEF HandleReadData
  <2> QED
    BY <1>a, <2>1
<1>5. CASE HandleError \/ HandleWrite
  <2>1. /\ UNCHANGED <<inbox, received, fin>>
        /\ reset' = reset \/ reset' = "cleared"
    BY <1>5 DEF HandleError, HandleWrite
  <2> QED
    BY <1>a, <2>1
<1>6. CASE \E n \in 1 .. 2 : Send(n)
  BY <1>6, <1>a, SendKeeps
<1>7. CASE /\ \A n \in 1 .. 2 : ~Send(n)
           /\ ~PeerSends /\ ~PeerCloses /\ ~PeerResets /\ ~HandleReadData
           /\ ~HandleError /\ ~HandleWrite
  <2>1. UNCHANGED <<inbox, received, fin, reset>>
    BY <1>7 DEF Next, Program, LoopThread, Others, vars, Lost, kernel,
          SendRaisesSigpipe, Shutdown, ForceClose, HandleClose, UserReturns,
          CloseCallback, CloseCallbackDangles, AfterWrite, AfterDown,
          UsedAfterFree, Poll, OtherCallbacks, NewConnection, HandleReadClose,
          HandleWriteRaisesSigpipe, AssertionFails, HandleEventReturns,
          SwapFunctors, RunEstablished, RunDestroyed, NextIteration,
          OwnerDestroyed, OwnerRemoves, OwnerDangles
  <2> QED
    BY <1>a, <2>1
<1> QED
  BY <1>1, <1>2, <1>3, <1>4, <1>5, <1>6, <1>7

\* The loop's iteration.
LEMMA LoopStep ==
    TypeOK /\ [Next]_vars
    => /\ phase' \in {"poll", "before", "ours", "after", "swap", "functors"}
       /\ revents' \subseteq {"hup", "err", "in", "out"}
<1> SUFFICES ASSUME TypeOK, [Next]_vars
             PROVE  /\ phase' \in {"poll", "before", "ours", "after", "swap",
                                   "functors"}
                    /\ revents' \subseteq {"hup", "err", "in", "out"}
  OBVIOUS
<1>a. /\ phase \in {"poll", "before", "ours", "after", "swap", "functors"}
      /\ revents \subseteq {"hup", "err", "in", "out"}
  BY DEF TypeOK
<1>1. CASE Poll
  BY <1>1 DEF Poll
<1>2. CASE OtherCallbacks \/ NewConnection
  BY <1>2, <1>a DEF OtherCallbacks, NewConnection, AfterPhase
<1>3. CASE HandleError \/ HandleReadData \/ HandleReadClose \/ HandleWrite
  <2>1. phase' = phase /\ revents' \subseteq revents
    BY <1>3 DEF HandleError, HandleReadData, HandleReadClose, HandleWrite,
          Handling, HandleClose
  <2> QED
    BY <1>a, <2>1
<1>4. CASE HandleEventReturns \/ SwapFunctors \/ NextIteration
  BY <1>4, <1>a DEF HandleEventReturns, SwapFunctors, NextIteration
<1>5. CASE \E n \in 1 .. 2 : Send(n)
  BY <1>5, <1>a, SendKeeps
<1>6. CASE /\ \A n \in 1 .. 2 : ~Send(n)
           /\ ~Poll /\ ~OtherCallbacks /\ ~NewConnection /\ ~HandleError
           /\ ~HandleReadData /\ ~HandleReadClose /\ ~HandleWrite
           /\ ~HandleEventReturns /\ ~SwapFunctors /\ ~NextIteration
  <2>1. UNCHANGED <<phase, revents>>
    BY <1>6 DEF Next, Program, LoopThread, Others, vars, Lost,
          SendRaisesSigpipe, Shutdown, ForceClose, HandleClose, UserReturns,
          CloseCallback, CloseCallbackDangles, AfterWrite, AfterDown,
          UsedAfterFree, HandleWriteRaisesSigpipe, AssertionFails,
          RunEstablished, RunDestroyed, OwnerDestroyed, OwnerRemoves,
          OwnerDangles, PeerSends, PeerCloses, PeerResets
  <2> QED
    BY <1>a, <2>1
<1> QED
  BY <1>1, <1>2, <1>3, <1>4, <1>5, <1>6

\* The owner, and whether the connection has been destroyed.
LEMMA OwnerStep ==
    TypeOK /\ [Next]_vars
    => /\ owner' \in {"client", "server", "remoteServer"}
       /\ listed' \in BOOLEAN /\ told' \in BOOLEAN /\ gone' \in BOOLEAN
       /\ kept' \in BOOLEAN /\ destroyed' \in BOOLEAN
       /\ proc' \in {"running", "assert", "sigpipe", "dangling"}
<1> SUFFICES ASSUME TypeOK, [Next]_vars
             PROVE  /\ owner' \in {"client", "server", "remoteServer"}
                    /\ listed' \in BOOLEAN /\ told' \in BOOLEAN
                    /\ gone' \in BOOLEAN
                    /\ kept' \in BOOLEAN /\ destroyed' \in BOOLEAN
                    /\ proc' \in {"running", "assert", "sigpipe", "dangling"}
  OBVIOUS
<1>a. /\ owner \in {"client", "server", "remoteServer"}
      /\ listed \in BOOLEAN /\ told \in BOOLEAN /\ gone \in BOOLEAN
      /\ kept \in BOOLEAN /\ destroyed \in BOOLEAN
      /\ proc \in {"running", "assert", "sigpipe", "dangling"}
  BY DEF TypeOK
<1>1. CASE \E n \in 1 .. 2 : Send(n)
  BY <1>1, <1>a, SendKeeps
<1>2. CASE CloseCallback \/ OwnerRemoves \/ NewConnection
  <2>1. /\ UNCHANGED <<owner, gone, kept, destroyed, proc>>
        /\ listed' = listed \/ listed' = TRUE \/ listed' = FALSE
        /\ told' = told \/ told' = TRUE \/ told' = FALSE
    BY <1>2 DEF CloseCallback, RemoveConnection, OwnerRemoves, NewConnection,
          history
  <2> QED
    BY <1>a, <2>1
<1>3. CASE AfterDown \/ RunDestroyed \/ OwnerDestroyed
  <2>1. /\ UNCHANGED <<owner, told, kept, proc>>
        /\ listed' = listed \/ listed' = FALSE
        /\ gone' = gone \/ gone' = TRUE
        /\ destroyed' = destroyed \/ destroyed' = TRUE
    BY <1>3 DEF AfterDown, RunDestroyed, OwnerDestroyed, ConnectDestroyed,
          RemoveChannel, owning
  <2> QED
    BY <1>a, <2>1
<1>4. CASE /\ \A n \in 1 .. 2 : ~Send(n)
           /\ ~CloseCallback /\ ~OwnerRemoves /\ ~NewConnection /\ ~AfterDown
           /\ ~RunDestroyed /\ ~OwnerDestroyed
  <2>1. /\ UNCHANGED <<owner, listed, told, gone, kept, destroyed>>
        /\ proc' = proc \/ proc' \in {"assert", "sigpipe", "dangling"}
    BY <1>4 DEF Next, Program, LoopThread, Others, vars, Lost, owning, history,
          SendRaisesSigpipe, Shutdown, ForceClose, HandleClose, UserReturns,
          CloseCallbackDangles, AfterWrite, UsedAfterFree, Poll,
          OtherCallbacks, HandleError, HandleReadData, HandleReadClose,
          HandleWrite, HandleWriteRaisesSigpipe, AssertionFails,
          HandleEventReturns, SwapFunctors, RunEstablished, NextIteration,
          OwnerDangles, PeerSends, PeerCloses, PeerResets
  <2> QED
    BY <1>a, <2>1
<1> QED
  BY <1>1, <1>2, <1>3, <1>4


\* The bytes stay bytes of the program.
LEMMA BytesStep ==
    TypeOK /\ [Next]_vars
    => /\ wire' \in Seq(1 .. MaxBytes) /\ outBuf' \in Seq(1 .. MaxBytes)
       /\ accepted' \in 0 .. MaxBytes
<1> DEFINE B == 1 .. MaxBytes
<1> SUFFICES ASSUME TypeOK, [Next]_vars
             PROVE  wire' \in Seq(B) /\ outBuf' \in Seq(B) /\ accepted' \in 0 .. MaxBytes
  OBVIOUS
<1>a. /\ wire \in Seq(B) /\ outBuf \in Seq(B)
      /\ accepted \in 0 .. MaxBytes /\ MaxBytes \in Nat
  BY BoundsAssumption DEF TypeOK
<1>1. ASSUME NEW n \in 1 .. 2, Send(n)
      PROVE  wire' \in Seq(B) /\ outBuf' \in Seq(B) /\ accepted' \in 0 .. MaxBytes
  <2> DEFINE d == Bytes(n)
  <2>1. accepted' = accepted + n /\ accepted + n <= MaxBytes /\ n \in Nat
    BY <1>1, SendKeeps
  <2>2. d \in Seq(B) /\ Len(d) = n
    BY <1>a, <2>1, BytesNext
  <2>3. \/ wire' = wire \o d /\ outBuf' = outBuf
        \/ \E k \in 0 .. n : /\ wire' = wire \o SubSeq(d, 1, k)
                             /\ outBuf' = outBuf \o SubSeq(d, k + 1, n)
        \/ outBuf' = outBuf \o d /\ wire' = wire
    BY <1>1, SendCases
  <2> HIDE DEF d, B
  <2>4. wire \o d \in Seq(B) /\ outBuf \o d \in Seq(B)
    BY <1>a, <2>2, RangeConcat
  <2>5. ASSUME NEW k \in 0 .. n
        PROVE  /\ wire \o SubSeq(d, 1, k) \in Seq(B)
               /\ outBuf \o SubSeq(d, k + 1, n) \in Seq(B)
    <3>1. /\ 1 \in 1 .. Len(d) + 1 /\ k \in 1 - 1 .. Len(d)
          /\ k + 1 \in 1 .. Len(d) + 1 /\ n \in (k + 1) - 1 .. Len(d)
      BY <2>1, <2>2
    <3>2. SubSeq(d, 1, k) \in Seq(B) /\ SubSeq(d, k + 1, n) \in Seq(B)
      BY <2>2, <3>1, QueuePart
    <3> QED
      BY <1>a, <3>2, RangeConcat
  <2>6. accepted' \in 0 .. MaxBytes
    BY <1>a, <2>1
  <2> QED
    BY <1>a, <2>3, <2>4, <2>5, <2>6
<1>2. CASE HandleWrite
  <2>1. accepted' = accepted
    BY <1>2 DEF HandleWrite, history
  <2>2. \/ UNCHANGED <<wire, outBuf>>
        \/ \E n \in 1 .. Len(outBuf) :
              /\ wire' = wire \o SubSeq(outBuf, 1, n)
              /\ outBuf' = SubSeq(outBuf, n + 1, Len(outBuf))
    BY <1>2 DEF HandleWrite
  <2> HIDE DEF B
  <2>3. ASSUME NEW n \in 1 .. Len(outBuf)
        PROVE  /\ wire \o SubSeq(outBuf, 1, n) \in Seq(B)
               /\ SubSeq(outBuf, n + 1, Len(outBuf)) \in Seq(B)
    <3>1. Len(outBuf) \in Nat
      BY <1>a, LenProperties
    <3>2. /\ 1 \in 1 .. Len(outBuf) + 1 /\ n \in 1 - 1 .. Len(outBuf)
          /\ n + 1 \in 1 .. Len(outBuf) + 1
          /\ Len(outBuf) \in (n + 1) - 1 .. Len(outBuf)
      BY <3>1
    <3>3. /\ SubSeq(outBuf, 1, n) \in Seq(B)
          /\ SubSeq(outBuf, n + 1, Len(outBuf)) \in Seq(B)
      BY <1>a, <3>2, QueuePart
    <3> QED
      BY <1>a, <3>3, RangeConcat
  <2> QED
    BY <1>a, <2>1, <2>2, <2>3
<1>3. CASE ~HandleWrite /\ \A n \in 1 .. 2 : ~Send(n)
  BY <1>a, <1>3, StreamUnchanged
<1> QED
  BY <1>1, <1>2, <1>3

\* Every step keeps the shape of the state.
LEMMA TypeStep ==
    /\ TypeOK /\ inbox <= received /\ EstablishedOnce /\ ReadsWhileOpen
    /\ ToldWithState /\ InterestExact /\ [Next]_vars
    => TypeOK' /\ (inbox <= received)'
<1> SUFFICES ASSUME TypeOK, inbox <= received, EstablishedOnce, ReadsWhileOpen,
                    ToldWithState, InterestExact, [Next]_vars
             PROVE  TypeOK' /\ (inbox <= received)'
  OBVIOUS
<1>1. state' \in States
  <2>1. state \in States
    BY DEF TypeOK
  <2> QED
    BY <2>1, StateMoves DEF States
<1>2. events' \subseteq {"read", "write"} /\ registered' \in BOOLEAN
  <2>a. events \subseteq {"read", "write"} /\ registered \in BOOLEAN
    BY DEF TypeOK
  <2>b. ASSUME NEW ev \in SUBSET {"read", "write"}, Update(ev)
        PROVE  events' \subseteq {"read", "write"} /\ registered' \in BOOLEAN
    BY <2>b DEF Update
  <2>c. CASE UNCHANGED channel
    BY <2>a, <2>c DEF channel
  <2>d. CASE UNCHANGED events /\ registered' = FALSE
    BY <2>a, <2>d
  <2>1. ASSUME NEW n \in 1 .. 2, Send(n)
        PROVE  events' \subseteq {"read", "write"} /\ registered' \in BOOLEAN
    <3>1. UNCHANGED channel \/ Update(events \cup {"write"})
      BY <2>1 DEF Send, SendInLoop, WriteAll, WritePart, WriteFails, Postpone
    <3>2. events \cup {"write"} \in SUBSET {"read", "write"}
      BY <2>a
    <3> QED
      BY <2>b, <2>c, <3>1, <3>2
  <2>2. CASE Shutdown
    BY <2>2, <2>c DEF Shutdown
  <2>3. CASE ForceClose \/ HandleReadClose
    BY <2>3, <2>b DEF ForceClose, HandleReadClose, HandleClose
  <2>4. CASE AfterDown
    BY <2>4, <2>d DEF AfterDown, RemoveChannel
  <2>5. CASE NewConnection \/ RunEstablished
    <3>1. Update(events \cup {"read"})
      BY <2>5 DEF NewConnection, RunEstablished, ConnectEstablished
    <3> QED
      BY <2>a, <2>b, <3>1
  <2>6. CASE RunDestroyed \/ OwnerDestroyed
    BY <2>6, <2>b, <2>c, <2>d DEF RunDestroyed, OwnerDestroyed,
          ConnectDestroyed, RemoveChannel
  <2>7. CASE HandleWrite
    <3>1. UNCHANGED channel \/ Update(events \ {"write"})
      BY <2>7 DEF HandleWrite, Drained
    <3> QED
      BY <2>a, <2>b, <2>c, <3>1
  <2>8. CASE UNCHANGED <<events, registered>>
    BY <2>a, <2>8
  <2> QED
    BY <2>1, <2>2, <2>3, <2>4, <2>5, <2>6, <2>7, <2>8, StateUnchanged
<1>3. functors' \in Seq({"established", "destroyed"})
      /\ running' \in Seq({"established", "destroyed"})
  <2> DEFINE Q == {"established", "destroyed"}
  <2>1. functors \in Seq(Q) /\ running \in Seq(Q) /\ "destroyed" \in Q
    BY DEF TypeOK
  <2> HIDE DEF Q
  <2>2. Append(functors, "destroyed") \in Seq(Q) /\ <<>> \in Seq(Q)
    BY <2>1, RangeAppend, QueueEmpty
  <2>3. running # <<>> => Tail(running) \in Seq(Q)
    BY <2>1, QueueTail
  <2>4. functors' \in Seq(Q) /\ running' \in Seq(Q)
    BY <2>1, <2>2, <2>3, QueuesStep
  <2> QED
    BY <2>4 DEF Q
<1>4. shutW' \in BOOLEAN
  <2>1. shutW \in BOOLEAN
    BY DEF TypeOK
  <2>2. CASE Shutdown \/ AfterWrite
    BY <2>1, <2>2 DEF Shutdown, AfterWrite, ShutdownInLoop, ShutdownWrite
  <2>3. CASE ~Shutdown /\ ~AfterWrite
    BY <2>1, <2>3, ShutUnchanged
  <2> QED
    BY <2>2, <2>3
<1>5. ups' \in 0 .. 1 /\ downs' \in 0 .. 1
  BY ToldStep DEF ToldWithState
<1> QED
  BY <1>1, <1>2, <1>3, <1>4, <1>5, BytesStep, FramesStep, PeerStep, LoopStep,
     OwnerStep DEF TypeOK


-----------------------------------------------------------------------------
(* The inductive invariant *)

LEMMA InitInvariant == Init => ConnectionInvariant
<1> SUFFICES ASSUME Init
             PROVE  ConnectionInvariant
  OBVIOUS
<1>1. TypeOK
  <2>1. MaxBytes \in Nat /\ MaxMessages \in Nat
    BY BoundsAssumption
  <2>2. /\ <<>> \in Seq(1 .. MaxBytes) /\ <<>> \in Seq(Frames)
        /\ <<>> \in Seq({"established", "destroyed"})
        /\ <<"established">> \in Seq({"established", "destroyed"})
    OBVIOUS
  <2>3. functors \in Seq({"established", "destroyed"})
    BY <2>2 DEF Init
  <2>4. /\ outBuf \in Seq(1 .. MaxBytes) /\ wire \in Seq(1 .. MaxBytes)
        /\ stack \in Seq(Frames)
        /\ running \in Seq({"established", "destroyed"})
    BY <2>2 DEF Init
  <2>5. /\ listed \in BOOLEAN /\ registered \in BOOLEAN /\ kept \in BOOLEAN
        /\ events \subseteq {"read", "write"}
        /\ revents \subseteq {"hup", "err", "in", "out"}
    BY DEF Init
  <2>6. /\ inbox \in 0 .. MaxMessages /\ received \in 0 .. MaxMessages
        /\ accepted \in 0 .. MaxBytes /\ ups \in 0 .. 1 /\ downs \in 0 .. 1
    BY <2>1 DEF Init
  <2> QED
    BY <2>3, <2>4, <2>5, <2>6 DEF Init, TypeOK, States
<1>2. StreamWhole
  BY DEF Init, StreamWhole
<1>3. ReadsWhileOpen /\ ToldWithState /\ InterestExact
  BY DEF Init, ReadsWhileOpen, ToldWithState, InterestExact, Open
<1>4. EndsWhenDown /\ EstablishedOnce
  <2>1. Range(stack) = {} /\ Range(running) = {}
    BY QueueEmpty DEF Init
  <2>2. Range(functors) \subseteq {"established"} /\ FirstOnly(functors)
    BY QueueEmpty DEF Init, Range, FirstOnly
  <2>3. Range(functors) # {} => owner = "remoteServer"
    BY QueueEmpty DEF Init
  <2>4. FirstOnly(running)
    BY DEF Init, FirstOnly
  <2>5. /\ ~told /\ state = "kConnecting"
        /\ "closing" \notin Range(stack) /\ "destroying" \notin Range(stack)
        /\ "destroyed" \notin Range(functors) \cup Range(running)
    BY <2>1, <2>2 DEF Init
  <2>6. EndsWhenDown
    BY <2>5 DEF EndsWhenDown
  <2>7. EstablishedOnce
    BY <2>1, <2>2, <2>3, <2>4, <2>5 DEF EstablishedOnce, FirstOnly
  <2> QED
    BY <2>6, <2>7
<1> QED
  BY <1>1, <1>2, <1>3, <1>4 DEF ConnectionInvariant, Init

LEMMA InvariantStep == ConnectionInvariant /\ [Next]_vars => ConnectionInvariant'
BY TypeStep, StreamStep, InterestStep, ToldStep, EndsStep, EstablishedStep
   DEF ConnectionInvariant

\* The state of the connection, its channel, its buffers, its owner's queues
\* and the calls in progress always fit together.
THEOREM Invariant == Spec => []ConnectionInvariant
BY InitInvariant, InvariantStep, PTL DEF Spec

\* Every variable of the connection keeps its type; in particular the program is
\* told at most once that it came up and at most once that it went down.
THEOREM TypeCorrect == Spec => []TypeOK
<1>1. ConnectionInvariant => TypeOK
  BY DEF ConnectionInvariant
<1> QED
  BY <1>1, Invariant, PTL

\* However many bytes are sent from whatever callbacks and however the socket
\* takes or refuses them, an open connection asks for writability exactly while
\* bytes wait, and is watched exactly while it is open.
THEOREM InterestIsExact == Spec => []InterestExact
<1>1. ConnectionInvariant => InterestExact
  BY DEF ConnectionInvariant
<1> QED
  BY <1>1, Invariant, PTL


-----------------------------------------------------------------------------
(* A TcpConnection is a Connection *)

\* The first n bytes of the program's stream.
Stream(n) == [i \in 1 .. n |-> i]

\* Streams are sequences, and the start of one is one.
LEMMA StreamPrefix ==
    ASSUME NEW m \in Nat, NEW n \in 0 .. m
    PROVE  /\ Stream(m) \in Seq(Nat)
           /\ Len(Stream(m)) = m
           /\ SubSeq(Stream(m), 1, n) = Stream(n)
<1>1. ASSUME NEW k \in Nat
      PROVE  /\ Stream(k) \in Seq(Nat) /\ Len(Stream(k)) = k
             /\ \A i \in 1 .. k : Stream(k)[i] = i
  <2>1. Stream(k) \in [1 .. k -> Nat]
    BY DEF Stream
  <2>2. Stream(k) \in Seq(Nat)
    BY <2>1, SeqDef
  <2>3. DOMAIN Stream(k) = 1 .. k
    BY DEF Stream
  <2>4. Len(Stream(k)) = k
    BY <2>2, <2>3, LenProperties
  <2> QED
    BY <2>2, <2>4 DEF Stream
<1>2. n \in Nat /\ 1 \in 1 .. m + 1 /\ n \in 1 - 1 .. m
  OBVIOUS
<1> DEFINE s == Stream(m)
           p == SubSeq(s, 1, n)
           t == Stream(n)
<1>3. s \in Seq(Nat) /\ Len(s) = m /\ \A i \in 1 .. m : s[i] = i
  BY <1>1
<1>4. t \in Seq(Nat) /\ Len(t) = n /\ \A i \in 1 .. n : t[i] = i
  BY <1>1, <1>2
<1> HIDE DEF s, t
<1>5. /\ p \in Seq(Nat) /\ Len(p) = n - 1 + 1
      /\ \A i \in 1 .. n - 1 + 1 : p[i] = s[1 + i - 1]
  BY <1>2, <1>3, QueuePart
<1> HIDE DEF p
<1>6. Len(p) = n /\ \A i \in 1 .. n : p[i] = t[i]
  <2>1. n - 1 + 1 = n /\ \A i \in 1 .. n : 1 + i - 1 = i /\ i \in 1 .. m
    BY <1>2
  <2> QED
    BY <1>3, <1>4, <1>5, <2>1
<1>7. p = t
  BY <1>4, <1>5, <1>6, SeqEqual
<1> QED
  BY <1>3, <1>7 DEF s, t, p

\* What is on the wire is the start of the stream.
LEMMA WireIsStream ==
    ASSUME NEW w \in Seq(Nat), NEW b \in Seq(Nat), NEW m \in Nat,
           IsStream(w, b, m)
    PROVE  /\ Len(w) \in 0 .. m
           /\ w = Stream(Len(w))
           /\ b = <<>> => Len(w) = m
<1>1. Len(w) \in Nat /\ Len(b) \in Nat
  BY LenProperties
<1>2. m = Len(w) + Len(b) /\ \A i \in 1 .. Len(w) : w[i] = i
  BY DEF IsStream
<1>3. Len(w) \in 0 .. m
  <2>1. PICK x \in Nat, y \in Nat : x = Len(w) /\ y = Len(b)
    BY <1>1
  <2>2. x \in 0 .. m
    BY <1>2, <2>1
  <2> QED
    BY <2>1, <2>2
<1>4. w = Stream(Len(w))
  <2>1. Stream(Len(w)) \in Seq(Nat) /\ Len(Stream(Len(w))) = Len(w)
    <3>1. Len(w) \in 0 .. Len(w)
      BY <1>1
    <3> QED
      BY <1>1, <3>1, StreamPrefix
  <2>2. \A i \in 1 .. Len(w) : w[i] = Stream(Len(w))[i]
    BY <1>2 DEF Stream
  <2> QED
    BY <2>1, <2>2, SeqEqual
<1>5. b = <<>> => Len(w) = m
  <2>1. b = <<>> => Len(b) = 0
    BY EmptySeq
  <2> QED
    BY <1>1, <1>2, <2>1
<1> QED
  BY <1>3, <1>4, <1>5

\* The bytes on the wire only grow.
LEMMA WireGrows ==
    ASSUME TypeOK, [Next]_vars
    PROVE  Len(wire) <= Len(wire')
<1>a. wire \in Seq(Nat) /\ outBuf \in Seq(Nat) /\ accepted \in Nat
  <2>1. 1 .. MaxBytes \subseteq Nat /\ 0 .. MaxBytes \subseteq Nat
    BY BoundsAssumption
  <2> QED
    BY <2>1, SeqMonotonic DEF TypeOK
<1>b. ASSUME NEW e \in Seq(Nat)
      PROVE  Len(wire) <= Len(wire \o e)
  <2>1. Len(wire \o e) = Len(wire) + Len(e)
    BY <1>a, QueueConcat
  <2>2. Len(wire) \in Nat /\ Len(e) \in Nat
    BY <1>a, LenProperties
  <2> QED
    BY <2>1, <2>2
<1>c. wire' = wire => Len(wire) <= Len(wire')
  BY <1>a, LenProperties
<1>1. ASSUME NEW n \in 1 .. 2, Send(n)
      PROVE  Len(wire) <= Len(wire')
  <2> DEFINE d == Bytes(n)
  <2>1. d \in Seq(Nat) /\ Len(d) = n /\ n \in Nat
    <3>1. accepted + n <= MaxBytes /\ n \in Nat /\ 1 .. MaxBytes \subseteq Nat
      BY <1>1, SendKeeps, BoundsAssumption DEF Send
    <3> QED
      BY <1>a, <3>1, BytesNext, SeqMonotonic
  <2>2. \/ wire' = wire
        \/ wire' = wire \o d
        \/ \E k \in 0 .. n : wire' = wire \o SubSeq(d, 1, k)
    BY <1>1, SendCases
  <2> HIDE DEF d
  <2>3. ASSUME NEW k \in 0 .. n
        PROVE  SubSeq(d, 1, k) \in Seq(Nat)
    <3>1. 1 \in 1 .. Len(d) + 1 /\ k \in 1 - 1 .. Len(d)
      BY <2>1
    <3> QED
      BY <2>1, <3>1, QueuePart
  <2> QED
    BY <1>b, <1>c, <2>1, <2>2, <2>3
<1>2. CASE HandleWrite
  <2>1. \/ wire' = wire
        \/ \E n \in 1 .. Len(outBuf) : wire' = wire \o SubSeq(outBuf, 1, n)
    BY <1>2 DEF HandleWrite
  <2>2. ASSUME NEW n \in 1 .. Len(outBuf)
        PROVE  SubSeq(outBuf, 1, n) \in Seq(Nat)
    <3>1. 1 \in 1 .. Len(outBuf) + 1 /\ n \in 1 - 1 .. Len(outBuf)
      BY <1>a, LenProperties
    <3> QED
      BY <1>a, <3>1, QueuePart
  <2> QED
    BY <1>b, <1>c, <2>1, <2>2
<1>3. CASE ~HandleWrite /\ \A n \in 1 .. 2 : ~Send(n)
  BY <1>3, <1>c, StreamUnchanged
<1> QED
  BY <1>1, <1>2, <1>3

\* The refinement's view of the bytes, before a step and after it.
LEMMA StreamView ==
    ASSUME ConnectionInvariant, ConnectionInvariant', [Next]_vars
    PROVE  /\ accepted \in Nat /\ accepted' \in Nat
           /\ wire = Stream(Len(wire)) /\ wire' = Stream(Len(wire'))
           /\ Len(wire) \in 0 .. accepted
           /\ Len(wire') \in Len(wire) .. accepted'
           /\ outBuf = <<>> => wire = Stream(accepted)
<1>1. /\ wire \in Seq(Nat) /\ outBuf \in Seq(Nat) /\ accepted \in Nat
      /\ wire' \in Seq(Nat) /\ outBuf' \in Seq(Nat) /\ accepted' \in Nat
  <2>1. 1 .. MaxBytes \subseteq Nat /\ 0 .. MaxBytes \subseteq Nat
    BY BoundsAssumption
  <2> QED
    BY <2>1, SeqMonotonic DEF ConnectionInvariant, TypeOK
<1>2. IsStream(wire, outBuf, accepted) /\ IsStream(wire', outBuf', accepted')
  BY DEF ConnectionInvariant, StreamWhole, IsStream
<1>3. /\ Len(wire) \in 0 .. accepted /\ wire = Stream(Len(wire))
      /\ outBuf = <<>> => Len(wire) = accepted
  BY <1>1, <1>2, WireIsStream
<1>4. Len(wire') \in 0 .. accepted' /\ wire' = Stream(Len(wire'))
  BY <1>1, <1>2, WireIsStream
<1>5. Len(wire) <= Len(wire')
  BY WireGrows DEF ConnectionInvariant
<1>6. Len(wire') \in Len(wire) .. accepted'
  BY <1>1, <1>3, <1>4, <1>5
<1> QED
  BY <1>1, <1>3, <1>4, <1>6

\* Bytes given to the network are progress of the abstract connection.
LEMMA ProgressStep ==
    ASSUME ConnectionInvariant, ConnectionInvariant', [Next]_vars
    PROVE  Contract!Progress
<1>1. /\ accepted' \in Nat /\ accepted \in Nat
      /\ Len(wire) \in 0 .. accepted
      /\ wire' = Stream(Len(wire'))
      /\ Len(wire') \in Len(wire) .. accepted'
  BY StreamView
<1>2. Len(Stream(accepted')) = accepted' /\ Len(wire') \in 0 .. accepted'
  <2>1. accepted' \in 0 .. accepted'
    BY <1>1
  <2> QED
    BY <1>1, <2>1, StreamPrefix
<1>3. wire' = SubSeq(Stream(accepted'), 1, Len(wire'))
  BY <1>1, <1>2, StreamPrefix
<1>4. \E n \in Len(wire) .. Len(Stream(accepted')) :
         wire' = SubSeq(Stream(accepted'), 1, n)
  BY <1>1, <1>2, <1>3
<1> QED
  BY <1>4 DEF Contract!Progress, Stream

\* A step that leaves alone what the user can see of the connection.
LEMMA SeesNothing ==
    ASSUME UNCHANGED <<state, ups, downs, accepted, wire, shutW>>
    PROVE  UNCHANGED Contract!vars
BY DEF Contract!vars


\* What each move of the state is for the abstract connection.
LEMMA StateView ==
    ASSUME UNCHANGED <<accepted, wire>>
    PROVE  /\ /\ state = "kConnecting" /\ state' = "kConnected"
              /\ ups' = ups + 1 /\ downs' = downs /\ shutW' = shutW
              => Contract!ComeUp
           /\ /\ Open /\ state' = "kDisconnected"
              /\ ups' = ups /\ downs' = downs + 1 /\ shutW' = shutW
              => Contract!GoDown
           /\ /\ state = "kConnected" /\ state' = "kDisconnecting"
              /\ UNCHANGED <<ups, downs>>
              /\ shutW' = FALSE \/ (shutW' = TRUE /\ wire = Stream(accepted))
              => Contract!StopSending
           /\ /\ state = "kDisconnecting" /\ UNCHANGED <<state, ups, downs>>
              /\ shutW' = TRUE /\ wire = Stream(accepted)
              => Contract!Finish
<1>1. /\ state = "kConnecting" /\ state' = "kConnected"
      /\ ups' = ups + 1 /\ downs' = downs /\ shutW' = shutW
      => Contract!ComeUp
  BY DEF Contract!ComeUp
<1>2. /\ Open /\ state' = "kDisconnected"
      /\ ups' = ups /\ downs' = downs + 1 /\ shutW' = shutW
      => Contract!GoDown
  BY DEF Contract!GoDown, Open
<1>3. /\ state = "kConnected" /\ state' = "kDisconnecting"
      /\ UNCHANGED <<ups, downs>>
      /\ shutW' = FALSE \/ (shutW' = TRUE /\ wire = Stream(accepted))
      => Contract!StopSending
  BY DEF Contract!StopSending, Stream
<1>4. /\ state = "kDisconnecting" /\ UNCHANGED <<state, ups, downs>>
      /\ shutW' = TRUE /\ wire = Stream(accepted)
      => Contract!Finish
  BY DEF Contract!Finish, Stream
<1> QED
  BY <1>1, <1>2, <1>3, <1>4

\* Sending and writing: they move bytes and nothing else.
LEMMA BytesView ==
    ASSUME ConnectionInvariant, ConnectionInvariant', [Next]_vars
    PROVE  /\ \A n \in 1 .. 2 : Send(n) => Contract!Send
           /\ HandleWrite => Contract!Flush \/ UNCHANGED Contract!vars
<1>1. /\ accepted \in Nat /\ accepted' \in Nat /\ Contract!Progress
  BY StreamView, ProgressStep
<1>2. ASSUME NEW n \in 1 .. 2, Send(n)
      PROVE  Contract!Send
  <2>1. /\ state = "kConnected" /\ accepted' = accepted + n /\ n \in Nat /\ n > 0
        /\ UNCHANGED <<state, ups, downs, shutW>>
    BY <1>2 DEF Send
  <2>2. accepted \in 0 .. accepted' /\ accepted \in 0 .. accepted
        /\ accepted' > accepted
    BY <1>1, <2>1
  <2>3. /\ Len(Stream(accepted')) > Len(Stream(accepted))
        /\ SubSeq(Stream(accepted'), 1, Len(Stream(accepted))) = Stream(accepted)
    BY <1>1, <2>2, StreamPrefix
  <2> QED
    BY <1>1, <2>1, <2>3 DEF Contract!Send, Stream
<1>3. ASSUME HandleWrite
      PROVE  Contract!Flush \/ UNCHANGED Contract!vars
  <2>1. UNCHANGED <<state, accepted, ups, downs, shutW>>
    BY <1>3 DEF HandleWrite, history
  <2>2. CASE wire' = wire
    BY <2>1, <2>2, SeesNothing
  <2>3. CASE Writing
    <3>1. Open
      BY <2>3 DEF ConnectionInvariant, ReadsWhileOpen, Writing
    <3> QED
      BY <1>1, <2>1, <3>1 DEF Contract!Flush, Open
  <2> QED
    BY <1>3, <2>2, <2>3 DEF HandleWrite
<1> QED
  BY <1>2, <1>3

\* Every step of a TcpConnection is one of a Connection, or nothing its user sees.
LEMMA ConnectionStep ==
    ConnectionInvariant /\ ConnectionInvariant' /\ [Next]_vars
       => [Contract!Next]_(Contract!vars)
<1> SUFFICES ASSUME ConnectionInvariant, ConnectionInvariant', [Next]_vars
             PROVE  Contract!Next \/ UNCHANGED Contract!vars
  OBVIOUS
<1>a. /\ TypeOK /\ EstablishedOnce /\ ToldWithState /\ InterestExact
  BY DEF ConnectionInvariant
<1>b. ~Writing /\ Open => wire = Stream(accepted)
  BY <1>a, StreamView DEF InterestExact
<1>1. ASSUME NEW n \in 1 .. 2, Send(n)
      PROVE  Contract!Next
  BY <1>1, BytesView DEF Contract!Next
<1>2. CASE HandleWrite
  BY <1>2, BytesView DEF Contract!Next
<1>3. CASE ~HandleWrite /\ \A n \in 1 .. 2 : ~Send(n)
  <2>a. UNCHANGED <<accepted, wire>>
    BY <1>3, StreamUnchanged
  <2>1. CASE Shutdown
    <3>1. /\ state = "kConnected" /\ state' = "kDisconnecting"
          /\ UNCHANGED <<ups, downs>>
      BY <2>1 DEF Shutdown, history
    <3>2. shutW = FALSE
      BY <1>a, <3>1 DEF ToldWithState, TypeOK
    <3>3. shutW' = FALSE \/ (shutW' = TRUE /\ ~Writing)
      BY <2>1, <3>2 DEF Shutdown, ShutdownInLoop, ShutdownWrite
    <3> QED
      BY <1>b, <2>a, <3>1, <3>3, StateView DEF Contract!Next, Open
  <2>2. CASE AfterWrite
    <3>1. UNCHANGED <<state, ups, downs>>
      BY <2>2 DEF AfterWrite, history
    <3>2. \/ shutW' = shutW
          \/ state = "kDisconnecting" /\ ~Writing /\ shutW' = TRUE
      <4>1. shutW \in BOOLEAN
        BY <1>a DEF TypeOK
      <4> QED
        BY <2>2, <4>1 DEF AfterWrite, ShutdownInLoop, ShutdownWrite
    <3> QED
      BY <1>b, <2>a, <3>1, <3>2, StateView, SeesNothing DEF Contract!Next, Open
  <2>3. CASE ~Shutdown /\ ~AfterWrite
    <3>1. shutW' = shutW
      BY <2>3, ShutUnchanged
    <3> QED
      BY <1>a, <2>a, <2>3, <3>1, StateMoves, StateView, SeesNothing
         DEF Contract!Next
  <2> QED
    BY <2>1, <2>2, <2>3
<1> QED
  BY <1>1, <1>2, <1>3

\* The user is told once that the connection is up and at most once that it is
\* down, and the bytes accepted reach the socket once each and in order, none
\* behind the end of the stream: whatever part of them each write takes, and
\* from whatever callbacks the connection is used and closed.
THEOREM TcpConnectionIsConnection == Spec => ImplementsConnection
<1>1. Init => Contract!Init
  <2> SUFFICES ASSUME Init
               PROVE  Contract!Init
    OBVIOUS
  <2>1. [i \in 1 .. accepted |-> i] = <<>>
    BY DEF Init
  <2> QED
    BY <2>1 DEF Init, Contract!Init
<1> QED
  BY <1>1, Invariant, ConnectionStep, PTL
     DEF Spec, ImplementsConnection, Contract!Spec

=============================================================================
