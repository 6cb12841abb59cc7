--------------------------- MODULE TcpClient_proofs ---------------------------
(***************************************************************************)
(* Theorems about TcpClient and its Connector, for any number of             *)
(* descriptors and calls and any delays.                                     *)
(***************************************************************************)
EXTENDS TcpClient, QueueLemmas

-----------------------------------------------------------------------------
(* The queue of functors *)

In(g, q) == \E i \in DOMAIN q : q[i] = g
OnceIn(g, q) == \A i, j \in DOMAIN q : q[i] = g /\ q[j] = g => i = j

\* What push_back does to which functors wait and how often.
LEMMA AppendedWait ==
    ASSUME NEW S, NEW q \in Seq(S), NEW f \in S
    PROVE  /\ \A g : In(g, Append(q, f)) <=> In(g, q) \/ g = f
           /\ \A g : OnceIn(g, q) /\ (g = f => ~In(g, q)) => OnceIn(g, Append(q, f))
<1> DEFINE r == Append(q, f)
<1>1. /\ r \in Seq(S) /\ Len(r) = Len(q) + 1
      /\ \A i \in 1 .. Len(q) : r[i] = q[i]
      /\ r[Len(q) + 1] = f
  BY QueueAppend
<1>2. Len(q) \in Nat /\ DOMAIN q = 1 .. Len(q)
  BY QueuePlaces
<1> HIDE DEF r
<1>3. DOMAIN r = 1 .. Len(q) + 1
  BY <1>1, QueuePlaces
<1>4. \A i \in DOMAIN r : (i \in DOMAIN q /\ r[i] = q[i]) \/ (i = Len(q) + 1 /\ r[i] = f)
  BY <1>1, <1>2, <1>3
<1>5. \A i \in DOMAIN q : i \in DOMAIN r /\ r[i] = q[i]
  BY <1>1, <1>2, <1>3
<1>6. Len(q) + 1 \in DOMAIN r
  BY <1>2, <1>3
<1>7. \A g : In(g, r) <=> In(g, q) \/ g = f
  BY <1>1, <1>4, <1>5, <1>6 DEF In
<1>8. ASSUME NEW g, OnceIn(g, q), g = f => ~In(g, q),
             NEW i \in DOMAIN r, NEW j \in DOMAIN r, r[i] = g, r[j] = g
      PROVE  i = j
  BY <1>4, <1>8 DEF In, OnceIn
<1>9. \A g : OnceIn(g, q) /\ (g = f => ~In(g, q)) => OnceIn(g, r)
  BY <1>8 DEF OnceIn
<1> QED
  BY <1>7, <1>9 DEF r

\* What taking the first does.
LEMMA TakenWait ==
    ASSUME NEW S, NEW q \in Seq(S), q # <<>>
    PROVE  /\ In(Head(q), q)
           /\ \A g : In(g, Tail(q)) => In(g, q)
           /\ \A g : In(g, q) => In(g, Tail(q)) \/ g = Head(q)
           /\ \A g : OnceIn(g, q) => OnceIn(g, Tail(q))
           /\ OnceIn(Head(q), q) => ~In(Head(q), Tail(q))
<1> DEFINE r == Tail(q)
           h == Head(q)
<1>1. /\ h = q[1] /\ r \in Seq(S) /\ Len(q) >= 1 /\ Len(r) = Len(q) - 1
      /\ \A i \in 1 .. Len(q) - 1 : r[i] = q[i + 1]
  BY QueueTail
<1>2. Len(q) \in Nat /\ DOMAIN q = 1 .. Len(q)
  BY QueuePlaces
<1> HIDE DEF r, h
<1>3. DOMAIN r = 1 .. Len(q) - 1
  BY <1>1, QueuePlaces
<1>4. \A i \in DOMAIN r : i \in Nat /\ i + 1 \in DOMAIN q /\ i + 1 # 1 /\ r[i] = q[i + 1]
  BY <1>1, <1>2, <1>3
<1>5. \A i \in DOMAIN q : i = 1 \/ (i - 1 \in DOMAIN r /\ r[i - 1] = q[i])
  BY <1>1, <1>2, <1>3
<1>6. 1 \in DOMAIN q
  BY <1>1, <1>2
<1>7. In(h, q) /\ \A g : In(g, r) => In(g, q)
  BY <1>1, <1>4, <1>6 DEF In
<1>8. \A g : In(g, q) => In(g, r) \/ g = h
  BY <1>1, <1>5 DEF In
<1>9. ASSUME NEW g, OnceIn(g, q), NEW i \in DOMAIN r, NEW j \in DOMAIN r,
             r[i] = g, r[j] = g
      PROVE  i = j
  <2>1. i + 1 = j + 1
    BY <1>4, <1>9 DEF OnceIn
  <2> QED
    BY <1>4, <2>1
<1>10. OnceIn(h, q) => ~In(h, r)
  BY <1>1, <1>4, <1>6 DEF In, OnceIn
<1>11. \A g : OnceIn(g, q) => OnceIn(g, r)
  BY <1>9 DEF OnceIn
<1> QED
  BY <1>7, <1>8, <1>10, <1>11 DEF r, h

LEMMA WorkIsQueue ==
    ASSUME TypeOK
    PROVE  /\ running \in Seq(Functors) /\ functors \in Seq(Functors)
           /\ Work \in Seq(Functors)
<1>1. running \in Seq(Functors) /\ functors \in Seq(Functors)
  BY DEF TypeOK
<1> QED
  BY <1>1, RangeConcat DEF Work

\* Queueing a functor, and two.
LEMMA WorkQueued ==
    ASSUME NEW S, NEW b \in Seq(S), NEW p \in Seq(S), NEW f \in S
    PROVE  /\ b \o Append(p, f) = Append(b \o p, f)
           /\ b \o p \in Seq(S) /\ Append(b \o p, f) \in Seq(S)
<1>1. <<f>> \in Seq(S)
  OBVIOUS
<1>2. b \o p \in Seq(S)
  BY RangeConcat
<1>3. Append(p, f) = p \o <<f>> /\ Append(b \o p, f) = (b \o p) \o <<f>>
      /\ Append(b \o p, f) \in Seq(S)
  BY <1>2, QueueAppend
<1>4. b \o (p \o <<f>>) = (b \o p) \o <<f>>
  BY <1>1, ConcatAssociative
<1> QED
  BY <1>2, <1>3, <1>4

\* Taking the first of the batch.
LEMMA WorkTaken ==
    ASSUME NEW S, NEW b \in Seq(S), NEW p \in Seq(S), b # <<>>
    PROVE  /\ b \o p # <<>> /\ Head(b \o p) = Head(b)
           /\ Tail(b \o p) = Tail(b) \o p
           /\ Head(b) \in S /\ Tail(b) \in Seq(S)
           /\ b \o p \in Seq(S)
<1> DEFINE f == Head(b)
           t == Tail(b)
           one == <<f>>
<1>1. f \in S /\ t \in Seq(S) /\ b = one \o t
  BY QueueTail
<1> HIDE DEF f, t
<1>2. one \in Seq(S)
  BY <1>1
<1> HIDE DEF one
<1>3. b \o p = one \o (t \o p) /\ t \o p \in Seq(S)
  BY <1>1, <1>2, ConcatAssociative, RangeConcat
<1> DEFINE r == t \o p
<1> HIDE DEF r
<1>4. /\ <<f>> \o r # <<>> /\ Head(<<f>> \o r) = f /\ Tail(<<f>> \o r) = r
  BY <1>1, <1>3, QueuePush DEF r
<1>5. b \o p \in Seq(S)
  BY RangeConcat
<1> QED
  BY <1>1, <1>3, <1>4, <1>5 DEF r, f, t, one

\* The same of the program's queue: a step that queues f ...
LEMMA Queues ==
    ASSUME TypeOK, NEW f \in Functors, UNCHANGED running,
           functors' = Append(functors, f)
    PROVE  /\ functors' \in Seq(Functors)
           /\ \A g : Waits(g)' <=> Waits(g) \/ g = f
           /\ \A g : Once(g) /\ (g = f => ~Waits(g)) => Once(g)'
           /\ \A i \in DOMAIN Work' : Work'[i] = f \/ \E j \in DOMAIN Work : Work'[i] = Work[j]
<1>1. running \in Seq(Functors) /\ functors \in Seq(Functors) /\ Work \in Seq(Functors)
  BY WorkIsQueue
<1>2. Work' = Append(Work, f)
  BY <1>1, WorkQueued DEF Work
<1> DEFINE q == Work
           r == Append(q, f)
<1>3. /\ \A g : In(g, r) <=> In(g, q) \/ g = f
      /\ \A g : OnceIn(g, q) /\ (g = f => ~In(g, q)) => OnceIn(g, r)
  BY <1>1, AppendedWait
<1>4. \A g : (Waits(g) <=> In(g, q)) /\ (Once(g) <=> OnceIn(g, q))
  BY DEF Waits, Once, In, OnceIn
<1>5. Work' = r
  BY <1>2
<1> HIDE DEF q, r
<1>6. \A g : (Waits(g)' <=> In(g, r)) /\ (Once(g)' <=> OnceIn(g, r))
  BY <1>5 DEF Waits, Once, In, OnceIn
<1>7. \A i \in DOMAIN r : In(r[i], r)
  BY DEF In
<1>8. \A i \in DOMAIN r : r[i] = f \/ \E j \in DOMAIN q : r[i] = q[j]
  BY <1>3, <1>7 DEF In
<1>9. functors' \in Seq(Functors)
  BY <1>1, QueueAppend
<1> QED
  BY <1>3, <1>4, <1>5, <1>6, <1>8, <1>9 DEF q

\* ... one that runs the first of the batch ...
LEMMA Runs ==
    ASSUME TypeOK, running # <<>>, running' = Tail(running), UNCHANGED functors
    PROVE  /\ running' \in Seq(Functors)
           /\ Head(running) \in Functors /\ Waits(Head(running))
           /\ \A g : Waits(g)' => Waits(g)
           /\ \A g : Waits(g) => Waits(g)' \/ g = Head(running)
           /\ \A g : Once(g) => Once(g)'
           /\ Once(Head(running)) => \A g : g = Head(running) => ~Waits(g)'
           /\ \A i \in DOMAIN Work' : \E j \in DOMAIN Work : Work'[i] = Work[j]
<1>1. running \in Seq(Functors) /\ functors \in Seq(Functors) /\ Work \in Seq(Functors)
  BY WorkIsQueue
<1>2. /\ Work # <<>> /\ Head(Work) = Head(running) /\ Work' = Tail(Work)
      /\ Head(running) \in Functors /\ Tail(running) \in Seq(Functors)
  BY <1>1, WorkTaken DEF Work
<1> DEFINE q == Work
           r == Tail(q)
           h == Head(q)
<1>3. /\ In(h, q)
      /\ \A g : In(g, r) => In(g, q)
      /\ \A g : In(g, q) => In(g, r) \/ g = h
      /\ \A g : OnceIn(g, q) => OnceIn(g, r)
      /\ OnceIn(h, q) => ~In(h, r)
  BY <1>1, <1>2, TakenWait
<1>4. \A g : (Waits(g) <=> In(g, q)) /\ (Once(g) <=> OnceIn(g, q))
  BY DEF Waits, Once, In, OnceIn
<1>5. Work' = r /\ h = Head(running)
  BY <1>2
<1> HIDE DEF q, r, h
<1>6. \A g : (Waits(g)' <=> In(g, r)) /\ (Once(g)' <=> OnceIn(g, r))
  BY <1>5 DEF Waits, Once, In, OnceIn
<1>7. \A i \in DOMAIN r : In(r[i], r)
  BY DEF In
<1>8. \A i \in DOMAIN r : \E j \in DOMAIN q : r[i] = q[j]
  BY <1>3, <1>7 DEF In
<1>9. \A g : /\ Waits(g)' => Waits(g)
             /\ Waits(g) => Waits(g)' \/ g = Head(running)
             /\ Once(g) => Once(g)'
  BY <1>3, <1>4, <1>5, <1>6
<1>10. Waits(Head(running))
  BY <1>3, <1>4, <1>5
<1>11. Once(Head(running)) => \A g : g = Head(running) => ~Waits(g)'
  BY <1>3, <1>4, <1>5, <1>6
<1> QED
  BY <1>2, <1>5, <1>8, <1>9, <1>10, <1>11 DEF q

\* ... one that runs the first and queues another ...
LEMMA RunsAndQueues ==
    ASSUME TypeOK, running # <<>>, NEW f \in Functors, running' = Tail(running),
           functors' = Append(functors, f)
    PROVE  /\ running' \in Seq(Functors) /\ functors' \in Seq(Functors)
           /\ \A g : Waits(g)' => Waits(g) \/ g = f
           /\ \A g : Once(g) /\ g # f => Once(g)'
<1>1. running \in Seq(Functors) /\ functors \in Seq(Functors) /\ Work \in Seq(Functors)
  BY WorkIsQueue
<1>2. /\ Work # <<>> /\ Tail(Work) = Tail(running) \o functors
      /\ Tail(running) \in Seq(Functors)
  BY <1>1, WorkTaken DEF Work
<1> DEFINE q == Work
           t == Tail(q)
           r == Append(t, f)
<1>3. t \in Seq(Functors)
  BY <1>1, <1>2, QueueTail
<1>4. Work' = r
  <2>1. Tail(running) \o Append(functors, f) = Append(Tail(running) \o functors, f)
    BY <1>1, <1>2, WorkQueued
  <2>2. Work' = Tail(running) \o Append(functors, f)
    BY DEF Work
  <2> QED
    BY <1>2, <2>1, <2>2
<1>5. /\ \A g : In(g, t) => In(g, q)
      /\ \A g : OnceIn(g, q) => OnceIn(g, t)
  BY <1>1, <1>2, TakenWait
<1>6. \A g : (Waits(g) <=> In(g, q)) /\ (Once(g) <=> OnceIn(g, q))
  BY DEF Waits, Once, In, OnceIn
<1> HIDE DEF q, t
<1>7. /\ \A g : In(g, r) <=> In(g, t) \/ g = f
      /\ \A g : OnceIn(g, t) /\ (g = f => ~In(g, t)) => OnceIn(g, r)
  BY <1>3, AppendedWait
<1> HIDE DEF r
<1>8. \A g : (Waits(g)' <=> In(g, r)) /\ (Once(g)' <=> OnceIn(g, r))
  BY <1>4 DEF Waits, Once, In, OnceIn
<1>9. functors' \in Seq(Functors)
  BY <1>1, QueueAppend
<1> QED
  BY <1>2, <1>5, <1>6, <1>7, <1>8, <1>9

\* ... and one that leaves the queue alone, or begins a batch of all that wait.
LEMMA LeavesQueue ==
    ASSUME TypeOK,
           \/ UNCHANGED <<running, functors>>
           \/ running = <<>> /\ running' = functors /\ functors' = <<>>
    PROVE  /\ running' \in Seq(Functors) /\ functors' \in Seq(Functors)
           /\ Work' = Work
           /\ \A g : (Waits(g)' <=> Waits(g)) /\ (Once(g) => Once(g)')
<1>1. running \in Seq(Functors) /\ functors \in Seq(Functors)
  BY WorkIsQueue
<1>2. Work' = Work
  BY <1>1, ConcatEmptySeq DEF Work
<1>3. running' \in Seq(Functors) /\ functors' \in Seq(Functors)
  BY <1>1, EmptySeq
<1> QED
  BY <1>2, <1>3 DEF Waits, Once

\* The sockets of connections about to be destroyed.
LEMMA BeingClosedIs ==
    ASSUME TypeOK
    PROVE  BeingClosed = {s \in Sockets : Destroying(s)}
<1> DEFINE b == running
           p == functors
           w == b \o p
<1>1. b \in Seq(Functors) /\ p \in Seq(Functors)
  BY WorkIsQueue
<1>2. Work = w
  BY DEF Work
<1>3. \A s \in Sockets : s \in BeingClosed <=>
         \/ \E i \in DOMAIN b : b[i] = <<"connectDestroyed", s>>
         \/ \E i \in DOMAIN p : p[i] = <<"connectDestroyed", s>>
  BY DEF BeingClosed
<1> HIDE DEF b, p
<1>4. /\ w \in Seq(Functors) /\ Range(w) = Range(b) \cup Range(p)
  BY <1>1, RangeConcat
<1> HIDE DEF w
<1>5. \A g : g \in Range(w) <=> \E i \in DOMAIN w : w[i] = g
  BY <1>4, QueuePlaces
<1>6. \A g : g \in Range(b) <=> \E i \in DOMAIN b : b[i] = g
  BY <1>1, QueuePlaces
<1>7. \A g : g \in Range(p) <=> \E i \in DOMAIN p : p[i] = g
  BY <1>1, QueuePlaces
<1>8. \A s \in Sockets : s \in BeingClosed <=> Destroying(s)
  BY <1>2, <1>3, <1>4, <1>5, <1>6, <1>7 DEF Destroying, Waits
<1> QED
  BY <1>8 DEF BeingClosed

-----------------------------------------------------------------------------
(* Types *)

\* The delays that backoff reaches.
Delays == InitRetryDelay .. MaxRetryDelay

LEMMA BackoffDelay ==
    ASSUME NEW d \in Delays
    PROVE  Backoff(d) \in Delays /\ InitRetryDelay \in Delays
<1>1. /\ InitRetryDelay \in Nat /\ MaxRetryDelay \in Nat
      /\ InitRetryDelay <= MaxRetryDelay
  BY DelayAssumption
<1>2. d \in Nat /\ InitRetryDelay <= d /\ d <= MaxRetryDelay
  BY <1>1 DEF Delays
<1>3. 2 * d \in Nat /\ InitRetryDelay <= 2 * d
  BY <1>1, <1>2
<1> QED
  BY <1>1, <1>2, <1>3 DEF Backoff, Delays

\* The types of what the connector and the kernel have of an attempt.
AttemptTypes ==
    /\ state \in States /\ channel \in Sockets \cup {None}
    /\ writing \in BOOLEAN /\ delay \in Delays
    /\ watched \subseteq Sockets /\ open \subseteq Sockets
    /\ answer \in [Sockets -> {"none", "yes", "no"}] /\ fresh \in Nat

LEMMA TypesOfAttempt ==
    ASSUME TypeOK
    PROVE  AttemptTypes
BY DEF TypeOK, AttemptTypes, Delays

\* Beginning an attempt keeps them ...
LEMMA StartTypes ==
    ASSUME AttemptTypes, NEW st \in States, NEW c \in BOOLEAN, NEW d \in Delays,
           StartInLoop(st, c, d)
    PROVE  AttemptTypes'
<1>1. Backoff(d) \in Delays /\ InitRetryDelay \in Delays
  BY BackoffDelay
<1>2. CASE Attempt(d)
  BY <1>1, <1>2 DEF Attempt, AttemptTypes, States
<1>3. CASE AttemptFails(d)
  <2>1. fresh' \in Nat
    BY <1>3 DEF AttemptFails, AttemptTypes
  <2> QED
    BY <1>1, <1>3, <2>1 DEF AttemptFails, AttemptTypes, States
<1>4. CASE /\ state' = st /\ delay' = d
           /\ UNCHANGED <<channel, writing, kernel, fresh>>
  BY <1>4 DEF AttemptTypes, kernel
<1> QED
  BY <1>2, <1>3, <1>4 DEF StartInLoop

\* ... and so does ending one.
LEMMA RetryTypes ==
    ASSUME AttemptTypes, Retry
    PROVE  state' \in States /\ fresh' \in Nat /\ delay' \in Delays
<1>1. state \in States /\ fresh \in Nat /\ delay \in Delays
  BY DEF AttemptTypes
<1>2. PICK d \in Delays : d = delay
  BY <1>1
<1>3. Backoff(d) \in Delays
  BY BackoffDelay
<1> QED
  BY <1>1, <1>2, <1>3 DEF Retry, States

LEMMA StartStep ==
    ASSUME TypeOK,
           \/ Connect \/ RetryFires \/ RunStartInLoop \/ RemoveConnection
    PROVE  AttemptTypes'
<1>1. AttemptTypes
  BY TypesOfAttempt
<1>2. PICK st \in States : st = state
  BY DEF TypeOK
<1>3. PICK c \in BOOLEAN : c = connect
  BY DEF TypeOK
<1>4. PICK d \in Delays : d = delay
  BY DEF TypeOK, Delays
<1>5. InitRetryDelay \in Delays /\ "kDisconnected" \in States /\ TRUE \in BOOLEAN
  BY <1>4, BackoffDelay DEF States
<1>6. CASE Connect
  <2>1. StartInLoop(st, TRUE, d)
    BY <1>2, <1>4, <1>6 DEF Connect
  <2> QED
    BY <1>1, <1>5, <2>1, StartTypes
<1>7. CASE RetryFires \/ RunStartInLoop
  <2>1. StartInLoop(st, c, d)
    BY <1>2, <1>3, <1>4, <1>7 DEF RetryFires, RunStartInLoop
  <2> QED
    BY <1>1, <2>1, StartTypes
<1>8. CASE RemoveConnection /\ retry /\ wants
  <2>1. StartInLoop("kDisconnected", TRUE, InitRetryDelay)
    BY <1>8 DEF RemoveConnection, Restart
  <2> QED
    BY <1>1, <1>5, <2>1, StartTypes
<1>9. CASE RemoveConnection /\ ~(retry /\ wants)
  <2>1. UNCHANGED <<state, channel, writing, delay, kernel, fresh>>
    BY <1>9 DEF RemoveConnection, Restart
  <2> QED
    BY <1>1, <2>1 DEF AttemptTypes, kernel
<1> QED
  BY <1>6, <1>7, <1>8, <1>9

LEMMA HandleStep ==
    ASSUME TypeOK, HandleError \/ HandleWrite
    PROVE  AttemptTypes'
<1>1. AttemptTypes
  BY TypesOfAttempt
<1>2. answer' = answer
  BY DEF HandleError, HandleWrite, Handling
<1>3. CASE CloseAndRetry
  <2>1. state' \in States /\ fresh' \in Nat /\ delay' \in Delays
    BY <1>1, <1>3, RetryTypes DEF CloseAndRetry
  <2> QED
    BY <1>1, <1>2, <1>3, <2>1 DEF CloseAndRetry, RemoveAndResetChannel, Close,
       AttemptTypes
<1>4. CASE Connected
  <2>1. PICK d \in Delays : d = delay
    BY <1>1 DEF AttemptTypes
  <2>2. InitRetryDelay \in Delays
    BY BackoffDelay
  <2> QED
    BY <1>1, <1>2, <1>4, <2>2 DEF Connected, RemoveAndResetChannel, Close,
       NewConnection, AttemptTypes, States
<1>5. CASE Unexpected
  BY <1>1, <1>2, <1>5 DEF Unexpected, AttemptTypes
<1> QED
  BY <1>3, <1>4, <1>5 DEF HandleError, HandleWrite

LEMMA AttemptTypesStep ==
    ASSUME TypeOK, [Next]_vars
    PROVE  AttemptTypes'
<1>1. AttemptTypes
  BY TypesOfAttempt
<1>2. CASE Connect \/ RetryFires \/ RunStartInLoop \/ RemoveConnection
  BY <1>2, StartStep
<1>3. CASE HandleError \/ HandleWrite
  BY <1>3, HandleStep
<1>4. CASE Poll \/ DelayPasses
  BY <1>1, <1>4 DEF Poll, DelayPasses, AttemptTypes, connector, kernel
<1>5. CASE Destroy \/ RunStopInLoop \/ RunResetChannel \/ RunConnectDestroyed
  BY <1>1, <1>5 DEF Destroy, RunStopInLoop, StopInLoop, RunResetChannel,
     RunConnectDestroyed, Next1, RemoveAndResetChannel, Close, Calling, kernel,
     AttemptTypes, States
<1>6. CASE Accepts \/ Refuses
  BY <1>1, <1>6 DEF Accepts, Refuses, Answers, AttemptTypes, connector, timers
<1>7. CASE /\ ~Connect /\ ~RetryFires /\ ~RunStartInLoop /\ ~RemoveConnection
           /\ ~HandleError /\ ~HandleWrite /\ ~Poll /\ ~DelayPasses /\ ~Destroy
           /\ ~RunStopInLoop /\ ~RunResetChannel /\ ~RunConnectDestroyed
           /\ ~Accepts /\ ~Refuses
  <2>1. UNCHANGED <<state, channel, writing, delay, kernel, fresh>>
    BY <1>7 DEF Next, Loop, Calls, vars, connector, kernel, timers, Lost,
       Disconnect, Stop, ForceClose, Calling, DestroyAsserts, StartElsewhere,
       StopElsewhere, SwapFunctors, NextIteration, UserReturns,
       HandleEventReturns, HandleEventDangles, StopInLoopDerefsNull,
       FunctorDangles, QueueElsewhere, OtherCallback, ConnectionCloses,
       RetryDangles
  <2> QED
    BY <1>1, <2>1 DEF AttemptTypes, connector, kernel
<1> QED
  BY <1>2, <1>3, <1>4, <1>5, <1>6, <1>7

\* The callback about the end of a connection is on top of the stack.
LEMMA DownOnTop ==
    ASSUME TypeOK, ConnectionFits, stack # <<>>, Head(stack) = "down"
    PROVE  /\ connection \in Sockets /\ ~up /\ GoesDown(1) /\ 1 \in DOMAIN stack
           /\ \A i \in DOMAIN stack : i # 1 => ~GoesDown(i)
<1>1. stack \in Seq(Anywhere) /\ connection \in Sockets \cup {None}
  BY DEF TypeOK
<1>2. Head(stack) = stack[1] /\ Len(stack) >= 1
  BY <1>1, QueueTail
<1>3. 1 \in DOMAIN stack
  BY <1>1, <1>2, QueuePlaces
<1>4. GoesDown(1)
  BY <1>2 DEF GoesDown
<1>5. connection # None /\ \A j \in DOMAIN stack : GoesDown(j) => 1 = j
  BY <1>3, <1>4 DEF ConnectionFits
<1>6. ~up
  BY <1>3, <1>4 DEF ConnectionFits
<1> QED
  BY <1>1, <1>3, <1>4, <1>5, <1>6

\* Which functors the steps queue.
LEMMA QueueTypesStep ==
    ASSUME TypeOK, ConnectionFits, BatchFits, [Next]_vars
    PROVE  functors' \in Seq(Functors) /\ running' \in Seq(Functors)
<1> DEFINE reset == <<"resetChannel">>
           stop == <<"stopInLoop">>
<1>1. running \in Seq(Functors) /\ functors \in Seq(Functors)
  BY WorkIsQueue
<1>2. reset \in Functors /\ stop \in Functors
  BY DEF Functors
<1>3. \A s \in Sockets : <<"connectDestroyed", s>> \in Functors
  BY DEF Functors
<1>4. CASE Stop \/ RunStopInLoop \/ HandleError \/ HandleWrite
  <2>1. /\ functors' = functors \/ functors' = Append(functors, reset)
           \/ functors' = Append(functors, stop)
        /\ running' = running \/ (running # <<>> /\ running' = Tail(running))
    BY <1>4 DEF Stop, Calling, RunStopInLoop, StopInLoop, Next1, HandleError,
       HandleWrite, Handling, CloseAndRetry, Connected, Unexpected,
       RemoveAndResetChannel
  <2> HIDE DEF reset, stop
  <2>2. Append(functors, reset) \in Seq(Functors)
    BY <1>1, <1>2, QueueAppend
  <2>3. Append(functors, stop) \in Seq(Functors)
    BY <1>1, <1>2, QueueAppend
  <2>4. running # <<>> => Tail(running) \in Seq(Functors)
    BY <1>1, QueueTail
  <2> QED
    BY <1>1, <2>1, <2>2, <2>3, <2>4
<1>5. CASE Destroy
  <2> DEFINE one == Append(functors, stop)
             rest == IF connection = None THEN <<>>
                     ELSE <<<<"connectDestroyed", connection>>>>
  <2>1. functors' = one \o rest /\ running' = running
    BY <1>5 DEF Destroy, Calling
  <2>2. connection # None => connection \in Sockets
    BY DEF TypeOK
  <2>3. rest \in Seq(Functors)
    BY <1>3, <2>2
  <2>4. one \in Seq(Functors)
    BY <1>1, <1>2, QueueAppend
  <2> HIDE DEF one, rest
  <2> QED
    BY <1>1, <2>1, <2>3, <2>4, RangeConcat
<1>6. CASE RemoveConnection
  <2>1. PICK f : f = <<"connectDestroyed", connection>>
    OBVIOUS
  <2>2. f \in Functors
    BY <1>3, <1>6, <2>1, DownOnTop DEF RemoveConnection, InCallback
  <2>3. functors' = Append(functors, f) /\ running' = running
    BY <1>6, <2>1 DEF RemoveConnection
  <2> QED
    BY <1>1, <2>2, <2>3, QueueAppend
<1>7. CASE QueueElsewhere
  <2>1. PICK f : f = <<elsewhere>>
    OBVIOUS
  <2>2. f \in Functors
    BY <1>7, <2>1 DEF QueueElsewhere, TypeOK, Functors
  <2>3. functors' = Append(functors, f) /\ running' = running
    BY <1>7, <2>1 DEF QueueElsewhere
  <2> QED
    BY <1>1, <2>2, <2>3, QueueAppend
<1>8. CASE SwapFunctors
  <2>1. running' = functors /\ functors' = <<>>
    BY <1>8 DEF SwapFunctors
  <2> QED
    BY <1>1, <2>1, EmptySeq
<1>9. CASE RunStartInLoop \/ RunResetChannel \/ RunConnectDestroyed
  <2>1. running # <<>> /\ running' = Tail(running) /\ functors' = functors
    BY <1>9 DEF RunStartInLoop, RunResetChannel, RunConnectDestroyed, Next1
  <2> QED
    BY <1>1, <2>1, QueueTail
<1>10. CASE /\ ~Stop /\ ~RunStopInLoop /\ ~HandleError /\ ~HandleWrite
            /\ ~Destroy /\ ~RemoveConnection /\ ~QueueElsewhere
            /\ ~SwapFunctors /\ ~RunStartInLoop /\ ~RunResetChannel
            /\ ~RunConnectDestroyed
  <2>1. UNCHANGED <<functors, running>>
    BY <1>10 DEF Next, Loop, Calls, vars, Lost, Connect, Calling, Disconnect,
       ForceClose, DestroyAsserts, StartElsewhere, StopElsewhere, Poll,
       NextIteration, UserReturns, HandleEventReturns, HandleEventDangles,
       StopInLoopDerefsNull, FunctorDangles, OtherCallback, ConnectionCloses,
       DelayPasses, RetryFires, RetryDangles, Accepts, Refuses, Answers
  <2> QED
    BY <1>1, <2>1
<1> QED
  BY <1>4, <1>5, <1>6, <1>7, <1>8, <1>9, <1>10

\* How the stack of callbacks moves.
LEMMA StackStep ==
    ASSUME [Next]_vars
    PROVE  \/ stack' = stack
           \/ stack = <<>> /\ OtherCallback /\ stack' = <<"user">>
           \/ stack = <<>> /\ HandleWrite /\ Connected /\ connect /\ stack' = <<"up">>
           \/ stack = <<>> /\ ConnectionCloses /\ stack' = <<"down">>
           \/ ForceClose /\ stack' = <<"down">> \o stack
           \/ stack # <<>> /\ (UserReturns \/ RemoveConnection) /\ stack' = Tail(stack)
<1>1. CASE HandleError \/ HandleWrite
  BY <1>1 DEF HandleError, HandleWrite, Handling, Idle, CloseAndRetry,
     Connected, NewConnection, Unexpected
<1>2. CASE OtherCallback \/ ConnectionCloses \/ ForceClose
  BY <1>2 DEF OtherCallback, ConnectionCloses, ForceClose, Idle
<1>3. CASE UserReturns \/ RemoveConnection
  BY <1>3 DEF UserReturns, RemoveConnection, InCallback
<1>4. CASE /\ ~HandleError /\ ~HandleWrite /\ ~OtherCallback
           /\ ~ConnectionCloses /\ ~ForceClose /\ ~UserReturns
           /\ ~RemoveConnection
  BY <1>4 DEF Next, Loop, Calls, vars, Lost, Connect, Calling, Disconnect, Stop,
     Destroy, DestroyAsserts, StartElsewhere, StopElsewhere, QueueElsewhere,
     Poll, SwapFunctors, NextIteration, HandleEventReturns, HandleEventDangles,
     RunStartInLoop, RunStopInLoop, RunResetChannel, RunConnectDestroyed, Next1,
     StopInLoopDerefsNull, FunctorDangles, DelayPasses, RetryFires, RetryDangles, Accepts,
     Refuses, Answers
<1> QED
  BY <1>1, <1>2, <1>3, <1>4

LEMMA StackTypeStep ==
    ASSUME TypeOK, [Next]_vars
    PROVE  stack' \in Seq(Anywhere)
<1>1. stack \in Seq(Anywhere)
  BY DEF TypeOK
<1>2. "user" \in Anywhere /\ "up" \in Anywhere /\ "down" \in Anywhere
  BY DEF Anywhere
<1>3. <<"user">> \in Seq(Anywhere) /\ <<"up">> \in Seq(Anywhere)
      /\ <<"down">> \in Seq(Anywhere)
  BY <1>2
<1>4. <<"down">> \o stack \in Seq(Anywhere)
  BY <1>1, <1>2, QueuePush
<1>5. stack # <<>> => Tail(stack) \in Seq(Anywhere)
  BY <1>1, QueueTail
<1> QED
  BY <1>1, <1>3, <1>4, <1>5, StackStep

LEMMA FlagsStep ==
    ASSUME TypeOK, [Next]_vars
    PROVE  /\ connect' \in BOOLEAN /\ retry' \in BOOLEAN /\ wants' \in BOOLEAN
           /\ up' \in BOOLEAN /\ alive' \in BOOLEAN /\ asked' \in BOOLEAN
           /\ collected' \in BOOLEAN /\ stray' \in BOOLEAN /\ uses' = uses
<1>1. /\ connect \in BOOLEAN /\ retry \in BOOLEAN /\ wants \in BOOLEAN
      /\ up \in BOOLEAN /\ alive \in BOOLEAN /\ asked \in BOOLEAN
      /\ collected \in BOOLEAN /\ stray \in BOOLEAN
  BY DEF TypeOK
<1>2. UNCHANGED <<uses, retry>>
  BY DEF Next, Loop, Calls, vars, client, Lost, Connect, Calling, Disconnect,
     Stop, ForceClose, Destroy, DestroyAsserts, StartElsewhere, StopElsewhere,
     QueueElsewhere, Poll, SwapFunctors, NextIteration, UserReturns,
     RemoveConnection, HandleError, HandleWrite, Handling, HandleEventReturns,
     HandleEventDangles, RunStartInLoop, RunStopInLoop, RunResetChannel,
     RunConnectDestroyed, Next1, StopInLoopDerefsNull, FunctorDangles,
     OtherCallback, ConnectionCloses, DelayPasses, RetryFires, RetryDangles, Accepts,
     Refuses, Answers
<1>3. \/ UNCHANGED <<connect, wants>>
      \/ connect' = TRUE /\ UNCHANGED wants
      \/ connect' = TRUE /\ wants' = TRUE
      \/ connect' = FALSE /\ UNCHANGED wants
      \/ connect' = FALSE /\ wants' = FALSE
      \/ UNCHANGED connect /\ wants' = FALSE
  BY DEF Next, Loop, Calls, vars, client, connector, Lost, Connect, Calling,
     Disconnect, Stop, ForceClose, Destroy, DestroyAsserts, StartElsewhere,
     StopElsewhere, QueueElsewhere, Poll, SwapFunctors, NextIteration,
     UserReturns, RemoveConnection, Restart, HandleError, HandleWrite, Handling,
     HandleEventReturns, HandleEventDangles, RunStartInLoop, RunStopInLoop,
     RunResetChannel, RunConnectDestroyed, Next1, StopInLoopDerefsNull,
     FunctorDangles, OtherCallback, ConnectionCloses, DelayPasses, RetryFires, RetryDangles,
     Accepts, Refuses, Answers
<1>4. /\ up' = up \/ up' = TRUE \/ up' = FALSE
      /\ alive' = alive \/ alive' = FALSE
      /\ asked' = asked \/ asked' = FALSE \/ asked' = ~up
  BY DEF Next, Loop, Calls, vars, client, history, Lost, Connect, Calling,
     Disconnect, Stop, ForceClose, Destroy, DestroyAsserts, StartElsewhere,
     StopElsewhere, QueueElsewhere, Poll, SwapFunctors, NextIteration,
     UserReturns, RemoveConnection, HandleError, HandleWrite, Handling,
     CloseAndRetry, Connected, NewConnection, Unexpected, HandleEventReturns,
     HandleEventDangles, RunStartInLoop, RunStopInLoop, RunResetChannel,
     RunConnectDestroyed, Next1, StopInLoopDerefsNull, FunctorDangles,
     OtherCallback, ConnectionCloses, DelayPasses, RetryFires, RetryDangles, Accepts,
     Refuses, Answers
<1>5. \/ stray' = stray
      \/ stray' = (stray \/ channel \notin open)
      \/ stray' = (stray \/ Head(running)[2] \notin open)
  BY DEF Next, Loop, Calls, vars, history, Lost, Connect, Calling,
     Disconnect, Stop, ForceClose, Destroy, DestroyAsserts, StartElsewhere,
     StopElsewhere, QueueElsewhere, Poll, SwapFunctors, NextIteration,
     UserReturns, RemoveConnection, HandleError, HandleWrite, Handling, Close,
     CloseAndRetry, Connected, Unexpected, HandleEventReturns,
     HandleEventDangles, RunStartInLoop, RunStopInLoop, StopInLoop,
     RunResetChannel, RunConnectDestroyed, Next1, StopInLoopDerefsNull,
     FunctorDangles, OtherCallback, ConnectionCloses, DelayPasses, RetryFires, RetryDangles,
     Accepts, Refuses, Answers
<1>6. collected' \in {collected, TRUE, FALSE}
  BY DEF Next, Loop, Calls, vars, timers, Lost, Connect, Calling,
     Disconnect, Stop, ForceClose, Destroy, DestroyAsserts, StartElsewhere,
     StopElsewhere, QueueElsewhere, Poll, SwapFunctors, NextIteration,
     UserReturns, RemoveConnection, HandleError, HandleWrite, Handling,
     HandleEventReturns, HandleEventDangles, RunStartInLoop, RunStopInLoop,
     RunResetChannel, RunConnectDestroyed, Next1, StopInLoopDerefsNull,
     FunctorDangles, OtherCallback, ConnectionCloses, DelayPasses, RetryFires,
     RetryDangles, Accepts, Refuses, Answers
<1>7. collected' \in BOOLEAN /\ stray' \in BOOLEAN
  BY <1>1, <1>5, <1>6
<1>8. connect' \in BOOLEAN /\ wants' \in BOOLEAN
  BY <1>1, <1>3
<1>9. up' \in BOOLEAN /\ alive' \in BOOLEAN /\ asked' \in BOOLEAN
  BY <1>1, <1>4
<1> QED
  BY <1>1, <1>2, <1>7, <1>8, <1>9

\* Where the loop and the kernel's report are, and the bounds.
LEMMA DispatchStep ==
    ASSUME TypeOK, [Next]_vars
    PROVE  /\ connection' \in Sockets \cup {None}
           /\ reported' \in Sockets \cup {None}
           /\ revents' \subseteq {"err", "out"}
           /\ phase' \in {"poll", "batch", "handling", "functors"}
           /\ elsewhere' \in {"none", "startInLoop", "stopInLoop"}
           /\ proc' \in {"running", "assert", "null", "dangling"}
<1>1. /\ channel \in Sockets \cup {None} /\ connection \in Sockets \cup {None}
      /\ reported \in Sockets \cup {None} /\ revents \subseteq {"err", "out"}
      /\ watched \subseteq Sockets
      /\ phase \in {"poll", "batch", "handling", "functors"}
      /\ elsewhere \in {"none", "startInLoop", "stopInLoop"}
      /\ proc \in {"running", "assert", "null", "dangling"}
  BY DEF TypeOK
<1>2. connection' \in {connection, channel, None}
  BY DEF Next, Loop, Calls, vars, client, Lost, Connect, Calling, Disconnect,
     Stop, ForceClose, Destroy, DestroyAsserts, StartElsewhere, StopElsewhere,
     QueueElsewhere, Poll, SwapFunctors, NextIteration, UserReturns,
     RemoveConnection, HandleError, HandleWrite, Handling, CloseAndRetry,
     Connected, NewConnection, Unexpected, HandleEventReturns,
     HandleEventDangles, RunStartInLoop, RunStopInLoop, RunResetChannel,
     RunConnectDestroyed, Next1, StopInLoopDerefsNull, FunctorDangles,
     OtherCallback, ConnectionCloses, DelayPasses, RetryFires, RetryDangles, Accepts,
     Refuses, Answers
<1>3. /\ reported' = reported \/ reported' \in watched \/ reported' = None
      /\ revents' \subseteq revents \/ revents' \subseteq {"err", "out"}
      /\ phase' = phase \/ phase' \in {"poll", "batch", "handling", "functors"}
  BY DEF Next, Loop, Calls, vars, dispatch, Lost, Connect, Calling, Disconnect,
     Stop, ForceClose, Destroy, DestroyAsserts, StartElsewhere, StopElsewhere,
     QueueElsewhere, Poll, Answered, Reports, SwapFunctors, NextIteration,
     UserReturns, RemoveConnection, HandleError, HandleWrite, Handling,
     HandleEventReturns, HandleEventDangles, RunStartInLoop, RunStopInLoop,
     RunResetChannel, RunConnectDestroyed, Next1, StopInLoopDerefsNull,
     FunctorDangles, OtherCallback, ConnectionCloses, DelayPasses, RetryFires, RetryDangles,
     Accepts, Refuses, Answers
<1>4. /\ elsewhere' = elsewhere \/ elsewhere' \in {"none", "startInLoop", "stopInLoop"}
      /\ proc' = proc \/ proc' \in {"assert", "null", "dangling"}
  BY DEF Next, Loop, Calls, vars, Lost, Connect, Calling, Disconnect,
     Stop, ForceClose, Destroy, DestroyAsserts, StartElsewhere, StopElsewhere,
     QueueElsewhere, Poll, SwapFunctors, NextIteration, UserReturns,
     RemoveConnection, HandleError, HandleWrite, Handling, HandleEventReturns,
     HandleEventDangles, RunStartInLoop, RunStopInLoop, RunResetChannel,
     RunConnectDestroyed, Next1, StopInLoopDerefsNull, FunctorDangles,
     OtherCallback, ConnectionCloses, DelayPasses, RetryFires, RetryDangles, Accepts,
     Refuses, Answers
<1> QED
  BY <1>1, <1>2, <1>3, <1>4

\* The counters.
LEMMA CountersStep ==
    ASSUME TypeOK, [Next]_vars
    PROVE  due' \in Nat /\ calls' \in Nat
<1>1. due \in Nat /\ fresh \in Nat /\ calls \in Nat
  BY DEF TypeOK
<1>2. due' = due \/ due' = due + fresh \/ (due > 0 /\ due' = due - 1)
  BY DEF Next, Loop, Calls, vars, timers, Lost, Connect, Calling, Disconnect,
     Stop, ForceClose, Destroy, DestroyAsserts, StartElsewhere, StopElsewhere,
     QueueElsewhere, Poll, SwapFunctors, NextIteration, UserReturns,
     RemoveConnection, HandleError, HandleWrite, Handling, HandleEventReturns,
     HandleEventDangles, RunStartInLoop, RunStopInLoop, RunResetChannel,
     RunConnectDestroyed, Next1, StopInLoopDerefsNull, FunctorDangles,
     OtherCallback, ConnectionCloses, DelayPasses, RetryFires, RetryDangles, Accepts,
     Refuses, Answers
<1>3. calls' = calls \/ calls' = calls + 1
  BY DEF Next, Loop, Calls, vars, history, Lost, Connect, Calling, Disconnect,
     Stop, ForceClose, Destroy, DestroyAsserts, StartElsewhere, StopElsewhere,
     QueueElsewhere, Poll, SwapFunctors, NextIteration, UserReturns,
     RemoveConnection, HandleError, HandleWrite, Handling, HandleEventReturns,
     HandleEventDangles, RunStartInLoop, RunStopInLoop, RunResetChannel,
     RunConnectDestroyed, Next1, StopInLoopDerefsNull, FunctorDangles,
     OtherCallback, ConnectionCloses, DelayPasses, RetryFires, RetryDangles, Accepts,
     Refuses, Answers
<1> QED
  BY <1>1, <1>2, <1>3

LEMMA TypeStep ==
    ASSUME TypeOK, ConnectionFits, BatchFits, [Next]_vars
    PROVE  TypeOK'
<1>1. AttemptTypes'
  BY AttemptTypesStep
<1>2. functors' \in Seq(Functors) /\ running' \in Seq(Functors)
  BY QueueTypesStep
<1>3. stack' \in Seq(Anywhere)
  BY StackTypeStep
<1>4. /\ connect' \in BOOLEAN /\ retry' \in BOOLEAN /\ wants' \in BOOLEAN
      /\ up' \in BOOLEAN /\ alive' \in BOOLEAN /\ asked' \in BOOLEAN
      /\ collected' \in BOOLEAN /\ stray' \in BOOLEAN /\ uses' \in Programs
  BY FlagsStep DEF TypeOK
<1>5. writing' \in BOOLEAN
  BY <1>1 DEF AttemptTypes
<1>6. {connect, writing, retry, wants, up, alive, collected, asked, stray}' \subseteq BOOLEAN
  BY <1>4, <1>5
<1>7. due' \in Nat /\ calls' \in Nat /\ fresh' \in Nat
  BY <1>1, CountersStep DEF AttemptTypes
<1>8. {due, fresh, calls}' \subseteq Nat
  BY <1>7
<1>9. {functors, running}' \subseteq Seq(Functors)
  BY <1>2
<1>10. /\ connection' \in Sockets \cup {None}
       /\ reported' \in Sockets \cup {None}
       /\ revents' \subseteq {"err", "out"}
       /\ phase' \in {"poll", "batch", "handling", "functors"}
       /\ elsewhere' \in {"none", "startInLoop", "stopInLoop"}
       /\ proc' \in {"running", "assert", "null", "dangling"}
  BY DispatchStep
<1>11. {channel, connection, reported}' \subseteq Sockets \cup {None}
       /\ {watched, open}' \subseteq SUBSET Sockets
  BY <1>1, <1>10 DEF AttemptTypes
<1> QED
  BY <1>1, <1>3, <1>4, <1>6, <1>8, <1>9, <1>10, <1>11 DEF TypeOK, AttemptTypes, Delays

-----------------------------------------------------------------------------
(* Any program: the connection and those about to be destroyed *)

LEMMA BatchStep ==
    ASSUME TypeOK, BatchFits, [Next]_vars
    PROVE  BatchFits'
<1>1. CASE Idle("functors") /\ phase' = phase
  BY <1>1 DEF Idle, BatchFits
<1>2. CASE SwapFunctors
  BY <1>2 DEF SwapFunctors, BatchFits
<1>3. CASE NextIteration
  BY <1>3 DEF NextIteration, BatchFits
<1>4. CASE Poll
  BY <1>4 DEF Poll, Idle, BatchFits
<1>5. CASE HandleError \/ HandleWrite \/ HandleEventReturns
  BY <1>5 DEF HandleError, HandleWrite, Handling, HandleEventReturns, Idle, BatchFits
<1>6. CASE /\ ~SwapFunctors /\ ~NextIteration /\ ~Poll
           /\ ~HandleError /\ ~HandleWrite /\ ~HandleEventReturns
           /\ ~(Idle("functors") /\ phase' = phase)
  <2>1. UNCHANGED <<phase, running>>
    BY <1>6 DEF Next, Loop, Calls, vars, dispatch, Lost, Connect, Calling,
       Disconnect, Stop, ForceClose, Destroy, DestroyAsserts, StartElsewhere,
       StopElsewhere, QueueElsewhere, UserReturns, RemoveConnection,
       HandleEventDangles, RunStartInLoop, RunStopInLoop, RunResetChannel,
       RunConnectDestroyed, Next1, StopInLoopDerefsNull, FunctorDangles,
       OtherCallback, ConnectionCloses, DelayPasses, RetryFires, RetryDangles, Accepts,
       Refuses, Answers
  <2> QED
    BY <2>1 DEF BatchFits
<1> QED
  BY <1>1, <1>2, <1>3, <1>4, <1>5, <1>6

\* Only the end of a connection, or of the client, has connectDestroyed queued.
LEMMA DestroyingStep ==
    ASSUME TypeOK, BatchFits, [Next]_vars, ~RemoveConnection, ~Destroy
    PROVE  \A s \in Sockets :
              /\ Destroying(s)' => Destroying(s)
              /\ Once(<<"connectDestroyed", s>>) => Once(<<"connectDestroyed", s>>)'
<1> DEFINE reset == <<"resetChannel">>
           stop == <<"stopInLoop">>
           start == <<"startInLoop">>
           own(s) == <<"connectDestroyed", s>>
<1>1. reset \in Functors /\ stop \in Functors /\ start \in Functors
  BY DEF Functors
<1>2. \A s : own(s) # reset /\ own(s) # stop /\ own(s) # start
  OBVIOUS
<1>3. \A s : (Destroying(s) <=> Waits(own(s))) /\ (Destroying(s)' <=> Waits(own(s))')
  BY DEF Destroying
<1> HIDE DEF reset, stop, start, own
<1>4. ASSUME NEW f \in {reset, stop, start}, UNCHANGED running,
             functors' = Append(functors, f)
      PROVE  \A s \in Sockets : /\ Waits(own(s))' => Waits(own(s))
                                /\ Once(own(s)) => Once(own(s))'
  <2>1. f \in Functors /\ \A s : own(s) # f
    BY <1>1, <1>2, <1>4
  <2>2. /\ \A g : Waits(g)' <=> Waits(g) \/ g = f
        /\ \A g : Once(g) /\ (g = f => ~Waits(g)) => Once(g)'
    BY <1>4, <2>1, Queues
  <2> QED
    BY <2>1, <2>2
<1>5. ASSUME running # <<>>, running' = Tail(running), UNCHANGED functors
      PROVE  \A s \in Sockets : /\ Waits(own(s))' => Waits(own(s))
                                /\ Once(own(s)) => Once(own(s))'
  BY <1>5, Runs
<1>6. ASSUME \/ UNCHANGED <<running, functors>>
             \/ running = <<>> /\ running' = functors /\ functors' = <<>>
      PROVE  \A s \in Sockets : /\ Waits(own(s))' => Waits(own(s))
                                /\ Once(own(s)) => Once(own(s))'
  BY <1>6, LeavesQueue
<1>7. ASSUME running # <<>>, running' = Tail(running), functors' = Append(functors, reset)
      PROVE  \A s \in Sockets : /\ Waits(own(s))' => Waits(own(s))
                                /\ Once(own(s)) => Once(own(s))'
  <2>1. /\ \A g : Waits(g)' => Waits(g) \/ g = reset
        /\ \A g : Once(g) /\ g # reset => Once(g)'
    BY <1>1, <1>7, RunsAndQueues
  <2> QED
    BY <1>2, <2>1
<1>8. CASE Stop \/ HandleError \/ HandleWrite
  <2>1. /\ UNCHANGED running
        /\ \/ functors' = functors
           \/ functors' = Append(functors, reset)
           \/ functors' = Append(functors, stop)
    BY <1>8 DEF Stop, Calling, HandleError, HandleWrite, Handling,
       CloseAndRetry, Connected, Unexpected, RemoveAndResetChannel, reset, stop
  <2> QED
    BY <1>3, <1>4, <1>6, <2>1 DEF own
<1>9. CASE QueueElsewhere
  <2>1. PICK f : f = <<elsewhere>>
    OBVIOUS
  <2>2. f \in {reset, stop, start}
    BY <1>9, <2>1 DEF QueueElsewhere, TypeOK, reset, stop, start
  <2>3. UNCHANGED running /\ functors' = Append(functors, f)
    BY <1>9, <2>1 DEF QueueElsewhere
  <2> QED
    BY <1>3, <1>4, <2>2, <2>3 DEF own
<1>10. CASE RunStartInLoop \/ RunStopInLoop \/ RunResetChannel \/ RunConnectDestroyed
  <2>1. /\ running # <<>> /\ running' = Tail(running)
        /\ functors' = functors \/ functors' = Append(functors, reset)
    BY <1>10 DEF RunStartInLoop, RunStopInLoop, StopInLoop, RunResetChannel,
       RunConnectDestroyed, RemoveAndResetChannel, Next1, reset
  <2> QED
    BY <1>3, <1>5, <1>7, <2>1 DEF own
<1>11. CASE SwapFunctors
  <2>1. running = <<>> /\ running' = functors /\ functors' = <<>>
    BY <1>11 DEF SwapFunctors, Idle, BatchFits
  <2> QED
    BY <1>3, <1>6, <2>1 DEF own
<1>12. CASE /\ ~Stop /\ ~HandleError /\ ~HandleWrite /\ ~QueueElsewhere
            /\ ~RunStartInLoop /\ ~RunStopInLoop /\ ~RunResetChannel
            /\ ~RunConnectDestroyed /\ ~SwapFunctors
  <2>1. UNCHANGED <<functors, running>>
    BY <1>12 DEF Next, Loop, Calls, vars, Lost, Connect, Calling, Disconnect,
       ForceClose, DestroyAsserts, StartElsewhere, StopElsewhere, Poll,
       NextIteration, UserReturns, HandleEventReturns, HandleEventDangles,
       StopInLoopDerefsNull, FunctorDangles, OtherCallback, ConnectionCloses,
       DelayPasses, RetryFires, RetryDangles, Accepts, Refuses, Answers
  <2> QED
    BY <1>3, <1>6, <2>1 DEF own
<1> QED
  BY <1>8, <1>9, <1>10, <1>11, <1>12

\* What connectDestroyed lets go of.
LEMMA RunsDestroyed ==
    ASSUME TypeOK, running # <<>>, Head(running)[1] = "connectDestroyed"
    PROVE  /\ Head(running)[2] \in Sockets
           /\ Head(running) = <<"connectDestroyed", Head(running)[2]>>
<1>1. Head(running) \in Functors
  BY WorkIsQueue, QueueTail
<1> QED
  BY <1>1 DEF Functors

LEMMA ConnectDestroyedDoes ==
    ASSUME TypeOK, DestroyedFit, RunConnectDestroyed
    PROVE  \E s \in Sockets :
              /\ Destroying(s) /\ ~Destroying(s)'
              /\ \A t \in Sockets : t # s => (Destroying(t)' <=> Destroying(t))
              /\ open' = open \ {s} /\ s \in open /\ stray' = stray
              /\ s # connection /\ ~(state = "kConnecting" /\ s = channel)
<1>1. /\ running # <<>> /\ running' = Tail(running) /\ UNCHANGED functors
      /\ Head(running)[1] = "connectDestroyed"
      /\ Close(Head(running)[2])
  BY DEF RunConnectDestroyed, Next1
<1>2. PICK s \in Sockets : Head(running) = <<"connectDestroyed", s>>
  BY <1>1, RunsDestroyed
<1> DEFINE own(t) == <<"connectDestroyed", t>>
<1>3. \A t : own(t) = own(s) => t = s
  OBVIOUS
<1>4. \A t : (Destroying(t) <=> Waits(own(t))) /\ (Destroying(t)' <=> Waits(own(t))')
  BY DEF Destroying
<1>5. Once(own(s)) /\ Head(running) = own(s)
  BY <1>2 DEF DestroyedFit
<1>6. Head(running)[2] = s
  BY <1>2
<1> HIDE DEF own
<1>7. /\ Waits(own(s)) /\ ~Waits(own(s))'
      /\ \A g : Waits(g)' => Waits(g)
      /\ \A g : Waits(g) => Waits(g)' \/ g = own(s)
  BY <1>1, <1>5, Runs
<1>8. Destroying(s) /\ ~Destroying(s)' /\ \A t \in Sockets : t # s => (Destroying(t)' <=> Destroying(t))
  BY <1>3, <1>4, <1>7
<1>9. s \in open /\ s # connection /\ ~(state = "kConnecting" /\ s = channel)
  BY <1>8 DEF DestroyedFit
<1>10. open' = open \ {s} /\ stray' = stray
  BY <1>1, <1>6, <1>9 DEF Close, TypeOK
<1> QED
  BY <1>8, <1>9, <1>10

\* What the end of a connection queues.
LEMMA RemoveConnectionDoes ==
    ASSUME TypeOK, ConnectionFits, DestroyedFit, RemoveConnection
    PROVE  /\ connection \in Sockets /\ ~Destroying(connection)
           /\ \A s \in Sockets : Destroying(s)' <=> Destroying(s) \/ s = connection
           /\ \A s \in Sockets : Once(<<"connectDestroyed", s>>)'
           /\ \A g : g[1] # "connectDestroyed" =>
                 (Waits(g)' <=> Waits(g)) /\ (Once(g) => Once(g)')
<1>1. PICK c : c = connection
  OBVIOUS
<1>2. c \in Sockets
  BY <1>1, DownOnTop DEF RemoveConnection, InCallback
<1>3. ~Destroying(c)
  BY <1>1, <1>2 DEF DestroyedFit
<1> DEFINE own(t) == <<"connectDestroyed", t>>
<1>4. \A t : own(t) = own(c) => t = c
  OBVIOUS
<1>5. \A t : (Destroying(t) <=> Waits(own(t))) /\ (Destroying(t)' <=> Waits(own(t))')
  BY DEF Destroying
<1>6. \A g : g[1] # "connectDestroyed" => g # own(c)
  OBVIOUS
<1>7. own(c) \in Functors
  BY <1>2 DEF Functors
<1>8. functors' = Append(functors, own(c)) /\ UNCHANGED running
  BY <1>1 DEF RemoveConnection
<1>9. \A s \in Sockets : Once(own(s))
  BY DEF DestroyedFit
<1> HIDE DEF own
<1>10. /\ \A g : Waits(g)' <=> Waits(g) \/ g = own(c)
       /\ \A g : Once(g) /\ (g = own(c) => ~Waits(g)) => Once(g)'
  BY <1>7, <1>8, Queues
<1>11. \A s \in Sockets : Destroying(s)' <=> Destroying(s) \/ s = c
  BY <1>4, <1>5, <1>10
<1>12. \A s \in Sockets : Once(own(s))'
  BY <1>3, <1>4, <1>5, <1>9, <1>10
<1>13. \A g : g[1] # "connectDestroyed" =>
          (Waits(g)' <=> Waits(g)) /\ (Once(g) => Once(g)')
  BY <1>6, <1>10
<1> QED
  BY <1>1, <1>2, <1>3, <1>11, <1>12, <1>13 DEF own

\* What the destructor of the client queues.
LEMMA DestroyDoes ==
    ASSUME TypeOK, DestroyedFit, Destroy
    PROVE  \A s \in Sockets :
              /\ Destroying(s)' => Destroying(s) \/ s = connection
              /\ Once(<<"connectDestroyed", s>>)'
<1> DEFINE stop == <<"stopInLoop">>
           own(t) == <<"connectDestroyed", t>>
           w == Work
           one == Append(w, stop)
<1>1. PICK c \in Sockets \cup {None} : c = connection
  BY DEF TypeOK
<1> DEFINE two == Append(one, own(c))
<1>2. stop \in Functors /\ \A s \in Sockets : own(s) \in Functors
  BY DEF Functors
<1>3. \A s : own(s) # stop /\ \A t : own(s) = own(t) => s = t
  OBVIOUS
<1>4. running \in Seq(Functors) /\ functors \in Seq(Functors) /\ w \in Seq(Functors)
  BY WorkIsQueue
<1>5. \A s \in Sockets : OnceIn(own(s), w) /\ (In(own(s), w) <=> Destroying(s))
  BY DEF DestroyedFit, Once, OnceIn, In, Destroying, Waits
<1>6. c # None => ~In(own(c), w)
  BY <1>1, <1>5 DEF DestroyedFit
<1>7. Work' = IF c = None THEN one ELSE two
  <2> DEFINE p == Append(functors, stop)
  <2>1. running' = running /\ functors' = p \o IF c = None THEN <<>> ELSE <<own(c)>>
    BY <1>1 DEF Destroy, Calling
  <2>2. p \in Seq(Functors) /\ running \o p = one
    BY <1>2, <1>4, WorkQueued DEF Work
  <2> HIDE DEF p
  <2>2a. p \in Seq(Functors)
    BY <1>2, <1>4, QueueAppend DEF p
  <2>3. CASE c = None
    <3>1. functors' = p
      BY <2>1, <2>2a, <2>3, ConcatEmptySeq
    <3> QED
      BY <2>1, <2>2, <2>3, <3>1 DEF Work
  <2>4. CASE c # None
    <3>1. own(c) \in Functors
      BY <1>1, <1>2, <2>4
    <3>2. functors' = p \o <<own(c)>>
      BY <2>1, <2>4
    <3> HIDE DEF own
    <3>3. functors' = Append(p, own(c))
      BY <2>2a, <3>1, <3>2, QueueAppend
    <3>4. running \o Append(p, own(c)) = Append(running \o p, own(c))
      BY <1>4, <2>2a, <3>1, WorkQueued
    <3> QED
      BY <2>1, <2>2, <2>4, <3>3, <3>4 DEF Work, own
  <2> QED
    BY <2>3, <2>4
<1> HIDE DEF w
<1>8. /\ one \in Seq(Functors)
      /\ \A g : In(g, one) <=> In(g, w) \/ g = stop
      /\ \A g : OnceIn(g, w) /\ (g = stop => ~In(g, w)) => OnceIn(g, one)
  BY <1>2, <1>4, AppendedWait, QueueAppend
<1> HIDE DEF one, stop
<1>9. ASSUME c # None
      PROVE  /\ \A g : In(g, two) <=> In(g, one) \/ g = own(c)
             /\ \A g : OnceIn(g, one) /\ (g = own(c) => ~In(g, one)) => OnceIn(g, two)
  <2>1. own(c) \in Functors
    BY <1>1, <1>2, <1>9
  <2> HIDE DEF own
  <2> QED
    BY <1>8, <2>1, AppendedWait
<1> HIDE DEF own, two
<1> DEFINE r == IF c = None THEN one ELSE two
<1>10. \A s \in Sockets : /\ In(own(s), r) => In(own(s), w) \/ s = c
                          /\ OnceIn(own(s), r)
  BY <1>1, <1>3, <1>5, <1>6, <1>8, <1>9
<1>11. Work' = r
  BY <1>7
<1> HIDE DEF r
<1>12. \A s \in Sockets : /\ Destroying(s)' <=> In(own(s), r)
                          /\ Once(own(s))' <=> OnceIn(own(s), r)
  BY <1>11 DEF Destroying, Waits, Once, In, OnceIn, own
<1> QED
  BY <1>1, <1>5, <1>10, <1>12 DEF own

\* Going down one callback, and up.
LEMMA Popped ==
    ASSUME TypeOK, stack # <<>>, stack' = Tail(stack)
    PROVE  \A i \in DOMAIN stack' :
              /\ i \in Nat /\ i + 1 \in DOMAIN stack /\ i + 1 # 1
              /\ GoesDown(i)' <=> GoesDown(i + 1)
<1>1. stack \in Seq(Anywhere)
  BY DEF TypeOK
<1>2. /\ Tail(stack) \in Seq(Anywhere) /\ Len(stack) >= 1
      /\ Len(Tail(stack)) = Len(stack) - 1
      /\ \A i \in 1 .. Len(stack) - 1 : Tail(stack)[i] = stack[i + 1]
  BY <1>1, QueueTail
<1>3. Len(stack) \in Nat /\ DOMAIN stack = 1 .. Len(stack)
  BY <1>1, QueuePlaces
<1>4. DOMAIN stack' = 1 .. Len(stack) - 1
  BY <1>2, QueuePlaces
<1>5. \A i \in 1 .. Len(stack) - 1 :
         i \in Nat /\ i + 1 \in 1 .. Len(stack) /\ i + 1 # 1
  BY <1>3
<1> QED
  BY <1>2, <1>3, <1>4, <1>5 DEF GoesDown

LEMMA Pushed ==
    ASSUME TypeOK, \A i \in DOMAIN stack : ~GoesDown(i), stack' = <<"down">> \o stack
    PROVE  \A i \in DOMAIN stack' : GoesDown(i)' => i = 1
<1>1. stack \in Seq(Anywhere) /\ <<"down">> \in Seq(Anywhere) /\ Len(<<"down">>) = 1
  BY DEF TypeOK, Anywhere
<1> DEFINE d == <<"down">>
           q == stack
           r == d \o q
<1>2. Len(q) \in Nat /\ DOMAIN q = 1 .. Len(q)
  BY <1>1, QueuePlaces
<1> HIDE DEF d, q
<1>3. /\ r \in Seq(Anywhere) /\ Len(r) = 1 + Len(q)
      /\ \A i \in 1 .. Len(q) : r[1 + i] = q[i]
  BY <1>1, QueueConcat DEF d, q
<1> HIDE DEF r
<1>4. DOMAIN r = 1 .. 1 + Len(q)
  BY <1>3, QueuePlaces
<1>5. ASSUME NEW i \in DOMAIN r, i # 1
      PROVE  i - 1 \in DOMAIN q /\ r[i] = q[i - 1]
  <2>1. i - 1 \in 1 .. Len(q) /\ 1 + (i - 1) = i
    BY <1>2, <1>4, <1>5
  <2> QED
    BY <1>2, <1>3, <2>1
<1>6. stack' = r
  BY DEF r, d, q
<1> QED
  BY <1>5, <1>6 DEF GoesDown, q

LEMMA OneFrame ==
    ASSUME NEW f \in Anywhere, stack' = <<f>>
    PROVE  \A i \in DOMAIN stack' : i = 1 /\ (GoesDown(i)' <=> f = "down")
BY DEF GoesDown

\* What comes of an attempt.
Rested == UNCHANGED <<channel, watched, open, fresh>>
Failed ==
    /\ state' = "kDisconnected" /\ channel' = None
    /\ watched' = watched \ {channel} /\ open' = open /\ fresh' = fresh + 1
Began(s) ==
    /\ state' = "kConnecting" /\ channel' = s
    /\ watched' = (watched \ {channel}) \cup {s} /\ open' = open \cup {s}
    /\ fresh' = fresh

LEMMA StartDoes ==
    ASSUME NEW st, NEW c \in BOOLEAN, NEW d, StartInLoop(st, c, d)
    PROVE  \/ ~(st = "kDisconnected" /\ c) /\ state' = st /\ Rested
           \/ /\ st = "kDisconnected" /\ c
              /\ Failed \/ \E s \in Sockets \ open : Began(s)
<1>1. CASE Attempt(d)
  BY <1>1 DEF StartInLoop, Attempt, Began, Rested, kernel
<1>2. CASE AttemptFails(d)
  BY <1>2 DEF StartInLoop, AttemptFails, Failed, Rested, kernel
<1>3. CASE ~Attempt(d) /\ ~AttemptFails(d)
  BY <1>3 DEF StartInLoop, Rested, kernel
<1> QED
  BY <1>1, <1>2, <1>3

\* The steps that may begin one ...
LEMMA StartsDo ==
    ASSUME TypeOK, Connect \/ RetryFires \/ RunStartInLoop
    PROVE  \/ state' = state /\ Rested
           \/ /\ state = "kDisconnected"
              /\ Failed \/ \E s \in Sockets \ open : Began(s)
<1>1. PICK st : st = state
  OBVIOUS
<1>2. PICK c \in BOOLEAN : c = connect
  BY DEF TypeOK
<1>3. PICK d : d = delay
  OBVIOUS
<1>4. StartInLoop(st, TRUE, d) \/ StartInLoop(st, c, d)
  BY <1>1, <1>2, <1>3 DEF Connect, RetryFires, RunStartInLoop
<1> QED
  BY <1>1, <1>4, StartDoes

\* ... and the end of a connection, after which the client may try again.
LEMMA RestartDoes ==
    ASSUME TypeOK, RemoveConnection
    PROVE  \/ ~(retry /\ wants) /\ UNCHANGED <<state, connect>> /\ Rested
           \/ /\ retry /\ wants /\ connect' = TRUE
              /\ Failed \/ \E s \in Sockets \ open : Began(s)
<1>1. CASE retry /\ wants
  <2>1. StartInLoop("kDisconnected", TRUE, InitRetryDelay) /\ connect' = TRUE
    BY <1>1 DEF RemoveConnection, Restart
  <2> QED
    BY <1>1, <2>1, StartDoes
<1>2. CASE ~(retry /\ wants)
  BY <1>2 DEF RemoveConnection, Restart, Rested, kernel
<1> QED
  BY <1>1, <1>2

\* What the handlers of an attempt do.
LEMMA HandlesDo ==
    ASSUME HandleError \/ HandleWrite
    PROVE  /\ Idle("batch") \/ Idle("handling")
           /\ reported # None /\ reported = channel
           /\ \/ Unexpected /\ state # "kConnecting"
              \/ CloseAndRetry /\ state = "kConnecting"
              \/ /\ HandleWrite /\ Connected
                 /\ state = "kConnecting" /\ channel \in open
<1>1. CASE HandleError
  BY <1>1 DEF HandleError, Handling
<1>2. CASE HandleWrite
  <2>1. /\ Idle("batch") \/ Idle("handling")
        /\ reported # None /\ reported = channel
    BY <1>2 DEF HandleWrite, Handling
  <2>2. CASE state # "kConnecting"
    BY <1>2, <2>1, <2>2 DEF HandleWrite
  <2>3. CASE state = "kConnecting" /\ SocketError
    BY <1>2, <2>1, <2>3 DEF HandleWrite
  <2>4. CASE state = "kConnecting" /\ ~SocketError
    BY <1>2, <2>1, <2>4 DEF HandleWrite, SocketError
  <2> QED
    BY <2>2, <2>3, <2>4
<1> QED
  BY <1>1, <1>2

LEMMA ConnectionStep ==
    ASSUME TypeOK, ConnectionFits, DestroyedFit, [Next]_vars
    PROVE  ConnectionFits'
<1>1. /\ connection # None => state = "kConnected" /\ connection \in open
      /\ up => connection # None /\ \A i \in DOMAIN stack : ~GoesDown(i)
      /\ \A i \in DOMAIN stack : GoesDown(i) => connection # None
      /\ \A i, j \in DOMAIN stack : GoesDown(i) /\ GoesDown(j) => i = j
  BY DEF ConnectionFits
<1>2. (UNCHANGED stack) =>
         /\ DOMAIN stack' = DOMAIN stack
         /\ \A i \in DOMAIN stack : GoesDown(i)' <=> GoesDown(i)
  BY DEF GoesDown
<1>3. CASE Connect \/ RetryFires \/ RunStartInLoop
  <2>1. UNCHANGED <<connection, up, stack>>
    BY <1>3 DEF Connect, Calling, RetryFires, RunStartInLoop, Next1, client
  <2>2. connection # None => state' = state /\ open' = open
    BY <1>1, <1>3, StartsDo DEF Rested
  <2> QED
    BY <1>1, <1>2, <2>1, <2>2 DEF ConnectionFits
<1>4. CASE RemoveConnection
  <2>1. /\ stack # <<>> /\ Head(stack) = "down" /\ stack' = Tail(stack)
        /\ connection' = None /\ up' = up
    BY <1>4 DEF RemoveConnection, InCallback
  <2>2. ~up /\ \A i \in DOMAIN stack : i # 1 => ~GoesDown(i)
    <3>1. stack # <<>> /\ Head(stack) = "down"
      BY <2>1
    <3> QED
      BY <3>1, DownOnTop
  <2>3. \A i \in DOMAIN stack' :
           i + 1 \in DOMAIN stack /\ i + 1 # 1 /\ (GoesDown(i)' <=> GoesDown(i + 1))
    BY <2>1, Popped
  <2>4. \A i \in DOMAIN stack' : ~GoesDown(i)'
    BY <2>2, <2>3
  <2> QED
    BY <2>1, <2>2, <2>4 DEF ConnectionFits
<1>5. CASE HandleError \/ HandleWrite
  <2>1. /\ Idle("batch") \/ Idle("handling")
        /\ reported # None /\ reported = channel
    BY <1>5, HandlesDo
  <2>2. CASE Unexpected
    BY <1>1, <1>2, <2>2 DEF Unexpected, ConnectionFits
  <2>3. CASE CloseAndRetry /\ state = "kConnecting"
    BY <1>1, <1>2, <2>3 DEF CloseAndRetry, ConnectionFits
  <2>4. CASE /\ Connected /\ state = "kConnecting" /\ channel \in open
             /\ ~connect
    BY <1>1, <1>2, <2>4 DEF Connected, ConnectionFits
  <2>5. CASE /\ Connected /\ state = "kConnecting" /\ channel \in open
             /\ connect
    <3>1. /\ state' = "kConnected" /\ connection' = channel /\ open' = open
          /\ stack' = <<"up">>
      BY <2>5 DEF Connected, NewConnection
    <3>2. \A i \in DOMAIN stack' : ~GoesDown(i)'
      BY <3>1, OneFrame DEF Anywhere
    <3> QED
      BY <2>1, <2>5, <3>1, <3>2 DEF ConnectionFits
  <2> QED
    BY <1>5, <2>2, <2>3, <2>4, <2>5, HandlesDo
<1>7. CASE Destroy
  <2>1. /\ connection' = None /\ up' = FALSE /\ UNCHANGED stack
        /\ Len(stack) = 1 /\ Head(stack) = "user" /\ stack # <<>>
    BY <1>7 DEF Destroy, Calling, InCallback
  <2>2. stack \in Seq(Anywhere)
    BY DEF TypeOK
  <2>3. DOMAIN stack = 1 .. 1 /\ stack[1] = "user"
    BY <2>1, <2>2, QueuePlaces, QueueTail
  <2>4. \A i \in DOMAIN stack : ~GoesDown(i)
    BY <2>3 DEF GoesDown
  <2> QED
    BY <1>2, <2>1, <2>4 DEF ConnectionFits
<1>8. CASE RunStopInLoop
  <2>1. /\ UNCHANGED <<connection, up, stack>>
        /\ state = "kConnecting" \/ UNCHANGED <<state, open>>
    BY <1>8 DEF RunStopInLoop, StopInLoop, Next1, client
  <2> QED
    BY <1>1, <1>2, <2>1 DEF ConnectionFits
<1>9. CASE RunConnectDestroyed
  <2>1. UNCHANGED <<state, connection, up, stack>>
    BY <1>9 DEF RunConnectDestroyed, Next1, client
  <2>2. connection \in open /\ connection # None => connection \in open'
    BY <1>9, ConnectDestroyedDoes
  <2> QED
    BY <1>1, <1>2, <2>1, <2>2 DEF ConnectionFits
<1>10. CASE ForceClose \/ ConnectionCloses
  <2>1. /\ up /\ up' = FALSE /\ UNCHANGED <<state, open, connection>>
        /\ stack' = <<"down">> \o stack \/ stack' = <<"down">>
    BY <1>10 DEF ForceClose, Calling, ConnectionCloses, connector, kernel
  <2>2. \A i \in DOMAIN stack' : GoesDown(i)' => i = 1
    BY <1>1, <2>1, Pushed, OneFrame DEF Anywhere
  <2> QED
    BY <1>1, <2>1, <2>2 DEF ConnectionFits
<1>11. CASE UserReturns
  <2>1. /\ stack # <<>> /\ stack' = Tail(stack)
        /\ UNCHANGED <<state, open, connection, up>>
    BY <1>11 DEF UserReturns, InCallback, connector, client, kernel
  <2>2. \A i \in DOMAIN stack' : i \in Nat /\ i + 1 \in DOMAIN stack /\ (GoesDown(i)' <=> GoesDown(i + 1))
    BY <2>1, Popped
  <2>3. ASSUME NEW i \in DOMAIN stack', NEW j \in DOMAIN stack',
               GoesDown(i)', GoesDown(j)'
        PROVE  i = j
    <3>1. i + 1 = j + 1
      BY <1>1, <2>2, <2>3
    <3> QED
      BY <2>2, <3>1
  <2> QED
    BY <1>1, <2>1, <2>2, <2>3 DEF ConnectionFits
<1>12. CASE OtherCallback
  <2>1. stack' = <<"user">> /\ stack = <<>> /\ UNCHANGED <<state, open, connection, up>>
    BY <1>12 DEF OtherCallback, Idle, connector, client, kernel
  <2>2. \A i \in DOMAIN stack' : ~GoesDown(i)'
    BY <2>1, OneFrame DEF Anywhere
  <2> QED
    BY <1>1, <2>1, <2>2 DEF ConnectionFits
<1>13. CASE /\ ~Connect /\ ~RetryFires /\ ~RunStartInLoop /\ ~RemoveConnection
            /\ ~HandleError /\ ~HandleWrite /\ ~Destroy /\ ~RunStopInLoop
            /\ ~RunConnectDestroyed /\ ~ForceClose /\ ~ConnectionCloses
            /\ ~UserReturns /\ ~OtherCallback
  <2>1. UNCHANGED <<state, open, connection, up, stack>>
    BY <1>13 DEF Next, Loop, Calls, vars, connector, client, kernel, Lost,
       Calling, Disconnect, Stop, DestroyAsserts, StartElsewhere, StopElsewhere,
       QueueElsewhere, Poll, SwapFunctors, NextIteration, HandleEventReturns,
       HandleEventDangles, RunResetChannel, Next1, StopInLoopDerefsNull,
       FunctorDangles, DelayPasses, RetryDangles, Accepts, Refuses, Answers
  <2> QED
    BY <1>1, <1>2, <2>1 DEF ConnectionFits
<1> QED
  BY <1>3, <1>4, <1>5, <1>7, <1>8, <1>9, <1>10, <1>11, <1>12, <1>13

LEMMA DestroyedStep ==
    ASSUME TypeOK, BatchFits, ConnectionFits, DestroyedFit, [Next]_vars
    PROVE  DestroyedFit'
<1>1. \A s \in Sockets :
         /\ Once(<<"connectDestroyed", s>>)
         /\ Destroying(s) =>
               s \in open /\ s # connection /\ ~(state = "kConnecting" /\ s = channel)
  BY DEF DestroyedFit
<1>2. connection # None => state = "kConnected" /\ connection \in open
  BY DEF ConnectionFits
<1>3. CASE RemoveConnection
  <2>1. /\ connection \in Sockets
        /\ \A s \in Sockets : Destroying(s)' <=> Destroying(s) \/ s = connection
        /\ \A s \in Sockets : Once(<<"connectDestroyed", s>>)'
    BY <1>3, RemoveConnectionDoes
  <2>2. connection' = None
    BY <1>3 DEF RemoveConnection
  <2>3. connection \in open /\ state = "kConnected"
    BY <1>2, <2>1, SocketsAssumption
  <2>4. \/ UNCHANGED <<state, open>>
        \/ state' = "kDisconnected" /\ open' = open
        \/ \E s \in Sockets \ open : channel' = s /\ open' = open \cup {s}
    BY <1>3, RestartDoes DEF Rested, Failed, Began
  <2>5. ASSUME NEW s \in Sockets, Destroying(s)'
        PROVE  s \in open' /\ s # connection' /\ ~(state' = "kConnecting" /\ s = channel')
    <3>1. s \in open /\ s # None
      BY <1>1, <2>1, <2>3, <2>5, SocketsAssumption
    <3> QED
      BY <2>2, <2>3, <2>4, <3>1
  <2> QED
    BY <2>1, <2>5 DEF DestroyedFit
<1>4. CASE Destroy
  <2>1. \A s \in Sockets : /\ Destroying(s)' => Destroying(s) \/ s = connection
                           /\ Once(<<"connectDestroyed", s>>)'
    BY <1>4, DestroyDoes
  <2>2. connection' = None /\ channel' = None /\ UNCHANGED <<state, open>>
    BY <1>4 DEF Destroy, Calling, kernel
  <2>3. \A s \in Sockets : Destroying(s)' =>
           s \in open' /\ s # connection' /\ ~(state' = "kConnecting" /\ s = channel')
    BY <1>1, <1>2, <2>1, <2>2, SocketsAssumption
  <2> QED
    BY <2>1, <2>3 DEF DestroyedFit
<1>5. CASE ~RemoveConnection /\ ~Destroy
  <2>1. \A s \in Sockets :
           /\ Destroying(s)' => Destroying(s)
           /\ Once(<<"connectDestroyed", s>>)'
    BY <1>1, <1>5, DestroyingStep
  <2>2. SUFFICES \A s \in Sockets : Destroying(s)' =>
           s \in open' /\ s # connection' /\ ~(state' = "kConnecting" /\ s = channel')
    BY <2>1 DEF DestroyedFit
  <2>3. CASE Connect \/ RetryFires \/ RunStartInLoop
    <3>1. connection' = connection
      BY <2>3 DEF Connect, Calling, RetryFires, RunStartInLoop, Next1, client
    <3>2. \/ UNCHANGED <<state, channel, open>>
          \/ state' = "kDisconnected" /\ open' = open
          \/ \E s \in Sockets \ open : channel' = s /\ open' = open \cup {s}
      BY <2>3, StartsDo DEF Rested, Failed, Began
    <3> QED
      BY <1>1, <2>1, <3>1, <3>2
  <2>4. CASE HandleError \/ HandleWrite
    <3>1. \/ UNCHANGED <<state, channel, open, connection>>
          \/ /\ state = "kConnecting" /\ channel' = channel
             /\ open' = open \/ open' = open \ {channel}
             /\ connection' = connection \/ connection' = channel
      BY <2>4 DEF HandleError, HandleWrite, CloseAndRetry, Connected,
         NewConnection, RemoveAndResetChannel, Close, Unexpected
    <3> QED
      BY <1>1, <2>1, <3>1
  <2>5. CASE RunStopInLoop
    <3>1. /\ connection' = connection
          /\ \/ UNCHANGED <<state, channel, open>>
             \/ /\ state = "kConnecting" /\ channel' = channel
                /\ open' = open \ {channel}
      BY <2>5 DEF RunStopInLoop, StopInLoop, RemoveAndResetChannel, Close,
         Next1, client
    <3> QED
      BY <1>1, <2>1, <3>1
  <2>6. CASE RunResetChannel
    <3>1. channel' = None /\ UNCHANGED <<state, open, connection>>
      BY <2>6 DEF RunResetChannel, Next1, client, kernel
    <3> QED
      BY <1>1, <2>1, <3>1, SocketsAssumption
  <2>7. CASE RunConnectDestroyed
    <3>1. UNCHANGED <<state, channel, connection>>
      BY <2>7 DEF RunConnectDestroyed, Next1, client
    <3>2. PICK s \in Sockets : ~Destroying(s)' /\ open' = open \ {s}
      BY <2>7, ConnectDestroyedDoes
    <3> QED
      BY <1>1, <2>1, <3>1, <3>2
  <2>8. CASE /\ ~Connect /\ ~RetryFires /\ ~RunStartInLoop /\ ~HandleError
             /\ ~HandleWrite /\ ~RunStopInLoop /\ ~RunResetChannel
             /\ ~RunConnectDestroyed
    <3>1. UNCHANGED <<state, channel, open, connection>>
      BY <1>5, <2>8 DEF Next, Loop, Calls, vars, connector, client, kernel, Lost,
         Calling, Disconnect, Stop, ForceClose, DestroyAsserts, StartElsewhere,
         StopElsewhere, QueueElsewhere, Poll, SwapFunctors, NextIteration,
         UserReturns, HandleEventReturns, HandleEventDangles,
         StopInLoopDerefsNull, FunctorDangles, OtherCallback, ConnectionCloses,
         DelayPasses, RetryDangles, Accepts, Refuses, Answers
    <3> QED
      BY <1>1, <2>1, <3>1
  <2> QED
    BY <2>3, <2>4, <2>5, <2>6, <2>7, <2>8
<1> QED
  BY <1>3, <1>4, <1>5

-----------------------------------------------------------------------------
(* A program that connects once *)

reset == <<"resetChannel">>

\* Its process is not lost, nothing is called from another thread or while the
\* client is destroyed, and connect_ is set by the one call of connect().
Ordinary ==
    /\ proc = "running" /\ alive /\ elsewhere = "none"
    /\ \A i \in DOMAIN Work : Work[i][1] \in {"resetChannel", "connectDestroyed"}
    /\ connect => calls # 0

\* There is one retry timer, between two attempts.
OneTimer ==
    /\ ~connect => state = "kDisconnected" /\ channel = None /\ due + fresh = 0
    /\ due + fresh # 0 => due + fresh = 1 /\ state = "kDisconnected"
    /\ due # 0 => channel = None

\* The channel of an attempt that has ended is there until resetChannel has run,
\* which is in the same iteration.
OneChannel ==
    /\ channel # None <=> state = "kConnecting" \/ Resetting
    /\ Resetting => state # "kConnecting" /\ phase # "poll"
    /\ Once(reset)
    /\ phase = "functors" => ~In(reset, functors)
    /\ reported # None => phase \in {"batch", "handling"}
    /\ \A i \in DOMAIN stack : GoesDown(i) => channel = None

Handled ==
    /\ reported # None => reported = channel
    /\ watched = IF state = "kConnecting" THEN {channel} ELSE {}

Owned ==
    /\ ~stray
    /\ open = (IF state = "kConnecting" THEN {channel} ELSE {})
                 \cup ({connection} \ {None}) \cup {s \in Sockets : Destroying(s)}

OnceFits == Ordinary /\ OneTimer /\ OneChannel /\ Handled /\ Owned

LEMMA SingleIs ==
    ASSUME TypeOK, ConnectionFits
    PROVE  (AttemptFits /\ HandlerIsAlive /\ SocketsOwned) <=> (Single => OnceFits)
<1>1. BeingClosed = {s \in Sockets : Destroying(s)}
  BY BeingClosedIs
<1>2. up => connection \in open
  BY DEF ConnectionFits
<1>3. In(reset, functors) <=> \E i \in DOMAIN functors : functors[i] = <<"resetChannel">>
  BY DEF In, reset
<1>4. (Single => Ordinary /\ OneTimer /\ OneChannel) <=> AttemptFits
  BY <1>3 DEF Ordinary, OneTimer, OneChannel, AttemptFits, reset
<1>5. (Single => Handled) <=> HandlerIsAlive
  BY DEF Handled, HandlerIsAlive
<1>6. (Single => Owned) <=> SocketsOwned
  BY <1>1, <1>2 DEF Owned, SocketsOwned
<1> QED
  BY <1>4, <1>5, <1>6 DEF OnceFits

\* Such a program takes these steps only.
LEMMA SingleSteps ==
    ASSUME TypeOK, Single, Ordinary, Handled, [Next]_vars
    PROVE  \/ UNCHANGED vars \/ Poll \/ SwapFunctors \/ NextIteration
           \/ UserReturns \/ RemoveConnection \/ HandleError \/ HandleWrite
           \/ HandleEventReturns \/ RunResetChannel \/ RunConnectDestroyed
           \/ (Connect /\ calls = 0) \/ Disconnect \/ ForceClose
           \/ OtherCallback \/ ConnectionCloses \/ RetryFires \/ Accepts
           \/ Refuses
<1>1. uses = {}
  BY DEF Single
<1>2. ~Stop /\ ~Destroy /\ ~DestroyAsserts /\ ~StartElsewhere /\ ~StopElsewhere
  BY <1>1 DEF Stop, Destroy, DestroyAsserts, StartElsewhere, StopElsewhere
<1>3. ~QueueElsewhere /\ ~FunctorDangles /\ ~RetryDangles /\ ~HandleEventDangles
      /\ ~DelayPasses
  BY <1>1 DEF Ordinary, Handled, QueueElsewhere, FunctorDangles, RetryDangles,
     HandleEventDangles, DelayPasses
<1>4. Connect => calls = 0
  BY <1>1 DEF Connect
<1>5. running # <<>> => Head(running)[1] \in {"resetChannel", "connectDestroyed"}
  <2>1. running # <<>> => /\ Work # <<>> /\ Head(Work) = Head(running)
                          /\ Work \in Seq(Functors)
    BY WorkIsQueue, WorkTaken DEF Work
  <2>2. ASSUME running # <<>>
        PROVE  1 \in DOMAIN Work /\ Work[1] = Head(running)
    <3>1. PICK q \in Seq(Functors) : q = Work
      BY <2>1, <2>2
    <3>2. q # <<>>
      BY <2>1, <2>2, <3>1
    <3>3. Head(q) = q[1] /\ Len(q) >= 1 /\ DOMAIN q = 1 .. Len(q) /\ Len(q) \in Nat
      BY <3>2, QueueTail, QueuePlaces
    <3> QED
      BY <2>1, <2>2, <3>1, <3>3
  <2> QED
    BY <2>2 DEF Ordinary
<1>6. ~RunStartInLoop /\ ~RunStopInLoop /\ ~StopInLoopDerefsNull
  BY <1>5 DEF RunStartInLoop, RunStopInLoop, StopInLoopDerefsNull, Next1
<1> QED
  BY <1>2, <1>3, <1>4, <1>6 DEF Next, Loop, Calls

\* What its steps do to the queue.
LEMMA SingleQueue ==
    ASSUME TypeOK, BatchFits, Single, Ordinary, Handled, [Next]_vars
    PROVE  \/ CloseAndRetry /\ UNCHANGED running /\ functors' = Append(functors, reset)
           \/ Connected /\ UNCHANGED running /\ functors' = Append(functors, reset)
           \/ /\ RemoveConnection /\ UNCHANGED running
              /\ functors' = Append(functors, <<"connectDestroyed", connection>>)
           \/ /\ RunResetChannel \/ RunConnectDestroyed
              /\ running # <<>> /\ running' = Tail(running) /\ UNCHANGED functors
           \/ SwapFunctors /\ running = <<>> /\ running' = functors /\ functors' = <<>>
           \/ UNCHANGED <<running, functors>>
<1>1. CASE HandleError \/ HandleWrite
  <2>1. UNCHANGED running
    BY <1>1 DEF HandleError, HandleWrite, Handling
  <2> QED
    BY <1>1, <2>1, HandlesDo DEF CloseAndRetry, Connected, Unexpected,
       RemoveAndResetChannel, reset
<1>2. CASE RemoveConnection
  BY <1>2 DEF RemoveConnection
<1>3. CASE RunResetChannel \/ RunConnectDestroyed
  BY <1>3 DEF RunResetChannel, RunConnectDestroyed, Next1
<1>4. CASE SwapFunctors
  BY <1>4 DEF SwapFunctors, Idle, BatchFits
<1>5. CASE /\ ~HandleError /\ ~HandleWrite /\ ~RemoveConnection
           /\ ~RunResetChannel /\ ~RunConnectDestroyed /\ ~SwapFunctors
  BY <1>5, SingleSteps DEF vars, Poll, NextIteration, UserReturns,
     HandleEventReturns, Connect, Calling, Disconnect, ForceClose, OtherCallback,
     ConnectionCloses, RetryFires, Accepts, Refuses, Answers
<1> QED
  BY <1>1, <1>2, <1>3, <1>4, <1>5

LEMMA OrdinaryStep ==
    ASSUME TypeOK, BatchFits, ConnectionFits, Single, Ordinary, OneTimer, Handled,
           [Next]_vars
    PROVE  Ordinary'
<1>1. proc' = "running" /\ alive' /\ elsewhere' = "none"
  BY SingleSteps DEF Ordinary, vars, client, Poll, SwapFunctors, NextIteration,
     UserReturns, RemoveConnection, HandleError, HandleWrite, Handling,
     HandleEventReturns, RunResetChannel, RunConnectDestroyed, Next1, Connect,
     Calling, Disconnect, ForceClose, OtherCallback, ConnectionCloses,
     RetryFires, Accepts, Refuses, Answers
<1>2. connect' => calls' # 0
  <2>1. calls \in Nat
    BY DEF TypeOK
  <2>2. CASE RemoveConnection
    <3>1. stack # <<>> /\ Head(stack) = "down" /\ UNCHANGED calls
      BY <2>2 DEF RemoveConnection, InCallback, history
    <3>2. connection \in Sockets
      BY <3>1, DownOnTop
    <3>3. state = "kConnected"
      BY <3>2, SocketsAssumption DEF ConnectionFits
    <3>4. connect
      BY <3>3 DEF OneTimer
    <3> QED
      BY <3>1, <3>4 DEF Ordinary
  <2>3. CASE Connect
    <3>1. calls' = calls + 1
      BY <2>3 DEF Connect, Calling
    <3> QED
      BY <2>1, <3>1
  <2>4. CASE ~RemoveConnection /\ ~Connect
    <3>1. connect' = connect /\ (calls' = calls \/ calls' = calls + 1)
      BY <2>4, SingleSteps DEF vars, connector, history, Poll, SwapFunctors,
         NextIteration, UserReturns, HandleError, HandleWrite, Handling,
         HandleEventReturns, RunResetChannel, RunConnectDestroyed, Next1,
         Disconnect, Calling, ForceClose, OtherCallback, ConnectionCloses,
         RetryFires, Accepts, Refuses, Answers, Unexpected, CloseAndRetry,
         Connected
    <3> QED
      BY <2>1, <3>1 DEF Ordinary
  <2> QED
    BY <2>2, <2>3, <2>4
<1>3. \A i \in DOMAIN Work' : Work'[i][1] \in {"resetChannel", "connectDestroyed"}
  <2> DEFINE Few(f) == f[1] \in {"resetChannel", "connectDestroyed"}
  <2>1. \A i \in DOMAIN Work : Few(Work[i])
    BY DEF Ordinary
  <2>2. reset \in Functors /\ Few(reset)
    BY DEF Functors, reset
  <2>3. ASSUME NEW f \in Functors, Few(f), UNCHANGED running,
               functors' = Append(functors, f)
        PROVE  \A i \in DOMAIN Work' : Few(Work'[i])
    <3>1. \A i \in DOMAIN Work' : Work'[i] = f \/ \E j \in DOMAIN Work : Work'[i] = Work[j]
      BY <2>3, Queues
    <3> HIDE DEF Few
    <3> QED
      BY <2>1, <2>3, <3>1
  <2>4. ASSUME running # <<>>, running' = Tail(running), UNCHANGED functors
        PROVE  \A i \in DOMAIN Work' : Few(Work'[i])
    <3>1. \A i \in DOMAIN Work' : \E j \in DOMAIN Work : Work'[i] = Work[j]
      BY <2>4, Runs
    <3> HIDE DEF Few
    <3> QED
      BY <2>1, <3>1
  <2>5. ASSUME \/ UNCHANGED <<running, functors>>
               \/ running = <<>> /\ running' = functors /\ functors' = <<>>
        PROVE  \A i \in DOMAIN Work' : Few(Work'[i])
    <3>1. Work' = Work
      BY <2>5, LeavesQueue
    <3> QED
      BY <2>1, <3>1
  <2>6. CASE RemoveConnection
    <3>1. PICK c : c = connection
      OBVIOUS
    <3>2. c \in Sockets
      BY <2>6, <3>1, DownOnTop DEF RemoveConnection, InCallback
    <3> DEFINE f == <<"connectDestroyed", c>>
    <3>3. f \in Functors /\ Few(f)
      BY <3>2 DEF Functors
    <3>4. UNCHANGED running /\ functors' = Append(functors, f)
      BY <2>6, <3>1 DEF RemoveConnection
    <3> HIDE DEF f
    <3> QED
      BY <2>3, <3>3, <3>4
  <2> HIDE DEF Few
  <2>7. \A i \in DOMAIN Work' : Few(Work'[i])
    <3>1. CASE UNCHANGED running /\ functors' = Append(functors, reset)
      BY <2>2, <2>3, <3>1
    <3>2. CASE running # <<>> /\ running' = Tail(running) /\ UNCHANGED functors
      BY <2>4, <3>2
    <3>3. CASE \/ UNCHANGED <<running, functors>>
               \/ running = <<>> /\ running' = functors /\ functors' = <<>>
      BY <2>5, <3>3
    <3>4. \/ RemoveConnection
          \/ UNCHANGED running /\ functors' = Append(functors, reset)
          \/ running # <<>> /\ running' = Tail(running) /\ UNCHANGED functors
          \/ running = <<>> /\ running' = functors /\ functors' = <<>>
          \/ UNCHANGED <<running, functors>>
      BY SingleQueue
    <3> QED
      BY <2>6, <3>1, <3>2, <3>3, <3>4 DEF Few
  <2> QED
    BY <2>7 DEF Few
<1> QED
  BY <1>1, <1>2, <1>3 DEF Ordinary

\* What its steps do to resetChannel in the queue, and to the sockets.
LEMMA ResetQueued ==
    ASSUME TypeOK, UNCHANGED running, functors' = Append(functors, reset)
    PROVE  /\ Resetting' /\ (Once(reset) /\ ~Resetting => Once(reset)')
           /\ \A s \in Sockets : Destroying(s)' <=> Destroying(s)
<1> DEFINE own(s) == <<"connectDestroyed", s>>
<1>1. reset \in Functors /\ \A s : own(s) # reset
  BY DEF Functors, reset
<1>2. /\ (Resetting <=> Waits(reset)) /\ (Resetting' <=> Waits(reset)')
      /\ \A s : (Destroying(s) <=> Waits(own(s))) /\ (Destroying(s)' <=> Waits(own(s))')
  BY DEF Resetting, Destroying, reset
<1> HIDE DEF own
<1>3. /\ \A g : Waits(g)' <=> Waits(g) \/ g = reset
      /\ \A g : Once(g) /\ (g = reset => ~Waits(g)) => Once(g)'
  BY <1>1, Queues
<1> QED
  BY <1>1, <1>2, <1>3

LEMMA ResetRun ==
    ASSUME TypeOK, Once(reset), RunResetChannel
    PROVE  /\ Resetting /\ ~Resetting' /\ Once(reset)'
           /\ \A s \in Sockets : Destroying(s)' <=> Destroying(s)
<1> DEFINE own(s) == <<"connectDestroyed", s>>
<1>1. /\ running # <<>> /\ running' = Tail(running) /\ UNCHANGED functors
      /\ Head(running)[1] = "resetChannel"
  BY DEF RunResetChannel, Next1
<1>2. Head(running) = reset
  <2>1. Head(running) \in Functors
    BY <1>1, WorkIsQueue, QueueTail
  <2> QED
    BY <1>1, <2>1 DEF Functors, reset
<1>3. /\ (Resetting <=> Waits(reset)) /\ (Resetting' <=> Waits(reset)')
      /\ \A s : (Destroying(s) <=> Waits(own(s))) /\ (Destroying(s)' <=> Waits(own(s))')
  BY DEF Resetting, Destroying, reset
<1>4. \A s : own(s) # reset
  BY DEF reset
<1> HIDE DEF own
<1>5. /\ Waits(reset) /\ ~Waits(reset)' /\ Once(reset)'
      /\ \A g : Waits(g)' => Waits(g)
      /\ \A g : Waits(g) => Waits(g)' \/ g = reset
  BY <1>1, <1>2, Runs
<1> QED
  BY <1>3, <1>4, <1>5

LEMMA ResetWaits ==
    ASSUME TypeOK, BatchFits, ConnectionFits, DestroyedFit, Once(reset),
           RemoveConnection \/ RunConnectDestroyed
    PROVE  (Resetting' <=> Resetting) /\ Once(reset)'
<1>1. reset[1] # "connectDestroyed"
  BY DEF reset
<1>2. (Resetting <=> Waits(reset)) /\ (Resetting' <=> Waits(reset)')
  BY DEF Resetting, reset
<1>3. CASE RemoveConnection
  BY <1>1, <1>2, <1>3, RemoveConnectionDoes
<1>4. CASE RunConnectDestroyed
  <2>1. /\ running # <<>> /\ running' = Tail(running) /\ UNCHANGED functors
        /\ Head(running)[1] = "connectDestroyed"
    BY <1>4 DEF RunConnectDestroyed, Next1
  <2>2. Head(running) # reset
    BY <1>1, <2>1
  <2> QED
    BY <1>2, <2>1, <2>2, Runs
<1> QED
  BY <1>3, <1>4

LEMMA WaitsKept ==
    ASSUME TypeOK, Once(reset),
           \/ UNCHANGED <<running, functors>>
           \/ running = <<>> /\ running' = functors /\ functors' = <<>>
    PROVE  /\ (Resetting' <=> Resetting) /\ Once(reset)'
           /\ \A s \in Sockets : Destroying(s)' <=> Destroying(s)
BY LeavesQueue DEF Resetting, Destroying

\* Before an attempt begins nothing is left of the last one.
Free ==
    /\ state # "kConnecting" /\ channel = None /\ ~Resetting
    /\ reported = None /\ watched = {}

Started == Failed \/ \E s \in Sockets \ open : Began(s)

LEMMA StartedFits ==
    ASSUME Free, Started, connect', due \in Nat, fresh \in Nat,
           due' \in Nat, due' + fresh = 0,
           ~Resetting', Once(reset)', UNCHANGED <<phase, reported>>,
           phase = "functors" => ~In(reset, functors)',
           \A i \in DOMAIN stack' : ~GoesDown(i)'
    PROVE  OneTimer' /\ OneChannel' /\ Handled'
<1>0. \A m, n \in Nat : m + n = 0 => m = 0 /\ n = 0
  OBVIOUS
<1>1. due' = 0 /\ fresh = 0
  BY <1>0
<1>2. CASE Failed
  <2>1. /\ state' = "kDisconnected" /\ channel' = None /\ watched' = {}
        /\ fresh' = 1
    BY <1>1, <1>2 DEF Failed, Free
  <2>2. due' + fresh' = 1
    BY <1>1, <2>1
  <2> QED
    BY <1>1, <2>1, <2>2 DEF OneTimer, OneChannel, Handled, Free
<1>3. CASE \E s \in Sockets \ open : Began(s)
  <2>1. PICK s \in Sockets : Began(s)
    BY <1>3
  <2>2. /\ state' = "kConnecting" /\ channel' = s /\ watched' = {s}
        /\ fresh' = 0 /\ s # None
    BY <1>1, <2>1, SocketsAssumption DEF Began, Free
  <2>3. due' + fresh' = 0
    BY <1>1, <2>2
  <2> QED
    BY <1>1, <2>2, <2>3 DEF OneTimer, OneChannel, Handled, Free
<1> QED
  BY <1>2, <1>3 DEF Started

\* Every open descriptor keeps its owner.
LEMMA StartedOwned ==
    ASSUME Owned, state # "kConnecting", stray' = stray,
           connection \in Sockets \cup {None}, connection' \in Sockets \cup {None},
           \/ Started
           \/ UNCHANGED <<state, open>>,
           \A s \in Sockets :
              (Destroying(s)' \/ s = connection') <=> (Destroying(s) \/ s = connection)
    PROVE  Owned'
<1> DEFINE Held == ({connection} \ {None}) \cup {s \in Sockets : Destroying(s)}
<1>1. \A s : s \in Held <=> s \in Sockets /\ (Destroying(s) \/ s = connection)
  BY SocketsAssumption
<1>2. \A s : s \in Held' <=> s \in Sockets /\ (Destroying(s)' \/ s = connection')
  BY SocketsAssumption
<1>3. Held' = Held
  BY <1>1, <1>2
<1>4. open = Held
  BY DEF Owned
<1>5. open' = (IF state' = "kConnecting" THEN {channel'} ELSE {}) \cup Held'
  <2> HIDE DEF Held
  <2>1. CASE UNCHANGED <<state, open>>
    BY <1>3, <1>4, <2>1
  <2>2. CASE Failed
    BY <1>3, <1>4, <2>2 DEF Failed
  <2>3. CASE \E s \in Sockets \ open : Began(s)
    <3>1. PICK s \in Sockets : Began(s)
      BY <2>3
    <3> QED
      BY <1>3, <1>4, <3>1 DEF Began
  <2> QED
    BY <2>1, <2>2, <2>3 DEF Started
<1> QED
  BY <1>5 DEF Owned

\* A step that keeps the connector, its connection and its queue.
Quiet ==
    /\ UNCHANGED <<state, connect, channel, watched, open, connection, stray, due,
                   fresh, running, functors, reported>>
    /\ phase' = phase \/ {phase, phase'} \subseteq {"batch", "handling"}

LEMMA QuietFits ==
    ASSUME TypeOK, OneTimer, OneChannel, Handled, Owned, Quiet,
           \A i \in DOMAIN stack' : GoesDown(i)' => channel = None
    PROVE  OneTimer' /\ OneChannel' /\ Handled' /\ Owned'
<1>1. /\ (Resetting' <=> Resetting) /\ Once(reset)'
      /\ \A s \in Sockets : Destroying(s)' <=> Destroying(s)
  BY WaitsKept DEF Quiet, OneChannel
<1>2. In(reset, functors)' <=> In(reset, functors)
  BY DEF Quiet
<1>3. OneTimer'
  BY DEF OneTimer, Quiet
<1>4. OneChannel'
  BY <1>1, <1>2 DEF OneChannel, Quiet
<1>5. Handled'
  BY DEF Handled, Quiet
<1>6. {s \in Sockets : Destroying(s)}' = {s \in Sockets : Destroying(s)}
  BY <1>1
<1>7. Owned'
  BY <1>6 DEF Owned, Quiet
<1> QED
  BY <1>3, <1>4, <1>5, <1>7

\* connect(), which such a program calls once.
LEMMA ConnectFits ==
    ASSUME TypeOK, ConnectionFits, Ordinary, OneTimer, OneChannel, Handled, Owned,
           Connect, calls = 0
    PROVE  OneTimer' /\ OneChannel' /\ Handled' /\ Owned'
<1>1. /\ connect' /\ UNCHANGED <<connection, stack, functors, running, due, phase,
                                 reported, stray>>
  BY DEF Connect, Calling, dispatch
<1>2. state = "kDisconnected" /\ channel = None /\ due + fresh = 0
  BY DEF Ordinary, OneTimer
<1>3. due \in Nat /\ fresh \in Nat /\ connection \in Sockets \cup {None}
  BY DEF TypeOK
<1>4. Free
  BY <1>2 DEF OneChannel, Handled, Free
<1>5. Started
  <2>1. PICK st : st = state
    OBVIOUS
  <2>2. PICK d : d = delay
    OBVIOUS
  <2>3. StartInLoop(st, TRUE, d)
    BY <2>1, <2>2 DEF Connect
  <2> QED
    BY <1>2, <2>1, <2>3, StartDoes DEF Started
<1>6. /\ (Resetting' <=> Resetting) /\ Once(reset)'
      /\ \A s \in Sockets : Destroying(s)' <=> Destroying(s)
  BY <1>1, WaitsKept DEF OneChannel
<1>7. \A i \in DOMAIN stack' : ~GoesDown(i)'
  BY <1>1, <1>2 DEF ConnectionFits, GoesDown
<1>8. phase = "functors" => ~In(reset, functors)'
  BY <1>1 DEF OneChannel
<1>9. ~Resetting'
  BY <1>4, <1>6 DEF Free
<1>10. due' \in Nat /\ due' + fresh = 0
  BY <1>1, <1>2, <1>3
<1>11. OneTimer' /\ OneChannel' /\ Handled'
  BY <1>1, <1>3, <1>4, <1>5, <1>6, <1>7, <1>8, <1>9, <1>10, StartedFits
<1>12. Owned'
  BY <1>1, <1>2, <1>3, <1>5, <1>6, StartedOwned
<1> QED
  BY <1>11, <1>12

\* The retry timer.
LEMMA RetryFits ==
    ASSUME TypeOK, OneTimer, OneChannel, Handled, Owned, RetryFires
    PROVE  OneTimer' /\ OneChannel' /\ Handled' /\ Owned'
<1>1. /\ UNCHANGED <<connect, connection, stack, functors, running, phase,
                     reported, stray>>
      /\ due > 0 /\ due' = due - 1 /\ stack = <<>>
  BY DEF RetryFires, Idle, client, dispatch, history
<1>2. due \in Nat /\ fresh \in Nat /\ connection \in Sockets \cup {None}
  BY DEF TypeOK
<1>3. due + fresh = 1 /\ due' \in Nat /\ due' + fresh = 0 /\ due # 0
  <2>1. due # 0 /\ due + fresh # 0
    BY <1>1, <1>2
  <2>2. due + fresh = 1
    BY <2>1 DEF OneTimer
  <2> QED
    BY <1>1, <1>2, <2>1, <2>2
<1>4. state = "kDisconnected" /\ channel = None /\ connect
  BY <1>3 DEF OneTimer
<1>5. Free
  BY <1>4 DEF OneChannel, Handled, Free
<1>6. Started
  <2>1. PICK st : st = state
    OBVIOUS
  <2>2. PICK d : d = delay
    OBVIOUS
  <2>3. PICK c \in BOOLEAN : c = connect
    BY DEF TypeOK
  <2>4. StartInLoop(st, c, d)
    BY <2>1, <2>2, <2>3 DEF RetryFires
  <2> QED
    BY <1>4, <2>1, <2>3, <2>4, StartDoes DEF Started
<1>7. /\ (Resetting' <=> Resetting) /\ Once(reset)'
      /\ \A s \in Sockets : Destroying(s)' <=> Destroying(s)
  BY <1>1, WaitsKept DEF OneChannel
<1>8. \A i \in DOMAIN stack' : ~GoesDown(i)'
  BY <1>1
<1>9. phase = "functors" => ~In(reset, functors)'
  BY <1>1 DEF OneChannel
<1>10. ~Resetting'
  BY <1>5, <1>7 DEF Free
<1>11. connect'
  BY <1>1, <1>4
<1>12. OneTimer' /\ OneChannel' /\ Handled'
  BY <1>1, <1>2, <1>3, <1>5, <1>6, <1>7, <1>8, <1>9, <1>10, <1>11, StartedFits
<1>13. Owned'
  BY <1>1, <1>2, <1>4, <1>6, <1>7, StartedOwned
<1> QED
  BY <1>12, <1>13

\* The end of the connection.
LEMMA RemoveFits ==
    ASSUME TypeOK, TypeOK', BatchFits, ConnectionFits, ConnectionFits', DestroyedFit,
           OneTimer, OneChannel, Handled, Owned, RemoveConnection
    PROVE  OneTimer' /\ OneChannel' /\ Handled' /\ Owned'
<1>1. /\ stack # <<>> /\ Head(stack) = "down" /\ stack' = Tail(stack)
      /\ connection' = None
      /\ functors' = Append(functors, <<"connectDestroyed", connection>>)
      /\ UNCHANGED <<running, due, phase, reported, stray>>
  BY DEF RemoveConnection, InCallback, dispatch, history
<1>2. connection \in Sockets /\ 1 \in DOMAIN stack /\ GoesDown(1)
  BY <1>1, DownOnTop
<1>3. state = "kConnected" /\ channel = None
  BY <1>2, SocketsAssumption DEF ConnectionFits, OneChannel
<1>4. due \in Nat /\ fresh \in Nat
  BY DEF TypeOK
<1>5. due + fresh = 0 /\ connect
  BY <1>3 DEF OneTimer
<1>6. Free
  BY <1>3 DEF OneChannel, Handled, Free
<1>7. (Resetting' <=> Resetting) /\ Once(reset)'
  BY ResetWaits DEF OneChannel
<1>8. ~Resetting'
  BY <1>6, <1>7 DEF Free
<1>9. \A s \in Sockets : Destroying(s)' <=> Destroying(s) \/ s = connection
  BY RemoveConnectionDoes
<1>10. \A i \in DOMAIN stack' : ~GoesDown(i)'
  BY <1>1 DEF ConnectionFits
<1>11. In(reset, functors)' <=> In(reset, functors)
  <2>1. PICK f : f = <<"connectDestroyed", connection>>
    OBVIOUS
  <2>2. f \in Functors /\ f # reset
    BY <1>2, <2>1 DEF Functors, reset
  <2>3. functors' = Append(functors, f) /\ functors \in Seq(Functors)
    BY <1>1, <2>1, WorkIsQueue
  <2>4. PICK q \in Seq(Functors) : q = functors
    BY <2>3
  <2>5. In(reset, Append(q, f)) <=> In(reset, q)
    BY <2>2, AppendedWait
  <2> QED
    BY <2>3, <2>4, <2>5
<1>12. phase = "functors" => ~In(reset, functors)'
  BY <1>11 DEF OneChannel
<1>13. due' \in Nat /\ due' + fresh = 0
  BY <1>1, <1>4, <1>5
<1>14. OneTimer' /\ OneChannel' /\ Handled'
  <2>1. CASE retry /\ wants
    <3>1. connect' /\ Started
      BY <2>1, RestartDoes DEF Started
    <3> QED
      BY <1>1, <1>4, <1>6, <1>7, <1>8, <1>10, <1>12, <1>13, <3>1, StartedFits
  <2>2. CASE ~(retry /\ wants)
    <3>1. UNCHANGED <<state, connect, channel, watched, open, fresh>>
      BY <2>2, RestartDoes DEF Rested
    <3> QED
      BY <1>1, <1>3, <1>5, <1>6, <1>7, <1>8, <1>10, <1>12, <3>1
      DEF OneTimer, OneChannel, Handled, Free
  <2> QED
    BY <2>1, <2>2
<1>15. Started \/ UNCHANGED <<state, open>>
  BY RestartDoes DEF Started, Rested
<1>16. \A s \in Sockets :
          (Destroying(s)' \/ s = connection') <=> (Destroying(s) \/ s = connection)
  BY <1>1, <1>9, SocketsAssumption
<1>17. Owned'
  BY <1>1, <1>2, <1>3, <1>15, <1>16, StartedOwned
<1> QED
  BY <1>14, <1>17

\* The handlers of an attempt.
LEMMA HandleFits ==
    ASSUME TypeOK, ConnectionFits, DestroyedFit, OneTimer, OneChannel, Handled,
           Owned, HandleError \/ HandleWrite
    PROVE  OneTimer' /\ OneChannel' /\ Handled' /\ Owned'
<1>1. /\ stack = <<>> /\ phase \in {"batch", "handling"} /\ phase' = "handling"
      /\ reported # None /\ reported = channel
      /\ UNCHANGED <<connect, due, reported, running>>
  BY HandlesDo DEF HandleError, HandleWrite, Handling, Idle
<1>2. due \in Nat /\ fresh \in Nat /\ channel \in Sockets \cup {None}
      /\ connection \in Sockets \cup {None}
  BY DEF TypeOK
<1>3. CASE Unexpected
  <2>1. Quiet /\ stack' = stack
    BY <1>1, <1>3 DEF Unexpected, Quiet
  <2>2. \A i \in DOMAIN stack' : GoesDown(i)' => channel = None
    BY <1>1, <2>1
  <2> QED
    BY <2>1, <2>2, QuietFits
<1>4. ASSUME state = "kConnecting"
      PROVE  /\ connect /\ due = 0 /\ fresh = 0 /\ due + fresh = 0 /\ ~Resetting
             /\ channel \in Sockets /\ channel \in open /\ ~Destroying(channel)
             /\ connection = None
  <2>1. connect
    BY <1>4 DEF OneTimer
  <2>2. due + fresh = 0
    BY <1>4 DEF OneTimer
  <2>3. due = 0 /\ fresh = 0
    BY <1>2, <2>2
  <2>4. channel \in Sockets /\ channel \in open
    BY <1>1, <1>2, <1>4 DEF Owned
  <2>5. connection = None
    BY <1>4 DEF ConnectionFits
  <2>6. ~Resetting
    BY <1>4 DEF OneChannel
  <2>7. \A s \in Sockets : s = channel => ~Destroying(s)
    BY <1>4 DEF DestroyedFit
  <2>8. ~Destroying(channel)
    <3>1. PICK s \in Sockets : s = channel
      BY <2>4
    <3> QED
      BY <2>7, <3>1
  <2> QED
    BY <2>1, <2>2, <2>3, <2>4, <2>5, <2>6, <2>8
<1>5. CASE CloseAndRetry /\ state = "kConnecting"
  <2>1. /\ connect /\ due = 0 /\ fresh = 0 /\ due + fresh = 0 /\ ~Resetting
        /\ channel \in Sockets /\ channel \in open /\ ~Destroying(channel)
        /\ connection = None
    BY <1>4, <1>5
  <2>2. /\ state' = "kDisconnected" /\ channel' = channel
        /\ watched' = watched \ {channel} /\ open' = open \ {channel}
        /\ fresh' = fresh + 1 /\ connection' = connection /\ stack' = stack
        /\ stray' = (stray \/ channel \notin open)
        /\ functors' = Append(functors, reset)
    BY <1>5, <2>1 DEF CloseAndRetry, RemoveAndResetChannel, Close, Retry, reset
  <2>3. /\ Resetting' /\ Once(reset)'
        /\ \A s \in Sockets : Destroying(s)' <=> Destroying(s)
    BY <1>1, <2>1, <2>2, ResetQueued DEF OneChannel
  <2>4. OneTimer'
    <3>1. due' = 0 /\ fresh' = 1 /\ due' + fresh' = 1
      BY <1>1, <2>1, <2>2
    <3> QED
      BY <1>1, <2>1, <2>2, <3>1 DEF OneTimer
  <2>5. OneChannel'
    BY <1>1, <2>2, <2>3 DEF OneChannel
  <2>6. Handled'
    BY <1>1, <1>5, <2>2 DEF Handled
  <2>7. {s \in Sockets : Destroying(s)}' = {s \in Sockets : Destroying(s)}
    BY <2>3
  <2>8. Owned'
    BY <1>5, <2>1, <2>2, <2>7 DEF Owned
  <2> QED
    BY <2>4, <2>5, <2>6, <2>8
<1>6. CASE Connected /\ state = "kConnecting" /\ channel \in open
  <2>1. /\ connect /\ due = 0 /\ fresh = 0 /\ due + fresh = 0 /\ ~Resetting
        /\ channel \in Sockets /\ channel \in open /\ ~Destroying(channel)
        /\ connection = None
    BY <1>4, <1>6
  <2>2. /\ state' = "kConnected" /\ channel' = channel
        /\ watched' = watched \ {channel} /\ open' = open
        /\ fresh' = fresh /\ connection' = channel /\ stack' = <<"up">>
        /\ stray' = stray /\ functors' = Append(functors, reset)
    BY <1>6, <2>1 DEF Connected, NewConnection, RemoveAndResetChannel, reset
  <2>3. /\ Resetting' /\ Once(reset)'
        /\ \A s \in Sockets : Destroying(s)' <=> Destroying(s)
    BY <1>1, <2>1, <2>2, ResetQueued DEF OneChannel
  <2>4. OneTimer'
    <3>1. due' = 0 /\ due' + fresh' = 0
      BY <1>1, <2>1, <2>2
    <3> QED
      BY <1>1, <2>1, <2>2, <3>1 DEF OneTimer
  <2>5. \A i \in DOMAIN stack' : ~GoesDown(i)'
    BY <2>2, OneFrame DEF Anywhere
  <2>6. OneChannel'
    BY <1>1, <2>2, <2>3, <2>5 DEF OneChannel
  <2>7. Handled'
    BY <1>1, <1>6, <2>2 DEF Handled
  <2>8. {s \in Sockets : Destroying(s)}' = {s \in Sockets : Destroying(s)}
    BY <2>3
  <2>9. Owned'
    BY <1>6, <2>1, <2>2, <2>8, SocketsAssumption DEF Owned
  <2> QED
    BY <2>4, <2>6, <2>7, <2>9
<1> QED
  BY <1>3, <1>5, <1>6, HandlesDo

\* The functors.
LEMMA RunFits ==
    ASSUME TypeOK, BatchFits, ConnectionFits, DestroyedFit, OneTimer, OneChannel,
           Handled, Owned, RunResetChannel \/ RunConnectDestroyed
    PROVE  OneTimer' /\ OneChannel' /\ Handled' /\ Owned'
<1>1. /\ stack = <<>> /\ phase = "functors" /\ running # <<>>
      /\ UNCHANGED <<state, connect, connection, watched, due, fresh, phase,
                     reported, stack, functors>>
  BY DEF RunResetChannel, RunConnectDestroyed, Next1, Idle, client, dispatch, kernel
<1>2. reported = None
  BY <1>1 DEF OneChannel
<1>3. CASE RunResetChannel
  <2>1. channel' = None /\ UNCHANGED <<open, stray>>
    BY <1>3 DEF RunResetChannel, kernel
  <2>2. /\ Resetting /\ ~Resetting' /\ Once(reset)'
        /\ \A s \in Sockets : Destroying(s)' <=> Destroying(s)
    BY <1>3, ResetRun DEF OneChannel
  <2>3. state # "kConnecting"
    BY <2>2 DEF OneChannel
  <2>4. OneTimer'
    BY <1>1, <2>1 DEF OneTimer
  <2>5. OneChannel'
    BY <1>1, <1>2, <2>1, <2>2, <2>3 DEF OneChannel
  <2>6. Handled'
    BY <1>1, <1>2, <2>3 DEF Handled
  <2>7. {s \in Sockets : Destroying(s)}' = {s \in Sockets : Destroying(s)}
    BY <2>2
  <2>8. Owned'
    BY <1>1, <2>1, <2>3, <2>7 DEF Owned
  <2> QED
    BY <2>4, <2>5, <2>6, <2>8
<1>4. CASE RunConnectDestroyed
  <2>1. channel' = channel
    BY <1>4 DEF RunConnectDestroyed
  <2>2. (Resetting' <=> Resetting) /\ Once(reset)'
    BY <1>4, ResetWaits DEF OneChannel
  <2>3. PICK s \in Sockets :
           /\ Destroying(s) /\ ~Destroying(s)'
           /\ \A t \in Sockets : t # s => (Destroying(t)' <=> Destroying(t))
           /\ open' = open \ {s} /\ s \in open /\ stray' = stray
           /\ s # connection /\ ~(state = "kConnecting" /\ s = channel)
    BY <1>4, ConnectDestroyedDoes
  <2>4. OneTimer'
    BY <1>1, <2>1 DEF OneTimer
  <2>5. OneChannel'
    BY <1>1, <1>2, <2>1, <2>2 DEF OneChannel, GoesDown
  <2>6. Handled'
    BY <1>1, <2>1 DEF Handled
  <2>7. {t \in Sockets : Destroying(t)}' = {t \in Sockets : Destroying(t)} \ {s}
    BY <2>3
  <2>8. Owned'
    BY <1>1, <2>1, <2>3, <2>7 DEF Owned
  <2> QED
    BY <2>4, <2>5, <2>6, <2>8
<1> QED
  BY <1>3, <1>4

\* The loop goes on.
LEMMA LoopFits ==
    ASSUME TypeOK, BatchFits, OneTimer, OneChannel, Handled, Owned,
           Poll \/ SwapFunctors \/ NextIteration \/ HandleEventReturns
    PROVE  OneTimer' /\ OneChannel' /\ Handled' /\ Owned'
<1>1. /\ stack = <<>>
      /\ UNCHANGED <<state, connect, channel, watched, open, connection, stray, stack>>
  BY DEF Poll, SwapFunctors, NextIteration, HandleEventReturns, Idle, connector,
     client, kernel, history
<1>2. due \in Nat /\ fresh \in Nat
  BY DEF TypeOK
<1>3. \/ UNCHANGED <<running, functors>>
      \/ SwapFunctors /\ running = <<>> /\ running' = functors /\ functors' = <<>>
  BY DEF Poll, SwapFunctors, NextIteration, HandleEventReturns, Idle, BatchFits
<1>4. /\ (Resetting' <=> Resetting) /\ Once(reset)'
      /\ \A s \in Sockets : Destroying(s)' <=> Destroying(s)
  BY <1>3, WaitsKept DEF OneChannel
<1>5. {s \in Sockets : Destroying(s)}' = {s \in Sockets : Destroying(s)}
  BY <1>4
<1>6. Owned'
  BY <1>1, <1>5 DEF Owned
<1>7. CASE Poll
  <2>1. /\ phase = "poll" /\ phase' = "batch" /\ due' = due + fresh /\ fresh' = 0
        /\ reported' = reported \/ reported' \in watched
    BY <1>7 DEF Poll, Idle, Answered
  <2>2. ~Resetting /\ reported = None
    BY <2>1 DEF OneChannel
  <2>3. due' # 0 => state = "kDisconnected" /\ channel = None
    BY <2>1, <2>2 DEF OneTimer, OneChannel
  <2>4. due' + fresh' = due + fresh
    BY <1>2, <2>1
  <2>5. OneTimer'
    BY <1>1, <2>3, <2>4 DEF OneTimer
  <2>6. OneChannel'
    BY <1>1, <1>4, <2>1, <2>2 DEF OneChannel
  <2>7. Handled'
    BY <1>1, <2>1, <2>2 DEF Handled
  <2> QED
    BY <1>6, <2>5, <2>6, <2>7
<1>8. CASE SwapFunctors
  <2>1. /\ phase = "batch" /\ phase' = "functors" /\ reported = None
        /\ functors' = <<>> /\ UNCHANGED <<due, fresh, reported>>
    BY <1>8 DEF SwapFunctors, Idle, timers
  <2>2. ~In(reset, functors)'
    BY <2>1 DEF In
  <2>3. OneTimer'
    BY <1>1, <2>1 DEF OneTimer
  <2>4. OneChannel'
    BY <1>1, <1>4, <2>1, <2>2 DEF OneChannel
  <2>5. Handled'
    BY <1>1, <2>1 DEF Handled
  <2> QED
    BY <1>6, <2>3, <2>4, <2>5
<1>9. CASE NextIteration
  <2>1. /\ phase = "functors" /\ phase' = "poll" /\ running = <<>>
        /\ UNCHANGED <<due, fresh, reported, functors>>
    BY <1>9 DEF NextIteration, Idle, timers
  <2>2. functors \in Seq(Functors) /\ Work = functors
    BY <2>1, WorkIsQueue, ConcatEmptySeq DEF Work
  <2>3. ~Resetting
    BY <2>1, <2>2 DEF OneChannel, Resetting, Waits, In, reset
  <2>4. reported = None
    BY <2>1 DEF OneChannel
  <2>5. OneTimer'
    BY <1>1, <2>1 DEF OneTimer
  <2>6. OneChannel'
    BY <1>1, <1>4, <2>1, <2>3, <2>4 DEF OneChannel
  <2>7. Handled'
    BY <1>1, <2>1 DEF Handled
  <2> QED
    BY <1>6, <2>5, <2>6, <2>7
<1>10. CASE HandleEventReturns
  <2>1. /\ reported' = None /\ phase = "handling" /\ phase' = "batch"
        /\ UNCHANGED <<due, fresh, functors>>
    BY <1>10 DEF HandleEventReturns, Idle, timers
  <2>2. OneTimer'
    BY <1>1, <2>1 DEF OneTimer
  <2>3. OneChannel'
    BY <1>1, <1>4, <2>1 DEF OneChannel
  <2>4. Handled'
    BY <1>1, <2>1 DEF Handled
  <2> QED
    BY <1>6, <2>2, <2>3, <2>4
<1> QED
  BY <1>7, <1>8, <1>9, <1>10

LEMMA SingleStep ==
    ASSUME TypeOK, TypeOK', BatchFits, ConnectionFits, ConnectionFits', DestroyedFit,
           Single, OnceFits, [Next]_vars
    PROVE  OnceFits'
<1>1. Ordinary /\ OneTimer /\ OneChannel /\ Handled /\ Owned
  BY DEF OnceFits
<1>2. Ordinary'
  BY <1>1, OrdinaryStep
<1>3. CASE RemoveConnection
  BY <1>1, <1>2, <1>3, RemoveFits DEF OnceFits
<1>4. CASE HandleError \/ HandleWrite
  BY <1>1, <1>2, <1>4, HandleFits DEF OnceFits
<1>5. CASE RunResetChannel \/ RunConnectDestroyed
  BY <1>1, <1>2, <1>5, RunFits DEF OnceFits
<1>6. CASE Poll \/ SwapFunctors \/ NextIteration \/ HandleEventReturns
  BY <1>1, <1>2, <1>6, LoopFits DEF OnceFits
<1>7. CASE Connect /\ calls = 0
  BY <1>1, <1>2, <1>7, ConnectFits DEF OnceFits
<1>8. CASE RetryFires
  BY <1>1, <1>2, <1>8, RetryFits DEF OnceFits
<1>9. CASE \/ UNCHANGED vars \/ Disconnect \/ Accepts \/ Refuses \/ OtherCallback
           \/ UserReturns \/ ForceClose \/ ConnectionCloses
  <2>1. Quiet
    BY <1>9 DEF vars, Quiet, connector, client, kernel, timers, dispatch, history,
       Disconnect, Calling, Accepts, Refuses, Answers, OtherCallback, UserReturns,
       ForceClose, ConnectionCloses
  <2>2. \A i \in DOMAIN stack : GoesDown(i) => channel = None
    BY <1>1 DEF OneChannel
  <2>3. CASE UNCHANGED vars \/ Disconnect \/ Accepts \/ Refuses
    <3>1. stack' = stack
      BY <2>3 DEF vars, Disconnect, Accepts, Refuses, Answers
    <3> QED
      BY <1>1, <1>2, <2>1, <2>2, <3>1, QuietFits DEF OnceFits, GoesDown
  <2>4. CASE OtherCallback
    <3>1. \A i \in DOMAIN stack' : ~GoesDown(i)'
      BY <2>4, OneFrame DEF OtherCallback, Anywhere
    <3> QED
      BY <1>1, <1>2, <2>1, <3>1, QuietFits DEF OnceFits
  <2>5. CASE UserReturns
    <3>1. stack # <<>> /\ stack' = Tail(stack)
      BY <2>5 DEF UserReturns, InCallback
    <3>2. \A i \in DOMAIN stack' : i + 1 \in DOMAIN stack /\ (GoesDown(i)' <=> GoesDown(i + 1))
      BY <3>1, Popped
    <3>3. \A i \in DOMAIN stack' : GoesDown(i)' => channel = None
      BY <2>2, <3>2
    <3> QED
      BY <1>1, <1>2, <2>1, <3>3, QuietFits DEF OnceFits
  <2>6. CASE ForceClose \/ ConnectionCloses
    <3>1. channel = None
      BY <2>6 DEF ForceClose, ConnectionCloses, Single
    <3> QED
      BY <1>1, <1>2, <2>1, <3>1, QuietFits DEF OnceFits
  <2> QED
    BY <1>9, <2>3, <2>4, <2>5, <2>6
<1> QED
  BY <1>1, <1>3, <1>4, <1>5, <1>6, <1>7, <1>8, <1>9, SingleSteps

-----------------------------------------------------------------------------
(* The theorems *)

LEMMA InitInvariant == Init => ClientInvariant
<1> SUFFICES ASSUME Init PROVE ClientInvariant
  OBVIOUS
<1> USE DEF Init
<1>1. Work = <<>>
  BY ConcatEmptySeq, EmptySeq DEF Work
<1>2. TypeOK
  <2>1. InitRetryDelay \in InitRetryDelay .. MaxRetryDelay
    BY DelayAssumption
  <2>2. stack \in Seq(Anywhere)
    BY DEF Anywhere
  <2>3. {functors, running} \subseteq Seq(Functors)
    BY EmptySeq
  <2>4. {connect, writing, retry, wants, up, alive, collected, asked, stray} \subseteq BOOLEAN
    OBVIOUS
  <2>5. {due, fresh, calls} \subseteq Nat
    OBVIOUS
  <2> QED
    BY <2>1, <2>2, <2>3, <2>4, <2>5 DEF TypeOK, States
<1>3. BatchFits
  BY DEF BatchFits
<1>4. ConnectionFits
  BY DEF ConnectionFits, GoesDown
<1>5. \A g : ~Waits(g) /\ Once(g)
  BY <1>1 DEF Waits, Once
<1>6. DestroyedFit
  BY <1>5 DEF DestroyedFit, Destroying
<1>7. OnceFits
  <2>1. Ordinary
    BY <1>1 DEF Ordinary
  <2>2. OneTimer
    BY DEF OneTimer
  <2>3. OneChannel
    BY <1>5 DEF OneChannel, Resetting, In, GoesDown
  <2>4. Handled
    BY DEF Handled
  <2>5. Owned
    BY <1>5 DEF Owned, Destroying
  <2> QED
    BY <2>1, <2>2, <2>3, <2>4, <2>5 DEF OnceFits
<1>8. AttemptFits /\ HandlerIsAlive /\ SocketsOwned
  BY <1>2, <1>4, <1>7, SingleIs
<1> QED
  BY <1>2, <1>3, <1>4, <1>6, <1>8 DEF ClientInvariant

\* SingleIs of the state a step leads to.
LEMMA SingleIsNext ==
  (TypeOK /\ ConnectionFits /\ (Single => OnceFits)
     => AttemptFits /\ HandlerIsAlive /\ SocketsOwned)'
<1>1. TypeOK /\ ConnectionFits /\ (Single => OnceFits)
         => AttemptFits /\ HandlerIsAlive /\ SocketsOwned
  BY SingleIs
<1> QED
  BY <1>1, PTL

LEMMA InvariantStep == ClientInvariant /\ [Next]_vars => ClientInvariant'
<1> SUFFICES ASSUME ClientInvariant, [Next]_vars PROVE ClientInvariant'
  OBVIOUS
<1>1. TypeOK /\ BatchFits /\ ConnectionFits /\ DestroyedFit
  BY DEF ClientInvariant
<1>2. AttemptFits /\ HandlerIsAlive /\ SocketsOwned
  BY DEF ClientInvariant
<1>3. TypeOK'
  BY <1>1, TypeStep
<1>4. BatchFits' /\ ConnectionFits' /\ DestroyedFit'
  BY <1>1, BatchStep, ConnectionStep, DestroyedStep
<1>5. Single' <=> Single
  BY <1>1, FlagsStep DEF Single
<1>6. Single => OnceFits
  BY <1>1, <1>2, SingleIs
<1>7. Single' => OnceFits'
  BY <1>1, <1>3, <1>4, <1>5, <1>6, SingleStep
<1>8. AttemptFits' /\ HandlerIsAlive' /\ SocketsOwned'
  BY <1>3, <1>4, <1>7, SingleIsNext
<1> QED
  BY <1>3, <1>4, <1>8 DEF ClientInvariant

\* The invariant from which everything below follows: the connector rests while
\* the client has a connection, and a program that connects once has one attempt,
\* one timer or one connection at a time.
THEOREM Invariant == Spec => []ClientInvariant
BY InitInvariant, InvariantStep, PTL DEF Spec

\* The variables of connector, client, loop and kernel keep their types, for any
\* number of descriptors and calls; the delay stays one that backoff reaches.
THEOREM TypeCorrect == Spec => []TypeOK
<1>1. ClientInvariant => TypeOK
  BY DEF ClientInvariant
<1> QED
  BY <1>1, Invariant, PTL

\* In a program that connects once, in a loop whose batches are shorter than a
\* retry delay, handleEvent of the connector's channel never outlives the channel,
\* and epoll holds no pointer to a deleted one.
THEOREM HandlersAreAlive == Spec => []HandlerIsAlive
<1>1. ClientInvariant => HandlerIsAlive
  BY DEF ClientInvariant
<1> QED
  BY <1>1, Invariant, PTL

\* The socket of a live connection stays open in any program; one that connects
\* once leaks no descriptor and closes none twice.
THEOREM SocketsAreOwned == Spec => []SocketsOwned
<1>1. ClientInvariant => SocketsOwned
  BY DEF ClientInvariant
<1> QED
  BY <1>1, Invariant, PTL

\* A process that connects once, in a loop whose batches are shorter than a retry
\* delay, is not lost to the connector: none of its assertions fails, and no
\* functor, timer or event finds what it is for gone.
THEOREM OnceIsSafe == Spec => [](Single => proc = "running")
<1>1. ClientInvariant => (Single => proc = "running")
  BY DEF ClientInvariant, AttemptFits
<1> QED
  BY <1>1, Invariant, PTL

\* newConnection never overwrites a connection_ that the client still has,
\* whatever the program does from callbacks or from another thread.
THEOREM ConnectsOneAtATime == Spec => OneConnection
<1> DEFINE Replaces == connection' \notin {connection, None}
<1>1. ASSUME ClientInvariant, [Next]_vars
      PROVE  Replaces => connection = None
  <2>1. Replaces => state = "kConnecting"
    <3>1. CASE HandleError \/ HandleWrite
      BY <3>1, HandlesDo DEF Unexpected
    <3>2. CASE ~HandleError /\ ~HandleWrite
      BY <1>1, <3>2 DEF Next, Loop, Calls, vars, client, Lost, Connect, Calling,
         Disconnect, Stop, ForceClose, Destroy, DestroyAsserts, StartElsewhere,
         StopElsewhere, QueueElsewhere, Poll, SwapFunctors, NextIteration,
         UserReturns, RemoveConnection, HandleEventReturns, HandleEventDangles,
         RunStartInLoop, RunStopInLoop, RunResetChannel, RunConnectDestroyed,
         Next1, StopInLoopDerefsNull, FunctorDangles, OtherCallback,
         ConnectionCloses, DelayPasses, RetryFires, RetryDangles, Accepts, Refuses, Answers
    <3> QED
      BY <3>1, <3>2
  <2> QED
    BY <1>1, <2>1 DEF ClientInvariant, ConnectionFits
<1>2. ClientInvariant /\ [Next]_vars => [Replaces => connection = None]_vars
  BY <1>1
<1>3. Spec => [][Replaces => connection = None]_vars
  BY <1>2, Invariant, PTL DEF Spec
<1> QED
  BY <1>3 DEF OneConnection, Replaces

=============================================================================
