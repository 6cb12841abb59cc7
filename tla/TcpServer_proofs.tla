--------------------------- MODULE TcpServer_proofs ---------------------------
(***************************************************************************)
(* Theorems about TcpServer, for any number of threads and connections.      *)
(***************************************************************************)
EXTENDS TcpServer, QueueLemmas, FiniteSetTheorems

-----------------------------------------------------------------------------
(* What a step does to the threads *)

Moved(l, from, to) ==
    /\ place[l] = from
    /\ place' = [place EXCEPT ![l] = to]

\* Loop l goes from one place to the next.
LoopMoves(l) ==
    \/ l # 0 /\ \/ Moved(l, "created", "known") \/ Moved(l, "known", "poll")
                \/ Moved(l, "left", "forgotten")
                \/ Moved(l, "forgotten", "ended")
    \/ l = 0 /\ Moved(l, "main", "poll") /\ (ordinary => server # "gone")
    \/ Moved(l, "poll", "dispatch") \/ Moved(l, "dispatch", "run")
    \/ batch[l] = <<>> /\ \/ Moved(l, "run", "poll")
                          \/ l = 0 /\ Moved(l, "run", "main")
                          \/ l # 0 /\ quit[l] /\ Moved(l, "run", "left")

\* The number of threads, of descriptors and the program are given once.
LEMMA Givens ==
    ASSUME [Next]_vars
    PROVE  UNCHANGED <<numThreads, maxFiles, ordinary>>
BY DEF Next, BaseStep, BaseSteps, WorkerStep, ThreadSteps, Chosen, ServerLeft,
       vars, poolVars, given, Lost, Start, StartPool, ClientConnects, PollBase,
       Poll, NewConnection, NewConnectionDangles, AcceptFails, AcceptorDangles,
       HandleClose, TakeFunctors, SwapFunctors, EndOfBatch, EndBatch, RunNext,
       RunEstablished, RunDestroyed, RunRemove, RemoveDangles, BeginDestroy,
       DestroyConnection, DestroyConnectionDangles, DestroyMembers, DestroyPool,
       EndDestroy, StartLoop, ThreadFunc, LoopStarted, EnterLoop, QuitInLoop,
       ForgetLoop, DestroyLoop, CheckLoop, QuitThread, QuitDangles, Join

\* How the threads move: the base thread creates one, a loop goes on, or no one
\* moves.
LEMMA PlaceStep ==
    ASSUME [Next]_vars
    PROVE  \/ place' = place
           \/ /\ busy = "start" /\ Moved(at, "none", "created")
              /\ UNCHANGED <<server, busy, at, quit, proc>>
           \/ \E l \in Loops :
                 /\ Turn(l) /\ LoopMoves(l)
                 /\ UNCHANGED <<server, busy, at, proc>>
                 /\ quit' = quit \/ quit' = [quit EXCEPT ![l] = FALSE]
<1>a. 0 \in Loops
  BY MaxThreadsAssumption DEF Loops
<1>b. ASSUME NEW l \in 1 .. MaxThreads
      PROVE  l \in Loops /\ l # 0
  BY MaxThreadsAssumption DEF Loops
<1>1. CASE StartLoop /\ ServerLeft
  BY <1>1 DEF StartLoop, ServerLeft, Moved
<1>2. CASE PollBase
  BY <1>2, <1>a DEF PollBase, Poll, Goes, LoopMoves, Moved
<1>3. CASE EnterLoop(0) /\ (ordinary => server # "gone") /\ ServerLeft
  BY <1>3, <1>a DEF EnterLoop, ServerLeft, Goes, LoopMoves, Moved
<1>4. ASSUME NEW l \in Loops, TakeFunctors(l)
      PROVE  /\ Turn(l) /\ LoopMoves(l)
             /\ UNCHANGED <<server, busy, at, quit, proc>>
  BY <1>4 DEF TakeFunctors, SwapFunctors, Goes, LoopMoves, Moved
<1>5. ASSUME NEW l \in Loops, EndOfBatch(l)
      PROVE  /\ Turn(l) /\ LoopMoves(l)
             /\ UNCHANGED <<server, busy, at, quit, proc>>
  BY <1>5 DEF EndOfBatch, EndBatch, Goes, LoopMoves, Moved
<1>6. ASSUME NEW l \in 1 .. MaxThreads, ThreadSteps(l), ServerLeft
      PROVE  /\ Turn(l) /\ LoopMoves(l)
             /\ UNCHANGED <<server, busy, at, proc>>
             /\ quit' = quit \/ quit' = [quit EXCEPT ![l] = FALSE]
  BY <1>6, <1>b DEF ThreadSteps, Poll, ThreadFunc, EnterLoop, ForgetLoop,
     DestroyLoop, ServerLeft, Goes, LoopMoves, Moved
<1>7. CASE /\ ~(StartLoop /\ ServerLeft) /\ ~PollBase
           /\ ~(EnterLoop(0) /\ (ordinary => server # "gone") /\ ServerLeft)
           /\ \A l \in Loops : ~TakeFunctors(l) /\ ~EndOfBatch(l)
           /\ \A l \in 1 .. MaxThreads : ~(ThreadSteps(l) /\ ServerLeft)
  BY <1>7, <1>a, <1>b DEF Next, BaseStep, BaseSteps, WorkerStep, Chosen, vars,
     poolVars, loopVars, Lost, Start, StartPool, ClientConnects, NewConnection,
     NewConnectionDangles, AcceptFails, AcceptorDangles, HandleClose, RunNext,
     RunEstablished, RunDestroyed, RunRemove, RemoveDangles, BeginDestroy,
     DestroyConnection, DestroyConnectionDangles, DestroyMembers, DestroyPool,
     EndDestroy, LoopStarted, QuitInLoop, CheckLoop, QuitThread, QuitDangles,
     Join
<1> QED
  BY <1>1, <1>2, <1>3, <1>4, <1>5, <1>6, <1>7, <1>a, <1>b


\* Which steps change what the server and the base thread are at.
LEMMA StatusStep ==
    ASSUME [Next]_vars
    PROVE  \/ UNCHANGED <<server, busy, at>>
           \/ /\ UNCHANGED <<place, quit, proc>>
              /\ \/ Start \/ BeginDestroy \/ DestroyMembers \/ EndDestroy
                 \/ (LoopStarted \/ CheckLoop \/ Join) /\ UNCHANGED server
           \/ QuitThread /\ UNCHANGED server
<1>1. CASE Start \/ BeginDestroy \/ DestroyMembers \/ EndDestroy
  BY <1>1 DEF Start, StartPool, BeginDestroy, DestroyMembers, DestroyPool,
     EndDestroy, loopVars
<1>2. CASE (LoopStarted \/ CheckLoop \/ Join) /\ ServerLeft
  BY <1>2 DEF LoopStarted, CheckLoop, Join, ServerLeft, loopVars
<1>3. CASE QuitThread /\ ServerLeft
  BY <1>3 DEF ServerLeft
<1>4. CASE /\ ~Start /\ ~BeginDestroy /\ ~DestroyMembers /\ ~EndDestroy
           /\ ~((LoopStarted \/ CheckLoop \/ Join) /\ ServerLeft)
           /\ ~(QuitThread /\ ServerLeft)
  BY <1>4 DEF Next, BaseStep, BaseSteps, WorkerStep, ThreadSteps, Chosen,
     ServerLeft, vars, poolVars, Lost, ClientConnects, PollBase, Poll,
     NewConnection, NewConnectionDangles, AcceptFails, AcceptorDangles,
     HandleClose, TakeFunctors, SwapFunctors, EndOfBatch, EndBatch, RunNext,
     RunEstablished, RunDestroyed, RunRemove, RemoveDangles, DestroyConnection,
     DestroyConnectionDangles, StartLoop, ThreadFunc, EnterLoop, QuitInLoop,
     ForgetLoop, DestroyLoop, QuitDangles
<1> QED
  BY <1>1, <1>2, <1>3, <1>4

\* Which steps change connections, their states and their loops.
LEMMA ConnectionsStep ==
    ASSUME [Next]_vars
    PROVE  \/ UNCHANGED <<connections, state, ioLoop>>
           \/ NewConnection
           \/ \E c \in Conns : HandleClose(c) \/ DestroyConnection(c)
           \/ \E l \in Loops : RunEstablished(l) \/ RunDestroyed(l)
           \/ RunRemove
<1>1. 0 \in Loops /\ 1 .. MaxThreads \subseteq Loops
  BY MaxThreadsAssumption DEF Loops
<1>2. CASE /\ ~NewConnection /\ ~RunRemove
           /\ \A c \in Conns : ~HandleClose(c) /\ ~DestroyConnection(c)
           /\ \A l \in Loops : ~RunEstablished(l) /\ ~RunDestroyed(l)
  BY <1>1, <1>2 DEF Next, BaseStep, WorkerStep, Chosen, ServerLeft, vars,
     connVars, Start, ClientConnects, PollBase, NewConnectionDangles,
     AcceptFails, AcceptorDangles, TakeFunctors, EndOfBatch, RemoveDangles,
     BeginDestroy, DestroyConnectionDangles, DestroyMembers, EndDestroy
<1> QED
  BY <1>2

\* Which steps change the queues of functors.
LEMMA QueuesStep ==
    ASSUME [Next]_vars
    PROVE  \/ UNCHANGED <<pending, batch>>
           \/ NewConnection
           \/ \E c \in Conns : HandleClose(c) \/ DestroyConnection(c)
           \/ \E l \in Loops : \/ RunEstablished(l) \/ RunDestroyed(l)
                               \/ TakeFunctors(l) \/ (DestroyLoop(l) /\ ServerLeft)
           \/ RunRemove
<1>1. 0 \in Loops /\ 1 .. MaxThreads \subseteq Loops
  BY MaxThreadsAssumption DEF Loops
<1>2. CASE /\ ~NewConnection /\ ~RunRemove
           /\ \A c \in Conns : ~HandleClose(c) /\ ~DestroyConnection(c)
           /\ \A l \in Loops : /\ ~RunEstablished(l) /\ ~RunDestroyed(l)
                               /\ ~TakeFunctors(l)
                               /\ ~(DestroyLoop(l) /\ ServerLeft)
  BY <1>1, <1>2 DEF Next, BaseStep, BaseSteps, WorkerStep, ThreadSteps, Chosen,
     vars, poolVars, loopVars, Lost, Start, StartPool, ClientConnects, PollBase,
     Poll, NewConnectionDangles, AcceptFails, AcceptorDangles, EndOfBatch,
     EndBatch, RemoveDangles, BeginDestroy, DestroyConnectionDangles,
     DestroyMembers, DestroyPool, EndDestroy, StartLoop, ThreadFunc,
     LoopStarted, EnterLoop, QuitInLoop, ForgetLoop, CheckLoop, QuitThread,
     QuitDangles, Join
<1> QED
  BY <1>2


-----------------------------------------------------------------------------
(* The threads *)

\* A place in a function that one step changes.
LEMMA MovedPlaces ==
    ASSUME NEW from, NEW to, NEW l \in Loops, place \in [Loops -> Places],
           Moved(l, from, to)
    PROVE  /\ place[l] = from /\ place'[l] = to
           /\ \A m \in Loops : m # l => place'[m] = place[m]
BY DEF Moved

\* What the places of the threads may become.
LEMMA PlacesStep ==
    ASSUME place \in [Loops -> Places], numThreads \in 0 .. MaxThreads,
           busy = "start" => at \in Workers, [Next]_vars,
           NEW m \in Loops
    PROVE  /\ place'[m] \in Places
           /\ place[m] = "none" => place'[m] = "none"
                 \/ (busy = "start" /\ at = m /\ UNCHANGED <<server, busy, at>>)
           /\ place[m] # "none" => place'[m] # "none"
           /\ place[m] = "ended" => place'[m] = "ended"
           /\ place[m] \notin {"left", "forgotten", "ended"} /\ ~quit[m]
                 => place'[m] \notin {"left", "forgotten", "ended"}
<1>a. Workers \subseteq Loops /\ 0 \notin Workers
  BY MaxThreadsAssumption DEF Workers, Loops
<1>1. CASE place' = place
  BY <1>1
<1>2. CASE /\ busy = "start" /\ Moved(at, "none", "created")
           /\ UNCHANGED <<server, busy, at, quit, proc>>
  <2>1. at \in Loops
    BY <1>2, <1>a
  <2> QED
    BY <1>2, <2>1, MovedPlaces DEF Places
<1>3. ASSUME NEW l \in Loops, LoopMoves(l)
      PROVE  /\ place'[l] \in Places
             /\ place[l] \notin {"none", "ended"} /\ place'[l] # "none"
             /\ place[l] \notin {"left", "forgotten"} /\ ~quit[l]
                   => place'[l] \notin {"left", "forgotten", "ended"}
             /\ \A n \in Loops : n # l => place'[n] = place[n]
  BY <1>3, MovedPlaces DEF LoopMoves, Places
<1>4. ASSUME NEW l \in Loops, LoopMoves(l)
      PROVE  /\ place'[m] \in Places
             /\ place[m] = "none" => place'[m] = "none"
             /\ place[m] # "none" => place'[m] # "none"
             /\ place[m] = "ended" => place'[m] = "ended"
             /\ place[m] \notin {"left", "forgotten", "ended"} /\ ~quit[m]
                   => place'[m] \notin {"left", "forgotten", "ended"}
  <2>1. CASE m = l
    BY <1>3, <1>4, <2>1
  <2>2. CASE m # l
    BY <1>3, <1>4, <2>2
  <2> QED
    BY <2>1, <2>2
<1> QED
  BY <1>1, <1>2, <1>4, PlaceStep


\* The base loop's thread is in its loop or outside, a batch is there while it
\* runs, and connections are given to loops of the pool.
LEMMA LoopsStep ==
    TypeOK /\ LoopsFit /\ ThreadsFit /\ [Next]_vars => LoopsFit'
<1> SUFFICES ASSUME TypeOK, LoopsFit, ThreadsFit, [Next]_vars
             PROVE  LoopsFit'
  OBVIOUS
<1>a. /\ place \in [Loops -> Places] /\ batch \in [Loops -> Seq(Functor)]
      /\ numThreads \in 0 .. MaxThreads /\ 0 \in Loops
      /\ Workers \subseteq Loops /\ 0 \notin Workers
  BY MaxThreadsAssumption DEF TypeOK, PoolTypeOK, Workers, Loops
<1>b. busy = "start" => at \in Workers
  BY DEF ThreadsFit
<1>c. Workers' = Workers
  BY Givens DEF Workers
<1>1. place'[0] \in {"main"} \cup InLoop
  <2>1. CASE place' = place
    BY <2>1 DEF LoopsFit
  <2>2. CASE busy = "start" /\ Moved(at, "none", "created")
    <3>1. at \in Loops /\ at # 0
      BY <1>a, <1>b, <2>2
    <3>2. place'[0] = place[0]
      BY <1>a, <2>2, <3>1, MovedPlaces
    <3> QED
      BY <3>2 DEF LoopsFit
  <2>3. ASSUME NEW l \in Loops, LoopMoves(l)
        PROVE  place'[0] \in {"main"} \cup InLoop
    <3>1. CASE l = 0
      <4>1. \/ Moved(0, "main", "poll") \/ Moved(0, "poll", "dispatch")
            \/ Moved(0, "dispatch", "run") \/ Moved(0, "run", "poll")
            \/ Moved(0, "run", "main")
        BY <2>3, <3>1 DEF LoopMoves
      <4>2. \A from, to : Moved(0, from, to) => place'[0] = to
        BY <1>a, MovedPlaces
      <4> QED
        BY <4>1, <4>2 DEF InLoop
    <3>2. CASE l # 0
      <4>1. \E from, to : Moved(l, from, to)
        BY <2>3, Zenon DEF LoopMoves
      <4>2. place'[0] = place[0]
        BY <1>a, <3>2, <4>1, MovedPlaces
      <4> QED
        BY <4>2 DEF LoopsFit
    <3> QED
      BY <3>1, <3>2
  <2> QED
    BY <2>1, <2>2, <2>3, PlaceStep
<1>2. ASSUME NEW m \in Loops, place'[m] # "run"
      PROVE  batch'[m] = <<>>
  <2>1. place[m] = "run" => batch[m] = <<>> /\ place' # place
    <3>1. SUFFICES ASSUME place[m] = "run"
                   PROVE  batch[m] = <<>> /\ place' # place
      OBVIOUS
    <3>2. CASE place' = place
      BY <1>2, <3>1, <3>2
    <3>3. CASE busy = "start" /\ Moved(at, "none", "created")
      <4>1. at \in Loops
        BY <1>a, <1>b, <3>3
      <4>2. at # m
        BY <3>1, <3>3, <4>1, <1>a, MovedPlaces
      <4> QED
        BY <1>2, <1>a, <3>1, <3>3, <4>1, <4>2, MovedPlaces
    <3>4. ASSUME NEW l \in Loops, LoopMoves(l)
          PROVE  batch[m] = <<>> /\ place' # place
      <4>1. l = m
        BY <1>2, <1>a, <3>1, <3>4, MovedPlaces DEF LoopMoves
      <4>2. batch[l] = <<>>
        BY <1>a, <3>1, <3>4, <4>1, MovedPlaces DEF LoopMoves
      <4> QED
        BY <1>2, <3>1, <4>1, <4>2
    <3> QED
      BY <3>2, <3>3, <3>4, PlaceStep
  <2>2. batch[m] = <<>>
    BY <2>1 DEF LoopsFit
  <2>3. batch'[m] = batch[m] \/ place'[m] = "run"
    <3>1. ASSUME NEW l \in Loops, TakeFunctors(l)
          PROVE  batch'[m] = batch[m] \/ place'[m] = "run"
      <4>1. /\ place' = [place EXCEPT ![l] = "run"]
            /\ batch' = [batch EXCEPT ![l] = pending[l]]
        BY <3>1 DEF TakeFunctors, SwapFunctors, Goes
      <4> QED
        BY <1>a, <4>1
    <3>2. ASSUME NEW l \in Loops, NEW name, RunNext(l, name)
          PROVE  batch'[m] = batch[m] \/ place'[m] = "run"
      <4>1. /\ place[l] = "run" /\ place' = place
            /\ batch' = [batch EXCEPT ![l] = Tail(@)]
        BY <3>2 DEF RunNext
      <4> QED
        BY <1>a, <4>1
    <3>3. ASSUME NEW c \in Conns, HandleClose(c) \/ DestroyConnection(c)
          PROVE  batch' = batch
      BY <3>3 DEF HandleClose, DestroyConnection
    <3>4. NewConnection => batch' = batch
      BY DEF NewConnection
    <3>5. ASSUME NEW l \in Loops, DestroyLoop(l)
          PROVE  batch' = batch
      BY <3>5 DEF DestroyLoop
    <3> QED
      BY <1>a, <3>1, <3>2, <3>3, <3>4, <3>5, QueuesStep
         DEF RunEstablished, RunDestroyed, RunRemove
  <2> QED
    BY <1>2, <2>2, <2>3
<1>3. \A c \in Conns : ioLoop'[c] \in {0} \cup Workers'
  <2>1. CASE NewConnection
    <3>1. NextLoop \in {0} \cup Workers
      <4>1. numThreads > 0 => next \in Workers
        BY DEF TypeOK, PoolTypeOK
      <4>2. numThreads # 0 => numThreads > 0
        BY <1>a
      <4> QED
        BY <4>1, <4>2 DEF NextLoop
    <3>2. \E c : ioLoop' = [ioLoop EXCEPT ![c] = NextLoop]
      BY <2>1 DEF NewConnection
    <3>3. ioLoop \in [Conns -> Loops]
      BY DEF TypeOK
    <3> QED
      BY <1>c, <3>1, <3>2, <3>3 DEF LoopsFit
  <2>2. CASE ~NewConnection
    <3>1. ioLoop' = ioLoop
      BY <2>2, ConnectionsStep DEF HandleClose, DestroyConnection, RunNext,
         RunEstablished, RunDestroyed, RunRemove
    <3> QED
      BY <1>c, <3>1 DEF LoopsFit
  <2> QED
    BY <2>1, <2>2
<1> QED
  BY <1>1, <1>2, <1>3 DEF LoopsFit


\* What a loop still has to do is a queue, and the functor that runs is its first.
LEMMA WorkIsQueue ==
    ASSUME TypeOK, NEW l \in Loops
    PROVE  Work(l) \in Seq(Functor)
<1>1. batch[l] \in Seq(Functor) /\ pending[l] \in Seq(Functor)
  BY DEF TypeOK, PoolTypeOK
<1> QED
  BY <1>1, RangeConcat DEF Work

LEMMA FirstRuns ==
    ASSUME TypeOK, NEW l \in Loops, batch[l] # <<>>
    PROVE  LET f == Head(batch[l])
           IN  /\ f[2] \in Conns /\ f = <<f[1], f[2]>>
               /\ Work(l) # <<>> /\ Head(Work(l)) = f
               /\ Tail(Work(l)) = Tail(batch[l]) \o pending[l]
               /\ About(f, l)
<1> DEFINE b == batch[l]
           p == pending[l]
           f == Head(b)
           t == Tail(b)
           one == <<f>>
<1>1. b \in Seq(Functor) /\ p \in Seq(Functor) /\ b # <<>>
  BY DEF TypeOK, PoolTypeOK
<1>w. Work(l) = b \o p
  BY DEF Work
<1> HIDE DEF b, p
<1>2. f \in Functor /\ t \in Seq(Functor) /\ b = one \o t
  BY <1>1, QueueTail
<1>3. f[2] \in Conns /\ f = <<f[1], f[2]>>
  BY <1>2 DEF Functor
<1> HIDE DEF f, t
<1>4. one \in Seq(Functor)
  BY <1>2
<1> HIDE DEF one
<1>5. b \o p = one \o (t \o p)
  BY <1>1, <1>2, <1>4, ConcatAssociative
<1>6. t \o p \in Seq(Functor)
  BY <1>1, <1>2, RangeConcat
<1> DEFINE r == t \o p
<1> HIDE DEF r
<1>7. /\ <<f>> \o r # <<>> /\ Head(<<f>> \o r) = f /\ Tail(<<f>> \o r) = r
      /\ Range(<<f>> \o r) = {f} \cup Range(r)
  BY <1>2, <1>6, QueuePush DEF r
<1> QED
  BY <1>3, <1>5, <1>7, <1>w DEF one, r, t, f, b, p, About


\* The functor a loop runs next, and what that says of its connection.
LEMMA RunsFirst ==
    ASSUME TypeOK, NEW l \in Loops, NEW name, RunNext(l, name)
    PROVE  /\ batch[l] # <<>>
           /\ Head(batch[l])[2] \in Conns
           /\ About(<<name, Head(batch[l])[2]>>, l)
           /\ Work(l) # <<>> /\ Head(Work(l)) = <<name, Head(batch[l])[2]>>
           /\ Tail(Work(l)) = Tail(batch[l]) \o pending[l]
<1>1. batch[l] # <<>> /\ Head(batch[l])[1] = name
  BY DEF RunNext
<1> QED
  BY <1>1, FirstRuns

\* Before start() nothing happens to connections: there are none.
LEMMA NewIsIdle ==
    ASSUME TypeOK, ThreadsFit, FunctorsFit, server = "new", [Next]_vars
    PROVE  UNCHANGED <<connections, state>>
<1>1. /\ busy = "no" /\ \A c \in Conns : state[c] = "none"
  BY DEF ThreadsFit
<1>2. ASSUME NEW c \in Conns, HandleClose(c) \/ DestroyConnection(c)
      PROVE  FALSE
  BY <1>1, <1>2 DEF HandleClose, DestroyConnection, Destroying
<1>3. ASSUME NEW l \in Loops, RunEstablished(l) \/ RunDestroyed(l)
      PROVE  FALSE
  <2>1. PICK c \in Conns : \/ About(<<"connectEstablished", c>>, l)
                           \/ About(<<"connectDestroyed", c>>, l)
    BY <1>3, RunsFirst DEF RunEstablished, RunDestroyed
  <2> QED
    BY <1>1, <2>1 DEF FunctorsFit, Fits
<1>4. ASSUME RunRemove
      PROVE  FALSE
  <2>1. 0 \in Loops
    BY MaxThreadsAssumption DEF Loops
  <2>2. PICK c \in Conns : About(<<"removeConnectionInLoop", c>>, 0)
    BY <1>4, <2>1, RunsFirst DEF RunRemove
  <2> QED
    BY <1>1, <2>1, <2>2 DEF FunctorsFit, Fits
<1>5. ~NewConnection
  BY DEF NewConnection, Accepts
<1> QED
  BY <1>2, <1>3, <1>4, <1>5, ConnectionsStep

\* start() and the destructor reach every thread.
LEMMA ThreadsStep ==
    TypeOK /\ ThreadsFit /\ FunctorsFit /\ [Next]_vars => ThreadsFit'
<1> SUFFICES ASSUME TypeOK, ThreadsFit, FunctorsFit, [Next]_vars
             PROVE  ThreadsFit'
  OBVIOUS
<1>a. /\ place \in [Loops -> Places] /\ numThreads \in 0 .. MaxThreads
      /\ Workers \subseteq Loops /\ (busy = "start" => at \in Workers)
      /\ Workers = 1 .. numThreads /\ numThreads \in Nat /\ at \in Nat
  BY MaxThreadsAssumption DEF TypeOK, PoolTypeOK, Workers, Loops, ThreadsFit
<1>b. Workers' = Workers
  BY Givens DEF Workers
<1>c. \A m \in Workers :
         /\ place[m] = "none" => place'[m] = "none" \/ busy = "start"
         /\ place[m] # "none" => place'[m] # "none"
         /\ place[m] = "ended" => place'[m] = "ended"
  BY <1>a, PlacesStep
<1>d. busy \in {"no", "start", "destroy", "check", "quit", "join", "joined"}
      /\ server \in {"new", "started", "destroying", "gone"}
  BY DEF TypeOK, PoolTypeOK
<1>e. UNCHANGED server => UNCHANGED <<connections, state>> \/ server' # "new"
  BY NewIsIdle
<1>1. CASE UNCHANGED <<server, busy, at>>
  <2>1. server' = "new" =>
           /\ busy' = "no" /\ connections' = {}
           /\ \A l \in Workers' : place'[l] = "none"
           /\ \A c \in Conns : state'[c] = "none"
    BY <1>1, <1>b, <1>c, <1>e DEF ThreadsFit
  <2>2. server' = "started" =>
           /\ busy' \in {"no", "start"}
           /\ busy' = "no" => \A l \in Workers' : place'[l] # "none"
    BY <1>1, <1>b, <1>c DEF ThreadsFit
  <2>3. busy' = "start" =>
           /\ server' = "started" /\ at' \in Workers'
           /\ \A l \in Workers' : l < at' => place'[l] # "none"
    BY <1>1, <1>b, <1>c DEF ThreadsFit
  <2>4. server' = "destroying"
           <=> busy' \in {"destroy", "check", "quit", "join", "joined"}
    BY <1>1 DEF ThreadsFit
  <2>5. busy' = "destroy" =>
           \/ \A l \in Workers' : place'[l] = "none"
           \/ \A l \in Workers' : place'[l] # "none"
    BY <1>1, <1>b, <1>c DEF ThreadsFit
  <2>6. busy' \in {"check", "quit", "join"} =>
           /\ at' \in Workers'
           /\ \A l \in Workers' : l < at' => place'[l] = "ended"
    BY <1>1, <1>b, <1>c DEF ThreadsFit
  <2>7. busy' = "joined" \/ server' = "gone" =>
           \A l \in Workers' : place'[l] \in {"none", "ended"}
    BY <1>1, <1>b, <1>c DEF ThreadsFit
  <2> QED
    BY <2>1, <2>2, <2>3, <2>4, <2>5, <2>6, <2>7 DEF ThreadsFit
<1>2. CASE Start
  <2>1. /\ server' = "started" /\ server = "new" /\ busy = "no" /\ at' = 1
        /\ busy' = IF numThreads = 0 THEN "no" ELSE "start"
    BY <1>2 DEF Start, StartPool, BaseCalls
  <2>2. CASE numThreads = 0
    <3>1. Workers' = {} /\ busy' = "no"
      BY <1>a, <1>b, <2>1, <2>2
    <3> QED
      BY <2>1, <3>1 DEF ThreadsFit
  <2>3. CASE numThreads # 0
    <3>1. busy' = "start" /\ at' \in Workers' /\ \A l \in Workers' : ~(l < at')
      BY <1>a, <1>b, <2>1, <2>3
    <3> QED
      BY <2>1, <3>1 DEF ThreadsFit
  <2> QED
    BY <2>2, <2>3
<1>3. CASE LoopStarted /\ UNCHANGED server
  <2>1. /\ busy = "start" /\ Known(at) /\ at' = at + 1 /\ place' = place
        /\ busy' = IF at = numThreads THEN "no" ELSE "start"
        /\ server' = "started"
    BY <1>3 DEF LoopStarted, loopVars, ThreadsFit
  <2>2. \A l \in Workers : l < at + 1 => place[l] # "none"
    <3>1. place[at] # "none"
      BY <2>1 DEF Known, InLoop
    <3>2. \A l \in Workers : l < at + 1 => l < at \/ l = at
      BY <1>a
    <3> QED
      BY <2>1, <3>1, <3>2 DEF ThreadsFit
  <2>3. CASE at = numThreads
    <3>1. \A l \in Workers : l < at + 1
      BY <1>a, <2>3
    <3> QED
      BY <1>b, <2>1, <2>2, <2>3, <3>1 DEF ThreadsFit
  <2>4. CASE at # numThreads
    <3>1. at + 1 \in Workers
      BY <1>a, <2>1, <2>4
    <3> QED
      BY <1>b, <2>1, <2>2, <2>4, <3>1 DEF ThreadsFit
  <2> QED
    BY <2>3, <2>4
<1>4. CASE BeginDestroy
  <2>1. /\ server \in {"new", "started"} /\ busy = "no" /\ place' = place
        /\ server' = "destroying" /\ busy' = "destroy"
    BY <1>4 DEF BeginDestroy, BaseCalls, loopVars
  <2> QED
    BY <1>b, <2>1 DEF ThreadsFit
<1>5. CASE DestroyMembers
  <2>1. /\ busy = "destroy" /\ place' = place /\ at' = 1
        /\ server' = server
        /\ busy' = IF numThreads > 0 /\ place[1] # "none" THEN "check" ELSE "joined"
    BY <1>5 DEF DestroyMembers, Destroying, DestroyPool, loopVars
  <2>2. CASE numThreads > 0 /\ place[1] # "none"
    <3>1. at' \in Workers' /\ \A l \in Workers' : ~(l < at')
      BY <1>a, <1>b, <2>1, <2>2
    <3> QED
      BY <2>1, <2>2, <3>1 DEF ThreadsFit
  <2>3. CASE ~(numThreads > 0 /\ place[1] # "none")
    <3>1. \A l \in Workers : place[l] = "none"
      <4>1. CASE numThreads > 0
        <5>1. 1 \in Workers
          BY <1>a, <4>1
        <5> QED
          BY <2>1, <2>3, <4>1, <5>1 DEF ThreadsFit
      <4>2. CASE ~(numThreads > 0)
        BY <1>a, <4>2
      <4> QED
        BY <4>1, <4>2
    <3>2. busy' = "joined"
      BY <2>1, <2>3
    <3> QED
      BY <1>b, <2>1, <3>1, <3>2 DEF ThreadsFit
  <2> QED
    BY <2>2, <2>3
<1>6. CASE (CheckLoop /\ UNCHANGED server) \/ (QuitThread /\ UNCHANGED server)
  <2>1. /\ busy \in {"check", "quit"} /\ busy' \in {"quit", "join"}
        /\ at' = at /\ place' = place /\ server' = server
    BY <1>6 DEF CheckLoop, QuitThread, loopVars
  <2> QED
    BY <1>b, <2>1 DEF ThreadsFit
<1>7. CASE Join /\ UNCHANGED server
  <2>1. /\ busy = "join" /\ place[at] = "ended" /\ at' = at + 1
        /\ busy' = IF at = numThreads THEN "joined" ELSE "check"
        /\ place' = place /\ server' = server
    BY <1>7 DEF Join, loopVars
  <2>2. \A l \in Workers : l < at + 1 => place[l] = "ended"
    <3>1. \A l \in Workers : l < at + 1 => l < at \/ l = at
      BY <1>a
    <3> QED
      BY <2>1, <3>1 DEF ThreadsFit
  <2>3. CASE at = numThreads
    <3>1. \A l \in Workers : l < at + 1
      BY <1>a, <2>3
    <3> QED
      BY <1>b, <2>1, <2>2, <2>3, <3>1 DEF ThreadsFit
  <2>4. CASE at # numThreads
    <3>1. at \in Workers
      BY <2>1 DEF ThreadsFit
    <3>2. at + 1 \in Workers
      BY <1>a, <2>4, <3>1
    <3> QED
      BY <1>b, <2>1, <2>2, <2>4, <3>2 DEF ThreadsFit
  <2> QED
    BY <2>3, <2>4
<1>8. CASE EndDestroy
  <2>1. /\ busy = "joined" /\ busy' = "no" /\ server' = "gone" /\ place' = place
    BY <1>8 DEF EndDestroy, loopVars
  <2> QED
    BY <1>b, <2>1 DEF ThreadsFit
<1> QED
  BY <1>1, <1>2, <1>3, <1>4, <1>5, <1>6, <1>7, <1>8, StatusStep


\* Which steps lose the process.
LEMMA ProcStep ==
    ASSUME [Next]_vars
    PROVE  \/ proc' = proc
           \/ /\ proc' = "dangling"
              /\ \/ NewConnectionDangles \/ AcceptorDangles \/ RemoveDangles
                 \/ QuitDangles
                 \/ \E c \in Conns : DestroyConnectionDangles(c)
<1>1. CASE \/ NewConnectionDangles \/ AcceptorDangles \/ RemoveDangles
           \/ QuitDangles
           \/ \E c \in Conns : DestroyConnectionDangles(c)
  BY <1>1 DEF NewConnectionDangles, AcceptorDangles, RemoveDangles, QuitDangles,
     DestroyConnectionDangles, Lost
<1>2. CASE /\ ~NewConnectionDangles /\ ~AcceptorDangles /\ ~RemoveDangles
           /\ ~QuitDangles
           /\ \A c \in Conns : ~DestroyConnectionDangles(c)
  BY <1>2 DEF Next, BaseStep, BaseSteps, WorkerStep, ThreadSteps, Chosen, vars,
     poolVars, Start, StartPool, ClientConnects, PollBase, Poll, NewConnection,
     AcceptFails, HandleClose, TakeFunctors, SwapFunctors, EndOfBatch, EndBatch,
     RunNext, RunEstablished, RunDestroyed, RunRemove, BeginDestroy,
     DestroyConnection, DestroyMembers, DestroyPool, EndDestroy, StartLoop,
     ThreadFunc, LoopStarted, EnterLoop, QuitInLoop, ForgetLoop, DestroyLoop,
     CheckLoop, QuitThread, Join
<1> QED
  BY <1>1, <1>2

\* Which steps tell a loop to quit.
LEMMA QuitStep ==
    ASSUME quit \in [Loops -> BOOLEAN], [Next]_vars, NEW m \in Loops,
           quit'[m] # quit[m], quit'[m]
    PROVE  (ordinary /\ m = 0) \/ ~ordinary \/ (QuitThread /\ UNCHANGED server /\ m = at)
<1>1. ASSUME NEW l \in Loops, QuitInLoop(l), ordinary => l = 0
      PROVE  (ordinary /\ m = 0) \/ ~ordinary
  <2>1. quit' = [quit EXCEPT ![l] = TRUE]
    BY <1>1 DEF QuitInLoop
  <2>2. m = l
    BY <2>1
  <2> QED
    BY <1>1, <2>2
<1>2. CASE QuitThread /\ ServerLeft
  <2>1. quit' = [quit EXCEPT ![at] = TRUE]
    BY <1>2 DEF QuitThread
  <2>2. m = at
    BY <2>1
  <2> QED
    BY <1>2, <2>2 DEF ServerLeft
<1>3. CASE /\ \A l \in Loops : ~(QuitInLoop(l) /\ (ordinary => l = 0))
           /\ ~(QuitThread /\ ServerLeft)
  <2>1. \/ quit' = quit
        \/ \E l : quit' = [quit EXCEPT ![l] = FALSE]
    BY <1>3 DEF Next, BaseStep, BaseSteps, WorkerStep, ThreadSteps, Chosen, vars,
       poolVars, loopVars, Lost, Start, StartPool, ClientConnects, PollBase,
       Poll, NewConnection, NewConnectionDangles, AcceptFails, AcceptorDangles,
       HandleClose, TakeFunctors, SwapFunctors, EndOfBatch, EndBatch, RunNext,
       RunEstablished, RunDestroyed, RunRemove, RemoveDangles, BeginDestroy,
       DestroyConnection, DestroyConnectionDangles, DestroyMembers, DestroyPool,
       EndDestroy, StartLoop, ThreadFunc, LoopStarted, EnterLoop, ForgetLoop,
       DestroyLoop, CheckLoop, QuitDangles, Join
  <2> QED
    BY <2>1
<1> QED
  BY <1>1, <1>2, <1>3

\* In a program like the examples no step loses the process.
LEMMA NothingDangles ==
    ASSUME TypeOK, LoopsFit, ThreadsFit, OrdinaryRuns, ordinary, [Next]_vars
    PROVE  proc' = "running"
<1>a. /\ place[0] # "ended" /\ proc = "running"
      /\ server \in {"destroying", "gone"} => place[0] = "main"
  BY DEF LoopsFit, InLoop, OrdinaryRuns
<1>d. Workers \subseteq Loops /\ 0 \in Loops
  BY MaxThreadsAssumption DEF TypeOK, PoolTypeOK, Workers, Loops
<1>b. ASSUME NEW l \in {0} \cup Workers,
             server \in {"new", "started"} \/ busy = "destroy"
      PROVE  Exists(l)
  BY <1>a, <1>b DEF OrdinaryRuns, Untold, Exists
<1>1. ~NewConnectionDangles
  <2>1. NextLoop \in {0} \cup Workers
    <3>1. numThreads > 0 => next \in Workers
      BY MaxThreadsAssumption DEF TypeOK, PoolTypeOK
    <3>2. numThreads # 0 => numThreads > 0
      BY MaxThreadsAssumption DEF TypeOK, PoolTypeOK
    <3> QED
      BY <3>1, <3>2 DEF NextLoop
  <2> QED
    BY <1>b, <2>1 DEF NewConnectionDangles, Accepts
<1>2. ~AcceptorDangles
  BY <1>a DEF AcceptorDangles
<1>3. ~RemoveDangles
  <2>1. SUFFICES ASSUME RemoveDangles
                 PROVE  FALSE
    OBVIOUS
  <2>2. place[0] = "run" /\ batch[0] # <<>>
    BY <2>1 DEF RemoveDangles
  <2>3. server \in {"new", "started"}
    BY <1>a, <2>2 DEF TypeOK
  <2>4. ioLoop[Head(batch[0])[2]] \in {0} \cup Workers
    BY <1>d, <2>2, FirstRuns DEF LoopsFit
  <2> QED
    BY <1>b, <2>1, <2>3, <2>4 DEF RemoveDangles
<1>4. ~QuitDangles
  <2>1. busy = "quit" => at \in Workers /\ Untold(at)
    <3>1. at \in Nat
      BY DEF TypeOK, PoolTypeOK
    <3> QED
      BY <3>1 DEF ThreadsFit, Untold
  <2> QED
    BY <2>1 DEF QuitDangles, OrdinaryRuns, Exists
<1>5. ASSUME NEW c \in Conns, DestroyConnectionDangles(c)
      PROVE  FALSE
  <2>1. busy = "destroy" /\ ~Exists(ioLoop[c])
    BY <1>5 DEF DestroyConnectionDangles, Destroying
  <2> QED
    BY <1>b, <2>1 DEF LoopsFit
<1> QED
  BY <1>a, <1>1, <1>2, <1>3, <1>4, <1>5, ProcStep

\* In a program like the examples the process runs on, and a loop is left only
\* when the destructor has told its thread to.
LEMMA OrdinaryStep ==
    TypeOK /\ LoopsFit /\ ThreadsFit /\ OrdinaryRuns /\ [Next]_vars => OrdinaryRuns'
<1> SUFFICES ASSUME TypeOK, LoopsFit, ThreadsFit, OrdinaryRuns, [Next]_vars
             PROVE  OrdinaryRuns'
  OBVIOUS
<1>b. ordinary' = ordinary /\ Workers' = Workers
  BY Givens DEF Workers
<1> SUFFICES ASSUME ordinary
             PROVE  /\ proc' = "running"
                    /\ server' \in {"destroying", "gone"} => place'[0] = "main"
                    /\ \A l \in Workers : Untold(l)' =>
                          /\ ~quit'[l]
                          /\ place'[l] \notin {"left", "forgotten", "ended"}
  BY <1>b DEF OrdinaryRuns
<1>c. busy = "start" => at \in Workers
  BY DEF ThreadsFit
<1>d. /\ place \in [Loops -> Places] /\ quit \in [Loops -> BOOLEAN]
      /\ numThreads \in 0 .. MaxThreads /\ at \in Nat
  BY DEF TypeOK, PoolTypeOK
<1>e. /\ Workers \subseteq Loops /\ 0 \in Loops /\ 0 \notin Workers
      /\ \A l \in Workers : l \in Nat
  BY <1>d, MaxThreadsAssumption DEF Workers, Loops
<1>a. /\ place \in [Loops -> Places] /\ quit \in [Loops -> BOOLEAN]
      /\ numThreads \in 0 .. MaxThreads /\ at \in Nat
      /\ Workers \subseteq Loops /\ 0 \in Loops /\ 0 \notin Workers
      /\ \A l \in Workers : l \in Nat
      /\ (busy = "start" => at \in Workers)
  BY <1>c, <1>d, <1>e
<1>1. proc' = "running"
  BY NothingDangles
<1>2. server' \in {"destroying", "gone"} => place'[0] = "main"
  <2>1. CASE UNCHANGED <<server, busy, at>>
    <3>1. SUFFICES ASSUME server \in {"destroying", "gone"}
                   PROVE  place'[0] = "main"
      BY <2>1
    <3>2. place[0] = "main"
      BY <3>1 DEF OrdinaryRuns
    <3>3. ASSUME NEW l \in Loops, Turn(l), LoopMoves(l)
          PROVE  place'[0] = "main"
      <4>1. CASE l = 0
        <5>1. busy = "no"
          BY <3>3, <4>1 DEF Turn
        <5>2. server = "gone"
          BY <3>1, <5>1 DEF ThreadsFit
        <5> QED
          BY <1>a, <3>2, <3>3, <4>1, <5>2, MovedPlaces DEF LoopMoves
      <4>2. CASE l # 0
        BY <1>a, <3>2, <3>3, <4>2, MovedPlaces DEF LoopMoves
      <4> QED
        BY <4>1, <4>2
    <3>4. busy # "start"
      BY <3>1 DEF ThreadsFit
    <3> QED
      BY <3>2, <3>3, <3>4, PlaceStep
  <2>2. CASE BeginDestroy
    BY <2>2 DEF BeginDestroy, loopVars
  <2>3. CASE /\ UNCHANGED place
             /\ Start \/ EndDestroy \/ server' = server
    <3>1. server' \in {"destroying", "gone"} => server \in {"destroying", "gone"}
      BY <2>3 DEF Start, EndDestroy, ThreadsFit
    <3> QED
      BY <2>3, <3>1 DEF OrdinaryRuns
  <2>4. QuitThread => UNCHANGED place
    BY DEF QuitThread
  <2>5. DestroyMembers => UNCHANGED server
    BY DEF DestroyMembers
  <2> QED
    BY <2>1, <2>2, <2>3, <2>4, <2>5, StatusStep
<1>3. ASSUME NEW l \in Workers, Untold(l)'
      PROVE  Untold(l) /\ ~(QuitThread /\ UNCHANGED server /\ l = at)
  <2>1. CASE UNCHANGED <<server, busy, at>>
    <3>1. ~QuitThread
      BY <2>1 DEF QuitThread
    <3> QED
      BY <1>3, <2>1, <3>1 DEF Untold
  <2>2. CASE Start \/ BeginDestroy
    <3>1. server \in {"new", "started"} /\ ~QuitThread
      BY <2>2 DEF Start, BeginDestroy, BaseCalls, QuitThread
    <3> QED
      BY <3>1 DEF Untold
  <2>3. CASE DestroyMembers
    <3>1. busy = "destroy" /\ ~QuitThread
      BY <2>3 DEF DestroyMembers, Destroying, QuitThread
    <3> QED
      BY <3>1 DEF Untold
  <2>4. CASE EndDestroy
    BY <1>3, <2>4 DEF EndDestroy, Untold
  <2>5. CASE LoopStarted /\ UNCHANGED server
    <3>1. server = "started" /\ ~QuitThread
      BY <2>5 DEF LoopStarted, ThreadsFit, QuitThread
    <3> QED
      BY <3>1 DEF Untold
  <2>6. CASE CheckLoop /\ UNCHANGED server
    <3>1. /\ busy = "check" /\ busy' \in {"quit", "join"} /\ at' = at
          /\ server' = server /\ ~QuitThread
      BY <2>6 DEF CheckLoop, QuitThread
    <3> QED
      BY <1>a, <1>3, <3>1 DEF Untold
  <2>7. CASE QuitThread /\ UNCHANGED server
    <3>1. busy = "quit" /\ busy' = "join" /\ at' = at /\ server' = server
      BY <2>7 DEF QuitThread
    <3>2. server \notin {"new", "started"}
      BY <3>1 DEF ThreadsFit
    <3> QED
      BY <1>a, <1>3, <3>1, <3>2 DEF Untold
  <2>8. CASE Join /\ UNCHANGED server
    <3>1. /\ busy = "join" /\ busy' \in {"check", "joined"} /\ at' = at + 1
          /\ server' = server /\ ~QuitThread
      BY <2>8 DEF Join, QuitThread
    <3>2. server \notin {"new", "started"}
      BY <3>1 DEF ThreadsFit
    <3>3. at + 1 <= l
      BY <1>3, <3>1, <3>2 DEF Untold
    <3>4. at < l
      BY <1>a, <3>3
    <3> QED
      BY <3>1, <3>4 DEF Untold
  <2> QED
    BY <2>1, <2>2, <2>3, <2>4, <2>5, <2>6, <2>7, <2>8, StatusStep
<1>4. ASSUME NEW l \in Workers, Untold(l)'
      PROVE  /\ ~quit'[l]
             /\ place'[l] \notin {"left", "forgotten", "ended"}
  <2>1. ~quit[l] /\ place[l] \notin {"left", "forgotten", "ended"}
    BY <1>3, <1>4 DEF OrdinaryRuns
  <2>2. l \in Loops /\ l # 0
    BY <1>a
  <2>3. ~quit'[l]
    BY <1>a, <1>3, <1>4, <2>1, <2>2, QuitStep
  <2>4. place'[l] \notin {"left", "forgotten", "ended"}
    BY <1>a, <2>1, <2>2, PlacesStep
  <2> QED
    BY <2>3, <2>4
<1> QED
  BY <1>1, <1>2, <1>4


-----------------------------------------------------------------------------
(* The functors *)

\* What a functor put at the end does to how often and in which order functors
\* wait.
LEMMA AppendKeepsOrder ==
    ASSUME NEW S, NEW q \in Seq(S), NEW e \in S, NEW f, NEW g
    PROVE  /\ Once(q, f) /\ (e # f \/ f \notin Range(q)) => Once(Append(q, e), f)
           /\ Before(q, f, g) /\ f # g /\ (e # f \/ g \notin Range(q))
                 => Before(Append(q, e), f, g)
<1> DEFINE r == Append(q, e)
<1>1. Len(q) \in Nat /\ DOMAIN q = 1 .. Len(q)
  BY QueuePlaces
<1>2. r \in Seq(S) /\ Len(r) = Len(q) + 1 /\ r[Len(q) + 1] = e
  BY QueueAppend
<1>3. \A i \in 1 .. Len(q) : r[i] = q[i] /\ r[i] \in Range(q)
  BY QueueAppend, QueuePlaces
<1>4. DOMAIN r = 1 .. Len(r)
  BY <1>2, QueuePlaces
<1> HIDE DEF r
<1>5. \A i \in DOMAIN r : i \in 1 .. Len(q) \/ (i = Len(q) + 1 /\ r[i] = e)
  BY <1>1, <1>2, <1>4
<1>6. ASSUME Once(q, f), e # f \/ f \notin Range(q)
      PROVE  Once(r, f)
  BY <1>1, <1>3, <1>5, <1>6 DEF Once
<1>7. ASSUME Before(q, f, g), f # g, e # f \/ g \notin Range(q)
      PROVE  Before(r, f, g)
  <2>1. SUFFICES ASSUME NEW i \in DOMAIN r, NEW j \in DOMAIN r, r[i] = f, r[j] = g
                 PROVE  i < j
    BY DEF Before
  <2>2. CASE i \in 1 .. Len(q) /\ j \in 1 .. Len(q)
    BY <1>1, <1>3, <1>7, <2>1, <2>2 DEF Before
  <2>3. CASE i \in 1 .. Len(q) /\ j = Len(q) + 1
    BY <1>1, <2>3
  <2>4. CASE i = Len(q) + 1 /\ r[i] = e
    BY <1>3, <1>5, <1>7, <2>1, <2>4
  <2> QED
    BY <1>5, <2>2, <2>3, <2>4
<1> QED
  BY <1>6, <1>7 DEF r

\* What running the first does to them: one that waited once is gone, and what
\* was to come before the first has not been there.
LEMMA TailKeepsOrder ==
    ASSUME NEW S, NEW q \in Seq(S), q # <<>>, NEW f, NEW g
    PROVE  /\ Once(q, f) => Once(Tail(q), f)
           /\ Once(q, f) /\ Head(q) = f => f \notin Range(Tail(q))
           /\ Before(q, f, g) => Before(Tail(q), f, g)
           /\ Before(q, f, g) /\ Head(q) = g => f \notin Range(q)
<1> DEFINE r == Tail(q)
<1>1. Len(q) \in Nat /\ DOMAIN q = 1 .. Len(q)
  BY QueuePlaces
<1>2. /\ r \in Seq(S) /\ Len(q) >= 1 /\ Len(r) = Len(q) - 1
      /\ Head(q) = q[1]
      /\ \A i \in 1 .. Len(q) - 1 : r[i] = q[i + 1]
  BY QueueTail
<1>3. DOMAIN r = 1 .. Len(r) /\ \A e : e \in Range(r) <=> \E i \in 1 .. Len(r) : r[i] = e
  BY <1>2, QueuePlaces
<1>4. \A e : e \in Range(q) <=> \E i \in 1 .. Len(q) : q[i] = e
  BY QueuePlaces
<1> HIDE DEF r
<1>5. \A i \in DOMAIN r : i \in Nat /\ i + 1 \in DOMAIN q /\ r[i] = q[i + 1]
  BY <1>1, <1>2, <1>3
<1>6. Once(q, f) => Once(r, f)
  <2>1. SUFFICES ASSUME Once(q, f), NEW i \in DOMAIN r, NEW j \in DOMAIN r,
                        r[i] = f, r[j] = f
                 PROVE  i = j
    BY DEF Once
  <2>2. i + 1 = j + 1
    BY <1>5, <2>1 DEF Once
  <2> QED
    BY <1>5, <2>2
<1>7. Once(q, f) /\ Head(q) = f => f \notin Range(r)
  <2>1. SUFFICES ASSUME Once(q, f), Head(q) = f, NEW i \in 1 .. Len(r), r[i] = f
                 PROVE  FALSE
    BY <1>3
  <2>2. i + 1 = 1
    BY <1>1, <1>2, <1>3, <1>5, <2>1 DEF Once
  <2> QED
    BY <2>2
<1>8. Before(q, f, g) => Before(r, f, g)
  <2>1. SUFFICES ASSUME Before(q, f, g), NEW i \in DOMAIN r, NEW j \in DOMAIN r,
                        r[i] = f, r[j] = g
                 PROVE  i < j
    BY DEF Before
  <2>2. i + 1 < j + 1
    BY <1>5, <2>1 DEF Before
  <2> QED
    BY <1>5, <2>2
<1>9. Before(q, f, g) /\ Head(q) = g => f \notin Range(q)
  <2>1. SUFFICES ASSUME Before(q, f, g), Head(q) = g, NEW i \in 1 .. Len(q), q[i] = f
                 PROVE  FALSE
    BY <1>4
  <2>2. i < 1
    BY <1>1, <1>2, <2>1 DEF Before
  <2> QED
    BY <2>2
<1> QED
  BY <1>6, <1>7, <1>8, <1>9 DEF r


\* A functor is queued when it is about to run in some loop.
LEMMA QueuedIsAbout ==
    ASSUME TypeOK, NEW f
    PROVE  Queued(f) <=> \E l \in Loops : About(f, l)
<1>1. ASSUME NEW l \in Loops
      PROVE  About(f, l) <=> \E q \in {pending[l], batch[l]} :
                                \E i \in DOMAIN q : q[i] = f
  <2>1. batch[l] \in Seq(Functor) /\ pending[l] \in Seq(Functor)
    BY DEF TypeOK, PoolTypeOK
  <2>2. Range(Work(l)) = Range(batch[l]) \cup Range(pending[l])
    BY <2>1, RangeConcat DEF Work
  <2>3. \A q : f \in Range(q) <=> \E i \in DOMAIN q : q[i] = f
    BY DEF Range
  <2> QED
    BY <2>2, <2>3 DEF About
<1> QED
  BY <1>1 DEF Queued

\* Handing a functor to a loop puts it behind all its others.
LEMMA WorkQueued ==
    ASSUME NEW b \in [Loops -> Seq(Functor)], NEW p \in [Loops -> Seq(Functor)],
           NEW m \in Loops, NEW f \in Functor,
           batch' = b, pending' = [p EXCEPT ![m] = Append(@, f)]
    PROVE  /\ Work(m)' = Append(b[m] \o p[m], f)
           /\ \A l \in Loops : l # m => Work(l)' = b[l] \o p[l]
<1>1. pending'[m] = Append(p[m], f) /\ \A l \in Loops : l # m => pending'[l] = p[l]
  OBVIOUS
<1>2. <<f>> \in Seq(Functor)
  OBVIOUS
<1>3. /\ b[m] \in Seq(Functor) /\ p[m] \in Seq(Functor)
      /\ b[m] \o p[m] \in Seq(Functor)
  BY RangeConcat
<1>4. Append(p[m], f) = p[m] \o <<f>> /\ Append(b[m] \o p[m], f) = (b[m] \o p[m]) \o <<f>>
  BY <1>3, QueueAppend
<1>5. b[m] \o (p[m] \o <<f>>) = (b[m] \o p[m]) \o <<f>>
  BY <1>2, <1>3, ConcatAssociative
<1>6. Work(m)' = b[m] \o pending'[m] /\ \A l \in Loops : Work(l)' = b[l] \o pending'[l]
  BY DEF Work
<1> QED
  BY <1>1, <1>4, <1>5, <1>6

LEMMA QueueDoes ==
    ASSUME TypeOK, NEW m \in Loops, NEW f \in Functor, UNCHANGED batch, Queue(m, f)
    PROVE  /\ Work(m)' = Append(Work(m), f)
           /\ \A l \in Loops : l # m => Work(l)' = Work(l)
<1>1. batch \in [Loops -> Seq(Functor)] /\ pending \in [Loops -> Seq(Functor)]
  BY DEF TypeOK, PoolTypeOK
<1>2. batch' = batch /\ pending' = [pending EXCEPT ![m] = Append(@, f)]
  BY DEF Queue
<1>3. /\ Work(m)' = Append(batch[m] \o pending[m], f)
      /\ \A l \in Loops : l # m => Work(l)' = batch[l] \o pending[l]
  BY <1>1, <1>2, WorkQueued
<1> QED
  BY <1>3 DEF Work

\* What becomes of the functors about a connection when a loop runs its first or
\* is given one about another.
LEMMA FitsKept ==
    ASSUME TypeOK, NEW c \in Conns, NEW l \in Loops, Fits(c, l),
           UNCHANGED <<state[c], ioLoop[c]>>,
           server' = "started" => server = "started" \/ state[c] = "none",
           \/ Work(l)' = Work(l)
           \/ Work(l)' = <<>>
           \/ Work(l) # <<>> /\ Work(l)' = Tail(Work(l))
           \/ \E f \in Functor : f[2] # c /\ Work(l)' = Append(Work(l), f)
    PROVE  /\ Fits(c, l)'
           /\ \A name \in {"connectEstablished", "connectDestroyed",
                           "removeConnectionInLoop"} :
                 About(<<name, c>>, l)' => About(<<name, c>>, l)
<1> DEFINE q == Work(l)
           e == <<"connectEstablished", c>>
           d == <<"connectDestroyed", c>>
           r == <<"removeConnectionInLoop", c>>
<1>1. q \in Seq(Functor)
  BY WorkIsQueue
<1>2. e # d /\ e[2] = c /\ d[2] = c /\ r[2] = c
  OBVIOUS
<1>3. Once(q, e) /\ Once(q, r) /\ Before(q, e, d)
  BY DEF Fits
<1> DEFINE Kept == /\ Range(Work(l)') \cap {e, d, r} \subseteq Range(Work(l))
                   /\ Once(Work(l)', e) /\ Once(Work(l)', r)
                   /\ Before(Work(l)', e, d)
<1>4. ASSUME Work(l)' = Work(l)
      PROVE  Kept
  BY <1>3, <1>4
<1>5. ASSUME Work(l)' = <<>>
      PROVE  Kept
  <2>1. Range(<<>>) = {} /\ DOMAIN <<>> = {}
    BY QueueEmpty
  <2> QED
    BY <1>5, <2>1 DEF Once, Before
<1> HIDE DEF e, d, r
<1>6. ASSUME q # <<>>, Work(l)' = Tail(q)
      PROVE  Kept
  <2>1. Range(Tail(q)) \subseteq Range(q)
    BY <1>1, <1>6, QueueTail
  <2>2. Once(Tail(q), e) /\ Once(Tail(q), r) /\ Before(Tail(q), e, d)
    BY <1>1, <1>3, <1>6, TailKeepsOrder
  <2> QED
    BY <1>6, <2>1, <2>2
<1>7. ASSUME NEW f \in Functor, f[2] # c, Work(l)' = Append(q, f)
      PROVE  Kept
  <2>1. Range(Append(q, f)) = Range(q) \cup {f}
    BY <1>1, RangeAppend
  <2>2. f # e /\ f # d /\ f # r
    BY <1>2, <1>7
  <2>3. Once(Append(q, f), e) /\ Once(Append(q, f), r) /\ Before(Append(q, f), e, d)
    BY <1>1, <1>2, <1>3, <2>2, AppendKeepsOrder
  <2> QED
    BY <1>7, <2>1, <2>2, <2>3
<1> HIDE DEF Kept
<1>8. Kept
  BY <1>4, <1>5, <1>6, <1>7
<1> QED
  BY <1>8 DEF Kept, Fits, About, e, d, r


\* newConnection enters a connection that was not there, at the loop it is given.
LEMMA NewConnectionDoes ==
    ASSUME TypeOK, LoopsFit, Numbered, NewConnection
    PROVE  \E c \in Conns : \E m \in Loops :
              /\ c = Cardinality(Created) + 1 /\ Cardinality(Created) \in Nat
              /\ state[c] = "none"
              /\ server = "started" /\ UNCHANGED server
              /\ waiting > 0 /\ waiting' = waiting - 1
              /\ connections' = connections \cup {c}
              /\ ioLoop' = [ioLoop EXCEPT ![c] = m]
              /\ \/ /\ m = 0 /\ Goto(c, "kConnected")
                    /\ \A l \in Loops : Work(l)' = Work(l)
                 \/ /\ m # 0 /\ Goto(c, "kConnecting")
                    /\ Work(m)' = Append(Work(m), <<"connectEstablished", c>>)
                    /\ \A l \in Loops : l # m => Work(l)' = Work(l)
<1> DEFINE n == Cardinality(Created)
<1>1. n \in Nat
  <2>1. IsFiniteSet(1 .. MaxConns) /\ Created \subseteq 1 .. MaxConns
    BY FS_Interval, MaxConnsAssumption DEF Created, Conns
  <2> QED
    BY <2>1, FS_Subset, FS_CardinalityType
<1>2. n + 1 \in Conns /\ n + 1 \notin Created
  <2>1. waiting \in Nat /\ waiting > 0 /\ n + waiting <= MaxConns /\ Created = 1 .. n
    BY MaxConnsAssumption DEF TypeOK, NewConnection, Accepts, Numbered
  <2> QED
    BY <1>1, <2>1, MaxConnsAssumption DEF Conns
<1>3. PICK c \in Conns : c = n + 1
  BY <1>2
<1>4. NextLoop \in Loops
  <2>1. numThreads \in 0 .. MaxThreads
    BY DEF TypeOK, PoolTypeOK
  <2>2. numThreads > 0 => next \in Workers
    BY DEF TypeOK, PoolTypeOK
  <2> QED
    BY <2>1, <2>2, MaxThreadsAssumption DEF NextLoop, Loops, Workers
<1>5. PICK m \in Loops : m = NextLoop
  BY <1>4
<1>6. state[c] = "none"
  BY <1>2, <1>3 DEF Created
<1> DEFINE f == <<"connectEstablished", c>>
<1>7. /\ server = "started" /\ server' = server /\ batch' = batch
      /\ waiting > 0 /\ waiting' = waiting - 1
      /\ connections' = connections \cup {c}
      /\ ioLoop' = [ioLoop EXCEPT ![c] = m]
      /\ \/ m = 0 /\ Goto(c, "kConnected") /\ pending' = pending
         \/ m # 0 /\ Goto(c, "kConnecting") /\ Queue(m, f)
  BY <1>3, <1>5 DEF NewConnection, Accepts, ConnectEstablished
<1>8. f \in Functor
  BY DEF Functor
<1>9. pending' = pending => \A l \in Loops : Work(l)' = Work(l)
  BY <1>7 DEF Work
<1>10. Queue(m, f) =>
          /\ Work(m)' = Append(Work(m), f)
          /\ \A l \in Loops : l # m => Work(l)' = Work(l)
  BY <1>7, <1>8, QueueDoes
<1> HIDE DEF n
<1> WITNESS c \in Conns
<1> WITNESS m \in Loops
<1> QED
  BY <1>1, <1>3, <1>6, <1>7, <1>9, <1>10 DEF n

\* handleClose passes the removal on, or removes at once on the base loop.
LEMMA HandleCloseDoes ==
    ASSUME TypeOK, NEW c \in Conns, HandleClose(c)
    PROVE  /\ state[c] = "kConnected" /\ Goto(c, "kDisconnected")
           /\ UNCHANGED <<server, ioLoop, waiting>> /\ 0 \in Loops
           /\ \/ /\ ioLoop[c] = 0 /\ connections' = connections \ {c}
                 /\ Work(0)' = Append(Work(0), <<"connectDestroyed", c>>)
              \/ /\ ioLoop[c] # 0 /\ connections' = connections
                 /\ Work(0)' = Append(Work(0), <<"removeConnectionInLoop", c>>)
           /\ \A l \in Loops : l # 0 => Work(l)' = Work(l)
<1> DEFINE d == <<"connectDestroyed", c>>
           r == <<"removeConnectionInLoop", c>>
<1>1. 0 \in Loops
  BY MaxThreadsAssumption DEF Loops
<1>2. batch \in [Loops -> Seq(Functor)] /\ pending \in [Loops -> Seq(Functor)]
  BY DEF TypeOK, PoolTypeOK
<1>3. d \in Functor /\ r \in Functor
  BY DEF Functor
<1>4. /\ state[c] = "kConnected" /\ Goto(c, "kDisconnected")
      /\ UNCHANGED <<server, ioLoop, batch, waiting>>
      /\ \/ ioLoop[c] = 0 /\ connections' = connections \ {c} /\ Queue(0, d)
         \/ ioLoop[c] # 0 /\ connections' = connections /\ Queue(0, r)
  BY DEF HandleClose, RemoveConnectionInLoop, acceptor
<1>5. ASSUME NEW f \in Functor, Queue(0, f)
      PROVE  /\ Work(0)' = Append(Work(0), f)
             /\ \A l \in Loops : l # 0 => Work(l)' = Work(l)
  BY <1>1, <1>4, <1>5, QueueDoes
<1> HIDE DEF d, r
<1> QED
  BY <1>1, <1>3, <1>4, <1>5 DEF d, r

\* The destructor destroys a connection on its own loop.
LEMMA DestroyConnectionDoes ==
    ASSUME TypeOK, LoopsFit, NEW c \in Conns, DestroyConnection(c)
    PROVE  /\ busy = "destroy" /\ c \in connections
           /\ UNCHANGED <<server, ioLoop, waiting>> /\ ioLoop[c] \in Loops
           /\ connections' = connections \ {c}
           /\ \/ /\ ioLoop[c] = 0 /\ Goto(c, "destroyed")
                 /\ \A l \in Loops : Work(l)' = Work(l)
              \/ /\ state' = state
                 /\ Work(ioLoop[c])' = Append(Work(ioLoop[c]), <<"connectDestroyed", c>>)
                 /\ \A l \in Loops : l # ioLoop[c] => Work(l)' = Work(l)
<1> DEFINE d == <<"connectDestroyed", c>>
<1>1. ioLoop[c] \in Loops /\ ioLoop' = ioLoop
  BY DEF TypeOK, DestroyConnection
<1>m. PICK m \in Loops : m = ioLoop[c]
  BY <1>1
<1>2. batch \in [Loops -> Seq(Functor)] /\ pending \in [Loops -> Seq(Functor)]
  BY DEF TypeOK, PoolTypeOK
<1>3. d \in Functor
  BY DEF Functor
<1>4. /\ busy = "destroy" /\ c \in connections
      /\ UNCHANGED <<server, ioLoop, batch, waiting>>
      /\ connections' = connections \ {c}
      /\ \/ ioLoop[c] = 0 /\ Goto(c, "destroyed") /\ pending' = pending
         \/ state' = state /\ Queue(ioLoop[c], d)
  BY DEF DestroyConnection, Destroying, ConnectDestroyed, acceptor
<1>5. Queue(ioLoop[c], d) =>
         /\ Work(ioLoop[c])' = Append(Work(ioLoop[c]), d)
         /\ \A l \in Loops : l # ioLoop[c] => Work(l)' = Work(l)
  <2>1. Queue(m, d) => /\ Work(m)' = Append(Work(m), d)
                       /\ \A l \in Loops : l # m => Work(l)' = Work(l)
    BY <1>3, <1>4, QueueDoes
  <2>2. Work(ioLoop[c])' = Work(m)'
    BY <1>1, <1>m DEF Work
  <2> QED
    BY <1>m, <2>1, <2>2
<1>6. pending' = pending => \A l \in Loops : Work(l)' = Work(l)
  BY <1>4 DEF Work
<1> HIDE DEF d
<1> QED
  BY <1>1, <1>4, <1>5, <1>6 DEF d


\* Running a functor takes the first from a loop.
LEMMA RunDoes ==
    ASSUME TypeOK, NEW l \in Loops, NEW name, RunNext(l, name)
    PROVE  /\ batch' = [batch EXCEPT ![l] = Tail(@)]
           /\ Tail(batch[l]) \in Seq(Functor)
           /\ UNCHANGED <<server, ioLoop, waiting>>
           /\ pending' = pending =>
                 /\ Work(l)' = Tail(Work(l))
                 /\ \A m \in Loops : m # l => Work(m)' = Work(m)
<1>1. /\ batch' = [batch EXCEPT ![l] = Tail(@)]
      /\ UNCHANGED <<server, ioLoop, waiting>>
  BY DEF RunNext, acceptor
<1>2. batch[l] # <<>> /\ Tail(Work(l)) = Tail(batch[l]) \o pending[l]
  BY RunsFirst
<1>3. batch \in [Loops -> Seq(Functor)]
  BY DEF TypeOK, PoolTypeOK
<1>4. Tail(batch[l]) \in Seq(Functor)
  BY <1>2, <1>3, QueueTail
<1>5. /\ batch'[l] = Tail(batch[l])
      /\ \A m \in Loops : m # l => batch'[m] = batch[m]
  BY <1>1, <1>3
<1> QED
  BY <1>1, <1>2, <1>4, <1>5 DEF Work

\* removeConnectionInLoop takes the connection out of the table and has its own
\* loop destroy it.
LEMMA RunRemoveDoes ==
    ASSUME TypeOK, FunctorsFit, RunRemove
    PROVE  \E c \in Conns : \E m \in Loops :
              /\ m = ioLoop[c] /\ m # 0 /\ 0 \in Loops
              /\ About(<<"removeConnectionInLoop", c>>, 0)
              /\ Work(0) # <<>> /\ Head(Work(0)) = <<"removeConnectionInLoop", c>>
              /\ UNCHANGED <<server, state, ioLoop, waiting>>
              /\ connections' = connections \ {c}
              /\ Work(0)' = Tail(Work(0))
              /\ Work(m)' = Append(Work(m), <<"connectDestroyed", c>>)
              /\ \A l \in Loops : l # 0 /\ l # m => Work(l)' = Work(l)
<1>1. 0 \in Loops
  BY MaxThreadsAssumption DEF Loops
<1>2. RunNext(0, "removeConnectionInLoop")
  BY DEF RunRemove
<1>3. PICK c \in Conns : c = Head(batch[0])[2]
  BY <1>1, <1>2, RunsFirst
<1>4. /\ About(<<"removeConnectionInLoop", c>>, 0)
      /\ Work(0) # <<>> /\ Head(Work(0)) = <<"removeConnectionInLoop", c>>
      /\ Tail(Work(0)) = Tail(batch[0]) \o pending[0]
  BY <1>1, <1>2, <1>3, RunsFirst
<1>5. ioLoop[c] # 0 /\ ioLoop[c] \in Loops
  BY <1>1, <1>4 DEF FunctorsFit, Fits, TypeOK
<1>6. PICK m \in Loops : m = ioLoop[c]
  BY <1>5
<1> DEFINE b == [batch EXCEPT ![0] = Tail(@)]
           d == <<"connectDestroyed", c>>
<1>7. /\ batch' = b /\ Tail(batch[0]) \in Seq(Functor)
      /\ UNCHANGED <<server, ioLoop, waiting>>
  BY <1>1, <1>2, RunDoes
<1>8. /\ connections' = connections \ {c} /\ state' = state
      /\ pending' = [pending EXCEPT ![m] = Append(@, d)]
  BY <1>3, <1>6 DEF RunRemove, RemoveConnectionInLoop, Queue
<1>9. batch \in [Loops -> Seq(Functor)] /\ pending \in [Loops -> Seq(Functor)]
  BY DEF TypeOK, PoolTypeOK
<1>10. b \in [Loops -> Seq(Functor)] /\ d \in Functor
  BY <1>7, <1>9 DEF Functor
<1>11. b[0] = Tail(batch[0]) /\ \A l \in Loops : l # 0 => b[l] = batch[l]
  BY <1>1, <1>9
<1> HIDE DEF b
<1>12. /\ Work(m)' = Append(b[m] \o pending[m], d)
       /\ \A l \in Loops : l # m => Work(l)' = b[l] \o pending[l]
  BY <1>7, <1>8, <1>9, <1>10, WorkQueued
<1>13. /\ Work(0)' = Tail(Work(0))
       /\ Work(m)' = Append(Work(m), d)
       /\ \A l \in Loops : l # 0 /\ l # m => Work(l)' = Work(l)
  BY <1>1, <1>4, <1>5, <1>6, <1>11, <1>12 DEF Work
<1> WITNESS c \in Conns
<1> WITNESS m \in Loops
<1> QED
  BY <1>1, <1>4, <1>5, <1>6, <1>7, <1>8, <1>13

\* No other step touches a connection, and a loop loses functors only with its
\* thread.
LEMMA RestDoes ==
    ASSUME TypeOK, LoopsFit, [Next]_vars, ~NewConnection, ~RunRemove,
           \A c \in Conns : ~HandleClose(c) /\ ~DestroyConnection(c),
           \A l \in Loops : ~RunEstablished(l) /\ ~RunDestroyed(l)
    PROVE  /\ UNCHANGED <<connections, state, ioLoop>>
           /\ \A l \in Loops : \/ Work(l)' = Work(l)
                               \/ Work(l)' = <<>> /\ l # 0
<1>1. UNCHANGED <<connections, state, ioLoop>>
  BY ConnectionsStep
<1>2. batch \in [Loops -> Seq(Functor)] /\ pending \in [Loops -> Seq(Functor)]
  BY DEF TypeOK, PoolTypeOK
<1>3. CASE UNCHANGED <<pending, batch>>
  BY <1>1, <1>3 DEF Work
<1>4. ASSUME NEW m \in Loops, TakeFunctors(m)
      PROVE  \A l \in Loops : Work(l)' = Work(l)
  <2>1. /\ place[m] = "dispatch"
        /\ batch' = [batch EXCEPT ![m] = pending[m]]
        /\ pending' = [pending EXCEPT ![m] = <<>>]
    BY <1>4 DEF TakeFunctors, SwapFunctors, Goes
  <2>2. batch[m] = <<>>
    BY <2>1 DEF LoopsFit
  <2>3. /\ batch'[m] = pending[m] /\ pending'[m] = <<>>
        /\ \A l \in Loops : l # m => batch'[l] = batch[l] /\ pending'[l] = pending[l]
    BY <1>2, <2>1
  <2>4. pending[m] \o <<>> = <<>> \o pending[m]
    BY <1>2, ConcatEmptySeq
  <2> QED
    BY <2>2, <2>3, <2>4 DEF Work
<1>5. ASSUME NEW m \in Loops, DestroyLoop(m)
      PROVE  \A l \in Loops : \/ Work(l)' = Work(l)
                              \/ Work(l)' = <<>> /\ l # 0
  <2>1. /\ m # 0 /\ place[m] = "forgotten" /\ batch' = batch
        /\ pending' = [pending EXCEPT ![m] = <<>>]
    BY <1>5 DEF DestroyLoop, Goes
  <2>2. batch[m] = <<>>
    BY <2>1 DEF LoopsFit
  <2>3. /\ pending'[m] = <<>>
        /\ \A l \in Loops : l # m => pending'[l] = pending[l]
    BY <1>2, <2>1
  <2>4. <<>> \o <<>> = <<>>
    OBVIOUS
  <2> QED
    BY <2>1, <2>2, <2>3, <2>4 DEF Work
<1> QED
  BY <1>1, <1>3, <1>4, <1>5, QueuesStep


\* The functors about a connection when one is put at the end of a loop's ...
LEMMA FitsAppended ==
    ASSUME TypeOK, NEW c \in Conns, NEW l \in Loops, Fits(c, l),
           NEW f \in Functor, Work(l)' = Append(Work(l), f),
           f = <<"connectEstablished", c>> =>
               ~About(f, l) /\ ~About(<<"connectDestroyed", c>>, l),
           f = <<"removeConnectionInLoop", c>> => ~About(f, l)
    PROVE  /\ \A g : About(g, l)' <=> About(g, l) \/ g = f
           /\ Once(Work(l)', <<"connectEstablished", c>>)
           /\ Once(Work(l)', <<"removeConnectionInLoop", c>>)
           /\ Before(Work(l)', <<"connectEstablished", c>>, <<"connectDestroyed", c>>)
<1> DEFINE q == Work(l)
           e == <<"connectEstablished", c>>
           d == <<"connectDestroyed", c>>
           r == <<"removeConnectionInLoop", c>>
<1>1. q \in Seq(Functor)
  BY WorkIsQueue
<1>2. e # d
  OBVIOUS
<1>3. Once(q, e) /\ Once(q, r) /\ Before(q, e, d)
  BY DEF Fits
<1>4. /\ e # f \/ (e \notin Range(q) /\ d \notin Range(q))
      /\ r # f \/ r \notin Range(q)
  BY DEF About
<1>5. Range(Append(q, f)) = Range(q) \cup {f}
  BY <1>1, RangeAppend
<1> HIDE DEF e, d, r
<1>6. Once(Append(q, f), e) /\ Once(Append(q, f), r) /\ Before(Append(q, f), e, d)
  BY <1>1, <1>2, <1>3, <1>4, AppendKeepsOrder
<1> QED
  BY <1>5, <1>6 DEF About, e, d, r

\* ... and when the first has run.
LEMMA FitsTaken ==
    ASSUME TypeOK, NEW c \in Conns, NEW l \in Loops, Fits(c, l),
           Work(l) # <<>>, Work(l)' = Tail(Work(l))
    PROVE  /\ \A g : About(g, l)' => About(g, l)
           /\ Once(Work(l)', <<"connectEstablished", c>>)
           /\ Once(Work(l)', <<"removeConnectionInLoop", c>>)
           /\ Before(Work(l)', <<"connectEstablished", c>>, <<"connectDestroyed", c>>)
           /\ Head(Work(l)) = <<"connectEstablished", c>>
                 => ~About(<<"connectEstablished", c>>, l)'
           /\ Head(Work(l)) = <<"removeConnectionInLoop", c>>
                 => ~About(<<"removeConnectionInLoop", c>>, l)'
           /\ Head(Work(l)) = <<"connectDestroyed", c>>
                 => ~About(<<"connectEstablished", c>>, l)
<1> DEFINE q == Work(l)
           e == <<"connectEstablished", c>>
           d == <<"connectDestroyed", c>>
           r == <<"removeConnectionInLoop", c>>
<1>1. q \in Seq(Functor) /\ q # <<>>
  BY WorkIsQueue
<1>2. Once(q, e) /\ Once(q, r) /\ Before(q, e, d)
  BY DEF Fits
<1>3. Range(Tail(q)) \subseteq Range(q)
  BY <1>1, QueueTail
<1> HIDE DEF e, d, r
<1>4. /\ Once(Tail(q), e) /\ Once(Tail(q), r) /\ Before(Tail(q), e, d)
      /\ Head(q) = e => e \notin Range(Tail(q))
      /\ Head(q) = r => r \notin Range(Tail(q))
      /\ Head(q) = d => e \notin Range(q)
  BY <1>1, <1>2, TailKeepsOrder
<1> QED
  BY <1>3, <1>4 DEF About, e, d, r

\* The server is started before it has connections.
LEMMA StartedStep ==
    ASSUME ThreadsFit, [Next]_vars, server' = "started", server # "started"
    PROVE  Start /\ connections = {} /\ \A c \in Conns : state[c] = "none"
<1>1. Start
  BY StatusStep DEF BeginDestroy, DestroyMembers, EndDestroy
<1> QED
  BY <1>1 DEF Start, ThreadsFit


\* The functors that wait stay those the states of the connections ask for.
LEMMA FunctorsStep ==
    /\ TypeOK /\ LoopsFit /\ ThreadsFit /\ Numbered /\ FunctorsFit
    /\ [Next]_vars
    => FunctorsFit'
<1> SUFFICES ASSUME TypeOK, LoopsFit, ThreadsFit, Numbered, FunctorsFit,
                    [Next]_vars, NEW c \in Conns, NEW l \in Loops
             PROVE  Fits(c, l)'
  BY DEF FunctorsFit
<1> DEFINE e == <<"connectEstablished", c>>
           d == <<"connectDestroyed", c>>
           r == <<"removeConnectionInLoop", c>>
<1>a. Fits(c, l)
  BY DEF FunctorsFit
<1>b. server' = "started" => server = "started" \/ state[c] = "none"
  BY StartedStep
<1>c. e \in Functor /\ d \in Functor /\ r \in Functor
  BY DEF Functor
<1>d. state \in [Conns -> {"none", "kConnecting", "kConnected", "kDisconnected",
                           "destroyed"}]
      /\ ioLoop \in [Conns -> Loops]
  BY DEF TypeOK
<1>e. ASSUME NEW f \in Functor, f[2] # c, Work(l)' = Append(Work(l), f),
             UNCHANGED <<state[c], ioLoop[c]>>
      PROVE  Fits(c, l)'
  BY <1>a, <1>b, <1>e, FitsKept
<1>f. ASSUME Work(l)' = Work(l), UNCHANGED <<state[c], ioLoop[c]>>
      PROVE  Fits(c, l)'
  BY <1>a, <1>b, <1>f, FitsKept
<1>1. CASE NewConnection
  <2>1. PICK k \in Conns, m \in Loops :
              /\ state[k] = "none" /\ server = "started" /\ server' = server
              /\ ioLoop' = [ioLoop EXCEPT ![k] = m]
              /\ \/ /\ m = 0 /\ Goto(k, "kConnected")
                    /\ \A n \in Loops : Work(n)' = Work(n)
                 \/ /\ m # 0 /\ Goto(k, "kConnecting")
                    /\ Work(m)' = Append(Work(m), <<"connectEstablished", k>>)
                    /\ \A n \in Loops : n # m => Work(n)' = Work(n)
    BY <1>1, NewConnectionDoes
  <2>2. CASE c # k
    <3>1. UNCHANGED <<state[c], ioLoop[c]>>
      BY <1>d, <2>1, <2>2 DEF Goto
    <3>2. <<"connectEstablished", k>> \in Functor
      BY DEF Functor
    <3>3. <<"connectEstablished", k>>[2] # c
      BY <2>2
    <3> QED
      BY <1>e, <1>f, <2>1, <3>1, <3>2, <3>3
  <2>3. CASE c = k
    <3>1. ~About(e, l) /\ ~About(d, l) /\ ~About(r, l)
      BY <1>a, <2>1, <2>3 DEF Fits
    <3>2. CASE Work(l)' = Work(l)
      <4>1. ~About(e, l)' /\ ~About(d, l)' /\ ~About(r, l)'
        BY <3>1, <3>2 DEF About
      <4> QED
        BY <1>a, <3>2, <4>1 DEF Fits
    <3>3. CASE l = m /\ m # 0 /\ Work(l)' = Append(Work(l), e) /\ Goto(c, "kConnecting")
      <4>1. /\ \A g : About(g, l)' <=> About(g, l) \/ g = e
            /\ Once(Work(l)', e) /\ Once(Work(l)', r) /\ Before(Work(l)', e, d)
        BY <1>a, <1>c, <3>1, <3>3, FitsAppended
      <4>2. ~About(d, l)' /\ ~About(r, l)'
        BY <3>1, <4>1
      <4>3. state'[c] = "kConnecting" /\ ioLoop'[c] = l /\ l # 0
        BY <1>d, <2>1, <2>3, <3>3 DEF Goto
      <4> QED
        BY <4>1, <4>2, <4>3 DEF Fits
    <3> QED
      BY <2>1, <2>3, <3>2, <3>3
  <2> QED
    BY <2>2, <2>3
<1>2. ASSUME NEW k \in Conns, HandleClose(k)
      PROVE  Fits(c, l)'
  <2>1. /\ state[k] = "kConnected" /\ Goto(k, "kDisconnected")
        /\ UNCHANGED <<server, ioLoop>> /\ 0 \in Loops
        /\ \/ /\ ioLoop[k] = 0
              /\ Work(0)' = Append(Work(0), <<"connectDestroyed", k>>)
           \/ /\ ioLoop[k] # 0
              /\ Work(0)' = Append(Work(0), <<"removeConnectionInLoop", k>>)
        /\ \A n \in Loops : n # 0 => Work(n)' = Work(n)
    BY <1>2, HandleCloseDoes
  <2>2. CASE c # k
    <3>1. UNCHANGED <<state[c], ioLoop[c]>>
      BY <1>d, <2>1, <2>2 DEF Goto
    <3>2. <<"connectDestroyed", k>> \in Functor /\ <<"removeConnectionInLoop", k>> \in Functor
      BY DEF Functor
    <3>3. <<"connectDestroyed", k>>[2] # c /\ <<"removeConnectionInLoop", k>>[2] # c
      BY <2>2
    <3> QED
      BY <1>e, <1>f, <2>1, <3>1, <3>2, <3>3
  <2>3. CASE c = k
    <3>1. ~About(e, l) /\ ~About(r, l)
      BY <1>a, <2>1, <2>3 DEF Fits
    <3>2. state'[c] = "kDisconnected" /\ ioLoop'[c] = ioLoop[c] /\ server' = server
      BY <1>d, <2>1, <2>3 DEF Goto
    <3>3. CASE Work(l)' = Work(l)
      <4>1. ~About(e, l)' /\ ~About(r, l)' /\ (About(d, l)' => About(d, l))
        BY <3>1, <3>3 DEF About
      <4> QED
        BY <1>a, <3>2, <3>3, <4>1 DEF Fits
    <3>4. CASE l = 0 /\ ioLoop[c] = 0 /\ Work(l)' = Append(Work(l), d)
      <4>1. /\ \A g : About(g, l)' <=> About(g, l) \/ g = d
            /\ Once(Work(l)', e) /\ Once(Work(l)', r) /\ Before(Work(l)', e, d)
        BY <1>a, <1>c, <3>4, FitsAppended
      <4>2. ~About(e, l)' /\ ~About(r, l)'
        BY <3>1, <4>1
      <4> QED
        BY <3>2, <3>4, <4>1, <4>2 DEF Fits
    <3>5. CASE l = 0 /\ ioLoop[c] # 0 /\ Work(l)' = Append(Work(l), r)
      <4>1. /\ \A g : About(g, l)' <=> About(g, l) \/ g = r
            /\ Once(Work(l)', e) /\ Once(Work(l)', r) /\ Before(Work(l)', e, d)
        BY <1>a, <1>c, <3>1, <3>5, FitsAppended
      <4>2. ~About(e, l)' /\ (About(d, l)' => About(d, l))
        BY <3>1, <4>1
      <4> QED
        BY <1>a, <3>2, <3>5, <4>1, <4>2 DEF Fits
    <3> QED
      BY <2>1, <2>3, <3>3, <3>4, <3>5
  <2> QED
    BY <2>2, <2>3
<1>3. ASSUME NEW k \in Conns, DestroyConnection(k)
      PROVE  Fits(c, l)'
  <2>1. /\ busy = "destroy" /\ k \in connections
        /\ UNCHANGED <<server, ioLoop>> /\ ioLoop[k] \in Loops
        /\ \/ /\ ioLoop[k] = 0 /\ Goto(k, "destroyed")
              /\ \A n \in Loops : Work(n)' = Work(n)
           \/ /\ state' = state
              /\ Work(ioLoop[k])' = Append(Work(ioLoop[k]), <<"connectDestroyed", k>>)
              /\ \A n \in Loops : n # ioLoop[k] => Work(n)' = Work(n)
    BY <1>3, DestroyConnectionDoes
  <2>2. CASE c # k
    <3>1. UNCHANGED <<state[c], ioLoop[c]>>
      BY <1>d, <2>1, <2>2 DEF Goto
    <3>2. <<"connectDestroyed", k>> \in Functor
      BY DEF Functor
    <3>3. <<"connectDestroyed", k>>[2] # c
      BY <2>2
    <3>4. Work(l)' = Work(l) \/ Work(l)' = Append(Work(l), <<"connectDestroyed", k>>)
      <4>1. CASE l = ioLoop[k] /\ state' = state
        <5>1. Work(ioLoop[k])' = Work(l)'
          BY <2>1, <4>1 DEF Work
        <5> QED
          BY <2>1, <4>1, <5>1
      <4> QED
        BY <2>1, <4>1
    <3> QED
      BY <1>e, <1>f, <3>1, <3>2, <3>3, <3>4
  <2>3. CASE c = k
    <3>1. server' = "destroying" /\ state[c] # "none" /\ ioLoop'[c] = ioLoop[c]
      BY <2>1, <2>3 DEF ThreadsFit, Numbered, Created
    <3>2. CASE ioLoop[c] = 0 /\ Goto(c, "destroyed") /\ Work(l)' = Work(l)
      <4>1. state'[c] = "destroyed"
        BY <1>d, <3>2 DEF Goto
      <4>2. ~About(e, l)' /\ ~About(r, l)' /\ (About(d, l)' => About(d, l))
        BY <1>a, <3>2 DEF About, Fits
      <4> QED
        BY <1>a, <3>1, <3>2, <4>1, <4>2 DEF Fits
    <3>3. CASE state' = state /\ Work(l)' = Work(l)
      BY <1>f, <3>1, <3>3
    <3>4. CASE state' = state /\ l = ioLoop[c] /\ Work(l)' = Append(Work(l), d)
      <4>1. /\ \A g : About(g, l)' <=> About(g, l) \/ g = d
            /\ Once(Work(l)', e) /\ Once(Work(l)', r) /\ Before(Work(l)', e, d)
        BY <1>a, <1>c, <3>4, FitsAppended
      <4>2. /\ About(e, l)' => About(e, l)
            /\ About(r, l)' => About(r, l)
        BY <4>1
      <4>3. server' # "started" /\ state'[c] = state[c]
        BY <3>1, <3>4
      <4> QED
        BY <1>a, <3>1, <3>4, <4>1, <4>2, <4>3 DEF Fits
    <3>5. l = ioLoop[c] => Work(ioLoop[c])' = Work(l)'
      BY <3>1 DEF Work
    <3> QED
      BY <2>1, <2>3, <3>2, <3>3, <3>4, <3>5
  <2> QED
    BY <2>2, <2>3
<1>4. ASSUME NEW m \in Loops, RunEstablished(m) \/ RunDestroyed(m)
      PROVE  Fits(c, l)'
  <2>1. PICK name \in {"connectEstablished", "connectDestroyed"}, k \in Conns :
              /\ RunNext(m, name) /\ UNCHANGED pending
              /\ k = Head(batch[m])[2] /\ About(<<name, k>>, m)
              /\ Work(m) # <<>> /\ Head(Work(m)) = <<name, k>>
              /\ Goto(k, IF name = "connectEstablished" THEN "kConnected"
                                                        ELSE "destroyed")
    BY <1>4, RunsFirst
       DEF RunEstablished, RunDestroyed, ConnectEstablished, ConnectDestroyed
  <2>2. /\ UNCHANGED <<server, ioLoop>>
        /\ Work(m)' = Tail(Work(m))
        /\ \A n \in Loops : n # m => Work(n)' = Work(n)
    BY <2>1, RunDoes
  <2>3. CASE c # k
    <3>1. UNCHANGED <<state[c], ioLoop[c]>>
      BY <1>d, <2>1, <2>2, <2>3 DEF Goto
    <3>2. \/ Work(l)' = Work(l)
          \/ Work(l) # <<>> /\ Work(l)' = Tail(Work(l))
      BY <2>1, <2>2
    <3> QED
      BY <1>a, <1>b, <3>1, <3>2, FitsKept
  <2>4. CASE c = k
    <3>1. m = ioLoop[c] /\ state[c] # "none"
      BY <2>1, <2>4 DEF FunctorsFit, Fits
    <3>2. /\ \A g : About(g, l)' => About(g, l)
          /\ Once(Work(l)', e) /\ Once(Work(l)', r) /\ Before(Work(l)', e, d)
      BY <1>a, <2>1, <2>2, FitsTaken DEF About, Fits
    <3>3. CASE name = "connectEstablished"
      <4>1. state[c] = "kConnecting" /\ state'[c] = "kConnected"
        BY <1>d, <2>1, <2>4, <3>3 DEF FunctorsFit, Fits, Goto
      <4>2. ~About(e, l)'
        <5>1. CASE l = m
          BY <1>a, <2>1, <2>2, <2>4, <3>3, <5>1, FitsTaken
        <5>2. CASE l # m
          BY <1>a, <3>1, <3>2, <5>2 DEF Fits
        <5> QED
          BY <5>1, <5>2
      <4>3. ~About(r, l)' /\ (server = "started" => ~About(d, l)')
        BY <1>a, <3>2, <4>1 DEF Fits
      <4>4. About(d, l)' => l = ioLoop[c]
        BY <1>a, <3>2 DEF Fits
      <4> QED
        BY <2>2, <3>2, <4>1, <4>2, <4>3, <4>4 DEF Fits
    <3>4. CASE name = "connectDestroyed"
      <4>1. state'[c] = "destroyed"
        BY <1>d, <2>1, <2>4, <3>4 DEF Goto
      <4>2. ~About(e, l)'
        <5>1. CASE l = m
          BY <1>a, <2>1, <2>2, <2>4, <3>2, <3>4, <5>1, FitsTaken
        <5>2. CASE l # m
          BY <1>a, <3>1, <3>2, <5>2 DEF Fits
        <5> QED
          BY <5>1, <5>2
      <4>3. /\ About(d, l)' => l = ioLoop[c]
            /\ About(r, l)' => l = 0 /\ ioLoop[c] # 0
        BY <1>a, <3>2 DEF Fits
      <4> QED
        BY <2>2, <3>2, <4>1, <4>2, <4>3 DEF Fits
    <3> QED
      BY <2>1, <3>3, <3>4
  <2> QED
    BY <2>3, <2>4
<1>5. CASE RunRemove
  <2>1. PICK k \in Conns, m \in Loops :
              /\ m = ioLoop[k] /\ m # 0 /\ 0 \in Loops
              /\ About(<<"removeConnectionInLoop", k>>, 0)
              /\ Work(0) # <<>>
              /\ UNCHANGED <<server, state, ioLoop>>
              /\ Work(0)' = Tail(Work(0))
              /\ Work(m)' = Append(Work(m), <<"connectDestroyed", k>>)
              /\ \A n \in Loops : n # 0 /\ n # m => Work(n)' = Work(n)
    BY <1>5, RunRemoveDoes
  <2>2. UNCHANGED <<state[c], ioLoop[c]>>
    BY <2>1
  <2>3. CASE l # m
    <3>1. \/ Work(l)' = Work(l)
          \/ Work(l) # <<>> /\ Work(l)' = Tail(Work(l))
      BY <2>1, <2>3
    <3> QED
      BY <1>a, <1>b, <2>2, <3>1, FitsKept
  <2>4. CASE l = m /\ c # k
    <3>1. <<"connectDestroyed", k>> \in Functor /\ <<"connectDestroyed", k>>[2] # c
      BY <2>4 DEF Functor
    <3> QED
      BY <1>e, <2>1, <2>2, <2>4, <3>1
  <2>5. CASE l = m /\ c = k
    <3>1. state[c] \in {"kDisconnected", "destroyed"}
      BY <2>1, <2>5 DEF FunctorsFit, Fits
    <3>2. /\ \A g : About(g, l)' <=> About(g, l) \/ g = d
          /\ Once(Work(l)', e) /\ Once(Work(l)', r) /\ Before(Work(l)', e, d)
      BY <1>a, <1>c, <2>1, <2>5, FitsAppended
    <3>3. /\ About(e, l)' => About(e, l)
          /\ About(r, l)' => About(r, l)
      BY <3>2
    <3> QED
      BY <1>a, <2>1, <2>2, <2>5, <3>1, <3>2, <3>3 DEF Fits
  <2> QED
    BY <2>3, <2>4, <2>5
<1>6. CASE /\ ~NewConnection /\ ~RunRemove
           /\ \A k \in Conns : ~HandleClose(k) /\ ~DestroyConnection(k)
           /\ \A m \in Loops : ~RunEstablished(m) /\ ~RunDestroyed(m)
  <2>1. /\ UNCHANGED <<state[c], ioLoop[c]>>
        /\ Work(l)' = Work(l) \/ Work(l)' = <<>>
    BY <1>6, RestDoes
  <2> QED
    BY <1>a, <1>b, <2>1, FitsKept
<1> QED
  BY <1>1, <1>2, <1>3, <1>4, <1>5, <1>6


-----------------------------------------------------------------------------
(* The table of connections *)

\* Which steps change the clients that wait.
LEMMA WaitingStep ==
    ASSUME [Next]_vars
    PROVE  \/ waiting' = waiting
           \/ NewConnection
           \/ AcceptFails /\ Accepts /\ waiting' = waiting - 1
           \/ /\ ClientConnects /\ waiting' = waiting + 1
              /\ Cardinality(Created) + waiting < MaxConns
              /\ UNCHANGED <<state, connections>>
<1>1. CASE ClientConnects
  BY <1>1 DEF ClientConnects, connVars
<1>2. CASE AcceptFails
  BY <1>2, Zenon DEF AcceptFails
<1>3. CASE ~ClientConnects /\ ~NewConnection /\ ~AcceptFails
  BY <1>3 DEF Next, BaseStep, BaseSteps, WorkerStep, ThreadSteps, Chosen,
     ServerLeft, vars, acceptor, Start, PollBase, NewConnectionDangles,
     AcceptorDangles, HandleClose, TakeFunctors, EndOfBatch, RunNext,
     RunEstablished, RunDestroyed, RunRemove, RemoveDangles, BeginDestroy,
     DestroyConnection, DestroyConnectionDangles, DestroyMembers, EndDestroy
<1> QED
  BY <1>1, <1>2, <1>3

\* Only newConnection makes a connection, and none is unmade.
LEMMA CreatedStep ==
    ASSUME TypeOK, LoopsFit, FunctorsFit, Numbered, [Next]_vars, ~NewConnection
    PROVE  Created' = Created /\ connections' \subseteq connections
<1> SUFFICES /\ \A c \in Conns : state'[c] = "none" <=> state[c] = "none"
             /\ connections' \subseteq connections
  BY DEF Created
<1>a. state \in [Conns -> {"none", "kConnecting", "kConnected", "kDisconnected",
                           "destroyed"}]
  BY DEF TypeOK
<1>b. ASSUME NEW k \in Conns, NEW st, st # "none", state[k] # "none", Goto(k, st)
      PROVE  \A c \in Conns : state'[c] = "none" <=> state[c] = "none"
  BY <1>a, <1>b DEF Goto
<1>1. ASSUME NEW k \in Conns, HandleClose(k)
      PROVE  /\ \A c \in Conns : state'[c] = "none" <=> state[c] = "none"
             /\ connections' \subseteq connections
  <2>1. /\ state[k] = "kConnected" /\ Goto(k, "kDisconnected")
        /\ connections' \subseteq connections
    BY <1>1, HandleCloseDoes
  <2> QED
    BY <1>b, <2>1
<1>2. ASSUME NEW k \in Conns, DestroyConnection(k)
      PROVE  /\ \A c \in Conns : state'[c] = "none" <=> state[c] = "none"
             /\ connections' \subseteq connections
  <2>1. /\ k \in connections /\ (Goto(k, "destroyed") \/ state' = state)
        /\ connections' \subseteq connections
    BY <1>2, DestroyConnectionDoes
  <2>2. state[k] # "none"
    BY <2>1 DEF Numbered, Created
  <2> QED
    BY <1>b, <2>1, <2>2
<1>3. ASSUME NEW l \in Loops, RunEstablished(l) \/ RunDestroyed(l)
      PROVE  /\ \A c \in Conns : state'[c] = "none" <=> state[c] = "none"
             /\ connections' \subseteq connections
  <2>1. PICK k \in Conns :
              /\ \/ About(<<"connectEstablished", k>>, l)
                 \/ About(<<"connectDestroyed", k>>, l)
              /\ Goto(k, "kConnected") \/ Goto(k, "destroyed")
              /\ UNCHANGED connections
    BY <1>3, RunsFirst
       DEF RunEstablished, RunDestroyed, ConnectEstablished, ConnectDestroyed
  <2>2. state[k] # "none"
    BY <2>1 DEF FunctorsFit, Fits
  <2> QED
    BY <1>b, <2>1, <2>2
<1>4. CASE RunRemove
  BY <1>4, RunRemoveDoes
<1> QED
  BY <1>1, <1>2, <1>3, <1>4, ConnectionsStep

\* Connections are numbered as they come.
LEMMA NumberedStep ==
    TypeOK /\ LoopsFit /\ FunctorsFit /\ Numbered /\ [Next]_vars => Numbered'
<1> SUFFICES ASSUME TypeOK, LoopsFit, FunctorsFit, Numbered, [Next]_vars
             PROVE  Numbered'
  OBVIOUS
<1>a. waiting \in Nat
  BY DEF TypeOK
<1>b. Cardinality(Created) \in Nat
  <2>1. IsFiniteSet(1 .. MaxConns) /\ Created \subseteq 1 .. MaxConns
    BY FS_Interval, MaxConnsAssumption DEF Created, Conns
  <2> QED
    BY <2>1, FS_Subset, FS_CardinalityType
<1>1. CASE NewConnection
  <2>1. PICK c \in Conns :
              /\ c = Cardinality(Created) + 1 /\ state[c] = "none"
              /\ waiting > 0 /\ waiting' = waiting - 1
              /\ connections' = connections \cup {c}
              /\ Goto(c, "kConnected") \/ Goto(c, "kConnecting")
    BY <1>1, NewConnectionDoes
  <2>2. state \in [Conns -> {"none", "kConnecting", "kConnected", "kDisconnected",
                             "destroyed"}]
    BY DEF TypeOK
  <2>3. Created' = Created \cup {c}
    BY <2>1, <2>2 DEF Created, Goto
  <2> DEFINE n == Cardinality(Created)
  <2>4. Created' = 1 .. n + 1
    BY <1>b, <2>1, <2>3 DEF Numbered
  <2>5. Cardinality(1 .. n + 1) = n + 1
    <3>1. n + 1 \in Int /\ ~(1 > n + 1) /\ (n + 1) - 1 + 1 = n + 1
      BY <1>b
    <3> QED
      BY <3>1, FS_Interval
  <2>6. Cardinality(Created)' = n + 1
    BY <2>4, <2>5
  <2>7. n + waiting <= MaxConns
    BY DEF Numbered
  <2> HIDE DEF n
  <2>8. (n + 1) + (waiting - 1) = n + waiting
    BY <1>a, <1>b DEF n
  <2>9. connections' \subseteq Created'
    BY <2>1, <2>3 DEF Numbered
  <2> QED
    BY <2>1, <2>4, <2>6, <2>7, <2>8, <2>9 DEF Numbered
<1>2. CASE ~NewConnection
  <2>1. Created' = Created /\ connections' \subseteq connections
    BY <1>2, CreatedStep
  <2>2. Cardinality(Created)' = Cardinality(Created)
    BY <2>1
  <2>3. CASE waiting' = waiting
    BY <2>1, <2>2, <2>3 DEF Numbered
  <2>4. CASE waiting' = waiting + 1 /\ Cardinality(Created) + waiting < MaxConns
    <3>1. Cardinality(Created) + (waiting + 1) <= MaxConns
      BY <1>a, <1>b, <2>4, MaxConnsAssumption
    <3> QED
      BY <2>1, <2>2, <2>4, <3>1 DEF Numbered
  <2>5. CASE Accepts /\ waiting' = waiting - 1
    <3>1. Cardinality(Created) + (waiting - 1) <= MaxConns
      BY <1>a, <1>b, MaxConnsAssumption DEF Numbered
    <3> QED
      BY <2>1, <2>2, <2>5, <3>1 DEF Numbered
  <2> QED
    BY <1>2, <2>3, <2>4, <2>5, WaitingStep
<1> QED
  BY <1>1, <1>2


\* Running the first leaves the others.
LEMMA OthersWait ==
    ASSUME TypeOK, NEW l \in Loops, Work(l) # <<>>, Work(l)' = Tail(Work(l)),
           NEW g, g # Head(Work(l))
    PROVE  About(g, l)' <=> About(g, l)
<1> DEFINE q == Work(l)
           h == Head(q)
           t == Tail(q)
<1>1. q \in Seq(Functor)
  BY WorkIsQueue
<1>2. h \in Functor /\ t \in Seq(Functor) /\ q = <<h>> \o t
  BY <1>1, QueueTail
<1> HIDE DEF h, t
<1>3. Range(<<h>> \o t) = {h} \cup Range(t)
  BY <1>2, QueuePush
<1> QED
  BY <1>2, <1>3 DEF About, h, t

\* A removal waits nowhere but on the base loop.
LEMMA RemovalsWait ==
    TypeOK /\ FunctorsFit =>
        \A c \in Conns : Queued(<<"removeConnectionInLoop", c>>)
                            <=> About(<<"removeConnectionInLoop", c>>, 0)
<1> SUFFICES ASSUME TypeOK, FunctorsFit, NEW c \in Conns
             PROVE  Queued(<<"removeConnectionInLoop", c>>)
                       <=> About(<<"removeConnectionInLoop", c>>, 0)
  OBVIOUS
<1>1. 0 \in Loops
  BY MaxThreadsAssumption DEF Loops
<1>2. \A l \in Loops : About(<<"removeConnectionInLoop", c>>, l) => l = 0
  BY DEF FunctorsFit, Fits
<1> QED
  BY <1>1, <1>2, QueuedIsAbout

\* connections_ stays exact while the server is started.
LEMMA TableStep ==
    /\ TypeOK /\ LoopsFit /\ ThreadsFit /\ Numbered /\ FunctorsFit /\ TableExact
    /\ [Next]_vars /\ TypeOK' /\ FunctorsFit'
    => TableExact'
<1> DEFINE r(c) == <<"removeConnectionInLoop", c>>
           Live == {"kConnecting", "kConnected"}
<1>p. (TypeOK /\ FunctorsFit =>
          \A c \in Conns : Queued(<<"removeConnectionInLoop", c>>)
                              <=> About(<<"removeConnectionInLoop", c>>, 0))'
  BY RemovalsWait, PTL
<1> SUFFICES ASSUME TypeOK, LoopsFit, ThreadsFit, Numbered, FunctorsFit, TableExact,
                    [Next]_vars, TypeOK', FunctorsFit'
             PROVE  TableExact'
  OBVIOUS
<1> SUFFICES ASSUME server' = "started"
             PROVE  connections' = {c \in Conns : state'[c] \in Live \/ About(r(c), 0)'}
  <2>1. \A c \in Conns : Queued(r(c))' <=> About(r(c), 0)'
    BY <1>p
  <2> QED
    BY <2>1 DEF TableExact
<1>a. 0 \in Loops
  BY MaxThreadsAssumption DEF Loops
<1>b. \A c \in Conns : About(r(c), 0) => state[c] \in {"kDisconnected", "destroyed"}
  BY <1>a DEF FunctorsFit, Fits
<1>c. \A c \in Conns : About(r(c), 0)' => state'[c] \in {"kDisconnected", "destroyed"}
  BY <1>a DEF FunctorsFit, Fits
<1>d. state \in [Conns -> {"none", "kConnecting", "kConnected", "kDisconnected",
                           "destroyed"}]
      /\ connections \subseteq Conns /\ connections' \subseteq Conns
  BY DEF TypeOK
<1>0. CASE server # "started"
  <2>1. server = "new" /\ connections = {} /\ \A c \in Conns : state[c] = "none"
    BY <1>0, StartedStep DEF Start
  <2>2. connections' = {} /\ \A c \in Conns : state'[c] = "none"
    BY <2>1, NewIsIdle
  <2> QED
    BY <1>c, <2>2
<1> SUFFICES ASSUME server = "started"
             PROVE  connections' = {c \in Conns : state'[c] \in Live \/ About(r(c), 0)'}
  BY <1>0
<1>e. connections = {c \in Conns : state[c] \in Live \/ About(r(c), 0)}
  BY RemovalsWait DEF TableExact
<1>f. ASSUME UNCHANGED <<connections, state>>, Work(0)' = Work(0)
      PROVE  connections' = {c \in Conns : state'[c] \in Live \/ About(r(c), 0)'}
  BY <1>e, <1>f DEF About
<1>1. CASE NewConnection
  <2>1. PICK k \in Conns :
              /\ state[k] = "none" /\ connections' = connections \cup {k}
              /\ Goto(k, "kConnected") \/ Goto(k, "kConnecting")
              /\ Work(0)' = Work(0)
    BY <1>1, <1>a, NewConnectionDoes
  <2>2. \A c \in Conns : About(r(c), 0)' <=> About(r(c), 0)
    BY <2>1 DEF About
  <2>3. state'[k] \in Live /\ \A c \in Conns : c # k => state'[c] = state[c]
    BY <1>d, <2>1 DEF Goto
  <2> QED
    BY <1>d, <1>e, <2>1, <2>2, <2>3
<1>2. ASSUME NEW k \in Conns, HandleClose(k)
      PROVE  connections' = {c \in Conns : state'[c] \in Live \/ About(r(c), 0)'}
  <2>1. /\ state[k] = "kConnected" /\ Goto(k, "kDisconnected")
        /\ \/ /\ connections' = connections \ {k}
              /\ Work(0)' = Append(Work(0), <<"connectDestroyed", k>>)
           \/ /\ connections' = connections
              /\ Work(0)' = Append(Work(0), r(k))
    BY <1>2, HandleCloseDoes
  <2>2. /\ state'[k] \notin Live /\ k \in connections /\ ~About(r(k), 0)
        /\ \A c \in Conns : c # k => state'[c] = state[c]
    BY <1>b, <1>d, <1>e, <2>1 DEF Goto
  <2>3. Work(0) \in Seq(Functor)
    BY <1>a, WorkIsQueue
  <2>4. <<"connectDestroyed", k>> \in Functor /\ r(k) \in Functor
    BY DEF Functor
  <2>5. ASSUME NEW f \in Functor, Work(0)' = Append(Work(0), f)
        PROVE  \A g : About(g, 0)' <=> About(g, 0) \/ g = f
    <3>1. Range(Append(Work(0), f)) = Range(Work(0)) \cup {f}
      BY <2>3, RangeAppend
    <3> QED
      BY <2>5, <3>1 DEF About
  <2>6. CASE /\ connections' = connections \ {k}
             /\ Work(0)' = Append(Work(0), <<"connectDestroyed", k>>)
    <3>1. \A c \in Conns : About(r(c), 0)' <=> About(r(c), 0)
      BY <2>4, <2>5, <2>6
    <3> QED
      BY <1>e, <2>2, <2>6, <3>1
  <2>7. CASE /\ connections' = connections
             /\ Work(0)' = Append(Work(0), r(k))
    <3>1. \A c \in Conns : About(r(c), 0)' <=> About(r(c), 0) \/ r(c) = r(k)
      BY <2>4, <2>5, <2>7
    <3>2. \A c \in Conns : r(c) = r(k) <=> c = k
      OBVIOUS
    <3> QED
      BY <1>e, <2>2, <2>7, <3>1, <3>2
  <2> QED
    BY <2>1, <2>6, <2>7
<1>3. ASSUME NEW k \in Conns, DestroyConnection(k)
      PROVE  FALSE
  BY <1>3, DestroyConnectionDoes DEF ThreadsFit
<1>4. ASSUME NEW m \in Loops, RunEstablished(m) \/ RunDestroyed(m)
      PROVE  connections' = {c \in Conns : state'[c] \in Live \/ About(r(c), 0)'}
  <2>1. PICK name \in {"connectEstablished", "connectDestroyed"}, k \in Conns :
              /\ RunNext(m, name) /\ UNCHANGED <<pending, connections>>
              /\ About(<<name, k>>, m)
              /\ Work(m) # <<>> /\ Head(Work(m)) = <<name, k>>
              /\ Goto(k, IF name = "connectEstablished" THEN "kConnected"
                                                        ELSE "destroyed")
    BY <1>4, RunsFirst
       DEF RunEstablished, RunDestroyed, ConnectEstablished, ConnectDestroyed
  <2>2. /\ Work(m)' = Tail(Work(m))
        /\ \A n \in Loops : n # m => Work(n)' = Work(n)
    BY <2>1, RunDoes
  <2>3. \A c \in Conns : About(r(c), 0)' <=> About(r(c), 0)
    <3>1. CASE m = 0
      BY <2>1, <2>2, <3>1, OthersWait
    <3>2. CASE m # 0
      BY <1>a, <2>2, <3>2 DEF About
    <3> QED
      BY <3>1, <3>2
  <2>4. /\ state'[k] \in Live <=> state[k] \in Live
        /\ \A c \in Conns : c # k => state'[c] = state[c]
    BY <1>d, <2>1 DEF Goto, FunctorsFit, Fits
  <2> QED
    BY <1>e, <2>1, <2>3, <2>4
<1>5. CASE RunRemove
  <2>1. PICK k \in Conns :
              /\ About(r(k), 0) /\ Work(0) # <<>> /\ Head(Work(0)) = r(k)
              /\ state' = state /\ connections' = connections \ {k}
              /\ Work(0)' = Tail(Work(0))
    BY <1>5, RunRemoveDoes
  <2>2. ~About(r(k), 0)'
    BY <1>a, <2>1, FitsTaken DEF FunctorsFit
  <2>3. \A c \in Conns : c # k => (About(r(c), 0)' <=> About(r(c), 0))
    BY <1>a, <2>1, OthersWait
  <2>4. state[k] \notin Live
    BY <1>b, <2>1
  <2> QED
    BY <1>e, <2>1, <2>2, <2>3, <2>4
<1>6. CASE /\ ~NewConnection /\ ~RunRemove
           /\ \A k \in Conns : ~HandleClose(k) /\ ~DestroyConnection(k)
           /\ \A m \in Loops : ~RunEstablished(m) /\ ~RunDestroyed(m)
  <2>1. UNCHANGED <<connections, state>> /\ Work(0)' = Work(0)
    BY <1>6, <1>a, RestDoes
  <2> QED
    BY <1>f, <2>1
<1> QED
  BY <1>1, <1>2, <1>3, <1>4, <1>5, <1>6


-----------------------------------------------------------------------------
(* The types *)

\* Which steps give connections to the threads in turn.
LEMMA NextStep ==
    ASSUME [Next]_vars
    PROVE  next' = next \/ (numThreads # 0 /\ GetNextLoop)
BY DEF Next, BaseStep, BaseSteps, WorkerStep, ThreadSteps, Chosen, ServerLeft,
       vars, poolVars, Lost, Start, StartPool, ClientConnects, PollBase, Poll,
       NewConnection, NewConnectionDangles, AcceptFails, AcceptorDangles,
       HandleClose, TakeFunctors, SwapFunctors, EndOfBatch, EndBatch, RunNext,
       RunEstablished, RunDestroyed, RunRemove, RemoveDangles, BeginDestroy,
       DestroyConnection, DestroyConnectionDangles, DestroyMembers, DestroyPool,
       EndDestroy, StartLoop, ThreadFunc, LoopStarted, EnterLoop, QuitInLoop,
       ForgetLoop, DestroyLoop, CheckLoop, QuitThread, QuitDangles, Join

\* Which steps change what a quit() has left, and how.
LEMMA QuitsStep ==
    ASSUME [Next]_vars
    PROVE  \E l, v : v \in BOOLEAN /\ (quit' = quit \/ quit' = [quit EXCEPT ![l] = v])
<1>1. \/ quit' = quit
      \/ \E l : quit' = [quit EXCEPT ![l] = FALSE] \/ quit' = [quit EXCEPT ![l] = TRUE]
  BY DEF Next, BaseStep, BaseSteps, WorkerStep, ThreadSteps, Chosen, vars,
     poolVars, loopVars, Lost, Start, StartPool, ClientConnects, PollBase,
     Poll, NewConnection, NewConnectionDangles, AcceptFails, AcceptorDangles,
     HandleClose, TakeFunctors, SwapFunctors, EndOfBatch, EndBatch, RunNext,
     RunEstablished, RunDestroyed, RunRemove, RemoveDangles, BeginDestroy,
     DestroyConnection, DestroyConnectionDangles, DestroyMembers, DestroyPool,
     EndDestroy, StartLoop, ThreadFunc, LoopStarted, EnterLoop, QuitInLoop,
     ForgetLoop, DestroyLoop, CheckLoop, QuitThread, QuitDangles, Join
<1>2. TRUE \in BOOLEAN /\ FALSE \in BOOLEAN
  OBVIOUS
<1> QED
  BY <1>1, <1>2

\* Which steps change the connections the functors of a batch refer to, and what
\* the Acceptor is at.
LEMMA HeldStep ==
    ASSUME [Next]_vars
    PROVE  /\ \/ held' = held
              \/ \E l \in Loops : TakeFunctors(l) \/ EndOfBatch(l)
           /\ \/ accepting' = accepting \/ accepting' = FALSE
              \/ accepting' = (Listening /\ Readable)
<1>a. 0 \in Loops /\ 1 .. MaxThreads \subseteq Loops
  BY MaxThreadsAssumption DEF Loops
<1>1. CASE \A l \in Loops : ~TakeFunctors(l) /\ ~EndOfBatch(l)
  BY <1>1, <1>a DEF Next, BaseStep, WorkerStep, Chosen, ServerLeft, vars,
     connVars, acceptor, Start, ClientConnects, PollBase, NewConnection,
     NewConnectionDangles, AcceptFails, AcceptorDangles, HandleClose, RunNext,
     RunEstablished, RunDestroyed, RunRemove, RemoveDangles, BeginDestroy,
     DestroyConnection, DestroyConnectionDangles, DestroyMembers, EndDestroy
<1>2. ASSUME NEW l \in Loops, TakeFunctors(l) \/ EndOfBatch(l)
      PROVE  accepting' = accepting
  BY <1>2 DEF TakeFunctors, EndOfBatch, acceptor
<1> QED
  BY <1>1, <1>2

\* The queues hold functors.
LEMMA QueueTypesStep ==
    ASSUME TypeOK, LoopsFit, FunctorsFit, Numbered, [Next]_vars
    PROVE  /\ batch' \in [Loops -> Seq(Functor)]
           /\ pending' \in [Loops -> Seq(Functor)]
<1>a. batch \in [Loops -> Seq(Functor)] /\ pending \in [Loops -> Seq(Functor)]
  BY DEF TypeOK, PoolTypeOK
<1>e. <<>> \in Seq(Functor)
  BY QueueEmpty
<1>q. ASSUME NEW l \in Loops, NEW f \in Functor, Queue(l, f)
      PROVE  pending' \in [Loops -> Seq(Functor)]
  <2>1. pending[l] \in Seq(Functor)
    BY <1>a
  <2>2. Append(pending[l], f) \in Seq(Functor)
    BY <2>1, QueueAppend
  <2> QED
    BY <1>a, <1>q, <2>2 DEF Queue
<1>0. 0 \in Loops /\ \A c \in Conns : ioLoop[c] \in Loops
  BY MaxThreadsAssumption DEF Loops, TypeOK
<1>f. \A c \in Conns : \A name \in {"connectEstablished", "connectDestroyed",
                                    "removeConnectionInLoop"} :
         <<name, c>> \in Functor
  BY DEF Functor
<1>1. ASSUME NewConnection
      PROVE  /\ batch' \in [Loops -> Seq(Functor)]
             /\ pending' \in [Loops -> Seq(Functor)]
  <2>1. NextLoop \in Loops
    <3>1. /\ numThreads \in 0 .. MaxThreads
          /\ numThreads > 0 => next \in Workers
      BY DEF TypeOK, PoolTypeOK
    <3> QED
      BY <3>1, MaxThreadsAssumption DEF NextLoop, Loops, Workers
  <2>2. Cardinality(Created) + 1 \in Conns
    BY <1>1, NewConnectionDoes
  <2>3. batch' = batch
    BY <1>1 DEF NewConnection
  <2>4. \/ pending' = pending
        \/ Queue(NextLoop, <<"connectEstablished", Cardinality(Created) + 1>>)
    BY <1>1 DEF NewConnection
  <2> QED
    BY <1>a, <1>f, <1>q, <2>1, <2>2, <2>3, <2>4
<1>2. ASSUME NEW c \in Conns, HandleClose(c) \/ DestroyConnection(c)
      PROVE  /\ batch' \in [Loops -> Seq(Functor)]
             /\ pending' \in [Loops -> Seq(Functor)]
  <2>1. /\ batch' = batch
        /\ \/ pending' = pending
           \/ Queue(ioLoop[c], <<"connectDestroyed", c>>)
           \/ Queue(0, <<"removeConnectionInLoop", c>>)
    BY <1>2 DEF HandleClose, DestroyConnection, RemoveConnectionInLoop
  <2> QED
    BY <1>a, <1>f, <1>q, <1>0, <2>1
<1>3. ASSUME NEW l \in Loops, NEW name, RunNext(l, name)
      PROVE  batch' \in [Loops -> Seq(Functor)]
  BY <1>a, <1>3, RunDoes
<1>4. ASSUME NEW l \in Loops, RunEstablished(l) \/ RunDestroyed(l)
      PROVE  pending' = pending
  BY <1>4 DEF RunEstablished, RunDestroyed
<1>5. ASSUME NEW l \in Loops, TakeFunctors(l)
      PROVE  /\ batch' \in [Loops -> Seq(Functor)]
             /\ pending' \in [Loops -> Seq(Functor)]
  BY <1>a, <1>e, <1>5 DEF TakeFunctors, SwapFunctors
<1>6. ASSUME NEW l \in Loops, DestroyLoop(l)
      PROVE  /\ batch' \in [Loops -> Seq(Functor)]
             /\ pending' \in [Loops -> Seq(Functor)]
  BY <1>a, <1>e, <1>6 DEF DestroyLoop
<1>7. ASSUME RunRemove
      PROVE  pending' \in [Loops -> Seq(Functor)]
  <2>1. Head(batch[0])[2] \in Conns
    BY <1>0, <1>7, RunsFirst DEF RunRemove
  <2>2. Queue(ioLoop[Head(batch[0])[2]], <<"connectDestroyed", Head(batch[0])[2]>>)
    BY <1>7 DEF RunRemove, RemoveConnectionInLoop
  <2> QED
    BY <1>0, <1>f, <1>q, <2>1, <2>2
<1> QED
  BY <1>a, <1>0, <1>1, <1>2, <1>3, <1>4, <1>5, <1>6, <1>7, QueuesStep
     DEF RunEstablished, RunDestroyed, RunRemove


\* Every variable keeps its type, and getNextLoop stays within the threads.
LEMMA TypeStep ==
    /\ TypeOK /\ LoopsFit /\ ThreadsFit /\ Numbered /\ FunctorsFit
    /\ [Next]_vars /\ Numbered'
    => TypeOK'
<1> SUFFICES ASSUME TypeOK, LoopsFit, ThreadsFit, Numbered, FunctorsFit,
                    [Next]_vars, Numbered'
             PROVE  TypeOK'
  OBVIOUS
<1>1. /\ numThreads' \in 0 .. MaxThreads
      /\ maxFiles' \in 1 .. MaxConns /\ ordinary' \in BOOLEAN
      /\ Workers' = Workers
  BY Givens DEF TypeOK, PoolTypeOK, Workers
<1>2. /\ next' \in 1 .. MaxThreads + 1
      /\ numThreads' > 0 => next' \in Workers'
  <2>1. /\ numThreads \in 0 .. MaxThreads /\ next \in 1 .. MaxThreads + 1
        /\ (numThreads > 0 => next \in 1 .. numThreads)
    BY DEF TypeOK, PoolTypeOK, Workers
  <2>2. numThreads' = numThreads
    BY Givens
  <2>3. CASE next' = next
    BY <1>1, <2>1, <2>2, <2>3 DEF Workers
  <2>4. CASE numThreads # 0 /\ GetNextLoop
    <3>1. next \in 1 .. numThreads
      BY <2>1, <2>4
    <3>2. next' \in 1 .. numThreads
      BY <2>1, <2>4, <3>1 DEF GetNextLoop
    <3> QED
      BY <1>1, <2>1, <3>2, MaxThreadsAssumption DEF Workers
  <2> QED
    BY <2>3, <2>4, NextStep
<1>3. place' \in [Loops -> Places]
  <2>1. place \in [Loops -> Places] /\ numThreads \in 0 .. MaxThreads
    BY DEF TypeOK, PoolTypeOK
  <2>2. busy = "start" => at \in Workers
    BY DEF ThreadsFit
  <2>3. \A m \in Loops : place'[m] \in Places
    BY <2>1, <2>2, PlacesStep
  <2>4. place' = place \/ \E l, to : place' = [place EXCEPT ![l] = to]
    BY PlaceStep DEF LoopMoves, Moved
  <2> QED
    BY <2>1, <2>3, <2>4
<1>4. quit' \in [Loops -> BOOLEAN]
  BY QuitsStep DEF TypeOK, PoolTypeOK
<1>5. /\ batch' \in [Loops -> Seq(Functor)]
      /\ pending' \in [Loops -> Seq(Functor)]
  BY QueueTypesStep
<1>6. /\ busy' \in {"no", "start", "destroy", "check", "quit", "join", "joined"}
      /\ server' \in {"new", "started", "destroying", "gone"}
      /\ at' \in Nat
  <2>1. /\ busy \in {"no", "start", "destroy", "check", "quit", "join", "joined"}
        /\ server \in {"new", "started", "destroying", "gone"}
        /\ at \in Nat
    BY DEF TypeOK, PoolTypeOK
  <2>2. CASE Start \/ BeginDestroy \/ DestroyMembers \/ EndDestroy
    BY <2>1, <2>2 DEF Start, StartPool, BeginDestroy, DestroyMembers, DestroyPool,
       EndDestroy
  <2>3. CASE (LoopStarted \/ CheckLoop \/ Join \/ QuitThread) /\ UNCHANGED server
    BY <2>1, <2>3 DEF LoopStarted, CheckLoop, Join, QuitThread
  <2> QED
    BY <2>1, <2>2, <2>3, StatusStep
<1>7. proc' \in {"running", "dangling"}
  BY ProcStep DEF TypeOK, PoolTypeOK
<1>8. connections' \subseteq Conns /\ waiting' \in 0 .. MaxConns
  <2>1. connections' \subseteq Conns
    BY DEF Numbered, Created
  <2>2. waiting' \in Nat
    <3>1. waiting \in Nat
      BY DEF TypeOK
    <3>2. /\ NewConnection => waiting > 0 /\ waiting' = waiting - 1
          /\ Accepts => waiting > 0
      BY DEF NewConnection, Accepts
    <3> QED
      BY <3>1, <3>2, WaitingStep
  <2>3. Cardinality(Created') \in Nat
    <3>1. IsFiniteSet(1 .. MaxConns) /\ Created' \subseteq 1 .. MaxConns
      BY FS_Interval, MaxConnsAssumption DEF Created, Conns
    <3> QED
      BY <3>1, FS_Subset, FS_CardinalityType
  <2>4. Cardinality(Created') + waiting' <= MaxConns
    BY DEF Numbered
  <2> QED
    BY <2>1, <2>2, <2>3, <2>4, MaxConnsAssumption
<1>9. /\ state' \in [Conns -> {"none", "kConnecting", "kConnected",
                               "kDisconnected", "destroyed"}]
      /\ ioLoop' \in [Conns -> Loops]
  <2>1. /\ state \in [Conns -> {"none", "kConnecting", "kConnected",
                                "kDisconnected", "destroyed"}]
        /\ ioLoop \in [Conns -> Loops]
    BY DEF TypeOK
  <2>2. CASE NewConnection
    <3>1. PICK c \in Conns, m \in Loops :
                /\ Goto(c, "kConnected") \/ Goto(c, "kConnecting")
                /\ ioLoop' = [ioLoop EXCEPT ![c] = m]
      BY <2>2, NewConnectionDoes
    <3> QED
      BY <2>1, <3>1 DEF Goto
  <2>3. CASE ~NewConnection
    <3>1. /\ ioLoop' = ioLoop
          /\ \/ state' = state
             \/ \E c : \/ Goto(c, "kConnected") \/ Goto(c, "kDisconnected")
                       \/ Goto(c, "destroyed")
      BY <2>3, ConnectionsStep DEF HandleClose, DestroyConnection, RunNext,
         RunEstablished, RunDestroyed, RunRemove, ConnectEstablished,
         ConnectDestroyed
    <3> QED
      BY <2>1, <3>1 DEF Goto
  <2> QED
    BY <2>2, <2>3
<1>10. held' \in [Loops -> SUBSET Conns] /\ accepting' \in BOOLEAN
  <2>1. held \in [Loops -> SUBSET Conns] /\ accepting \in BOOLEAN
    BY DEF TypeOK
  <2>2. ASSUME NEW l \in Loops, TakeFunctors(l) \/ EndOfBatch(l)
        PROVE  held' \in [Loops -> SUBSET Conns]
    <3>1. {f[2] : f \in Range(pending[l])} \in SUBSET Conns
      <4>1. pending[l] \in Seq(Functor)
        BY DEF TypeOK, PoolTypeOK
      <4>2. Range(pending[l]) \subseteq Functor
        BY <4>1, QueuePlaces
      <4> QED
        BY <4>2 DEF Functor
    <3>2. \/ held' = [held EXCEPT ![l] = {f[2] : f \in Range(pending[l])}]
          \/ held' = [held EXCEPT ![l] = {}]
      BY <2>2 DEF TakeFunctors, EndOfBatch
    <3> QED
      BY <2>1, <3>1, <3>2
  <2>3. held' \in [Loops -> SUBSET Conns]
    BY <2>1, <2>2, HeldStep
  <2>4. accepting' \in BOOLEAN
    BY <2>1, HeldStep
  <2> QED
    BY <2>3, <2>4
<1> QED
  BY <1>1, <1>2, <1>3, <1>4, <1>5, <1>6, <1>7, <1>8, <1>9, <1>10
     DEF TypeOK, PoolTypeOK


-----------------------------------------------------------------------------
(* Theorems *)

\* It holds at the start ...
LEMMA InitInvariant == Init => ServerInvariant
<1> SUFFICES ASSUME Init
             PROVE  ServerInvariant
  OBVIOUS
<1>1. /\ numThreads \in 0 .. MaxThreads /\ next = 1
      /\ place = [l \in Loops |-> IF l = 0 THEN "main" ELSE "none"]
      /\ quit = [l \in Loops |-> FALSE]
      /\ pending = [l \in Loops |-> <<>>] /\ batch = [l \in Loops |-> <<>>]
      /\ busy = "no" /\ at = 0 /\ proc = "running"
      /\ server = "new" /\ connections = {} /\ waiting = 0 /\ accepting = FALSE
      /\ maxFiles \in 1 .. MaxConns /\ ordinary \in BOOLEAN
      /\ state = [c \in Conns |-> "none"] /\ ioLoop = [c \in Conns |-> 0]
      /\ held = [l \in Loops |-> {}]
  BY DEF Init, PoolInit
<1>2. /\ 0 \in Loops /\ Workers \subseteq Loops /\ 0 \notin Workers
      /\ \A l \in Workers : l # 0
  BY <1>1, MaxThreadsAssumption DEF Loops, Workers
<1>3. <<>> \in Seq(Functor)
  BY QueueEmpty
<1>4. PoolTypeOK(Functor)
  <2>1. numThreads > 0 => next \in Workers
    BY <1>1, MaxThreadsAssumption DEF Workers
  <2>2. next \in 1 .. MaxThreads + 1
    BY <1>1, MaxThreadsAssumption
  <2> QED
    BY <1>1, <1>3, <2>1, <2>2 DEF PoolTypeOK, Places
<1>5. TypeOK
  BY <1>1, <1>2, <1>4, MaxConnsAssumption DEF TypeOK
<1>6. LoopsFit
  BY <1>1, <1>2 DEF LoopsFit
<1>7. ThreadsFit
  BY <1>1, <1>2 DEF ThreadsFit
<1>8. OrdinaryRuns
  BY <1>1, <1>2 DEF OrdinaryRuns
<1>9. Numbered
  <2>1. Created = {}
    BY <1>1 DEF Created
  <2>2. Cardinality(Created) = 0
    BY <2>1, FS_EmptySet
  <2>3. 1 .. 0 = {}
    OBVIOUS
  <2> QED
    BY <1>1, <2>1, <2>2, <2>3, MaxConnsAssumption DEF Numbered
<1>10. ASSUME NEW l \in Loops
       PROVE  Work(l) = <<>> /\ \A f : ~About(f, l)
  <2>1. <<>> \o <<>> = <<>>
    OBVIOUS
  <2>2. Work(l) = <<>>
    BY <1>1, <2>1 DEF Work
  <2>3. Range(<<>>) = {}
    BY QueueEmpty
  <2> QED
    BY <2>2, <2>3 DEF About
<1>11. FunctorsFit
  <2>1. DOMAIN <<>> = {}
    OBVIOUS
  <2> QED
    BY <1>10, <2>1 DEF FunctorsFit, Fits, Once, Before
<1>12. TableExact
  BY <1>1 DEF TableExact
<1> QED
  BY <1>5, <1>6, <1>7, <1>8, <1>9, <1>11, <1>12 DEF ServerInvariant

\* ... and every step keeps it.
LEMMA InvariantStep == ServerInvariant /\ [Next]_vars => ServerInvariant'
<1> SUFFICES ASSUME ServerInvariant, [Next]_vars
             PROVE  ServerInvariant'
  OBVIOUS
<1>1. /\ TypeOK /\ LoopsFit /\ ThreadsFit /\ OrdinaryRuns /\ Numbered
      /\ FunctorsFit /\ TableExact
  BY DEF ServerInvariant
<1>2. LoopsFit'
  BY <1>1, LoopsStep
<1>3. ThreadsFit'
  BY <1>1, ThreadsStep
<1>4. OrdinaryRuns'
  BY <1>1, OrdinaryStep
<1>5. Numbered'
  BY <1>1, NumberedStep
<1>6. FunctorsFit'
  BY <1>1, FunctorsStep
<1>7. TypeOK'
  BY <1>1, <1>5, TypeStep
<1>8. TableExact'
  BY <1>1, <1>6, <1>7, TableStep
<1> QED
  BY <1>2, <1>3, <1>4, <1>5, <1>6, <1>7, <1>8 DEF ServerInvariant

\* The inductive invariant: how far the threads have come, which functors wait
\* for which connection, and what connections_ holds.
THEOREM Invariant == Spec => []ServerInvariant
<1>1. Init => ServerInvariant
  BY InitInvariant
<1>2. ServerInvariant /\ [Next]_vars => ServerInvariant'
  BY InvariantStep
<1> QED
  BY <1>1, <1>2, PTL DEF Spec

\* The types, and getNextLoop within the threads, however many there are.
THEOREM TypeCorrect == Spec => []TypeOK
<1>1. ServerInvariant => TypeOK
  BY DEF ServerInvariant
<1> QED
  BY <1>1, Invariant, PTL

\* connections_ of a started server holds the connections that live and those
\* whose removal is on its way, and no other.
THEOREM TableIsExact == Spec => []TableExact
<1>1. ServerInvariant => TableExact
  BY DEF ServerInvariant
<1> QED
  BY <1>1, Invariant, PTL

\* No thread is left once ~TcpServer has returned, and a program like the
\* examples uses no loop after the end of its thread.
THEOREM OutlivesItsUse == Spec => []ServerOutlivesUse
<1>1. ServerInvariant => ServerOutlivesUse
  BY DEF ServerInvariant, ServerOutlivesUse, ThreadsFit, OrdinaryRuns
<1> QED
  BY <1>1, Invariant, PTL

\* Whatever the order in which loops, base loop and destructor go on,
\* connectEstablished finds its connection in kConnecting.
THEOREM EstablishesFirst == Spec => EstablishedFirst
<1>1. ASSUME ServerInvariant, [Next]_vars, NEW c \in Conns,
             state'[c] = "kConnected", state[c] # "kConnected"
      PROVE  state[c] \in {"none", "kConnecting"}
  <2>a. /\ TypeOK /\ LoopsFit /\ Numbered /\ FunctorsFit
        /\ state \in [Conns -> {"none", "kConnecting", "kConnected",
                                "kDisconnected", "destroyed"}]
    BY <1>1 DEF ServerInvariant, TypeOK
  <2>1. CASE NewConnection
    <3>1. PICK k \in Conns :
                /\ state[k] = "none"
                /\ Goto(k, "kConnected") \/ Goto(k, "kConnecting")
      BY <2>a, <2>1, NewConnectionDoes
    <3> QED
      BY <1>1, <2>a, <3>1 DEF Goto
  <2>2. ASSUME NEW k \in Conns, HandleClose(k) \/ DestroyConnection(k)
        PROVE  FALSE
    <3>1. state' = state \/ Goto(k, "kDisconnected") \/ Goto(k, "destroyed")
      BY <2>2 DEF HandleClose, DestroyConnection, ConnectDestroyed
    <3> QED
      BY <1>1, <2>a, <3>1 DEF Goto
  <2>3. ASSUME NEW l \in Loops, RunEstablished(l)
        PROVE  state[c] = "kConnecting"
    <3>1. PICK k \in Conns : /\ About(<<"connectEstablished", k>>, l)
                             /\ Goto(k, "kConnected")
      BY <2>3, <2>a, RunsFirst DEF RunEstablished, ConnectEstablished
    <3>2. c = k
      BY <1>1, <2>a, <3>1 DEF Goto
    <3> QED
      BY <2>a, <3>1, <3>2 DEF FunctorsFit, Fits
  <2>4. ASSUME NEW l \in Loops, RunDestroyed(l)
        PROVE  FALSE
    BY <1>1, <2>4, <2>a DEF RunDestroyed, ConnectDestroyed, Goto
  <2>5. ~RunRemove
    BY <1>1 DEF RunRemove
  <2> QED
    BY <1>1, <2>1, <2>2, <2>3, <2>4, <2>5, ConnectionsStep
<1>2. ServerInvariant /\ [Next]_vars =>
          [\A c \in Conns : state'[c] = "kConnected" /\ state[c] # "kConnected"
              => state[c] \in {"none", "kConnecting"}]_vars
  BY <1>1
<1> QED
  BY <1>2, Invariant, PTL DEF Spec, EstablishedFirst

=============================================================================
