------------------------------ MODULE TcpServer ------------------------------
(***************************************************************************)
(* agora::net::TcpServer and its Acceptor: clients wait in the backlog of    *)
(* the listening socket, are accepted on the base loop as long as there are  *)
(* descriptors and handed to the loops of the pool; their connections close  *)
(* there, are erased on the base loop and destroyed on their own, and the    *)
(* destructor destroys those that are left and then ends the threads.        *)
(***************************************************************************)
EXTENDS EventLoopThreadPool, FiniteSets, Functions

CONSTANT MaxConns    \* bound: connections accepted

ASSUME MaxConnsAssumption == MaxConns \in Nat

VARIABLES
    server,          \* of the TcpServer: "new", "started", "destroying", "gone"
    maxFiles,        \* descriptors the process has for connections
    waiting,         \* clients in the backlog of acceptSocket_
    accepting,       \* handleRead of the Acceptor has been or will be called
    connections,     \* connections_
    state,           \* state_ of each connection, or "none", or "destroyed"
                     \* once connectDestroyed has run
    ioLoop,          \* loop_ of each connection
    held,            \* connections the functors of each loop's batch refer to
    ordinary         \* the program keeps to the order of the examples

connVars == <<connections, state, ioLoop, held>>
acceptor == <<waiting, accepting>>
given == <<maxFiles, ordinary>>
vars == <<poolVars, server, acceptor, connVars, given>>

Conns == 1 .. MaxConns
Created == {c \in Conns : state[c] # "none"}

ReferencesItself(c) == state[c] # "none"

\* connections_ and the functors that were not run, or not cleared yet, hold a
\* connection; with the last reference its Socket is closed.
Referenced(c) ==
    \/ c \in connections
    \/ \E l \in Loops : c \in held[l] \/ \E f \in Range(pending[l]) : f[2] = c
HoldsFile(c) == state[c] # "none" /\ Referenced(c)
NoFileLeft == Cardinality({c \in Conns : HoldsFile(c)}) >= maxFiles

\* The examples destroy the server when the base loop is over, their callbacks
\* quit no loop of the pool and the base loop is not entered again.
Init ==
    /\ PoolInit
    /\ server = "new"
    /\ maxFiles \in 1 .. MaxConns
    /\ waiting = 0 /\ accepting = FALSE
    /\ connections = {}
    /\ state = [c \in Conns |-> "none"]
    /\ ioLoop = [c \in Conns |-> 0]
    /\ held = [l \in Loops |-> {}]
    /\ ordinary \in BOOLEAN

Goto(c, st) == state' = [state EXCEPT ![c] = st]

-----------------------------------------------------------------------------
(* Starting and accepting *)

Start ==
    /\ BaseCalls
    /\ server = "new"
    /\ server' = "started"
    /\ StartPool
    /\ UNCHANGED <<acceptor, connVars, given>>

\* start() has the pool and then lets the Acceptor listen.
Listening == server = "started" /\ busy # "start"

ClientConnects ==
    /\ Listening
    /\ Cardinality(Created) + waiting < MaxConns
    /\ waiting' = waiting + 1
    /\ UNCHANGED <<poolVars, server, accepting, connVars, given>>

\* The poller is level triggered: it reports the listening socket whenever a
\* client waits, one left over from an earlier event included.
Readable == waiting > 0

PollBase ==
    /\ Poll(0)
    /\ accepting' = (Listening /\ Readable)
    /\ UNCHANGED <<server, waiting, connVars, given>>

ConnectEstablished(c) == Goto(c, "kConnected")

\* handleRead accepts one client after another ...
Accepts ==
    /\ BaseCalls /\ place[0] = "dispatch"
    /\ accepting
    /\ server = "started"
    /\ waiting > 0 /\ ~NoFileLeft

NewConnection ==
    /\ Accepts
    /\ Exists(NextLoop)
    /\ waiting' = waiting - 1
    /\ LET c == Cardinality(Created) + 1 IN
          /\ connections' = connections \cup {c}
          /\ ioLoop' = [ioLoop EXCEPT ![c] = NextLoop]
          /\ IF NextLoop = 0
             THEN ConnectEstablished(c) /\ UNCHANGED pending
             ELSE /\ Goto(c, "kConnecting")
                  /\ Queue(NextLoop, <<"connectEstablished", c>>)
    /\ IF numThreads = 0 THEN UNCHANGED next ELSE GetNextLoop
    /\ UNCHANGED <<numThreads, place, quit, batch, busy, at, proc, server,
                   accepting, held, given>>

\* A loop the program has made quit is gone with its thread.
NewConnectionDangles ==
    /\ Accepts
    /\ ~Exists(NextLoop)
    /\ Lost("dangling")
    /\ UNCHANGED <<server, acceptor, connVars, given>>

\* ... until accept fails: EAGAIN, EMFILE with clients still waiting, or another
\* error that may have cost a client that waits its connection or not.
AcceptFails ==
    /\ BaseCalls /\ place[0] = "dispatch"
    /\ accepting
    /\ server = "started"
    /\ accepting' = FALSE
    /\ waiting' \in {waiting} \cup (IF Accepts THEN {waiting - 1} ELSE {})
    /\ UNCHANGED <<poolVars, server, connVars, given>>

\* A callback has destroyed the server, and its Acceptor with it.
AcceptorDangles ==
    /\ BaseCalls /\ place[0] = "dispatch"
    /\ accepting
    /\ server = "gone"
    /\ Lost("dangling")
    /\ UNCHANGED <<server, acceptor, connVars, given>>

-----------------------------------------------------------------------------
(* Closing *)

EraseOnly(c) == connections' = connections \ {c} /\ UNCHANGED pending

KeepInTable(c) ==
    /\ UNCHANGED connections
    /\ Queue(ioLoop[c], <<"connectDestroyed", c>>)

\* removeConnectionInLoop.
RemoveConnectionInLoop(c) ==
    /\ connections' = connections \ {c}
    /\ Queue(ioLoop[c], <<"connectDestroyed", c>>)

\* An event of the connection, or forceClose() in a callback of its loop:
\* handleClose and its closeCallback_, removeConnection of the raw server.
HandleClose(c) ==
    /\ Turn(ioLoop[c]) /\ place[ioLoop[c]] = "dispatch"
    /\ state[c] = "kConnected"
    /\ Goto(c, "kDisconnected")
    /\ IF ioLoop[c] = 0
       THEN RemoveConnectionInLoop(c)
       ELSE /\ Queue(0, <<"removeConnectionInLoop", c>>)
            /\ UNCHANGED connections
    /\ UNCHANGED <<numThreads, next, place, quit, batch, busy, at, proc, server,
                   acceptor, ioLoop, held, given>>

-----------------------------------------------------------------------------
(* Functors *)

ConnectDestroyed(c) == Goto(c, "destroyed")

\* doPendingFunctors: the vector keeps its functors until all of them have run.
TakeFunctors(l) ==
    /\ SwapFunctors(l)
    /\ held' = [held EXCEPT ![l] = {f[2] : f \in Range(pending[l])}]
    /\ UNCHANGED <<server, acceptor, connections, state, ioLoop, given>>

EndOfBatch(l) ==
    /\ EndBatch(l)
    /\ held' = [held EXCEPT ![l] = {}]
    /\ UNCHANGED <<server, acceptor, connections, state, ioLoop, given>>

RunNext(l, name) ==
    /\ Turn(l) /\ place[l] = "run"
    /\ batch[l] # <<>> /\ Head(batch[l])[1] = name
    /\ batch' = [batch EXCEPT ![l] = Tail(@)]
    /\ UNCHANGED <<numThreads, next, place, quit, busy, at, proc, server,
                   acceptor, ioLoop, held, given>>

RunEstablished(l) ==
    /\ RunNext(l, "connectEstablished")
    /\ ConnectEstablished(Head(batch[l])[2])
    /\ UNCHANGED <<pending, connections>>

RunDestroyed(l) ==
    /\ RunNext(l, "connectDestroyed")
    /\ ConnectDestroyed(Head(batch[l])[2])
    /\ UNCHANGED <<pending, connections>>

RunRemove ==
    /\ RunNext(0, "removeConnectionInLoop")
    /\ server # "gone"
    /\ Exists(ioLoop[Head(batch[0])[2]])
    /\ RemoveConnectionInLoop(Head(batch[0])[2])
    /\ UNCHANGED state

RemoveDangles ==
    /\ Turn(0) /\ place[0] = "run"
    /\ batch[0] # <<>> /\ Head(batch[0])[1] = "removeConnectionInLoop"
    /\ server = "gone" \/ ~Exists(ioLoop[Head(batch[0])[2]])
    /\ Lost("dangling")
    /\ UNCHANGED <<server, acceptor, connVars, given>>

-----------------------------------------------------------------------------
(* ~TcpServer *)

BeginDestroy ==
    /\ BaseCalls
    /\ server \in {"new", "started"}
    /\ ordinary => /\ place[0] = "main"
                   /\ \A l \in Workers : place[l] \in InLoop
    /\ server' = "destroying"
    /\ busy' = "destroy"
    /\ UNCHANGED <<numThreads, next, loopVars, at, proc, acceptor,
                   connVars, given>>

Destroying == Running /\ busy = "destroy"

DestroyConnection(c) ==
    /\ Destroying
    /\ c \in connections
    /\ Exists(ioLoop[c])
    /\ connections' = connections \ {c}
    /\ IF ioLoop[c] = 0
       THEN ConnectDestroyed(c) /\ UNCHANGED pending
       ELSE /\ Queue(ioLoop[c], <<"connectDestroyed", c>>)
            /\ UNCHANGED state
    /\ UNCHANGED <<numThreads, next, place, quit, batch, busy, at, proc, server,
                   acceptor, ioLoop, held, given>>

DestroyConnectionDangles(c) ==
    /\ Destroying
    /\ c \in connections
    /\ ~Exists(ioLoop[c])
    /\ Lost("dangling")
    /\ UNCHANGED <<server, acceptor, connVars, given>>

\* Then the members go, the pool among them.
DestroyMembers ==
    /\ Destroying
    /\ connections = {}
    /\ DestroyPool
    /\ UNCHANGED <<server, acceptor, connVars, given>>

EndDestroy ==
    /\ Running /\ busy = "joined"
    /\ busy' = "no"
    /\ server' = "gone"
    /\ UNCHANGED <<numThreads, next, loopVars, at, proc, acceptor,
                   connVars, given>>

-----------------------------------------------------------------------------

ServerLeft == UNCHANGED <<server, acceptor, connVars, given>>

\* What goes on by itself once it can.
BaseStep ==
    \/ BaseSteps /\ ServerLeft
    \/ PollBase \/ NewConnection \/ NewConnectionDangles
    \/ AcceptFails \/ AcceptorDangles
    \/ ~accepting /\ TakeFunctors(0)
    \/ RunDestroyed(0) \/ RunRemove \/ RemoveDangles \/ EndOfBatch(0)
    \/ \E c \in Conns : DestroyConnection(c) \/ DestroyConnectionDangles(c)
    \/ DestroyMembers \/ EndDestroy

WorkerStep(l) ==
    \/ ThreadSteps(l) /\ ServerLeft
    \/ TakeFunctors(l) \/ RunEstablished(l) \/ RunDestroyed(l) \/ EndOfBatch(l)

\* The program and the peers.
Chosen ==
    \/ EnterLoop(0) /\ (ordinary => server # "gone") /\ ServerLeft
    \/ \E l \in Loops : QuitInLoop(l) /\ (ordinary => l = 0) /\ ServerLeft
    \/ Start \/ BeginDestroy \/ ClientConnects
    \/ \E c \in Conns : HandleClose(c)

Next == BaseStep \/ (\E l \in 1 .. MaxThreads : WorkerStep(l)) \/ Chosen

Spec == Init /\ [][Next]_vars

\* The scheduler runs every thread, and callbacks return.  accept does not fail
\* for ever where it could succeed.
FairSpec ==
    /\ Spec
    /\ WF_vars(BaseStep) /\ SF_vars(NewConnection)
    /\ \A l \in 1 .. MaxThreads : WF_vars(WorkerStep(l))

-----------------------------------------------------------------------------
(* Properties *)

Functor ==
    {"connectEstablished", "connectDestroyed", "removeConnectionInLoop"} \X Conns

\* The types of the variables; getNextLoop stays within the threads.
TypeOK ==
    /\ PoolTypeOK(Functor)
    /\ server \in {"new", "started", "destroying", "gone"}
    /\ connections \subseteq Conns
    /\ state \in [Conns -> {"none", "kConnecting", "kConnected",
                            "kDisconnected", "destroyed"}]
    /\ ioLoop \in [Conns -> Loops]
    /\ held \in [Loops -> SUBSET Conns]
    /\ waiting \in 0 .. MaxConns /\ accepting \in BOOLEAN
    /\ maxFiles \in 1 .. MaxConns /\ ordinary \in BOOLEAN

Queued(functor) ==
    \E l \in Loops : \E q \in {pending[l], batch[l]} :
        \E i \in DOMAIN q : q[i] = functor

\* connections_ holds the connections that live and those whose removal is on
\* its way to the base loop: none is lost, so that the destructor reaches it,
\* and none stays behind.
TableExact ==
    server = "started" =>
        connections = {c \in Conns :
            \/ state[c] \in {"kConnecting", "kConnected"}
            \/ Queued(<<"removeConnectionInLoop", c>>)}

\* connectEstablished runs in kConnecting, as it asserts: the destructor never
\* gets ahead of the functor by which the connection starts.
EstablishedFirst ==
    [][\A c \in Conns : state'[c] = "kConnected" /\ state[c] # "kConnected"
           => state[c] \in {"none", "kConnecting"}]_vars

\* The server outlives its use: no thread whose callbacks have a pointer to it
\* is left once its destructor has returned, whatever the program, and in one
\* like the examples no loop is used after the end of its thread.
ServerOutlivesUse ==
    /\ server = "gone" => \A l \in Workers : place[l] \in {"none", "ended"}
    /\ ordinary => proc = "running"

Serving == server = "started" /\ place[0] # "main"

\* A connection that has gone down is destroyed on its loop, by way of the base
\* loop, and its socket closed when both have let go of it, unless the server is
\* destroyed or the base loop left first.
ClosedIsDestroyed ==
    \A c \in Conns :
        ordinary /\ state[c] = "kDisconnected"
            ~> (state[c] = "destroyed" /\ ~HoldsFile(c)) \/ ~Serving

\* Clients for whom accept had no descriptor are accepted later, if only the
\* open connections do not take all descriptors for good: those that have
\* closed give theirs back, and handleRead is called again without a new
\* arrival.
AcceptedInTheEnd ==
    []<>(Cardinality({c \in Conns : state[c] \in {"kConnecting", "kConnected"}})
            < maxFiles)
        => (ordinary /\ waiting > 0 ~> waiting = 0 \/ ~Serving)

\* start() returns, though it waits for each thread to make its loop known, and
\* so does the destructor: every thread leaves its loop and is joined.
CallsReturn ==
    ordinary /\ busy # "no" ~> busy = "no"

-----------------------------------------------------------------------------
(* The inductive invariant behind TableExact, EstablishedFirst and           *)
(* ServerOutlivesUse                                                         *)

\* A loop's functors in the order they will run.
Work(l) == batch[l] \o pending[l]
About(functor, l) == functor \in Range(Work(l))

Once(q, f) == \A i, j \in DOMAIN q : q[i] = f /\ q[j] = f => i = j
Before(q, f, g) == \A i, j \in DOMAIN q : q[i] = f /\ q[j] = g => i < j

\* The base loop is entered and left; a batch is there while it runs.
LoopsFit ==
    /\ place[0] \in {"main"} \cup InLoop
    /\ \A l \in Loops : place[l] # "run" => batch[l] = <<>>
    /\ \A c \in Conns : ioLoop[c] \in {0} \cup Workers

\* How far start() and the destructor have come with the threads.
ThreadsFit ==
    /\ server = "new" =>
          /\ busy = "no" /\ connections = {}
          /\ \A l \in Workers : place[l] = "none"
          /\ \A c \in Conns : state[c] = "none"
    /\ server = "started" =>
          /\ busy \in {"no", "start"}
          /\ busy = "no" => \A l \in Workers : place[l] # "none"
    /\ busy = "start" =>
          /\ server = "started" /\ at \in Workers
          /\ \A l \in Workers : l < at => place[l] # "none"
    /\ server = "destroying"
          <=> busy \in {"destroy", "check", "quit", "join", "joined"}
    /\ busy = "destroy" =>
          \/ \A l \in Workers : place[l] = "none"
          \/ \A l \in Workers : place[l] # "none"
    /\ busy \in {"check", "quit", "join"} =>
          /\ at \in Workers
          /\ \A l \in Workers : l < at => place[l] = "ended"
    /\ busy = "joined" \/ server = "gone" =>
          \A l \in Workers : place[l] \in {"none", "ended"}

\* Threads whose loop the destructor has not told to quit, in a program like
\* the examples.
Untold(l) ==
    \/ server \in {"new", "started"} \/ busy = "destroy"
    \/ busy \in {"check", "quit"} /\ at <= l
    \/ busy = "join" /\ at < l

OrdinaryRuns ==
    ordinary =>
        /\ proc = "running"
        /\ server \in {"destroying", "gone"} => place[0] = "main"
        /\ \A l \in Workers : Untold(l) =>
              ~quit[l] /\ place[l] \notin {"left", "forgotten", "ended"}

\* Connections are numbered as they come, and the bound on them is kept.
Numbered ==
    /\ Created = 1 .. Cardinality(Created)
    /\ Cardinality(Created) + waiting <= MaxConns
    /\ connections \subseteq Created

\* Which functors about a connection wait in a loop, and its state: it is
\* established before anything else happens to it, and its removal waits on the
\* base loop once.
Fits(c, l) ==
    /\ About(<<"connectEstablished", c>>, l) =>
          l = ioLoop[c] /\ l # 0 /\ state[c] = "kConnecting"
    /\ About(<<"connectDestroyed", c>>, l) =>
          /\ l = ioLoop[c] /\ state[c] # "none"
          /\ server = "started" => state[c] \in {"kDisconnected", "destroyed"}
    /\ About(<<"removeConnectionInLoop", c>>, l) =>
          /\ l = 0 /\ ioLoop[c] # 0
          /\ state[c] \in {"kDisconnected", "destroyed"}
    /\ Once(Work(l), <<"connectEstablished", c>>)
    /\ Once(Work(l), <<"removeConnectionInLoop", c>>)
    /\ Before(Work(l), <<"connectEstablished", c>>, <<"connectDestroyed", c>>)

FunctorsFit == \A c \in Conns : \A l \in Loops : Fits(c, l)

ServerInvariant ==
    /\ TypeOK
    /\ LoopsFit
    /\ ThreadsFit
    /\ OrdinaryRuns
    /\ Numbered
    /\ FunctorsFit
    /\ TableExact

=============================================================================
