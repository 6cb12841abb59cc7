------------------------- MODULE EventLoopThreadPool -------------------------
(***************************************************************************)
(* agora::net::EventLoopThreadPool and its EventLoopThreads: how the base    *)
(* loop's thread starts the others, hands work to their loops, and ends and  *)
(* joins them.  Loop 0 is the base loop; of a loop the places are kept at    *)
(* which a quit() or a functor from another thread makes a difference.       *)
(*                                                                         *)
(* The module has no Init and Next of its own: TcpServer owns a pool and     *)
(* composes its actions with its own.                                        *)
(***************************************************************************)
EXTENDS Naturals, Sequences

CONSTANT MaxThreads  \* bound: threads of a pool

ASSUME MaxThreadsAssumption == MaxThreads \in Nat

VARIABLES
    numThreads,      \* numThreads_
    next,            \* next_, as the number of a thread
    place,           \* where the thread of each loop is
    quit,            \* quit_ of each loop
    pending,         \* pendingFunctors_ of each loop
    batch,           \* the functors each loop is running
    busy,            \* what the base thread is doing outside its loop
    at,              \* and for which thread
    proc             \* "running", or how the process was lost

loopVars == <<place, quit, pending, batch>>
poolVars == <<numThreads, next, loopVars, busy, at, proc>>

Loops == 0 .. MaxThreads
Workers == 1 .. numThreads

\* A thread is created, makes its EventLoop known, enters loop(), leaves it,
\* forgets the EventLoop and destroys it.  The base loop's starts at "main".
Places == {"none", "created", "known", "poll", "dispatch", "run", "left",
           "forgotten", "ended", "main"}
InLoop == {"poll", "dispatch", "run"}

\* loop_ of an EventLoopThread is not null.
Known(l) == place[l] \in InLoop \cup {"known", "left"}

PoolInit ==
    /\ numThreads \in 0 .. MaxThreads
    /\ next = 1
    /\ place = [l \in Loops |-> IF l = 0 THEN "main" ELSE "none"]
    /\ quit = [l \in Loops |-> FALSE]
    /\ pending = [l \in Loops |-> <<>>]
    /\ batch = [l \in Loops |-> <<>>]
    /\ busy = "no" /\ at = 0
    /\ proc = "running"

Running == proc = "running"

\* The base thread is in a place where the program may call the library.
BaseCalls == Running /\ busy = "no" /\ place[0] \in {"main", "dispatch", "run"}

\* The thread of loop l may take a step of its loop.
Turn(l) == Running /\ (l = 0 => busy = "no")

Lost(how) ==
    /\ proc' = how
    /\ UNCHANGED <<numThreads, next, loopVars, busy, at>>

Goes(l, from, to) ==
    /\ Turn(l)
    /\ place[l] = from
    /\ place' = [place EXCEPT ![l] = to]

-----------------------------------------------------------------------------
(* Starting: the base thread creates one thread after another and waits for  *)
(* each to make its loop known.                                              *)

StartPool ==
    /\ busy' = IF numThreads = 0 THEN "no" ELSE "start"
    /\ at' = 1
    /\ UNCHANGED <<numThreads, next, loopVars, proc>>

StartLoop ==
    /\ Running /\ busy = "start"
    /\ place[at] = "none"
    /\ place' = [place EXCEPT ![at] = "created"]
    /\ UNCHANGED <<numThreads, next, quit, pending, batch, busy, at, proc>>

ThreadFunc(l) ==
    /\ l # 0 /\ Goes(l, "created", "known")
    /\ UNCHANGED <<numThreads, next, quit, pending, batch, busy, at, proc>>

LoopStarted ==
    /\ Running /\ busy = "start"
    /\ Known(at)
    /\ busy' = IF at = numThreads THEN "no" ELSE "start"
    /\ at' = at + 1
    /\ UNCHANGED <<numThreads, next, loopVars, proc>>

\* loop() begins by clearing quit_.
EnterLoop(l) ==
    /\ Goes(l, IF l = 0 THEN "main" ELSE "known", "poll")
    /\ quit' = [quit EXCEPT ![l] = FALSE]
    /\ UNCHANGED <<numThreads, next, pending, batch, busy, at, proc>>

-----------------------------------------------------------------------------
(* Running *)

\* epoll_wait returns for an event, a wakeup or its timeout.
Poll(l) ==
    /\ Goes(l, "poll", "dispatch")
    /\ UNCHANGED <<numThreads, next, quit, pending, batch, busy, at, proc>>

SwapFunctors(l) ==
    /\ Goes(l, "dispatch", "run")
    /\ batch' = [batch EXCEPT ![l] = pending[l]]
    /\ pending' = [pending EXCEPT ![l] = <<>>]
    /\ UNCHANGED <<numThreads, next, quit, busy, at, proc>>

EndBatch(l) ==
    /\ Goes(l, "run", CASE ~quit[l] -> "poll"
                        [] quit[l] /\ l = 0 -> "main"
                        [] quit[l] /\ l # 0 -> "left")
    /\ batch[l] = <<>>
    /\ UNCHANGED <<numThreads, next, quit, pending, batch, busy, at, proc>>

\* A callback or functor of the program calls quit() on its own loop.
QuitInLoop(l) ==
    /\ Turn(l)
    /\ place[l] \in {"dispatch", "run"}
    /\ ~quit[l]
    /\ quit' = [quit EXCEPT ![l] = TRUE]
    /\ UNCHANGED <<numThreads, next, place, pending, batch, busy, at, proc>>

GetNextLoopOffByOne ==
    next' = IF next > numThreads THEN 1 ELSE next + 1

\* getNextLoop, in turn over the threads.
GetNextLoop ==
    next' = IF next >= numThreads THEN 1 ELSE next + 1

NextLoop == IF numThreads = 0 THEN 0 ELSE next

\* A functor handed to a loop; the EventLoop must still exist.
Exists(l) == place[l] # "ended"
QueueInFront(l, functor) ==
    pending' = [pending EXCEPT ![l] = <<functor>> \o @]
Queue(l, functor) == pending' = [pending EXCEPT ![l] = Append(@, functor)]

-----------------------------------------------------------------------------
(* Ending *)

\* The thread function after loop(): functors not run are dropped.
ForgetLoop(l) ==
    /\ l # 0 /\ Goes(l, "left", "forgotten")
    /\ UNCHANGED <<numThreads, next, quit, pending, batch, busy, at, proc>>

DestroyLoop(l) ==
    /\ l # 0 /\ Goes(l, "forgotten", "ended")
    /\ pending' = [pending EXCEPT ![l] = <<>>]
    /\ UNCHANGED <<numThreads, next, quit, batch, busy, at, proc>>

\* ~EventLoopThreadPool: threads_ is empty unless the pool was started.
DestroyPool ==
    /\ busy' = IF numThreads > 0 /\ place[1] # "none" THEN "check" ELSE "joined"
    /\ at' = 1
    /\ UNCHANGED <<numThreads, next, loopVars, proc>>

\* ~EventLoopThread reads loop_ without its mutex ...
CheckLoop ==
    /\ Running /\ busy = "check"
    /\ busy' = IF Known(at) THEN "quit" ELSE "join"
    /\ UNCHANGED <<numThreads, next, loopVars, at, proc>>

QuitNobody ==
    /\ Running /\ busy = "quit"
    /\ Exists(at)
    /\ busy' = "join"
    /\ UNCHANGED <<numThreads, next, loopVars, at, proc>>

\* ... and calls quit() on what it has read.
QuitThread ==
    /\ Running /\ busy = "quit"
    /\ Exists(at)
    /\ quit' = [quit EXCEPT ![at] = TRUE]
    /\ busy' = "join"
    /\ UNCHANGED <<numThreads, next, place, pending, batch, at, proc>>

QuitDangles ==
    /\ Running /\ busy = "quit"
    /\ ~Exists(at)
    /\ Lost("dangling")

JoinNothing ==
    /\ Running /\ busy = "join"
    /\ busy' = IF at = numThreads THEN "joined" ELSE "check"
    /\ at' = at + 1
    /\ UNCHANGED <<numThreads, next, loopVars, proc>>

Join ==
    /\ Running /\ busy = "join"
    /\ place[at] = "ended"
    /\ busy' = IF at = numThreads THEN "joined" ELSE "check"
    /\ at' = at + 1
    /\ UNCHANGED <<numThreads, next, loopVars, proc>>

-----------------------------------------------------------------------------

\* Poll(0), SwapFunctors and EndBatch do more in a program with a server:
\* TcpServer has them.
ThreadSteps(l) ==
    Poll(l) \/ ThreadFunc(l) \/ EnterLoop(l) \/ ForgetLoop(l) \/ DestroyLoop(l)

BaseSteps ==
    StartLoop \/ LoopStarted \/ CheckLoop \/ QuitThread \/ QuitDangles \/ Join

PoolTypeOK(Functor) ==
    /\ numThreads \in 0 .. MaxThreads
    /\ next \in 1 .. MaxThreads + 1
    /\ numThreads > 0 => next \in Workers
    /\ place \in [Loops -> Places]
    /\ quit \in [Loops -> BOOLEAN]
    /\ pending \in [Loops -> Seq(Functor)]
    /\ batch \in [Loops -> Seq(Functor)]
    /\ busy \in {"no", "start", "destroy", "check", "quit", "join", "joined"}
    /\ at \in Nat
    /\ proc \in {"running", "dangling"}

=============================================================================
