------------------------------ MODULE TcpClient ------------------------------
(***************************************************************************)
(* agora::net::TcpClient and the Connector it owns, on the thread of their   *)
(* loop: attempts to connect, retries after a growing delay, the hand-over   *)
(* of the descriptor to a TcpConnection, reconnecting when it closes, and    *)
(* the calls of the program, from callbacks or from another thread.          *)
(*                                                                         *)
(* A connector's Channel is named by its descriptor.  Of the TcpConnection   *)
(* only what its client sees is here.                                        *)
(***************************************************************************)
EXTENDS Naturals, Sequences

CONSTANTS
    Sockets,         \* descriptors
    None,            \* a null pointer
    Programs,        \* programs: what one does besides connecting once
    MaxCalls,        \* bound: calls and callbacks of the program
    InitRetryDelay,  \* kInitRetryDelayMs
    MaxRetryDelay    \* kMaxRetryDelayMs

ASSUME SocketsAssumption == None \notin Sockets
ASSUME ProgramsAssumption ==
    Programs \subseteq
        SUBSET {"again", "stop", "closeAtOnce", "elsewhere", "destroy", "late"}
ASSUME DelayAssumption ==
    /\ MaxCalls \in Nat
    /\ InitRetryDelay \in Nat \ {0}
    /\ MaxRetryDelay \in Nat
    /\ InitRetryDelay <= MaxRetryDelay

VARIABLES
    state,           \* state_ of the connector
    connect,         \* its connect_
    channel,         \* its channel_
    writing,         \* its channel wants write events
    delay,           \* its retryDelayMs_
    uses,            \* the program; "late": a callback may take, or the clock
                     \* skip, as long as a retry delay
    retry,           \* retry_ of the client
    wants,           \* connect_ of the client
    connection,      \* connection_
    up,              \* that connection has not gone down
    alive,           \* the client and its connector exist
    watched,         \* kernel: descriptors epoll reports to a connector's channel
    open,            \* kernel: descriptors in use
    answer,          \* kernel: the outcome of the attempt on a descriptor
    due, fresh,      \* retry timers, and those started in this iteration
    collected,       \* TimerQueue::handleRead has run in this batch
    phase,           \* of the loop's iteration; "handling": in handleEvent of
                     \* the channel reported
    reported,        \* the channel whose handleEvent is due or in progress
    revents,         \* its events that are not handled
    stack,           \* callbacks of the program in progress, innermost first
    functors,        \* pendingFunctors_
    running,         \* those of the batch being run
    elsewhere,       \* functor another thread is about to queue
    calls,           \* history: calls and callbacks of the program
    asked,           \* history: connect() was called since the last connection
    stray,           \* history: a descriptor was closed that was not open
    proc             \* "running", or how the process was lost

connector == <<state, connect, channel, writing, delay>>
client == <<uses, retry, wants, connection, up, alive>>
kernel == <<watched, open, answer>>
timers == <<due, fresh, collected>>
dispatch == <<phase, reported, revents>>
history == <<calls, asked, stray>>
vars == <<connector, client, kernel, timers, dispatch, stack, functors,
          running, elsewhere, history, proc>>

States == {"kDisconnected", "kConnecting", "kConnected"}

\* main() makes its calls before it enters loop().
Init ==
    /\ state = "kDisconnected" /\ connect = FALSE
    /\ channel = None /\ writing = FALSE /\ delay = InitRetryDelay
    /\ uses \in Programs /\ retry \in BOOLEAN
    /\ wants = FALSE /\ connection = None /\ up = FALSE /\ alive = TRUE
    /\ watched = {} /\ open = {} /\ answer = [s \in Sockets |-> "none"]
    /\ due = 0 /\ fresh = 0 /\ collected = FALSE
    /\ phase = "poll" /\ reported = None /\ revents = {}
    /\ stack = <<"user">>
    /\ functors = <<>> /\ running = <<>> /\ elsewhere = "none"
    /\ calls = 0 /\ asked = FALSE /\ stray = FALSE
    /\ proc = "running"

Running == proc = "running"
Idle(ph) == Running /\ stack = <<>> /\ phase = ph
InCallback == Running /\ stack # <<>>

Lost(how) ==
    /\ proc' = how
    /\ UNCHANGED <<connector, client, kernel, timers, dispatch, stack,
                   functors, running, elsewhere, history>>

-----------------------------------------------------------------------------
(* Connector: attempts and retries *)

BackoffUncapped(d) == 2 * d
Backoff(d) == IF 2 * d > MaxRetryDelay THEN MaxRetryDelay ELSE 2 * d

Close(s) ==
    /\ open' = open \ {s}
    /\ stray' = (stray \/ s \notin open)

\* connect() with d for retryDelayMs_: a channel the last attempt has left is
\* dropped, a new descriptor is waiting or connected at once ...
Attempt(d) ==
    \E s \in Sockets \ open, outcome \in {"none", "yes"} :
        /\ open' = open \cup {s}
        /\ answer' = [answer EXCEPT ![s] = outcome]
        /\ delay' = IF outcome = "yes" THEN InitRetryDelay ELSE d
        /\ state' = "kConnecting"
        /\ channel' = s
        /\ writing' = TRUE
        /\ watched' = (watched \ {channel}) \cup {s}
        /\ UNCHANGED fresh

\* ... or is closed again because connect(2) failed.
AttemptFails(d) ==
    /\ state' = "kDisconnected"
    /\ channel' = None
    /\ writing' = FALSE
    /\ watched' = watched \ {channel}
    /\ fresh' = fresh + 1
    /\ delay' = Backoff(d)
    /\ UNCHANGED <<open, answer>>

StartInAnyState(st, c, d) ==
    IF c THEN Attempt(d) \/ AttemptFails(d)
    ELSE /\ state' = st
         /\ delay' = d
         /\ UNCHANGED <<channel, writing, kernel, fresh>>

\* startInLoop in state st with c for connect_.
StartInLoop(st, c, d) ==
    IF st = "kDisconnected" /\ c
    THEN Attempt(d) \/ AttemptFails(d)
    ELSE /\ state' = st
         /\ delay' = d
         /\ UNCHANGED <<channel, writing, kernel, fresh>>

ResetAtOnce ==
    /\ writing' = FALSE
    /\ watched' = watched \ {channel}
    /\ channel' = None
    /\ UNCHANGED functors

RemoveAndResetChannel ==
    /\ writing' = FALSE
    /\ watched' = watched \ {channel}
    /\ functors' = Append(functors, <<"resetChannel">>)
    /\ UNCHANGED channel

\* retry(), which its callers call only if connect_.
Retry ==
    IF connect THEN /\ state' = "kDisconnected"
                    /\ fresh' = fresh + 1
                    /\ delay' = Backoff(delay)
               ELSE UNCHANGED <<state, delay, fresh>>

-----------------------------------------------------------------------------
(* Connector: the events of its channel.  An attempt that is refused shows   *)
(* as EPOLLERR, EPOLLHUP and EPOLLOUT; no close callback is set.             *)

Handling(e, earlier) ==
    /\ Idle("batch") \/ Idle("handling")
    /\ reported # None /\ reported = channel
    /\ e \in revents /\ revents \cap earlier = {}
    /\ revents' = revents \ {e}
    /\ phase' = "handling"
    /\ UNCHANGED <<connect, uses, retry, wants, alive, answer, due, collected,
                   reported, running, elsewhere, calls, proc>>

LeakAndRetry ==
    /\ RemoveAndResetChannel
    /\ Retry
    /\ UNCHANGED <<connection, up, stack, asked, open, stray>>

CloseAndRetry ==
    /\ RemoveAndResetChannel
    /\ Close(channel)
    /\ Retry
    /\ UNCHANGED <<connection, up, stack, asked>>

\* Nothing to do: the event is only logged.
Unexpected ==
    UNCHANGED <<state, channel, writing, delay, connection, up, watched, open,
                fresh, stack, functors, asked, stray>>

HandleError ==
    /\ Handling("err", {})
    /\ IF state = "kConnecting" THEN CloseAndRetry ELSE Unexpected

SocketError == channel \notin open \/ answer[channel] = "no"

\* TcpClient::newConnection, up to the callback connectEstablished makes.
NewConnection ==
    /\ connection' = channel
    /\ up' = TRUE
    /\ asked' = FALSE
    /\ stack' = <<"up">>

Connected ==
    /\ RemoveAndResetChannel
    /\ state' = "kConnected"
    /\ delay' = InitRetryDelay
    /\ UNCHANGED fresh
    /\ IF connect THEN NewConnection /\ UNCHANGED <<open, stray>>
                  ELSE Close(channel) /\ UNCHANGED <<connection, up, stack, asked>>

HandleWrite ==
    /\ Handling("out", {"err"})
    /\ CASE state # "kConnecting" -> Unexpected
         [] state = "kConnecting" /\ SocketError -> CloseAndRetry
         [] state = "kConnecting" /\ ~SocketError -> Connected

HandleEventReturns ==
    /\ Idle("handling")
    /\ revents = {}
    /\ reported' = None
    /\ phase' = "batch"
    /\ UNCHANGED <<connector, client, kernel, timers, revents, stack,
                   functors, running, elsewhere, history, proc>>

\* handleEvent of a channel that has been deleted.
HandleEventDangles ==
    /\ Idle("batch") \/ Idle("handling")
    /\ reported # None /\ reported # channel /\ revents # {}
    /\ Lost("dangling")

-----------------------------------------------------------------------------
(* TcpClient: calls of the program *)

\* A call from a callback, or from main() before loop().
Calling(frames) ==
    /\ InCallback /\ alive
    /\ Head(stack) \in frames
    /\ calls < MaxCalls
    /\ calls' = calls + 1
    /\ UNCHANGED <<uses, retry, due, collected, dispatch, running, elsewhere,
                   stray, proc>>

Anywhere == {"user", "up", "down"}

\* TcpClient::connect and Connector::start.
Connect ==
    /\ Calling(Anywhere)
    /\ calls = 0 \/ "again" \in uses
    /\ wants' = TRUE
    /\ connect' = TRUE
    /\ asked' = ~up
    /\ StartInLoop(state, TRUE, delay)
    /\ UNCHANGED <<connection, up, alive, stack, functors>>

\* Shutting the connection down is TcpConnection's; the connector is not told.
Disconnect ==
    /\ Calling(Anywhere)
    /\ wants' = FALSE
    /\ asked' = FALSE
    /\ UNCHANGED <<connector, connection, up, alive, kernel, fresh, stack,
                   functors>>

\* TcpClient::stop and Connector::stop.
Stop ==
    /\ Calling(Anywhere)
    /\ "stop" \in uses
    /\ wants' = FALSE
    /\ connect' = FALSE
    /\ asked' = FALSE
    /\ functors' = Append(functors, <<"stopInLoop">>)
    /\ UNCHANGED <<state, channel, writing, delay, connection, up, alive,
                   kernel, fresh, stack>>

\* connection()->forceClose(), up to connectionCallback_.  Before resetChannel
\* has run it is in the same iteration in which the connection was made.
ForceClose ==
    /\ Calling(Anywhere)
    /\ up
    /\ channel = None \/ "closeAtOnce" \in uses
    /\ up' = FALSE
    /\ stack' = <<"down">> \o stack
    /\ UNCHANGED <<connector, wants, connection, alive, kernel, fresh, functors,
                   asked>>

\* ~TcpClient and ~Connector.
Destroy ==
    /\ Calling({"user"})
    /\ "destroy" \in uses
    /\ Len(stack) = 1 /\ elsewhere = "none"
    /\ ~writing
    /\ connect' = FALSE
    /\ functors' = Append(functors, <<"stopInLoop">>) \o
                   IF connection = None THEN <<>>
                                        ELSE <<<<"connectDestroyed", connection>>>>
    /\ connection' = None
    /\ up' = FALSE
    /\ alive' = FALSE
    /\ channel' = None
    /\ UNCHANGED <<state, writing, delay, wants, kernel, fresh, stack, asked>>

\* assert(!channel_ || channel_->isNoneEvent()) of ~Connector.
DestroyAsserts ==
    /\ InCallback /\ alive
    /\ "destroy" \in uses
    /\ stack = <<"user">> /\ elsewhere = "none"
    /\ writing
    /\ Lost("assert")

\* Another thread sets the flags, and then queues the functor.
StartElsewhere ==
    /\ Running /\ alive
    /\ {"elsewhere", "again"} \subseteq uses
    /\ elsewhere = "none"
    /\ calls < MaxCalls
    /\ calls' = calls + 1
    /\ elsewhere' = "startInLoop"
    /\ wants' = TRUE /\ connect' = TRUE /\ asked' = ~up
    /\ UNCHANGED <<state, channel, writing, delay, uses, retry, connection, up,
                   alive, kernel, timers, dispatch, stack, functors, running, stray, proc>>

StopElsewhere ==
    /\ Running /\ alive
    /\ {"elsewhere", "stop"} \subseteq uses
    /\ elsewhere = "none"
    /\ calls < MaxCalls
    /\ calls' = calls + 1
    /\ elsewhere' = "stopInLoop"
    /\ wants' = FALSE /\ connect' = FALSE /\ asked' = FALSE
    /\ UNCHANGED <<state, channel, writing, delay, uses, retry, connection, up,
                   alive, kernel, timers, dispatch, stack, functors, running, stray, proc>>

QueueElsewhere ==
    /\ Running
    /\ elsewhere # "none"
    /\ functors' = Append(functors, <<elsewhere>>)
    /\ elsewhere' = "none"
    /\ UNCHANGED <<connector, client, kernel, timers, dispatch, stack, running,
                   history, proc>>

UserReturns ==
    /\ InCallback
    /\ Head(stack) \in {"user", "up"}
    /\ stack' = Tail(stack)
    /\ UNCHANGED <<connector, client, kernel, timers, dispatch, functors,
                   running, elsewhere, history, proc>>

-----------------------------------------------------------------------------
(* TcpClient: the end of a connection *)

RestartInOldState ==
    IF retry /\ wants
    THEN connect' = TRUE /\ StartInLoop(state, TRUE, InitRetryDelay)
    ELSE UNCHANGED <<state, connect, channel, writing, delay, kernel, fresh>>

\* Connector::restart, for a client that keeps its connection.
Restart ==
    IF retry /\ wants
    THEN connect' = TRUE /\ StartInLoop("kDisconnected", TRUE, InitRetryDelay)
    ELSE UNCHANGED <<state, connect, channel, writing, delay, kernel, fresh>>

\* TcpClient::removeConnection, when the callback about the end has returned.
RemoveConnection ==
    /\ InCallback
    /\ Head(stack) = "down"
    /\ stack' = Tail(stack)
    /\ connection' = None
    /\ functors' = Append(functors, <<"connectDestroyed", connection>>)
    /\ Restart
    /\ UNCHANGED <<uses, retry, wants, up, alive, due, collected, dispatch, running,
                   elsewhere, history, proc>>

\* An event of the connection, in a later iteration than the one that made it,
\* at the end of which resetChannel ran.
ConnectionCloses ==
    /\ Idle("batch")
    /\ up /\ channel = None
    /\ up' = FALSE
    /\ stack' = <<"down">>
    /\ UNCHANGED <<connector, uses, retry, wants, connection, alive, kernel, timers,
                   dispatch, functors, running, elsewhere, history, proc>>

-----------------------------------------------------------------------------
(* The loop *)

\* What an answered attempt reports.
Reports(s) == IF answer[s] = "yes" THEN {"out"} ELSE {"err", "out"}

Answered == {s \in watched : answer[s] # "none"}

Poll ==
    /\ Idle("poll")
    /\ phase' = "batch"
    /\ due' = due + fresh /\ fresh' = 0
    /\ UNCHANGED collected
    /\ \/ /\ Answered = {}
          /\ UNCHANGED <<reported, revents>>
       \/ \E s \in Answered :
             /\ reported' = s
             /\ revents' = Reports(s)
    /\ UNCHANGED <<connector, client, kernel, stack, functors, running,
                   elsewhere, history, proc>>

\* A callback of the program for another channel or timer, or its functor.
OtherCallback ==
    /\ Idle("batch") \/ Idle("functors")
    /\ calls < MaxCalls
    /\ calls' = calls + 1
    /\ stack' = <<"user">>
    /\ UNCHANGED <<connector, client, kernel, timers, dispatch, functors,
                   running, elsewhere, asked, stray, proc>>

\* The delay of a retry started in this batch is over before the timerfd's
\* handleRead reads the clock: getExpired will return the timer in this batch.
DelayPasses ==
    /\ Idle("batch")
    /\ "late" \in uses
    /\ ~collected /\ fresh > 0
    /\ due' = due + fresh /\ fresh' = 0
    /\ UNCHANGED <<connector, client, kernel, collected, dispatch, stack, functors,
                   running, elsewhere, history, proc>>

\* handleRead runs the expired timers.  That of a retry is bound to the raw
\* Connector.
RetryFires ==
    /\ Idle("batch") /\ alive
    /\ due > 0
    /\ due' = due - 1
    /\ collected' = TRUE
    /\ StartInLoop(state, connect, delay)
    /\ UNCHANGED <<connect, client, dispatch, stack, functors, running,
                   elsewhere, history, proc>>

RetryDangles ==
    /\ Idle("batch") /\ ~alive
    /\ due > 0
    /\ Lost("dangling")

SwapFunctors ==
    /\ Idle("batch")
    /\ reported = None
    /\ phase' = "functors"
    /\ collected' = FALSE
    /\ running' = functors
    /\ functors' = <<>>
    /\ UNCHANGED <<connector, client, kernel, due, fresh, reported, revents, stack,
                   elsewhere, history, proc>>

Next1(name) ==
    /\ Idle("functors")
    /\ running # <<>> /\ Head(running)[1] = name
    /\ alive \/ name = "connectDestroyed"
    /\ running' = Tail(running)
    /\ UNCHANGED <<connect, client, due, collected, dispatch, stack, elsewhere,
                   calls, asked, proc>>

RunStartInLoop ==
    /\ Next1("startInLoop")
    /\ StartInLoop(state, connect, delay)
    /\ UNCHANGED <<functors, stray>>

\* stopInLoop with its channel.
StopInLoop ==
    IF state = "kConnecting"
    THEN /\ RemoveAndResetChannel
         /\ Close(channel)
         /\ state' = "kDisconnected"
    ELSE UNCHANGED <<state, channel, writing, watched, open, functors, stray>>

RunStopInLoop ==
    /\ Next1("stopInLoop")
    /\ state = "kConnecting" => channel # None
    /\ StopInLoop
    /\ UNCHANGED <<delay, answer, fresh>>

\* An attempt that failed after stop() has left kConnecting and no channel.
StopInLoopDerefsNull ==
    /\ Idle("functors") /\ alive
    /\ running # <<>> /\ Head(running)[1] = "stopInLoop"
    /\ state = "kConnecting" /\ channel = None
    /\ Lost("null")

\* It deletes the channel it finds.
RunResetChannel ==
    /\ Next1("resetChannel")
    /\ channel' = None
    /\ writing' = FALSE
    /\ UNCHANGED <<state, delay, kernel, fresh, functors, stray>>

\* connectDestroyed lets go of the TcpConnection, whose Socket is closed.
RunConnectDestroyed ==
    /\ Next1("connectDestroyed")
    /\ Close(Head(running)[2])
    /\ UNCHANGED <<state, channel, writing, delay, watched, answer, fresh,
                   functors>>

\* The connector's functors are bound to the raw pointer too.
FunctorDangles ==
    /\ Idle("functors") /\ ~alive
    /\ running # <<>> /\ Head(running)[1] # "connectDestroyed"
    /\ Lost("dangling")

NextIteration ==
    /\ Idle("functors")
    /\ running = <<>>
    /\ phase' = "poll"
    /\ UNCHANGED <<connector, client, kernel, timers, reported, revents, stack,
                   functors, running, elsewhere, history, proc>>

-----------------------------------------------------------------------------
(* The server *)

Answers(outcome) ==
    /\ Running
    /\ \E s \in open :
          /\ answer[s] = "none"
          /\ answer' = [answer EXCEPT ![s] = outcome]
    /\ UNCHANGED <<connector, client, watched, open, timers, dispatch, stack,
                   functors, running, elsewhere, history, proc>>

Accepts == Answers("yes")
Refuses == Answers("no")

-----------------------------------------------------------------------------

Calls ==
    \/ Connect \/ Disconnect \/ Stop \/ ForceClose \/ Destroy \/ DestroyAsserts
    \/ StartElsewhere \/ StopElsewhere

Loop ==
    \/ Poll \/ SwapFunctors \/ NextIteration \/ UserReturns \/ RemoveConnection
    \/ HandleError \/ HandleWrite \/ HandleEventReturns \/ HandleEventDangles
    \/ RunStartInLoop \/ RunStopInLoop \/ StopInLoopDerefsNull
    \/ RunResetChannel \/ RunConnectDestroyed \/ FunctorDangles

Next ==
    \/ Loop \/ Calls \/ QueueElsewhere \/ OtherCallback \/ ConnectionCloses
    \/ DelayPasses \/ RetryFires \/ RetryDangles \/ Accepts \/ Refuses

Spec == Init /\ [][Next]_vars

\* The loop goes on, callbacks return, and a timer that is due fires in some
\* iteration.  Attempts are answered, neither refused for ever nor failing at
\* once for ever.
FairSpec ==
    /\ Spec
    /\ WF_vars(Loop) /\ WF_vars(QueueElsewhere)
    /\ SF_vars(RetryFires) /\ SF_vars(RetryFires /\ state' = "kConnecting")
    /\ WF_vars(Accepts \/ Refuses) /\ SF_vars(Accepts)

-----------------------------------------------------------------------------
(* Properties *)

Functors ==
    {<<f>> : f \in {"startInLoop", "stopInLoop", "resetChannel"}}
        \cup {<<"connectDestroyed", s>> : s \in Sockets}

\* The types of the variables; the delay is one of those backoff reaches.
TypeOK ==
    /\ state \in States
    /\ uses \in Programs
    /\ {connect, writing, retry, wants, up, alive, collected, asked, stray}
          \subseteq BOOLEAN
    /\ {channel, connection, reported} \subseteq Sockets \cup {None}
    /\ delay \in InitRetryDelay .. MaxRetryDelay
    /\ {watched, open} \subseteq SUBSET Sockets
    /\ answer \in [Sockets -> {"none", "yes", "no"}]
    /\ {due, fresh, calls} \subseteq Nat
    /\ phase \in {"poll", "batch", "handling", "functors"}
    /\ revents \subseteq {"err", "out"}
    /\ stack \in Seq(Anywhere)
    /\ {functors, running} \subseteq Seq(Functors)
    /\ elsewhere \in {"none", "startInLoop", "stopInLoop"}
    /\ proc \in {"running", "assert", "null", "dangling"}

\* A program that connects once, from the loop, and closes what it has got in a
\* later iteration; it may disconnect at any time.  No batch of its loop takes as
\* long as a retry delay, half a second at least, by work or by a step of the clock.
Single == uses = {}

\* In such a program no Channel is deleted while its handleEvent is in progress
\* or due, nor while epoll holds its address, though every handler of it ends
\* the attempt: what epoll reports is always the channel of the attempt in
\* progress.  It is not in a program that is "late": a retry whose delay is over
\* within the batch begins before the resetChannel of the last attempt, which
\* then deletes the channel of the new one.
HandlerIsAlive ==
    Single =>
        /\ reported # None => reported = channel
        /\ watched = IF state = "kConnecting" THEN {channel} ELSE {}

BeingClosed ==
    {s \in Sockets : \E q \in {functors, running} :
        \E i \in DOMAIN q : q[i] = <<"connectDestroyed", s>>}

\* The socket of a live connection stays open, whatever the program does: no
\* stop() or late event of the attempt that made it closes it.  In a program
\* that connects once every open descriptor is that of the attempt in progress,
\* of the connection, or of one about to be destroyed: none leaks, and none is
\* closed twice, though a refused attempt runs handleError and then handleWrite.
SocketsOwned ==
    /\ up => connection \in open
    /\ Single =>
        /\ ~stray
        /\ open = (IF state = "kConnecting" THEN {channel} ELSE {})
                     \cup ({connection} \ {None}) \cup BeingClosed

\* Whatever the program does, a new connection never takes the place of one
\* the client still has, which would lose it and fail removeConnection's assertion.
OneConnection ==
    [][connection' \notin {connection, None} => connection = None]_vars

\* The assertion of ~Connector never fails.
NoAssertFailure == proc # "assert"

\* Such a program gets its connection, through any number of refused attempts,
\* and with retry gets it again and again.
KeepsTrying == Single /\ wants /\ (retry \/ asked) ~> up \/ ~wants

-----------------------------------------------------------------------------
(* The inductive invariant behind HandlerIsAlive, SocketsOwned and           *)
(* OneConnection                                                             *)

\* The functors in the order they will run.
Work == running \o functors

Waits(functor) == \E i \in DOMAIN Work : Work[i] = functor
Once(functor) ==
    \A i, j \in DOMAIN Work : Work[i] = functor /\ Work[j] = functor => i = j

Destroying(s) == Waits(<<"connectDestroyed", s>>)
Resetting == Waits(<<"resetChannel">>)
GoesDown(i) == stack[i] = "down"

BatchFits == phase # "functors" => running = <<>>

\* While the client has a connection its connector rests, and the callback
\* about the end of it is called once.
ConnectionFits ==
    /\ connection # None => state = "kConnected" /\ connection \in open
    /\ up => connection # None /\ \A i \in DOMAIN stack : ~GoesDown(i)
    /\ \A i \in DOMAIN stack : GoesDown(i) =>
          /\ connection # None
          /\ \A j \in DOMAIN stack : GoesDown(j) => i = j

\* A connection about to be destroyed has its descriptor to itself.
DestroyedFit ==
    \A s \in Sockets :
        /\ Once(<<"connectDestroyed", s>>)
        /\ Destroying(s) =>
              s \in open /\ s # connection /\ ~(state = "kConnecting" /\ s = channel)

\* A program that connects once has one attempt, one retry timer or one
\* connection, and the channel of an attempt is gone before the timer is due.
AttemptFits ==
    Single =>
        /\ proc = "running" /\ alive /\ elsewhere = "none"
        /\ \A i \in DOMAIN Work :
              Work[i][1] \in {"resetChannel", "connectDestroyed"}
        /\ connect => calls # 0
        /\ ~connect => state = "kDisconnected" /\ channel = None /\ due + fresh = 0
        /\ due + fresh # 0 => due + fresh = 1 /\ state = "kDisconnected"
        /\ due # 0 => channel = None
        /\ channel # None <=> state = "kConnecting" \/ Resetting
        /\ Resetting => state # "kConnecting" /\ phase # "poll"
        /\ Once(<<"resetChannel">>)
        /\ phase = "functors" => \A i \in DOMAIN functors : functors[i] # <<"resetChannel">>
        /\ reported # None => phase \in {"batch", "handling"}
        /\ \A i \in DOMAIN stack : GoesDown(i) => channel = None

ClientInvariant ==
    /\ TypeOK
    /\ BatchFits
    /\ ConnectionFits
    /\ DestroyedFit
    /\ AttemptFits
    /\ HandlerIsAlive
    /\ SocketsOwned

=============================================================================
