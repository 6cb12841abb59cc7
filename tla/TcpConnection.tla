--------------------------- MODULE TcpConnection ----------------------------
(***************************************************************************)
(* agora::net::TcpConnection on the thread of its loop: handlers, the user's *)
(* callbacks they invoke, which call back into the connection, and the       *)
(* functors by which TcpServer or TcpClient finishes it.                     *)
(*                                                                         *)
(* The thread's calls are a stack.  A "user" frame is a callback of the      *)
(* program in progress; the frames below it are the library functions that   *)
(* resume when it returns.  Byte number i is the i-th the program sent.      *)
(***************************************************************************)
EXTENDS Naturals, Sequences, Functions

CONSTANTS
    MaxBytes,        \* bound: bytes the program sends
    MaxMessages      \* bound: times the peer sends

ASSUME BoundsAssumption == MaxBytes \in Nat /\ MaxMessages \in Nat

VARIABLES
    state,           \* state_
    events,          \* channel_->events_
    registered,      \* whether epoll watches the descriptor
    outBuf,          \* outputBuffer_
    wire,            \* kernel: the bytes write() took
    shutW,           \* kernel: shutdown(SHUT_WR) was called
    inbox,           \* kernel: messages of the peer not read yet
    received,        \* kernel: messages of the peer so far
    fin,             \* kernel: the peer closed its side
    reset,           \* kernel: no reset, its error "pending" or "cleared"
    phase,           \* of the loop's iteration
    revents,         \* what poll reported of this channel and is not handled
    stack,           \* calls in progress, innermost first
    functors,        \* pendingFunctors_ of this connection
    running,         \* those of the batch being run
    owner,           \* whose connection it is
    listed,          \* connections_ or connection_ refers to it
    told,            \* removeConnectionInLoop is queued on the server's loop
    gone,            \* the owner has been destroyed
    kept,            \* the program keeps a TcpConnectionPtr of its own
    accepted,        \* history: bytes sent by the program
    ups, downs,      \* history: connectionCallback_ calls
    destroyed,       \* history: connectDestroyed is over
    proc             \* "running", or how the process was lost

kernel == <<wire, shutW, inbox, received, fin, reset>>
channel == <<events, registered>>
queues == <<functors, running>>
owning == <<owner, listed, told, gone, kept>>
history == <<accepted, ups, downs, destroyed>>
vars == <<state, channel, outBuf, kernel, phase, revents, stack, queues,
          owning, history, proc>>

States == {"kDisconnected", "kConnecting", "kConnected", "kDisconnecting"}
Frames == {"user", "closing", "wrote", "destroying"}
Open == state \in {"kConnected", "kDisconnecting"}

\* A connection accepted for another loop is established by a functor; on the
\* server's own loop, and by a client, it is in the callback that creates it.
Init ==
    /\ owner \in {"client", "server", "remoteServer"}
    /\ kept \in BOOLEAN
    /\ listed = (owner = "remoteServer")
    /\ functors = IF owner = "remoteServer" THEN <<"established">> ELSE <<>>
    /\ state = "kConnecting"
    /\ events = {} /\ registered = FALSE
    /\ outBuf = <<>> /\ wire = <<>>
    /\ shutW = FALSE /\ fin = FALSE /\ reset = "no"
    /\ inbox = 0 /\ received = 0
    /\ phase = "poll" /\ revents = {} /\ stack = <<>> /\ running = <<>>
    /\ told = FALSE /\ gone = FALSE
    /\ accepted = 0 /\ ups = 0 /\ downs = 0 /\ destroyed = FALSE
    /\ proc = "running"

Alive == proc = "running"
Top(frame) == Alive /\ stack # <<>> /\ Head(stack) = frame
Idle(ph) == Alive /\ stack = <<>> /\ phase = ph

\* Only the program's own pointer outlives connectDestroyed.
Freed == destroyed /\ ~kept

Lost(how) ==
    /\ proc' = how
    /\ UNCHANGED <<state, channel, outBuf, kernel, phase, revents, stack,
                   queues, owning, history>>

-----------------------------------------------------------------------------
(* The channel, as EPollPoller has it: an update adds a channel that is not  *)
(* watched, even for no event, and deletes a watched one that wants none.    *)

Update(ev) ==
    /\ events' = ev
    /\ registered' = (~registered \/ ev # {})

Writing == "write" \in events

\* write() to a socket the peer has reset: the pending error once, then EPIPE
\* and its signal, which nothing in the repository ignores.
Broken == reset = "cleared" \/ (reset = "pending" /\ fin)

-----------------------------------------------------------------------------
(* Calls of the program, from a callback *)

Bytes(n) == [i \in 1 .. n |-> accepted + i]

WriteAll(d) ==
    /\ reset = "no"
    /\ wire' = wire \o d
    /\ stack' = <<"user">> \o stack              \* writeCompleteCallback_
    /\ UNCHANGED <<reset, outBuf, channel>>

WritePart(d) ==
    /\ reset = "no"
    /\ \E k \in 0 .. Len(d) - 1 :                \* none of it: EAGAIN
          /\ wire' = wire \o SubSeq(d, 1, k)
          /\ outBuf' = outBuf \o SubSeq(d, k + 1, Len(d))
    /\ Update(events \cup {"write"})
    /\ UNCHANGED <<reset, stack>>

WriteFails(d) ==
    /\ reset = "pending"
    /\ reset' = "cleared"
    /\ outBuf' = outBuf \o d
    /\ Update(events \cup {"write"})
    /\ UNCHANGED <<wire, stack>>

Postpone(d) ==
    /\ outBuf' = outBuf \o d
    /\ UNCHANGED <<wire, reset, channel, stack>>

SendPastBuffer(d) == WriteAll(d) \/ WritePart(d) \/ WriteFails(d)

SendInLoop(d) ==
    IF ~Writing /\ outBuf = <<>>
    THEN WriteAll(d) \/ WritePart(d) \/ WriteFails(d)
    ELSE Postpone(d)

Send(n) ==
    /\ Top("user")
    /\ state = "kConnected"
    /\ accepted + n <= MaxBytes
    /\ ~(Broken /\ ~Writing /\ outBuf = <<>>)
    /\ SendInLoop(Bytes(n))
    /\ accepted' = accepted + n
    /\ UNCHANGED <<state, shutW, inbox, received, fin, phase, revents, queues,
                   owning, ups, downs, destroyed, proc>>

SendRaisesSigpipe ==
    /\ Top("user")
    /\ state = "kConnected"
    /\ accepted < MaxBytes
    /\ Broken /\ ~Writing /\ outBuf = <<>>
    /\ Lost("sigpipe")

\* It fails on a reset socket, which is only logged.
ShutdownWrite == shutW' = (shutW \/ reset = "no")

ShutdownInLoop == IF Writing THEN UNCHANGED shutW ELSE ShutdownWrite

Shutdown ==
    /\ Top("user")
    /\ state = "kConnected"
    /\ state' = "kDisconnecting"
    /\ ShutdownInLoop
    /\ UNCHANGED <<channel, outBuf, wire, inbox, received, fin, reset, phase,
                   revents, stack, queues, owning, history, proc>>

\* handleClose past its assertion, up to connectionCallback_.
HandleClose ==
    /\ state' = "kDisconnected"
    /\ Update({})
    /\ downs' = downs + 1
    /\ stack' = <<"user", "closing">> \o stack
    /\ UNCHANGED <<outBuf, wire, shutW, inbox, received, fin, phase,
                   queues, owning, accepted, ups, destroyed, proc>>

ForceCloseAgain ==
    /\ Top("user")
    /\ HandleClose
    /\ UNCHANGED <<reset, revents>>

ForceClose ==
    /\ Top("user")
    /\ Open
    /\ HandleClose
    /\ UNCHANGED <<reset, revents>>

UserReturns ==
    /\ Top("user")
    /\ stack' = Tail(stack)
    /\ UNCHANGED <<state, channel, outBuf, kernel, phase, revents, queues,
                   owning, history, proc>>

-----------------------------------------------------------------------------
(* The rest of a library function, once the callback it made has returned *)

ForgetsToQueue ==
    /\ listed' = FALSE
    /\ UNCHANGED <<functors, told>>

\* TcpClient::removeConnection and, on the server's own loop,
\* TcpServer::removeConnectionInLoop.
RemoveConnection ==
    /\ listed' = FALSE
    /\ functors' = Append(functors, "destroyed")
    /\ UNCHANGED told

\* handleClose ends with closeCallback_, which ~TcpClient has emptied and
\* which for a TcpServer is bound to the raw pointer.
CloseCallback ==
    /\ Top("closing")
    /\ \/ ~gone \/ owner = "client"
    /\ stack' = Tail(stack)
    /\ CASE gone -> UNCHANGED <<listed, functors, told>>
         [] ~gone /\ owner # "remoteServer" -> RemoveConnection
         [] ~gone /\ owner = "remoteServer" ->
               told' = TRUE /\ UNCHANGED <<listed, functors>>
    /\ UNCHANGED <<state, channel, outBuf, kernel, phase, revents, running,
                   owner, gone, kept, history, proc>>

CloseCallbackDangles ==
    /\ Top("closing")
    /\ gone /\ owner # "client"
    /\ Lost("dangling")

AfterWriteEnds ==
    /\ Top("wrote")
    /\ ~Freed
    /\ stack' = Tail(stack)
    /\ UNCHANGED shutW
    /\ UNCHANGED <<state, channel, outBuf, wire, inbox, received, fin, reset,
                   phase, revents, queues, owning, history, proc>>

\* handleWrite, after writeCompleteCallback_.
AfterWrite ==
    /\ Top("wrote")
    /\ ~Freed
    /\ stack' = Tail(stack)
    /\ IF state = "kDisconnecting" THEN ShutdownInLoop ELSE UNCHANGED shutW
    /\ UNCHANGED <<state, channel, outBuf, wire, inbox, received, fin, reset,
                   phase, revents, queues, owning, history, proc>>

\* Nothing holds the connection for handleWrite and handleEvent, which
\* ~TcpServer may have destroyed in one of its callbacks.
UsedAfterFree ==
    /\ Freed
    /\ Top("wrote") \/ Idle("ours")
    /\ Lost("dangling")

\* connectDestroyed, which removes the channel last ...
RemoveChannel ==
    /\ registered' = FALSE
    /\ destroyed' = TRUE
    /\ UNCHANGED <<state, events, downs>>

\* ... and tells the program first when the connection was still up.
ConnectDestroyed ==
    \/ /\ state = "kConnected"
       /\ state' = "kDisconnected"
       /\ Update({})
       /\ downs' = downs + 1
       /\ stack' = <<"user", "destroying">> \o stack
       /\ UNCHANGED destroyed
    \/ /\ state # "kConnected"
       /\ RemoveChannel
       /\ UNCHANGED stack

AfterDown ==
    /\ Top("destroying")
    /\ stack' = Tail(stack)
    /\ RemoveChannel
    /\ UNCHANGED <<outBuf, kernel, phase, revents, queues, owning, accepted,
                   ups, proc>>

-----------------------------------------------------------------------------
(* The owner *)

\* ~TcpServer on the connection's loop destroys it at once; ~TcpClient, and
\* ~TcpServer on another loop, queue that.
OwnerDestroyed ==
    /\ Alive
    /\ ~gone
    /\ owner = "remoteServer" \/ (Top("user") /\ state # "kConnecting")
    /\ gone' = TRUE
    /\ listed' = FALSE
    /\ CASE ~listed ->
              UNCHANGED <<functors, state, channel, downs, stack, destroyed>>
         [] listed /\ owner = "server" -> ConnectDestroyed /\ UNCHANGED functors
         [] listed /\ owner # "server" ->
              /\ functors' = Append(functors, "destroyed")
              /\ UNCHANGED <<state, channel, downs, stack, destroyed>>
    /\ UNCHANGED <<outBuf, kernel, phase, revents, running, owner, told, kept,
                   accepted, ups, proc>>

\* TcpServer::removeConnectionInLoop on the server's loop, by a functor that
\* is bound to the raw pointer too.
OwnerRemoves ==
    /\ Alive
    /\ told /\ ~gone
    /\ told' = FALSE
    /\ listed' = FALSE
    /\ functors' = Append(functors, "destroyed")
    /\ UNCHANGED <<state, channel, outBuf, kernel, phase, revents, stack,
                   running, owner, gone, kept, history, proc>>

OwnerDangles ==
    /\ Alive
    /\ told /\ gone
    /\ Lost("dangling")

-----------------------------------------------------------------------------
(* The loop *)

Hangup == reset # "no" \/ (shutW /\ fin)
Readable == inbox > 0 \/ fin \/ reset # "no"

\* What epoll_wait may report: room for writing comes when the peer makes it,
\* errors and hangups are reported whatever the mask.  A hangup with EPOLLIN
\* is only handled as the latter and is left out.
Reports(ev) ==
    IF ~registered THEN ev = {}
    ELSE /\ "in" \in ev <=> "read" \in events /\ Readable
         /\ "hup" \in ev <=> "read" \notin events /\ Hangup
         /\ "err" \in ev <=> reset = "pending"
         /\ "out" \in ev => Writing
         /\ Writing /\ reset # "no" => "out" \in ev

Poll ==
    /\ Idle("poll")
    /\ revents' \in SUBSET {"hup", "err", "in", "out"}
    /\ Reports(revents')
    /\ phase' = "before"
    /\ UNCHANGED <<state, channel, outBuf, kernel, stack, queues, owning,
                   history, proc>>

PollWritable == Poll /\ "out" \in revents'

AfterPhase(ph) ==
    IF ph = "after" THEN "swap" ELSE IF revents # {} THEN "ours" ELSE "after"

\* Callbacks of the batch for other channels: none, or some that reach this
\* connection, before its own are called or after.
OtherCallbacks ==
    /\ Idle("before") \/ Idle("after")
    /\ phase' = AfterPhase(phase)
    /\ stack' \in {<<>>} \cup (IF state = "kConnecting" \/ Freed
                               THEN {} ELSE {<<"user">>})
    /\ UNCHANGED <<state, channel, outBuf, kernel, revents, queues, owning,
                   history, proc>>

ConnectEstablished ==
    /\ state' = "kConnected"
    /\ Update(events \cup {"read"})
    /\ ups' = ups + 1
    /\ stack' = <<"user">>

\* The acceptor's or the connector's callback is one of those others.
NewConnection ==
    /\ Idle("before")
    /\ owner # "remoteServer" /\ state = "kConnecting"
    /\ phase' = AfterPhase(phase)
    /\ listed' = TRUE
    /\ ConnectEstablished
    /\ UNCHANGED <<outBuf, kernel, revents, queues, owner, told, gone, kept,
                   accepted, downs, destroyed, proc>>

-----------------------------------------------------------------------------
(* Channel::handleEvent: hangup, error, read, write *)

Handling(e, earlier) ==
    /\ Idle("ours")
    /\ ~Freed
    /\ e \in revents
    /\ revents \cap ({"hup"} \cup earlier) = {}
    /\ revents' = revents \ {e}

\* getSocketError clears the error.
HandleError ==
    /\ Handling("err", {})
    /\ reset' = IF reset = "pending" THEN "cleared" ELSE reset
    /\ UNCHANGED <<state, channel, outBuf, wire, shutW, inbox, received, fin,
                   phase, stack, queues, owning, history, proc>>

HandleReadData ==
    /\ Handling("in", {"err"})
    /\ inbox > 0
    /\ inbox' = 0
    /\ stack' = <<"user">>                       \* messageCallback_
    /\ UNCHANGED <<state, channel, outBuf, wire, shutW, received, fin, reset,
                   phase, queues, owning, history, proc>>

EndOfStream == inbox = 0 /\ (fin \/ reset = "cleared")

\* An error is never left for handleRead: handleError or a write took it.
HandleReadClose ==
    /\ Handling("in", {"err"})
    /\ EndOfStream
    /\ Open
    /\ HandleClose
    /\ UNCHANGED reset

\* handleClose asserts that the connection is open.  A hangup is reported
\* without EPOLLIN only of a channel that wants nothing, when it is not.
AssertionFails ==
    /\ Idle("ours")
    /\ ~Freed
    /\ ~Open
    /\ \/ "hup" \in revents
       \/ "in" \in revents /\ revents \cap {"hup", "err"} = {} /\ EndOfStream
    /\ Lost("assert")

DrainedStillWriting ==
    /\ UNCHANGED channel
    /\ stack' = <<"user", "wrote">>

Drained ==
    /\ Update(events \ {"write"})
    /\ stack' = <<"user", "wrote">>              \* writeCompleteCallback_

HandleWrite ==
    /\ Handling("out", {"err", "in"})
    /\ ~(Writing /\ Broken)
    /\ IF ~Writing
       THEN UNCHANGED <<wire, outBuf, channel, reset, stack>>
       ELSE \/ /\ reset = "pending"              \* the error is only logged
               /\ reset' = "cleared"
               /\ UNCHANGED <<wire, outBuf, channel, stack>>
            \/ /\ reset = "no"
               /\ \E n \in 1 .. Len(outBuf) :
                     /\ wire' = wire \o SubSeq(outBuf, 1, n)
                     /\ outBuf' = SubSeq(outBuf, n + 1, Len(outBuf))
               /\ IF outBuf' = <<>> THEN Drained ELSE UNCHANGED <<channel, stack>>
               /\ UNCHANGED reset
    /\ UNCHANGED <<state, shutW, inbox, received, fin, phase, queues, owning,
                   history, proc>>

HandleWriteRaisesSigpipe ==
    /\ Idle("ours")
    /\ ~Freed
    /\ revents = {"out"}
    /\ Writing /\ Broken
    /\ Lost("sigpipe")

HandleEventReturns ==
    /\ Idle("ours")
    /\ ~Freed
    /\ revents = {}
    /\ phase' = "after"
    /\ UNCHANGED <<state, channel, outBuf, kernel, revents, stack, queues,
                   owning, history, proc>>

-----------------------------------------------------------------------------
(* doPendingFunctors *)

SwapFunctors ==
    /\ Idle("swap")
    /\ phase' = "functors"
    /\ running' = functors
    /\ functors' = <<>>
    /\ UNCHANGED <<state, channel, outBuf, kernel, revents, stack, owning,
                   history, proc>>

RunEstablished ==
    /\ Idle("functors")
    /\ running # <<>> /\ Head(running) = "established"
    /\ running' = Tail(running)
    /\ ConnectEstablished
    /\ UNCHANGED <<outBuf, kernel, phase, revents, functors, owning, accepted,
                   downs, destroyed, proc>>

RunDestroyed ==
    /\ Idle("functors")
    /\ running # <<>> /\ Head(running) = "destroyed"
    /\ running' = Tail(running)
    /\ ConnectDestroyed
    /\ UNCHANGED <<outBuf, kernel, phase, revents, functors, owning, accepted,
                   ups, proc>>

NextIteration ==
    /\ Idle("functors")
    /\ running = <<>>
    /\ phase' = "poll"
    /\ UNCHANGED <<state, channel, outBuf, kernel, revents, stack, queues,
                   owning, history, proc>>

-----------------------------------------------------------------------------
(* The peer *)

PeerSends ==
    /\ Alive
    /\ reset = "no" /\ ~fin
    /\ received < MaxMessages
    /\ received' = received + 1
    /\ inbox' = inbox + 1
    /\ UNCHANGED <<state, channel, outBuf, wire, shutW, fin, reset, phase,
                   revents, stack, queues, owning, history, proc>>

PeerCloses ==
    /\ Alive
    /\ reset = "no" /\ ~fin
    /\ fin' = TRUE
    /\ UNCHANGED <<state, channel, outBuf, wire, shutW, inbox, received, reset,
                   phase, revents, stack, queues, owning, history, proc>>

PeerResets ==
    /\ Alive
    /\ reset = "no"
    /\ reset' = "pending"
    /\ UNCHANGED <<state, channel, outBuf, wire, shutW, inbox, received, fin,
                   phase, revents, stack, queues, owning, history, proc>>

-----------------------------------------------------------------------------

Program ==
    \/ \E n \in 1 .. 2 : Send(n)
    \/ SendRaisesSigpipe
    \/ Shutdown
    \/ ForceClose

LoopThread ==
    \/ UserReturns
    \/ CloseCallback \/ CloseCallbackDangles
    \/ AfterWrite \/ AfterDown \/ UsedAfterFree
    \/ Poll \/ OtherCallbacks \/ NewConnection
    \/ HandleError \/ HandleReadData \/ HandleReadClose
    \/ HandleWrite \/ HandleWriteRaisesSigpipe
    \/ AssertionFails \/ HandleEventReturns
    \/ SwapFunctors \/ RunEstablished \/ RunDestroyed \/ NextIteration

Others ==
    \/ OwnerDestroyed \/ OwnerRemoves \/ OwnerDangles
    \/ PeerSends \/ PeerCloses \/ PeerResets

Next == Program \/ LoopThread \/ Others

Spec == Init /\ [][Next]_vars

\* The loop's thread keeps running and callbacks return, the server's loop runs
\* its functors, and while the peer lives it keeps making room for writes.
Fairness ==
    /\ WF_vars(LoopThread)
    /\ WF_vars(OwnerRemoves \/ OwnerDangles)
    /\ SF_vars(PollWritable)

FairSpec == Spec /\ Fairness

-----------------------------------------------------------------------------
(* Properties *)

\* The shape of the state.
TypeOK ==
    /\ state \in States
    /\ events \subseteq {"read", "write"}
    /\ registered \in BOOLEAN
    /\ outBuf \in Seq(1 .. MaxBytes) /\ wire \in Seq(1 .. MaxBytes)
    /\ shutW \in BOOLEAN /\ fin \in BOOLEAN
    /\ inbox \in 0 .. MaxMessages /\ received \in 0 .. MaxMessages
    /\ reset \in {"no", "pending", "cleared"}
    /\ phase \in {"poll", "before", "ours", "after", "swap", "functors"}
    /\ revents \subseteq {"hup", "err", "in", "out"}
    /\ stack \in Seq(Frames)
    /\ functors \in Seq({"established", "destroyed"})
    /\ running \in Seq({"established", "destroyed"})
    /\ owner \in {"client", "server", "remoteServer"}
    /\ listed \in BOOLEAN /\ told \in BOOLEAN /\ gone \in BOOLEAN
    /\ kept \in BOOLEAN
    /\ accepted \in 0 .. MaxBytes
    /\ ups \in 0 .. 1 /\ downs \in 0 .. 1
    /\ destroyed \in BOOLEAN
    /\ proc \in {"running", "assert", "sigpipe", "dangling"}

\* While the connection is open, epoll is asked for writability exactly when
\* bytes wait in outputBuffer_, whatever mix of immediate, partial and failed
\* writes and of sends from inside callbacks led there: bytes are never
\* stranded and the loop never spins on a writable socket.  As long as its
\* owner lives, it is watched at all exactly while it is open: closing it from
\* any callback, of its own or of another channel, leaves nothing behind and no
\* later handler brings it back.
InterestExact ==
    /\ Open => (Writing <=> outBuf # <<>>)
    /\ ~gone => (registered <=> Open)

\* No handler is entered in a state its assertions exclude.
NoAssertFailure == proc # "assert"

Contract ==
    INSTANCE Connection WITH
        life <- CASE state = "kConnecting" -> "new"
                  [] state = "kConnected" -> "up"
                  [] state = "kDisconnecting" -> "closing"
                  [] state = "kDisconnected" -> "down",
        notified <- [up |-> ups, down |-> downs],
        sent <- [i \in 1 .. accepted |-> i],
        delivered <- wire,
        finished <- shutW

\* The user is told once that the connection is up and at most once that it is
\* down, the bytes sent reach the socket once each and in order whatever part
\* of them each write takes, none after the end of the stream.
ImplementsConnection == Contract!Spec

\* shutdown() with bytes still to send ends the stream once they are written.
GracefulShutdown ==
    state = "kDisconnecting"
        ~> shutW \/ ~Open \/ reset # "no" \/ destroyed \/ ~Alive

\* A connection whose peer has closed or reset it, or that has gone down for any
\* reason, is destroyed, on its own loop, by the owner that was told or that is
\* itself being destroyed.
OverIsDestroyed ==
    (Open /\ (fin \/ reset # "no")) \/ downs = 1 ~> destroyed \/ ~Alive

-----------------------------------------------------------------------------
(* The inductive invariant behind InterestExact and ImplementsConnection *)

\* outputBuffer_ continues where the wire stops; both together are what the
\* program has sent.
StreamWhole ==
    /\ Len(wire) + Len(outBuf) = accepted
    /\ \A i \in 1 .. Len(wire) : wire[i] = i
    /\ \A i \in 1 .. Len(outBuf) : outBuf[i] = Len(wire) + i

\* An open connection always wants to read, so taking away the interest in
\* writing never removes it from epoll, and one that is not open wants nothing.
ReadsWhileOpen == IF Open THEN "read" \in events ELSE events = {}

\* Each callback of the connection was made with the change of state it is about.
ToldWithState ==
    /\ ups = IF state = "kConnecting" THEN 0 ELSE 1
    /\ downs = IF state = "kDisconnected" THEN 1 ELSE 0
    /\ shutW => state \in {"kDisconnecting", "kDisconnected"}
    /\ state = "kConnecting" => accepted = 0

\* What finishes a connection is under way only for one that is down, unless
\* its owner has been destroyed.
EndsWhenDown ==
    /\ told \/ "closing" \in Range(stack) => state = "kDisconnected"
    /\ "destroying" \in Range(stack) => gone /\ state = "kDisconnected"
    /\ "destroyed" \in Range(functors) \cup Range(running)
          => gone \/ state = "kDisconnected"

\* The functor that establishes a connection is the first and runs once.
EstablishedOnce ==
    /\ "established" \in Range(functors) \cup Range(running)
          => state = "kConnecting" /\ owner = "remoteServer"
    /\ "established" \notin Range(functors) \cap Range(running)
    /\ \A q \in {functors, running} :
          \A i \in DOMAIN q : q[i] = "established" => i = 1

ConnectionInvariant ==
    /\ TypeOK
    /\ inbox <= received
    /\ StreamWhole
    /\ ReadsWhileOpen
    /\ ToldWithState
    /\ EndsWhenDown
    /\ EstablishedOnce
    /\ InterestExact

=============================================================================
