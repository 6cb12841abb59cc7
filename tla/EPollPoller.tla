---------------------------- MODULE EPollPoller -----------------------------
(***************************************************************************)
(* agora::net::Channel and EPollPoller: what the channels of one loop want   *)
(* to be told of, what epoll was asked to watch, and the raw Channel*        *)
(* pointers that epoll and the batch of active channels hold.                *)
(*                                                                         *)
(* Channels belong to connections, to an Acceptor, or to a Connector, which  *)
(* gives its descriptor to a connection and drops its channel later.  Any    *)
(* descriptor that is closed may be used again at once.                      *)
(***************************************************************************)
EXTENDS Naturals

CONSTANTS
    Channels,        \* Channel objects, each created at most once
    Fds,             \* file descriptors
    Connectors,      \* Connectors of the loop
    None,            \* no channel
    Programs,        \* programs: what one does besides the usual
    MaxResets        \* bound: resetChannel functors of a Connector

ASSUME NoneAssumption == None \notin Channels
ASSUME ProgramsAssumption == Programs \subseteq SUBSET {"destroy", "again", "stop"}

Events == {"read", "write"}
Indices == {"kNew", "kAdded", "kDeleted"}
States == {"kDisconnected", "kConnecting", "kConnected"}

VARIABLES
    uses,            \* the program: "destroy", it destroys a TcpServer in a
                     \* callback; "again", a Connector starts again before the
                     \* resetChannel of its last attempt has run; "stop", it is
                     \* stopped during an attempt
    fd,              \* fd_ of each channel
    life,            \* whether the object is unborn, live or dead
    events,          \* events_ of each channel
    index,           \* index_ of each channel
    channels,        \* channels_ of the poller
    open,            \* kernel: the descriptors in use
    interest,        \* epoll's interest list: the data.ptr of each descriptor
    mask,            \* and the events it was asked to watch
    state,           \* state_ of each Connector
    channel,         \* its channel_
    resets,          \* its resetChannel functors that have not run
    releasing,       \* channels whose connectDestroyed is queued
    phase,           \* of the loop: "poll", "dispatch" or "functors"
    batch            \* activeChannels_, less those whose handleEvent is over

poller == <<events, index, channels, interest, mask>>
connector == <<state, channel, resets>>
loop == <<phase, batch>>
pollerVars == <<uses, fd, life, poller, open, connector, releasing, loop>>

PollerInit ==
    /\ uses \in Programs
    /\ fd \in [Channels -> Fds]
    /\ life = [c \in Channels |-> "unborn"]
    /\ events = [c \in Channels |-> {}]
    /\ index = [c \in Channels |-> "kNew"]
    /\ channels = [f \in Fds |-> None]
    /\ open = {}
    /\ interest = [f \in Fds |-> None]
    /\ mask = [f \in Fds |-> {}]
    /\ state = [k \in Connectors |-> "kDisconnected"]
    /\ channel = [k \in Connectors |-> None]
    /\ resets = [k \in Connectors |-> 0]
    /\ releasing = {}
    /\ phase = "functors"
    /\ batch = {}

\* Channels are used on the loop's thread only: outside loop(), in callbacks
\* and in functors, never while the loop is in epoll_wait.
InHandler == phase \in {"dispatch", "functors"}

Unused(c) == life[c] = "unborn" /\ fd[c] \notin open

\* A channel of a connection or of an Acceptor.
Usable(c) == life[c] = "live" /\ \A k \in Connectors : channel[k] # c

-----------------------------------------------------------------------------
(* EPollPoller::update: epoll_ctl, whose errors are only logged.  On a       *)
(* descriptor that is closed each of them fails.                             *)

CtlAdd(c, ev) ==
    IF fd[c] \in open /\ interest[fd[c]] = None
    THEN /\ interest' = [interest EXCEPT ![fd[c]] = c]
         /\ mask' = [mask EXCEPT ![fd[c]] = ev]
    ELSE UNCHANGED <<interest, mask>>              \* EEXIST or EBADF

CtlMod(c, ev) ==
    IF interest[fd[c]] # None
    THEN /\ interest' = [interest EXCEPT ![fd[c]] = c]
         /\ mask' = [mask EXCEPT ![fd[c]] = ev]
    ELSE UNCHANGED <<interest, mask>>              \* ENOENT or EBADF

\* Whoever's registration it is, and whoever closes the descriptor.
Forget(f) ==
    /\ interest' = [interest EXCEPT ![f] = None]
    /\ mask' = [mask EXCEPT ![f] = {}]

CtlDel(c) == Forget(fd[c])

Close(f) == open' = open \ {f}

-----------------------------------------------------------------------------
(* Channel::update and EPollPoller::updateChannel *)

\* A channel epoll does not watch is added, whatever it asks for: with no
\* event at all it is then watched for errors and hangups.
Register(c, ev) ==
    /\ index[c] \in {"kNew", "kDeleted"}
    /\ channels' = IF index[c] = "kNew"
                   THEN [channels EXCEPT ![fd[c]] = c]
                   ELSE channels
    /\ index' = [index EXCEPT ![c] = "kAdded"]
    /\ CtlAdd(c, ev)

UnwatchOnly(c, ev) ==
    /\ index[c] = "kAdded"
    /\ ev = {}
    /\ CtlDel(c)
    /\ UNCHANGED <<index, channels>>

Unwatch(c, ev) ==
    /\ index[c] = "kAdded"
    /\ ev = {}
    /\ CtlDel(c)
    /\ index' = [index EXCEPT ![c] = "kDeleted"]
    /\ UNCHANGED channels

Modify(c, ev) ==
    /\ index[c] = "kAdded"
    /\ ev # {}
    /\ CtlMod(c, ev)
    /\ UNCHANGED <<index, channels>>

Update(c, ev) ==
    /\ events' = [events EXCEPT ![c] = ev]
    /\ Register(c, ev) \/ Unwatch(c, ev) \/ Modify(c, ev)

\* enableReading, disableReading, enableWriting, disableWriting, disableAll:
\* each sets events_ and updates.
SetEvents(c, ev) ==
    /\ InHandler
    /\ Usable(c)
    /\ \/ \E e \in Events : ev \in {events[c] \cup {e}, events[c] \ {e}}
       \/ ev = {}
    /\ Update(c, ev)
    /\ UNCHANGED <<uses, fd, life, open, connector, releasing, loop>>

-----------------------------------------------------------------------------
(* Connections and the Acceptor *)

\* A descriptor was accepted or made, and a Channel for it.
Create(c) ==
    /\ InHandler
    /\ Unused(c)
    /\ life' = [life EXCEPT ![c] = "live"]
    /\ open' = open \cup {fd[c]}
    /\ UNCHANGED <<uses, fd, poller, connector, releasing, loop>>

\* TcpServer::removeConnectionInLoop and TcpClient::removeConnection queue
\* connectDestroyed, which will hold the last reference to the connection.
QueueDestroy(c) ==
    /\ InHandler
    /\ Usable(c)
    /\ releasing' = releasing \cup {c}
    /\ UNCHANGED <<uses, fd, life, poller, open, connector, loop>>

\* Where the program may destroy a TcpServer: outside the dispatch, unless it
\* does so in a callback.
MayDestroy == phase = "functors" \/ (phase = "dispatch" /\ "destroy" \in uses)

\* connectDestroyed, from its functor or at once from ~TcpServer.  Whether
\* disableAll deletes the registration or adds one, removeChannel leaves none;
\* with the connection go the channel and the socket.
ConnectDestroyed(c) ==
    /\ IF c \in releasing THEN phase = "functors" ELSE MayDestroy
    /\ Usable(c)
    /\ events' = [events EXCEPT ![c] = {}]
    /\ Forget(fd[c])
    /\ channels' = [channels EXCEPT ![fd[c]] = None]
    /\ index' = [index EXCEPT ![c] = "kNew"]
    /\ Close(fd[c])
    /\ life' = [life EXCEPT ![c] = "dead"]
    /\ releasing' = releasing \ {c}
    /\ UNCHANGED <<uses, fd, connector, loop>>

\* ~Acceptor destroys its channel and closes the socket without removeChannel:
\* the kernel drops the descriptor, channels_ keeps the pointer.
DestroyAcceptor(c) ==
    /\ MayDestroy
    /\ Usable(c) /\ c \notin releasing
    /\ Close(fd[c])
    /\ Forget(fd[c])
    /\ life' = [life EXCEPT ![c] = "dead"]
    /\ UNCHANGED <<uses, fd, events, index, channels, connector, releasing, loop>>

-----------------------------------------------------------------------------
(* A Connector *)

\* startInLoop, or restart when the connection the last attempt made is down:
\* that one has disabled all its events.
MayConnect(k) ==
    /\ InHandler
    /\ state[k] # "kConnecting"
    /\ \A c \in Channels :
          state[k] = "kConnected" /\ channel[k] # None /\ Usable(c)
              /\ fd[c] = fd[channel[k]] => events[c] = {}

\* Connector::connect and connecting, whose enableWriting adds the channel of
\* a new descriptor.
Connect(k, c) ==
    /\ MayConnect(k)
    /\ channel[k] = None
    /\ Unused(c)
    /\ open' = open \cup {fd[c]}
    /\ life' = [life EXCEPT ![c] = "live"]
    /\ state' = [state EXCEPT ![k] = "kConnecting"]
    /\ channel' = [channel EXCEPT ![k] = c]
    /\ events' = [events EXCEPT ![c] = {"write"}]
    /\ index' = [index EXCEPT ![c] = "kAdded"]
    /\ channels' = [channels EXCEPT ![fd[c]] = c]
    /\ interest' = [interest EXCEPT ![fd[c]] = c]
    /\ mask' = [mask EXCEPT ![fd[c]] = {"write"}]
    /\ UNCHANGED <<uses, fd, resets, releasing, loop>>

\* A channel that is left over was removed before, and its descriptor closed or
\* given away.  disableAll adds the channel again, or fails to, and
\* removeChannel then deletes whatever epoll watches for the descriptor by now.
Leftover(k) ==
    /\ MayConnect(k)
    /\ channel[k] # None
    /\ "again" \in uses

ConnectAgain(k, c) ==
    LET left == channel[k]
    IN  /\ Leftover(k)
        /\ Unused(c)
        /\ open' = open \cup {fd[c]}
        /\ life' = [life EXCEPT ![left] = "dead", ![c] = "live"]
        /\ events' = [events EXCEPT ![left] = {}, ![c] = {"write"}]
        /\ index' = [index EXCEPT ![left] = "kNew", ![c] = "kAdded"]
        /\ channels' = [channels EXCEPT ![fd[left]] = None, ![fd[c]] = c]
        /\ interest' = [interest EXCEPT ![fd[left]] = None, ![fd[c]] = c]
        /\ mask' = [mask EXCEPT ![fd[left]] = {}, ![fd[c]] = {"write"}]
        /\ state' = [state EXCEPT ![k] = "kConnecting"]
        /\ channel' = [channel EXCEPT ![k] = c]
        /\ UNCHANGED <<uses, fd, resets, releasing, loop>>

\* removeAndResetChannel, and the same of a leftover channel when connect(2)
\* fails at once: epoll and channels_ are rid of it.
Removed(c) ==
    /\ events' = [events EXCEPT ![c] = {}]
    /\ index' = [index EXCEPT ![c] = "kNew"]
    /\ channels' = [channels EXCEPT ![fd[c]] = None]
    /\ Forget(fd[c])

ConnectFailsAgain(k) ==
    /\ Leftover(k)
    /\ Removed(channel[k])
    /\ life' = [life EXCEPT ![channel[k]] = "dead"]
    /\ state' = [state EXCEPT ![k] = "kDisconnected"]
    /\ channel' = [channel EXCEPT ![k] = None]
    /\ UNCHANGED <<uses, fd, open, resets, releasing, loop>>

ResetAtOnce(k) ==
    /\ channel' = [channel EXCEPT ![k] = None]
    /\ life' = [life EXCEPT ![channel[k]] = "dead"]
    /\ UNCHANGED resets

\* The object is kept until a functor resets channel_.
DeferReset(k) ==
    /\ resets[k] < MaxResets
    /\ resets' = [resets EXCEPT ![k] = @ + 1]
    /\ UNCHANGED <<channel, life>>

\* handleError, handleWrite with an error, and stopInLoop.  After a stop() the
\* attempt may stay in kConnecting, to be ended once more, or end in kConnected.
AttemptEnds(k) ==
    /\ InHandler
    /\ state[k] = "kConnecting" /\ channel[k] # None
    /\ Removed(channel[k])
    /\ DeferReset(k)
    /\ Close(fd[channel[k]])
    /\ \E st \in {"kDisconnected"} \cup (IF "stop" \in uses THEN States ELSE {}) :
          state' = [state EXCEPT ![k] = st]
    /\ UNCHANGED <<uses, fd, releasing, loop>>

\* handleWrite of an attempt that succeeds, up to enableReading of the new
\* connection, which has a channel of its own for the descriptor.
Connected(k, c) ==
    LET old == channel[k]
    IN  /\ phase = "dispatch"
        /\ state[k] = "kConnecting" /\ old # None
        /\ life[c] = "unborn" /\ fd[c] = fd[old] /\ fd[old] \in open
        /\ state' = [state EXCEPT ![k] = "kConnected"]
        /\ resets[k] < MaxResets
        /\ resets' = [resets EXCEPT ![k] = @ + 1]
        /\ life' = [life EXCEPT ![c] = "live"]
        /\ events' = [events EXCEPT ![old] = {}, ![c] = {"read"}]
        /\ index' = [index EXCEPT ![old] = "kNew", ![c] = "kAdded"]
        /\ channels' = [channels EXCEPT ![fd[c]] = c]
        /\ interest' = [interest EXCEPT ![fd[c]] = c]
        /\ mask' = [mask EXCEPT ![fd[c]] = {"read"}]
        /\ UNCHANGED <<uses, fd, open, channel, releasing, loop>>

\* Connector::resetChannel deletes the channel it finds.
ResetChannel(k) ==
    /\ phase = "functors"
    /\ resets[k] > 0
    /\ resets' = [resets EXCEPT ![k] = @ - 1]
    /\ channel' = [channel EXCEPT ![k] = None]
    /\ life' = [c \in Channels |-> IF c = channel[k] THEN "dead" ELSE life[c]]
    /\ UNCHANGED <<uses, fd, poller, open, state, releasing, loop>>

-----------------------------------------------------------------------------
(* The loop *)

PollUnchecked ==
    /\ phase = "poll"
    /\ batch' \in SUBSET {interest[f] : f \in Fds}
    /\ phase' = "dispatch"
    /\ UNCHANGED <<uses, fd, life, poller, open, connector, releasing>>

\* epoll_wait reports watched descriptors (an error or a hangup even with an
\* empty mask), and fillActiveChannels turns their data.ptr into channels.
Poll ==
    /\ phase = "poll"
    /\ batch' \in SUBSET ({interest[f] : f \in Fds} \ {None})
    /\ phase' = "dispatch"
    /\ UNCHANGED <<uses, fd, life, poller, open, connector, releasing>>

\* handleEvent of a channel has returned.
Dispatched(c) ==
    /\ phase = "dispatch"
    /\ c \in batch
    /\ batch' = batch \ {c}
    /\ UNCHANGED <<uses, fd, life, poller, open, connector, releasing, phase>>

DoPendingFunctors ==
    /\ phase = "dispatch"
    /\ batch = {}
    /\ phase' = "functors"
    /\ UNCHANGED <<uses, fd, life, poller, open, connector, releasing, batch>>

NextIteration ==
    /\ phase = "functors"
    /\ phase' = "poll"
    /\ UNCHANGED <<uses, fd, life, poller, open, connector, releasing, batch>>

PollerNext ==
    \/ \E c \in Channels :
          \/ Create(c)
          \/ \E ev \in SUBSET Events : SetEvents(c, ev)
          \/ QueueDestroy(c)
          \/ ConnectDestroyed(c)
          \/ DestroyAcceptor(c)
          \/ Dispatched(c)
    \/ \E k \in Connectors :
          \/ \E c \in Channels : Connect(k, c) \/ ConnectAgain(k, c) \/ Connected(k, c)
          \/ ConnectFailsAgain(k)
          \/ AttemptEnds(k)
          \/ ResetChannel(k)
    \/ Poll
    \/ DoPendingFunctors
    \/ NextIteration

PollerSpec == PollerInit /\ [][PollerNext]_pollerVars

-----------------------------------------------------------------------------
(* Properties *)

\* The shape of the state.
PollerTypeOK ==
    /\ uses \in Programs
    /\ fd \in [Channels -> Fds]
    /\ life \in [Channels -> {"unborn", "live", "dead"}]
    /\ events \in [Channels -> SUBSET Events]
    /\ index \in [Channels -> Indices]
    /\ channels \in [Fds -> Channels \cup {None}]
    /\ open \subseteq Fds
    /\ interest \in [Fds -> Channels \cup {None}]
    /\ mask \in [Fds -> SUBSET Events]
    /\ state \in [Connectors -> States]
    /\ channel \in [Connectors -> Channels \cup {None}]
    /\ resets \in [Connectors -> Nat]
    /\ releasing \subseteq Channels
    /\ phase \in {"poll", "dispatch", "functors"}
    /\ batch \subseteq Channels

\* Its Connectors wait for resetChannel before they start again, and no stop()
\* leaves an attempt half ended.
Patient == uses \cap {"again", "stop"} = {}

\* A channel that has its descriptor to itself: not one that has been removed
\* and waits for resetChannel.
InUse(c) ==
    life[c] = "live" /\ \A k \in Connectors : channel[k] = c => resets[k] = 0

\* Whatever the program does, epoll reports a descriptor only to a channel for
\* it that has not been told of a removal, and only what that channel asked for
\* last: a descriptor that is reused answers to no channel of an earlier use.
NothingUnasked ==
    \A f \in Fds :
        LET c == interest[f]
        IN  c # None => /\ fd[c] = f /\ f \in open
                        /\ index[c] = "kAdded" /\ mask[f] = events[c]

\* index_, channels_ and the kernel's list agree, and a channel that has enabled
\* an event is in epoll.
WantedIsWatched ==
    \A c \in Channels : InUse(c) =>
        /\ events[c] # {} => index[c] = "kAdded"
        /\ index[c] = "kAdded" => interest[fd[c]] = c
        /\ index[c] # "kNew" => channels[fd[c]] = c

\* epoll watches what the channels asked for last and nothing else, through
\* additions, modifications, deletions and descriptors that change hands or are
\* reused: no epoll_ctl takes or keeps the registration of another channel.
\* Programs whose Connectors are impatient are told what they asked for, but
\* may miss events: connect() removes a leftover channel by its old descriptor.
WatchesWhatIsAsked == NothingUnasked /\ (Patient => WantedIsWatched)

\* Neither epoll nor the batch being dispatched holds a pointer to a channel
\* that has been destroyed.  Destroying a server in a callback leaves none in
\* epoll, only in the batch; a program that does not leaves none there either,
\* for channels wait for functors, after the batch in which they may be listed.
NoDanglingChannel ==
    /\ Patient => \A f \in Fds : interest[f] # None => life[interest[f]] = "live"
    /\ uses = {} => \A c \in batch : life[c] = "live"

-----------------------------------------------------------------------------
(* The inductive invariant behind them *)

UnbornFresh ==
    \A c \in Channels :
        life[c] = "unborn" => events[c] = {} /\ index[c] = "kNew"

\* Of the channels of Connectors and those about to be destroyed none is dead.
HeldAreAlive ==
    /\ \A k \in Connectors : channel[k] # None => life[channel[k]] = "live"
    /\ \A j, k \in Connectors : channel[j] # None /\ channel[j] = channel[k] => j = k
    /\ \A c \in releasing : Usable(c)

\* Only callbacks run with channels of the batch still to come.
BatchOver == phase # "dispatch" => batch = {}

\* A patient Connector has a channel in an attempt, and after it until the one
\* functor has run that deletes it.
AttemptsFit ==
    Patient => \A k \in Connectors :
        IF resets[k] = 0
        THEN channel[k] # None <=> state[k] = "kConnecting"
        ELSE /\ resets[k] = 1 /\ state[k] # "kConnecting"
             /\ channel[k] # None /\ index[channel[k]] = "kNew"
             /\ events[channel[k]] = {}

\* Each channel in use has an open descriptor to itself, and epoll points to no
\* others.
OwnersExact ==
    Patient =>
        /\ \A c \in Channels : InUse(c) => fd[c] \in open
        /\ \A c, d \in Channels : InUse(c) /\ InUse(d) /\ fd[c] = fd[d] => c = d
        /\ \A f \in Fds : interest[f] # None => InUse(interest[f])

PollerInvariant ==
    /\ PollerTypeOK
    /\ UnbornFresh
    /\ HeldAreAlive
    /\ BatchOver
    /\ AttemptsFit
    /\ OwnersExact
    /\ WatchesWhatIsAsked
    /\ NoDanglingChannel

=============================================================================
