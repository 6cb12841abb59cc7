# AgoraNet in TLA+

Specifications, model-checking runs and machine-checked proofs of AgoraNet, the
Reactor network library of this repository (`src/src/net`, `src/include/agora/net`).
Paths below are relative to the root of the repository's copy, `src/`.

1. The system and its parts
2. Modules, and how they correspond to the code
3. Runs: bounds, fairness, what they show
4. Proofs
5. Disagreements found
6. What is not modelled, and the plan

## 1. The system and its parts

A program owns one `EventLoop` per thread. A loop sleeps in `epoll_wait`, calls the
`Channel`s that are ready, and then runs the functors that were handed to it. Everything
of a connection happens on the thread of its loop; threads talk to each other only by
handing functors over. Callbacks are user code and may call any part of the library again
from inside.

| part | state | operations | meets the others through | what is hard | what must hold |
|---|---|---|---|---|---|
| `EventLoop` | `looping_`, `quit_`, `pendingFunctors_`, `callingPendingFunctors_`, the eventfd, `activeChannels_` | `loop`, `runInLoop`, `queueInLoop`, `quit`, `wakeup` | functors from every thread | push, eventfd write, drain and swap interleave; functors queue functors | no lost wakeup, FIFO, closed batches, quit ends the loop |
| `Channel`, `EPollPoller` | `events_`, `index_`, `channels_`, the kernel's interest list | `enable*`, `disable*`, `remove`, `poll` | raw pointers in `epoll_event.data.ptr` and `activeChannels_` | descriptors are reused and change hands; channels are updated after their descriptor is closed, and die while listed | the kernel watches what was asked for; which pointers may dangle |
| `Buffer` | a vector and two indices | `append`, `retrieve*`, `readFd`, `writeFd`, `makeSpace` | `TcpConnection` | moving down, growing, the stack buffer of `readFd` | a byte queue |
| `TcpConnection` | `state_`, `outputBuffer_`, its channel and socket | `send`, `shutdown`, `forceClose`, `handleRead/Write/Close/Error`, `connectEstablished/Destroyed` | callbacks into the program, `closeCallback_` into the owner, a functor back | reentrant callbacks, partial writes, stale events of the batch, resets, destruction from another thread | the stream is whole, UP once and DOWN at most once, FIN behind the data |
| `TimerQueue` | `timers_`, the timerfd, `Timer` objects | `addTimer`, `cancel`, `handleRead`, `reset`, destructor | functors, callbacks | two clocks, re-arming, memory of timers cancelled in callbacks, a `Timer` read after it was handed to the loop | armed for the earliest, nothing in use freed, every timer runs |
| `Connector`, `TcpClient` | `state_`, `connect_`, `channel_`, `retryDelayMs_`, `connection_` | `start`, `stop`, `restart`, `retry`, `handleWrite/Error` | retry timers, hand-over of the descriptor | stop and retry against an attempt in progress | one attempt at a time, every descriptor closed once or handed over, a client that wants a connection keeps trying |
| `Acceptor`, `TcpServer` | `connections_`, `nextConnId_`, the backlog of the listening socket | `listen`, `handleRead`, `newConnection`, `removeConnection(InLoop)`, destructor | functors between the server's loop and the I/O loops | close racing destruction, descriptors that run out | every connection erased and destroyed once, every client accepted in the end |
| `EventLoopThread(Pool)` | `loop_`, mutex, condition | `startLoop`, `getNextLoop`, destructor | the new thread | start-up handshake, quit racing the end of the loop | start and join terminate |
| `HttpContext`, `HttpServer` | parser state and request, per connection | `parseRequest`, `onMessage` | the input buffer | requests split and joined by segments | one answer per request whatever the segments |
| `StaticFileServer`, `MimeType` | nothing between two requests; `size` and the file inside `serveFile` | `onRequest`, `urlDecode`, `serveFile` | the callback of an `HttpServer`, the file system | escapes, files that cannot be opened or are written to while they are read, directories, exceptions | the answer is to the path the client means |

The remaining files are system-call wrappers (`Socket`, `sockets_ops`, `InetAddress`), the
logger and the programs in `src/main.cpp` and `examples/`.

## 2. Modules, and how they correspond to the code

| module | models | abstraction | detailed by |
|---|---|---|---|
| `Executor` | what a loop promises: a FIFO executor | – | `EventLoop` |
| `EventLoop` | `event_loop.cpp` | functors are names; one step per critical section | |
| `ByteQueue` | what a buffer promises | – | `Buffer` |
| `Buffer` | `buffer.cpp`, `buffer.h` | sizes are constants | |
| `EPollPoller` | `channel.cpp`, `epoll_poller.cpp` and the owners of channels: `tcp_server.cpp`, `acceptor.cpp`, `connector.cpp` | connections and an `Acceptor` may do anything they do to a channel, in any order | |
| `Connection` | what a connection promises | – | `TcpConnection` |
| `TcpConnection` | `tcp_connection.cpp`, `Channel::handleEvent`, and what the connection sees of `TcpServer`, `TcpClient`, the loop and the kernel | byte *i* is the *i*-th one sent; input is counted in messages | |
| `TimerQueue` | `timer_queue.cpp`, `timer.cpp`, `timestamp.cpp` | times relative to the present, unit 100 µs | |
| `TcpClient` | `connector.cpp`, `tcp_client.cpp`, and what they see of the loop, the timers and the connection | a channel is named by its descriptor | |
| `EventLoopThreadPool` | `event_loop_thread.cpp`, `event_loop_thread_pool.cpp` and the places of `EventLoop::loop` at which they meet it; actions only | loops are numbers, 0 the base loop | |
| `TcpServer` | `tcp_server.cpp`, `acceptor.cpp` and `sockets::accept`, composed with `EventLoopThreadPool` | of a connection only its state and who refers to it | |
| `HttpServer` | `http_server.cpp`, `http_context.cpp` on one connection | what stands between two CRLFs is one symbol of three kinds | |
| `StaticFileServer` | `static_file_server.cpp`, `mime_type.cpp` and what `std::stoi` does | one request; characters are codes, names are below `rootDir_` | |
| `MC…` | instances for TLC | | |
| `QueueLemmas` | facts about functor queues, call stacks, byte streams and scans of a sequence that several proofs cite | | |
| `Reactor_proofs` | theorems about `EventLoop` and `EPollPoller` | | |
| `Http_proofs` | theorems about `HttpServer` and `StaticFileServer` | | |
| `…_proofs` | theorems about the module of that name | | |

**EventLoop.** `pc` is the place of the loop's thread (`Places`); a variable `caller[t]` says
that thread `t` has pushed, or set `quit_`, and not yet written to the eventfd, which is the
window of `queueInLoop` between the unlock and `wakeup()`. User code runs at `out`, `callback`
and `functor`. `PollNothing` is the ten-second timeout of `epoll_wait` or an interrupted call.

**EPollPoller.** `interest` and `mask` are the kernel's list, `open` its descriptors; `channels` and `index` are the
poller's. Channels of connections and of an `Acceptor` are set (`SetEvents`) and destroyed (`ConnectDestroyed`, `DestroyAcceptor`, the second
without `removeChannel`) as their owners like: in functors, and in a program that destroys a server in a callback (`"destroy"`) also while
the batch is dispatched, for `~TcpServer` then runs `connectDestroyed` at once. A `Connector` goes through its attempts: `channel` is its
`channel_`, which stays after `removeChannel` until as many functors as `resets` counts have run. Its descriptor is then closed
(`AttemptEnds`) or has a channel of a connection (`Connected`), and may be in use again. If the Connector starts once more before (`"again"`), `ConnectAgain` does
to the leftover channel what `connect` does: `disableAll` adds it under a descriptor that is not its own or fails to, `removeChannel` deletes the
registration of whoever has the descriptor, and the channel dies. After a `stop()` in an attempt (`"stop"`), the same attempt may end again and remove
its channel a second time. `epoll_ctl` on a closed descriptor, or one that is registered already or not at all, fails and changes nothing.

**TcpConnection.** The thread's calls are a `stack`. `user` is a callback of the program in
progress; `closing` is `handleClose` between `connectionCallback_` and `closeCallback_`;
`wrote` is `handleWrite` after `writeCompleteCallback_`; `destroying` is `connectDestroyed` before
`removeChannel`. A `user` frame may send, shut down, force-close or destroy the owner, each
of which may push further frames, exactly as the calls nest in C++. `phase` walks through one iteration of
the loop: `poll`, callbacks of channels earlier in the batch (`before`), this connection's
`handleEvent` (`ours`, with `revents` the part not handled yet), later ones (`after`), the swap,
and the functors. `owner` picks `TcpClient`, a `TcpServer` on the same loop, or one on another
loop; `told` is `removeConnectionInLoop` waiting on that other loop. `kept` says whether the
program holds a `TcpConnectionPtr` of its own, so that the object outlives `connectDestroyed`. A
callback that is not set is one that returns at once. `proc` ends a behaviour where the
process is lost: an assertion (asserts are on: `CMakeLists.txt` sets no build type), `SIGPIPE`
(nothing in the repository ignores it) or a destroyed object in use.

**TimerQueue.** `left[a]` is the expiration of the Timer at address `a` minus the present on the system
clock; `countdown` is what the timerfd, on `CLOCK_MONOTONIC`, has still to count. `Tick` advances both,
`AdjustClock` the first alone. Addresses are reused: a `TimerId` is an address and a sequence.
`since` is the time elapsed since `handleRead` read the clock, which `Timer::restart` starts from. On another thread `addTimer`
is two steps: `AddTimerElsewhere` creates the Timer and queues it, `ReturnId` reads its `sequence_` for the `TimerId`, when
the loop may have run and deleted it; the read then gives any number. `Destroy` is `~TimerQueue`: waiting timers are deleted, those
in functors that have not run are leaked with them, and `phase` is `gone`.

**TcpClient.** `state`, `connect`, `channel`, `delay` are the connector's; `wants` and `retry` are the
client's `connect_` and `retry_`. `writing` says whether the connector's channel still wants events, and
`watched` which channels epoll points to, deleted or not. The thread's calls are a `stack` again: `user` is a
callback that has nothing to do with the client, `up` the connection callback inside `handleWrite` of the connector,
`down` the one before `removeConnection`. A retry timer counts in `fresh` in the iteration that
started it and in `due` from the next `Poll` on, for its delay is at least half a second; in a program that is `late`, a callback may take as long or the clock be set
forward, and the timer be due as soon as `handleRead` of the `TimerQueue` has its turn in the same batch (`DelayPasses`; after it, in `collected`, the clock is not read again). `handling` is the
`handleEvent` of the connector's own channel, which no other channel of the batch interrupts. Another
thread sets the flags first and queues the functor in a second step (`elsewhere`). `uses` says what the program
does besides connecting once: `again` (call `connect` more often), `stop`, `closeAtOnce` (close a connection in the
iteration that made it), `elsewhere` (from another thread), `destroy`, `late`.

**EventLoopThreadPool, TcpServer.** The server's module extends the pool's and composes their actions: a step of a loop
or a thread leaves the server alone and the other way round, except where one calls the other (`Start`,
`NewConnection`, `DestroyMembers`). `place[l]` is where the thread of loop `l` is; a loop that is `known` has made
`loop_` visible and not entered `loop()` yet, where a `quit()` is lost. `busy` and `at` are the base thread inside
`start` (waiting for thread `at`) or inside the destructors (`destroy` hands over connections, `check` reads `loop_`,
`quit` calls it, `join` waits). `ordinary` says that the program does what the examples do: it destroys the server
after its `loop()` has returned, when every thread has entered its own, quits no loop of the pool and does not enter the base
loop again.

Clients wait in the backlog (`waiting`) once the server listens. When `PollBase` finds the listening socket readable, `handleRead` of
the `Acceptor` is due (`accepting`): it accepts one client after another (`NewConnection`) until `accept` fails (`AcceptFails`), with
`EAGAIN` when nobody waits, `EMFILE` when the open connections hold all `maxFiles` descriptors, or for another reason `sockets::accept` expects, of which some cost the client
its place in the backlog. A connection holds its descriptor as long as
anything refers to its `TcpConnection` (`Referenced`): the table, a functor that waits, or one of the batch a loop is running (`held`), which keeps
its functors until all of them have run (`TakeFunctors`, `EndOfBatch`). The last reference may be the one of the base loop's `removeConnectionInLoop`
or that of `connectDestroyed` on the connection's own loop.

**HttpServer.** `arrived` is all the peer has sent, `taken` how much of it `handleRead` has put into the input buffer
and `consumed` how much the parser has retrieved, so that the buffer is what lies between. While `parsing`, each step is one turn
of the loop in `parseRequest` or what `onMessage` does after it. A line is a request line the parser accepts, a line with a
colon, or another; a request is the places of its lines, so that a header carried over from one request to the next shows.
`Messages` is the reference: it splits and parses a whole stream at once, and `MessagesFrom` what is behind each place of it. `polite` is a peer that waits for its answers.
`kExpectBody` is declared and never entered: a body is parsed as the next request.

**StaticFileServer.** A client means a path (`meant`) and writes it in one of its ways into `url`, character by character (`Compose`); a `careful`
one escapes what has to be escaped, in capital or small digits. `OnRequest` decodes, refuses, misses, or opens what is there. `opens` says whether `open` succeeds
for what is there: without a free descriptor or without permission it does not, and the answer is 404 as if nothing were there. Between `Open`, `Measure` and `Read`
another program may write to the file (`WriteFile`); reading it is one step. A directory opens, is as large as its file system says, and cannot be read (`OpenDirectory`):
the answer is as many zeros, or, where that size is more than a string holds, `std::length_error`. `phase` is `lost` where an exception leaves the callback and, nothing
catching it, the process; `std::invalid_argument` of `std::stoi` is the other one (`Fails`). The method of a request is ignored by the code, and
a `?` never reaches the path. How a response is written into the output buffer is not modelled.

## 3. Runs

All runs use two workers and end within three minutes, most within one.

| run | instance | checks |
|---|---|---|
| `eventloop` | two other threads, three functors, one channel besides the eventfd | `NoLostWakeup`, `BatchIsClosed`, refinement of `Executor`; `FunctorsRun`, `QuitEndsLoop` |
| `buffer` | prepend 1, initial size 2, stack buffer 2, chunks up to 3 bytes | `EmptyIsReset`, refinement of `ByteQueue` |
| `poller` | three channels, two descriptors, one `Connector`; programs that destroy no server in a callback, that do, and that also start and stop their Connector at any time | `WatchesWhatIsAsked`, `NoDanglingChannel`, each in one part about every program and one about those that spare it |
| `connection` | three bytes, one message, every kind of owner | `InterestExact`, refinement of `Connection`; `GracefulShutdown`, `OverIsDestroyed` |
| `connection_assert` | one byte | violation of `NoAssertFailure` (section 5) |
| `timers` | two timers, two addresses, delays 0 and 2, intervals 0 and 1, one adjustment of the clock by up to 2 | `ArmedForEarliest`, `TimersAreAlive`, `NeverEarly`; `TimersRun` |
| `timers_cancel` | one timer | violation of `NoRunAfterCancel` (section 5) |
| `client` | two descriptors, four calls, a delay that is cut to its cap at the first retry; a program that connects once, in a loop whose batches are shorter than that delay (`Single`), and one that does everything | `SocketsOwned`, `OneConnection` of both; `HandlerIsAlive`, `KeepsTrying` and the exact part of `SocketsOwned` (nothing leaks or is closed twice) of the first |
| `client_destroy` | a program that only destroys | violation of `NoAssertFailure` (section 5) |
| `server` | no thread, one or two; two connections, descriptors for one or both; ordinary programs and others | `TableExact`, `EstablishedFirst` and the joined threads of `ServerOutlivesUse` of all; the rest of it, `ClosedIsDestroyed`, `AcceptedInTheEnd`, `CallsReturn` of the ordinary ones |
| `http` | 13 symbols, peers that wait for answers and others | `AnsweredInOrder`; `RequestIsAnswered` |
| `static` | paths of up to four of the characters `/ . % + a` and space, in every way of escaping them; five files of up to two bytes, two directories, that open or not | `DecodesWhatIsMeant`, `AnswersWhatIsMeant` |

**Why the bounds are enough.** *EventLoop*: two posting threads make the race of one push with
another's wakeup; three functors are one running, one in the batch and one queued meanwhile.
*Buffer*: the sizes keep the order prepend < initial = stack buffer of the real ones and are small enough for
the vector to be filled exactly, moved down, grown, and overflowed into `extrabuf`. *EPollPoller*:
three channels on two descriptors make two share one, one after the other, and leave the third for a connection that gets the descriptor of
a failed attempt; three `resetChannel` functors are those of an attempt ended twice and of the next. *TcpConnection*: three bytes allow a
split write, a send behind it and one more inside a callback; the nesting of
callbacks is bounded by the bytes themselves, by one close and one destruction, so no depth bound is
needed. *TimerQueue*: the second timer can be in the memory of the first, under
whose `TimerId` a cancel is still to come; the delays give a timer due at once, one ahead of it and ties. *TcpClient*: two descriptors are the one that is closing and the one being
connected; refusals, retries and closes are not bounded. *TcpServer*: two connections on one loop, on two, or on
the base loop, closing in any order with each other and with the destructor; a third would repeat one of these. With `maxFiles` 1 the second client waits for the descriptor of the first. *HttpServer*: a request is five symbols
without a header and eight with one, so that 13 hold two requests, the second with a header left over or not, or one with three headers, cut anywhere. *StaticFileServer*: four characters are a slash, a name and its extension, or an escape at the end, next to another or made of an escaped percent sign; two bytes let a file grow, shrink or change while it is served.

**Fairness.** The scheduler runs the loop's thread, so its steps together are weakly fair; callbacks
return. Calls of the program and of the peer are never fair: nobody has to make them.
The ten-second timeout of `epoll_wait` is not among what must happen (`PromptSpec`). For a connection, the
loop of a server on another thread runs its functors, and `PollWritable` is strongly fair: a peer that
is alive reads again and again, so the socket is writable again and again; `GracefulShutdown`
gives up if the peer resets. For timers, time passes. For a client, a due
retry timer fires in some iteration, attempts are answered, and they are neither refused for ever nor
failing at once for ever; nothing is assumed of the program. For a server, every thread is run,
`epoll_wait` returns (it has a timeout), `start` and a destructor once begun go on, and `accept` does not fail for ever where it could succeed
(`NewConnection` is strongly fair); `AcceptedInTheEnd` assumes only that the open connections do
not take all descriptors for ever. For HTTP, the loop
reads what has arrived and the callback returns.

`CHECK_DEADLOCK` is off in the runs of `TcpConnection`, `TcpClient`, `TcpServer`, `HttpServer` and `StaticFileServer`, where the process may be lost (`proc`, `phase`),
the program be over or the request answered.

## 4. Proofs

Proved with TLAPS for every value of the constants:

| module | theorems | from |
|---|---|---|
| `Reactor_proofs`, on `EventLoop` | `LoopTypeCorrect`, `NeverLosesWakeup`, `BatchOnlyShrinks`, `LoopIsExecutor` | `LoopInvariant` |
| `Buffer_proofs` | `AlwaysWellFormed`, `EmptiedIsReset`, `BufferIsByteQueue` | `BufferInvariant` and a lemma per operator |
| `Reactor_proofs`, on `EPollPoller` | `PollerTypeCorrect`, `PollerMirrorsKernel`, `NeverDangles` | `PollerInvariant` |
| `TcpConnection_proofs` | `TypeCorrect`, `InterestIsExact`, `TcpConnectionIsConnection` | `ConnectionInvariant` |
| `TimerQueue_proofs` | `TypeCorrect`, `ArmsForEarliest`, `TimersStayAlive`, `NeverRunsEarly` | `TimerInvariant` |
| `TcpClient_proofs` | `TypeCorrect`, `HandlersAreAlive`, `SocketsAreOwned`, `ConnectsOneAtATime`, `OnceIsSafe` | `ClientInvariant` |
| `TcpServer_proofs` | `TypeCorrect`, `TableIsExact`, `OutlivesItsUse`, `EstablishesFirst` | `ServerInvariant` |
| `Http_proofs`, on `HttpServer` | `HttpTypeCorrect`, `AnswersInOrder` | `HttpInvariant` |
| `Http_proofs`, on `StaticFileServer` | `FileTypeCorrect`, `DecodesAllPaths`, `AnswersAllPaths` | `FileInvariant` |

Each module also has a theorem that the invariant of the last column always holds (`Invariant`, or `LoopInvariantHolds`, `PollerInvariantHolds`,
`HttpInvariantHolds`, `FileInvariantHolds`). With these, every invariant, action property and refinement that a passing run checks is proved. The assumptions are the named
`ASSUME`s of the modules: types of the constants, names that differ from what they must not be taken for, a retry delay whose
initial value is not above its cap, and finitely many addresses for timers (memory is finite). The invariants are stated at the end of each
component's module, in named parts.

*EventLoop.* `NoLostWakeup` is about `pc = "poll"` alone and is not inductive. `PendingAnnounced` says that at
every place but `dispatch` and `callback` each functor in `pendingFunctors_` was announced, by a
readable eventfd or by a thread about to write to it: the eventfd is drained only at `dispatch`, and the
swap, which empties the queue, is the only way out of there. `QuitAnnounced` is the same for
`quit_`, which is read just before `epoll_wait`. `PlaceExact` ties `callingPendingFunctors_` to the place, because a
functor queued on the loop's thread is announced only if that flag is set. For the refinement, `functors \o pending` is the queue of the
executor; `FunctorsUsed` shows that a functor handed over is new to it.

*Buffer.* Each operator has a lemma that says what it does to `Content`; the step of the refinement
follows from them. Any prepend size, initial size and `extrabuf` will do.

*EPollPoller.* What holds of any program (`NothingUnasked`, the end of `NoDanglingChannel`) needs that unborn channels are untouched (`UnbornFresh`), that
what a Connector or a waiting `connectDestroyed` holds is alive (`HeldAreAlive`), and that the batch is empty outside the dispatch (`BatchOver`). What holds of
`Patient` Connectors needs `AttemptsFit`, that a channel that was removed waits for exactly one `resetChannel`, and `OwnersExact`, that every other channel has an
open descriptor to itself. None of it is a guard of an action: a Connector that is not patient breaks both, as the other programs of run `poller` show.

*TcpConnection.* `ReadsWhileOpen` says of any place in any callback that an open connection wants to read and one that is not open wants
nothing, so that giving up the interest in writing never takes the channel out of epoll; `InterestExact` needs it. `StreamWhole` says that the
wire and `outputBuffer_` together are the bytes sent, in order. `ToldWithState` ties the callbacks made so far, and the FIN, to `state_`;
`EndsWhenDown` and `EstablishedOnce` tie the frames of the stack and the functors to it, so that what finishes a connection meets one that is down
(unless its owner is gone) and `connectEstablished` runs once. The refinement goes action by action; most are a stutter of `Connection`.

*TimerQueue.* `TimersAreAlive` needs `AddsFit`: a `Timer` on its way to the loop is alive, in no other place, and on its way once, so
that an address is reused only after every use of it. `NeverEarly` needs `BatchWasDue`, that all of the batch was due when
`handleRead` read the clock; `ArmedForEarliest` needs that `resetTimerfd` looks at the earliest of a finite set.
`LatenessBounded` belongs to the bound `MaxLate` on how late a timer is told apart.

*TcpClient.* `OneConnection` is about any program and rests on `ConnectionFits`: while the client has a connection its connector rests in
`kConnected`, so that no attempt can end, and only one call of `handleClose` is about to take the connection away. `DestroyedFit` says
the same of descriptors that wait for `connectDestroyed`: open, waiting once, and in nobody else's hands. The properties of a
program that connects once, in a loop whose batches are shorter than the retry delay, need `AttemptFits`: it has one attempt, one retry timer or one connection, the only functors are
`resetChannel` and `connectDestroyed`, and the channel of a failed attempt is gone before the timer that makes the next
is due. A step of such a program is one of few actions (`OrdinaryStep`), which is where the assertions and dangling uses of
the module drop out; `OnceIsSafe` states that as a property of its own.

*TcpServer.* `TableExact` alone does not say where the functors of a connection are. `FunctorsFit` does: each waits with the right loop,
`connectEstablished` and `removeConnectionInLoop` at most once, `connectEstablished` in front of every `connectDestroyed`,
and in the states of the connection that fit. `Numbered` says that connections beyond `nextConnId_` are untouched, `LoopsFit` and `ThreadsFit`
tie the place of each loop's thread to the calls of the base thread that start and join it, and `OrdinaryRuns`
what an ordinary program has done when its destructor begins. All of it holds for any number of threads and connections.

*HttpServer.* What the parser has done so far says nothing of a reference that reads the whole stream, unless it is said of all streams that may still
come: `ParsesWhatIsSaid` holds of every stream that begins with what was taken from the socket (`Streams`). In each, the messages are the answers given and then those that
begin where the parser stands (`Start`), its place is where a line begins, and the headers it has collected are all there are up to
there; each turn of `parseRequest` then takes one step of `MessagesFrom`. Once the connection is shut down
`AnswersStand` says that the answers remain what the stream begins with. `CallsFit`, that calls are for requests that begin at
different places, and `PeerWaits`, that behind an unanswered request of a polite peer nothing follows, give the calls
of `AnsweredInOrder`.

*StaticFileServer.* `DecodesSoFar` says of a careful client, whatever it writes next, that the path decoded is the one meant so far and then
what the rest decodes to: an escape is never cut by what is behind it, nor is an escaped percent sign decoded twice. `ServesWhatIsNamed` ties the file and its size to the
path until the answer is given, with the fact that it was opened, and says that the size is the file's length unless somebody wrote to it.

Both references are functions defined by recursion over the places of a sequence, from its end. `ScanExists` and `ScanType` of `QueueLemmas`
prove that such a function exists, by the least number of places for which it did not, and that its values have their type; after that a proof unfolds it
one place at a time, as the program does. `HttpInvariant` and `DecodesSoFar` quantify over all streams, so TLC has only checked them
over streams of a few symbols.

Only model-checked, and why: the liveness properties of `FairSpec` (`FunctorsRun`, `QuitEndsLoop`, `OverIsDestroyed`, `GracefulShutdown`, `TimersRun`,
`KeepsTrying`, `ClosedIsDestroyed`, `AcceptedInTheEnd`, `CallsReturn`, `RequestIsAnswered`). Fairness and `ENABLED` are out of TLAPS's reach.

## 5. Disagreements found

* **`connection_assert`**: `handleClose` asserts that the connection is open (`src/net/tcp_connection.cpp:222`). A
  callback of another channel that closes a connection whose end of stream is already in
  `activeChannels_` makes it fail: `forceClose` closes the connection, then `handleRead` runs on the stale event,
  reads 0 and calls `handleClose` again.
* **`timers_cancel`**: `cancel` has no effect on a timer whose callback is running or due in the
  same batch (`src/net/timer_queue.cpp:120`), although `timer_queue.h:57` declares a set for the
  timers "cancelled in callbacks" and the README lists `cancel` without an exception. A repeating
  timer cannot cancel itself.
* **`client_destroy`**: destroying a client that is connecting fails the assertion of `~Connector`
  (`src/net/connector.cpp:28`), because `~TcpClient` only queues `stopInLoop`.

`connect()` has no effect on a client that had a connection and lost it: `state_` stays `kConnected` and only `restart()` resets it
(`connector.cpp:60`). `KeepsTrying` is about a client that has not had its connection yet, or has retry.

`connector.cpp:201` defers `channel_.reset()` so that a channel is not deleted in its own `handleEvent`. In the
behaviours of a program that does everything, though in none of one that connects once, it is: a client with retry whose connection callback closes the connection
goes through `removeConnection`, `restart`, `connect` to `channel_.reset()`; the `resetChannel` queued before then deletes the
channel of the new attempt, to which epoll still points.

The same comes of a retry timer in a program that connects once, if the batch in which the attempt failed lasts as long as the retry delay (500 ms at first), for a long
callback or because the system clock is set forward: `getExpired` reads the clock when the timerfd has its turn (`timer_queue.cpp:138`) and returns the new timer, `connect()`
drops the leftover channel, and the `resetChannel` of the last attempt deletes the channel of the new one (`DelayPasses`, `RetryFires`, `RunResetChannel`, then `HandleEventDangles`). `Single` therefore
supposes a loop whose batches are shorter.

A leftover channel does harm to others too (`connector.cpp:86`): its descriptor was closed or given away, so `removeChannel` takes the registration of whoever has
it now, whose channel believes itself watched and hears nothing more. `WantedIsWatched` says so of all but `Patient` Connectors. And a server destroyed in a callback leaves
deleted channels of its connections and its `Acceptor` in `activeChannels_`, though none in epoll (`NoDanglingChannel`).

A server that is not `ordinary` meets three things the module contains. If it is destroyed before one of its threads has
entered `loop()`, that thread forgets the `quit()` (`event_loop.cpp:52`) and the destructor never returns. If the base
loop runs after the destructor, a `removeConnectionInLoop` queued meanwhile uses the destroyed server (`RemoveDangles`). If a
callback quits a loop of the pool, the destructor may call `quit()` on an `EventLoop` that is gone (`QuitDangles`), and so
may `newConnection` (`NewConnectionDangles`). Even in an ordinary one, a loop that is in its last batch when it is told to quit drops the
`connectDestroyed` queued for it, and the program is not told that the connection is down.

A program that calls `stop()` in the same iteration as a failure makes the connector close one
descriptor number two or three times (`stray`); from another thread `stopInLoop` may also meet a null `channel_`
(`StopInLoopDerefsNull`).

Two more things the models contain and no property forbids: a message callback that answers input
after its connection was reset raises `SIGPIPE` (`SendRaisesSigpipe`), and a connection that closes, or is being
removed, while its `TcpServer` is destroyed uses the server through a raw pointer
(`CloseCallbackDangles`, `OwnerDangles`). What `InterestExact` says of the channel it says while the owner
lives: `connectDestroyed` of a connection in `kDisconnecting` tells nobody, and leaves it in a
state in which a pointer the program kept can register the channel again.

Of HTTP the model has three things nothing in the repository speaks about. The context is reset only if the connection is kept, so
that bytes behind a closing response call `httpCallback_` again with the request already answered (`http_server.cpp:54`); the
second answer goes nowhere. `onMessage` answers one request: a second one already in the buffer waits for more input. And a request line
that was refused stays in the buffer and is refused again with every later message.

While `accept` has no descriptor for a client, the loop spins: the listening socket stays readable, `PollBase` and `AcceptFails` take turns
(`acceptor.cpp:54`). A `StaticFileServer` on that loop meanwhile answers 404 for files that are there (`static_file_server.cpp:58`). Errors of `accept` for which `sockets::accept` says `LOG_FATAL`, `ENFILE` among them, end the process and are not modelled.

A `StaticFileServer` loses the process when a path holds an escape without a digit (`%zz`), or names a directory whose size `tellg` puts at
the largest number there is, as ext4 does; where the size is a small number the answer is that many zeros, on procfs none. The property allows the second and is not about clients that do not
escape.

## 6. What is not modelled, and the plan

Not modelled: `TcpConnection::send` from another thread (it aborts through `assertInLoopThread`), empty
messages, the content of the input buffer, so that what `send(Buffer*)` empties after its callback does not show; system calls that fail for want of
memory, and those whose failure ends the process through `LOG_FATAL`; the descriptors of a client's or a poller's own; the formatting of logs
and timestamps; methods, queries and versions of requests; `InetAddress`, `Socket` and `sockets_ops` beyond the effect of their calls;
`main.cpp`, the examples and the SQL schema, which are programs and data on top of the library.

`Acceptor` is modelled inside `TcpServer`, `~EventLoop` as `DestroyLoop` of `EventLoopThreadPool`, the calls `EventLoop` forwards in `TimerQueue` and
`EPollPoller`.

Plan, in order:

1. `EventLoop`, `Buffer`, `EPollPoller`, `TcpConnection`, `TimerQueue` – done.
2. `Connector` with `TcpClient` – done.
3. `EventLoopThreadPool`, `TcpServer` and `Acceptor` – done.
4. `HttpServer` with `HttpContext`, `StaticFileServer` – done.
5. Proofs about all of them – done.
6. Left: the safety half of `GracefulShutdown`, that a connection shut down and not yet finished has bytes left and waits for writability; shorter
   proofs of `TcpClient` and `TcpServer`.
