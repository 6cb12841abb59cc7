----------------------------- MODULE EventLoop ------------------------------
(***************************************************************************)
(* agora::net::EventLoop: one thread runs loop(), any thread may hand it     *)
(* functors or ask it to quit, and an eventfd wakes it out of epoll_wait.    *)
(*                                                                         *)
(* The critical sections under mutex_ (the push_back of queueInLoop, the     *)
(* swap of doPendingFunctors) are single steps; everything between them      *)
(* interleaves.  In particular another thread's queueInLoop is two steps,    *)
(* the push under the lock and the write to the eventfd after it.            *)
(***************************************************************************)
EXTENDS Sequences, Functions

CONSTANTS
    Threads,         \* the threads that are not the loop's
    Functors,        \* functors, each handed to the loop at most once
    IoChannels,      \* the channels registered besides wakeupChannel_
    wakeupChannel    \* the channel of the eventfd

ASSUME WakeupIsNotIo == wakeupChannel \notin IoChannels

VARIABLES
    pc,              \* where the loop thread is
    looping,         \* looping_
    quit,            \* quit_
    calling,         \* callingPendingFunctors_
    activeChannels,  \* activeChannels_, less the ones already handled
    pending,         \* pendingFunctors_
    functors,        \* the local vector of doPendingFunctors, less those run
    wakeupFd,        \* whether the eventfd counter is above zero
    caller,          \* what each other thread is in the middle of
    ready,           \* the IO channels whose fd is ready in the kernel
    used,            \* the functors handed over so far
    early,           \* those queued by the loop's own thread outside loop()
    executed         \* the functors that have started, in order (history)

vars == <<pc, looping, quit, calling, activeChannels, pending, functors,
          wakeupFd, caller, ready, used, early, executed>>

(***************************************************************************)
(* The loop thread is outside loop() ("out"), evaluating the while condition *)
(* ("test"), in epoll_wait ("poll"), between two channels of activeChannels_ *)
(* ("dispatch"), in a channel's callback ("callback"), between two pending   *)
(* functors ("run") or inside one ("functor").                               *)
(***************************************************************************)
Places == {"out", "test", "poll", "dispatch", "callback", "run", "functor"}

\* The places where application code runs on the loop's thread.
InUserCode == pc \in {"out", "callback", "functor"}

AllChannels == IoChannels \cup {wakeupChannel}

Init ==
    /\ pc = "out"
    /\ looping = FALSE
    /\ quit = FALSE
    /\ calling = FALSE
    /\ activeChannels = {}
    /\ pending = <<>>
    /\ functors = <<>>
    /\ wakeupFd = FALSE
    /\ caller = [t \in Threads |-> "idle"]
    /\ ready = {}
    /\ used = {}
    /\ early = {}
    /\ executed = <<>>

-----------------------------------------------------------------------------
(* loop(), a step at a time *)

Enter ==
    /\ pc = "out"
    /\ looping' = TRUE
    /\ quit' = FALSE
    /\ pc' = "test"
    /\ UNCHANGED <<calling, activeChannels, pending, functors, wakeupFd,
                   caller, ready, used, early, executed>>

\* while (!quit_) { activeChannels_.clear(); poller_->poll(...)
KeepLooping ==
    /\ pc = "test"
    /\ ~quit
    /\ activeChannels' = {}
    /\ pc' = "poll"
    /\ UNCHANGED <<looping, quit, calling, pending, functors, wakeupFd,
                   caller, ready, used, early, executed>>

Leave ==
    /\ pc = "test"
    /\ quit
    /\ looping' = FALSE
    /\ pc' = "out"
    /\ UNCHANGED <<quit, calling, activeChannels, pending, functors, wakeupFd,
                   caller, ready, used, early, executed>>

\* What epoll_wait can report: level triggered, so every fd that is ready.
ReadyChannels == ready \cup (IF wakeupFd THEN {wakeupChannel} ELSE {})

\* epoll_wait returns some of the ready channels (at most events_.size()).
PollEvents ==
    /\ pc = "poll"
    /\ activeChannels' \in (SUBSET ReadyChannels) \ {{}}
    /\ pc' = "dispatch"
    /\ UNCHANGED <<looping, quit, calling, pending, functors, wakeupFd,
                   caller, ready, used, early, executed>>

\* epoll_wait times out after ten seconds or fails (EINTR): no channel.
PollNothing ==
    /\ pc = "poll"
    /\ pc' = "dispatch"
    /\ UNCHANGED <<looping, quit, calling, activeChannels, pending, functors,
                   wakeupFd, caller, ready, used, early, executed>>

\* wakeupChannel_'s read callback drains the eventfd.
HandleRead ==
    /\ pc = "dispatch"
    /\ wakeupChannel \in activeChannels
    /\ activeChannels' = activeChannels \ {wakeupChannel}
    /\ wakeupFd' = FALSE
    /\ UNCHANGED <<pc, looping, quit, calling, pending, functors, caller,
                   ready, used, early, executed>>

\* channel->handleEvent() of another channel: its callback starts.
HandleEvent(c) ==
    /\ pc = "dispatch"
    /\ c \in activeChannels
    /\ activeChannels' = activeChannels \ {c}
    /\ ready' = ready \ {c}
    /\ pc' = "callback"
    /\ UNCHANGED <<looping, quit, calling, pending, functors, wakeupFd,
                   caller, used, early, executed>>

CallbackReturns ==
    /\ pc = "callback"
    /\ pc' = "dispatch"
    /\ UNCHANGED <<looping, quit, calling, activeChannels, pending, functors,
                   wakeupFd, caller, ready, used, early, executed>>

-----------------------------------------------------------------------------
(* doPendingFunctors(): the swap, each functor, the end *)

SwapWithoutFlag ==
    /\ pc = "dispatch"
    /\ activeChannels = {}
    /\ functors' = pending
    /\ pending' = <<>>
    /\ pc' = "run"
    /\ UNCHANGED <<looping, quit, calling, activeChannels, wakeupFd, caller,
                   ready, used, early, executed>>

SwapFunctors ==
    /\ pc = "dispatch"
    /\ activeChannels = {}
    /\ calling' = TRUE
    /\ functors' = pending
    /\ pending' = <<>>
    /\ pc' = "run"
    /\ UNCHANGED <<looping, quit, activeChannels, wakeupFd, caller, ready,
                   used, early, executed>>

RunFunctor ==
    /\ pc = "run"
    /\ functors # <<>>
    /\ executed' = Append(executed, Head(functors))
    /\ functors' = Tail(functors)
    /\ pc' = "functor"
    /\ UNCHANGED <<looping, quit, calling, activeChannels, pending, wakeupFd,
                   caller, ready, used, early>>

FunctorReturns ==
    /\ pc = "functor"
    /\ pc' = "run"
    /\ UNCHANGED <<looping, quit, calling, activeChannels, pending, functors,
                   wakeupFd, caller, ready, used, early, executed>>

EndPendingFunctors ==
    /\ pc = "run"
    /\ functors = <<>>
    /\ calling' = FALSE
    /\ pc' = "test"
    /\ UNCHANGED <<looping, quit, activeChannels, pending, functors, wakeupFd,
                   caller, ready, used, early, executed>>

-----------------------------------------------------------------------------
(* Calls made by application code on the loop's own thread *)

QueueIntoBatch(f) ==
    /\ InUserCode
    /\ f \notin used
    /\ IF calling
       THEN functors' = Append(functors, f) /\ UNCHANGED pending
       ELSE pending' = Append(pending, f) /\ UNCHANGED functors
    /\ used' = used \cup {f}
    /\ early' = IF pc = "out" THEN early \cup {f} ELSE early
    /\ UNCHANGED <<pc, looping, quit, calling, activeChannels, wakeupFd,
                   caller, ready, executed>>

\* queueInLoop: isInLoopThread() holds, so only callingPendingFunctors_ can
\* ask for a wakeup.  The loop's thread is the only reader of the eventfd and
\* the only one to swap the vector, so nothing can tell push and write apart.
QueueInLoop(f) ==
    /\ InUserCode
    /\ f \notin used
    /\ pending' = Append(pending, f)
    /\ wakeupFd' = (wakeupFd \/ calling)
    /\ used' = used \cup {f}
    /\ early' = IF pc = "out" THEN early \cup {f} ELSE early
    /\ UNCHANGED <<pc, looping, quit, calling, activeChannels, functors,
                   caller, ready, executed>>

\* runInLoop: isInLoopThread() holds, so the functor runs at once.
RunInLoop(f) ==
    /\ InUserCode
    /\ f \notin used
    /\ executed' = Append(executed, f)
    /\ used' = used \cup {f}
    /\ UNCHANGED <<pc, looping, quit, calling, activeChannels, pending,
                   functors, wakeupFd, caller, ready, early>>

\* quit() on the loop's thread: the flag and no wakeup.
Quit ==
    /\ InUserCode
    /\ quit' = TRUE
    /\ UNCHANGED <<pc, looping, calling, activeChannels, pending, functors,
                   wakeupFd, caller, ready, used, early, executed>>

-----------------------------------------------------------------------------
(* Calls made by other threads *)

PostNoWakeup(t, f) ==
    /\ caller[t] = "idle"
    /\ f \notin used
    /\ pending' = Append(pending, f)
    /\ used' = used \cup {f}
    /\ UNCHANGED <<pc, looping, quit, calling, activeChannels, functors,
                   wakeupFd, caller, ready, early, executed>>

PostMovedFrom(t, f) ==
    /\ caller[t] = "idle"
    /\ f \notin used
    /\ pending' = Append(pending, "moved-from")
    /\ caller' = [caller EXCEPT ![t] = "wakeup"]
    /\ used' = used \cup {f}
    /\ UNCHANGED <<pc, looping, quit, calling, activeChannels, functors,
                   wakeupFd, ready, early, executed>>

PostInFront(t, f) ==
    /\ caller[t] = "idle"
    /\ f \notin used
    /\ pending' = <<f>> \o pending
    /\ caller' = [caller EXCEPT ![t] = "wakeup"]
    /\ used' = used \cup {f}
    /\ UNCHANGED <<pc, looping, quit, calling, activeChannels, functors,
                   wakeupFd, ready, early, executed>>

\* runInLoop and queueInLoop both push under mutex_ ...
Post(t, f) ==
    /\ caller[t] = "idle"
    /\ f \notin used
    /\ pending' = Append(pending, f)
    /\ caller' = [caller EXCEPT ![t] = "wakeup"]
    /\ used' = used \cup {f}
    /\ UNCHANGED <<pc, looping, quit, calling, activeChannels, functors,
                   wakeupFd, ready, early, executed>>

QuitNoWakeup(t) ==
    /\ caller[t] = "idle"
    /\ quit' = TRUE
    /\ UNCHANGED <<pc, looping, calling, activeChannels, pending, functors,
                   wakeupFd, caller, ready, used, early, executed>>

QuitFrom(t) ==
    /\ caller[t] = "idle"
    /\ quit' = TRUE
    /\ caller' = [caller EXCEPT ![t] = "wakeup"]
    /\ UNCHANGED <<pc, looping, calling, activeChannels, pending, functors,
                   wakeupFd, ready, used, early, executed>>

\* ... and then wakeup() writes to the eventfd.
Wakeup(t) ==
    /\ caller[t] = "wakeup"
    /\ caller' = [caller EXCEPT ![t] = "idle"]
    /\ wakeupFd' = TRUE
    /\ UNCHANGED <<pc, looping, quit, calling, activeChannels, pending,
                   functors, ready, used, early, executed>>

\* The kernel finds the fd of an IO channel ready.
BecomesReady(c) ==
    /\ ready' = ready \cup {c}
    /\ UNCHANGED <<pc, looping, quit, calling, activeChannels, pending,
                   functors, wakeupFd, caller, used, early, executed>>

-----------------------------------------------------------------------------

LoopStep ==
    \/ KeepLooping
    \/ Leave
    \/ PollEvents
    \/ HandleRead
    \/ \E c \in IoChannels : HandleEvent(c)
    \/ CallbackReturns
    \/ SwapFunctors
    \/ RunFunctor
    \/ FunctorReturns
    \/ EndPendingFunctors

UserStep ==
    \/ \E f \in Functors : QueueInLoop(f) \/ RunInLoop(f)
    \/ Quit

OtherThreadStep ==
    \E t \in Threads :
        \/ \E f \in Functors : Post(t, f)
        \/ QuitFrom(t)
        \/ Wakeup(t)

Next ==
    \/ Enter
    \/ LoopStep
    \/ PollNothing
    \/ UserStep
    \/ OtherThreadStep
    \/ \E c \in IoChannels : BecomesReady(c)

Spec == Init /\ [][Next]_vars

(***************************************************************************)
(* Fairness.  The loop's thread and the threads inside wakeup() are run by   *)
(* the scheduler; callbacks and functors return.  Entering loop(), handing   *)
(* functors over and quitting are the application's choice.  Epoll_wait's    *)
(* ten-second timeout is not among what must happen, so that what holds      *)
(* under PromptSpec is owed to the eventfd alone.                            *)
(***************************************************************************)
PromptSpec ==
    /\ Spec
    /\ WF_vars(LoopStep)
    /\ \A t \in Threads : WF_vars(Wakeup(t))

-----------------------------------------------------------------------------
(* Properties *)

\* The shape of the state of event_loop.h.
TypeOK ==
    /\ pc \in Places
    /\ looping \in BOOLEAN
    /\ quit \in BOOLEAN
    /\ calling \in BOOLEAN
    /\ activeChannels \subseteq AllChannels
    /\ pending \in Seq(Functors)
    /\ functors \in Seq(Functors)
    /\ wakeupFd \in BOOLEAN
    /\ caller \in [Threads -> {"idle", "wakeup"}]
    /\ ready \subseteq IoChannels
    /\ used \subseteq Functors
    /\ early \subseteq Functors
    /\ executed \in Seq(Functors)

\* A wakeup is on its way: the eventfd is readable, or a thread that has done
\* its push or set quit_ has still to write to it.
WakeupComing == wakeupFd \/ \E t \in Threads : caller[t] = "wakeup"

\* Work that a loop blocked in epoll_wait must be woken for.
WorkToDo == quit \/ \E f \in Range(pending) : f \notin early

\* queueInLoop and quit never leave the loop asleep in epoll_wait with work it
\* has not been told of (the race between the push, the write to the eventfd,
\* handleRead draining it and the swap).  Only a functor queued by the loop's
\* own thread before loop() may wait for the ten-second timeout.
NoLostWakeup == pc = "poll" /\ WorkToDo => WakeupComing

\* Every functor handed over while the loop runs is started, or the loop is
\* left: pushes by other threads and by callbacks, whatever the interleaving,
\* without ever counting on the epoll_wait timeout.
FunctorsRun ==
    \A f \in Functors :
        (f \in Range(pending) \ early /\ looping)
            ~> (f \in Range(executed) \/ ~looping)

\* A quit() seen while loop() runs ends it, again without the timeout.
QuitEndsLoop == (quit /\ looping) ~> ~looping

\* A functor queued while functors run waits for the next iteration: the
\* batch being run only shrinks, so doPendingFunctors always comes to an end
\* and no functor can starve the channels by queueing another.
BatchIsClosed ==
    [][calling => Range(functors') \subseteq Range(functors)]_vars

\* The loop implements the FIFO executor: the batch being run, followed by
\* pendingFunctors_, is its queue.
Exec == INSTANCE Executor WITH queue <- functors \o pending
ImplementsExecutor == Exec!Spec

-----------------------------------------------------------------------------
(* The inductive invariant behind NoLostWakeup and ImplementsExecutor *)

\* callingPendingFunctors_, looping_ and the batch say where the loop is.
PlaceExact ==
    /\ calling <=> pc \in {"run", "functor"}
    /\ looping <=> pc # "out"
    /\ functors # <<>> => calling

\* From the swap of doPendingFunctors until epoll_wait returns, every functor
\* in pendingFunctors_ was announced; only between epoll_wait and the swap may
\* handleRead have drained the announcement, and there the swap is to come.
PendingAnnounced ==
    /\ pc \notin {"dispatch", "callback"}
    /\ \E f \in Range(pending) : f \notin early
    => WakeupComing

\* quit_ is read just before epoll_wait, so one set since was announced.
QuitAnnounced == pc = "poll" /\ quit => WakeupComing

\* Where a functor may be.
FunctorsUsed ==
    Range(pending) \cup Range(functors) \cup Range(executed) \subseteq used

LoopInvariant ==
    TypeOK /\ PlaceExact /\ PendingAnnounced /\ QuitAnnounced /\ FunctorsUsed

=============================================================================
