--------------------------- MODULE Reactor_proofs ---------------------------
(***************************************************************************)
(* Theorems about the two halves of the reactor: EventLoop, for any threads, *)
(* functors and channels, and the EPollPoller it sleeps in, for any channels *)
(* and descriptors.                                                          *)
(***************************************************************************)
EXTENDS EventLoop, EPollPoller, QueueLemmas

-----------------------------------------------------------------------------
(* EventLoop *)

-----------------------------------------------------------------------------
(* Type correctness *)

\* Every step keeps the state within its type.
LEMMA TypeStep == TypeOK /\ [Next]_vars => TypeOK'
<1> SUFFICES ASSUME TypeOK, [Next]_vars
             PROVE  TypeOK'
  OBVIOUS
<1> USE DEF TypeOK, Places, AllChannels
<1>1. CASE Enter
  BY <1>1 DEF Enter
<1>2. CASE KeepLooping
  BY <1>2 DEF KeepLooping
<1>3. CASE Leave
  BY <1>3 DEF Leave
<1>4. CASE PollEvents
  BY <1>4 DEF PollEvents, ReadyChannels
<1>5. CASE HandleRead
  BY <1>5 DEF HandleRead
<1>6. ASSUME NEW c \in IoChannels, HandleEvent(c)
      PROVE  TypeOK'
  BY <1>6 DEF HandleEvent
<1>7. CASE CallbackReturns
  BY <1>7 DEF CallbackReturns
<1>8. CASE SwapFunctors
  BY <1>8 DEF SwapFunctors
<1>9. CASE RunFunctor
  <2>1. Head(functors) \in Functors /\ Tail(functors) \in Seq(Functors)
    BY <1>9, QueueTail DEF RunFunctor
  <2>2. executed' \in Seq(Functors)
    BY <1>9, <2>1 DEF RunFunctor
  <2> QED
    BY <1>9, <2>1, <2>2 DEF RunFunctor
<1>10. CASE FunctorReturns
  BY <1>10 DEF FunctorReturns
<1>11. CASE EndPendingFunctors
  BY <1>11 DEF EndPendingFunctors
<1>12. CASE PollNothing
  BY <1>12 DEF PollNothing
<1>13. ASSUME NEW f \in Functors, QueueInLoop(f)
       PROVE  TypeOK'
  BY <1>13 DEF QueueInLoop
<1>14. ASSUME NEW f \in Functors, RunInLoop(f)
       PROVE  TypeOK'
  BY <1>14 DEF RunInLoop
<1>15. CASE Quit
  BY <1>15 DEF Quit
<1>16. ASSUME NEW t \in Threads, NEW f \in Functors, Post(t, f)
       PROVE  TypeOK'
  BY <1>16 DEF Post
<1>17. ASSUME NEW t \in Threads, QuitFrom(t)
       PROVE  TypeOK'
  BY <1>17 DEF QuitFrom
<1>18. ASSUME NEW t \in Threads, Wakeup(t)
       PROVE  TypeOK'
  BY <1>18 DEF Wakeup
<1>19. ASSUME NEW c \in IoChannels, BecomesReady(c)
       PROVE  TypeOK'
  BY <1>19 DEF BecomesReady
<1>20. CASE UNCHANGED vars
  BY <1>20 DEF vars
<1> QED
  BY <1>1, <1>2, <1>3, <1>4, <1>5, <1>6, <1>7, <1>8, <1>9, <1>10, <1>11,
     <1>12, <1>13, <1>14, <1>15, <1>16, <1>17, <1>18, <1>19, <1>20
     DEF Next, LoopStep, UserStep, OtherThreadStep

\* The variables of event_loop.h hold what their types and the places of loop()
\* allow.
THEOREM LoopTypeCorrect == Spec => []TypeOK
<1>1. Init => TypeOK
  BY EmptySeq DEF Init, TypeOK, Places
<1> QED
  BY <1>1, TypeStep, PTL DEF Spec

-----------------------------------------------------------------------------
(* No lost wakeup *)

\* The inductive invariant survives every step of any thread.
LEMMA InvariantStep == LoopInvariant /\ [Next]_vars => LoopInvariant'
<1> SUFFICES ASSUME LoopInvariant, [Next]_vars
             PROVE  LoopInvariant'
  OBVIOUS
<1>0. TypeOK'
  BY TypeStep DEF LoopInvariant
<1> DEFINE Parts == PlaceExact /\ PendingAnnounced /\ QuitAnnounced /\ FunctorsUsed
<1>a. /\ looping \in BOOLEAN /\ quit \in BOOLEAN /\ calling \in BOOLEAN
      /\ wakeupFd \in BOOLEAN /\ caller \in [Threads -> {"idle", "wakeup"}]
      /\ pending \in Seq(Functors) /\ functors \in Seq(Functors)
      /\ executed \in Seq(Functors)
  BY DEF LoopInvariant, TypeOK
<1>b. PlaceExact /\ PendingAnnounced /\ QuitAnnounced /\ FunctorsUsed
  BY DEF LoopInvariant
<1> USE DEF PlaceExact, PendingAnnounced, QuitAnnounced, FunctorsUsed,
            WakeupComing
<1>1. ASSUME Enter
      PROVE  Parts'
  BY <1>a, <1>b, <1>1 DEF Enter
<1>2. ASSUME KeepLooping
      PROVE  Parts'
  BY <1>a, <1>b, <1>2 DEF KeepLooping
<1>3. ASSUME Leave
      PROVE  Parts'
  BY <1>a, <1>b, <1>3 DEF Leave
<1>4. ASSUME PollEvents
      PROVE  Parts'
  BY <1>a, <1>b, <1>4 DEF PollEvents
<1>5. ASSUME HandleRead
      PROVE  Parts'
  BY <1>a, <1>b, <1>5 DEF HandleRead
<1>6. ASSUME NEW c \in IoChannels, HandleEvent(c)
      PROVE  Parts'
  BY <1>a, <1>b, <1>6 DEF HandleEvent
<1>7. ASSUME CallbackReturns
      PROVE  Parts'
  BY <1>a, <1>b, <1>7 DEF CallbackReturns
<1>8. ASSUME SwapFunctors
      PROVE  Parts'
  BY <1>a, <1>b, <1>8, QueueEmpty DEF SwapFunctors
<1>9. ASSUME RunFunctor
      PROVE  Parts'
  <2>1. functors # <<>> /\ calling
    BY <1>a, <1>b, <1>9 DEF RunFunctor
  <2>2. /\ Head(functors) \in Functors
        /\ Head(functors) \in Range(functors)
        /\ Range(Tail(functors)) \subseteq Range(functors)
    BY <1>a, <2>1, QueueTail
  <2>3. Range(executed') = Range(executed) \cup {Head(functors)}
    BY <1>a, <1>9, <2>2, RangeAppend DEF RunFunctor
  <2>4. FunctorsUsed'
    BY <1>b, <1>9, <2>2, <2>3 DEF RunFunctor
  <2>5. PlaceExact' /\ PendingAnnounced' /\ QuitAnnounced'
    BY <1>a, <1>b, <1>9, <2>1 DEF RunFunctor
  <2> QED
    BY <2>4, <2>5
<1>10. ASSUME FunctorReturns
      PROVE  Parts'
  BY <1>a, <1>b, <1>10 DEF FunctorReturns
<1>11. ASSUME EndPendingFunctors
      PROVE  Parts'
  BY <1>a, <1>b, <1>11 DEF EndPendingFunctors
<1>12. ASSUME PollNothing
      PROVE  Parts'
  BY <1>a, <1>b, <1>12 DEF PollNothing
<1>13. ASSUME NEW f \in Functors, QueueInLoop(f)
      PROVE  Parts'
  <2>1. Range(pending') = Range(pending) \cup {f}
    BY <1>a, <1>13, RangeAppend DEF QueueInLoop
  <2>2. FunctorsUsed'
    BY <1>b, <1>13, <2>1 DEF QueueInLoop
  <2>3. PlaceExact' /\ QuitAnnounced'
    BY <1>a, <1>b, <1>13 DEF QueueInLoop, InUserCode
  <2>4. PendingAnnounced'
    BY <1>a, <1>b, <1>13, <2>1 DEF QueueInLoop, InUserCode
  <2> QED
    BY <2>2, <2>3, <2>4
<1>14. ASSUME NEW f \in Functors, RunInLoop(f)
      PROVE  Parts'
  <2>1. Range(executed') = Range(executed) \cup {f}
    BY <1>a, <1>14, RangeAppend DEF RunInLoop
  <2>2. FunctorsUsed'
    BY <1>b, <1>14, <2>1 DEF RunInLoop
  <2>3. PlaceExact' /\ PendingAnnounced' /\ QuitAnnounced'
    BY <1>a, <1>b, <1>14 DEF RunInLoop
  <2> QED
    BY <2>2, <2>3
<1>15. ASSUME Quit
      PROVE  Parts'
  BY <1>a, <1>b, <1>15 DEF Quit, InUserCode
<1>16. ASSUME NEW t \in Threads, NEW f \in Functors, Post(t, f)
      PROVE  Parts'
  <2>1. Range(pending') = Range(pending) \cup {f}
    BY <1>a, <1>16, RangeAppend DEF Post
  <2>2. WakeupComing'
    BY <1>a, <1>16 DEF Post
  <2>3. FunctorsUsed'
    BY <1>b, <1>16, <2>1 DEF Post
  <2>4. PlaceExact' /\ PendingAnnounced' /\ QuitAnnounced'
    BY <1>a, <1>b, <1>16, <2>2 DEF Post
  <2> QED
    BY <2>3, <2>4
<1>17. ASSUME NEW t \in Threads, QuitFrom(t)
      PROVE  Parts'
  BY <1>a, <1>b, <1>17 DEF QuitFrom
<1>18. ASSUME NEW t \in Threads, Wakeup(t)
      PROVE  Parts'
  BY <1>a, <1>b, <1>18 DEF Wakeup
<1>19. ASSUME NEW c \in IoChannels, BecomesReady(c)
      PROVE  Parts'
  BY <1>a, <1>b, <1>19 DEF BecomesReady
<1>20. ASSUME UNCHANGED vars
      PROVE  Parts'
  BY <1>a, <1>b, <1>20 DEF vars
<1>21. Parts'
  BY <1>0, <1>1, <1>2, <1>3, <1>4, <1>5, <1>6, <1>7, <1>8, <1>9, <1>10,
     <1>11, <1>12, <1>13, <1>14, <1>15, <1>16, <1>17, <1>18, <1>19,
     <1>20
     DEF Next, LoopStep, UserStep, OtherThreadStep
<1> QED
  BY <1>0, <1>21 DEF LoopInvariant

\* The invariant holds in every reachable state.
THEOREM LoopInvariantHolds == Spec => []LoopInvariant
<1>1. Init => LoopInvariant
  BY EmptySeq, QueueEmpty
     DEF Init, LoopInvariant, TypeOK, Places, PlaceExact, PendingAnnounced,
         QuitAnnounced, FunctorsUsed
<1> QED
  BY <1>1, InvariantStep, PTL DEF Spec

\* For any number of threads and functors, the loop never sleeps in epoll_wait
\* over a functor or a quit() that no write to the eventfd has announced or is
\* about to announce: queueInLoop's push before its wakeup, and handleRead's
\* read before doPendingFunctors' swap, close the race.
THEOREM NeverLosesWakeup == Spec => []NoLostWakeup
<1>1. LoopInvariant => NoLostWakeup
  BY DEF LoopInvariant, PendingAnnounced, QuitAnnounced, NoLostWakeup, WorkToDo
<1> QED
  BY <1>1, LoopInvariantHolds, PTL

-----------------------------------------------------------------------------
(* The batch of doPendingFunctors *)

\* A functor that runs may queue others, and other threads may, but none of them
\* joins the batch being run, for any number of threads and functors: so
\* doPendingFunctors comes to an end.
THEOREM BatchOnlyShrinks == Spec => BatchIsClosed
<1> DEFINE Shrinks == calling => Range(functors') \subseteq Range(functors)
<1>1. ASSUME LoopInvariant, [Next]_vars
      PROVE  Shrinks
  <2>1. /\ functors \in Seq(Functors)
        /\ pc \in {"run", "functor"} <=> calling
    BY <1>1 DEF LoopInvariant, TypeOK, PlaceExact
  <2>2. CASE functors' = functors
    BY <2>2
  <2>3. CASE SwapFunctors
    BY <2>1, <2>3 DEF SwapFunctors
  <2>4. CASE RunFunctor
    <3>1. functors # <<>> /\ functors' = Tail(functors)
      BY <2>4 DEF RunFunctor
    <3> QED
      BY <2>1, <3>1, QueueTail
  <2> QED
    BY <1>1, <2>2, <2>3, <2>4
       DEF Next, LoopStep, UserStep, OtherThreadStep, Enter, KeepLooping, Leave,
           PollEvents, PollNothing, HandleRead, HandleEvent, CallbackReturns,
           FunctorReturns, EndPendingFunctors, QueueInLoop, RunInLoop, Quit,
           Post, QuitFrom, Wakeup, BecomesReady, vars
<1>2. LoopInvariant /\ [Next]_vars => [Shrinks]_vars
  BY <1>1
<1> QED
  BY <1>2, LoopInvariantHolds, PTL DEF Spec, BatchIsClosed

-----------------------------------------------------------------------------
(* The loop is a FIFO executor *)

\* Every step of the loop or of a caller is a step of the executor, or invisible
\* to it.
LEMMA ExecutorStep ==
    LoopInvariant /\ [Next]_vars => [Exec!Next]_(Exec!vars)
<1> SUFFICES ASSUME LoopInvariant, [Next]_vars
             PROVE  [Exec!Next]_(Exec!vars)
  OBVIOUS
<1> DEFINE Idle == UNCHANGED <<functors \o pending, executed>>
<1>a. /\ pending \in Seq(Functors)
      /\ functors \in Seq(Functors)
      /\ executed \in Seq(Functors)
  BY DEF LoopInvariant, TypeOK
<1>b. Range(functors \o pending) \cup Range(executed) \subseteq used
  BY <1>a, RangeConcatenation DEF LoopInvariant, FunctorsUsed
<1>1. ASSUME NEW f \in Functors, f \notin used
      PROVE  Exec!Fresh(f)
  BY <1>b, <1>1 DEF Exec!Fresh, Exec!Range, Range
<1>2. ASSUME NEW f \in Functors, f \notin used,
             pending' = Append(pending, f), UNCHANGED <<functors, executed>>
      PROVE  Exec!Submit(f)
  <2>1. functors \o Append(pending, f) = Append(functors \o pending, f)
    <3>1. Append(pending, f) = pending \o <<f>> /\ <<f>> \in Seq(Functors)
      BY <1>a, AppendIsConcat
    <3>2. functors \o (pending \o <<f>>) = (functors \o pending) \o <<f>>
      BY <1>a, <3>1, ConcatAssociative
    <3>3. functors \o pending \in Seq(Functors)
      BY <1>a, ConcatProperties
    <3> QED
      BY <3>1, <3>2, <3>3, AppendIsConcat
  <2> QED
    BY <1>1, <1>2, <2>1 DEF Exec!Submit
<1>3. ASSUME NEW f \in Functors, QueueInLoop(f)
      PROVE  Exec!Submit(f)
  BY <1>2, <1>3 DEF QueueInLoop
<1>4. ASSUME NEW t \in Threads, NEW f \in Functors, Post(t, f)
      PROVE  Exec!Submit(f)
  BY <1>2, <1>4 DEF Post
<1>5. ASSUME NEW f \in Functors, RunInLoop(f)
      PROVE  Exec!RunInline(f)
  BY <1>1, <1>5 DEF RunInLoop, Exec!RunInline
<1>6. ASSUME RunFunctor
      PROVE  Exec!RunOldest
  <2> DEFINE h == Head(functors)
             r == Tail(functors)
             q == functors \o pending
  <2>1. functors # <<>> /\ executed' = Append(executed, h)
        /\ functors' = r /\ pending' = pending
    BY <1>6 DEF RunFunctor
  <2>2. h \in Functors /\ r \in Seq(Functors) /\ functors = <<h>> \o r
    BY <1>a, <2>1, QueueTail
  <2>3. <<h>> \in Seq(Functors)
    BY <2>2
  <2> HIDE DEF h, r
  <2>4. (<<h>> \o r) \o pending = <<h>> \o (r \o pending)
    BY <1>a, <2>2, <2>3, ConcatAssociative
  <2>5. r \o pending \in Seq(Functors)
    BY <1>a, <2>2, ConcatProperties
  <2>6. q = <<h>> \o (r \o pending)
    BY <2>2, <2>4, Zenon
  <2> HIDE DEF q
  <2>7. q # <<>> /\ Head(q) = h /\ Tail(q) = r \o pending
    <3> DEFINE u == r \o pending
    <3>1. u \in Seq(Functors) /\ q = <<h>> \o u
      BY <2>5, <2>6
    <3> HIDE DEF u
    <3>2. Head(<<h>> \o u) = h /\ Tail(<<h>> \o u) = u /\ <<h>> \o u # <<>>
      BY <2>2, <3>1
    <3> QED
      BY <3>1, <3>2 DEF u
  <2> QED
    BY <2>1, <2>7 DEF Exec!RunOldest, q
<1>7. ASSUME SwapFunctors
      PROVE  Idle
  <2>1. functors = <<>>
    BY <1>7 DEF SwapFunctors, LoopInvariant, PlaceExact, TypeOK
  <2>2. pending \o <<>> = pending /\ <<>> \o pending = pending
    BY <1>a, ConcatEmptySeq
  <2> QED
    BY <1>7, <2>1, <2>2 DEF SwapFunctors
<1>8. ASSUME \/ Enter \/ KeepLooping \/ Leave \/ PollEvents \/ PollNothing
             \/ HandleRead \/ (\E c \in IoChannels : HandleEvent(c))
             \/ CallbackReturns \/ FunctorReturns \/ EndPendingFunctors \/ Quit
             \/ (\E t \in Threads : QuitFrom(t) \/ Wakeup(t))
             \/ (\E c \in IoChannels : BecomesReady(c))
             \/ UNCHANGED vars
      PROVE  Idle
  <2>1. UNCHANGED <<functors, pending, executed>>
    BY <1>8 DEF Enter, KeepLooping, Leave, PollEvents, PollNothing, HandleRead,
                HandleEvent, CallbackReturns, FunctorReturns,
                EndPendingFunctors, Quit, QuitFrom, Wakeup, BecomesReady, vars
  <2> QED
    BY <2>1
<1> QED
  BY <1>3, <1>4, <1>5, <1>6, <1>7, <1>8
     DEF Next, LoopStep, UserStep, OtherThreadStep, Exec!Next, Exec!vars

\* Whatever the threads do, functors start in the order in which they were
\* handed over, each at most once, except those that runInLoop runs at once on
\* the loop's own thread: the batches of doPendingFunctors, the lock and the
\* eventfd cannot be seen.
THEOREM LoopIsExecutor == Spec => ImplementsExecutor
<1>1. Init => Exec!Init
  BY EmptySeq, ConcatEmptySeq DEF Init, Exec!Init
<1> QED
  BY <1>1, LoopInvariantHolds, ExecutorStep, PTL DEF Spec, ImplementsExecutor, Exec!Spec

-----------------------------------------------------------------------------
(* EPollPoller *)

\* The inductive invariant survives every call on a channel, by a connection, an
\* Acceptor or a Connector, and every step of the loop.
LEMMA PollerStep == PollerInvariant /\ [PollerNext]_pollerVars => PollerInvariant'
<1> SUFFICES ASSUME PollerInvariant, [PollerNext]_pollerVars
             PROVE  PollerInvariant'
  OBVIOUS
<1> USE NoneAssumption
    DEF Events, Indices, States, InUse, Usable, Patient, poller, connector, loop
<1>a. /\ PollerTypeOK /\ UnbornFresh /\ HeldAreAlive /\ BatchOver
      /\ AttemptsFit /\ OwnersExact /\ NothingUnasked
      /\ (Patient => WantedIsWatched) /\ NoDanglingChannel
  BY DEF PollerInvariant, WatchesWhatIsAsked
<1>1. ASSUME NEW c \in Channels, Create(c)
      PROVE  PollerInvariant'
  <2>1. PollerTypeOK'
    BY <1>a, <1>1 DEF Create, Unused, InHandler, PollerTypeOK
  <2>2. UnbornFresh'
    BY <1>a, <1>1 DEF Create, Unused, InHandler, PollerTypeOK, UnbornFresh
  <2>3. HeldAreAlive'
    BY <1>a, <1>1 DEF Create, Unused, InHandler, PollerTypeOK, HeldAreAlive
  <2>4. BatchOver'
    BY <1>a, <1>1 DEF Create, Unused, InHandler, BatchOver
  <2>5. AttemptsFit'
    BY <1>a, <1>1
       DEF Create, Unused, InHandler, PollerTypeOK, HeldAreAlive, AttemptsFit
  <2>6. OwnersExact'
    BY <1>a, <1>1
       DEF Create, Unused, InHandler, PollerTypeOK, UnbornFresh, HeldAreAlive,
           AttemptsFit, OwnersExact, NothingUnasked
  <2>7. NothingUnasked'
    BY <1>a, <1>1
       DEF Create, Unused, InHandler, PollerTypeOK, UnbornFresh, NothingUnasked
  <2>8. (Patient => WantedIsWatched)'
    BY <1>a, <1>1
       DEF Create, Unused, InHandler, PollerTypeOK, UnbornFresh, HeldAreAlive,
           AttemptsFit, OwnersExact, WantedIsWatched
  <2>9. NoDanglingChannel'
    BY <1>a, <1>1
       DEF Create, Unused, InHandler, PollerTypeOK, BatchOver, OwnersExact,
           NothingUnasked, NoDanglingChannel
  <2> QED
    BY <2>1, <2>2, <2>3, <2>4, <2>5, <2>6, <2>7, <2>8, <2>9
       DEF PollerInvariant, WatchesWhatIsAsked
<1>2. ASSUME NEW c \in Channels, NEW ev \in SUBSET Events, SetEvents(c, ev)
      PROVE  PollerInvariant'
  <2>a. /\ events' = [events EXCEPT ![c] = ev]
        /\ Register(c, ev) \/ Unwatch(c, ev) \/ Modify(c, ev)
        /\ UNCHANGED <<uses, fd, life, open, connector, releasing, loop>>
        /\ Usable(c) /\ fd[c] \in Fds
    BY <1>a, <1>2 DEF SetEvents, Update, PollerTypeOK
  <2>b. \/ UNCHANGED <<interest, mask>>
        \/ /\ interest' \in {[interest EXCEPT ![fd[c]] = c],
                            [interest EXCEPT ![fd[c]] = None]}
           /\ mask' \in {[mask EXCEPT ![fd[c]] = ev], [mask EXCEPT ![fd[c]] = {}]}
    BY <2>a DEF Register, Unwatch, Modify, CtlAdd, CtlMod, CtlDel, Forget
  <2>1. PollerTypeOK'
    <3>1. /\ events' \in [Channels -> SUBSET Events]
          /\ index' \in [Channels -> Indices]
      BY <1>a, <2>a DEF Register, Unwatch, Modify, PollerTypeOK
    <3>2. channels' \in [Fds -> Channels \cup {None}]
      BY <1>a, <2>a DEF Register, Unwatch, Modify, PollerTypeOK
    <3>3. interest' \in [Fds -> Channels \cup {None}]
      BY <1>a, <2>a, <2>b DEF PollerTypeOK
    <3>4. mask' \in [Fds -> SUBSET Events]
      <4>1. /\ mask \in [Fds -> SUBSET Events]
            /\ ev \in SUBSET Events /\ {} \in SUBSET Events
        BY <1>a DEF PollerTypeOK
      <4>2. mask' \in {mask, [mask EXCEPT ![fd[c]] = ev], [mask EXCEPT ![fd[c]] = {}]}
        BY <2>b
      <4> HIDE DEF Events
      <4> QED
        BY <2>a, <4>1, <4>2
    <3> QED
      BY <1>a, <2>a, <3>1, <3>2, <3>3, <3>4 DEF PollerTypeOK
  <2>2. UnbornFresh'
    BY <1>a, <1>2
       DEF SetEvents, Usable, InHandler, Update, Register, Unwatch, Modify, CtlAdd,
           CtlMod, CtlDel, Forget, PollerTypeOK, UnbornFresh
  <2>3. HeldAreAlive'
    BY <1>a, <1>2
       DEF SetEvents, Usable, InHandler, Update, Register, Unwatch, Modify, CtlAdd,
           CtlMod, CtlDel, Forget, PollerTypeOK, HeldAreAlive
  <2>4. BatchOver'
    BY <1>a, <1>2
       DEF SetEvents, Usable, InHandler, Update, Register, Unwatch, Modify, CtlAdd,
           CtlMod, CtlDel, Forget, BatchOver
  <2>5. AttemptsFit'
    BY <1>a, <1>2
       DEF SetEvents, Usable, InHandler, Update, Register, Unwatch, Modify, CtlAdd,
           CtlMod, CtlDel, Forget, PollerTypeOK, HeldAreAlive, AttemptsFit
  <2>6. OwnersExact'
    BY <1>a, <1>2
       DEF SetEvents, Usable, InHandler, Update, Register, Unwatch, Modify, CtlAdd,
           CtlMod, CtlDel, Forget, PollerTypeOK, UnbornFresh, HeldAreAlive,
           AttemptsFit, OwnersExact, NothingUnasked
  <2>7. NothingUnasked'
    BY <1>a, <1>2
       DEF SetEvents, Usable, InHandler, Update, Register, Unwatch, Modify, CtlAdd,
           CtlMod, CtlDel, Forget, PollerTypeOK, UnbornFresh, NothingUnasked
  <2>8. (Patient => WantedIsWatched)'
    <3> SUFFICES ASSUME Patient, NEW d \in Channels, InUse(d)
                 PROVE  /\ events'[d] # {} => index'[d] = "kAdded"
                        /\ index'[d] = "kAdded" => interest'[fd[d]] = d
                        /\ index'[d] # "kNew" => channels'[fd[d]] = d
      BY <2>a DEF WantedIsWatched
    <3>1. InUse(c) /\ fd[c] \in open /\ (fd[d] = fd[c] => d = c)
      BY <1>a, <2>a DEF OwnersExact
    <3>2. interest[fd[c]] \in {None, c}
      BY <1>a, <2>a, <3>1 DEF OwnersExact, NothingUnasked, PollerTypeOK
    <3>3. CASE Register(c, ev)
      BY <1>a, <2>a, <3>1, <3>2, <3>3
         DEF Register, CtlAdd, PollerTypeOK, NothingUnasked, WantedIsWatched
    <3>4. CASE Unwatch(c, ev)
      BY <1>a, <2>a, <3>1, <3>4
         DEF Unwatch, CtlDel, Forget, PollerTypeOK, WantedIsWatched
    <3>5. CASE Modify(c, ev)
      BY <1>a, <2>a, <3>1, <3>5 DEF Modify, CtlMod, PollerTypeOK, WantedIsWatched
    <3> QED
      BY <2>a, <3>3, <3>4, <3>5
  <2>9. NoDanglingChannel'
    BY <1>a, <1>2
       DEF SetEvents, Usable, InHandler, Update, Register, Unwatch, Modify, CtlAdd,
           CtlMod, CtlDel, Forget, PollerTypeOK, BatchOver, OwnersExact,
           NothingUnasked, NoDanglingChannel
  <2> QED
    BY <2>1, <2>2, <2>3, <2>4, <2>5, <2>6, <2>7, <2>8, <2>9
       DEF PollerInvariant, WatchesWhatIsAsked
<1>3. ASSUME NEW c \in Channels, QueueDestroy(c)
      PROVE  PollerInvariant'
  <2>1. PollerTypeOK'
    BY <1>a, <1>3 DEF QueueDestroy, Usable, InHandler, PollerTypeOK
  <2>2. UnbornFresh'
    BY <1>a, <1>3 DEF QueueDestroy, Usable, InHandler, PollerTypeOK, UnbornFresh
  <2>3. HeldAreAlive'
    BY <1>a, <1>3 DEF QueueDestroy, Usable, InHandler, PollerTypeOK, HeldAreAlive
  <2>4. BatchOver'
    BY <1>a, <1>3 DEF QueueDestroy, Usable, InHandler, BatchOver
  <2>5. AttemptsFit'
    BY <1>a, <1>3
       DEF QueueDestroy, Usable, InHandler, PollerTypeOK, HeldAreAlive, AttemptsFit
  <2>6. OwnersExact'
    BY <1>a, <1>3
       DEF QueueDestroy, Usable, InHandler, PollerTypeOK, UnbornFresh, HeldAreAlive,
           AttemptsFit, OwnersExact, NothingUnasked
  <2>7. NothingUnasked'
    BY <1>a, <1>3
       DEF QueueDestroy, Usable, InHandler, PollerTypeOK, UnbornFresh,
           NothingUnasked
  <2>8. (Patient => WantedIsWatched)'
    BY <1>a, <1>3
       DEF QueueDestroy, Usable, InHandler, PollerTypeOK, UnbornFresh, HeldAreAlive,
           AttemptsFit, OwnersExact, WantedIsWatched
  <2>9. NoDanglingChannel'
    BY <1>a, <1>3
       DEF QueueDestroy, Usable, InHandler, PollerTypeOK, BatchOver, OwnersExact,
           NothingUnasked, NoDanglingChannel
  <2> QED
    BY <2>1, <2>2, <2>3, <2>4, <2>5, <2>6, <2>7, <2>8, <2>9
       DEF PollerInvariant, WatchesWhatIsAsked
<1>4. ASSUME NEW c \in Channels, ConnectDestroyed(c)
      PROVE  PollerInvariant'
  <2>1. PollerTypeOK'
    BY <1>a, <1>4
       DEF ConnectDestroyed, Usable, MayDestroy, Forget, Close, PollerTypeOK
  <2>2. UnbornFresh'
    BY <1>a, <1>4
       DEF ConnectDestroyed, Usable, MayDestroy, Forget, Close, PollerTypeOK,
           UnbornFresh
  <2>3. HeldAreAlive'
    BY <1>a, <1>4
       DEF ConnectDestroyed, Usable, MayDestroy, Forget, Close, PollerTypeOK,
           HeldAreAlive
  <2>4. BatchOver'
    BY <1>a, <1>4 DEF ConnectDestroyed, Usable, MayDestroy, Forget, Close, BatchOver
  <2>5. AttemptsFit'
    BY <1>a, <1>4
       DEF ConnectDestroyed, Usable, MayDestroy, Forget, Close, PollerTypeOK,
           HeldAreAlive, AttemptsFit
  <2>6. OwnersExact'
    BY <1>a, <1>4
       DEF ConnectDestroyed, Usable, MayDestroy, Forget, Close, PollerTypeOK,
           UnbornFresh, HeldAreAlive, AttemptsFit, OwnersExact, NothingUnasked
  <2>7. NothingUnasked'
    BY <1>a, <1>4
       DEF ConnectDestroyed, Usable, MayDestroy, Forget, Close, PollerTypeOK,
           UnbornFresh, NothingUnasked
  <2>8. (Patient => WantedIsWatched)'
    BY <1>a, <1>4
       DEF ConnectDestroyed, Usable, MayDestroy, Forget, Close, PollerTypeOK,
           UnbornFresh, HeldAreAlive, AttemptsFit, OwnersExact, WantedIsWatched
  <2>9. NoDanglingChannel'
    BY <1>a, <1>4
       DEF ConnectDestroyed, Usable, MayDestroy, Forget, Close, PollerTypeOK,
           BatchOver, OwnersExact, NothingUnasked, NoDanglingChannel
  <2> QED
    BY <2>1, <2>2, <2>3, <2>4, <2>5, <2>6, <2>7, <2>8, <2>9
       DEF PollerInvariant, WatchesWhatIsAsked
<1>5. ASSUME NEW c \in Channels, DestroyAcceptor(c)
      PROVE  PollerInvariant'
  <2>1. PollerTypeOK'
    BY <1>a, <1>5
       DEF DestroyAcceptor, Usable, MayDestroy, Forget, Close, PollerTypeOK
  <2>2. UnbornFresh'
    BY <1>a, <1>5
       DEF DestroyAcceptor, Usable, MayDestroy, Forget, Close, PollerTypeOK,
           UnbornFresh
  <2>3. HeldAreAlive'
    BY <1>a, <1>5
       DEF DestroyAcceptor, Usable, MayDestroy, Forget, Close, PollerTypeOK,
           HeldAreAlive
  <2>4. BatchOver'
    BY <1>a, <1>5 DEF DestroyAcceptor, Usable, MayDestroy, Forget, Close, BatchOver
  <2>5. AttemptsFit'
    BY <1>a, <1>5
       DEF DestroyAcceptor, Usable, MayDestroy, Forget, Close, PollerTypeOK,
           HeldAreAlive, AttemptsFit
  <2>6. OwnersExact'
    BY <1>a, <1>5
       DEF DestroyAcceptor, Usable, MayDestroy, Forget, Close, PollerTypeOK,
           UnbornFresh, HeldAreAlive, AttemptsFit, OwnersExact, NothingUnasked
  <2>7. NothingUnasked'
    BY <1>a, <1>5
       DEF DestroyAcceptor, Usable, MayDestroy, Forget, Close, PollerTypeOK,
           UnbornFresh, NothingUnasked
  <2>8. (Patient => WantedIsWatched)'
    BY <1>a, <1>5
       DEF DestroyAcceptor, Usable, MayDestroy, Forget, Close, PollerTypeOK,
           UnbornFresh, HeldAreAlive, AttemptsFit, OwnersExact, WantedIsWatched
  <2>9. NoDanglingChannel'
    BY <1>a, <1>5
       DEF DestroyAcceptor, Usable, MayDestroy, Forget, Close, PollerTypeOK,
           BatchOver, OwnersExact, NothingUnasked, NoDanglingChannel
  <2> QED
    BY <2>1, <2>2, <2>3, <2>4, <2>5, <2>6, <2>7, <2>8, <2>9
       DEF PollerInvariant, WatchesWhatIsAsked
<1>6. ASSUME NEW c \in Channels, Dispatched(c)
      PROVE  PollerInvariant'
  <2>1. PollerTypeOK'
    BY <1>a, <1>6 DEF Dispatched, PollerTypeOK
  <2>2. UnbornFresh'
    BY <1>a, <1>6 DEF Dispatched, PollerTypeOK, UnbornFresh
  <2>3. HeldAreAlive'
    BY <1>a, <1>6 DEF Dispatched, PollerTypeOK, HeldAreAlive
  <2>4. BatchOver'
    BY <1>a, <1>6 DEF Dispatched, BatchOver
  <2>5. AttemptsFit'
    BY <1>a, <1>6 DEF Dispatched, PollerTypeOK, HeldAreAlive, AttemptsFit
  <2>6. OwnersExact'
    BY <1>a, <1>6
       DEF Dispatched, PollerTypeOK, UnbornFresh, HeldAreAlive, AttemptsFit,
           OwnersExact, NothingUnasked
  <2>7. NothingUnasked'
    BY <1>a, <1>6 DEF Dispatched, PollerTypeOK, UnbornFresh, NothingUnasked
  <2>8. (Patient => WantedIsWatched)'
    BY <1>a, <1>6
       DEF Dispatched, PollerTypeOK, UnbornFresh, HeldAreAlive, AttemptsFit,
           OwnersExact, WantedIsWatched
  <2>9. NoDanglingChannel'
    BY <1>a, <1>6
       DEF Dispatched, PollerTypeOK, BatchOver, OwnersExact, NothingUnasked,
           NoDanglingChannel
  <2> QED
    BY <2>1, <2>2, <2>3, <2>4, <2>5, <2>6, <2>7, <2>8, <2>9
       DEF PollerInvariant, WatchesWhatIsAsked
<1>7. ASSUME NEW k \in Connectors, NEW c \in Channels, Connect(k, c)
      PROVE  PollerInvariant'
  <2>1. PollerTypeOK'
    BY <1>a, <1>7 DEF Connect, MayConnect, InHandler, Usable, Unused, PollerTypeOK
  <2>2. UnbornFresh'
    BY <1>a, <1>7
       DEF Connect, MayConnect, InHandler, Usable, Unused, PollerTypeOK, UnbornFresh
  <2>3. HeldAreAlive'
    BY <1>a, <1>7
       DEF Connect, MayConnect, InHandler, Usable, Unused, PollerTypeOK,
           HeldAreAlive
  <2>4. BatchOver'
    BY <1>a, <1>7 DEF Connect, MayConnect, InHandler, Usable, Unused, BatchOver
  <2>5. AttemptsFit'
    BY <1>a, <1>7
       DEF Connect, MayConnect, InHandler, Usable, Unused, PollerTypeOK,
           HeldAreAlive, AttemptsFit
  <2>6. OwnersExact'
    BY <1>a, <1>7
       DEF Connect, MayConnect, InHandler, Usable, Unused, PollerTypeOK,
           UnbornFresh, HeldAreAlive, AttemptsFit, OwnersExact, NothingUnasked
  <2>7. NothingUnasked'
    BY <1>a, <1>7
       DEF Connect, MayConnect, InHandler, Usable, Unused, PollerTypeOK,
           UnbornFresh, NothingUnasked
  <2>8. (Patient => WantedIsWatched)'
    BY <1>a, <1>7
       DEF Connect, MayConnect, InHandler, Usable, Unused, PollerTypeOK,
           UnbornFresh, HeldAreAlive, AttemptsFit, OwnersExact, WantedIsWatched
  <2>9. NoDanglingChannel'
    BY <1>a, <1>7
       DEF Connect, MayConnect, InHandler, Usable, Unused, PollerTypeOK, BatchOver,
           OwnersExact, NothingUnasked, NoDanglingChannel
  <2> QED
    BY <2>1, <2>2, <2>3, <2>4, <2>5, <2>6, <2>7, <2>8, <2>9
       DEF PollerInvariant, WatchesWhatIsAsked
<1>8. ASSUME NEW k \in Connectors, NEW c \in Channels, ConnectAgain(k, c)
      PROVE  PollerInvariant'
  <2>1. PollerTypeOK'
    BY <1>a, <1>8
       DEF ConnectAgain, Leftover, MayConnect, InHandler, Usable, Unused,
           PollerTypeOK
  <2>2. UnbornFresh'
    BY <1>a, <1>8
       DEF ConnectAgain, Leftover, MayConnect, InHandler, Usable, Unused,
           PollerTypeOK, UnbornFresh
  <2>3. HeldAreAlive'
    BY <1>a, <1>8
       DEF ConnectAgain, Leftover, MayConnect, InHandler, Usable, Unused,
           PollerTypeOK, HeldAreAlive
  <2>4. BatchOver'
    BY <1>a, <1>8
       DEF ConnectAgain, Leftover, MayConnect, InHandler, Usable, Unused, BatchOver
  <2>5. AttemptsFit'
    BY <1>a, <1>8
       DEF ConnectAgain, Leftover, MayConnect, InHandler, Usable, Unused,
           PollerTypeOK, HeldAreAlive, AttemptsFit
  <2>6. OwnersExact'
    BY <1>a, <1>8
       DEF ConnectAgain, Leftover, MayConnect, InHandler, Usable, Unused,
           PollerTypeOK, UnbornFresh, HeldAreAlive, AttemptsFit, OwnersExact,
           NothingUnasked
  <2>7. NothingUnasked'
    BY <1>a, <1>8
       DEF ConnectAgain, Leftover, MayConnect, InHandler, Usable, Unused,
           PollerTypeOK, UnbornFresh, NothingUnasked
  <2>8. (Patient => WantedIsWatched)'
    BY <1>a, <1>8
       DEF ConnectAgain, Leftover, MayConnect, InHandler, Usable, Unused,
           PollerTypeOK, UnbornFresh, HeldAreAlive, AttemptsFit, OwnersExact,
           WantedIsWatched
  <2>9. NoDanglingChannel'
    BY <1>a, <1>8
       DEF ConnectAgain, Leftover, MayConnect, InHandler, Usable, Unused,
           PollerTypeOK, BatchOver, OwnersExact, NothingUnasked, NoDanglingChannel
  <2> QED
    BY <2>1, <2>2, <2>3, <2>4, <2>5, <2>6, <2>7, <2>8, <2>9
       DEF PollerInvariant, WatchesWhatIsAsked
<1>9. ASSUME NEW k \in Connectors, NEW c \in Channels, Connected(k, c)
      PROVE  PollerInvariant'
  <2>1. PollerTypeOK'
    BY <1>a, <1>9 DEF Connected, PollerTypeOK
  <2>2. UnbornFresh'
    BY <1>a, <1>9 DEF Connected, PollerTypeOK, UnbornFresh
  <2>3. HeldAreAlive'
    BY <1>a, <1>9 DEF Connected, PollerTypeOK, HeldAreAlive
  <2>4. BatchOver'
    BY <1>a, <1>9 DEF Connected, BatchOver
  <2>5. AttemptsFit'
    BY <1>a, <1>9 DEF Connected, PollerTypeOK, HeldAreAlive, AttemptsFit
  <2>6. OwnersExact'
    BY <1>a, <1>9
       DEF Connected, PollerTypeOK, UnbornFresh, HeldAreAlive, AttemptsFit,
           OwnersExact, NothingUnasked
  <2>7. NothingUnasked'
    BY <1>a, <1>9 DEF Connected, PollerTypeOK, UnbornFresh, NothingUnasked
  <2>8. (Patient => WantedIsWatched)'
    BY <1>a, <1>9
       DEF Connected, PollerTypeOK, UnbornFresh, HeldAreAlive, AttemptsFit,
           OwnersExact, WantedIsWatched
  <2>9. NoDanglingChannel'
    BY <1>a, <1>9
       DEF Connected, PollerTypeOK, BatchOver, OwnersExact, NothingUnasked,
           NoDanglingChannel
  <2> QED
    BY <2>1, <2>2, <2>3, <2>4, <2>5, <2>6, <2>7, <2>8, <2>9
       DEF PollerInvariant, WatchesWhatIsAsked
<1>10. ASSUME NEW k \in Connectors, ConnectFailsAgain(k)
      PROVE  PollerInvariant'
  <2>1. PollerTypeOK'
    BY <1>a, <1>10
       DEF ConnectFailsAgain, Leftover, MayConnect, InHandler, Usable, Removed,
           Forget, PollerTypeOK
  <2>2. UnbornFresh'
    BY <1>a, <1>10
       DEF ConnectFailsAgain, Leftover, MayConnect, InHandler, Usable, Removed,
           Forget, PollerTypeOK, UnbornFresh
  <2>3. HeldAreAlive'
    BY <1>a, <1>10
       DEF ConnectFailsAgain, Leftover, MayConnect, InHandler, Usable, Removed,
           Forget, PollerTypeOK, HeldAreAlive
  <2>4. BatchOver'
    BY <1>a, <1>10
       DEF ConnectFailsAgain, Leftover, MayConnect, InHandler, Usable, Removed,
           Forget, BatchOver
  <2>5. AttemptsFit'
    BY <1>a, <1>10
       DEF ConnectFailsAgain, Leftover, MayConnect, InHandler, Usable, Removed,
           Forget, PollerTypeOK, HeldAreAlive, AttemptsFit
  <2>6. OwnersExact'
    BY <1>a, <1>10
       DEF ConnectFailsAgain, Leftover, MayConnect, InHandler, Usable, Removed,
           Forget, PollerTypeOK, UnbornFresh, HeldAreAlive, AttemptsFit,
           OwnersExact, NothingUnasked
  <2>7. NothingUnasked'
    BY <1>a, <1>10
       DEF ConnectFailsAgain, Leftover, MayConnect, InHandler, Usable, Removed,
           Forget, PollerTypeOK, UnbornFresh, NothingUnasked
  <2>8. (Patient => WantedIsWatched)'
    BY <1>a, <1>10
       DEF ConnectFailsAgain, Leftover, MayConnect, InHandler, Usable, Removed,
           Forget, PollerTypeOK, UnbornFresh, HeldAreAlive, AttemptsFit,
           OwnersExact, WantedIsWatched
  <2>9. NoDanglingChannel'
    BY <1>a, <1>10
       DEF ConnectFailsAgain, Leftover, MayConnect, InHandler, Usable, Removed,
           Forget, PollerTypeOK, BatchOver, OwnersExact, NothingUnasked,
           NoDanglingChannel
  <2> QED
    BY <2>1, <2>2, <2>3, <2>4, <2>5, <2>6, <2>7, <2>8, <2>9
       DEF PollerInvariant, WatchesWhatIsAsked
<1>11. ASSUME NEW k \in Connectors, AttemptEnds(k)
      PROVE  PollerInvariant'
  <2>1. PollerTypeOK'
    BY <1>a, <1>11
       DEF AttemptEnds, Removed, Forget, DeferReset, Close, InHandler, PollerTypeOK
  <2>2. UnbornFresh'
    BY <1>a, <1>11
       DEF AttemptEnds, Removed, Forget, DeferReset, Close, InHandler, PollerTypeOK,
           UnbornFresh
  <2>3. HeldAreAlive'
    BY <1>a, <1>11
       DEF AttemptEnds, Removed, Forget, DeferReset, Close, InHandler, PollerTypeOK,
           HeldAreAlive
  <2>4. BatchOver'
    BY <1>a, <1>11
       DEF AttemptEnds, Removed, Forget, DeferReset, Close, InHandler, BatchOver
  <2>5. AttemptsFit'
    BY <1>a, <1>11
       DEF AttemptEnds, Removed, Forget, DeferReset, Close, InHandler, PollerTypeOK,
           HeldAreAlive, AttemptsFit
  <2>6. OwnersExact'
    <3> SUFFICES ASSUME Patient
                 PROVE  OwnersExact'
      BY <1>11 DEF AttemptEnds, OwnersExact
    <3>1. /\ resets[k] = 0 /\ channel[k] \in Channels /\ life[channel[k]] = "live"
          /\ \A j \in Connectors : channel[j] = channel[k] => j = k
      BY <1>a, <1>11 DEF AttemptEnds, AttemptsFit, HeldAreAlive, PollerTypeOK
    <3>2. \A d \in Channels : InUse(d)' <=> InUse(d) /\ d # channel[k]
      BY <1>a, <1>11, <3>1 DEF AttemptEnds, DeferReset, PollerTypeOK
    <3> QED
      BY <1>a, <1>11, <3>1, <3>2
         DEF AttemptEnds, Removed, Forget, Close, PollerTypeOK, OwnersExact, NothingUnasked
  <2>7. NothingUnasked'
    BY <1>a, <1>11
       DEF AttemptEnds, Removed, Forget, DeferReset, Close, InHandler, PollerTypeOK,
           UnbornFresh, NothingUnasked
  <2>8. (Patient => WantedIsWatched)'
    BY <1>a, <1>11
       DEF AttemptEnds, Removed, Forget, DeferReset, Close, InHandler, PollerTypeOK,
           UnbornFresh, HeldAreAlive, AttemptsFit, OwnersExact, WantedIsWatched
  <2>9. NoDanglingChannel'
    BY <1>a, <1>11
       DEF AttemptEnds, Removed, Forget, DeferReset, Close, InHandler, PollerTypeOK,
           BatchOver, OwnersExact, NothingUnasked, NoDanglingChannel
  <2> QED
    BY <2>1, <2>2, <2>3, <2>4, <2>5, <2>6, <2>7, <2>8, <2>9
       DEF PollerInvariant, WatchesWhatIsAsked
<1>12. ASSUME NEW k \in Connectors, ResetChannel(k)
      PROVE  PollerInvariant'
  <2>1. PollerTypeOK'
    BY <1>a, <1>12 DEF ResetChannel, PollerTypeOK
  <2>2. UnbornFresh'
    BY <1>a, <1>12 DEF ResetChannel, PollerTypeOK, UnbornFresh
  <2>3. HeldAreAlive'
    BY <1>a, <1>12 DEF ResetChannel, PollerTypeOK, HeldAreAlive
  <2>4. BatchOver'
    BY <1>a, <1>12 DEF ResetChannel, BatchOver
  <2>5. AttemptsFit'
    BY <1>a, <1>12 DEF ResetChannel, PollerTypeOK, HeldAreAlive, AttemptsFit
  <2>6. OwnersExact'
    <3> SUFFICES ASSUME Patient
                 PROVE  OwnersExact'
      BY <1>12 DEF ResetChannel, OwnersExact
    <3>1. /\ resets[k] = 1 /\ channel[k] # None
          /\ \A j \in Connectors : channel[j] = channel[k] => j = k
      BY <1>a, <1>12 DEF ResetChannel, AttemptsFit, HeldAreAlive, PollerTypeOK
    <3>2. \A d \in Channels : InUse(d)' <=> InUse(d)
      BY <1>a, <1>12, <3>1 DEF ResetChannel, PollerTypeOK
    <3> QED
      BY <1>a, <1>12, <3>2 DEF ResetChannel, PollerTypeOK, OwnersExact
  <2>7. NothingUnasked'
    BY <1>a, <1>12 DEF ResetChannel, PollerTypeOK, UnbornFresh, NothingUnasked
  <2>8. (Patient => WantedIsWatched)'
    BY <1>a, <1>12
       DEF ResetChannel, PollerTypeOK, UnbornFresh, HeldAreAlive, AttemptsFit,
           OwnersExact, WantedIsWatched
  <2>9. NoDanglingChannel'
    BY <1>a, <1>12
       DEF ResetChannel, PollerTypeOK, BatchOver, OwnersExact, NothingUnasked,
           NoDanglingChannel
  <2> QED
    BY <2>1, <2>2, <2>3, <2>4, <2>5, <2>6, <2>7, <2>8, <2>9
       DEF PollerInvariant, WatchesWhatIsAsked
<1>13. ASSUME Poll
      PROVE  PollerInvariant'
  <2>1. PollerTypeOK'
    BY <1>a, <1>13 DEF Poll, PollerTypeOK
  <2>2. UnbornFresh'
    BY <1>a, <1>13 DEF Poll, PollerTypeOK, UnbornFresh
  <2>3. HeldAreAlive'
    BY <1>a, <1>13 DEF Poll, PollerTypeOK, HeldAreAlive
  <2>4. BatchOver'
    BY <1>a, <1>13 DEF Poll, BatchOver
  <2>5. AttemptsFit'
    BY <1>a, <1>13 DEF Poll, PollerTypeOK, HeldAreAlive, AttemptsFit
  <2>6. OwnersExact'
    BY <1>a, <1>13
       DEF Poll, PollerTypeOK, UnbornFresh, HeldAreAlive, AttemptsFit, OwnersExact,
           NothingUnasked
  <2>7. NothingUnasked'
    BY <1>a, <1>13 DEF Poll, PollerTypeOK, UnbornFresh, NothingUnasked
  <2>8. (Patient => WantedIsWatched)'
    BY <1>a, <1>13
       DEF Poll, PollerTypeOK, UnbornFresh, HeldAreAlive, AttemptsFit, OwnersExact,
           WantedIsWatched
  <2>9. NoDanglingChannel'
    BY <1>a, <1>13
       DEF Poll, PollerTypeOK, BatchOver, OwnersExact, NothingUnasked,
           NoDanglingChannel
  <2> QED
    BY <2>1, <2>2, <2>3, <2>4, <2>5, <2>6, <2>7, <2>8, <2>9
       DEF PollerInvariant, WatchesWhatIsAsked
<1>14. ASSUME DoPendingFunctors
      PROVE  PollerInvariant'
  <2>1. PollerTypeOK'
    BY <1>a, <1>14 DEF DoPendingFunctors, PollerTypeOK
  <2>2. UnbornFresh'
    BY <1>a, <1>14 DEF DoPendingFunctors, PollerTypeOK, UnbornFresh
  <2>3. HeldAreAlive'
    BY <1>a, <1>14 DEF DoPendingFunctors, PollerTypeOK, HeldAreAlive
  <2>4. BatchOver'
    BY <1>a, <1>14 DEF DoPendingFunctors, BatchOver
  <2>5. AttemptsFit'
    BY <1>a, <1>14 DEF DoPendingFunctors, PollerTypeOK, HeldAreAlive, AttemptsFit
  <2>6. OwnersExact'
    BY <1>a, <1>14
       DEF DoPendingFunctors, PollerTypeOK, UnbornFresh, HeldAreAlive, AttemptsFit,
           OwnersExact, NothingUnasked
  <2>7. NothingUnasked'
    BY <1>a, <1>14 DEF DoPendingFunctors, PollerTypeOK, UnbornFresh, NothingUnasked
  <2>8. (Patient => WantedIsWatched)'
    BY <1>a, <1>14
       DEF DoPendingFunctors, PollerTypeOK, UnbornFresh, HeldAreAlive, AttemptsFit,
           OwnersExact, WantedIsWatched
  <2>9. NoDanglingChannel'
    BY <1>a, <1>14
       DEF DoPendingFunctors, PollerTypeOK, BatchOver, OwnersExact, NothingUnasked,
           NoDanglingChannel
  <2> QED
    BY <2>1, <2>2, <2>3, <2>4, <2>5, <2>6, <2>7, <2>8, <2>9
       DEF PollerInvariant, WatchesWhatIsAsked
<1>15. ASSUME NextIteration
      PROVE  PollerInvariant'
  <2>1. PollerTypeOK'
    BY <1>a, <1>15 DEF NextIteration, PollerTypeOK
  <2>2. UnbornFresh'
    BY <1>a, <1>15 DEF NextIteration, PollerTypeOK, UnbornFresh
  <2>3. HeldAreAlive'
    BY <1>a, <1>15 DEF NextIteration, PollerTypeOK, HeldAreAlive
  <2>4. BatchOver'
    BY <1>a, <1>15 DEF NextIteration, BatchOver
  <2>5. AttemptsFit'
    BY <1>a, <1>15 DEF NextIteration, PollerTypeOK, HeldAreAlive, AttemptsFit
  <2>6. OwnersExact'
    BY <1>a, <1>15
       DEF NextIteration, PollerTypeOK, UnbornFresh, HeldAreAlive, AttemptsFit,
           OwnersExact, NothingUnasked
  <2>7. NothingUnasked'
    BY <1>a, <1>15 DEF NextIteration, PollerTypeOK, UnbornFresh, NothingUnasked
  <2>8. (Patient => WantedIsWatched)'
    BY <1>a, <1>15
       DEF NextIteration, PollerTypeOK, UnbornFresh, HeldAreAlive, AttemptsFit,
           OwnersExact, WantedIsWatched
  <2>9. NoDanglingChannel'
    BY <1>a, <1>15
       DEF NextIteration, PollerTypeOK, BatchOver, OwnersExact, NothingUnasked,
           NoDanglingChannel
  <2> QED
    BY <2>1, <2>2, <2>3, <2>4, <2>5, <2>6, <2>7, <2>8, <2>9
       DEF PollerInvariant, WatchesWhatIsAsked
<1>16. ASSUME UNCHANGED pollerVars
      PROVE  PollerInvariant'
  <2>1. PollerTypeOK'
    BY <1>a, <1>16 DEF pollerVars, PollerTypeOK
  <2>2. UnbornFresh'
    BY <1>a, <1>16 DEF pollerVars, PollerTypeOK, UnbornFresh
  <2>3. HeldAreAlive'
    BY <1>a, <1>16 DEF pollerVars, PollerTypeOK, HeldAreAlive
  <2>4. BatchOver'
    BY <1>a, <1>16 DEF pollerVars, BatchOver
  <2>5. AttemptsFit'
    BY <1>a, <1>16 DEF pollerVars, PollerTypeOK, HeldAreAlive, AttemptsFit
  <2>6. OwnersExact'
    BY <1>a, <1>16
       DEF pollerVars, PollerTypeOK, UnbornFresh, HeldAreAlive, AttemptsFit,
           OwnersExact, NothingUnasked
  <2>7. NothingUnasked'
    BY <1>a, <1>16 DEF pollerVars, PollerTypeOK, UnbornFresh, NothingUnasked
  <2>8. (Patient => WantedIsWatched)'
    BY <1>a, <1>16
       DEF pollerVars, PollerTypeOK, UnbornFresh, HeldAreAlive, AttemptsFit,
           OwnersExact, WantedIsWatched
  <2>9. NoDanglingChannel'
    BY <1>a, <1>16
       DEF pollerVars, PollerTypeOK, BatchOver, OwnersExact, NothingUnasked,
           NoDanglingChannel
  <2> QED
    BY <2>1, <2>2, <2>3, <2>4, <2>5, <2>6, <2>7, <2>8, <2>9
       DEF PollerInvariant, WatchesWhatIsAsked
<1> QED
  BY <1>1, <1>2, <1>3, <1>4, <1>5, <1>6, <1>7, <1>8, <1>9, <1>10, <1>11, <1>12,
     <1>13, <1>14, <1>15, <1>16
     DEF PollerNext

\* The invariant holds in every reachable state.
THEOREM PollerInvariantHolds == PollerSpec => []PollerInvariant
<1>1. PollerInit => PollerInvariant
  BY NoneAssumption
     DEF PollerInit, Events, Indices, States, Usable, InUse, PollerInvariant, PollerTypeOK,
         UnbornFresh, HeldAreAlive, BatchOver, AttemptsFit, OwnersExact,
         WatchesWhatIsAsked, NothingUnasked, WantedIsWatched, NoDanglingChannel
<1> QED
  BY <1>1, PollerStep, PTL DEF PollerSpec

\* index_, channels_, the kernel's list and the Connectors' states keep their types.
THEOREM PollerTypeCorrect == PollerSpec => []PollerTypeOK
<1>1. PollerInvariant => PollerTypeOK
  BY DEF PollerInvariant
<1> QED
  BY <1>1, PollerInvariantHolds, PTL

\* For any number of channels, Connectors and descriptors and any order of calls,
\* also on descriptors that are closed or belong to others by now, epoll reports
\* a descriptor only to a channel for it that asked for just that, and unless a
\* Connector removes a leftover channel, every channel in use that enabled an
\* event is watched.
THEOREM PollerMirrorsKernel == PollerSpec => []WatchesWhatIsAsked
<1>1. PollerInvariant => WatchesWhatIsAsked
  BY DEF PollerInvariant
<1> QED
  BY <1>1, PollerInvariantHolds, PTL

\* Servers that are destroyed in callbacks, with channels of the batch among
\* theirs, leave no dangling pointer in epoll; if none is, and the Connectors are
\* patient, every destruction waits for the functors and none is in the batch.
THEOREM NeverDangles == PollerSpec => []NoDanglingChannel
<1>1. PollerInvariant => NoDanglingChannel
  BY DEF PollerInvariant
<1> QED
  BY <1>1, PollerInvariantHolds, PTL

=============================================================================
