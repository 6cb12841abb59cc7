------------------------------ MODULE Executor ------------------------------
(***************************************************************************)
(* What an EventLoop promises to the code that hands it functors: a FIFO    *)
(* executor.  A functor handed over with queueInLoop joins a queue, the     *)
(* functors of the queue run one at a time in the order they joined it, and *)
(* runInLoop on the loop's own thread runs its functor on the spot, ahead   *)
(* of everything queued.  No functor runs twice and none is invented.       *)
(* Threads, locks, the eventfd and the batches of doPendingFunctors are all *)
(* invisible here; module EventLoop is shown to implement this one.         *)
(***************************************************************************)
EXTENDS Sequences, Functions

CONSTANT Functors    \* the functors handed to the loop, each at most once

VARIABLES
    queue,           \* accepted and not yet run, oldest first
    executed         \* the functors that have started, in order

vars == <<queue, executed>>

Init ==
    /\ queue = <<>>
    /\ executed = <<>>

Fresh(f) == f \notin Range(queue) \cup Range(executed)

Submit(f) ==
    /\ Fresh(f)
    /\ queue' = Append(queue, f)
    /\ UNCHANGED executed

RunInline(f) ==
    /\ Fresh(f)
    /\ executed' = Append(executed, f)
    /\ UNCHANGED queue

RunOldest ==
    /\ queue # <<>>
    /\ executed' = Append(executed, Head(queue))
    /\ queue' = Tail(queue)

Next ==
    \/ \E f \in Functors : Submit(f) \/ RunInline(f)
    \/ RunOldest

Spec == Init /\ [][Next]_vars

=============================================================================
