----------------------------- MODULE TimerQueue -----------------------------
(***************************************************************************)
(* agora::net::TimerQueue: timers ordered by their expiration on the system  *)
(* clock, and the timerfd, which counts down on the monotonic clock, that    *)
(* wakes the loop for the earliest of them.                                  *)
(*                                                                         *)
(* Times are kept relative to the present: left[a] is expiration - now, and  *)
(* the clock advancing by one lowers it.  The unit is the 100 microseconds   *)
(* that howMuchTimeFromNow gives at least.                                   *)
(***************************************************************************)
EXTENDS Integers, Sequences, FiniteSets

CONSTANTS
    Addrs,           \* where a Timer may be allocated
    Delays,          \* how far ahead runAt and runAfter are asked for
    Intervals,       \* intervals runEvery is asked for
    MaxTimers,       \* bound: timers created
    MaxPending,      \* bound: functors of other threads waiting
    MaxLate,         \* bound: lateness beyond it is not told apart
    MaxJump,         \* bound: how far the system clock is adjusted at once
    MaxJumps         \* bound: how often

ASSUME TimerAssumption ==
    /\ IsFiniteSet(Addrs)          \* memory is
    /\ Delays \subseteq Nat /\ Intervals \subseteq Nat
    /\ MaxTimers \in Nat /\ MaxPending \in Nat
    /\ MaxLate \in Nat /\ MaxJump \in Nat /\ MaxJumps \in Nat
    /\ \A i \in Intervals : i <= MaxLate

VARIABLES
    seq,             \* sequence_ of the Timer at an address, 0 if none
    left,            \* its expiration_, from now
    interval,        \* its interval_
    timers,          \* timers_: the addresses in the ordered set
    countdown,       \* of the timerfd, 0 when it is disarmed
    expired,         \* the timerfd is readable
    reported,        \* its channel is in the batch of the loop
    phase,           \* "loop", in handleRead: "handleRead", "callback", or "gone"
    batch,           \* handleRead's expired
    turn,            \* the next of them to run
    since,           \* time since handleRead read the clock
    pending,         \* functors queued by other threads
    made,            \* s_numCreated
    ids,             \* the TimerIds that were given out
    asking,          \* the one a call of another thread is about to give out
    revoked,         \* history: cancel was run for, or hit, these sequences
    jumps            \* history: adjustments of the system clock

objects == <<seq, left, interval>>
timerfd == <<countdown, expired>>
reading == <<phase, batch, turn, since>>
given == <<made, ids, asking>>
vars == <<objects, timers, timerfd, reported, reading, pending, given, revoked,
          jumps>>

Init ==
    /\ seq = [a \in Addrs |-> 0]
    /\ left = [a \in Addrs |-> 0]
    /\ interval = [a \in Addrs |-> 0]
    /\ timers = {}
    /\ countdown = 0 /\ expired = FALSE /\ reported = FALSE
    /\ phase = "loop" /\ batch = <<>> /\ turn = 1 /\ since = 0
    /\ pending = <<>>
    /\ made = 0 /\ ids = {} /\ asking = {}
    /\ revoked = {} /\ jumps = 0

Maximum(x, y) == IF x >= y THEN x ELSE y
Minimum(x, y) == IF x <= y THEN x ELSE y

\* The first entry of a set of entries, whose times are as in l.
Earliest(s, l) == CHOOSE a \in s : \A b \in s : l[a] <= l[b]

-----------------------------------------------------------------------------
(* The timerfd *)

ArmExactly(time) ==
    /\ countdown' = time
    /\ expired' = FALSE

\* resetTimerfd: settime also takes back an expiration not read yet.
ResetTimerfd(time) ==
    /\ countdown' = Maximum(time, 1)
    /\ expired' = FALSE

ResetForEarliest(s, l) ==
    IF s = {} THEN UNCHANGED timerfd
    ELSE ResetTimerfd(l[Earliest(s, l)])

-----------------------------------------------------------------------------
(* addTimer and cancel *)

\* Code of the program on the loop's thread: a functor or a callback.
OnLoop == phase \in {"loop", "callback"}

RunAfter == {[delay |-> d, interval |-> 0] : d \in Delays}
RunEvery == {[delay |-> i, interval |-> i] : i \in Intervals}

\* A sequence number is taken when the Timer is made; its memory may have been
\* that of an earlier one, whose TimerId is still around.
NewTimer(a, t) ==
    /\ made < MaxTimers
    /\ seq[a] = 0
    /\ made' = made + 1
    /\ seq' = [seq EXCEPT ![a] = made']
    /\ left' = [left EXCEPT ![a] = t.delay]
    /\ interval' = [interval EXCEPT ![a] = t.interval]

InsertArmsWhenEmpty(a, l) ==
    /\ timers' = timers \cup {a}
    /\ IF timers = {} THEN ResetTimerfd(l[a]) ELSE UNCHANGED timerfd

\* addTimerInLoop: the timerfd is set when the new timer is the earliest.
AddTimerInLoop(a, l) ==
    /\ timers' = timers \cup {a}
    /\ IF \A b \in timers : l[a] < l[b]
       THEN ResetTimerfd(l[a])
       ELSE UNCHANGED timerfd

AddTimer(a, t) ==
    /\ OnLoop
    /\ NewTimer(a, t)
    /\ AddTimerInLoop(a, left')
    /\ ids' = ids \cup {[timer |-> a, sequence |-> made']}
    /\ UNCHANGED <<reported, reading, pending, asking, revoked, jumps>>

\* Another thread hands the Timer over ...
AddTimerElsewhere(a, t) ==
    /\ phase # "gone"
    /\ asking = {}
    /\ Len(pending) < MaxPending
    /\ NewTimer(a, t)
    /\ asking' = {a}
    /\ pending' = Append(pending, [add |-> TRUE, timer |-> a, sequence |-> made'])
    /\ UNCHANGED <<timers, timerfd, reported, reading, ids, revoked, jumps>>

\* ... and only then reads its sequence_, when it may have run and been deleted
\* and its memory hold anything.
ReturnId(a) ==
    /\ a \in asking
    /\ asking' = {}
    /\ \E n \in 1 .. MaxTimers :
          /\ seq[a] # 0 => n = seq[a]
          /\ ids' = ids \cup {[timer |-> a, sequence |-> n]}
    /\ UNCHANGED <<objects, timers, timerfd, reported, reading, pending, made,
                   revoked, jumps>>

Free(s) == seq' = [a \in Addrs |-> IF a \in s THEN 0 ELSE seq[a]]

CancelExpiredToo(id) ==
    /\ timers' = timers \ {id.timer}
    /\ Free({id.timer})
    /\ ResetForEarliest(timers', left)
    /\ revoked' = revoked \cup {id.sequence}

\* cancelInLoop finds the timer by its address.  One whose callback is running
\* or due in the same batch is not in timers_, and nothing is done.
CancelInLoop(id) ==
    IF id.timer \in timers
    THEN /\ timers' = timers \ {id.timer}
         /\ Free({id.timer})
         /\ ResetForEarliest(timers', left)
         /\ revoked' = revoked \cup {seq[id.timer]}
    ELSE /\ revoked' = revoked \cup ({id.sequence} \cap {seq[id.timer]})
         /\ UNCHANGED <<seq, timers, timerfd>>

Cancel(id) ==
    /\ OnLoop
    /\ CancelInLoop(id)
    /\ UNCHANGED <<left, interval, reported, reading, pending, given, jumps>>

CancelElsewhere(id) ==
    /\ phase # "gone"
    /\ Len(pending) < MaxPending
    /\ pending' = Append(pending, [add |-> FALSE, timer |-> id.timer,
                                   sequence |-> id.sequence])
    /\ UNCHANGED <<objects, timers, timerfd, reported, reading, given, revoked,
                   jumps>>

RunFunctor ==
    /\ phase = "loop"
    /\ pending # <<>>
    /\ pending' = Tail(pending)
    /\ LET f == Head(pending)
       IN  IF f.add
           THEN AddTimerInLoop(f.timer, left) /\ UNCHANGED <<seq, revoked>>
           ELSE CancelInLoop(f)
    /\ UNCHANGED <<left, interval, reported, reading, given, jumps>>

-----------------------------------------------------------------------------
(* handleRead *)

\* The batch may be reported and the timerfd set anew, and so not be readable,
\* before the channel's turn comes.
Poll ==
    /\ phase = "loop"
    /\ expired
    /\ ~reported
    /\ reported' = TRUE
    /\ UNCHANGED <<objects, timers, timerfd, reading, pending, given, revoked,
                   jumps>>

EarliestIsDue == {a \in timers : \A b \in timers : left[a] <= left[b]}

\* getExpired: those whose time has come by the system clock.
Due == {a \in timers : left[a] <= 0}

\* Entries are ordered by time, and by address among equals.
Ordered(b) ==
    \A i, j \in DOMAIN b :
        i < j => b[i] # b[j] /\ left[b[i]] <= left[b[j]]

HandleRead ==
    /\ phase = "loop"
    /\ reported
    /\ reported' = FALSE
    /\ expired' = FALSE
    /\ since' = 0
    /\ batch' \in [1 .. Cardinality(Due) -> Due]
    /\ Ordered(batch')
    /\ timers' = timers \ Due
    /\ turn' = 1
    /\ phase' = "handleRead"
    /\ UNCHANGED <<objects, countdown, pending, given, revoked, jumps>>

RunTimer ==
    /\ phase = "handleRead"
    /\ turn <= Len(batch)
    /\ phase' = "callback"
    /\ UNCHANGED <<objects, timers, timerfd, reported, batch, turn, since,
                   pending, given, revoked, jumps>>

CallbackReturns ==
    /\ phase = "callback"
    /\ phase' = "handleRead"
    /\ turn' = turn + 1
    /\ UNCHANGED <<objects, timers, timerfd, reported, batch, since, pending,
                   given, revoked, jumps>>

InBatch == {batch[i] : i \in DOMAIN batch}
Repeating == {a \in InBatch : interval[a] > 0}

ResetKeepsTimerfd ==
    /\ phase = "handleRead"
    /\ turn > Len(batch)
    /\ left' = [a \in Addrs |->
                  IF a \in Repeating
                  THEN Maximum(interval[a] - since, -MaxLate)
                  ELSE left[a]]
    /\ timers' = timers \cup Repeating
    /\ Free(InBatch \ Repeating)
    /\ UNCHANGED timerfd
    /\ phase' = "loop"
    /\ batch' = <<>> /\ turn' = 1 /\ since' = 0
    /\ UNCHANGED <<interval, reported, pending, given, revoked, jumps>>

\* reset: repeating timers start again from the time handleRead read, the
\* others are deleted, and the timerfd is set for the earliest.
Reset ==
    /\ phase = "handleRead"
    /\ turn > Len(batch)
    /\ left' = [a \in Addrs |->
                  IF a \in Repeating
                  THEN Maximum(interval[a] - since, -MaxLate)
                  ELSE left[a]]
    /\ timers' = timers \cup Repeating
    /\ Free(InBatch \ Repeating)
    /\ ResetForEarliest(timers', left')
    /\ phase' = "loop"
    /\ batch' = <<>> /\ turn' = 1 /\ since' = 0
    /\ UNCHANGED <<interval, reported, pending, given, revoked, jumps>>

\* ~TimerQueue, with its loop: a Timer of a functor not run yet is leaked.
Destroy ==
    /\ phase = "loop"
    /\ phase' = "gone"
    /\ timers' = {}
    /\ Free(timers)
    /\ pending' = <<>>
    /\ countdown' = 0 /\ expired' = FALSE /\ reported' = FALSE
    /\ UNCHANGED <<left, interval, batch, turn, since, given, revoked, jumps>>

-----------------------------------------------------------------------------
(* The clocks *)

\* The system clock moves on by t, or back.
Shift(t) ==
    /\ left' = [a \in Addrs |-> IF seq[a] = 0 THEN left[a]
                                ELSE Maximum(left[a] - t, -MaxLate)]
    /\ since' = IF phase \in {"loop", "gone"} THEN 0 ELSE Minimum(since + t, MaxLate)

Tick ==
    /\ Shift(1)
    /\ countdown' = Maximum(countdown - 1, 0)
    /\ expired' = (expired \/ countdown = 1)
    /\ UNCHANGED <<seq, interval, timers, reported, phase, batch, turn,
                   pending, given, revoked, jumps>>

AdjustClock ==
    /\ jumps < MaxJumps
    /\ jumps' = jumps + 1
    /\ \E t \in -MaxJump .. MaxJump : t # 0 /\ Shift(t)
    /\ UNCHANGED <<seq, interval, timers, timerfd, reported, phase, batch,
                   turn, pending, given, revoked>>

-----------------------------------------------------------------------------

Calls ==
    \/ \E a \in Addrs, t \in RunAfter \cup RunEvery :
          AddTimer(a, t) \/ AddTimerElsewhere(a, t)
    \/ \E a \in Addrs : ReturnId(a)
    \/ Destroy
    \/ \E id \in ids : Cancel(id) \/ CancelElsewhere(id)

LoopThread ==
    Poll \/ HandleRead \/ RunTimer \/ CallbackReturns \/ Reset

Next == Calls \/ RunFunctor \/ LoopThread \/ Tick \/ AdjustClock

Spec == Init /\ [][Next]_vars

\* Time passes, and the loop's thread polls and returns from callbacks.
Fairness ==
    /\ WF_vars(Tick)
    /\ WF_vars(LoopThread)
    /\ WF_vars(RunFunctor)

FairSpec == Spec /\ Fairness

-----------------------------------------------------------------------------
(* Properties *)

TimerId == [timer : Addrs, sequence : 1 .. MaxTimers]

\* The shape of the state: an armed timerfd counts down from one at least, as
\* zero would disarm it.
TypeOK ==
    /\ seq \in [Addrs -> 0 .. MaxTimers]
    /\ left \in [Addrs -> Int]
    /\ interval \in [Addrs -> Nat]
    /\ timers \subseteq Addrs
    /\ countdown \in Nat
    /\ expired \in BOOLEAN /\ reported \in BOOLEAN
    /\ phase \in {"loop", "handleRead", "callback", "gone"}
    /\ batch \in Seq(Addrs)
    /\ turn \in Nat
    /\ since \in Int
    /\ pending \in Seq([add : BOOLEAN, timer : Addrs, sequence : 1 .. MaxTimers])
    /\ made \in 0 .. MaxTimers /\ ids \subseteq TimerId /\ asking \subseteq Addrs
    /\ revoked \subseteq 1 .. MaxTimers
    /\ jumps \in 0 .. MaxJumps

\* Whenever the loop is out of handleRead and a timer waits, the timerfd wakes
\* it no later than the earliest needs (or one unit from now), as long as the
\* system clock keeps pace with the monotonic one: through timers added and
\* cancelled inside and outside callbacks, and reports that came to nothing.
ArmedForEarliest ==
    phase = "loop" /\ timers # {} /\ jumps = 0 =>
        \/ expired \/ reported
        \/ countdown \in 1 .. Maximum(left[Earliest(timers, left)], 1)

\* Every Timer that is waiting, or expired and not yet done with by handleRead,
\* is alive and is in one place: no cancel, inside a callback or from another
\* thread, deletes one that is still going to be used.
TimersAreAlive ==
    /\ \A a \in timers \cup InBatch : seq[a] # 0
    /\ timers \cap InBatch = {}

\* A callback only runs once its expiration is reached on the clock handleRead
\* read, also when the timerfd fired early because the system clock was set
\* back.
NeverEarly ==
    phase = "callback" => left[batch[turn]] + since <= 0

Waiting(s) == \E a \in timers : seq[a] = s
Running(s) == phase = "callback" /\ seq[batch[turn]] = s

\* A timer that waits runs, again and again if it repeats, unless cancel is
\* called on it or its loop destroyed, whatever the clock is adjusted by.
TimersRun ==
    \A s \in 1 .. MaxTimers :
        Waiting(s) ~> Running(s) \/ s \in revoked \/ phase = "gone"

\* Once cancel has been carried out for a timer, its callback does not start.
NoRunAfterCancel ==
    [][phase' = "callback" /\ phase # "callback"
         => seq[batch[turn]] \notin revoked]_vars


-----------------------------------------------------------------------------
(* The inductive invariant behind TypeOK, ArmedForEarliest, TimersAreAlive   *)
(* and NeverEarly                                                            *)

\* Lateness is told apart up to MaxLate.
LatenessBounded == \A a \in Addrs : left[a] >= -MaxLate

\* There is a batch while handleRead goes through it.
BatchFits ==
    /\ phase \in {"loop", "gone"} => batch = <<>>
    /\ turn >= 1
    /\ phase = "callback" => turn <= Len(batch)

\* A Timer on its way to the loop's thread is alive, in no other place, and on
\* its way once.
AddsFit ==
    \A i \in DOMAIN pending : pending[i].add =>
        /\ seq[pending[i].timer] # 0
        /\ pending[i].timer \notin timers \cup InBatch
        /\ \A j \in DOMAIN pending :
              pending[j].add /\ pending[j].timer = pending[i].timer => i = j

\* All of the batch was due when handleRead read the clock.
BatchWasDue == \A a \in InBatch : left[a] + since <= 0

TimerInvariant ==
    /\ TypeOK
    /\ LatenessBounded
    /\ BatchFits
    /\ AddsFit
    /\ TimersAreAlive
    /\ BatchWasDue
    /\ ArmedForEarliest

=============================================================================
