-------------------------- MODULE TimerQueue_proofs --------------------------
(***************************************************************************)
(* Theorems about TimerQueue, for any timers, delays and bounds.             *)
(***************************************************************************)
EXTENDS TimerQueue, QueueLemmas, FiniteSetTheorems

Functors == [add : BOOLEAN, timer : Addrs, sequence : 1 .. MaxTimers]

-----------------------------------------------------------------------------
(* The earliest timer and the timerfd *)

\* The first of a set of entries is in it, and none is before it.
LEMMA EarliestIs ==
    ASSUME NEW s, NEW l, s # {}, \A a \in s : l[a] \in Int /\ l[a] >= -MaxLate
    PROVE  /\ Earliest(s, l) \in s
           /\ \A b \in s : l[Earliest(s, l)] <= l[b]
<1> DEFINE late == {l[a] + MaxLate : a \in s}
<1>1. MaxLate \in Nat
  BY TimerAssumption
<1>2. late \in SUBSET Nat /\ late # {}
  BY <1>1
<1> HIDE DEF late
<1>3. PICK n \in late : \A k \in late : n <= k
  BY <1>2, LeastOfNaturals
<1>4. PICK a \in s : n = l[a] + MaxLate
  BY <1>3 DEF late
<1>5. \A b \in s : l[a] <= l[b]
  <2>1. SUFFICES ASSUME NEW b \in s
                 PROVE  l[a] <= l[b]
    OBVIOUS
  <2>2. l[a] + MaxLate <= l[b] + MaxLate
    BY <1>3, <1>4 DEF late
  <2> QED
    BY <1>1, <2>2
<1>6. \E x \in s : \A b \in s : l[x] <= l[b]
  BY <1>5
<1> QED
  BY <1>6 DEF Earliest

\* The loop will be woken no later than any of the timers of s needs, whose
\* times are as in l, or one unit from now.
Wakes(cd, ex, rep, s, l) ==
    ex \/ rep \/ (cd >= 1 /\ \A b \in s : cd <= Maximum(l[b], 1))

\* ArmedForEarliest, with the earliest timer left out of it.
LEMMA ArmedIsWakes ==
    TypeOK /\ LatenessBounded =>
        (ArmedForEarliest
            <=> (phase = "loop" /\ timers # {} /\ jumps = 0
                    => Wakes(countdown, expired, reported, timers, left)))
<1> SUFFICES ASSUME TypeOK, LatenessBounded, timers # {}
             PROVE  countdown \in 1 .. Maximum(left[Earliest(timers, left)], 1)
                       <=> countdown >= 1 /\ \A b \in timers :
                              countdown <= Maximum(left[b], 1)
  BY DEF ArmedForEarliest, Wakes
<1>1. \A a \in timers : left[a] \in Int /\ left[a] >= -MaxLate
  BY DEF TypeOK, LatenessBounded
<1> DEFINE e == Earliest(timers, left)
<1>2. e \in timers /\ \A b \in timers : left[e] <= left[b]
  BY <1>1, EarliestIs
<1>3. countdown \in Int
  BY DEF TypeOK
<1> HIDE DEF e
<1>4. \A b \in timers : Maximum(left[e], 1) <= Maximum(left[b], 1)
  BY <1>1, <1>2 DEF Maximum
<1>5. \A b \in timers : Maximum(left[b], 1) \in Int
  BY <1>1 DEF Maximum
<1>6. countdown \in 1 .. Maximum(left[e], 1)
         <=> countdown >= 1 /\ \A b \in timers : countdown <= Maximum(left[b], 1)
  BY <1>2, <1>3, <1>4, <1>5
<1> QED
  BY <1>6 DEF e

\* resetTimerfd for the earliest arms for all.
LEMMA ResetWakes ==
    ASSUME TypeOK, NEW s, NEW l, NEW rep,
           \A a \in s : l[a] \in Int /\ l[a] >= -MaxLate, ResetForEarliest(s, l)
    PROVE  /\ countdown' \in Nat /\ expired' \in BOOLEAN
           /\ s # {} => Wakes(countdown', expired', rep, s, l)
<1>1. CASE s = {}
  BY <1>1 DEF ResetForEarliest, timerfd, TypeOK
<1>2. CASE s # {}
  <2> DEFINE e == Earliest(s, l)
  <2>1. e \in s /\ l[e] \in Int /\ \A b \in s : l[e] <= l[b]
    BY <1>2, EarliestIs
  <2>2. countdown' = Maximum(l[e], 1) /\ expired' = FALSE
    BY <1>2 DEF ResetForEarliest, ResetTimerfd
  <2> HIDE DEF e
  <2>3. countdown' \in Nat /\ countdown' >= 1
    BY <2>1, <2>2 DEF Maximum
  <2>4. \A b \in s : countdown' <= Maximum(l[b], 1)
    BY <2>1, <2>2 DEF Maximum
  <2> QED
    BY <2>2, <2>3, <2>4 DEF Wakes
<1> QED
  BY <1>1, <1>2

\* addTimerInLoop keeps the timerfd armed for all, without looking at it unless
\* the new timer is the earliest.
LEMMA AddWakes ==
    ASSUME TypeOK, NEW a \in Addrs, NEW l \in [Addrs -> Int], NEW rep,
           AddTimerInLoop(a, l),
           timers # {} => Wakes(countdown, expired, rep, timers, l)
    PROVE  /\ timers' = timers \cup {a}
           /\ Wakes(countdown', expired', rep, timers', l)
<1>1. timers' = timers \cup {a} /\ timers \subseteq Addrs /\ countdown \in Nat
  BY DEF AddTimerInLoop, TypeOK
<1>2. CASE \A b \in timers : l[a] < l[b]
  <2>1. countdown' = Maximum(l[a], 1)
    BY <1>2 DEF AddTimerInLoop, ResetTimerfd
  <2>2. countdown' >= 1
    BY <2>1 DEF Maximum
  <2>3. \A b \in timers' : countdown' <= Maximum(l[b], 1)
    BY <1>1, <1>2, <2>1 DEF Maximum
  <2> QED
    BY <1>1, <2>2, <2>3 DEF Wakes
<1>3. CASE ~(\A b \in timers : l[a] < l[b])
  <2>1. countdown' = countdown /\ expired' = expired
    BY <1>3 DEF AddTimerInLoop, timerfd
  <2>2. PICK b \in timers : ~(l[a] < l[b])
    BY <1>3
  <2>3. ASSUME countdown <= Maximum(l[b], 1)
        PROVE  countdown <= Maximum(l[a], 1)
    <3>1. l[b] \in Int /\ l[a] \in Int /\ l[b] <= l[a]
      BY <1>1, <2>2
    <3> QED
      BY <1>1, <2>3, <3>1 DEF Maximum
  <2> QED
    BY <1>1, <2>1, <2>2, <2>3 DEF Wakes
<1> QED
  BY <1>1, <1>2, <1>3


\* The invariant, with what the timerfd promises in terms of all the timers.
Sound ==
    /\ LatenessBounded /\ BatchFits /\ AddsFit /\ TimersAreAlive /\ BatchWasDue
    /\ (phase = "loop" /\ timers # {} /\ jumps = 0
           => Wakes(countdown, expired, reported, timers, left))

LEMMA InvariantIs == TimerInvariant <=> TypeOK /\ Sound
BY ArmedIsWakes DEF TimerInvariant, Sound

-----------------------------------------------------------------------------
(* addTimer and cancel *)

\* The batch is of timers, as is the set of those that wait.
LEMMA BatchOfAddrs ==
    ASSUME TypeOK
    PROVE  InBatch \subseteq Addrs /\ timers \subseteq Addrs
<1>1. batch \in Seq(Addrs) /\ timers \subseteq Addrs
  BY DEF TypeOK
<1>2. \A i \in DOMAIN batch : batch[i] \in Addrs
  BY <1>1, QueuePlaces
<1> QED
  BY <1>1, <1>2 DEF InBatch

\* A new Timer takes a place that was free, and no other changes.
LEMMA NewTimerDoes ==
    ASSUME TypeOK, LatenessBounded, NEW a \in Addrs,
           NEW t \in RunAfter \cup RunEvery, NewTimer(a, t)
    PROVE  /\ seq[a] = 0 /\ made' \in 1 .. MaxTimers
           /\ seq' \in [Addrs -> 0 .. MaxTimers] /\ seq'[a] # 0
           /\ left' \in [Addrs -> Int] /\ left'[a] >= -MaxLate
           /\ interval' \in [Addrs -> Nat]
           /\ \A b \in Addrs : b # a => seq'[b] = seq[b] /\ left'[b] = left[b]
<1>1. t.delay \in Nat /\ t.interval \in Nat
  BY TimerAssumption DEF RunAfter, RunEvery
<1>2. made \in 0 .. MaxTimers /\ MaxTimers \in Nat /\ MaxLate \in Nat
  BY TimerAssumption DEF TypeOK
<1>3. made' \in 1 .. MaxTimers
  BY <1>2 DEF NewTimer
<1> QED
  BY <1>1, <1>2, <1>3 DEF NewTimer, TypeOK

\* What addTimerInLoop does to the timerfd is well-typed.
LEMMA AddTypes ==
    ASSUME TypeOK, NEW a \in Addrs, NEW l \in [Addrs -> Int], AddTimerInLoop(a, l)
    PROVE  /\ countdown' \in Nat /\ expired' \in BOOLEAN
           /\ timers' = timers \cup {a} /\ timers' \subseteq Addrs
<1>1. Maximum(l[a], 1) \in Nat
  BY DEF Maximum
<1> QED
  BY <1>1 DEF AddTimerInLoop, ResetTimerfd, timerfd, TypeOK

LEMMA AddTimerStep ==
    ASSUME TypeOK, Sound, NEW a \in Addrs, NEW t \in RunAfter \cup RunEvery,
           AddTimer(a, t)
    PROVE  TypeOK' /\ Sound'
<1>1. /\ NewTimer(a, t) /\ AddTimerInLoop(a, left')
      /\ ids' = ids \cup {[timer |-> a, sequence |-> made']}
      /\ UNCHANGED <<reported, phase, batch, turn, since, pending, asking,
                     revoked, jumps>>
  BY DEF AddTimer, reading
<1>2. /\ seq[a] = 0 /\ made' \in 1 .. MaxTimers
      /\ seq' \in [Addrs -> 0 .. MaxTimers] /\ seq'[a] # 0
      /\ left' \in [Addrs -> Int] /\ left'[a] >= -MaxLate
      /\ interval' \in [Addrs -> Nat]
      /\ \A b \in Addrs : b # a => seq'[b] = seq[b] /\ left'[b] = left[b]
  BY <1>1, NewTimerDoes DEF Sound
<1>3. /\ countdown' \in Nat /\ expired' \in BOOLEAN
      /\ timers' = timers \cup {a} /\ timers' \subseteq Addrs
  BY <1>1, <1>2, AddTypes
<1>4. TypeOK'
  <2>1. ids' \subseteq TimerId /\ made' \in 0 .. MaxTimers
    BY <1>1, <1>2, TimerAssumption DEF TypeOK, TimerId
  <2> QED
    BY <1>1, <1>2, <1>3, <2>1 DEF TypeOK
<1>5. InBatch' = InBatch /\ InBatch \subseteq Addrs /\ timers \subseteq Addrs
  BY <1>1, BatchOfAddrs DEF InBatch
<1>6. a \notin InBatch /\ a \notin timers
  BY <1>2 DEF Sound, TimersAreAlive
<1>7. \A i \in DOMAIN pending : pending[i].timer \in Addrs
  <2>0. pending \in Seq(Functors)
    BY DEF TypeOK, Functors
  <2>1. \A i \in DOMAIN pending : pending[i] \in Functors
    BY <2>0, QueuePlaces
  <2> QED
    BY <2>1 DEF Functors
<1>8. LatenessBounded' /\ BatchFits' /\ TimersAreAlive' /\ BatchWasDue'
  BY <1>1, <1>2, <1>3, <1>5, <1>6
     DEF Sound, LatenessBounded, BatchFits, TimersAreAlive, BatchWasDue
<1>9. AddsFit'
  BY <1>1, <1>2, <1>3, <1>5, <1>7 DEF Sound, AddsFit
<1>10. phase' = "loop" /\ timers' # {} /\ jumps' = 0
          => Wakes(countdown', expired', reported', timers', left')
  <2>1. SUFFICES ASSUME phase = "loop", jumps = 0
                 PROVE  Wakes(countdown', expired', reported, timers', left')
    BY <1>1
  <2>2. timers # {} => Wakes(countdown, expired, reported, timers, left')
    <3>1. timers # {} => Wakes(countdown, expired, reported, timers, left)
      BY <2>1 DEF Sound
    <3>2. \A b \in timers : left'[b] = left[b]
      BY <1>2, <1>5, <1>6
    <3> QED
      BY <3>1, <3>2 DEF Wakes
  <2> QED
    BY <1>1, <1>2, <2>2, AddWakes
<1> QED
  BY <1>4, <1>8, <1>9, <1>10 DEF Sound

LEMMA AddTimerElsewhereStep ==
    ASSUME TypeOK, Sound, NEW a \in Addrs, NEW t \in RunAfter \cup RunEvery,
           AddTimerElsewhere(a, t)
    PROVE  TypeOK' /\ Sound'
<1> DEFINE f == [add |-> TRUE, timer |-> a, sequence |-> made']
<1>1. /\ NewTimer(a, t) /\ asking' = {a}
      /\ pending' = Append(pending, f)
      /\ UNCHANGED <<timers, countdown, expired, reported, phase, batch, turn,
                     since, ids, revoked, jumps>>
  BY DEF AddTimerElsewhere, timerfd, reading
<1>2. /\ seq[a] = 0 /\ made' \in 1 .. MaxTimers
      /\ seq' \in [Addrs -> 0 .. MaxTimers] /\ seq'[a] # 0
      /\ left' \in [Addrs -> Int] /\ left'[a] >= -MaxLate
      /\ interval' \in [Addrs -> Nat]
      /\ \A b \in Addrs : b # a => seq'[b] = seq[b] /\ left'[b] = left[b]
  BY <1>1, NewTimerDoes DEF Sound
<1>3. pending \in Seq(Functors) /\ f \in Functors /\ f.timer = a /\ f.add
  BY <1>2 DEF TypeOK, Functors
<1> HIDE DEF f
<1>4. /\ pending' \in Seq(Functors) /\ Len(pending') = Len(pending) + 1
      /\ \A i \in 1 .. Len(pending) : pending'[i] = pending[i]
      /\ pending'[Len(pending) + 1] = f
  BY <1>1, <1>3, QueueAppend
<1>5. TypeOK'
  <2>1. made' \in 0 .. MaxTimers /\ pending' \in Seq(Functors) /\ asking' \subseteq Addrs
    BY <1>1, <1>2, <1>4
  <2> QED
    BY <1>1, <1>2, <2>1 DEF TypeOK, Functors
<1>6. InBatch' = InBatch /\ InBatch \subseteq Addrs /\ timers \subseteq Addrs
  BY <1>1, BatchOfAddrs DEF InBatch
<1>7. a \notin InBatch /\ a \notin timers
  BY <1>2 DEF Sound, TimersAreAlive
<1>8. LatenessBounded' /\ BatchFits' /\ TimersAreAlive' /\ BatchWasDue'
  BY <1>1, <1>2, <1>6, <1>7
     DEF Sound, LatenessBounded, BatchFits, TimersAreAlive, BatchWasDue
<1>9. AddsFit'
  <2>1. /\ Len(pending) \in Nat /\ DOMAIN pending = 1 .. Len(pending)
        /\ \A i \in DOMAIN pending : pending[i].timer \in Addrs
    <3>1. \A i \in DOMAIN pending : pending[i] \in Functors
      BY <1>3, QueuePlaces
    <3> QED
      BY <1>3, <3>1, QueuePlaces DEF Functors
  <2>2. DOMAIN pending' = 1 .. Len(pending) + 1
    BY <1>4, QueuePlaces
  <2>3. ASSUME NEW i \in DOMAIN pending, pending[i].add
        PROVE  /\ pending[i].timer # a
               /\ seq[pending[i].timer] # 0
               /\ pending[i].timer \notin timers \cup InBatch
               /\ \A j \in DOMAIN pending :
                     pending[j].add /\ pending[j].timer = pending[i].timer => i = j
    BY <1>2, <2>3 DEF Sound, AddsFit
  <2>4. \A i \in DOMAIN pending' : i \in DOMAIN pending \/ i = Len(pending) + 1
    BY <2>1, <2>2
  <2> QED
    BY <1>1, <1>2, <1>3, <1>4, <1>6, <1>7, <2>1, <2>3, <2>4 DEF AddsFit
<1>10. phase' = "loop" /\ timers' # {} /\ jumps' = 0
          => Wakes(countdown', expired', reported', timers', left')
  <2>1. \A b \in timers : left'[b] = left[b]
    BY <1>2, <1>6, <1>7
  <2> QED
    BY <1>1, <2>1 DEF Sound, Wakes
<1> QED
  BY <1>5, <1>8, <1>9, <1>10 DEF Sound


LEMMA ReturnIdStep ==
    ASSUME TypeOK, Sound, NEW a \in Addrs, ReturnId(a)
    PROVE  TypeOK' /\ Sound'
<1>1. /\ asking' = {}
      /\ \E n \in 1 .. MaxTimers : ids' = ids \cup {[timer |-> a, sequence |-> n]}
      /\ UNCHANGED <<seq, left, interval, timers, countdown, expired, reported,
                     phase, batch, turn, since, pending, made, revoked, jumps>>
  BY DEF ReturnId, objects, timerfd, reading
<1>2. TypeOK'
  <2>1. ids' \subseteq TimerId
    BY <1>1 DEF TypeOK, TimerId
  <2> QED
    BY <1>1, <2>1 DEF TypeOK
<1>3. InBatch' = InBatch
  BY <1>1 DEF InBatch
<1> QED
  BY <1>1, <1>2, <1>3
     DEF Sound, LatenessBounded, BatchFits, AddsFit, TimersAreAlive, BatchWasDue,
         Wakes

\* cancelInLoop takes a waiting timer out and deletes it, or does nothing.
LEMMA CancelDoes ==
    ASSUME TypeOK, LatenessBounded, TimersAreAlive,
           NEW id, id.timer \in Addrs, id.sequence \in 1 .. MaxTimers,
           CancelInLoop(id), NEW rep
    PROVE  /\ timers' \subseteq timers /\ seq' \in [Addrs -> 0 .. MaxTimers]
           /\ countdown' \in Nat /\ expired' \in BOOLEAN
           /\ revoked' \subseteq 1 .. MaxTimers
           /\ \A b \in Addrs : b \notin timers \/ b \in timers' => seq'[b] = seq[b]
           /\ timers' # {} /\ Wakes(countdown, expired, rep, timers, left)
                 => Wakes(countdown', expired', rep, timers', left)
<1>a. /\ \A b \in timers : left[b] \in Int /\ left[b] >= -MaxLate
      /\ seq \in [Addrs -> 0 .. MaxTimers] /\ timers \subseteq Addrs
      /\ revoked \subseteq 1 .. MaxTimers
  BY DEF TypeOK, LatenessBounded
<1>1. CASE id.timer \in timers
  <2> DEFINE s == timers \ {id.timer}
  <2>1. /\ timers' = s /\ Free({id.timer})
        /\ ResetForEarliest(s, left)
        /\ revoked' = revoked \cup {seq[id.timer]}
    BY <1>1 DEF CancelInLoop
  <2>2. \A b \in s : left[b] \in Int /\ left[b] >= -MaxLate
    BY <1>a
  <2> HIDE DEF s
  <2>3. /\ countdown' \in Nat /\ expired' \in BOOLEAN
        /\ s # {} => Wakes(countdown', expired', rep, s, left)
    BY <2>1, <2>2, ResetWakes
  <2>4. seq[id.timer] \in 1 .. MaxTimers
    BY <1>a, <1>1, TimerAssumption DEF TimersAreAlive
  <2>5. /\ seq' \in [Addrs -> 0 .. MaxTimers]
        /\ \A b \in Addrs : b # id.timer => seq'[b] = seq[b]
    BY <1>a, <2>1, TimerAssumption DEF Free
  <2>6. s \subseteq timers /\ \A b \in timers : b \notin s => b = id.timer
    BY DEF s
  <2>7. id.timer \notin s
    BY DEF s
  <2> QED
    BY <1>a, <1>1, <2>1, <2>3, <2>4, <2>5, <2>6, <2>7
<1>2. CASE id.timer \notin timers
  BY <1>2, <1>a DEF CancelInLoop, timerfd, TypeOK
<1> QED
  BY <1>1, <1>2

LEMMA CancelStep ==
    ASSUME TypeOK, Sound, NEW id \in ids, Cancel(id)
    PROVE  TypeOK' /\ Sound'
<1>1. /\ CancelInLoop(id)
      /\ UNCHANGED <<left, interval, reported, phase, batch, turn, since, pending,
                     made, ids, asking, jumps>>
  BY DEF Cancel, reading, given
<1>2. id.timer \in Addrs /\ id.sequence \in 1 .. MaxTimers
  BY DEF TypeOK, TimerId
<1>3. /\ timers' \subseteq timers /\ seq' \in [Addrs -> 0 .. MaxTimers]
      /\ countdown' \in Nat /\ expired' \in BOOLEAN
      /\ revoked' \subseteq 1 .. MaxTimers
      /\ \A b \in Addrs : b \notin timers \/ b \in timers' => seq'[b] = seq[b]
      /\ timers' # {} /\ Wakes(countdown, expired, reported, timers, left)
            => Wakes(countdown', expired', reported, timers', left)
  BY <1>1, <1>2, CancelDoes DEF Sound
<1>4. TypeOK'
  BY <1>1, <1>3 DEF TypeOK
<1>5. /\ InBatch' = InBatch /\ InBatch \subseteq Addrs /\ timers \subseteq Addrs
  BY <1>1, BatchOfAddrs DEF InBatch
<1>6. \A i \in DOMAIN pending : pending[i].timer \in Addrs
  <2>1. pending \in Seq(Functors)
    BY DEF TypeOK, Functors
  <2>2. \A i \in DOMAIN pending : pending[i] \in Functors
    BY <2>1, QueuePlaces
  <2> QED
    BY <2>2 DEF Functors
<1>7. LatenessBounded' /\ BatchFits' /\ BatchWasDue' /\ TimersAreAlive'
  BY <1>1, <1>3, <1>5
     DEF Sound, LatenessBounded, BatchFits, BatchWasDue, TimersAreAlive
<1>8. AddsFit'
  BY <1>1, <1>3, <1>5, <1>6 DEF Sound, AddsFit
<1>9. phase' = "loop" /\ timers' # {} /\ jumps' = 0
         => Wakes(countdown', expired', reported', timers', left')
  <2>1. timers' # {} => timers # {}
    BY <1>3
  <2> QED
    BY <1>1, <1>3, <2>1 DEF Sound
<1> QED
  BY <1>4, <1>7, <1>8, <1>9 DEF Sound

LEMMA CancelElsewhereStep ==
    ASSUME TypeOK, Sound, NEW id \in ids, CancelElsewhere(id)
    PROVE  TypeOK' /\ Sound'
<1> DEFINE f == [add |-> FALSE, timer |-> id.timer, sequence |-> id.sequence]
<1>1. /\ pending' = Append(pending, f)
      /\ UNCHANGED <<seq, left, interval, timers, countdown, expired, reported,
                     phase, batch, turn, since, made, ids, asking, revoked, jumps>>
  BY DEF CancelElsewhere, objects, timerfd, reading, given
<1>2. pending \in Seq(Functors) /\ f \in Functors /\ ~f.add
  BY DEF TypeOK, Functors, TimerId
<1> HIDE DEF f
<1>3. /\ pending' \in Seq(Functors) /\ Len(pending') = Len(pending) + 1
      /\ \A i \in 1 .. Len(pending) : pending'[i] = pending[i]
      /\ pending'[Len(pending) + 1] = f
  BY <1>1, <1>2, QueueAppend
<1>4. TypeOK'
  BY <1>1, <1>3 DEF TypeOK, Functors
<1>5. InBatch' = InBatch
  BY <1>1 DEF InBatch
<1>6. AddsFit'
  <2>1. Len(pending) \in Nat /\ DOMAIN pending = 1 .. Len(pending)
    BY <1>2, QueuePlaces
  <2>2. DOMAIN pending' = 1 .. Len(pending) + 1
    BY <1>3, QueuePlaces
  <2>3. \A i \in DOMAIN pending' :
           i = Len(pending) + 1 \/ (i \in DOMAIN pending /\ pending'[i] = pending[i])
    BY <1>3, <2>1, <2>2
  <2> QED
    BY <1>1, <1>2, <1>3, <1>5, <2>3 DEF Sound, AddsFit
<1> QED
  BY <1>1, <1>4, <1>5, <1>6
     DEF Sound, LatenessBounded, BatchFits, TimersAreAlive, BatchWasDue, Wakes

\* A functor of another thread has its turn.
LEMMA RunFunctorStep ==
    ASSUME TypeOK, Sound, RunFunctor
    PROVE  TypeOK' /\ Sound'
<1> DEFINE f == Head(pending)
<1>1. /\ phase = "loop" /\ pending # <<>> /\ pending' = Tail(pending)
      /\ \/ f.add /\ AddTimerInLoop(f.timer, left) /\ UNCHANGED <<seq, revoked>>
         \/ ~f.add /\ CancelInLoop(f)
      /\ UNCHANGED <<left, interval, reported, phase, batch, turn, since, made,
                     ids, asking, jumps>>
  BY DEF RunFunctor, reading, given
<1>2. pending \in Seq(Functors)
  BY DEF TypeOK, Functors
<1>3. /\ f \in Functors /\ f = pending[1] /\ pending' \in Seq(Functors)
      /\ Len(pending) >= 1 /\ Len(pending') = Len(pending) - 1
      /\ \A i \in 1 .. Len(pending) - 1 : pending'[i] = pending[i + 1]
  BY <1>1, <1>2, QueueTail
<1>4. /\ f.timer \in Addrs /\ f.sequence \in 1 .. MaxTimers
  BY <1>3 DEF Functors
<1>5. /\ Len(pending) \in Nat /\ DOMAIN pending = 1 .. Len(pending)
      /\ DOMAIN pending' = 1 .. Len(pending')
      /\ \A i \in DOMAIN pending : pending[i].timer \in Addrs
  <2>1. \A i \in DOMAIN pending : pending[i] \in Functors
    BY <1>2, QueuePlaces
  <2> QED
    BY <1>2, <1>3, <2>1, QueuePlaces DEF Functors
<1>6. \A i \in DOMAIN pending' : /\ i \in Nat /\ i + 1 \in DOMAIN pending /\ i + 1 # 1
                                 /\ pending'[i] = pending[i + 1]
  BY <1>3, <1>5
<1>7. 1 \in DOMAIN pending
  BY <1>3, <1>5
<1> HIDE DEF f
<1>8. /\ InBatch' = InBatch /\ InBatch = {} /\ timers \subseteq Addrs
      /\ left \in [Addrs -> Int]
  BY <1>1 DEF InBatch, TypeOK, Sound, BatchFits
<1>9. LatenessBounded' /\ BatchFits' /\ BatchWasDue'
  BY <1>1, <1>8 DEF Sound, LatenessBounded, BatchFits, BatchWasDue
<1>10. CASE f.add /\ AddTimerInLoop(f.timer, left) /\ UNCHANGED <<seq, revoked>>
  <2>1. /\ countdown' \in Nat /\ expired' \in BOOLEAN
        /\ timers' = timers \cup {f.timer} /\ timers' \subseteq Addrs
    BY <1>4, <1>8, <1>10, AddTypes
  <2>2. TypeOK'
    BY <1>1, <1>3, <1>10, <2>1 DEF TypeOK, Functors
  <2>3. /\ seq[f.timer] # 0
        /\ \A j \in DOMAIN pending :
              pending[j].add /\ pending[j].timer = f.timer => j = 1
    BY <1>3, <1>7, <1>10 DEF Sound, AddsFit
  <2>4. TimersAreAlive'
    BY <1>8, <1>10, <2>1, <2>3 DEF Sound, TimersAreAlive
  <2>5. AddsFit'
    <3>1. ASSUME NEW i \in DOMAIN pending', pending'[i].add
          PROVE  /\ seq'[pending'[i].timer] # 0
                 /\ pending'[i].timer \notin timers' \cup InBatch'
                 /\ \A j \in DOMAIN pending' :
                       pending'[j].add /\ pending'[j].timer = pending'[i].timer
                          => i = j
      <4>1. i + 1 \in DOMAIN pending /\ pending[i + 1].add /\ i + 1 # 1
        BY <1>6, <3>1
      <4>2. /\ seq[pending[i + 1].timer] # 0
            /\ pending[i + 1].timer \notin timers \cup InBatch
            /\ \A j \in DOMAIN pending :
                  pending[j].add /\ pending[j].timer = pending[i + 1].timer
                     => i + 1 = j
        BY <4>1 DEF Sound, AddsFit
      <4>3. pending[i + 1].timer # f.timer
        BY <2>3, <4>1
      <4>4. ASSUME NEW j \in DOMAIN pending', pending'[j].add,
                   pending'[j].timer = pending'[i].timer
            PROVE  i = j
        <5>1. i + 1 = j + 1
          BY <1>6, <3>1, <4>2, <4>4
        <5> QED
          BY <1>6, <5>1
      <4> QED
        BY <1>6, <1>8, <1>10, <2>1, <4>2, <4>3, <4>4
    <3> QED
      BY <3>1 DEF AddsFit
  <2>6. jumps' = 0 => Wakes(countdown', expired', reported', timers', left')
    <3>1. SUFFICES ASSUME jumps = 0
                   PROVE  Wakes(countdown', expired', reported, timers', left)
      BY <1>1
    <3>2. timers # {} => Wakes(countdown, expired, reported, timers, left)
      BY <1>1, <3>1 DEF Sound
    <3> QED
      BY <1>4, <1>8, <1>10, <3>2, AddWakes
  <2> QED
    BY <1>9, <2>2, <2>4, <2>5, <2>6 DEF Sound
<1>11. CASE ~f.add /\ CancelInLoop(f)
  <2>1. /\ timers' \subseteq timers /\ seq' \in [Addrs -> 0 .. MaxTimers]
        /\ countdown' \in Nat /\ expired' \in BOOLEAN
        /\ revoked' \subseteq 1 .. MaxTimers
        /\ \A b \in Addrs : b \notin timers \/ b \in timers' => seq'[b] = seq[b]
        /\ timers' # {} /\ Wakes(countdown, expired, reported, timers, left)
              => Wakes(countdown', expired', reported, timers', left)
    BY <1>4, <1>11, CancelDoes DEF Sound
  <2>2. TypeOK'
    BY <1>1, <1>3, <2>1 DEF TypeOK, Functors
  <2>3. TimersAreAlive'
    BY <1>8, <2>1 DEF Sound, TimersAreAlive
  <2>4. AddsFit'
    <3>1. ASSUME NEW i \in DOMAIN pending', pending'[i].add
          PROVE  /\ seq'[pending'[i].timer] # 0
                 /\ pending'[i].timer \notin timers' \cup InBatch'
                 /\ \A j \in DOMAIN pending' :
                       pending'[j].add /\ pending'[j].timer = pending'[i].timer
                          => i = j
      <4>1. i + 1 \in DOMAIN pending /\ pending[i + 1].add
        BY <1>6, <3>1
      <4>2. /\ seq[pending[i + 1].timer] # 0
            /\ pending[i + 1].timer \notin timers \cup InBatch
            /\ \A j \in DOMAIN pending :
                  pending[j].add /\ pending[j].timer = pending[i + 1].timer
                     => i + 1 = j
        BY <4>1 DEF Sound, AddsFit
      <4>3. ASSUME NEW j \in DOMAIN pending', pending'[j].add,
                   pending'[j].timer = pending'[i].timer
            PROVE  i = j
        <5>1. i + 1 = j + 1
          BY <1>6, <3>1, <4>2, <4>3
        <5> QED
          BY <1>6, <5>1
      <4> QED
        BY <1>5, <1>6, <1>8, <2>1, <4>1, <4>2, <4>3
    <3> QED
      BY <3>1 DEF AddsFit
  <2>5. timers' # {} /\ jumps' = 0
           => Wakes(countdown', expired', reported', timers', left')
    <3>1. timers' # {} => timers # {}
      BY <2>1
    <3> QED
      BY <1>1, <2>1, <3>1 DEF Sound
  <2> QED
    BY <1>9, <2>2, <2>3, <2>4, <2>5 DEF Sound
<1> QED
  BY <1>1, <1>10, <1>11


-----------------------------------------------------------------------------
(* handleRead *)

\* The poll, the start of a callback and its return move no timer.
LEMMA LoopMovesStep ==
    ASSUME TypeOK, Sound, Poll \/ RunTimer \/ CallbackReturns
    PROVE  TypeOK' /\ Sound'
<1>1. /\ UNCHANGED <<seq, left, interval, timers, countdown, expired, batch, since,
                     pending, made, ids, asking, revoked, jumps>>
      /\ \/ phase = "loop" /\ reported' = TRUE /\ UNCHANGED <<phase, turn>>
         \/ /\ phase' = "callback" /\ phase = "handleRead" /\ turn <= Len(batch)
            /\ UNCHANGED <<reported, turn>>
         \/ /\ phase' = "handleRead" /\ phase = "callback" /\ turn' = turn + 1
            /\ UNCHANGED reported
  BY DEF Poll, RunTimer, CallbackReturns, objects, timerfd, reading, given
<1>2. TypeOK'
  <2>1. reported' \in BOOLEAN /\ expired' \in BOOLEAN
    BY <1>1 DEF TypeOK
  <2>2. turn' \in Nat /\ phase' \in {"loop", "handleRead", "callback", "gone"}
    BY <1>1 DEF TypeOK
  <2> QED
    BY <1>1, <2>1, <2>2 DEF TypeOK
<1>3. InBatch' = InBatch /\ turn \in Nat
  BY <1>1 DEF InBatch, TypeOK
<1>4. BatchFits'
  BY <1>1, <1>3 DEF Sound, BatchFits
<1> QED
  BY <1>1, <1>2, <1>3, <1>4
     DEF Sound, LatenessBounded, AddsFit, TimersAreAlive, BatchWasDue, Wakes

\* getExpired takes all that is due.
LEMMA HandleReadStep ==
    ASSUME TypeOK, Sound, HandleRead
    PROVE  TypeOK' /\ Sound'
<1> DEFINE n == Cardinality(Due)
<1>1. /\ phase = "loop" /\ phase' = "handleRead"
      /\ reported' = FALSE /\ expired' = FALSE /\ since' = 0 /\ turn' = 1
      /\ batch' \in [1 .. n -> Due]
      /\ timers' = timers \ Due
      /\ UNCHANGED <<seq, left, interval, countdown, pending, made, ids, asking,
                     revoked, jumps>>
  BY DEF HandleRead, objects, given
<1>2. n \in Nat
  <2>1. Due \in SUBSET Addrs
    BY DEF Due, TypeOK
  <2> QED
    BY <2>1, TimerAssumption, FS_Subset, FS_CardinalityType
<1> HIDE DEF n
<1>3. Due \subseteq timers /\ timers \subseteq Addrs /\ \A a \in Due : left[a] <= 0
  BY DEF Due, TypeOK
<1>4. batch' \in Seq(Addrs)
  BY <1>1, <1>2, <1>3
<1>5. InBatch' \subseteq Due
  <2>1. DOMAIN batch' = 1 .. n /\ \A i \in 1 .. n : batch'[i] \in Due
    BY <1>1
  <2> QED
    BY <2>1 DEF InBatch
<1>6. TypeOK'
  <2>1. reported' \in BOOLEAN /\ expired' \in BOOLEAN
    BY <1>1
  <2>2. timers' \subseteq Addrs /\ turn' \in Nat /\ since' \in Int
    BY <1>1, <1>3
  <2> QED
    BY <1>1, <1>4, <2>1, <2>2 DEF TypeOK
<1>7. LatenessBounded' /\ BatchFits'
  BY <1>1 DEF Sound, LatenessBounded, BatchFits
<1>8. TimersAreAlive'
  BY <1>1, <1>3, <1>5 DEF Sound, TimersAreAlive
<1>9. AddsFit'
  BY <1>1, <1>3, <1>5 DEF Sound, AddsFit
<1>10. BatchWasDue'
  <2>1. \A a \in InBatch' : left[a] \in Int /\ left[a] <= 0
    BY <1>3, <1>5 DEF TypeOK
  <2> QED
    BY <1>1, <2>1 DEF BatchWasDue
<1> QED
  BY <1>1, <1>6, <1>7, <1>8, <1>9, <1>10 DEF Sound

\* reset: those that repeat wait again, the others are deleted.
LEMMA ResetStep ==
    ASSUME TypeOK, Sound, Reset
    PROVE  TypeOK' /\ Sound'
<1>1. /\ phase = "handleRead" /\ phase' = "loop"
      /\ left' = [a \in Addrs |-> IF a \in Repeating
                                  THEN Maximum(interval[a] - since, -MaxLate)
                                  ELSE left[a]]
      /\ timers' = timers \cup Repeating
      /\ Free(InBatch \ Repeating)
      /\ ResetForEarliest(timers', left')
      /\ batch' = <<>> /\ turn' = 1 /\ since' = 0
      /\ UNCHANGED <<interval, reported, pending, made, ids, asking, revoked, jumps>>
  BY DEF Reset, given
<1>2. /\ InBatch \subseteq Addrs /\ Repeating \subseteq InBatch /\ InBatch' = {}
      /\ timers \subseteq Addrs
  <2>1. InBatch \subseteq Addrs /\ timers \subseteq Addrs
    BY QueuePlaces DEF InBatch, TypeOK
  <2>2. InBatch' = {}
    BY <1>1 DEF InBatch
  <2> QED
    BY <2>1, <2>2 DEF Repeating
<1>3. /\ left' \in [Addrs -> Int] /\ LatenessBounded'
  <2>1. \A a \in Addrs : /\ interval[a] - since \in Int /\ -MaxLate \in Int
                         /\ left[a] \in Int /\ left[a] >= -MaxLate
    BY TimerAssumption DEF TypeOK, Sound, LatenessBounded
  <2>2. \A a \in Addrs : /\ Maximum(interval[a] - since, -MaxLate) \in Int
                         /\ Maximum(interval[a] - since, -MaxLate) >= -MaxLate
    BY <2>1 DEF Maximum
  <2> QED
    BY <1>1, <2>1, <2>2 DEF LatenessBounded
<1>4. timers' \subseteq Addrs
  BY <1>1, <1>2
<1>5. \A a \in timers' : left'[a] \in Int /\ left'[a] >= -MaxLate
  BY <1>3, <1>4 DEF LatenessBounded
<1>6. /\ countdown' \in Nat /\ expired' \in BOOLEAN
      /\ timers' # {} => Wakes(countdown', expired', reported, timers', left')
  BY <1>1, <1>5, ResetWakes
<1>7. /\ seq' \in [Addrs -> 0 .. MaxTimers]
      /\ \A b \in Addrs : b \notin InBatch \/ b \in Repeating => seq'[b] = seq[b]
  BY <1>1, TimerAssumption DEF Free, TypeOK
<1>8. TypeOK'
  <2>1. <<>> \in Seq(Addrs) /\ 0 \in Int /\ 1 \in Nat
    BY QueueEmpty
  <2> QED
    BY <1>1, <1>3, <1>4, <1>6, <1>7, <2>1 DEF TypeOK
<1>9. BatchFits' /\ BatchWasDue'
  BY <1>1, <1>2 DEF BatchFits, BatchWasDue
<1>10. TimersAreAlive'
  BY <1>1, <1>2, <1>7 DEF Sound, TimersAreAlive
<1>11. AddsFit'
  <2>0. pending \in Seq(Functors)
    BY DEF TypeOK, Functors
  <2>1. \A i \in DOMAIN pending : pending[i].timer \in Addrs
    <3>1. \A i \in DOMAIN pending : pending[i] \in Functors
      BY <2>0, QueuePlaces
    <3> QED
      BY <3>1 DEF Functors
  <2> QED
    BY <1>1, <1>2, <1>7, <2>1 DEF Sound, AddsFit
<1> QED
  BY <1>1, <1>3, <1>6, <1>8, <1>9, <1>10, <1>11 DEF Sound

\* ~TimerQueue deletes those that wait.
LEMMA DestroyStep ==
    ASSUME TypeOK, Sound, Destroy
    PROVE  TypeOK' /\ Sound'
<1>1. /\ phase = "loop" /\ phase' = "gone" /\ timers' = {} /\ Free(timers)
      /\ pending' = <<>> /\ countdown' = 0 /\ expired' = FALSE /\ reported' = FALSE
      /\ UNCHANGED <<left, interval, batch, turn, since, made, ids, asking,
                     revoked, jumps>>
  BY DEF Destroy, given
<1>2. <<>> \in Seq(Functors) /\ DOMAIN <<>> = {}
  BY QueueEmpty
<1>3. seq' \in [Addrs -> 0 .. MaxTimers]
  BY <1>1, TimerAssumption DEF Free, TypeOK
<1>4. TypeOK'
  BY <1>1, <1>2, <1>3 DEF TypeOK, Functors
<1>5. InBatch' = {}
  BY <1>1 DEF InBatch, Sound, BatchFits
<1> QED
  BY <1>1, <1>2, <1>4, <1>5
     DEF Sound, LatenessBounded, BatchFits, AddsFit, TimersAreAlive, BatchWasDue

-----------------------------------------------------------------------------
(* The clocks *)

\* Whatever the clock is moved by, the batch stays due.
LEMMA ShiftDoes ==
    ASSUME TypeOK, LatenessBounded, TimersAreAlive, BatchFits, BatchWasDue,
           NEW t \in Int, Shift(t)
    PROVE  /\ left' \in [Addrs -> Int] /\ since' \in Int
           /\ \A a \in Addrs : left'[a] >= -MaxLate
           /\ \A a \in InBatch : left'[a] + since' <= 0
<1>1. /\ \A a \in Addrs : left[a] \in Int /\ left[a] - t \in Int
                          /\ left[a] >= -MaxLate
      /\ since \in Int /\ MaxLate \in Nat /\ -MaxLate \in Int
  BY TimerAssumption DEF TypeOK, LatenessBounded
<1>2. /\ left' = [a \in Addrs |-> IF seq[a] = 0 THEN left[a]
                                  ELSE Maximum(left[a] - t, -MaxLate)]
      /\ since' = IF phase \in {"loop", "gone"} THEN 0 ELSE Minimum(since + t, MaxLate)
  BY DEF Shift
<1>3. \A a \in Addrs : /\ Maximum(left[a] - t, -MaxLate) \in Int
                       /\ Maximum(left[a] - t, -MaxLate) >= -MaxLate
  BY <1>1 DEF Maximum
<1>4. left' \in [Addrs -> Int] /\ \A a \in Addrs : left'[a] >= -MaxLate
  BY <1>1, <1>2, <1>3
<1>5. since' \in Int
  BY <1>1, <1>2 DEF Minimum
<1>6. ASSUME NEW a \in InBatch
      PROVE  left'[a] + since' <= 0
  <2>1. phase \notin {"loop", "gone"}
    BY <1>6 DEF BatchFits, InBatch
  <2>2. a \in Addrs /\ seq[a] # 0 /\ left[a] + since <= 0
    <3>1. InBatch \subseteq Addrs
      BY QueuePlaces DEF InBatch, TypeOK
    <3> QED
      BY <3>1 DEF TimersAreAlive, BatchWasDue
  <2>3. /\ left'[a] = Maximum(left[a] - t, -MaxLate)
        /\ since' = Minimum(since + t, MaxLate)
    BY <1>2, <2>1, <2>2
  <2> QED
    BY <1>1, <2>2, <2>3 DEF Maximum, Minimum
<1> QED
  BY <1>4, <1>5, <1>6

LEMMA TickStep ==
    ASSUME TypeOK, Sound, Tick
    PROVE  TypeOK' /\ Sound'
<1>1. /\ Shift(1)
      /\ countdown' = Maximum(countdown - 1, 0)
      /\ expired' = (expired \/ countdown = 1)
      /\ UNCHANGED <<seq, interval, timers, reported, phase, batch, turn, pending,
                     made, ids, asking, revoked, jumps>>
  BY DEF Tick, given
<1>2. /\ left' \in [Addrs -> Int] /\ since' \in Int
      /\ \A a \in Addrs : left'[a] >= -MaxLate
      /\ \A a \in InBatch : left'[a] + since' <= 0
  BY <1>1, ShiftDoes DEF Sound
<1>3. countdown \in Nat /\ countdown' \in Nat /\ expired' \in BOOLEAN
  BY <1>1 DEF Maximum, TypeOK
<1>4. TypeOK'
  BY <1>1, <1>2, <1>3 DEF TypeOK
<1>5. InBatch' = InBatch
  BY <1>1 DEF InBatch
<1>6. phase' = "loop" /\ timers' # {} /\ jumps' = 0
         => Wakes(countdown', expired', reported', timers', left')
  <2>1. SUFFICES ASSUME phase = "loop", timers # {}, jumps = 0
                 PROVE  Wakes(countdown', expired', reported, timers, left')
    BY <1>1
  <2>2. Wakes(countdown, expired, reported, timers, left)
    BY <2>1 DEF Sound
  <2>3. CASE expired \/ reported \/ countdown = 1
    BY <1>1, <2>3 DEF Wakes
  <2>4. CASE countdown > 1 /\ \A b \in timers : countdown <= Maximum(left[b], 1)
    <3>1. countdown' = countdown - 1 /\ countdown' >= 1
      BY <1>1, <1>3, <2>4 DEF Maximum
    <3>2. ASSUME NEW b \in timers
          PROVE  countdown' <= Maximum(left'[b], 1)
      <4>1. b \in Addrs /\ seq[b] # 0 /\ left[b] \in Int /\ MaxLate \in Nat
        BY TimerAssumption DEF TypeOK, Sound, TimersAreAlive
      <4>2. left'[b] = Maximum(left[b] - 1, -MaxLate)
        BY <1>1, <4>1 DEF Shift
      <4>3. countdown <= left[b]
        BY <1>3, <2>4, <4>1 DEF Maximum
      <4> QED
        BY <1>3, <3>1, <4>1, <4>2, <4>3 DEF Maximum
    <3> QED
      BY <3>1, <3>2 DEF Wakes
  <2> QED
    BY <1>3, <2>2, <2>3, <2>4 DEF Wakes
<1> QED
  BY <1>1, <1>2, <1>4, <1>5, <1>6
     DEF Sound, LatenessBounded, BatchFits, AddsFit, TimersAreAlive, BatchWasDue

\* An adjusted clock is outside what ArmedForEarliest promises.
LEMMA AdjustClockStep ==
    ASSUME TypeOK, Sound, AdjustClock
    PROVE  TypeOK' /\ Sound'
<1>1. /\ jumps < MaxJumps /\ jumps' = jumps + 1
      /\ UNCHANGED <<seq, interval, timers, countdown, expired, reported, phase,
                     batch, turn, pending, made, ids, asking, revoked>>
  BY DEF AdjustClock, timerfd, given
<1>2. PICK t \in -MaxJump .. MaxJump : Shift(t)
  BY DEF AdjustClock
<1>3. t \in Int
  BY TimerAssumption
<1>4. /\ left' \in [Addrs -> Int] /\ since' \in Int
      /\ \A a \in Addrs : left'[a] >= -MaxLate
      /\ \A a \in InBatch : left'[a] + since' <= 0
  BY <1>2, <1>3, ShiftDoes DEF Sound
<1>5. jumps' \in 0 .. MaxJumps /\ jumps' # 0
  BY <1>1, TimerAssumption DEF TypeOK
<1>6. TypeOK'
  BY <1>1, <1>4, <1>5 DEF TypeOK
<1>7. InBatch' = InBatch
  BY <1>1 DEF InBatch
<1> QED
  BY <1>1, <1>4, <1>5, <1>6, <1>7
     DEF Sound, LatenessBounded, BatchFits, AddsFit, TimersAreAlive, BatchWasDue


-----------------------------------------------------------------------------
(* Theorems *)

\* It holds at the start ...
LEMMA InitInvariant == Init => TypeOK /\ Sound
<1> SUFFICES ASSUME Init
             PROVE  TypeOK /\ Sound
  OBVIOUS
<1>1. TypeOK
  <2>1. <<>> \in Seq(Addrs) /\ <<>> \in Seq(Functors)
    BY QueueEmpty
  <2>2. /\ seq \in [Addrs -> 0 .. MaxTimers] /\ left \in [Addrs -> Int]
        /\ interval \in [Addrs -> Nat] /\ made \in 0 .. MaxTimers
        /\ jumps \in 0 .. MaxJumps
    BY TimerAssumption DEF Init
  <2>3. expired \in BOOLEAN /\ reported \in BOOLEAN
    BY DEF Init
  <2>4. /\ timers \subseteq Addrs /\ countdown \in Nat /\ turn \in Nat
        /\ since \in Int /\ ids \subseteq TimerId /\ asking \subseteq Addrs
        /\ revoked \subseteq 1 .. MaxTimers
        /\ phase \in {"loop", "handleRead", "callback", "gone"}
    BY DEF Init
  <2> QED
    BY <2>1, <2>2, <2>3, <2>4 DEF Init, TypeOK, Functors
<1>2. LatenessBounded
  BY TimerAssumption DEF Init, LatenessBounded
<1>3. BatchFits
  BY DEF Init, BatchFits
<1>4. InBatch = {}
  BY DEF Init, InBatch
<1>5. AddsFit
  <2>1. pending = <<>> /\ DOMAIN <<>> = {}
    BY DEF Init
  <2> QED
    BY <2>1 DEF AddsFit
<1>6. timers = {}
  BY DEF Init
<1> QED
  BY <1>1, <1>2, <1>3, <1>4, <1>5, <1>6 DEF Sound, TimersAreAlive, BatchWasDue

\* ... and every step keeps it.
LEMMA InvariantStep == TypeOK /\ Sound /\ [Next]_vars => TypeOK' /\ Sound'
<1> SUFFICES ASSUME TypeOK, Sound, [Next]_vars
             PROVE  TypeOK' /\ Sound'
  OBVIOUS
<1>1. ASSUME NEW a \in Addrs, NEW t \in RunAfter \cup RunEvery,
             AddTimer(a, t) \/ AddTimerElsewhere(a, t)
      PROVE  TypeOK' /\ Sound'
  BY <1>1, AddTimerStep, AddTimerElsewhereStep
<1>2. ASSUME NEW a \in Addrs, ReturnId(a)
      PROVE  TypeOK' /\ Sound'
  BY <1>2, ReturnIdStep
<1>3. ASSUME NEW id \in ids, Cancel(id) \/ CancelElsewhere(id)
      PROVE  TypeOK' /\ Sound'
  BY <1>3, CancelStep, CancelElsewhereStep
<1>4. CASE Destroy
  BY <1>4, DestroyStep
<1>5. CASE RunFunctor
  BY <1>5, RunFunctorStep
<1>6. CASE LoopThread
  BY <1>6, LoopMovesStep, HandleReadStep, ResetStep DEF LoopThread
<1>7. CASE Tick
  BY <1>7, TickStep
<1>8. CASE AdjustClock
  BY <1>8, AdjustClockStep
<1>9. CASE UNCHANGED vars
  <2>1. UNCHANGED <<seq, left, interval, timers, countdown, expired, reported, phase,
                    batch, turn, since, pending, made, ids, asking, revoked, jumps>>
    BY <1>9 DEF vars, objects, timerfd, reading, given
  <2>2. InBatch' = InBatch
    BY <2>1 DEF InBatch
  <2> QED
    BY <2>1, <2>2 DEF TypeOK, Sound, LatenessBounded, BatchFits, AddsFit,
       TimersAreAlive, BatchWasDue, Wakes
<1> QED
  BY <1>1, <1>2, <1>3, <1>4, <1>5, <1>6, <1>7, <1>8, <1>9 DEF Next, Calls

\* The inductive invariant: where each Timer is, and what the timerfd is set to.
THEOREM Invariant == Spec => []TimerInvariant
<1>1. Init => TypeOK /\ Sound
  BY InitInvariant
<1>2. (TypeOK /\ Sound) /\ [Next]_vars => (TypeOK /\ Sound)'
  BY InvariantStep
<1>3. TimerInvariant <=> TypeOK /\ Sound
  BY InvariantIs
<1> QED
  BY <1>1, <1>2, <1>3, PTL DEF Spec

\* The types: among them, that the timerfd is never set to what would disarm it.
THEOREM TypeCorrect == Spec => []TypeOK
<1>1. TimerInvariant => TypeOK
  BY DEF TimerInvariant
<1> QED
  BY <1>1, Invariant, PTL

\* With a steady clock, the loop is woken in time for the earliest timer, though
\* addTimerInLoop looks only at the first entry and cancelInLoop and reset set
\* the timerfd anew.
THEOREM ArmsForEarliest == Spec => []ArmedForEarliest
<1>1. TimerInvariant => ArmedForEarliest
  BY DEF TimerInvariant
<1> QED
  BY <1>1, Invariant, PTL

\* A Timer that waits or is due in handleRead is alive and in one place, though
\* cancelInLoop deletes by address and addresses are used again.
THEOREM TimersStayAlive == Spec => []TimersAreAlive
<1>1. TimerInvariant => TimersAreAlive
  BY DEF TimerInvariant
<1> QED
  BY <1>1, Invariant, PTL

\* No callback runs before its time on the clock handleRead read.
THEOREM NeverRunsEarly == Spec => []NeverEarly
<1>1. TimerInvariant => NeverEarly
  <2>1. SUFFICES ASSUME TimerInvariant, phase = "callback"
                 PROVE  left[batch[turn]] + since <= 0
    BY DEF NeverEarly
  <2>2. /\ turn \in Nat /\ turn >= 1 /\ turn <= Len(batch) /\ batch \in Seq(Addrs)
    BY <2>1 DEF TimerInvariant, TypeOK, BatchFits
  <2>3. turn \in DOMAIN batch
    BY <2>2, QueuePlaces
  <2> QED
    BY <2>1, <2>3 DEF TimerInvariant, BatchWasDue, InBatch
<1> QED
  BY <1>1, Invariant, PTL

=============================================================================
