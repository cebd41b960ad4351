----------------------- MODULE AdaptiveZipLimitProofs -----------------------
(***************************************************************************)
(* The safety of the adaptive limiter, for every set of calls, every       *)
(* concurrency, both modes and any number of throttles.                    *)
(*                                                                         *)
(* The argument: NoIdleSlot makes every #pump start at most one waiter     *)
(* (lemma PumpShape), so a step changes the queue, the calls' status and   *)
(* the counter in one of six shapes (lemma StepShape).  Each invariant is  *)
(* then proved over the shapes.                                            *)
(*                                                                         *)
(* The last part is about the throughput controller that drives it: every  *)
(* step of the controller is a step of the limiter (so what is proved of   *)
(* the limiter holds under control), and the cap has hysteresis.           *)
(***************************************************************************)
EXTENDS ThroughputZipController, FiniteSetTheorems, SequenceTheorems, TLAPS

(* The inductive invariant about waiting and running. *)
IInv == TypeOK /\ NoIdleSlot /\ QueueHoldsWaiting /\ ActiveCount

-----------------------------------------------------------------------------
(* Facts about the helpers. *)

LEMMA MaxCapType == MaxCap \in Nat /\ MaxCap >= 1
  BY LimitAssumption DEF MaxCap, Larger

(* With a queue only behind an exhausted cap, pumping after one slot was   *)
(* freed (or one was added) starts nobody or exactly the oldest waiter.    *)
LEMMA PumpShape ==
  ASSUME NEW a \in Nat, NEW c \in Nat, NEW st,
         waiters \in Seq(Jobs), maxActiveConcurrent \in Nat,
         waiters # <<>> => a + 1 >= c,
         Pump(a, c, st)
  PROVE  \/ /\ active' = a
            /\ waiters' = waiters
            /\ status' = [j \in Jobs |-> st[j]]
            /\ waiters # <<>> => a >= c
            /\ maxActiveConcurrent' = Larger(maxActiveConcurrent, a)
         \/ /\ waiters # <<>>
            /\ a + 1 = c
            /\ active' = a + 1
            /\ waiters' = SubSeq(waiters, 2, Len(waiters))
            /\ status' = [j \in Jobs |->
                            IF j = waiters[1] THEN "running" ELSE st[j]]
            /\ maxActiveConcurrent' = Larger(maxActiveConcurrent, a + 1)
<1>1. Len(waiters) \in Nat /\ (waiters = <<>> <=> Len(waiters) = 0)
  BY EmptySeq, LenProperties
<1>2. CASE waiters = <<>> \/ a >= c
  <2>1. Startable(a, c) = 0
    BY <1>1, <1>2 DEF Startable, Smaller
  <2>2. {waiters[i] : i \in 1..0} = {}
    OBVIOUS
  <2>3. SubSeq(waiters, 1, Len(waiters)) = waiters
    BY SubSeqFull
  <2>4. active' = a /\ waiters' = waiters
        /\ maxActiveConcurrent' = Larger(maxActiveConcurrent, a)
    BY <2>1, <2>3 DEF Pump
  <2>5. status' = [j \in Jobs |-> st[j]]
    BY <2>1, <2>2 DEF Pump
  <2>6. waiters # <<>> => a >= c
    BY <1>2
  <2> QED BY <2>4, <2>5, <2>6
<1>3. CASE waiters # <<>> /\ a < c
  <2>1. a + 1 = c /\ Len(waiters) >= 1
    BY <1>1, <1>3
  <2>2. Startable(a, c) = 1
    BY <1>1, <2>1 DEF Startable, Smaller
  <2>3. {waiters[i] : i \in 1..1} = {waiters[1]}
    OBVIOUS
  <2>4. active' = a + 1 /\ waiters' = SubSeq(waiters, 2, Len(waiters))
        /\ maxActiveConcurrent' = Larger(maxActiveConcurrent, a + 1)
    BY <2>2 DEF Pump
  <2>5. status' = [j \in Jobs |-> IF j = waiters[1] THEN "running" ELSE st[j]]
    BY <2>2, <2>3 DEF Pump
  <2> QED BY <1>3, <2>1, <2>4, <2>5
<1> QED BY <1>1, <1>2, <1>3
-----------------------------------------------------------------------------
(* The six ways a step touches the queue. *)

NothingMoves ==
  active' = active /\ waiters' = waiters /\ status' = status
  /\ (waiters # <<>> => active >= cap')

StartsDirectly(j) ==
  /\ status[j] = "idle" /\ active < cap /\ cap' = cap
  /\ active' = active + 1 /\ waiters' = waiters
  /\ status' = [status EXCEPT ![j] = "running"]

Enqueues(j) ==
  /\ status[j] = "idle" /\ active >= cap /\ cap' = cap
  /\ active' = active /\ waiters' = Append(waiters, j)
  /\ status' = [status EXCEPT ![j] = "waiting"]

SettlesAlone(j) ==
  /\ status[j] = "running" /\ cap' = cap
  /\ active' = active - 1 /\ waiters' = waiters
  /\ status' = [status EXCEPT ![j] = "settled"]
  /\ waiters # <<>> => active - 1 >= cap

SettlesAndWakes(j) ==
  /\ status[j] = "running" /\ waiters # <<>> /\ active = cap /\ cap' = cap
  /\ active' = active /\ waiters' = SubSeq(waiters, 2, Len(waiters))
  /\ status' = [status EXCEPT ![j] = "settled", ![waiters[1]] = "running"]

Wakes ==
  /\ waiters # <<>> /\ active + 1 = cap'
  /\ active' = active + 1 /\ waiters' = SubSeq(waiters, 2, Len(waiters))
  /\ status' = [status EXCEPT ![waiters[1]] = "running"]

QueueShape ==
  \/ NothingMoves
  \/ \E j \in Jobs : StartsDirectly(j) \/ Enqueues(j) \/ SettlesAlone(j)
                      \/ SettlesAndWakes(j)
  \/ Wakes

(* A running call keeps the counter positive, so a settle never drives it  *)
(* below zero.                                                             *)
LEMMA ActivePositive ==
  ASSUME TypeOK, ActiveCount, NEW j \in Jobs, status[j] = "running"
  PROVE  active >= 1
<1>1. IsFiniteSet(WithStatus("running"))
  BY JobsAssumption, FS_Subset DEF WithStatus
<1>2. WithStatus("running") # {}
  BY DEF WithStatus
<1>3. Cardinality(WithStatus("running")) # 0
  BY <1>1, <1>2, FS_EmptySet
<1> QED BY <1>3 DEF ActiveCount, TypeOK

LEMMA RaiseCapShape ==
  ASSUME IInv, cap < MaxCap, RaiseCap
  PROVE  (NothingMoves \/ Wakes) /\ cap' = cap + 1
<1>1. cap \in Nat /\ cap >= 1 /\ active \in Nat /\ waiters \in Seq(Jobs)
      /\ maxActiveConcurrent \in Nat
  BY MaxCapType DEF IInv, TypeOK
<1>2. cap' = cap + 1
  BY <1>1, MaxCapType DEF RaiseCap, Smaller
<1>3. waiters # <<>> => active + 1 >= cap'
  BY <1>1, <1>2 DEF IInv, NoIdleSlot
<1>4. status = [j \in Jobs |-> status[j]]
  BY DEF IInv, TypeOK
<1>5. CASE /\ active' = active
           /\ waiters' = waiters
           /\ status' = [j \in Jobs |-> status[j]]
           /\ waiters # <<>> => active >= cap'
  BY <1>2, <1>4, <1>5 DEF NothingMoves
<1>6. CASE /\ waiters # <<>>
           /\ active + 1 = cap'
           /\ active' = active + 1
           /\ waiters' = SubSeq(waiters, 2, Len(waiters))
           /\ status' = [j \in Jobs |->
                           IF j = waiters[1] THEN "running" ELSE status[j]]
  <2>1. status' = [status EXCEPT ![waiters[1]] = "running"]
    BY <1>6, <1>4
  <2> QED BY <1>2, <1>6, <2>1 DEF Wakes
<1>7. Pump(active, cap', status)
  BY DEF RaiseCap
<1> QED BY <1>1, <1>2, <1>3, <1>5, <1>6, <1>7, PumpShape

LEMMA SettleShape ==
  ASSUME IInv, NEW j \in Jobs, Settle(j)
  PROVE  SettlesAlone(j) \/ SettlesAndWakes(j)
<1> DEFINE st == [status EXCEPT ![j] = "settled"]
<1>1. active - 1 \in Nat /\ cap \in Nat /\ waiters \in Seq(Jobs)
      /\ maxActiveConcurrent \in Nat /\ active \in Nat
  BY ActivePositive, MaxCapType DEF Settle, IInv, TypeOK
<1>2. waiters # <<>> => (active - 1) + 1 >= cap
  BY <1>1 DEF IInv, NoIdleSlot
<1>3. Pump(active - 1, cap, st)
  BY DEF Settle
<1>4. st = [k \in Jobs |-> st[k]] /\ st \in [Jobs -> JobStatus]
  BY DEF IInv, TypeOK, JobStatus
<1>5. status[j] = "running" /\ cap' = cap
  BY DEF Settle
<1>6. CASE /\ active' = active - 1
           /\ waiters' = waiters
           /\ status' = [k \in Jobs |-> st[k]]
           /\ waiters # <<>> => active - 1 >= cap
  <2>1. status' = st
    BY <1>4, <1>6
  <2> QED BY <1>5, <1>6, <2>1 DEF SettlesAlone
<1>7. CASE /\ waiters # <<>>
           /\ (active - 1) + 1 = cap
           /\ active' = (active - 1) + 1
           /\ waiters' = SubSeq(waiters, 2, Len(waiters))
           /\ status' = [k \in Jobs |->
                           IF k = waiters[1] THEN "running" ELSE st[k]]
  <2>1. active = cap /\ active' = active
    BY <1>1, <1>7
  <2>2. status' = [st EXCEPT ![waiters[1]] = "running"]
    BY <1>4, <1>7
  <2>3. status' = [status EXCEPT ![j] = "settled", ![waiters[1]] = "running"]
    BY <2>2
  <2> QED BY <1>5, <1>7, <2>1, <2>3 DEF SettlesAndWakes
<1> HIDE DEF st
<1> QED BY <1>1, <1>2, <1>3, <1>6, <1>7, PumpShape

(* Lowering the cap, and every step that leaves the calls alone. *)
LEMMA LowerCapShape ==
  ASSUME IInv, LowerCap, UNCHANGED <<active, waiters, status>>
  PROVE  NothingMoves /\ cap' \in 1..cap /\ minCapObserved' \in 1..MaxCap
<1>1. cap \in Nat /\ cap >= 1 /\ cap <= MaxCap /\ MaxCap \in Nat
      /\ active \in Nat /\ minCapObserved \in 1..MaxCap
  BY MaxCapType DEF IInv, TypeOK
<1>2. cap' \in 1..cap
  BY <1>1 DEF LowerCap, Larger, MinCap
<1>3. minCapObserved' \in 1..MaxCap
  BY <1>1, <1>2 DEF LowerCap, Smaller
<1>4. waiters # <<>> => active >= cap'
  BY <1>1, <1>2 DEF IInv, NoIdleSlot
<1> QED BY <1>2, <1>3, <1>4 DEF NothingMoves

LEMMA StepShape ==
  ASSUME IInv, [Next]_vars
  PROVE  QueueShape
<1>1. ASSUME NEW j \in Jobs, Limit(j) PROVE QueueShape
  <2>1. StartsDirectly(j) \/ Enqueues(j)
    BY <1>1 DEF Limit, StartsDirectly, Enqueues
  <2> QED BY <2>1 DEF QueueShape
<1>2. ASSUME NEW j \in Jobs, Settle(j) PROVE QueueShape
  BY <1>2, SettleShape DEF QueueShape
<1>3. ASSUME NEW j \in Jobs, OnThrottleRetry(j) PROVE QueueShape
  BY <1>3, LowerCapShape DEF OnThrottleRetry, QueueShape
<1>4. CASE QuietElapses
  BY <1>4 DEF QuietElapses, QueueShape, NothingMoves, IInv, NoIdleSlot
<1>5. CASE TickRecovery
  <2>1. CASE UNCHANGED <<cap, active, waiters, status>>
    BY <2>1 DEF QueueShape, NothingMoves, IInv, NoIdleSlot
  <2>2. CASE cap < MaxCap /\ RaiseCap
    BY <2>2, RaiseCapShape DEF QueueShape
  <2> QED BY <1>5, <2>1, <2>2 DEF TickRecovery
<1>6. CASE DecreaseCapForExternalSignal
  BY <1>6, LowerCapShape DEF DecreaseCapForExternalSignal, QueueShape
<1>7. CASE IncreaseCapTowardMax
  BY <1>7, RaiseCapShape DEF IncreaseCapTowardMax, QueueShape
<1>8. CASE DisposeAndDetach
  BY <1>8 DEF DisposeAndDetach, QueueShape, NothingMoves, IInv, NoIdleSlot
<1>9. CASE UNCHANGED vars
  BY <1>9 DEF vars, QueueShape, NothingMoves, IInv, NoIdleSlot
<1> QED BY <1>1, <1>2, <1>3, <1>4, <1>5, <1>6, <1>7, <1>8, <1>9 DEF Next
-----------------------------------------------------------------------------
(* The invariants, one shape at a time. *)

LEMMA InitInv == Init => IInv
<1> SUFFICES ASSUME Init PROVE IInv
  OBVIOUS
<1>1. TypeOK
  <2>1. waiters \in Seq(Jobs)
    BY EmptySeq DEF Init
  <2>2. status \in [Jobs -> JobStatus]
    BY DEF Init, JobStatus
  <2>3. cap \in 1..MaxCap /\ minCapObserved \in 1..MaxCap
        /\ throttles \in 0..MaxThrottles
    BY MaxCapType, LimitAssumption DEF Init
  <2> QED BY <2>1, <2>2, <2>3 DEF Init, TypeOK
<1>2. NoIdleSlot /\ QueueHoldsWaiting
  BY DEF Init, NoIdleSlot, QueueHoldsWaiting, WithStatus
<1>3. WithStatus("running") = {}
  BY DEF Init, WithStatus
<1>4. ActiveCount
  BY <1>3, FS_EmptySet, MaxCapType DEF Init, ActiveCount
<1> QED BY <1>1, <1>2, <1>4 DEF IInv

(* cap, minCapObserved and the other fields outside the queue keep their   *)
(* types, and the queue's fields keep theirs in every shape.               *)
(* The mode is chosen once. *)
LEMMA ModeFixed == [Next]_vars => mode' = mode
  BY DEF Next, Limit, Settle, OnThrottleRetry, QuietElapses, TickRecovery,
         DecreaseCapForExternalSignal, IncreaseCapTowardMax, DisposeAndDetach, vars

LEMMA FieldTypes ==
  ASSUME IInv, [Next]_vars
  PROVE  /\ cap' \in 1..MaxCap /\ minCapObserved' \in 1..MaxCap
         /\ quiet' \in BOOLEAN /\ recoveryTimer' \in BOOLEAN
         /\ attached' \in BOOLEAN /\ throttles' \in 0..MaxThrottles
         /\ maxWaiterQueueDepth' \in Nat
<1> DEFINE Goal ==
         /\ cap' \in 1..MaxCap /\ minCapObserved' \in 1..MaxCap
         /\ quiet' \in BOOLEAN /\ recoveryTimer' \in BOOLEAN
         /\ attached' \in BOOLEAN /\ throttles' \in 0..MaxThrottles
         /\ maxWaiterQueueDepth' \in Nat
<1> USE MaxCapType, LimitAssumption DEF IInv, TypeOK
<1>1. ASSUME NEW j \in Jobs, Limit(j) PROVE Goal
  <2>1. Len(waiters) \in Nat
    BY LenProperties
  <2> QED BY <1>1, <2>1 DEF Limit, Larger
<1>2. ASSUME NEW j \in Jobs, Settle(j) PROVE Goal
  BY <1>2 DEF Settle
<1>3. ASSUME NEW j \in Jobs, OnThrottleRetry(j) PROVE Goal
  <2>1. cap' \in 1..MaxCap /\ minCapObserved' \in 1..MaxCap
    BY <1>3, LowerCapShape DEF OnThrottleRetry
  <2>2. throttles' \in 0..MaxThrottles /\ maxWaiterQueueDepth' \in Nat
    BY <1>3 DEF OnThrottleRetry
  <2>3. quiet' \in BOOLEAN /\ attached' \in BOOLEAN
    BY <1>3 DEF OnThrottleRetry
  <2>4. recoveryTimer' \in BOOLEAN
    BY <1>3 DEF OnThrottleRetry
  <2> QED BY <2>1, <2>2, <2>3, <2>4
<1>4. CASE QuietElapses
  BY <1>4 DEF QuietElapses
<1>5. CASE TickRecovery
  <2>1. CASE recoveryTimer' = FALSE /\ UNCHANGED <<cap, minCapObserved, maxWaiterQueueDepth>>
    BY <1>5, <2>1 DEF TickRecovery
  <2>2. CASE cap < MaxCap /\ RaiseCap /\ UNCHANGED recoveryTimer
    <3>1. cap' = cap + 1
      BY <2>2, RaiseCapShape
    <3> QED BY <1>5, <2>2, <3>1 DEF TickRecovery, RaiseCap
  <2> QED BY <1>5, <2>1, <2>2 DEF TickRecovery
<1>6. CASE DecreaseCapForExternalSignal
  <2>1. cap' \in 1..MaxCap /\ minCapObserved' \in 1..MaxCap
    BY <1>6, LowerCapShape DEF DecreaseCapForExternalSignal
  <2> QED BY <1>6, <2>1 DEF DecreaseCapForExternalSignal
<1>7. CASE IncreaseCapTowardMax
  <2>1. cap' = cap + 1
    BY <1>7, RaiseCapShape DEF IncreaseCapTowardMax
  <2> QED BY <1>7, <2>1 DEF IncreaseCapTowardMax, RaiseCap
<1>8. CASE DisposeAndDetach
  BY <1>8 DEF DisposeAndDetach
<1>9. CASE UNCHANGED vars
  BY <1>9 DEF vars
<1> QED BY <1>1, <1>2, <1>3, <1>4, <1>5, <1>6, <1>7, <1>8, <1>9 DEF Next

LEMMA TypeStep ==
  ASSUME IInv, [Next]_vars
  PROVE  active' \in Nat /\ waiters' \in Seq(Jobs)
         /\ status' \in [Jobs -> JobStatus]
<1> DEFINE Goal == active' \in Nat /\ waiters' \in Seq(Jobs)
                   /\ status' \in [Jobs -> JobStatus]
<1>1. active \in Nat /\ waiters \in Seq(Jobs) /\ status \in [Jobs -> JobStatus]
      /\ {"idle", "waiting", "running", "settled"} = JobStatus
  BY DEF IInv, TypeOK, JobStatus
<1>2. Len(waiters) \in Nat
      /\ (waiters # <<>> => /\ SubSeq(waiters, 2, Len(waiters)) \in Seq(Jobs)
                            /\ waiters[1] \in Jobs)
  BY <1>1, EmptySeq, LenProperties, SubSeqProperties, ElementOfSeq
<1>3. CASE NothingMoves
  BY <1>1, <1>3 DEF NothingMoves
<1>4. ASSUME NEW j \in Jobs, StartsDirectly(j) PROVE Goal
  BY <1>1, <1>4 DEF StartsDirectly
<1>5. ASSUME NEW j \in Jobs, Enqueues(j) PROVE Goal
  BY <1>1, <1>5, AppendProperties DEF Enqueues
<1>6. ASSUME NEW j \in Jobs, SettlesAlone(j) PROVE Goal
  <2>1. active >= 1
    BY <1>6, ActivePositive DEF SettlesAlone, IInv
  <2> QED BY <1>1, <1>6, <2>1 DEF SettlesAlone
<1>7. ASSUME NEW j \in Jobs, SettlesAndWakes(j) PROVE Goal
  BY <1>1, <1>2, <1>7 DEF SettlesAndWakes
<1>8. CASE Wakes
  BY <1>1, <1>2, <1>8 DEF Wakes
<1>9. QueueShape
  BY StepShape
<1> QED BY <1>3, <1>4, <1>5, <1>6, <1>7, <1>8, <1>9 DEF QueueShape

(* The first waiter is waiting and stands only once in the queue. *)
LEMMA FirstWaiter ==
  ASSUME IInv, waiters # <<>>
  PROVE  /\ Len(waiters) \in Nat /\ Len(waiters) >= 1
         /\ waiters[1] \in Jobs
         /\ status[waiters[1]] = "waiting"
         /\ Len(SubSeq(waiters, 2, Len(waiters))) = Len(waiters) - 1
         /\ \A i \in 1..(Len(waiters) - 1) :
              SubSeq(waiters, 2, Len(waiters))[i] = waiters[i + 1]
<1>1. waiters \in Seq(Jobs)
  BY DEF IInv, TypeOK
<1>2. Len(waiters) \in Nat /\ Len(waiters) >= 1
  BY <1>1, EmptySeq
<1>3. \A i \in 2..Len(waiters) : waiters[i] \in Jobs
  BY <1>1, <1>2, ElementOfSeq
<1>4. 1 \in 1..Len(waiters) /\ waiters[1] \in Jobs
  BY <1>1, <1>2, ElementOfSeq
<1>5. status[waiters[1]] = "waiting"
  BY <1>4 DEF IInv, QueueHoldsWaiting
<1>6. /\ Len(SubSeq(waiters, 2, Len(waiters))) = Len(waiters) - 1
      /\ \A i \in 1..(Len(waiters) - 1) :
            SubSeq(waiters, 2, Len(waiters))[i] = waiters[i + 1]
  <2>1. /\ Len(SubSeq(waiters, 2, Len(waiters)))
            = IF 2 <= Len(waiters) THEN Len(waiters) - 2 + 1 ELSE 0
        /\ \A i \in 1..(Len(waiters) - 2 + 1) :
              SubSeq(waiters, 2, Len(waiters))[i] = waiters[2 + i - 1]
    BY <1>2, <1>3, SubSeqProperties
  <2>2. Len(SubSeq(waiters, 2, Len(waiters))) = Len(waiters) - 1
    <3>1. CASE Len(waiters) = 1
      <4>1. SubSeq(waiters, 2, Len(waiters)) = << >>
        BY <3>1, SubSeqEmpty
      <4> QED BY <3>1, <4>1, EmptySeq
    <3>2. CASE 2 <= Len(waiters)
      BY <1>2, <2>1, <3>2
    <3>3. \A n \in Nat : n >= 1 => n = 1 \/ 2 <= n
      OBVIOUS
    <3> QED BY <1>2, <3>1, <3>2, <3>3
  <2>3. ASSUME NEW i \in 1..(Len(waiters) - 1)
        PROVE  SubSeq(waiters, 2, Len(waiters))[i] = waiters[i + 1]
    <3>1. i \in 1..(Len(waiters) - 2 + 1) /\ 2 + i - 1 = i + 1
      BY <1>2
    <3> QED BY <2>1, <3>1
  <2> QED BY <2>2, <2>3
<1> QED BY <1>2, <1>4, <1>5, <1>6

LEMMA NoIdleSlotStep ==
  ASSUME IInv, [Next]_vars
  PROVE  NoIdleSlot'
<1>1. active \in Nat /\ cap \in Nat /\ waiters \in Seq(Jobs)
  BY MaxCapType DEF IInv, TypeOK
<1>2. waiters # <<>> => active >= cap
  BY DEF IInv, NoIdleSlot
<1>3. CASE NothingMoves
  BY <1>3 DEF NothingMoves, NoIdleSlot
<1>4. ASSUME NEW j \in Jobs, StartsDirectly(j) PROVE NoIdleSlot'
  BY <1>1, <1>2, <1>4 DEF StartsDirectly, NoIdleSlot
<1>5. ASSUME NEW j \in Jobs, Enqueues(j) PROVE NoIdleSlot'
  BY <1>5 DEF Enqueues, NoIdleSlot
<1>6. ASSUME NEW j \in Jobs, SettlesAlone(j) PROVE NoIdleSlot'
  BY <1>6 DEF SettlesAlone, NoIdleSlot
<1>7. ASSUME NEW j \in Jobs, SettlesAndWakes(j) PROVE NoIdleSlot'
  BY <1>1, <1>7 DEF SettlesAndWakes, NoIdleSlot
<1>8. CASE Wakes
  <2>1. cap' \in Nat
    BY FieldTypes, MaxCapType
  <2> QED BY <1>1, <1>8, <2>1 DEF Wakes, NoIdleSlot
<1>9. QueueShape
  BY StepShape
<1> QED BY <1>3, <1>4, <1>5, <1>6, <1>7, <1>8, <1>9 DEF QueueShape

LEMMA QueueHoldsWaitingStep ==
  ASSUME IInv, [Next]_vars
  PROVE  QueueHoldsWaiting'
<1>1. waiters \in Seq(Jobs) /\ status \in [Jobs -> JobStatus]
      /\ Len(waiters) \in Nat
  BY LenProperties DEF IInv, TypeOK
<1>2. QueueHoldsWaiting
  BY DEF IInv
<1>3. \A i \in 1..Len(waiters) : waiters[i] \in Jobs
  BY <1>1, ElementOfSeq
(* Removing the first waiter and marking it started. *)
<1>4. ASSUME waiters # <<>>,
             waiters' = SubSeq(waiters, 2, Len(waiters)),
             status'[waiters[1]] = "running",
             \A k \in Jobs \ {waiters[1]} :
               status'[k] = "waiting" <=> status[k] = "waiting"
      PROVE  QueueHoldsWaiting'
  <2>1. Len(waiters') = Len(waiters) - 1
        /\ \A i \in 1..(Len(waiters) - 1) : waiters'[i] = waiters[i + 1]
        /\ Len(waiters) >= 1
    BY <1>4, FirstWaiter
  <2>2. ASSUME NEW i \in 1..Len(waiters')
        PROVE  status'[waiters'[i]] = "waiting"
    <3>1. i + 1 \in 1..Len(waiters) /\ 1 \in 1..Len(waiters) /\ i + 1 # 1
          /\ waiters'[i] = waiters[i + 1]
      BY <1>1, <2>1
    <3>2. waiters[i + 1] # waiters[1] /\ status[waiters[i + 1]] = "waiting"
      BY <1>2, <3>1 DEF QueueHoldsWaiting
    <3>3. waiters[i + 1] \in Jobs
      BY <1>3, <3>1
    <3> QED BY <1>4, <3>1, <3>2, <3>3
  <2>3. ASSUME NEW j \in Jobs, status'[j] = "waiting"
        PROVE  \E i \in 1..Len(waiters') : waiters'[i] = j
    <3>1. j # waiters[1] /\ status[j] = "waiting"
      BY <1>4, <2>3
    <3>2. PICK k \in 1..Len(waiters) : waiters[k] = j
      BY <1>2, <3>1 DEF QueueHoldsWaiting, WithStatus
    <3>3. k - 1 \in 1..Len(waiters') /\ waiters'[k - 1] = waiters[(k - 1) + 1]
      BY <1>1, <2>1, <3>1, <3>2
    <3> QED BY <3>2, <3>3
  <2>4. ASSUME NEW i \in 1..Len(waiters'), NEW k \in 1..Len(waiters'),
               waiters'[i] = waiters'[k]
        PROVE  i = k
    <3>1. i + 1 \in 1..Len(waiters) /\ k + 1 \in 1..Len(waiters)
          /\ waiters'[i] = waiters[i + 1] /\ waiters'[k] = waiters[k + 1]
      BY <1>1, <2>1
    <3>2. i + 1 = k + 1
      BY <1>2, <2>4, <3>1 DEF QueueHoldsWaiting
    <3> QED BY <3>2
  <2> QED BY <2>2, <2>3, <2>4 DEF QueueHoldsWaiting, WithStatus
(* The queue stands still and nobody enters or leaves "waiting". *)
<1>5. ASSUME waiters' = waiters,
             \A k \in Jobs : status'[k] = "waiting" <=> status[k] = "waiting"
      PROVE  QueueHoldsWaiting'
  BY <1>2, <1>3, <1>5 DEF QueueHoldsWaiting, WithStatus
<1>6. CASE NothingMoves
  BY <1>5, <1>6 DEF NothingMoves
<1>7. ASSUME NEW j \in Jobs, StartsDirectly(j) PROVE QueueHoldsWaiting'
  BY <1>1, <1>5, <1>7 DEF StartsDirectly
<1>8. ASSUME NEW j \in Jobs, SettlesAlone(j) PROVE QueueHoldsWaiting'
  BY <1>1, <1>5, <1>8 DEF SettlesAlone
<1>9. ASSUME NEW j \in Jobs, Enqueues(j) PROVE QueueHoldsWaiting'
  <2>1. waiters' = Append(waiters, j) /\ status[j] = "idle"
        /\ status' = [status EXCEPT ![j] = "waiting"]
    BY <1>9 DEF Enqueues
  <2>2. Len(waiters') = Len(waiters) + 1 /\ waiters'[Len(waiters) + 1] = j
        /\ \A i \in 1..Len(waiters) : waiters'[i] = waiters[i]
    BY <1>1, <2>1, AppendProperties
  <2>3. \A i \in 1..Len(waiters) : waiters[i] # j /\ status[waiters[i]] = "waiting"
    BY <1>2, <2>1 DEF QueueHoldsWaiting
  <2>4. \A i \in 1..Len(waiters') : i \in 1..Len(waiters) \/ i = Len(waiters) + 1
    BY <1>1, <2>2
  <2>5. ASSUME NEW i \in 1..Len(waiters') PROVE status'[waiters'[i]] = "waiting"
    BY <1>1, <1>3, <2>1, <2>2, <2>3, <2>4
  <2>6. ASSUME NEW k \in Jobs, status'[k] = "waiting"
        PROVE  \E i \in 1..Len(waiters') : waiters'[i] = k
    <3>1. CASE k = j
      BY <1>1, <2>2, <3>1
    <3>2. CASE k # j
      <4>1. status[k] = "waiting"
        BY <1>1, <2>1, <2>6, <3>2
      <4>2. PICK i \in 1..Len(waiters) : waiters[i] = k
        BY <1>2, <4>1 DEF QueueHoldsWaiting, WithStatus
      <4>3. i \in 1..Len(waiters')
        BY <1>1, <2>2
      <4> QED BY <2>2, <4>2, <4>3
    <3> QED BY <3>1, <3>2
  <2>7. ASSUME NEW i \in 1..Len(waiters'), NEW k \in 1..Len(waiters'),
               waiters'[i] = waiters'[k]
        PROVE  i = k
    BY <1>2, <2>2, <2>3, <2>4, <2>7 DEF QueueHoldsWaiting
  <2> QED BY <2>5, <2>6, <2>7 DEF QueueHoldsWaiting, WithStatus
<1>10. ASSUME NEW j \in Jobs, SettlesAndWakes(j) PROVE QueueHoldsWaiting'
  <2>1. waiters # <<>> /\ waiters[1] \in Jobs /\ status[j] = "running"
        /\ waiters' = SubSeq(waiters, 2, Len(waiters))
        /\ status' = [status EXCEPT ![j] = "settled", ![waiters[1]] = "running"]
    BY <1>10, FirstWaiter DEF SettlesAndWakes
  <2> QED BY <1>1, <1>4, <2>1
<1>11. CASE Wakes
  <2>1. waiters # <<>> /\ waiters[1] \in Jobs
        /\ waiters' = SubSeq(waiters, 2, Len(waiters))
        /\ status' = [status EXCEPT ![waiters[1]] = "running"]
    BY <1>11, FirstWaiter DEF Wakes
  <2> QED BY <1>1, <1>4, <2>1
<1>12. QueueShape
  BY StepShape
<1> QED BY <1>6, <1>7, <1>8, <1>9, <1>10, <1>11, <1>12 DEF QueueShape

(* The reported peak follows every change of the counter. *)
LEMMA PeakStep ==
  ASSUME IInv, [Next]_vars
  PROVE  maxActiveConcurrent' = Larger(maxActiveConcurrent, active')
<1>1. CASE UNCHANGED <<active, maxActiveConcurrent>>
  BY <1>1 DEF IInv, TypeOK, ActiveCount, Larger
<1>2. ASSUME NEW a, NEW c, NEW st, Pump(a, c, st)
      PROVE  maxActiveConcurrent' = Larger(maxActiveConcurrent, active')
  BY <1>2 DEF Pump
<1>3. ASSUME NEW j \in Jobs, Limit(j)
      PROVE  \/ UNCHANGED <<active, maxActiveConcurrent>>
             \/ maxActiveConcurrent' = Larger(maxActiveConcurrent, active')
  BY <1>3 DEF Limit
<1>4. ASSUME NEW j \in Jobs, Settle(j)
      PROVE  maxActiveConcurrent' = Larger(maxActiveConcurrent, active')
  BY <1>2, <1>4 DEF Settle
<1>5. CASE RaiseCap
  BY <1>2, <1>5 DEF RaiseCap
<1> QED BY <1>1, <1>3, <1>4, <1>5
        DEF Next, OnThrottleRetry, QuietElapses, TickRecovery,
            DecreaseCapForExternalSignal, IncreaseCapTowardMax,
            DisposeAndDetach, vars

LEMMA ActiveCountStep ==
  ASSUME IInv, [Next]_vars
  PROVE  ActiveCount'
<1> DEFINE R == WithStatus("running")
<1>1. active \in Nat /\ cap \in 1..MaxCap /\ MaxCap \in Nat
      /\ maxActiveConcurrent \in Nat /\ status \in [Jobs -> JobStatus]
  BY MaxCapType DEF IInv, TypeOK
<1>2. IsFiniteSet(R) /\ active = Cardinality(R)
      /\ active <= maxActiveConcurrent /\ maxActiveConcurrent <= MaxCap
  BY JobsAssumption, FS_Subset DEF IInv, ActiveCount, WithStatus
<1>3. cap' \in 1..MaxCap
  BY FieldTypes
<1>4. active' \in Nat /\ active' <= MaxCap
  <2>1. CASE NothingMoves
    BY <1>1, <1>2, <2>1 DEF NothingMoves
  <2>2. ASSUME NEW j \in Jobs, StartsDirectly(j)
        PROVE  active' \in Nat /\ active' <= MaxCap
    BY <1>1, <2>2 DEF StartsDirectly
  <2>3. ASSUME NEW j \in Jobs, Enqueues(j) \/ SettlesAndWakes(j)
        PROVE  active' \in Nat /\ active' <= MaxCap
    BY <1>1, <1>2, <2>3 DEF Enqueues, SettlesAndWakes
  <2>4. ASSUME NEW j \in Jobs, SettlesAlone(j)
        PROVE  active' \in Nat /\ active' <= MaxCap
    <3>1. active >= 1
      BY <2>4, ActivePositive DEF SettlesAlone, IInv
    <3> QED BY <1>1, <1>2, <2>4, <3>1 DEF SettlesAlone
  <2>5. CASE Wakes
    BY <1>1, <1>3, <2>5 DEF Wakes
  <2>6. QueueShape
    BY StepShape
  <2> QED BY <2>1, <2>2, <2>3, <2>4, <2>5, <2>6 DEF QueueShape
<1>5. active' = Cardinality(R')
  <2>1. CASE NothingMoves
    BY <1>2, <2>1 DEF NothingMoves, WithStatus
  <2>2. ASSUME NEW j \in Jobs, StartsDirectly(j) PROVE active' = Cardinality(R')
    <3>1. R' = R \cup {j} /\ j \notin R
      BY <1>1, <2>2 DEF StartsDirectly, WithStatus
    <3> QED BY <1>2, <2>2, <3>1, FS_AddElement DEF StartsDirectly
  <2>3. ASSUME NEW j \in Jobs, Enqueues(j) PROVE active' = Cardinality(R')
    <3>1. R' = R
      BY <1>1, <2>3 DEF Enqueues, WithStatus
    <3> QED BY <1>2, <2>3, <3>1 DEF Enqueues
  <2>4. ASSUME NEW j \in Jobs, SettlesAlone(j) PROVE active' = Cardinality(R')
    <3>1. R' = R \ {j} /\ j \in R
      BY <1>1, <2>4 DEF SettlesAlone, WithStatus
    <3> QED BY <1>2, <2>4, <3>1, FS_RemoveElement DEF SettlesAlone
  <2>5. ASSUME NEW j \in Jobs, SettlesAndWakes(j) PROVE active' = Cardinality(R')
    <3>1. waiters[1] \in Jobs /\ status[waiters[1]] = "waiting"
      BY <2>5, FirstWaiter DEF SettlesAndWakes
    <3>2. status' = [status EXCEPT ![j] = "settled", ![waiters[1]] = "running"]
          /\ status[j] = "running" /\ active' = active
      BY <2>5 DEF SettlesAndWakes
    <3>3. R' = (R \ {j}) \cup {waiters[1]} /\ j \in R /\ waiters[1] \notin R \ {j}
      BY <1>1, <3>1, <3>2 DEF WithStatus
    <3>4. IsFiniteSet(R \ {j}) /\ Cardinality(R \ {j}) = Cardinality(R) - 1
      BY <1>2, <3>3, FS_RemoveElement
    <3>5. Cardinality(R') = Cardinality(R \ {j}) + 1
      BY <3>3, <3>4, FS_AddElement
    <3> QED BY <1>1, <1>2, <3>2, <3>4, <3>5
  <2>6. CASE Wakes
    <3>1. waiters[1] \in Jobs /\ status[waiters[1]] = "waiting"
      BY <2>6, FirstWaiter DEF Wakes
    <3>2. R' = R \cup {waiters[1]} /\ waiters[1] \notin R
      BY <1>1, <2>6, <3>1 DEF Wakes, WithStatus
    <3> QED BY <1>2, <2>6, <3>2, FS_AddElement DEF Wakes
  <2>7. QueueShape
    BY StepShape
  <2> QED BY <2>1, <2>2, <2>3, <2>4, <2>5, <2>6, <2>7 DEF QueueShape
<1>6. maxActiveConcurrent' = Larger(maxActiveConcurrent, active')
  BY PeakStep
<1>7. active' <= maxActiveConcurrent' /\ maxActiveConcurrent' <= MaxCap
  BY <1>1, <1>2, <1>4, <1>6 DEF Larger
<1> QED BY <1>5, <1>7 DEF ActiveCount
-----------------------------------------------------------------------------
(* The results. *)

LEMMA Inductive == Spec => []IInv
<1>1. Init => IInv
  BY InitInv
<1>2. IInv /\ [Next]_vars => IInv'
  <2> SUFFICES ASSUME IInv, [Next]_vars PROVE IInv'
    OBVIOUS
  <2>1. ActiveCount' /\ maxActiveConcurrent' \in Nat
    <3>1. maxActiveConcurrent' \in Nat
      BY PeakStep, TypeStep DEF IInv, TypeOK, Larger
    <3> QED BY <3>1, ActiveCountStep
  <2>2. TypeOK'
    BY <2>1, FieldTypes, TypeStep, ModeFixed DEF IInv, TypeOK
  <2>3. NoIdleSlot' /\ QueueHoldsWaiting'
    BY NoIdleSlotStep, QueueHoldsWaitingStep
  <2> QED BY <2>1, <2>2, <2>3 DEF IInv
<1> QED BY <1>1, <1>2, PTL DEF Spec

(* The fields of the limiter keep their types; in particular the cap never *)
(* leaves 1..MaxCap, however throttles and recoveries interleave.          *)
THEOREM TypeCorrect == Spec => []TypeOK
<1>1. IInv => TypeOK
  BY DEF IInv
<1> QED BY <1>1, Inductive, PTL

(* No lost wakeup: no call waits while a slot under the cap is free.       *)
THEOREM NoLostWakeup == Spec => []NoIdleSlot
<1>1. IInv => NoIdleSlot
  BY DEF IInv
<1> QED BY <1>1, Inductive, PTL

(* #active counts the calls in flight, never above the configured          *)
(* concurrency, and the queue is exactly the waiting calls, each once.     *)
THEOREM BooksAreExact == Spec => []Bookkeeping
<1>1. IInv => Bookkeeping
  BY DEF IInv, Bookkeeping
<1> QED BY <1>1, Inductive, PTL

(* Lowering the cap never lets a later step start a call above it. *)
THEOREM StartsRespectCap == Spec => NoStartAboveCap
<1>1. IInv /\ [Next]_vars => [active' > active => active' <= cap']_vars
  <2> SUFFICES ASSUME IInv, [Next]_vars, active' > active
               PROVE  active' <= cap'
    OBVIOUS
  <2>1. active \in Nat /\ cap \in Nat
    BY MaxCapType DEF IInv, TypeOK
  <2>2. QueueShape
    BY StepShape
  <2>3. CASE NothingMoves
    BY <2>1, <2>3 DEF NothingMoves
  <2>4. ASSUME NEW j \in Jobs, StartsDirectly(j) PROVE active' <= cap'
    BY <2>1, <2>4 DEF StartsDirectly
  <2>5. ASSUME NEW j \in Jobs,
               Enqueues(j) \/ SettlesAlone(j) \/ SettlesAndWakes(j)
        PROVE  active' <= cap'
    BY <2>1, <2>5 DEF Enqueues, SettlesAlone, SettlesAndWakes
  <2>6. CASE Wakes
    BY <2>1, <2>6 DEF Wakes
  <2> QED BY <2>2, <2>3, <2>4, <2>5, <2>6 DEF QueueShape
<1> QED BY <1>1, Inductive, PTL DEF Spec, NoStartAboveCap

LEMMA RecoveryStep ==
  ASSUME IInv, TimerExact, [Next]_vars
  PROVE  TimerExact'
<1> USE DEF TimerExact, RecoveryArmed, NoTimerAfterRun
<1>1. CASE UNCHANGED <<cap, recoveryTimer, attached>>
  BY <1>1, ModeFixed
<1>2. ASSUME NEW j \in Jobs, Limit(j) \/ Settle(j) PROVE TimerExact'
  BY <1>1, <1>2 DEF Limit, Settle
<1>3. ASSUME NEW j \in Jobs, OnThrottleRetry(j) PROVE TimerExact'
  BY <1>3, ModeFixed DEF OnThrottleRetry
<1>4. CASE TickRecovery
  <2>1. CASE cap >= MaxCap /\ UNCHANGED cap
    BY <1>4, <2>1, MaxCapType DEF TickRecovery, IInv, TypeOK
  <2>2. CASE UNCHANGED recoveryTimer
    BY <1>4, <2>2, ModeFixed DEF TickRecovery
  <2> QED BY <1>4, <2>1, <2>2 DEF TickRecovery
<1>5. CASE DecreaseCapForExternalSignal \/ IncreaseCapTowardMax
  <2>1. mode # "throttle"
    BY <1>5 DEF DecreaseCapForExternalSignal, IncreaseCapTowardMax
  <2> QED BY <1>5, <2>1, ModeFixed DEF DecreaseCapForExternalSignal, IncreaseCapTowardMax
<1>6. CASE DisposeAndDetach
  BY <1>6 DEF DisposeAndDetach
<1>7. CASE QuietElapses \/ UNCHANGED vars
  BY <1>1, <1>7 DEF QuietElapses, vars
<1> QED BY <1>2, <1>3, <1>4, <1>5, <1>6, <1>7 DEF Next

(* A lowered cap is always on its way back while the run lasts, and a run  *)
(* that has ended owns no interval, whatever its abandoned calls do.       *)
THEOREM TimerIsExact == Spec => []TimerExact
<1>1. Init => TimerExact
  BY MaxCapType DEF Init, TimerExact, RecoveryArmed, NoTimerAfterRun
<1> QED BY <1>1, RecoveryStep, Inductive, PTL DEF Spec

(* Calls are served in arrival order: nobody starts directly past a queue, *)
(* and a pump starts from its front.                                       *)
THEOREM ServedInOrder == Spec => Fifo
<1>1. ASSUME IInv, [Next]_vars PROVE FifoStep
  <2>1. /\ waiters \in Seq(Jobs) /\ status \in [Jobs -> JobStatus]
        /\ Len(waiters) \in Nat /\ active \in Nat /\ cap \in Nat
    BY <1>1, MaxCapType, LenProperties DEF IInv, TypeOK
  <2>2. /\ \A i \in 1..Len(waiters) : /\ waiters[i] \in Jobs
                                     /\ status[waiters[i]] = "waiting"
        /\ \A i, k \in 1..Len(waiters) : waiters[i] = waiters[k] => i = k
    BY <1>1, <2>1, ElementOfSeq DEF IInv, QueueHoldsWaiting
  <2>3. waiters # <<>> => active >= cap
    BY <1>1 DEF IInv, NoIdleSlot
  (* Only the first waiter can turn from waiting to running. *)
  <2>4. ASSUME \A j \in Jobs : /\ status[j] = "idle" => status'[j] # "running"
                               /\ status[j] = "waiting" /\ status'[j] = "running"
                                    => waiters # <<>> /\ j = waiters[1]
        PROVE  FifoStep
    <3>1. ASSUME NEW i \in 1..Len(waiters), NEW k \in 1..Len(waiters), i < k,
                 status'[waiters[k]] = "running"
          PROVE  FALSE
      <4>1. waiters[k] = waiters[1] /\ 1 \in 1..Len(waiters) /\ k # 1
        BY <2>1, <2>2, <2>4, <3>1
      <4> QED BY <2>2, <4>1
    <3> QED BY <2>4, <3>1 DEF FifoStep
  <2>5. CASE NothingMoves
    BY <2>4, <2>5 DEF NothingMoves
  <2>6. ASSUME NEW j \in Jobs, StartsDirectly(j) PROVE FifoStep
    <3>1. waiters = <<>> /\ Len(waiters) = 0
      BY <2>1, <2>3, <2>6, EmptySeq DEF StartsDirectly
    <3>2. \A i \in 1..Len(waiters) : FALSE
      BY <3>1
    <3> QED BY <3>1, <3>2 DEF FifoStep
  <2>7. ASSUME NEW j \in Jobs, Enqueues(j) \/ SettlesAlone(j) PROVE FifoStep
    BY <2>1, <2>4, <2>7 DEF Enqueues, SettlesAlone
  <2>8. ASSUME NEW j \in Jobs, SettlesAndWakes(j) PROVE FifoStep
    <3>1. waiters[1] \in Jobs /\ status[waiters[1]] = "waiting"
      BY <1>1, <2>8, FirstWaiter DEF SettlesAndWakes
    <3> QED BY <2>1, <2>4, <2>8, <3>1 DEF SettlesAndWakes
  <2>9. CASE Wakes
    <3>1. waiters[1] \in Jobs /\ status[waiters[1]] = "waiting"
      BY <1>1, <2>9, FirstWaiter DEF Wakes
    <3> QED BY <2>1, <2>4, <2>9, <3>1 DEF Wakes
  <2>10. QueueShape
    BY <1>1, StepShape
  <2> QED BY <2>5, <2>6, <2>7, <2>8, <2>9, <2>10 DEF QueueShape
<1>2. IInv /\ [Next]_vars => [FifoStep]_vars
  BY <1>1
<1>3. Spec => [][FifoStep]_vars
  BY <1>2, Inductive, PTL DEF Spec
<1> QED BY <1>3 DEF Fifo

-----------------------------------------------------------------------------
(* The throughput controller. *)

(* Its steps are steps of the limiter, or leave it alone. *)
LEMMA ControllerSteps ==
  ASSUME [CNext]_allVars
  PROVE  [Next]_vars
<1>1. CASE ObserveLow
  BY <1>1 DEF ObserveLow, Next
<1>2. CASE ObserveHigh
  BY <1>2 DEF ObserveHigh, Next
<1>3. CASE ObserveMid
  BY <1>3 DEF ObserveMid
<1>4. CASE LimiterStep
  BY <1>4 DEF LimiterStep, Next
<1>5. CASE UNCHANGED allVars
  BY <1>5 DEF allVars
<1> QED BY <1>1, <1>2, <1>3, <1>4, <1>5 DEF CNext

(* The controlled limiter is a limiter: all that is proved of Spec holds   *)
(* while a controller moves the cap.                                       *)
THEOREM ControllerDrivesLimiter == CSpec => Spec
<1>1. CInit => Init
  BY DEF CInit
<1>2. [CNext]_allVars => [Next]_vars
  BY ControllerSteps
<1> QED BY <1>1, <1>2, PTL DEF CSpec, Spec

(* The streaks are the runs of samples that the history counts, and in     *)
(* throughput mode no interval moves the cap.                              *)
StreakInv ==
  /\ lowStreak = lowRun /\ lowStreak \in 0..BreachesToDecrease
  /\ highStreak = highRun /\ highStreak \in 0..SamplesToIncrease
  /\ mode = "throughput" => ~ recoveryTimer

LEMMA StreakInit == CInit => StreakInv
BY ControllerAssumption DEF CInit, Init, StreakInv

(* What a sample does to the cap and the streaks. *)
LEMMA LowSample ==
  ASSUME TypeOK, StreakInv, ObserveLow, WatchLow
  PROVE  /\ StreakInv'
         /\ cap' < cap => lowRun + 1 >= BreachesToDecrease /\ cap' >= ControllerMinCap
         /\ ~ (cap' > cap)
<1> DEFINE streak == Smaller(lowStreak + 1, BreachesToDecrease)
           acts == streak >= BreachesToDecrease /\ cap > ControllerMinCap
<1>1. /\ BreachesToDecrease \in Nat /\ ControllerMinCap \in Nat \ {0} /\ SamplesToIncrease \in Nat
      /\ cap \in Nat /\ cap >= 1
  BY ControllerAssumption, MaxCapType DEF TypeOK
<1>2. /\ highStreak' = 0
      /\ \/ acts /\ DecreaseCapForExternalSignal /\ lowStreak' = 0
         \/ ~ acts /\ lowStreak' = streak /\ UNCHANGED vars
  BY DEF ObserveLow
<1>3. CASE acts /\ DecreaseCapForExternalSignal /\ lowStreak' = 0
  <2>1. cap' = cap - 1 /\ cap' >= ControllerMinCap /\ mode' = mode /\ recoveryTimer' = recoveryTimer
    BY <1>1, <1>3 DEF DecreaseCapForExternalSignal, LowerCap, MinCap, Larger
  <2>2. lowRun' = 0 /\ highRun' = 0
    BY <1>1, <2>1 DEF WatchLow
  <2>3. lowRun + 1 >= BreachesToDecrease
    BY <1>1, <1>3 DEF StreakInv, Smaller
  <2> QED BY <1>1, <1>2, <1>3, <2>1, <2>2, <2>3 DEF StreakInv
<1>4. CASE ~ acts /\ lowStreak' = streak /\ UNCHANGED vars
  <2>1. cap' = cap /\ mode' = mode /\ recoveryTimer' = recoveryTimer
    BY <1>4 DEF vars
  <2>2. lowRun' = Smaller(lowRun + 1, BreachesToDecrease) /\ highRun' = 0
    BY <1>1, <2>1 DEF WatchLow
  <2> QED BY <1>1, <1>2, <1>4, <2>1, <2>2 DEF StreakInv, Smaller
<1> QED BY <1>2, <1>3, <1>4

LEMMA HighSample ==
  ASSUME TypeOK, StreakInv, ObserveHigh, WatchHigh
  PROVE  /\ StreakInv'
         /\ cap' > cap => highRun + 1 >= SamplesToIncrease
         /\ ~ (cap' < cap)
<1> DEFINE streak == Smaller(highStreak + 1, SamplesToIncrease)
           acts == streak >= SamplesToIncrease /\ cap < MaxCap
<1>1. /\ BreachesToDecrease \in Nat /\ SamplesToIncrease \in Nat
      /\ cap \in Nat /\ MaxCap \in Nat
  BY ControllerAssumption, MaxCapType DEF TypeOK
<1>2. /\ lowStreak' = 0
      /\ \/ acts /\ IncreaseCapTowardMax /\ highStreak' = 0
         \/ ~ acts /\ highStreak' = streak /\ UNCHANGED vars
  BY DEF ObserveHigh
<1>3. CASE acts /\ IncreaseCapTowardMax /\ highStreak' = 0
  <2>1. cap' = cap + 1 /\ mode' = mode /\ recoveryTimer' = recoveryTimer
    BY <1>1, <1>3 DEF IncreaseCapTowardMax, RaiseCap, Smaller
  <2>2. lowRun' = 0 /\ highRun' = 0
    BY <1>1, <2>1 DEF WatchHigh
  <2>3. highRun + 1 >= SamplesToIncrease
    BY <1>1, <1>3 DEF StreakInv, Smaller
  <2> QED BY <1>1, <1>2, <1>3, <2>1, <2>2, <2>3 DEF StreakInv
<1>4. CASE ~ acts /\ highStreak' = streak /\ UNCHANGED vars
  <2>1. cap' = cap /\ mode' = mode /\ recoveryTimer' = recoveryTimer
    BY <1>4 DEF vars
  <2>2. highRun' = Smaller(highRun + 1, SamplesToIncrease) /\ lowRun' = 0
    BY <1>1, <2>1 DEF WatchHigh
  <2> QED BY <1>1, <1>2, <1>4, <2>1, <2>2 DEF StreakInv, Smaller
<1> QED BY <1>2, <1>3, <1>4

LEMMA LimiterKeepsStreaks ==
  ASSUME TypeOK, StreakInv, LimiterStep
  PROVE  StreakInv' /\ (mode = "throughput" => cap' = cap)
<1>1. lowStreak' = lowStreak /\ highStreak' = highStreak /\ lowRun' = lowRun /\ highRun' = highRun
  BY DEF LimiterStep, controller, history
<1>2. mode' = mode /\ (mode = "throughput" => ~ recoveryTimer' /\ cap' = cap)
  <2>1. ASSUME NEW j \in Jobs, Limit(j) \/ Settle(j) \/ OnThrottleRetry(j)
        PROVE  mode' = mode /\ (mode = "throughput" => ~ recoveryTimer' /\ cap' = cap)
    BY <2>1 DEF StreakInv, Limit, Settle, OnThrottleRetry
  <2>2. CASE QuietElapses \/ TickRecovery \/ DisposeAndDetach
    BY <2>2 DEF StreakInv, QuietElapses, TickRecovery, DisposeAndDetach
  <2> QED BY <2>1, <2>2 DEF LimiterStep
<1> QED BY <1>1, <1>2 DEF StreakInv

(* The cap moves only on a full run of samples on one side of the water    *)
(* lines, each run spent once.                                             *)
THEOREM CapHasHysteresis == CSpec => Hysteresis
<1> DEFINE Step == mode = "throughput" =>
             /\ cap' < cap => lowRun + 1 >= BreachesToDecrease /\ cap' >= ControllerMinCap
             /\ cap' > cap => highRun + 1 >= SamplesToIncrease
<1>1. CSpec => []TypeOK
  BY ControllerDrivesLimiter, TypeCorrect, PTL
<1>2. TypeOK /\ StreakInv /\ [CNext]_allVars => StreakInv' /\ [Step]_allVars
  <2> SUFFICES ASSUME TypeOK, StreakInv, [CNext]_allVars PROVE StreakInv' /\ [Step]_allVars
    OBVIOUS
  <2>1. CASE ObserveLow /\ WatchLow
    BY <2>1, LowSample
  <2>2. CASE ObserveHigh /\ WatchHigh
    BY <2>2, HighSample
  <2>3. CASE ObserveMid /\ WatchMid
    BY <2>3, ControllerAssumption, MaxCapType DEF ObserveMid, WatchMid, StreakInv, vars, TypeOK
  <2>4. CASE LimiterStep
    BY <2>4, LimiterKeepsStreaks, MaxCapType DEF TypeOK
  <2>5. CASE UNCHANGED allVars
    BY <2>5 DEF allVars, vars, controller, history, StreakInv
  <2> QED BY <2>1, <2>2, <2>3, <2>4, <2>5 DEF CNext
<1> QED BY <1>1, <1>2, StreakInit, PTL DEF CSpec, Hysteresis
=============================================================================
