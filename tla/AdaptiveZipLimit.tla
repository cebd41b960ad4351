-------------------------- MODULE AdaptiveZipLimit --------------------------
(***************************************************************************)
(* AdaptiveZipGetObjectLimit (src/src/archive-adaptive-zip-limit.ts): the  *)
(* limiter that parallel ZIP workers call around GetObject when one of the *)
(* adaptive-concurrency options is on.  At most `cap` calls run, further   *)
(* callers wait in FIFO order, and the cap itself moves: an S3 throttle    *)
(* lowers it and a recovery interval raises it again (mode "throttle"), or *)
(* the throughput controller moves it both ways (mode "throughput").  The  *)
(* engine (archive-pump-flow.ts) builds one limiter per run, in exactly    *)
(* one of the two modes, and disposes it and drops its reference when the  *)
(* run returns or throws; calls already made go on settling after that.    *)
(* In throughput mode it passes 0 for both times, and no interval is ever  *)
(* set, since throttles are not reported to the limiter.                   *)
(*                                                                         *)
(* Every method is synchronous up to its return and the promise callbacks  *)
(* run one at a time, so each method call and each callback is one action. *)
(* Time is kept as one bit: `quiet` says that the quiet period has elapsed *)
(* since the last throttle.                                                *)
(***************************************************************************)
EXTENDS Naturals, Sequences, FiniteSets

CONSTANTS
  Jobs,                \* the calls of limit() made during the run
  InitialConcurrency,  \* constructor argument: the configured ZIP concurrency
  RecoveryTickMs,      \* constructor argument; 0 disables recovery
  RecoveryQuietMs,     \* constructor argument; 0 makes every moment quiet
  MaxThrottles         \* bound: throttled GetObject attempts in a run

ASSUME JobsAssumption == IsFiniteSet(Jobs)

ASSUME LimitAssumption ==
  /\ InitialConcurrency \in Nat
  /\ RecoveryTickMs \in Nat
  /\ RecoveryQuietMs \in Nat
  /\ MaxThrottles \in Nat

VARIABLES
  mode,                 \* which caller moves the cap
  cap,                  \* #cap
  minCapObserved,       \* #minCapObserved
  active,               \* #active
  waiters,              \* #waiters, oldest first
  status,               \* where each call of limit() is
  maxWaiterQueueDepth,  \* #maxWaiterQueueDepth
  maxActiveConcurrent,  \* #maxActiveConcurrent
  quiet,                \* Date.now() - #lastThrottleAt >= #recoveryQuietMs
  recoveryTimer,        \* #recoveryTimer is set
  attached,             \* the engine still holds its reference
  throttles             \* throttles so far (bounded by MaxThrottles)

vars == <<mode, cap, minCapObserved, active, waiters, status, maxWaiterQueueDepth,
          maxActiveConcurrent, quiet, recoveryTimer, attached, throttles>>

Larger(x, y) == IF x >= y THEN x ELSE y
Smaller(x, y) == IF x <= y THEN x ELSE y

MinCap == 1
MaxCap == Larger(1, InitialConcurrency)

JobStatus == {"idle", "waiting", "running", "settled"}
WithStatus(s) == {j \in Jobs : status[j] = s}

-----------------------------------------------------------------------------
Init ==
  /\ mode \in {"throttle", "throughput"}
  /\ cap = MaxCap
  /\ minCapObserved = MaxCap
  /\ active = 0
  /\ waiters = <<>>
  /\ status = [j \in Jobs |-> "idle"]
  /\ maxWaiterQueueDepth = 0
  /\ maxActiveConcurrent = 0
  /\ quiet = TRUE                 \* #lastThrottleAt starts at the epoch
  /\ recoveryTimer = FALSE
  /\ attached = TRUE
  /\ throttles = 0

(***************************************************************************)
(* #pump with `a` calls active under cap `c`: waiters are shifted and      *)
(* started from the front until the cap is reached or none is left.        *)
(***************************************************************************)
Startable(a, c) == IF a < c THEN Smaller(c - a, Len(waiters)) ELSE 0

(* Mutant: the newest waiters go first. *)
PumpNewestFirst(a, c, st) ==
  LET n == Startable(a, c)
      left == Len(waiters) - n
  IN  /\ active' = a + n
      /\ waiters' = SubSeq(waiters, 1, left)
      /\ status' = [j \in Jobs |-> IF \E i \in left + 1..Len(waiters) : waiters[i] = j
                                   THEN "running" ELSE st[j]]
      /\ maxActiveConcurrent' = Larger(maxActiveConcurrent, a + n)

Pump(a, c, st) ==
  LET n == Startable(a, c)
      started == {waiters[i] : i \in 1..n}
  IN  /\ active' = a + n
      /\ waiters' = SubSeq(waiters, n + 1, Len(waiters))
      /\ status' = [j \in Jobs |-> IF j \in started THEN "running" ELSE st[j]]
      /\ maxActiveConcurrent' = Larger(maxActiveConcurrent, a + n)

(* limit(fn): start under the cap, queue otherwise. *)
Limit(j) ==
  /\ status[j] = "idle"
  /\ \/ /\ active < cap
        /\ status' = [status EXCEPT ![j] = "running"]
        /\ active' = active + 1
        /\ maxActiveConcurrent' = Larger(maxActiveConcurrent, active + 1)
        /\ UNCHANGED <<waiters, maxWaiterQueueDepth>>
     \/ /\ active >= cap
        /\ status' = [status EXCEPT ![j] = "waiting"]
        /\ waiters' = Append(waiters, j)
        /\ maxWaiterQueueDepth' = Larger(maxWaiterQueueDepth, Len(waiters) + 1)
        /\ UNCHANGED <<active, maxActiveConcurrent>>
  /\ UNCHANGED <<mode, cap, minCapObserved, quiet, recoveryTimer, attached, throttles>>

(* Mutant: the slot is freed and nobody pumps. *)
SettleWithoutPump(j) ==
  /\ status[j] = "running"
  /\ active' = active - 1
  /\ status' = [status EXCEPT ![j] = "settled"]
  /\ UNCHANGED <<mode, cap, minCapObserved, waiters, maxWaiterQueueDepth, maxActiveConcurrent,
                 quiet, recoveryTimer, attached, throttles>>

(* fn() fulfilled or rejected: both callbacks free the slot and pump. *)
Settle(j) ==
  /\ status[j] = "running"
  /\ Pump(active - 1, cap, [status EXCEPT ![j] = "settled"])
  /\ UNCHANGED <<mode, cap, minCapObserved, maxWaiterQueueDepth, quiet,
                 recoveryTimer, attached, throttles>>

LowerCap ==
  /\ cap' = Larger(MinCap, cap - 1)
  /\ minCapObserved' = Smaller(minCapObserved, cap')

(***************************************************************************)
(* onThrottleRetry, called by the engine's onS3Retry while the throttled   *)
(* GetObject still holds its slot, and only through the engine's reference.*)
(***************************************************************************)
OnThrottleRetry(j) ==
  /\ mode = "throttle"
  /\ attached
  /\ status[j] = "running"
  /\ throttles < MaxThrottles
  /\ throttles' = throttles + 1
  /\ LowerCap
  /\ quiet' = (RecoveryQuietMs = 0)
  /\ recoveryTimer' = (recoveryTimer \/ (RecoveryTickMs > 0 /\ cap' < MaxCap))
  /\ UNCHANGED <<mode, active, waiters, status, maxWaiterQueueDepth,
                 maxActiveConcurrent, attached>>

(* The quiet period since the last throttle runs out. *)
QuietElapses ==
  /\ ~quiet
  /\ quiet' = TRUE
  /\ UNCHANGED <<mode, cap, minCapObserved, active, waiters, status,
                 maxWaiterQueueDepth, maxActiveConcurrent, recoveryTimer,
                 attached, throttles>>

(* Mutant: the cap is raised and nobody pumps. *)
RaiseCapWithoutPump ==
  /\ cap' = Smaller(MaxCap, cap + 1)
  /\ UNCHANGED <<minCapObserved, maxWaiterQueueDepth, active, waiters, status,
                 maxActiveConcurrent>>

RaiseCap ==
  /\ cap' = Smaller(MaxCap, cap + 1)
  /\ Pump(active, cap', status)
  /\ UNCHANGED <<minCapObserved, maxWaiterQueueDepth>>

(* Mutant: a timeout in place of the interval. *)
TickRecoveryOnce ==
  /\ recoveryTimer
  /\ quiet
  /\ recoveryTimer' = FALSE
  /\ RaiseCap
  /\ UNCHANGED <<mode, quiet, attached, throttles>>

(* #tickRecovery: stop at the maximum, wait while not quiet, else cap + 1. *)
TickRecovery ==
  /\ recoveryTimer
  /\ \/ /\ cap >= MaxCap
        /\ recoveryTimer' = FALSE
        /\ UNCHANGED <<cap, minCapObserved, active, waiters, status,
                       maxWaiterQueueDepth, maxActiveConcurrent>>
     \/ /\ cap < MaxCap
        /\ quiet
        /\ RaiseCap
        /\ UNCHANGED recoveryTimer
  /\ UNCHANGED <<mode, quiet, attached, throttles>>

(* decreaseCapForExternalSignal: the cap alone, no timer, no throttle time. *)
DecreaseCapForExternalSignal ==
  /\ mode = "throughput"
  /\ attached
  /\ LowerCap
  /\ UNCHANGED <<mode, active, waiters, status, maxWaiterQueueDepth,
                 maxActiveConcurrent, quiet, recoveryTimer, attached, throttles>>

(* increaseCapTowardMax. *)
IncreaseCapTowardMax ==
  /\ mode = "throughput"
  /\ attached
  /\ cap < MaxCap
  /\ RaiseCap
  /\ UNCHANGED <<mode, quiet, recoveryTimer, attached, throttles>>

(* Mutant: the reference is dropped first, and nothing is disposed. *)
DetachOnly ==
  /\ attached
  /\ attached' = FALSE
  /\ UNCHANGED <<mode, cap, minCapObserved, active, waiters, status, maxWaiterQueueDepth,
                 maxActiveConcurrent, quiet, recoveryTimer, throttles>>

(* The engine's finally: dispose() and drop the reference. *)
DisposeAndDetach ==
  /\ attached
  /\ attached' = FALSE
  /\ recoveryTimer' = FALSE
  /\ UNCHANGED <<mode, cap, minCapObserved, active, waiters, status,
                 maxWaiterQueueDepth, maxActiveConcurrent, quiet, throttles>>

Next ==
  \/ \E j \in Jobs : Limit(j) \/ Settle(j) \/ OnThrottleRetry(j)
  \/ QuietElapses
  \/ TickRecovery
  \/ DecreaseCapForExternalSignal
  \/ IncreaseCapTowardMax
  \/ DisposeAndDetach

Spec == Init /\ [][Next]_vars

-----------------------------------------------------------------------------
(* Type invariant. *)
TypeOK ==
  /\ mode \in {"throttle", "throughput"}
  /\ cap \in 1..MaxCap
  /\ minCapObserved \in 1..MaxCap
  /\ active \in Nat
  /\ waiters \in Seq(Jobs)
  /\ status \in [Jobs -> JobStatus]
  /\ maxWaiterQueueDepth \in Nat
  /\ maxActiveConcurrent \in Nat
  /\ quiet \in BOOLEAN
  /\ recoveryTimer \in BOOLEAN
  /\ attached \in BOOLEAN
  /\ throttles \in 0..MaxThrottles

(* The counter #active agrees with the calls really in flight, whatever    *)
(* path (direct start, pump after a settle, pump after a raise) started    *)
(* them, and the reported peaks bound every state.                         *)
ActiveCount ==
  /\ active = Cardinality(WithStatus("running"))
  /\ active <= maxActiveConcurrent
  /\ maxActiveConcurrent <= MaxCap

(* The wait queue holds each waiting call once, and nothing else. *)
QueueHoldsWaiting ==
  /\ \A i \in 1..Len(waiters) : status[waiters[i]] = "waiting"
  /\ \A j \in WithStatus("waiting") : \E i \in 1..Len(waiters) : waiters[i] = j
  /\ \A i, k \in 1..Len(waiters) : waiters[i] = waiters[k] => i = k

(* The limiter's books: the counter and the queue say what the calls do. *)
Bookkeeping == ActiveCount /\ QueueHoldsWaiting

(* No lost wakeup: a call waits only while the cap is used up.  It is also *)
(* what keeps limit()'s direct start from overtaking the queue.            *)
NoIdleSlot == waiters # <<>> => active >= cap

(* While the run lasts a lowered cap is always on its way back: the        *)
(* recovery interval is armed whenever the cap is below the maximum.       *)
RecoveryArmed ==
  mode = "throttle" /\ RecoveryTickMs > 0 /\ attached /\ cap < MaxCap
    => recoveryTimer

(* A finished run leaves no interval behind, although calls it abandoned   *)
(* may still be retried and report throttles.                              *)
NoTimerAfterRun == ~attached => ~recoveryTimer

(* The interval lives exactly where it may: armed while a lowered cap has  *)
(* to come back, gone with the run.                                        *)
TimerExact == RecoveryArmed /\ NoTimerAfterRun

(* No step starts a call above the cap then in force, even though lowering *)
(* the cap leaves active above it for a while.                             *)
NoStartAboveCap == [][active' > active => active' <= cap']_vars

(* First come, first served: a call starts at once only when nobody waits, *)
(* and a waiting call starts only with everything queued before it.        *)
FifoStep ==
  \A j \in Jobs :
    /\ status[j] = "idle" /\ status'[j] = "running" => waiters = <<>>
    /\ \A i, k \in 1..Len(waiters) :
         i < k /\ status'[waiters[k]] = "running"
           => status'[waiters[i]] = "running"

Fifo == [][FifoStep]_vars

(* Every call that waits is eventually started, whatever happens to the    *)
(* cap and whether or not the run has ended meanwhile.                     *)
EveryWaiterStarts ==
  \A j \in Jobs : status[j] = "waiting" ~> status[j] = "running"

(* Throttling is transient: once the throttles stop, the cap climbs back   *)
(* to the configured concurrency unless the run ends first.                *)
CapRecovers ==
  mode = "throttle" /\ cap < MaxCap ~> (cap = MaxCap \/ ~attached)
=============================================================================
