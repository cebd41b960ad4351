---------------------------- MODULE ZipPumpProofs ----------------------------
(***************************************************************************)
(* The pool, for any window width and any listing: the window is exactly   *)
(* the work in flight and never too wide, the driver never waits on an     *)
(* empty window, the pool resolves only when everything is worked off, and *)
(* a pool that has returned stays so.                                      *)
(*                                                                         *)
(* The run, for any number of objects, any window, any sizes and every     *)
(* fault: its sections never interleave; every open body is covered by     *)
(* the byte budget; the manifest is written when nothing runs any more; a  *)
(* run that resolves without an abort is complete; and with a checkpoint   *)
(* no key is archived again once it is recorded.                           *)
(*                                                                         *)
(* The other pool, the one a run takes with objectPriority, for any        *)
(* scores, any read-ahead and any window: its array is a heap (for every   *)
(* input of push and pop), a free slot takes the best object read ahead,   *)
(* and the driver waits only when it must.                                 *)
(***************************************************************************)
EXTENDS ZipPump, PriorityPool, FiniteSetTheorems, SequenceTheorems, TLAPS

-----------------------------------------------------------------------------
(* The pool. *)

(* What has not been listed has not settled. *)
Untouched == \A o \in Objects : o > listed => outcome[o] = "none"

PoolInv ==
  /\ PoolTypeOK
  /\ Untouched
  /\ WindowExact
  /\ NeverStuckOnEmptyWindow
  /\ ResolvesWhenAllDone

(* The window is finite, and grows and shrinks by one. *)
LEMMA WindowSize ==
  ASSUME PoolTypeOK
  PROVE  /\ IsFiniteSet(executing) /\ Cardinality(executing) \in Nat
         /\ (executing = {}) <=> (Cardinality(executing) = 0)
         /\ \A o \in Objects \ executing :
              Cardinality(executing \cup {o}) = Cardinality(executing) + 1
         /\ \A o \in executing :
              Cardinality(executing \ {o}) = Cardinality(executing) - 1
<1>1. IsFiniteSet(Objects)
  BY PoolAssumption, FS_Interval DEF Objects
<1>2. IsFiniteSet(executing)
  BY <1>1, FS_Subset DEF PoolTypeOK
<1> QED BY <1>2, FS_CardinalityType, FS_EmptySet, FS_AddElement, FS_RemoveElement

LEMMA PoolInitInv == PoolInit => PoolInv
<1> SUFFICES ASSUME PoolInit PROVE PoolInv
  OBVIOUS
<1>1. PoolTypeOK
  BY PoolAssumption DEF PoolInit, PoolTypeOK, Ended, Objects
<1>2. WindowExact
  <2>1. {o \in 1..listed : outcome[o] = "none"} = {}
    BY DEF PoolInit
  <2>2. Cardinality({}) = 0
    BY FS_EmptySet
  <2> QED BY <2>1, <2>2, PoolAssumption DEF PoolInit, WindowExact
<1>3. NeverStuckOnEmptyWindow /\ ResolvesWhenAllDone
  <2>1. Cardinality({}) = 0
    BY FS_EmptySet
  <2> QED BY <2>1, PoolAssumption
        DEF PoolInit, NeverStuckOnEmptyWindow, ResolvesWhenAllDone
<1>4. Untouched
  BY DEF PoolInit, Untouched
<1> QED BY <1>1, <1>2, <1>3, <1>4 DEF PoolInv

LEMMA PullItemStep ==
  ASSUME PoolInv, PullItem
  PROVE  PoolInv'
<1>1. /\ PoolTypeOK /\ WindowExact /\ NeverStuckOnEmptyWindow
      /\ Concurrency \in Nat \ {0} /\ MaxObjects \in Nat
  BY PoolAssumption DEF PoolInv
<1>2. /\ listed' = listed + 1 /\ listed < MaxObjects /\ listed \in 0..MaxObjects
      /\ executing' = executing \cup {listed + 1} /\ outcome' = outcome
      /\ unhandled' = unhandled /\ driver = "pull"
      /\ driver' = IF Cardinality(executing') >= Concurrency THEN "race" ELSE "pull"
  BY <1>1 DEF PullItem, PoolTypeOK
<1>3. listed + 1 \in Objects \ executing
  <2>1. listed + 1 \in Objects /\ listed + 1 \notin 1..listed
    BY <1>1, <1>2 DEF Objects
  <2> QED BY <1>1, <2>1 DEF WindowExact
<1>4. Cardinality(executing') = Cardinality(executing) + 1 /\ Cardinality(executing) \in Nat
  BY <1>1, <1>2, <1>3, WindowSize
<1>5. PoolTypeOK'
  BY <1>1, <1>2, <1>3 DEF PoolTypeOK, Ended, Objects
<1>6. outcome[listed + 1] = "none"
  BY <1>1, <1>2, <1>3 DEF PoolInv, Untouched, Objects
<1>7. WindowExact'
  <2>1. 1..(listed + 1) = (1..listed) \cup {listed + 1}
    BY <1>2
  <2>2. executing' = {o \in 1..listed' : outcome'[o] = "none"}
    BY <1>1, <1>2, <1>6, <2>1 DEF WindowExact
  <2>3. Cardinality(executing') <= Concurrency
    BY <1>1, <1>2, <1>4 DEF NeverStuckOnEmptyWindow
  <2> QED BY <2>2, <2>3 DEF WindowExact
<1>8. NeverStuckOnEmptyWindow'
  <2>1. executing' # {}
    BY <1>2
  <2> QED BY <1>1, <1>2, <1>4, <2>1 DEF NeverStuckOnEmptyWindow
<1>9. ResolvesWhenAllDone'
  BY <1>2 DEF ResolvesWhenAllDone
<1>10. Untouched'
  BY <1>1, <1>2 DEF PoolInv, Untouched, Objects
<1> QED BY <1>5, <1>7, <1>8, <1>9, <1>10 DEF PoolInv

LEMMA PullEndStep ==
  ASSUME PoolInv, PullEnd
  PROVE  PoolInv'
<1>1. /\ driver = "pull" /\ listed' = listed /\ executing' = executing
      /\ outcome' = outcome /\ unhandled' = unhandled
      /\ driver' = IF executing = {} THEN "resolved" ELSE "join"
  BY DEF PullEnd
<1>2. PoolTypeOK' /\ Untouched' /\ WindowExact'
  BY <1>1 DEF PoolInv, PoolTypeOK, Ended, Untouched, WindowExact
<1>3. NeverStuckOnEmptyWindow'
  BY <1>1 DEF NeverStuckOnEmptyWindow
<1>4. ResolvesWhenAllDone'
  BY <1>1 DEF PoolInv, WindowExact, ResolvesWhenAllDone
<1> QED BY <1>2, <1>3, <1>4 DEF PoolInv

LEMMA PullFailsStep ==
  ASSUME PoolInv, PullFails
  PROVE  PoolInv'
<1>1. /\ driver' = "rejected" /\ listed' = listed /\ executing' = executing
      /\ outcome' = outcome /\ unhandled' = unhandled
  BY DEF PullFails
<1>2. PoolTypeOK' /\ Untouched' /\ WindowExact'
  BY <1>1 DEF PoolInv, PoolTypeOK, Ended, Untouched, WindowExact
<1>3. NeverStuckOnEmptyWindow' /\ ResolvesWhenAllDone'
  BY <1>1 DEF NeverStuckOnEmptyWindow, ResolvesWhenAllDone
<1> QED BY <1>2, <1>3 DEF PoolInv

LEMMA SettleStep ==
  ASSUME PoolInv, NEW o \in Objects, NEW result \in {"ok", "failed"},
         SettleWith(o, result)
  PROVE  PoolInv'
<1>1. /\ PoolTypeOK /\ WindowExact /\ NeverStuckOnEmptyWindow /\ ResolvesWhenAllDone
      /\ Untouched /\ Concurrency \in Nat \ {0} /\ MaxObjects \in Nat
  BY PoolAssumption DEF PoolInv
<1>2. /\ o \in executing /\ executing' = executing \ {o} /\ listed' = listed
      /\ outcome' = [outcome EXCEPT ![o] = result]
      /\ unhandled' \subseteq unhandled \cup {o}
  BY DEF SettleWith
<1>3. \/ result = "failed" /\ driver \in {"race", "join"} /\ driver' = "rejected"
      \/ result = "ok" /\ driver = "race" /\ driver' = "pull"
      \/ result = "ok" /\ driver = "join" /\ executing' = {} /\ driver' = "resolved"
      \/ /\ driver' = driver /\ driver # "race" 
         /\ driver = "join" => executing' # {}
  BY <1>1 DEF SettleWith, PoolTypeOK
<1>4. /\ Cardinality(executing') = Cardinality(executing) - 1
      /\ Cardinality(executing) \in Nat
  BY <1>1, <1>2, WindowSize
<1>5. PoolTypeOK'
  BY <1>1, <1>2, <1>3 DEF PoolTypeOK, Ended
<1>6. Untouched'
  BY <1>1, <1>2, <1>5 DEF Untouched, WindowExact, PoolTypeOK, Objects
<1>7. WindowExact'
  <2>1. executing' = {x \in 1..listed' : outcome'[x] = "none"}
    BY <1>1, <1>2 DEF WindowExact, PoolTypeOK, Objects
  <2> QED BY <1>1, <1>4, <2>1 DEF WindowExact
<1>8. NeverStuckOnEmptyWindow'
  BY <1>1, <1>3, <1>4 DEF NeverStuckOnEmptyWindow, WindowExact
<1>9. ResolvesWhenAllDone'
  <2>1. SUFFICES ASSUME driver' = "resolved" PROVE executing' = {}
    BY <1>7 DEF ResolvesWhenAllDone, WindowExact
  <2>2. CASE driver = "resolved"
    BY <1>1, <1>2, <2>2 DEF ResolvesWhenAllDone, WindowExact
  <2> QED BY <1>3, <2>1, <2>2
<1> QED BY <1>5, <1>6, <1>7, <1>8, <1>9 DEF PoolInv

LEMMA PoolInvariance == PoolSpec => []PoolInv
<1>1. PoolInv /\ [PoolNext]_poolVars => PoolInv'
  <2> SUFFICES ASSUME PoolInv, [PoolNext]_poolVars PROVE PoolInv'
    OBVIOUS
  <2>1. CASE PullItem
    BY <2>1, PullItemStep
  <2>2. CASE PullEnd
    BY <2>2, PullEndStep
  <2>3. CASE PullFails
    BY <2>3, PullFailsStep
  <2>4. ASSUME NEW o \in Objects, Settle(o) PROVE PoolInv'
    BY <2>4, SettleStep DEF Settle
  <2>5. CASE UNCHANGED poolVars
    BY <2>5 DEF poolVars, PoolInv, PoolTypeOK, Untouched, WindowExact,
                NeverStuckOnEmptyWindow, ResolvesWhenAllDone
  <2> QED BY <2>1, <2>2, <2>3, <2>4, <2>5 DEF PoolNext
<1> QED BY <1>1, PoolInitInv, PTL DEF PoolSpec

(* The window is the work in flight and never wider than the concurrency. *)
THEOREM WindowBounded == PoolSpec => []WindowExact
<1>1. PoolInv => WindowExact
  BY DEF PoolInv
<1> QED BY <1>1, PoolInvariance, PTL

(* Promise.race and Promise.all are only awaited over pending tasks. *)
THEOREM NeverWaitsForNothing == PoolSpec => []NeverStuckOnEmptyWindow
<1>1. PoolInv => NeverStuckOnEmptyWindow
  BY DEF PoolInv
<1> QED BY <1>1, PoolInvariance, PTL

(* A resolved pool leaves no listed object in flight. *)
THEOREM ResolvedMeansDone == PoolSpec => []ResolvesWhenAllDone
<1>1. PoolInv => ResolvesWhenAllDone
  BY DEF PoolInv
<1> QED BY <1>1, PoolInvariance, PTL

(* A pool that has returned starts no task and never returns again. *)
THEOREM EndIsFinal == PoolSpec => NoStartAfterEnd
<1>1. [PoolNext]_poolVars
        => [(driver \in Ended) => executing' \subseteq executing /\ driver' = driver]_poolVars
  BY DEF PoolNext, PullItem, PullEnd, PullFails, Settle, SettleWith, Ended, poolVars
<1> QED BY <1>1, PTL DEF PoolSpec, NoStartAfterEnd

-----------------------------------------------------------------------------
(* The run. *)

LEMMA StepsOfThePool ==
  ASSUME Next
  PROVE  [PoolNext]_poolVars
<1>1. CASE Pull
  BY <1>1 DEF Pull, PoolNext
<1>2. CASE ListingEnds
  BY <1>2 DEF ListingEnds, PoolNext
<1>3. CASE Engine \/ DestinationFails \/ Abort
  BY <1>3 DEF Engine, IterationRejected, IterationResolved, WriteManifest, PipelineSettles,
              DestinationFails, Abort, poolVars
<1>4. ASSUME NEW o \in Objects, Step(o) PROVE [PoolNext]_poolVars
  <2>1. CASE \E result \in {"ok", "failed"} : SettleWith(o, result)
    BY <2>1 DEF PoolNext, Settle
  <2> QED BY <1>4, <2>1
        DEF Step, StartTask, CountListed, CountSkipped, Begin, PassGate, GateRejects, GetObject,
            StartAppend, Omit, Record, Reject, Return
<1>5. ASSUME NEW o \in Objects, External(o) PROVE [PoolNext]_poolVars
  <2>1. CASE \E result \in {"ok", "failed"} : SettleWith(o, result)
    BY <2>1 DEF PoolNext, Settle
  <2> QED BY <1>5, <2>1
        DEF External, GetSucceeds, GetFails, AppendDone, AppendFails, SaveDone, SaveFails, Return
<1> QED BY <1>1, <1>2, <1>3, <1>4, <1>5 DEF Next

-----------------------------------------------------------------------------
(* The exclusive chain.  Every section in the queue is there once, belongs *)
(* to a task that waits for it or is in it, and only the first has begun.  *)
LockInv ==
  /\ pc \in [Objects -> Places]
  /\ lockq \in Seq(Objects \cup {Manifest})
  /\ \A i \in 1..Len(lockq) : lockq[i] # Manifest => pc[lockq[i]] \in InLock
  /\ \A o \in Objects : pc[o] \in InLock => \E i \in 1..Len(lockq) : lockq[i] = o
  /\ \A i, k \in 1..Len(lockq) : lockq[i] = lockq[k] => i = k
  /\ \A o \in Objects : pc[o] \in {"writing", "saving"} => lockq[1] = o
  /\ \A i \in 1..Len(lockq) : lockq[i] = Manifest => run = "manifest"

(* A task that has begun its section is the head of the queue. *)
LEMMA BegunRuns ==
  ASSUME LockInv, NEW o \in Objects, pc[o] \in {"writing", "saving"}
  PROVE  Runs(o)
BY DEF LockInv, Runs, InLock

(* A task joins the queue. *)
LEMMA QueueStep ==
  ASSUME LockInv, NEW o \in Objects, pc[o] \notin InLock,
         NEW place \in Places \ {"writing", "saving"}, place \in InLock,
         Goto(o, place), Queue(o), run' = run
  PROVE  LockInv'
<1>1. /\ pc' \in [Objects -> Places] /\ pc'[o] = place
      /\ \A x \in Objects \ {o} : pc'[x] = pc[x]
  BY DEF LockInv, Goto
<1>2. /\ lockq' \in Seq(Objects \cup {Manifest}) /\ Len(lockq') = Len(lockq) + 1
      /\ lockq'[Len(lockq) + 1] = o
      /\ \A i \in 1..Len(lockq) : lockq'[i] = lockq[i]
      /\ Len(lockq) \in Nat
  BY DEF LockInv, Queue
<1>3. o # Manifest /\ \A i \in 1..Len(lockq) : lockq[i] # o /\ lockq[i] \in Objects \cup {Manifest}
  BY PoolAssumption DEF LockInv, Manifest, Objects
<1>4. \A i \in 1..Len(lockq') : lockq'[i] # Manifest => pc'[lockq'[i]] \in InLock
  BY <1>1, <1>2, <1>3 DEF LockInv
<1>5. \A x \in Objects : pc'[x] \in InLock => \E i \in 1..Len(lockq') : lockq'[i] = x
  <2> SUFFICES ASSUME NEW x \in Objects, pc'[x] \in InLock
               PROVE  \E i \in 1..Len(lockq') : lockq'[i] = x
    OBVIOUS
  <2>1. CASE x = o
    BY <1>2, <2>1
  <2>2. CASE x # o
    <3>1. PICK i \in 1..Len(lockq) : lockq[i] = x
      BY <1>1, <2>2 DEF LockInv
    <3> QED BY <1>2, <3>1
  <2> QED BY <2>1, <2>2
<1>6. \A i, k \in 1..Len(lockq') : lockq'[i] = lockq'[k] => i = k
  BY <1>2, <1>3 DEF LockInv
<1>7. \A x \in Objects : pc'[x] \in {"writing", "saving"} => lockq'[1] = x
  <2> SUFFICES ASSUME NEW x \in Objects, pc'[x] \in {"writing", "saving"}
               PROVE  lockq'[1] = x
    OBVIOUS
  <2>1. x # o /\ pc[x] = pc'[x]
    BY <1>1
  <2>2. Runs(x)
    BY <2>1, BegunRuns
  <2> QED BY <1>2, <2>1, <2>2 DEF Runs, LockInv
<1>8. \A i \in 1..Len(lockq') : lockq'[i] = Manifest => run' = "manifest"
  BY <1>2, <1>3 DEF LockInv
<1> QED BY <1>1, <1>2, <1>4, <1>5, <1>6, <1>7, <1>8 DEF LockInv

(* The section at the head is left. *)
LEMMA LeaveStep ==
  ASSUME LockInv, NEW o \in Objects, Runs(o),
         NEW place \in Places \ InLock,
         Goto(o, place), LeaveLock, run' = run
  PROVE  LockInv'
<1>1. /\ pc' \in [Objects -> Places] /\ pc'[o] = place
      /\ \A x \in Objects \ {o} : pc'[x] = pc[x]
  BY DEF LockInv, Goto
<1>2. /\ lockq' \in Seq(Objects \cup {Manifest}) /\ Len(lockq') = Len(lockq) - 1
      /\ \A i \in 1..Len(lockq') : lockq'[i] = lockq[i + 1] /\ i + 1 \in 1..Len(lockq)
      /\ Len(lockq) \in Nat \ {0} /\ lockq[1] = o
  BY DEF LockInv, LeaveLock, Runs
<1>3. \A i \in 1..Len(lockq') : lockq'[i] # o /\ lockq'[i] \in Objects \cup {Manifest}
  BY <1>2 DEF LockInv
<1>4. \A i \in 1..Len(lockq') : lockq'[i] # Manifest => pc'[lockq'[i]] \in InLock
  <2> SUFFICES ASSUME NEW i \in 1..Len(lockq'), lockq'[i] # Manifest
               PROVE  pc'[lockq'[i]] \in InLock
    OBVIOUS
  <2>1. lockq'[i] = lockq[i + 1] /\ i + 1 \in 1..Len(lockq) /\ lockq'[i] \in Objects \ {o}
    BY <1>2, <1>3
  <2>2. pc[lockq[i + 1]] \in InLock
    BY <2>1 DEF LockInv
  <2> QED BY <1>1, <2>1, <2>2
<1>5. \A x \in Objects : pc'[x] \in InLock => \E i \in 1..Len(lockq') : lockq'[i] = x
  <2> SUFFICES ASSUME NEW x \in Objects, pc'[x] \in InLock
               PROVE  \E i \in 1..Len(lockq') : lockq'[i] = x
    OBVIOUS
  <2>1. x # o
    BY <1>1
  <2>2. PICK i \in 1..Len(lockq) : lockq[i] = x
    BY <1>1, <2>1 DEF LockInv
  <2>3. i # 1 /\ i - 1 \in 1..Len(lockq') /\ lockq'[i - 1] = x
    BY <1>2, <2>1, <2>2
  <2> QED BY <2>3
<1>6. \A i, k \in 1..Len(lockq') : lockq'[i] = lockq'[k] => i = k
  <2> SUFFICES ASSUME NEW i \in 1..Len(lockq'), NEW k \in 1..Len(lockq'), lockq'[i] = lockq'[k]
               PROVE  i = k
    OBVIOUS
  <2>1. lockq[i + 1] = lockq[k + 1] /\ i + 1 \in 1..Len(lockq) /\ k + 1 \in 1..Len(lockq)
    BY <1>2
  <2> QED BY <2>1 DEF LockInv
<1>7. \A x \in Objects : pc'[x] \notin {"writing", "saving"}
  <2> SUFFICES ASSUME NEW x \in Objects, pc'[x] \in {"writing", "saving"} PROVE FALSE
    OBVIOUS
  <2>1. x # o /\ pc[x] = pc'[x]
    BY <1>1 DEF InLock
  <2> QED BY <1>2, <2>1 DEF LockInv
<1>8. \A i \in 1..Len(lockq') : lockq'[i] = Manifest => run' = "manifest"
  BY <1>2 DEF LockInv
<1> QED BY <1>1, <1>2, <1>4, <1>5, <1>6, <1>7, <1>8 DEF LockInv

(* The section at the head ends, and its task queues the next one. *)
LEMMA LeaveAndQueueStep ==
  ASSUME LockInv, NEW o \in Objects, Runs(o),
         NEW place \in InLock \ {"writing", "saving"},
         Goto(o, place), LeaveAndQueue(o), run' = run
  PROVE  LockInv'
<1>1. /\ pc' \in [Objects -> Places] /\ pc'[o] = place
      /\ \A x \in Objects \ {o} : pc'[x] = pc[x]
  BY DEF LockInv, Goto, Places
<1>2. /\ Tail(lockq) \in Seq(Objects \cup {Manifest}) /\ Len(Tail(lockq)) = Len(lockq) - 1
      /\ \A i \in 1..Len(lockq) - 1 : Tail(lockq)[i] = lockq[i + 1]
      /\ Len(lockq) \in Nat \ {0} /\ lockq[1] = o
  BY DEF LockInv, Runs
<1>3. /\ lockq' \in Seq(Objects \cup {Manifest}) /\ Len(lockq') = Len(lockq)
      /\ lockq'[Len(lockq)] = o
      /\ \A i \in 1..Len(lockq) - 1 : lockq'[i] = lockq[i + 1]
  <2> DEFINE t == Tail(lockq)
  <2>1. lockq' = Append(t, o)
    BY DEF LeaveAndQueue
  <2>2. t \in Seq(Objects \cup {Manifest}) /\ Len(t) = Len(lockq) - 1
    BY <1>2
  <2> HIDE DEF t
  <2>3. /\ lockq' \in Seq(Objects \cup {Manifest}) /\ Len(lockq') = Len(t) + 1
        /\ lockq'[Len(t) + 1] = o
        /\ \A i \in 1..Len(t) : lockq'[i] = t[i]
    BY <2>1, <2>2
  <2> QED BY <1>2, <2>2, <2>3 DEF t
<1>4. \A i \in 1..Len(lockq) - 1 : lockq'[i] # o /\ lockq'[i] \in Objects \cup {Manifest}
  BY <1>2, <1>3 DEF LockInv
<1>5. o # Manifest
  BY PoolAssumption DEF Manifest, Objects
<1>6. \A i \in 1..Len(lockq') : lockq'[i] # Manifest => pc'[lockq'[i]] \in InLock
  <2> SUFFICES ASSUME NEW i \in 1..Len(lockq'), lockq'[i] # Manifest
               PROVE  pc'[lockq'[i]] \in InLock
    OBVIOUS
  <2>1. CASE i = Len(lockq)
    BY <1>1, <1>3, <2>1
  <2>2. CASE i # Len(lockq)
    <3>1. i \in 1..Len(lockq) - 1 /\ i + 1 \in 1..Len(lockq)
      <4> DEFINE n == Len(lockq)
      <4>1. n \in Nat \ {0} /\ i \in 1..n /\ i # n
        BY <1>2, <1>3, <2>2
      <4> HIDE DEF n
      <4>2. i \in 1..n - 1 /\ i + 1 \in 1..n
        BY <4>1
      <4> QED BY <4>2 DEF n
    <3>2. lockq'[i] = lockq[i + 1] /\ lockq'[i] \in Objects \ {o}
      BY <1>3, <1>4, <3>1
    <3>3. pc[lockq[i + 1]] \in InLock
      BY <3>1, <3>2 DEF LockInv
    <3> QED BY <1>1, <3>2, <3>3
  <2> QED BY <2>1, <2>2
<1>7. \A x \in Objects : pc'[x] \in InLock => \E i \in 1..Len(lockq') : lockq'[i] = x
  <2> SUFFICES ASSUME NEW x \in Objects, pc'[x] \in InLock
               PROVE  \E i \in 1..Len(lockq') : lockq'[i] = x
    OBVIOUS
  <2>1. CASE x = o
    BY <1>2, <1>3, <2>1
  <2>2. CASE x # o
    <3>1. PICK i \in 1..Len(lockq) : lockq[i] = x
      BY <1>1, <2>2 DEF LockInv
    <3>2. i # 1 /\ i - 1 \in 1..Len(lockq') /\ lockq'[i - 1] = x
      BY <1>2, <1>3, <2>2, <3>1
    <3> QED BY <3>2
  <2> QED BY <2>1, <2>2
<1>8. \A i, k \in 1..Len(lockq') : lockq'[i] = lockq'[k] => i = k
  <2> SUFFICES ASSUME NEW i \in 1..Len(lockq'), NEW k \in 1..Len(lockq'), lockq'[i] = lockq'[k]
               PROVE  i = k
    OBVIOUS
  <2> DEFINE n == Len(lockq)
  <2>1. n \in Nat /\ i \in 1..n /\ k \in 1..n
    BY <1>2, <1>3
  <2>2. CASE i = n \/ k = n
    <3>1. i \in 1..n - 1 => lockq'[i] # o
      BY <1>4
    <3>2. k \in 1..n - 1 => lockq'[k] # o
      BY <1>4
    <3>3. lockq'[n] = o
      BY <1>3
    <3> HIDE DEF n
    <3> QED BY <2>1, <2>2, <3>1, <3>2, <3>3
  <2>3. CASE i # n /\ k # n
    <3>1. i \in 1..n - 1 /\ k \in 1..n - 1 /\ i + 1 \in 1..n /\ k + 1 \in 1..n
      BY <2>1, <2>3
    <3>2. lockq[i + 1] = lockq[k + 1]
      BY <1>3, <3>1
    <3>3. i + 1 = k + 1
      BY <3>1, <3>2 DEF LockInv
    <3> QED BY <2>1, <3>3
  <2> QED BY <2>2, <2>3
<1>9. \A x \in Objects : pc'[x] \notin {"writing", "saving"}
  <2> SUFFICES ASSUME NEW x \in Objects, pc'[x] \in {"writing", "saving"} PROVE FALSE
    OBVIOUS
  <2>1. x # o /\ pc[x] = pc'[x]
    BY <1>1
  <2> QED BY <1>2, <2>1 DEF LockInv
<1>10. \A i \in 1..Len(lockq') : lockq'[i] = Manifest => run' = "manifest"
  BY <1>2, <1>3, <1>5 DEF LockInv
<1> QED BY <1>1, <1>3, <1>6, <1>7, <1>8, <1>9, <1>10 DEF LockInv

(* A task moves on without touching the queue. *)
LEMMA MoveStep ==
  ASSUME LockInv, NEW o \in Objects, NEW place \in Places, Goto(o, place),
         (pc[o] \in InLock) <=> (place \in InLock),
         place \in {"writing", "saving"} => Runs(o),
         UNCHANGED <<lockq, run>>
  PROVE  LockInv'
<1>1. /\ pc' \in [Objects -> Places] /\ pc'[o] = place
      /\ \A x \in Objects \ {o} : pc'[x] = pc[x]
  BY DEF LockInv, Goto
<1>2. lockq' = lockq /\ run' = run
  OBVIOUS
<1>3. \A i \in 1..Len(lockq) : lockq[i] \in Objects \cup {Manifest}
  BY DEF LockInv
<1>4. \A x \in Objects : (pc'[x] \in InLock) <=> (pc[x] \in InLock)
  BY <1>1
<1>5. \A x \in Objects : pc'[x] \in {"writing", "saving"} => lockq'[1] = x
  BY <1>1, <1>2 DEF LockInv, Runs
<1> QED BY <1>1, <1>2, <1>3, <1>4, <1>5 DEF LockInv

(* The manifest's section is left. *)
LEMMA ManifestLeaves ==
  ASSUME LockInv, Runs(Manifest), LeaveLock, pc' = pc
  PROVE  LockInv'
<1>1. /\ lockq' \in Seq(Objects \cup {Manifest}) /\ Len(lockq') = Len(lockq) - 1
      /\ \A i \in 1..Len(lockq') : lockq'[i] = lockq[i + 1] /\ i + 1 \in 1..Len(lockq)
      /\ Len(lockq) \in Nat \ {0} /\ lockq[1] = Manifest
  BY DEF LockInv, LeaveLock, Runs
<1>2. \A i \in 1..Len(lockq') : lockq'[i] # Manifest
  BY <1>1 DEF LockInv
<1>3. \A o \in Objects : o # Manifest
  BY PoolAssumption DEF Manifest, Objects
<1>4. \A i \in 1..Len(lockq') : lockq'[i] # Manifest => pc'[lockq'[i]] \in InLock
  <2> SUFFICES ASSUME NEW i \in 1..Len(lockq'), lockq'[i] # Manifest
               PROVE  pc[lockq'[i]] \in InLock
    OBVIOUS
  <2>1. lockq'[i] = lockq[i + 1] /\ i + 1 \in 1..Len(lockq)
    BY <1>1
  <2> QED BY <2>1 DEF LockInv
<1>5. \A o \in Objects : pc'[o] \in InLock => \E i \in 1..Len(lockq') : lockq'[i] = o
  <2> SUFFICES ASSUME NEW o \in Objects, pc[o] \in InLock
               PROVE  \E i \in 1..Len(lockq') : lockq'[i] = o
    OBVIOUS
  <2>1. PICK i \in 1..Len(lockq) : lockq[i] = o
    BY DEF LockInv
  <2>2. i # 1 /\ i - 1 \in 1..Len(lockq') /\ lockq'[i - 1] = o
    BY <1>1, <1>3, <2>1
  <2> QED BY <2>2
<1>6. \A i, k \in 1..Len(lockq') : lockq'[i] = lockq'[k] => i = k
  <2> SUFFICES ASSUME NEW i \in 1..Len(lockq'), NEW k \in 1..Len(lockq'), lockq'[i] = lockq'[k]
               PROVE  i = k
    OBVIOUS
  <2>1. lockq[i + 1] = lockq[k + 1] /\ i + 1 \in 1..Len(lockq) /\ k + 1 \in 1..Len(lockq)
    BY <1>1
  <2> QED BY <2>1 DEF LockInv
<1>7. \A o \in Objects : pc'[o] \notin {"writing", "saving"}
  BY <1>1, <1>3 DEF LockInv
<1> QED BY <1>1, <1>2, <1>4, <1>5, <1>6, <1>7 DEF LockInv

(* The manifest's section is queued. *)
LEMMA ManifestQueues ==
  ASSUME LockInv, run = "iterating", run' = "manifest", Queue(Manifest), pc' = pc
  PROVE  LockInv'
<1>1. /\ lockq' \in Seq(Objects \cup {Manifest}) /\ Len(lockq') = Len(lockq) + 1
      /\ lockq'[Len(lockq) + 1] = Manifest
      /\ \A i \in 1..Len(lockq) : lockq'[i] = lockq[i] /\ lockq[i] # Manifest
      /\ Len(lockq) \in Nat
  BY DEF LockInv, Queue
<1>2. \A o \in Objects : pc'[o] \in InLock => \E i \in 1..Len(lockq') : lockq'[i] = o
  <2> SUFFICES ASSUME NEW o \in Objects, pc[o] \in InLock
               PROVE  \E i \in 1..Len(lockq') : lockq'[i] = o
    OBVIOUS
  <2>1. PICK i \in 1..Len(lockq) : lockq[i] = o
    BY DEF LockInv
  <2> QED BY <1>1, <2>1
<1>3. \A i, k \in 1..Len(lockq') : lockq'[i] = lockq'[k] => i = k
  BY <1>1 DEF LockInv
<1>4. \A o \in Objects : pc'[o] \in {"writing", "saving"} => lockq'[1] = o
  <2> SUFFICES ASSUME NEW o \in Objects, pc[o] \in {"writing", "saving"} PROVE lockq'[1] = o
    OBVIOUS
  <2>1. Runs(o)
    BY BegunRuns
  <2> QED BY <1>1, <2>1 DEF Runs, LockInv
<1>5. \A i \in 1..Len(lockq') : lockq'[i] # Manifest => pc'[lockq'[i]] \in InLock
  BY <1>1 DEF LockInv
<1> QED BY <1>1, <1>2, <1>3, <1>4, <1>5 DEF LockInv

LEMMA TaskKeepsLock ==
  ASSUME LockInv, NEW o \in Objects, Step(o) \/ External(o)
  PROVE  LockInv'
<1>1. CASE StartTask(o)
  <2>1. CASE Goto(o, "ended") /\ UNCHANGED <<lockq, run>>
    BY <1>1, <2>1, MoveStep DEF StartTask, InLock, BodyOpen, Places
  <2>2. CASE Goto(o, "listed") /\ Queue(o) /\ UNCHANGED run
    BY <1>1, <2>2, QueueStep DEF StartTask, InLock, BodyOpen, Places
  <2> QED BY <1>1, <2>1, <2>2 DEF StartTask
<1>2. CASE CountListed(o)
  <2>1. Runs(o) /\ run' = run
    BY <1>2 DEF CountListed
  <2>2. CASE LeaveAndQueue(o) /\ (Goto(o, "skip") \/ Goto(o, "begin"))
    BY <2>1, <2>2, LeaveAndQueueStep DEF InLock
  <2>3. CASE LeaveLock /\ Goto(o, "failing")
    BY <2>1, <2>3, LeaveStep DEF InLock, BodyOpen, Places
  <2> QED BY <1>2, <2>2, <2>3 DEF CountListed, Throw
<1>3. CASE CountSkipped(o)
  BY <1>3, LeaveStep DEF CountSkipped, InLock, BodyOpen, Places
<1>4. CASE Begin(o)
  BY <1>4, LeaveStep DEF Begin, Throw, InLock, BodyOpen, Places
<1>5. CASE PassGate(o)
  BY <1>5, MoveStep DEF PassGate, InLock, BodyOpen, Places
<1>6. CASE GateRejects(o)
  BY <1>6, MoveStep DEF GateRejects, Throw, InLock, BodyOpen, Places
<1>7. CASE GetObject(o)
  BY <1>7, MoveStep DEF GetObject, InLock, BodyOpen, Places
<1>8. CASE GetSucceeds(o)
  BY <1>8, QueueStep DEF GetSucceeds, InLock, BodyOpen, Places
<1>9. CASE GetFails(o)
  <2>1. CASE Queue(o) /\ Goto(o, "omit")
    BY <1>9, <2>1, QueueStep DEF GetFails, InLock, BodyOpen, Places
  <2>2. CASE UNCHANGED lockq /\ Goto(o, "failing")
    BY <1>9, <2>2, MoveStep DEF GetFails, InLock, BodyOpen, Places
  <2> QED BY <1>9, <2>1, <2>2 DEF GetFails, Throw
<1>10. CASE StartAppend(o)
  BY <1>10, MoveStep DEF StartAppend, InLock, BodyOpen, Places
<1>11. CASE AppendDone(o)
  BY <1>11, BegunRuns, LeaveAndQueueStep DEF AppendDone, InLock
<1>12. CASE AppendFails(o)
  <2>1. Runs(o) /\ run' = run
    BY <1>12, BegunRuns DEF AppendFails
  <2>2. CASE LeaveAndQueue(o) /\ Goto(o, "omit")
    BY <2>1, <2>2, LeaveAndQueueStep DEF InLock
  <2>3. CASE LeaveLock /\ Goto(o, "failing")
    BY <2>1, <2>3, LeaveStep DEF InLock, BodyOpen, Places
  <2> QED BY <1>12, <2>2, <2>3 DEF AppendFails, Throw
<1>13. CASE Omit(o)
  BY <1>13, LeaveStep DEF Omit, Return, Throw, InLock, BodyOpen, Places
<1>14. CASE Record(o)
  <2>1. Runs(o) /\ run' = run /\ pc[o] = "record"
    BY <1>14 DEF Record
  <2>2. CASE UNCHANGED lockq /\ Goto(o, "saving")
    BY <2>1, <2>2, MoveStep DEF InLock, BodyOpen, Places
  <2>3. CASE LeaveLock /\ (Goto(o, "ended") \/ Goto(o, "failing"))
    BY <2>1, <2>3, LeaveStep DEF InLock, BodyOpen, Places
  <2> QED BY <1>14, <2>2, <2>3 DEF Record, Return, Throw
<1>15. CASE SaveDone(o)
  BY <1>15, BegunRuns, LeaveStep DEF SaveDone, Return, Throw, InLock, BodyOpen, Places
<1>16. CASE SaveFails(o)
  BY <1>16, BegunRuns, LeaveStep DEF SaveFails, Throw, InLock, BodyOpen, Places
<1>17. CASE Reject(o)
  BY <1>17, MoveStep DEF Reject, InLock, BodyOpen, Places
<1> QED BY <1>1, <1>2, <1>3, <1>4, <1>5, <1>6, <1>7, <1>8, <1>9, <1>10, <1>11, <1>12, <1>13,
           <1>14, <1>15, <1>16, <1>17 DEF Step, External

LEMMA LockStep ==
  ASSUME LockInv, PoolInv, \A o \in Objects : o > listed => pc[o] = "none", Next
  PROVE  LockInv'
<1>1. CASE Pull
  <2>1. listed + 1 \in Objects /\ pc[listed + 1] = "none"
    <3>1. listed \in 0..MaxObjects /\ listed < MaxObjects /\ MaxObjects \in Nat
      BY <1>1, PoolAssumption DEF Pull, PullItem, PoolInv, PoolTypeOK
    <3>2. listed + 1 \in Objects /\ listed + 1 > listed
      BY <3>1 DEF Objects
    <3> QED BY <3>2
  <2> QED BY <1>1, <2>1, MoveStep DEF Pull, InLock, BodyOpen, Places
<1>2. CASE UNCHANGED <<pc, lockq, run>>
  BY <1>2 DEF LockInv
<1>3. CASE UNCHANGED <<pc, lockq>> /\ run # "manifest"
  BY <1>3 DEF LockInv
<1>4. CASE ListingEnds \/ DestinationFails \/ Abort
  BY <1>2, <1>4 DEF ListingEnds, DestinationFails, Abort
<1>5. CASE IterationRejected \/ PipelineSettles
  BY <1>3, <1>5 DEF IterationRejected, PipelineSettles
<1>6. CASE IterationResolved
  BY <1>3, <1>6, ManifestQueues DEF IterationResolved
<1>7. CASE WriteManifest
  BY <1>7, ManifestLeaves DEF WriteManifest
<1> QED BY <1>1, <1>4, <1>5, <1>6, <1>7, TaskKeepsLock DEF Next, Engine

-----------------------------------------------------------------------------
(* The window and the tasks.  A task is in the window from its start to    *)
(* its end, and the engine goes on when the pool has resolved.             *)
LinkInv ==
  /\ \A o \in Objects : (o \in executing) <=> (pc[o] \notin {"none", "ended"})
  /\ \A o \in Objects : (o > listed) <=> (pc[o] = "none")
  /\ run \in {"iterating", "manifest", "closing", "done", "failed"}
  /\ run \in {"manifest", "closing", "done"} => driver = "resolved"

(* A pool that has resolved stays resolved. *)
LEMMA ResolvedStays ==
  ASSUME Next, driver = "resolved"
  PROVE  driver' = "resolved"
<1>1. [PoolNext]_poolVars
  BY StepsOfThePool
<1> QED BY <1>1 DEF PoolNext, PullItem, PullEnd, PullFails, Settle, SettleWith, poolVars

(* A task moves on in the window, or settles and ends. *)
LEMMA TaskKeepsLink ==
  ASSUME LockInv, PoolInv, LinkInv, NEW o \in Objects,
         UNCHANGED <<run, listed>>,
         \/ \E place \in Places \ {"none", "ended"} :
              /\ pc[o] \notin {"none", "ended"} /\ Goto(o, place) /\ UNCHANGED executing
         \/ Goto(o, "ended") /\ \E result \in {"ok", "failed"} : SettleWith(o, result),
         driver = "resolved" => driver' = "resolved"
  PROVE  LinkInv'
<1>1. pc \in [Objects -> Places]
  BY DEF LockInv
<1>2. CASE \E place \in Places \ {"none", "ended"} :
             pc[o] \notin {"none", "ended"} /\ Goto(o, place) /\ UNCHANGED executing
  BY <1>1, <1>2 DEF LinkInv, Goto
<1>3. CASE Goto(o, "ended") /\ \E result \in {"ok", "failed"} : SettleWith(o, result)
  <2>1. o \in executing /\ executing' = executing \ {o} /\ pc' = [pc EXCEPT ![o] = "ended"]
    BY <1>3 DEF Goto, SettleWith
  <2> QED BY <1>1, <2>1 DEF LinkInv
<1> QED BY <1>2, <1>3

LEMMA LinkStep ==
  ASSUME LockInv, PoolInv, LinkInv, Next
  PROVE  LinkInv'
<1>1. driver = "resolved" => driver' = "resolved"
  BY ResolvedStays
<1>2. CASE Pull
  <2>1. listed + 1 \in Objects /\ listed \in Nat
    <3>1. listed \in 0..MaxObjects /\ listed < MaxObjects /\ MaxObjects \in Nat
      BY <1>2, PoolAssumption DEF Pull, PullItem, PoolInv, PoolTypeOK
    <3> QED BY <3>1 DEF Objects
  <2>2. /\ executing' = executing \cup {listed + 1} /\ listed' = listed + 1
        /\ pc' = [pc EXCEPT ![listed + 1] = "start"] /\ pc \in [Objects -> Places]
        /\ run' = run /\ driver = "pull"
    BY <1>2 DEF Pull, PullItem, Goto, LockInv
  <2>3. Objects \subseteq Int
    BY PoolAssumption DEF Objects
  <2>4. \A o \in Objects : (o > listed') <=> (pc'[o] = "none")
    BY <2>1, <2>2, <2>3 DEF LinkInv
  <2>5. \A o \in Objects : (o \in executing') <=> (pc'[o] \notin {"none", "ended"})
    BY <2>1, <2>2 DEF LinkInv
  <2> QED BY <1>1, <2>2, <2>4, <2>5 DEF LinkInv
<1>3. CASE ListingEnds \/ DestinationFails \/ Abort
  BY <1>1, <1>3 DEF ListingEnds, PullEnd, PullFails, DestinationFails, Abort, poolVars, LinkInv
<1>4. CASE Engine
  BY <1>4 DEF Engine, IterationRejected, IterationResolved, WriteManifest, PipelineSettles,
              poolVars, LinkInv
<1>5. ASSUME NEW o \in Objects, Step(o) \/ External(o) PROVE LinkInv'
  <2>1. UNCHANGED <<run, listed>>
    BY <1>5 DEF Step, External, StartTask, CountListed, CountSkipped, Begin, PassGate, GateRejects,
         GetObject, StartAppend, Omit, Record, Reject, GetSucceeds, GetFails, AppendDone,
         AppendFails, SaveDone, SaveFails, Return, SettleWith, poolVars
  <2>2. \/ \E place \in Places \ {"none", "ended"} :
             pc[o] \notin {"none", "ended"} /\ Goto(o, place) /\ UNCHANGED executing
        \/ Goto(o, "ended") /\ \E result \in {"ok", "failed"} : SettleWith(o, result)
    <3> DEFINE Moves(place) == pc[o] \notin {"none", "ended"} /\ Goto(o, place)
                               /\ UNCHANGED executing
               Ends == Goto(o, "ended") /\ \E result \in {"ok", "failed"} : SettleWith(o, result)
               Stays == Places \ {"none", "ended"}
    <3>1. Stays = {"start", "listed", "skip", "begin", "append", "writing", "record", "saving",
                   "omit", "get", "gate", "bytes", "failing"}
      BY DEF Places, InLock, BodyOpen
    <3>2. StartTask(o) => Moves("listed") \/ Ends
      BY DEF StartTask, poolVars
    <3>3. CountListed(o) => Moves("skip") \/ Moves("begin") \/ Moves("failing")
      BY DEF CountListed, Throw, poolVars
    <3>4. /\ CountSkipped(o) \/ Reject(o) => Ends
          /\ Omit(o) \/ SaveDone(o) => Moves("failing") \/ Ends
      BY DEF CountSkipped, Reject, Omit, SaveDone, Return, Throw, poolVars
    <3>5. /\ Begin(o) => Moves("gate") \/ Moves("failing")
          /\ PassGate(o) => Moves("bytes")
          /\ GetObject(o) => Moves("get")
          /\ GetSucceeds(o) => Moves("append")
          /\ StartAppend(o) => Moves("writing")
          /\ AppendDone(o) => Moves("record")
      BY DEF Begin, Throw, PassGate, GetObject, GetSucceeds, StartAppend, AppendDone, poolVars
    <3>6. GateRejects(o) \/ SaveFails(o) => Moves("failing")
      BY DEF GateRejects, SaveFails, Throw, poolVars
    <3>7. GetFails(o) \/ AppendFails(o) => Moves("omit") \/ Moves("failing")
      BY DEF GetFails, AppendFails, Throw, poolVars
    <3>8. Record(o) => Moves("saving") \/ Moves("failing") \/ Ends
      BY DEF Record, Return, Throw, poolVars
    <3>9. (\E place \in Stays : Moves(place)) \/ Ends
      <4> HIDE DEF Moves, Ends, Stays
      <4> QED BY <1>5, <3>1, <3>2, <3>3, <3>4, <3>5, <3>6, <3>7, <3>8 DEF Step, External
    <3> QED BY <3>9
  <2> QED BY <1>1, <2>1, <2>2, TaskKeepsLink
<1> QED BY <1>2, <1>3, <1>4, <1>5 DEF Next

RunInv == PoolInv /\ LockInv /\ LinkInv

LEMMA RunInitInv == Init => RunInv
<1> SUFFICES ASSUME Init PROVE RunInv
  OBVIOUS
<1>1. PoolInv
  BY PoolInitInv DEF Init
<1>2. LockInv
  BY DEF Init, LockInv, Places, InLock, BodyOpen
<1>3. LinkInv
  BY PoolAssumption DEF Init, PoolInit, LinkInv, Objects
<1> QED BY <1>1, <1>2, <1>3 DEF RunInv

LEMMA PoolStep ==
  ASSUME PoolInv, [PoolNext]_poolVars
  PROVE  PoolInv'
<1>1. CASE PullItem
  BY <1>1, PullItemStep
<1>2. CASE PullEnd
  BY <1>2, PullEndStep
<1>3. CASE PullFails
  BY <1>3, PullFailsStep
<1>4. ASSUME NEW o \in Objects, Settle(o) PROVE PoolInv'
  BY <1>4, SettleStep DEF Settle
<1>5. CASE UNCHANGED poolVars
  BY <1>5 DEF poolVars, PoolInv, PoolTypeOK, Untouched, WindowExact, NeverStuckOnEmptyWindow,
              ResolvesWhenAllDone
<1> QED BY <1>1, <1>2, <1>3, <1>4, <1>5 DEF PoolNext

LEMMA RunInvariance == Spec => []RunInv
<1>1. RunInv /\ [Next /\ UNCHANGED setup]_<<setup, vars>> => RunInv'
  <2> SUFFICES ASSUME RunInv, [Next /\ UNCHANGED setup]_<<setup, vars>> PROVE RunInv'
    OBVIOUS
  <2>1. CASE Next
    <3>1. PoolInv'
      BY <2>1, StepsOfThePool, PoolStep DEF RunInv
    <3>2. LockInv'
      BY <2>1, LockStep DEF RunInv, LinkInv
    <3>3. LinkInv'
      BY <2>1, LinkStep DEF RunInv
    <3> QED BY <3>1, <3>2, <3>3 DEF RunInv
  <2>2. CASE UNCHANGED vars
    <3>1. UNCHANGED <<poolVars, pc, lockq, run>>
      BY <2>2 DEF vars
    <3>2. PoolInv'
      BY <3>1, PoolStep DEF RunInv
    <3>3. LockInv' /\ LinkInv'
      BY <3>1 DEF RunInv, LockInv, LinkInv, poolVars
    <3> QED BY <3>2, <3>3 DEF RunInv
  <2> QED BY <2>1, <2>2
<1> QED BY <1>1, RunInitInv, PTL DEF Spec

(* Entries, records and omissions of parallel tasks never interleave. *)
THEOREM SectionsExclude == Spec => []ExclusiveChain
<1>1. ASSUME LockInv PROVE ExclusiveChain
  <2>1. Elements(lockq) \ {Manifest} = At(InLock)
    <3>1. \A o \in Objects : o # Manifest
      BY PoolAssumption DEF Manifest, Objects
    <3>2. \A i \in 1..Len(lockq) : lockq[i] \in Objects \cup {Manifest}
      BY <1>1 DEF LockInv
    <3> QED BY <1>1, <3>1, <3>2 DEF Elements, At, LockInv
  <2>2. Cardinality(Elements(lockq)) = Len(lockq)
    <3>1. Len(lockq) \in Nat
      BY <1>1 DEF LockInv
    <3>2. IsFiniteSet(1..Len(lockq)) /\ Cardinality(1..Len(lockq)) = Len(lockq)
      <4>1. \A n \in Nat : IsFiniteSet(1..n) /\ Cardinality(1..n) = n
        BY FS_Interval
      <4> QED BY <3>1, <4>1
    <3> DEFINE f == [i \in 1..Len(lockq) |-> lockq[i]]
    <3>3. f \in Surjection(1..Len(lockq), Elements(lockq))
      BY DEF Elements, Surjection
    <3>4. f \in Injection(1..Len(lockq), Elements(lockq))
      BY <1>1 DEF LockInv, Elements, Injection, IsInjective
    <3> HIDE DEF f
    <3> QED BY <3>2, <3>3, <3>4, FS_Surjection
  <2>3. \A o \in At({"writing", "saving"}) : Head(lockq) = o
    BY <1>1, BegunRuns DEF At, Runs
  <2> QED BY <2>1, <2>2, <2>3 DEF ExclusiveChain
<1>2. RunInv => ExclusiveChain
  BY <1>1 DEF RunInv
<1> QED BY <1>2, RunInvariance, PTL

(* Nothing is left running when the manifest is written and the archive closed. *)
THEOREM ManifestComesLast == Spec => []NothingRunsUnderTheManifest
<1>1. ASSUME RunInv PROVE NothingRunsUnderTheManifest
  <2> SUFFICES ASSUME run \in {"manifest", "closing", "done"}
               PROVE  At(Places \ {"none", "ended"}) = {}
    BY DEF NothingRunsUnderTheManifest
  <2>1. driver = "resolved"
    BY <1>1 DEF RunInv, LinkInv
  <2>2. executing = {}
    BY <1>1, <2>1 DEF RunInv, PoolInv, ResolvesWhenAllDone, WindowExact
  <2> QED BY <1>1, <2>2 DEF RunInv, LinkInv, At
<1> QED BY <1>1, RunInvariance, PTL

-----------------------------------------------------------------------------
(* The byte budget.  Who waits is in its queue, once.                      *)
BytesInv ==
  /\ used \in 0..MaxBytes
  /\ byteq \in Seq(Objects)
  /\ bytePhase \in [Objects -> {"idle", "waiting", "holding"}]
  /\ grant \in [Objects -> Nat]
  /\ \A i \in 1..Len(byteq) : bytePhase[byteq[i]] = "waiting"
  /\ \A i, k \in 1..Len(byteq) : byteq[i] = byteq[k] => i = k

(* A task asks for its bytes at the gate and gives them back at its end.   *)
Cover(place, bytes, granted, asked) ==
  CASE place = "bytes" -> bytes \in {"waiting", "holding"} /\ granted = asked
    [] place \in BodyOpen \cup {"omit"} -> bytes = "holding" /\ granted = asked
    [] OTHER -> bytes = "idle" /\ granted = 0

CoverInv ==
  \A o \in Objects : Cover(pc[o], bytePhase[o], grant[o], Bytes!Reservation(Size[o]))

LEMMA AskedType ==
  ASSUME NEW o \in Objects
  PROVE  Size[o] \in Nat /\ Bytes!Reservation(Size[o]) \in 0..MaxBytes
BY PumpAssumption DEF Bytes!Reservation

(* What a wake-up leaves of the queue. *)
LEMMA RestOfQueue ==
  ASSUME BytesInv, NEW k \in 0..Len(byteq), NEW rest, rest = SubSeq(byteq, k + 1, Len(byteq))
  PROVE  /\ rest \in Seq(Objects)
         /\ \A i \in 1..Len(rest) : k + i \in 1..Len(byteq) /\ rest[i] = byteq[k + i]
<1>1. Len(byteq) \in Nat /\ byteq \in Seq(Objects)
  BY DEF BytesInv
<1>2. \A i \in (k + 1)..Len(byteq) : byteq[i] \in Objects
  BY <1>1, ElementOfSeq
<1>3. /\ rest \in Seq(Objects)
      /\ Len(rest) = IF k + 1 <= Len(byteq) THEN Len(byteq) - (k + 1) + 1 ELSE 0
      /\ \A i \in 1..(Len(byteq) - (k + 1) + 1) : rest[i] = byteq[(k + 1) + i - 1]
  BY <1>1, <1>2, SubSeqProperties
<1>4. ASSUME NEW i \in 1..Len(rest)
      PROVE  k + i \in 1..Len(byteq) /\ rest[i] = byteq[k + i]
  <2>1. /\ i \in 1..(Len(byteq) - (k + 1) + 1) /\ (k + 1) + i - 1 = k + i
        /\ k + i \in 1..Len(byteq)
    BY <1>1, <1>3
  <2> QED BY <1>3, <2>1
<1> QED BY <1>3, <1>4

LEMMA AcquireKeepsBytes ==
  ASSUME BytesInv, NEW o \in Objects, Bytes!Acquire(o, Size[o])
  PROVE  /\ BytesInv'
         /\ bytePhase'[o] \in {"waiting", "holding"}
         /\ grant'[o] = Bytes!Reservation(Size[o])
         /\ \A x \in Objects \ {o} : bytePhase'[x] = bytePhase[x] /\ grant'[x] = grant[x]
<1> DEFINE n == Bytes!Reservation(Size[o])
<1>1. n \in 0..MaxBytes /\ MaxBytes \in Nat
  BY AskedType, PumpAssumption
<1>2. /\ bytePhase[o] = "idle" /\ grant' = [grant EXCEPT ![o] = n]
      /\ \/ /\ used + n <= MaxBytes /\ used' = used + n /\ byteq' = byteq
            /\ bytePhase' = [bytePhase EXCEPT ![o] = "holding"]
         \/ /\ byteq' = Append(byteq, o) /\ used' = used
            /\ bytePhase' = [bytePhase EXCEPT ![o] = "waiting"]
  BY DEF Bytes!Acquire
<1> HIDE DEF n
<1>3. \A i \in 1..Len(byteq) : byteq[i] # o /\ byteq[i] \in Objects
  BY <1>2 DEF BytesInv
<1>4. CASE byteq' = byteq /\ used' = used + n /\ used + n <= MaxBytes
             /\ bytePhase' = [bytePhase EXCEPT ![o] = "holding"]
  <2>1. used' \in 0..MaxBytes
    BY <1>1, <1>4 DEF BytesInv
  <2> QED BY <1>1, <1>2, <1>3, <1>4, <2>1 DEF BytesInv, n
<1>5. CASE byteq' = Append(byteq, o) /\ used' = used
             /\ bytePhase' = [bytePhase EXCEPT ![o] = "waiting"]
  <2>1. /\ byteq' \in Seq(Objects) /\ Len(byteq') = Len(byteq) + 1 /\ Len(byteq) \in Nat
        /\ byteq'[Len(byteq) + 1] = o
        /\ \A i \in 1..Len(byteq) : byteq'[i] = byteq[i]
    BY <1>5 DEF BytesInv
  <2>2. \A i \in 1..Len(byteq') : bytePhase'[byteq'[i]] = "waiting"
    BY <1>3, <1>5, <2>1 DEF BytesInv
  <2>3. \A i, k \in 1..Len(byteq') : byteq'[i] = byteq'[k] => i = k
    <3> SUFFICES ASSUME NEW i \in 1..Len(byteq'), NEW k \in 1..Len(byteq'), byteq'[i] = byteq'[k]
                 PROVE  i = k
      OBVIOUS
    <3>1. i \in 1..Len(byteq) \/ i = Len(byteq) + 1
      BY <2>1
    <3>2. k \in 1..Len(byteq) \/ k = Len(byteq) + 1
      BY <2>1
    <3>3. CASE i \in 1..Len(byteq) /\ k \in 1..Len(byteq)
      BY <2>1, <3>3 DEF BytesInv
    <3> QED BY <1>3, <2>1, <3>1, <3>2, <3>3
  <2> QED BY <1>1, <1>2, <1>5, <2>1, <2>2, <2>3 DEF BytesInv, n
<1> QED BY <1>2, <1>4, <1>5

LEMMA ReleaseKeepsBytes ==
  ASSUME BytesInv, NEW o \in Objects, ReleaseBytes(o)
  PROVE  /\ BytesInv'
         /\ bytePhase[o] = "holding" => bytePhase'[o] = "idle" /\ grant'[o] = 0
         /\ bytePhase[o] # "holding" => bytePhase'[o] = bytePhase[o] /\ grant'[o] = grant[o]
         /\ \A x \in Objects \ {o} :
              /\ grant'[x] = grant[x]
              /\ \/ bytePhase'[x] = bytePhase[x]
                 \/ bytePhase[x] = "waiting" /\ bytePhase'[x] = "holding"
<1>1. CASE bytePhase[o] # "holding"
  <2>1. UNCHANGED byteVars
    BY <1>1 DEF ReleaseBytes
  <2> QED BY <1>1, <2>1 DEF BytesInv, byteVars
<1>2. CASE bytePhase[o] = "holding"
  <2> DEFINE done == [bytePhase EXCEPT ![o] = "idle"]
             left == IF grant[o] <= used THEN used - grant[o] ELSE 0
  <2>1. Bytes!Release(o)
    BY <1>2 DEF ReleaseBytes
  <2>2. /\ grant' = [grant EXCEPT ![o] = 0]
        /\ \/ grant[o] > 0 /\ Bytes!TryWake(left, done)
           \/ bytePhase' = done /\ used' = used /\ byteq' = byteq
    BY <2>1 DEF Bytes!Release
  <2>3. grant' \in [Objects -> Nat] /\ grant'[o] = 0
        /\ \A x \in Objects \ {o} : grant'[x] = grant[x]
    BY <2>2 DEF BytesInv
  <2>4. \A i \in 1..Len(byteq) : byteq[i] # o /\ byteq[i] \in Objects
    BY <1>2 DEF BytesInv
  <2>5. CASE bytePhase' = done /\ used' = used /\ byteq' = byteq
    BY <1>2, <2>3, <2>4, <2>5 DEF BytesInv
  <2>6. CASE Bytes!TryWake(left, done)
    <3> HIDE DEF left
    <3>1. PICK k \in 0..Len(byteq) :
            /\ used' \in 0..MaxBytes
            /\ byteq' = SubSeq(byteq, k + 1, Len(byteq))
            /\ bytePhase' = [x \in Objects |->
                  IF \E i \in 1..k : byteq[i] = x THEN "holding" ELSE done[x]]
      BY <2>6 DEF Bytes!TryWake
    <3>2. /\ byteq' \in Seq(Objects)
          /\ \A i \in 1..Len(byteq') : k + i \in 1..Len(byteq) /\ byteq'[i] = byteq[k + i]
      BY <3>1, RestOfQueue
    <3>3. k \in Nat /\ Len(byteq) \in Nat /\ k <= Len(byteq)
      BY DEF BytesInv
    <3>4. \A i \in 1..Len(byteq') : bytePhase'[byteq'[i]] = "waiting"
      <4> SUFFICES ASSUME NEW i \in 1..Len(byteq') PROVE bytePhase'[byteq'[i]] = "waiting"
        OBVIOUS
      <4>1. k + i \in 1..Len(byteq) /\ byteq'[i] = byteq[k + i] /\ i \in Nat \ {0}
        BY <3>2
      <4>2. \A h \in 1..k : byteq[h] # byteq[k + i]
        <5>1. \A h \in 1..k : h \in 1..Len(byteq) /\ h # k + i
          BY <3>3, <4>1
        <5>2. \A h, j \in 1..Len(byteq) : byteq[h] = byteq[j] => h = j
          BY DEF BytesInv
        <5> QED BY <4>1, <5>1, <5>2
      <4>3. bytePhase[byteq[k + i]] = "waiting" /\ byteq[k + i] \in Objects \ {o}
        BY <2>4, <4>1 DEF BytesInv
      <4> QED BY <3>1, <4>1, <4>2, <4>3 DEF BytesInv
    <3>5. \A i, h \in 1..Len(byteq') : byteq'[i] = byteq'[h] => i = h
      <4> SUFFICES ASSUME NEW i \in 1..Len(byteq'), NEW h \in 1..Len(byteq'),
                          byteq'[i] = byteq'[h]
                   PROVE  i = h
        OBVIOUS
      <4>1. k + i = k + h
        BY <3>2 DEF BytesInv
      <4> QED BY <3>2, <3>3, <4>1
    <3>6. \A i \in 1..k : byteq[i] \in Objects \ {o} /\ bytePhase[byteq[i]] = "waiting"
      BY <2>4, <3>3 DEF BytesInv
    <3>7. bytePhase' \in [Objects -> {"idle", "waiting", "holding"}] /\ bytePhase'[o] = "idle"
      BY <3>1, <3>6 DEF BytesInv
    <3>8. \A x \in Objects \ {o} : \/ bytePhase'[x] = bytePhase[x]
                                   \/ bytePhase[x] = "waiting" /\ bytePhase'[x] = "holding"
      BY <3>1, <3>6 DEF BytesInv
    <3> QED BY <1>2, <2>3, <3>1, <3>2, <3>4, <3>5, <3>7, <3>8 DEF BytesInv
  <2> QED BY <2>2, <2>5, <2>6
<1> QED BY <1>1, <1>2

(* Whatever becomes of the others' bytes, they stay covered. *)
LEMMA OthersCovered ==
  ASSUME CoverInv, LockInv, NEW o \in Objects, NEW place, Goto(o, place),
         Cover(place, bytePhase'[o], grant'[o], Bytes!Reservation(Size[o])),
         \A x \in Objects \ {o} :
           /\ grant'[x] = grant[x]
           /\ \/ bytePhase'[x] = bytePhase[x]
              \/ bytePhase[x] = "waiting" /\ bytePhase'[x] = "holding"
  PROVE  CoverInv'
<1>1. pc'[o] = place /\ \A x \in Objects \ {o} : pc'[x] = pc[x]
  BY DEF Goto, LockInv
<1>2. ASSUME NEW x \in Objects \ {o}
      PROVE  Cover(pc'[x], bytePhase'[x], grant'[x], Bytes!Reservation(Size[x]))
  <2>1. Cover(pc[x], bytePhase[x], grant[x], Bytes!Reservation(Size[x]))
    BY DEF CoverInv
  <2>2. CASE bytePhase'[x] = bytePhase[x]
    BY <1>1, <2>1, <2>2
  <2>3. CASE bytePhase[x] = "waiting" /\ bytePhase'[x] = "holding"
    <3>1. pc[x] = "bytes"
      BY <2>1, <2>3 DEF Cover
    <3> QED BY <1>1, <2>1, <2>3, <3>1 DEF Cover
  <2> QED BY <2>2, <2>3
<1> QED BY <1>1, <1>2 DEF CoverInv

(* A task that gives back what it has is covered where it goes next. *)
LEMMA EndsUncovered ==
  ASSUME BytesInv, CoverInv, LockInv, NEW o \in Objects, ReleaseBytes(o),
         NEW place \in {"failing", "ended"}, Goto(o, place), pc[o] # "bytes"
  PROVE  BytesInv' /\ CoverInv'
<1>1. Cover(pc[o], bytePhase[o], grant[o], Bytes!Reservation(Size[o]))
  BY DEF CoverInv
<1>2. bytePhase'[o] = "idle" /\ grant'[o] = 0
  BY <1>1, ReleaseKeepsBytes DEF Cover
<1>3. Cover(place, bytePhase'[o], grant'[o], Bytes!Reservation(Size[o]))
  BY <1>2 DEF Cover, BodyOpen
<1> QED BY <1>3, ReleaseKeepsBytes, OthersCovered

(* A task that keeps what it has goes where that is enough. *)
LEMMA KeepsCover ==
  ASSUME BytesInv, CoverInv, LockInv, NEW o \in Objects, UNCHANGED byteVars,
         NEW place, Goto(o, place),
         Cover(pc[o], bytePhase[o], grant[o], Bytes!Reservation(Size[o]))
           => Cover(place, bytePhase[o], grant[o], Bytes!Reservation(Size[o]))
  PROVE  BytesInv' /\ CoverInv'
<1>1. bytePhase' = bytePhase /\ grant' = grant /\ BytesInv'
  BY DEF byteVars, BytesInv
<1>2. Cover(place, bytePhase'[o], grant'[o], Bytes!Reservation(Size[o]))
  BY <1>1 DEF CoverInv
<1> QED BY <1>1, <1>2, OthersCovered

LEMMA TaskKeepsCover ==
  ASSUME BytesInv, CoverInv, LockInv, NEW o \in Objects, Step(o) \/ External(o)
  PROVE  BytesInv' /\ CoverInv'
<1>1. CASE PassGate(o)
  <2>1. pc[o] = "gate" /\ Bytes!Acquire(o, Size[o]) /\ Goto(o, "bytes")
    BY <1>1 DEF PassGate
  <2>2. /\ BytesInv'
        /\ bytePhase'[o] \in {"waiting", "holding"}
        /\ grant'[o] = Bytes!Reservation(Size[o])
        /\ \A x \in Objects \ {o} : bytePhase'[x] = bytePhase[x] /\ grant'[x] = grant[x]
    BY <2>1, AcquireKeepsBytes
  <2>3. Cover("bytes", bytePhase'[o], grant'[o], Bytes!Reservation(Size[o]))
    BY <2>2 DEF Cover, BodyOpen
  <2> QED BY <2>1, <2>2, <2>3, OthersCovered
<1>2. CASE \E place \in {"failing", "ended"} :
             Goto(o, place) /\ ReleaseBytes(o) /\ pc[o] # "bytes"
  BY <1>2, EndsUncovered
<1>3. CASE \E place \in Places :
             /\ Goto(o, place) /\ UNCHANGED byteVars
             /\ Cover(pc[o], bytePhase[o], grant[o], Bytes!Reservation(Size[o]))
                  => Cover(place, bytePhase[o], grant[o], Bytes!Reservation(Size[o]))
  BY <1>3, KeepsCover
<1> DEFINE Keeps(place) ==
             /\ Goto(o, place) /\ UNCHANGED byteVars
             /\ Cover(pc[o], bytePhase[o], grant[o], Bytes!Reservation(Size[o]))
                  => Cover(place, bytePhase[o], grant[o], Bytes!Reservation(Size[o]))
           Returns == \E place \in {"failing", "ended"} :
                        Goto(o, place) /\ ReleaseBytes(o) /\ pc[o] # "bytes"
<1>4. StartTask(o) => Keeps("listed") \/ Keeps("ended")
  BY DEF StartTask, Cover, BodyOpen
<1>5. CountListed(o) => Keeps("skip") \/ Keeps("begin") \/ Returns
  BY DEF CountListed, Throw, Cover, BodyOpen
<1>6. CountSkipped(o) => Keeps("ended")
  BY DEF CountSkipped, Cover, BodyOpen
<1>7. Begin(o) => Keeps("gate") \/ Returns
  BY DEF Begin, Throw, Cover, BodyOpen
<1>8. GetObject(o) => Keeps("get")
  BY DEF GetObject, Cover, BodyOpen
<1>9. GetSucceeds(o) => Keeps("append")
  BY DEF GetSucceeds, Cover, BodyOpen
<1>10. StartAppend(o) => Keeps("writing")
  BY DEF StartAppend, Cover, BodyOpen
<1>11. AppendDone(o) => Keeps("record")
  BY DEF AppendDone, Cover, BodyOpen
<1>12. GetFails(o) \/ AppendFails(o) => Keeps("omit") \/ Returns
  BY DEF GetFails, AppendFails, Throw, Cover, BodyOpen
<1>13. GateRejects(o) \/ SaveFails(o) \/ Omit(o) \/ SaveDone(o) => Returns
  BY DEF GateRejects, SaveFails, Omit, SaveDone, Return, Throw
<1>14. Record(o) => Keeps("saving") \/ Returns
  BY DEF Record, Return, Throw, Cover, BodyOpen
<1>15. Reject(o) => Keeps("ended")
  BY DEF Reject, Cover, BodyOpen
<1>16. PassGate(o) \/ Returns \/ \E place \in Places : Keeps(place)
  <2>1. {"listed", "ended", "skip", "begin", "gate", "get", "append", "writing", "record", "omit",
         "saving"} \subseteq Places
    BY DEF Places, InLock, BodyOpen
  <2> HIDE DEF Keeps, Returns
  <2> QED BY <1>4, <1>5, <1>6, <1>7, <1>8, <1>9, <1>10, <1>11, <1>12, <1>13, <1>14, <1>15, <2>1
        DEF Step, External
<1> QED BY <1>1, <1>2, <1>3, <1>16

LEMMA CoverStep ==
  ASSUME BytesInv, CoverInv, RunInv, Next
  PROVE  BytesInv' /\ CoverInv'
<1>1. CASE Pull
  <2>1. listed + 1 \in Objects
    <3>1. listed \in 0..MaxObjects /\ listed < MaxObjects /\ MaxObjects \in Nat
      BY <1>1, PoolAssumption DEF Pull, PullItem, RunInv, PoolInv, PoolTypeOK
    <3> QED BY <3>1 DEF Objects
  <2>2. pc[listed + 1] = "none"
    <3>1. listed \in Nat /\ listed + 1 > listed
      BY <1>1, PoolAssumption DEF Pull, PullItem, RunInv, PoolInv, PoolTypeOK
    <3> QED BY <2>1, <3>1 DEF RunInv, LinkInv
  <2>3. Goto(listed + 1, "start") /\ UNCHANGED byteVars /\ LockInv
    BY <1>1 DEF Pull, RunInv
  <2> QED BY <2>1, <2>2, <2>3, KeepsCover DEF Cover, BodyOpen
<1>2. CASE ListingEnds \/ Engine \/ DestinationFails \/ Abort
  <2>1. UNCHANGED <<pc, byteVars>>
    BY <1>2 DEF ListingEnds, Engine, IterationRejected, IterationResolved, WriteManifest,
                PipelineSettles, DestinationFails, Abort
  <2> QED BY <2>1 DEF BytesInv, CoverInv, byteVars
<1> QED BY <1>1, <1>2, TaskKeepsCover DEF Next, RunInv

LEMMA CoverInitInv == Init => BytesInv /\ CoverInv
<1> SUFFICES ASSUME Init PROVE BytesInv /\ CoverInv
  OBVIOUS
<1>1. BytesInv
  BY PumpAssumption DEF Init, Bytes!Init, BytesInv
<1>2. CoverInv
  BY DEF Init, Bytes!Init, CoverInv, Cover, BodyOpen
<1> QED BY <1>1, <1>2

LEMMA CoverInvariance == Spec => [](RunInv /\ BytesInv /\ CoverInv)
<1>1. /\ RunInv /\ BytesInv /\ CoverInv
      /\ [Next /\ UNCHANGED setup]_<<setup, vars>>
      => BytesInv' /\ CoverInv'
  <2>1. CASE UNCHANGED vars
    <3>1. UNCHANGED <<pc, byteVars>>
      BY <2>1 DEF vars
    <3> QED BY <3>1 DEF BytesInv, CoverInv, byteVars
  <2> QED BY <2>1, CoverStep
<1> QED BY <1>1, CoverInitInv, RunInvariance, PTL DEF Spec

(* Every open body is covered by a reservation of its size within the      *)
(* budget, and a task that is over has given it back.                      *)
THEOREM BodiesAreCovered == Spec => []BudgetCoversBodies
<1>1. ASSUME RunInv, BytesInv, CoverInv PROVE BudgetCoversBodies
  <2>1. used <= MaxBytes
    BY <1>1, PumpAssumption DEF BytesInv
  <2> QED BY <1>1, <2>1 DEF BudgetCoversBodies, CoverInv, Cover, BodyOpen
<1> QED BY <1>1, CoverInvariance, PTL

-----------------------------------------------------------------------------
(* What a run that can still resolve has done so far.  A failure that is   *)
(* not an omission destroys the output or needs an abort, so that a run    *)
(* with neither has none to account for.                                   *)
Healthy == zip # "destroyed" /\ ~ aborted

Archived == Elements(entries) \ {Manifest}
Counted == {o \in Objects : pc[o] \notin {"none", "start", "listed"}}
Included == {o \in Objects : o \in Archived /\ pc[o] # "record"}
Skipped == {o \in Objects : pc[o] = "ended" /\ o \notin Archived}

ZipInv ==
  /\ zip \in {"open", "destroyed", "flushed"}
  /\ zip = "flushed" <=> run = "done"

(* Objects are entries from the end of their encoding on, each once. *)
EntriesInv ==
  /\ entries \in Seq(Objects \cup {Manifest})
  /\ rows \in Seq(Objects)
  /\ \A i \in 1..Len(entries) : entries[i] = Manifest => run \in {"closing", "done"}
  /\ \A i, k \in 1..Len(entries) : entries[i] = entries[k] => i = k
  /\ \A o \in Objects :
       /\ o \in Archived => pc[o] \in {"record", "saving", "ended"}
       /\ pc[o] \in {"record", "saving"} => o \in Archived

Excused(o) ==
  \/ o \in omissions \cup Skippable
  \/ Checkpointing /\ \E x \in Archived : Key[x] = Key[o]

(* Tasks succeed, and one that archives nothing has its reason. *)
TaskInv(o) ==
  /\ pc[o] # "failing"
  /\ pc[o] = "ended" => outcome[o] = "ok"
  /\ pc[o] = "skip" \/ (pc[o] = "ended" /\ o \notin Archived) => Excused(o)

TasksInv == \A o \in Objects : TaskInv(o)

KeysInv ==
  /\ completedKeys \in Seq({Key[o] : o \in Objects})
  /\ completedKeys # <<>> => Checkpointing
  /\ \A i \in 1..Len(completedKeys) : \E x \in Archived : Key[x] = completedKeys[i]

CountInv ==
  /\ objectsListed = Cardinality(Counted)
  /\ objectsIncluded = Cardinality(Included)
  /\ objectsSkipped = Cardinality(Skipped)

(* Sections x and y, if both are queued, are queued in this order. *)
Before(x, y) ==
  \A a, b \in 1..Len(lockq) : lockq[a] = x /\ lockq[b] = y => a < b

(* The manifest rows are the entries but for those whose record section is *)
(* still to come, and these come in the order of the entries.              *)
RowsInv ==
  IncludeManifest =>
    /\ run \notin {"closing", "done"} =>
         /\ Len(rows) <= Len(entries)
         /\ \A i \in 1..Len(rows) : rows[i] = entries[i]
         /\ \A i \in 1..Len(entries) : pc[entries[i]] = "record" <=> i > Len(rows)
         /\ \A i, k \in 1..Len(entries) :
              Len(rows) < i /\ i < k => Before(entries[i], entries[k])
    /\ run \in {"closing", "done"} => entries = Append(rows, Manifest)

WholeInv == EntriesInv /\ TasksInv /\ KeysInv /\ CountInv /\ RowsInv

LEMMA ObjectsNotManifest == Manifest \notin Objects
BY PoolAssumption DEF Manifest, Objects

(* What a section of o does to the queue. *)
LockMoves(o) ==
  \/ lockq' = lockq
  \/ Queue(o)
  \/ Runs(o) /\ LeaveLock
  \/ Runs(o) /\ LeaveAndQueue(o)

(* The sections of others keep their order. *)
LEMMA OrderKept ==
  ASSUME lockq \in Seq(Objects \cup {Manifest}), NEW o, o \in Objects \cup {Manifest}, LockMoves(o),
         NEW x, NEW y, x # o, y # o, Before(x, y)
  PROVE  Before(x, y)'
<1> SUFFICES ASSUME NEW a \in 1..Len(lockq'), NEW b \in 1..Len(lockq'),
                    lockq'[a] = x, lockq'[b] = y
             PROVE  a < b
  BY DEF Before
<1>0. Len(lockq) \in Nat
  OBVIOUS
<1>1. CASE lockq' = lockq
  BY <1>1 DEF Before
<1>2. CASE Queue(o)
  <2>1. Len(lockq') = Len(lockq) + 1 /\ lockq'[Len(lockq) + 1] = o
        /\ \A i \in 1..Len(lockq) : lockq'[i] = lockq[i]
    BY <1>2 DEF Queue
  <2>2. a \in 1..Len(lockq) /\ b \in 1..Len(lockq)
    BY <1>0, <2>1
  <2> QED BY <2>1, <2>2 DEF Before
<1>3. CASE Runs(o) /\ LeaveLock
  <2>1. Len(lockq) # 0
    BY <1>3 DEF Runs
  <2>2. Len(lockq') = Len(lockq) - 1 /\ \A i \in 1..Len(lockq) - 1 : lockq'[i] = lockq[i + 1]
    BY <1>3, <2>1 DEF Runs, LeaveLock
  <2>3. /\ a + 1 \in 1..Len(lockq) /\ b + 1 \in 1..Len(lockq)
        /\ lockq[a + 1] = x /\ lockq[b + 1] = y
    BY <1>0, <2>1, <2>2
  <2>4. a + 1 < b + 1
    BY <2>3 DEF Before
  <2> QED BY <1>0, <2>2, <2>4
<1>4. CASE Runs(o) /\ LeaveAndQueue(o)
  <2> DEFINE t == Tail(lockq)
  <2>1. /\ Len(lockq) # 0 /\ t \in Seq(Objects \cup {Manifest})
        /\ Len(t) = Len(lockq) - 1 /\ \A i \in 1..Len(lockq) - 1 : t[i] = lockq[i + 1]
    BY <1>4 DEF Runs
  <2>2. lockq' = Append(t, o)
    BY <1>4 DEF LeaveAndQueue
  <2> HIDE DEF t
  <2>3. Len(lockq') = Len(t) + 1 /\ lockq'[Len(t) + 1] = o
        /\ \A i \in 1..Len(t) : lockq'[i] = t[i]
    BY <2>1, <2>2
  <2>4. a \in 1..Len(t) /\ b \in 1..Len(t)
    BY <1>0, <2>1, <2>3
  <2>5. /\ a + 1 \in 1..Len(lockq) /\ b + 1 \in 1..Len(lockq)
        /\ lockq[a + 1] = x /\ lockq[b + 1] = y
    BY <1>0, <2>1, <2>3, <2>4
  <2>6. a + 1 < b + 1
    BY <2>5 DEF Before
  <2> QED BY <2>4, <2>6
<1> QED BY <1>1, <1>2, <1>3, <1>4 DEF LockMoves

(* A section that leaves and queues again is behind all others. *)
LEMMA OrderLast ==
  ASSUME lockq \in Seq(Objects \cup {Manifest}), NEW o, o \in Objects \cup {Manifest},
         Runs(o), LeaveAndQueue(o), NEW x, x # o,
         \A i, k \in 1..Len(lockq) : lockq[i] = lockq[k] => i = k
  PROVE  Before(x, o)'
<1> SUFFICES ASSUME NEW a \in 1..Len(lockq'), NEW b \in 1..Len(lockq'),
                    lockq'[a] = x, lockq'[b] = o
             PROVE  a < b
  BY DEF Before
<1> DEFINE t == Tail(lockq)
<1>1. /\ Len(lockq) \in Nat /\ Len(lockq) # 0 /\ t \in Seq(Objects \cup {Manifest})
      /\ Len(t) = Len(lockq) - 1 /\ \A i \in 1..Len(lockq) - 1 : t[i] = lockq[i + 1]
      /\ lockq[1] = o
  BY DEF Runs
<1>2. lockq' = Append(t, o)
  BY DEF LeaveAndQueue
<1> HIDE DEF t
<1>3. Len(lockq') = Len(t) + 1 /\ lockq'[Len(t) + 1] = o
      /\ \A i \in 1..Len(t) : lockq'[i] = t[i]
  BY <1>1, <1>2
<1>4. a \in 1..Len(t)
  BY <1>1, <1>3
<1>5. b = Len(t) + 1
  <2>1. ASSUME b \in 1..Len(t) PROVE FALSE
    <3>1. lockq[b + 1] = o /\ b + 1 \in 1..Len(lockq) /\ 1 \in 1..Len(lockq) /\ b + 1 # 1
      BY <1>1, <1>3, <2>1
    <3> QED BY <1>1, <3>1
  <2> QED BY <1>1, <1>3, <2>1
<1> QED BY <1>1, <1>4, <1>5

LEMMA ZipInitInv == Init => ZipInv
BY DEF Init, ZipInv

LEMMA ZipStep ==
  ASSUME ZipInv, Next
  PROVE  ZipInv'
<1>1. CASE UNCHANGED <<zip, run>>
  BY <1>1 DEF ZipInv
<1>2. CASE DestroyOutput /\ UNCHANGED run
  BY <1>2 DEF ZipInv, DestroyOutput
<1>3. CASE Pull \/ ListingEnds \/ DestinationFails \/ Abort
  BY <1>3 DEF Pull, ListingEnds, DestinationFails, Abort, output, ZipInv
<1>4. CASE Engine
  BY <1>4 DEF Engine, IterationRejected, IterationResolved, WriteManifest, PipelineSettles, output,
              ZipInv
<1>5. ASSUME NEW o \in Objects, Step(o) PROVE ZipInv'
  BY <1>1, <1>2, <1>5 DEF Step, StartTask, CountListed, CountSkipped, Begin, PassGate, GateRejects,
       GetObject, StartAppend, Omit, Record, Reject, Return, Throw, output
<1>6. ASSUME NEW o \in Objects, External(o) PROVE ZipInv'
  BY <1>1, <1>2, <1>6 DEF External, GetSucceeds, GetFails, AppendDone, AppendFails, SaveDone,
       SaveFails, Return, Throw, output
<1> QED BY <1>3, <1>4, <1>5, <1>6 DEF Next

(* A task that is on its way has the engine waiting, or gone. *)
LEMMA ActiveRun ==
  ASSUME RunInv, NEW o \in Objects, pc[o] \notin {"none", "ended"}
  PROVE  run \in {"iterating", "failed"}
<1>1. o \in executing
  BY DEF RunInv, LinkInv
<1>2. driver # "resolved"
  BY <1>1 DEF RunInv, PoolInv, ResolvesWhenAllDone, WindowExact
<1> QED BY <1>2 DEF RunInv, LinkInv

(* The steps of a task in a run that stays healthy: on its way, ending     *)
(* without an entry, encoding, recording, and ending after a save.         *)
Plain(o, from, to) ==
  /\ pc[o] = from /\ Goto(o, to) /\ LockMoves(o)
  /\ objectsListed' = IF from = "listed" THEN objectsListed + 1 ELSE objectsListed
  /\ to = "skip" => Excused(o)
  /\ UNCHANGED <<outcome, results, completedKeys, objectsIncluded, objectsSkipped>>

Moves(o) ==
  \E from \in {"start", "listed", "begin", "gate", "bytes", "get", "append", "writing"},
     to \in {"listed", "skip", "begin", "gate", "bytes", "get", "append", "omit", "writing"} :
    Plain(o, from, to) /\ (from = "start" <=> to = "listed")

EndsWithout(o) ==
  /\ pc[o] \in {"skip", "omit"} /\ Goto(o, "ended") /\ LockMoves(o)
  /\ outcome' = [outcome EXCEPT ![o] = "ok"]
  /\ objectsSkipped' = objectsSkipped + 1
  /\ omissions' = IF pc[o] = "omit" THEN omissions \cup {o} ELSE omissions
  /\ UNCHANGED <<rows, entries, completedKeys, objectsListed, objectsIncluded>>

Encodes(o) ==
  /\ pc[o] = "writing" /\ Goto(o, "record") /\ Runs(o) /\ LeaveAndQueue(o)
  /\ entries' = Append(entries, o)
  /\ UNCHANGED <<outcome, rows, omissions, completedKeys, counters>>

Records(o) ==
  /\ pc[o] = "record" /\ Runs(o) /\ LockMoves(o)
  /\ objectsIncluded' = objectsIncluded + 1
  /\ rows' = IF IncludeManifest THEN Append(rows, o) ELSE rows
  /\ \/ /\ Goto(o, "saving") /\ UNCHANGED outcome
        /\ Checkpointing /\ completedKeys' = Append(completedKeys, Key[o])
     \/ /\ Goto(o, "ended") /\ outcome' = [outcome EXCEPT ![o] = "ok"]
        /\ UNCHANGED completedKeys
  /\ UNCHANGED <<omissions, entries, objectsListed, objectsSkipped>>

Finishes(o) ==
  /\ pc[o] = "saving" /\ Goto(o, "ended") /\ LockMoves(o)
  /\ outcome' = [outcome EXCEPT ![o] = "ok"]
  /\ UNCHANGED <<results, completedKeys, counters>>

LEMMA HealthyTask ==
  ASSUME RunInv, ZipInv, Healthy => WholeInv, Healthy', NEW o \in Objects, Step(o) \/ External(o)
  PROVE  /\ Healthy /\ run' = run /\ run \in {"iterating", "failed"}
         /\ Moves(o) \/ EndsWithout(o) \/ Encodes(o) \/ Records(o) \/ Finishes(o)
<1>1. /\ run' = run /\ aborted' = aborted
      /\ zip' = zip \/ DestroyOutput
  BY DEF Step, External, StartTask, CountListed, CountSkipped, Begin, PassGate, GateRejects,
         GetObject, StartAppend, Omit, Record, Reject, GetSucceeds, GetFails, AppendDone,
         AppendFails, SaveDone, SaveFails, Return, Throw, output
<1>2. pc[o] \notin {"none", "ended"}
  BY DEF Step, External, StartTask, CountListed, CountSkipped, Begin, PassGate, GateRejects,
         GetObject, StartAppend, Omit, Record, Reject, GetSucceeds, GetFails, AppendDone,
         AppendFails, SaveDone, SaveFails
<1>3. run \in {"iterating", "failed"} /\ zip # "flushed"
  BY <1>2, ActiveRun DEF ZipInv
<1>4. Healthy /\ ~ DestroyOutput /\ pc[o] # "failing"
  <2>1. ~ DestroyOutput
    BY <1>3 DEF DestroyOutput, Healthy, ZipInv
  <2>2. Healthy
    BY <1>1, <2>1 DEF Healthy
  <2> QED BY <2>1, <2>2 DEF WholeInv, TasksInv, TaskInv
<1>5. ~ aborted /\ WholeInv
  BY <1>4 DEF Healthy
<1>6. ~ GateRejects(o) /\ ~ SaveFails(o) /\ ~ Reject(o)
  BY <1>4 DEF GateRejects, SaveFails, Reject, Throw
<1>7. (\E i \in 1..Len(completedKeys) : completedKeys[i] = Key[o]) => Excused(o)
  <2> SUFFICES ASSUME NEW i \in 1..Len(completedKeys), completedKeys[i] = Key[o] PROVE Excused(o)
    OBVIOUS
  <2>1. completedKeys # <<>> /\ \E x \in Archived : Key[x] = Key[o]
    BY <1>5 DEF WholeInv, KeysInv
  <2> QED BY <1>5, <2>1 DEF WholeInv, KeysInv, Excused
<1> DEFINE P(from, to) == Plain(o, from, to)
<1>8. /\ StartTask(o) => P("start", "listed")
      /\ Begin(o) => P("begin", "gate")
      /\ PassGate(o) => P("gate", "bytes")
      /\ GetObject(o) => P("bytes", "get")
      /\ GetSucceeds(o) => P("get", "append")
      /\ StartAppend(o) => P("append", "writing")
  BY <1>4, <1>5 DEF StartTask, Begin, Throw, PassGate, GetObject, GetSucceeds, StartAppend, Plain, LockMoves,
              poolVars, counters, results
<1>9. CountListed(o) => P("listed", "skip") \/ P("listed", "begin")
  <2> SUFFICES ASSUME CountListed(o) PROVE P("listed", "skip") \/ P("listed", "begin")
    OBVIOUS
  <2>1. o \in Skippable => Excused(o)
    BY DEF Excused
  <2> QED BY <1>4, <1>7, <2>1 DEF CountListed, Throw, Plain, LockMoves, poolVars, results
<1>10. /\ GetFails(o) => P("get", "omit")
       /\ AppendFails(o) => P("writing", "omit")
  BY <1>4, BegunRuns DEF GetFails, AppendFails, Throw, Plain, LockMoves, poolVars, counters, results,
     RunInv
<1>11. CountSkipped(o) \/ Omit(o) => EndsWithout(o)
  BY <1>4 DEF CountSkipped, Omit, Return, Throw, EndsWithout, LockMoves, SettleWith
<1>12. AppendDone(o) => Encodes(o)
  BY BegunRuns DEF AppendDone, Encodes, poolVars, RunInv
<1>13. Record(o) => Records(o)
  BY <1>4 DEF Record, Return, Throw, Records, LockMoves, SettleWith, poolVars
<1>14. SaveDone(o) => Finishes(o)
  BY <1>4, BegunRuns DEF SaveDone, Return, Throw, Finishes, LockMoves, SettleWith, results,
                         counters, RunInv
<1>15. (\/ P("start", "listed") \/ P("begin", "gate") \/ P("gate", "bytes") \/ P("bytes", "get")
        \/ P("get", "append") \/ P("append", "writing") \/ P("listed", "skip")
        \/ P("listed", "begin") \/ P("get", "omit") \/ P("writing", "omit")) => Moves(o)
  <2> HIDE DEF P
  <2>1. \A from \in {"start", "listed", "begin", "gate", "bytes", "get", "append", "writing"},
           to \in {"listed", "skip", "begin", "gate", "bytes", "get", "append", "omit", "writing"} :
             P(from, to) /\ (from = "start" <=> to = "listed") => Moves(o)
    BY DEF Moves, P
  <2> QED BY <2>1
<1> HIDE DEF P
<1> QED BY <1>1, <1>3, <1>4, <1>6, <1>8, <1>9, <1>10, <1>11, <1>12, <1>13, <1>14, <1>15
        DEF Step, External

LEMMA CountOne ==
  ASSUME NEW S, S \subseteq Objects, NEW o \in Objects \ S
  PROVE  Cardinality(S \cup {o}) = Cardinality(S) + 1
<1>1. IsFiniteSet(Objects)
  BY PoolAssumption, FS_Interval DEF Objects
<1>2. IsFiniteSet(S)
  BY <1>1, FS_Subset
<1> QED BY <1>2, FS_AddElement

LEMMA PcType ==
  ASSUME LockInv, NEW o \in Objects, NEW to, Goto(o, to)
  PROVE  /\ pc'[o] = to /\ \A x \in Objects : x # o => pc'[x] = pc[x]
BY DEF LockInv, Goto

(* Rows and entries as they were, and no record section more or less. *)
LEMMA RowsUndisturbed ==
  ASSUME RunInv, EntriesInv, RowsInv, NEW o \in Objects, NEW to, Goto(o, to), LockMoves(o),
         pc[o] # "record", to # "record", UNCHANGED <<setup, run, rows, entries>>
  PROVE  RowsInv'
<1>1. pc'[o] = to /\ \A x \in Objects : x # o => pc'[x] = pc[x]
  BY PcType DEF RunInv
<1>2. run \notin {"closing", "done"} => \A i \in 1..Len(entries) : entries[i] \in Objects
  <2> SUFFICES ASSUME run \notin {"closing", "done"}, NEW i \in 1..Len(entries)
               PROVE  entries[i] \in Objects
    OBVIOUS
  <2>1. entries[i] \in Objects \cup {Manifest}
    BY DEF EntriesInv
  <2> QED BY <2>1 DEF EntriesInv
<1>3. IncludeManifest' = IncludeManifest
  BY DEF IncludeManifest
<1>4. ASSUME IncludeManifest, run \notin {"closing", "done"},
             NEW i \in 1..Len(entries), NEW k \in 1..Len(entries), Len(rows) < i, i < k
      PROVE  Before(entries[i], entries[k])'
  <2>1. Before(entries[i], entries[k])
    BY <1>4 DEF RowsInv
  <2>2. Len(rows) < k
    BY <1>4 DEF EntriesInv
  <2>3. pc[entries[i]] = "record" /\ pc[entries[k]] = "record"
    BY <1>4, <2>2 DEF RowsInv
  <2>4. entries[i] # o /\ entries[k] # o
    BY <2>3
  <2>5. lockq \in Seq(Objects \cup {Manifest})
    BY DEF RunInv, LockInv
  <2>6. \A x, y : x # o /\ y # o /\ Before(x, y) => Before(x, y)'
    BY <2>5, OrderKept
  <2>7. Before(entries[i], entries[k])' <=>
          \A a, b \in 1..Len(lockq') : lockq'[a] = entries[i] /\ lockq'[b] = entries[k] => a < b
    BY DEF Before
  <2> DEFINE e1 == entries[i]
             e2 == entries[k]
  <2>8. \A x, y : Before(x, y)' <=>
          \A a, b \in 1..Len(lockq') : lockq'[a] = x /\ lockq'[b] = y => a < b
    BY DEF Before
  <2> QED BY <2>1, <2>4, <2>6, <2>7, <2>8
<1>5. ASSUME IncludeManifest, run \notin {"closing", "done"}, NEW i \in 1..Len(entries)
      PROVE  pc'[entries[i]] = "record" <=> i > Len(rows)
  <2>1. pc[entries[i]] = "record" <=> i > Len(rows)
    BY <1>5 DEF RowsInv
  <2> QED BY <1>1, <1>2, <1>5, <2>1
<1>6. entries' = entries /\ rows' = rows /\ run' = run
  OBVIOUS
<1> QED BY <1>3, <1>4, <1>5, <1>6 DEF RowsInv

LEMMA MovesKeeps ==
  ASSUME RunInv, WholeInv, NEW o \in Objects, Moves(o), UNCHANGED <<setup, run>>
  PROVE  WholeInv'
<1>1. PICK from \in {"start", "listed", "begin", "gate", "bytes", "get", "append", "writing"},
           to \in {"listed", "skip", "begin", "gate", "bytes", "get", "append", "omit", "writing"} :
        Plain(o, from, to) /\ (from = "start" <=> to = "listed")
  BY DEF Moves
<1>2. /\ pc[o] = from /\ pc'[o] = to
      /\ \A x \in Objects : x # o => pc'[x] = pc[x]
      /\ UNCHANGED <<outcome, omissions, rows, entries, completedKeys, objectsIncluded,
                     objectsSkipped>>
      /\ to = "skip" => Excused(o)
      /\ objectsListed' = IF from = "listed" THEN objectsListed + 1 ELSE objectsListed
  BY <1>1, PcType DEF Plain, RunInv, results
<1>3. /\ Archived' = Archived
      /\ \A x : Excused(x)' <=> Excused(x)
  BY <1>2 DEF Archived, Elements, Excused, Skippable, Checkpointing
<1>4. from \notin {"record", "saving", "ended"} /\ to \notin {"record", "saving", "ended", "failing"}
  OBVIOUS
<1>5. EntriesInv'
  BY <1>2, <1>3, <1>4 DEF WholeInv, EntriesInv
<1>6. TasksInv'
  BY <1>2, <1>3, <1>4 DEF WholeInv, TasksInv, TaskInv
<1>7. KeysInv'
  BY <1>2, <1>3 DEF WholeInv, KeysInv, Checkpointing
<1>8. CountInv'
  <2>1. Included' = Included
    BY <1>2, <1>3, <1>4 DEF Included
  <2>2. Skipped' = Skipped
    BY <1>2, <1>3, <1>4 DEF Skipped
  <2>3. Counted' = IF from = "listed" THEN Counted \cup {o} ELSE Counted
    BY <1>1, <1>2 DEF Counted
  <2>4. from = "listed" => o \notin Counted
    BY <1>2 DEF Counted
  <2>5. Counted \subseteq Objects
    BY DEF Counted
  <2>6. objectsListed' = Cardinality(Counted')
    BY <1>2, <2>3, <2>4, <2>5, CountOne DEF WholeInv, CountInv
  <2> QED BY <1>2, <2>1, <2>2, <2>6 DEF WholeInv, CountInv
<1>9. RowsInv'
  BY <1>1, <1>2, <1>4, RowsUndisturbed DEF WholeInv, Plain
<1> QED BY <1>5, <1>6, <1>7, <1>8, <1>9 DEF WholeInv

LEMMA EndsWithoutKeeps ==
  ASSUME RunInv, WholeInv, NEW o \in Objects, EndsWithout(o), UNCHANGED <<setup, run>>
  PROVE  WholeInv'
<1>1. /\ pc[o] \in {"skip", "omit"} /\ pc'[o] = "ended"
      /\ \A x \in Objects : x # o => pc'[x] = pc[x]
      /\ outcome \in [Objects -> {"none", "ok", "failed"}]
      /\ outcome' = [outcome EXCEPT ![o] = "ok"]
      /\ omissions \subseteq omissions' /\ (pc[o] = "omit" => o \in omissions')
      /\ UNCHANGED <<rows, entries, completedKeys, objectsListed, objectsIncluded>>
      /\ objectsSkipped' = objectsSkipped + 1
  BY PcType DEF EndsWithout, RunInv, PoolInv, PoolTypeOK
<1>2. /\ Archived' = Archived
      /\ \A x : Excused(x) => Excused(x)'
      /\ o \notin Archived
  <2>1. Archived' = Archived
    BY <1>1 DEF Archived, Elements
  <2>2. o \notin Archived
    BY <1>1 DEF WholeInv, EntriesInv
  <2> QED BY <1>1, <2>1, <2>2 DEF Excused, Skippable, Checkpointing
<1>3. EntriesInv'
  BY <1>1, <1>2 DEF WholeInv, EntriesInv
<1>4. TasksInv'
  <2>1. Excused(o)'
    <3>1. CASE pc[o] = "skip"
      BY <1>2, <3>1 DEF WholeInv, TasksInv, TaskInv
    <3>2. CASE pc[o] = "omit"
      BY <1>1, <3>2 DEF Excused
    <3> QED BY <1>1, <3>1, <3>2
  <2>2. TaskInv(o)'
    BY <1>1, <2>1 DEF TaskInv
  <2>3. ASSUME NEW x \in Objects, x # o PROVE TaskInv(x)'
    <3>1. TaskInv(x) /\ pc'[x] = pc[x] /\ outcome'[x] = outcome[x]
      BY <1>1, <2>3 DEF WholeInv, TasksInv
    <3> QED BY <1>2, <3>1 DEF TaskInv
  <2> QED BY <2>2, <2>3 DEF TasksInv
<1>5. KeysInv'
  BY <1>1, <1>2 DEF WholeInv, KeysInv, Checkpointing
<1>6. CountInv'
  <2>1. Counted' = Counted
    BY <1>1 DEF Counted
  <2>2. Included' = Included
    BY <1>1, <1>2 DEF Included
  <2>3. Skipped' = Skipped \cup {o} /\ o \notin Skipped /\ Skipped \subseteq Objects
    BY <1>1, <1>2 DEF Skipped
  <2> QED BY <1>1, <2>1, <2>2, <2>3, CountOne DEF WholeInv, CountInv
<1>7. RowsInv'
  BY <1>1, RowsUndisturbed DEF WholeInv, EndsWithout
<1> QED BY <1>3, <1>4, <1>5, <1>6, <1>7 DEF WholeInv

LEMMA FinishesKeeps ==
  ASSUME RunInv, WholeInv, NEW o \in Objects, Finishes(o), UNCHANGED <<setup, run>>
  PROVE  WholeInv'
<1>1. /\ pc[o] = "saving" /\ pc'[o] = "ended"
      /\ \A x \in Objects : x # o => pc'[x] = pc[x]
      /\ outcome \in [Objects -> {"none", "ok", "failed"}]
      /\ outcome' = [outcome EXCEPT ![o] = "ok"]
      /\ UNCHANGED <<omissions, rows, entries, completedKeys, objectsListed, objectsIncluded,
                     objectsSkipped>>
  BY PcType DEF Finishes, RunInv, PoolInv, PoolTypeOK, results, counters
<1>2. /\ Archived' = Archived
      /\ \A x : Excused(x)' <=> Excused(x)
      /\ o \in Archived
  <2>1. Archived' = Archived
    BY <1>1 DEF Archived, Elements
  <2>2. o \in Archived
    BY <1>1 DEF WholeInv, EntriesInv
  <2> QED BY <1>1, <2>1, <2>2 DEF Excused, Skippable, Checkpointing
<1>3. EntriesInv'
  BY <1>1, <1>2 DEF WholeInv, EntriesInv
<1>4. TasksInv'
  <2>1. ASSUME NEW x \in Objects PROVE TaskInv(x)'
    <3>1. TaskInv(x) /\ (x # o => outcome'[x] = outcome[x]) /\ outcome'[o] = "ok"
      BY <1>1 DEF WholeInv, TasksInv
    <3> QED BY <1>1, <1>2, <3>1 DEF TaskInv
  <2> QED BY <2>1 DEF TasksInv
<1>5. KeysInv'
  BY <1>1, <1>2 DEF WholeInv, KeysInv, Checkpointing
<1>6. CountInv'
  <2>1. Counted' = Counted
    BY <1>1 DEF Counted
  <2>2. Included' = Included
    BY <1>1, <1>2 DEF Included
  <2>3. Skipped' = Skipped
    BY <1>1, <1>2 DEF Skipped
  <2> QED BY <1>1, <2>1, <2>2, <2>3 DEF WholeInv, CountInv
<1>7. RowsInv'
  BY <1>1, RowsUndisturbed DEF WholeInv, Finishes
<1> QED BY <1>3, <1>4, <1>5, <1>6, <1>7 DEF WholeInv

(* An entry more: the last one, as its record section is. *)
LEMMA EncodesKeeps ==
  ASSUME RunInv, WholeInv, NEW o \in Objects, Encodes(o), UNCHANGED <<setup, run>>
  PROVE  WholeInv'
<1>1. /\ pc[o] = "writing" /\ pc'[o] = "record"
      /\ \A x \in Objects : x # o => pc'[x] = pc[x]
      /\ entries' = Append(entries, o)
      /\ UNCHANGED <<outcome, omissions, rows, completedKeys, objectsListed, objectsIncluded,
                     objectsSkipped>>
      /\ Runs(o) /\ LeaveAndQueue(o) /\ LockMoves(o)
  BY PcType DEF Encodes, RunInv, counters, LockMoves
<1>2. /\ entries \in Seq(Objects \cup {Manifest}) /\ Len(entries) \in Nat
      /\ entries' \in Seq(Objects \cup {Manifest}) /\ Len(entries') = Len(entries) + 1
      /\ entries'[Len(entries) + 1] = o
      /\ \A i \in 1..Len(entries) : entries'[i] = entries[i]
  BY <1>1 DEF WholeInv, EntriesInv
<1>3. /\ Archived' = Archived \cup {o} /\ o \notin Archived /\ o # Manifest
      /\ \A i \in 1..Len(entries) : entries[i] # o
  <2>1. o # Manifest
    BY ObjectsNotManifest
  <2>2. o \notin Archived
    BY <1>1 DEF WholeInv, EntriesInv
  <2>3. Elements(entries') = Elements(entries) \cup {o}
    BY <1>2 DEF Elements
  <2> QED BY <2>1, <2>2, <2>3 DEF Archived, Elements
<1>4. run \in {"iterating", "failed"}
  BY <1>1, ActiveRun
<1>5. \A i \in 1..Len(entries) : entries[i] \in Objects
  BY <1>2, <1>4 DEF WholeInv, EntriesInv
<1>6. EntriesInv'
  <2>1. \A i, k \in 1..Len(entries') : entries'[i] = entries'[k] => i = k
    <3> SUFFICES ASSUME NEW i \in 1..Len(entries'), NEW k \in 1..Len(entries'),
                        entries'[i] = entries'[k]
                 PROVE  i = k
      OBVIOUS
    <3>1. CASE i \in 1..Len(entries) /\ k \in 1..Len(entries)
      BY <1>2, <3>1 DEF WholeInv, EntriesInv
    <3>2. CASE i = Len(entries) + 1 \/ k = Len(entries) + 1
      <4>1. i = Len(entries) + 1 \/ i \in 1..Len(entries)
        BY <1>2
      <4>2. k = Len(entries) + 1 \/ k \in 1..Len(entries)
        BY <1>2
      <4> QED BY <1>2, <1>3, <3>2, <4>1, <4>2
    <3> QED BY <1>2, <3>1, <3>2
  <2>2. \A i \in 1..Len(entries') : entries'[i] # Manifest
    <3> SUFFICES ASSUME NEW i \in 1..Len(entries') PROVE entries'[i] # Manifest
      OBVIOUS
    <3>1. i = Len(entries) + 1 \/ i \in 1..Len(entries)
      BY <1>2
    <3> QED BY <1>2, <1>3, <1>5, <3>1, ObjectsNotManifest
  <2> QED BY <1>1, <1>2, <1>3, <2>1, <2>2 DEF WholeInv, EntriesInv
<1>7. ASSUME NEW x, Excused(x) PROVE Excused(x)'
  BY <1>1, <1>3, <1>7 DEF Excused, Skippable, Checkpointing
<1>8. TasksInv'
  <2>1. ASSUME NEW x \in Objects PROVE TaskInv(x)'
    <3>1. TaskInv(x) /\ outcome'[x] = outcome[x]
      BY <1>1 DEF WholeInv, TasksInv
    <3> QED BY <1>1, <1>3, <1>7, <3>1 DEF TaskInv
  <2> QED BY <2>1 DEF TasksInv
<1>9. KeysInv'
  BY <1>1, <1>3 DEF WholeInv, KeysInv, Checkpointing
<1>10. CountInv'
  <2>1. Counted' = Counted
    BY <1>1 DEF Counted
  <2>2. Included' = Included
    BY <1>1, <1>3 DEF Included
  <2>3. Skipped' = Skipped
    BY <1>1, <1>3 DEF Skipped
  <2> QED BY <1>1, <2>1, <2>2, <2>3 DEF WholeInv, CountInv
<1>11. RowsInv'
  <2> SUFFICES ASSUME IncludeManifest PROVE RowsInv'
    BY DEF RowsInv, IncludeManifest
  <2>1. /\ Len(rows) \in Nat /\ Len(rows) <= Len(entries)
        /\ \A i \in 1..Len(rows) : rows[i] = entries[i]
        /\ \A i \in 1..Len(entries) : pc[entries[i]] = "record" <=> i > Len(rows)
        /\ \A i, k \in 1..Len(entries) : Len(rows) < i /\ i < k => Before(entries[i], entries[k])
    BY <1>4 DEF WholeInv, RowsInv, EntriesInv
  <2>2. \A i \in 1..Len(entries') : pc'[entries'[i]] = "record" <=> i > Len(rows)
    <3> SUFFICES ASSUME NEW i \in 1..Len(entries')
                 PROVE  pc'[entries'[i]] = "record" <=> i > Len(rows)
      OBVIOUS
    <3>1. CASE i = Len(entries) + 1
      BY <1>1, <1>2, <2>1, <3>1
    <3>2. CASE i \in 1..Len(entries)
      BY <1>1, <1>2, <1>3, <1>5, <2>1, <3>2
    <3> QED BY <1>2, <3>1, <3>2
  <2> DEFINE B(x, y) == \A a, b \in 1..Len(lockq') : lockq'[a] = x /\ lockq'[b] = y => a < b
  <2>3. ASSUME NEW i \in 1..Len(entries'), NEW k \in 1..Len(entries'), Len(rows) < i, i < k
        PROVE  B(entries'[i], entries'[k])
    <3>1. i \in 1..Len(entries) /\ entries'[i] = entries[i] /\ entries[i] # o
      BY <1>2, <1>3, <2>3
    <3>2. lockq \in Seq(Objects \cup {Manifest}) /\ o \in Objects \cup {Manifest}
          /\ \A a, b \in 1..Len(lockq) : lockq[a] = lockq[b] => a = b
      BY DEF RunInv, LockInv
    <3>3. \A x, y : x # o /\ y # o /\ Before(x, y) => B(x, y)
      <4>1. \A x, y : x # o /\ y # o /\ Before(x, y) => Before(x, y)'
        BY <1>1, <3>2, OrderKept
      <4> QED BY <4>1 DEF Before
    <3>4. \A x : x # o => B(x, o)
      <4>1. \A x : x # o => Before(x, o)'
        BY <1>1, <3>2, OrderLast
      <4> QED BY <4>1 DEF Before
    <3> HIDE DEF B
    <3>6. CASE k = Len(entries) + 1
      <4>1. entries'[k] = o
        BY <1>2, <3>6
      <4> QED BY <3>1, <3>4, <4>1
    <3>7. CASE k \in 1..Len(entries)
      <4>1. entries'[k] = entries[k] /\ entries[k] # o /\ Before(entries[i], entries[k])
        BY <1>2, <1>3, <2>1, <2>3, <3>1, <3>7
      <4> QED BY <3>1, <3>3, <4>1
    <3> QED BY <1>2, <3>6, <3>7
  <2>4. \A i \in 1..Len(rows) : rows'[i] = entries'[i]
    BY <1>1, <1>2, <2>1
  <2>5. Len(rows') <= Len(entries') /\ rows' = rows
    BY <1>1, <1>2, <2>1
  <2>6. run' \notin {"closing", "done"}
    BY <1>4
  <2> QED BY <2>2, <2>3, <2>4, <2>5, <2>6 DEF RowsInv, Before
<1> QED BY <1>6, <1>8, <1>9, <1>10, <1>11 DEF WholeInv

(* The record section that runs is that of the first entry without a row. *)
LEMMA NextRow ==
  ASSUME RunInv, EntriesInv, RowsInv, IncludeManifest, run \notin {"closing", "done"},
         NEW o \in Objects, pc[o] = "record", Runs(o)
  PROVE  Len(rows) < Len(entries) /\ entries[Len(rows) + 1] = o
<1>1. /\ Len(rows) \in Nat /\ Len(entries) \in Nat /\ Len(rows) <= Len(entries)
      /\ \A i \in 1..Len(entries) : pc[entries[i]] = "record" <=> i > Len(rows)
      /\ \A i, k \in 1..Len(entries) : Len(rows) < i /\ i < k => Before(entries[i], entries[k])
      /\ \A i \in 1..Len(entries) : entries[i] \in Objects
  BY DEF RowsInv, EntriesInv
<1>2. PICK j \in 1..Len(entries) : entries[j] = o
  BY DEF EntriesInv, Archived, Elements
<1>3. j > Len(rows)
  BY <1>1, <1>2
<1>4. CASE j # Len(rows) + 1
  <2> DEFINE p == entries[Len(rows) + 1]
  <2>1. Len(rows) + 1 \in 1..Len(entries) /\ Len(rows) + 1 < j
    BY <1>1, <1>3, <1>4
  <2>2. p \in Objects /\ pc[p] = "record" /\ Before(p, o)
    BY <1>1, <1>2, <2>1
  <2>3. PICK a \in 1..Len(lockq) : lockq[a] = p
    BY <2>2 DEF RunInv, LockInv, InLock
  <2>4. lockq[1] = o /\ 1 \in 1..Len(lockq)
    BY DEF Runs, RunInv, LockInv
  <2>5. a < 1
    BY <2>2, <2>3, <2>4 DEF Before
  <2> QED BY <2>3, <2>5
<1> QED BY <1>1, <1>2, <1>3, <1>4

LEMMA RecordsKeeps ==
  ASSUME RunInv, WholeInv, NEW o \in Objects, Records(o), UNCHANGED <<setup, run>>
  PROVE  WholeInv'
<1>1. /\ pc[o] = "record" /\ pc'[o] \in {"saving", "ended"}
      /\ \A x \in Objects : x # o => pc'[x] = pc[x]
      /\ outcome \in [Objects -> {"none", "ok", "failed"}]
      /\ \A x \in Objects : x # o => outcome'[x] = outcome[x]
      /\ pc'[o] = "ended" => outcome'[o] = "ok"
      /\ UNCHANGED <<omissions, entries, objectsListed, objectsSkipped>>
      /\ objectsIncluded' = objectsIncluded + 1
      /\ rows' = IF IncludeManifest THEN Append(rows, o) ELSE rows
      /\ completedKeys' = completedKeys
         \/ (Checkpointing /\ completedKeys' = Append(completedKeys, Key[o]))
      /\ Runs(o) /\ LockMoves(o)
  BY PcType DEF Records, RunInv, PoolInv, PoolTypeOK
<1>2. /\ Archived' = Archived
      /\ \A x : Excused(x)' <=> Excused(x)
      /\ o \in Archived
  <2>1. Archived' = Archived
    BY <1>1 DEF Archived, Elements
  <2>2. o \in Archived
    BY <1>1 DEF WholeInv, EntriesInv
  <2> QED BY <1>1, <2>1, <2>2 DEF Excused, Skippable, Checkpointing
<1>3. run \in {"iterating", "failed"}
  BY <1>1, ActiveRun
<1>4. /\ entries \in Seq(Objects \cup {Manifest}) /\ rows \in Seq(Objects)
      /\ rows' \in Seq(Objects)
  BY <1>1 DEF WholeInv, EntriesInv
<1>5. EntriesInv'
  BY <1>1, <1>2, <1>4 DEF WholeInv, EntriesInv
<1>6. TasksInv'
  <2>1. ASSUME NEW x \in Objects PROVE TaskInv(x)'
    <3>1. TaskInv(x)
      BY DEF WholeInv, TasksInv
    <3> QED BY <1>1, <1>2, <3>1 DEF TaskInv
  <2> QED BY <2>1 DEF TasksInv
<1>7. KeysInv'
  <2>1. CASE completedKeys' = completedKeys
    BY <1>2, <2>1 DEF WholeInv, KeysInv, Checkpointing
  <2>2. CASE Checkpointing /\ completedKeys' = Append(completedKeys, Key[o])
    <3>1. completedKeys \in Seq({Key[x] : x \in Objects})
      BY DEF WholeInv, KeysInv
    <3>2. /\ completedKeys' \in Seq({Key[x] : x \in Objects})
          /\ Len(completedKeys') = Len(completedKeys) + 1
          /\ completedKeys'[Len(completedKeys) + 1] = Key[o]
          /\ \A i \in 1..Len(completedKeys) : completedKeys'[i] = completedKeys[i]
          /\ Len(completedKeys) \in Nat
      BY <2>2, <3>1
    <3>3. ASSUME NEW i \in 1..Len(completedKeys')
          PROVE  \E x \in Archived : Key[x] = completedKeys'[i]
      <4>1. CASE i = Len(completedKeys) + 1
        BY <1>2, <3>2, <4>1
      <4>2. CASE i \in 1..Len(completedKeys)
        BY <3>2, <4>2 DEF WholeInv, KeysInv
      <4> QED BY <3>2, <4>1, <4>2
    <3> QED BY <1>2, <2>2, <3>2, <3>3 DEF KeysInv, Checkpointing
  <2> QED BY <1>1, <2>1, <2>2
<1>8. CountInv'
  <2>1. Counted' = Counted
    BY <1>1 DEF Counted
  <2>2. Included' = Included \cup {o} /\ o \notin Included /\ Included \subseteq Objects
    BY <1>1, <1>2 DEF Included
  <2>3. Skipped' = Skipped
    BY <1>1, <1>2 DEF Skipped
  <2> QED BY <1>1, <2>1, <2>2, <2>3, CountOne DEF WholeInv, CountInv
<1>9. RowsInv'
  <2> SUFFICES ASSUME IncludeManifest PROVE RowsInv'
    BY DEF RowsInv, IncludeManifest
  <2>1. /\ Len(rows) \in Nat /\ Len(entries) \in Nat /\ Len(rows) <= Len(entries)
        /\ \A i \in 1..Len(rows) : rows[i] = entries[i]
        /\ \A i \in 1..Len(entries) : pc[entries[i]] = "record" <=> i > Len(rows)
        /\ \A i, k \in 1..Len(entries) : Len(rows) < i /\ i < k => Before(entries[i], entries[k])
        /\ \A i \in 1..Len(entries) : entries[i] \in Objects
        /\ \A i, k \in 1..Len(entries) : entries[i] = entries[k] => i = k
    BY <1>3, <1>4 DEF WholeInv, RowsInv, EntriesInv
  <2>2. Len(rows) < Len(entries) /\ entries[Len(rows) + 1] = o
    BY <1>1, <1>3, NextRow DEF WholeInv
  <2>3. /\ Len(rows') = Len(rows) + 1 /\ rows'[Len(rows) + 1] = o
        /\ \A i \in 1..Len(rows) : rows'[i] = rows[i]
    BY <1>1, <1>4
  <2>4. Len(rows') <= Len(entries)
    BY <2>1, <2>2, <2>3
  <2>5. ASSUME NEW i \in 1..Len(rows') PROVE rows'[i] = entries[i]
    <3>1. CASE i = Len(rows) + 1
      BY <2>2, <2>3, <3>1
    <3>2. CASE i \in 1..Len(rows)
      BY <2>1, <2>3, <3>2
    <3> QED BY <2>1, <2>3, <3>1, <3>2
  <2>6. ASSUME NEW i \in 1..Len(entries) PROVE pc'[entries[i]] = "record" <=> i > Len(rows')
    <3>1. CASE i = Len(rows) + 1
      BY <1>1, <2>1, <2>2, <2>3, <3>1
    <3>2. CASE i # Len(rows) + 1
      <4>1. Len(rows) + 1 \in 1..Len(entries)
        BY <2>1, <2>2
      <4>2. entries[i] # o /\ entries[i] \in Objects
        BY <2>1, <2>2, <3>2, <4>1
      <4>3. i > Len(rows) <=> i > Len(rows')
        BY <2>1, <2>3, <3>2
      <4> QED BY <1>1, <2>1, <4>2, <4>3
    <3> QED BY <3>1, <3>2
  <2> DEFINE B(x, y) == \A a, b \in 1..Len(lockq') : lockq'[a] = x /\ lockq'[b] = y => a < b
  <2>7. ASSUME NEW i \in 1..Len(entries), NEW k \in 1..Len(entries), Len(rows') < i, i < k
        PROVE  B(entries[i], entries[k])
    <3>1. Len(rows) < i /\ Len(rows) + 1 \in 1..Len(entries) /\ i # Len(rows) + 1 /\ k # Len(rows) + 1
      BY <2>1, <2>2, <2>3, <2>7
    <3>2. entries[i] # o /\ entries[k] # o /\ Before(entries[i], entries[k])
      BY <2>1, <2>2, <2>7, <3>1
    <3>3. lockq \in Seq(Objects \cup {Manifest}) /\ o \in Objects \cup {Manifest}
      BY DEF RunInv, LockInv
    <3>4. \A x, y : x # o /\ y # o /\ Before(x, y) => B(x, y)
      <4>1. \A x, y : x # o /\ y # o /\ Before(x, y) => Before(x, y)'
        BY <1>1, <3>3, OrderKept
      <4> QED BY <4>1 DEF Before
    <3> HIDE DEF B
    <3> QED BY <3>2, <3>4
  <2>8. run' \notin {"closing", "done"} /\ entries' = entries
    BY <1>1, <1>3
  <2>9. /\ Len(rows') <= Len(entries')
        /\ \A i \in 1..Len(rows') : rows'[i] = entries'[i]
        /\ \A i \in 1..Len(entries') : pc'[entries'[i]] = "record" <=> i > Len(rows')
    BY <2>4, <2>5, <2>6, <2>8
  <2>10. \A i, k \in 1..Len(entries') : Len(rows') < i /\ i < k => B(entries'[i], entries'[k])
    <3> HIDE DEF B
    <3> QED BY <2>7, <2>8
  <2> QED BY <2>8, <2>9, <2>10 DEF RowsInv, Before
<1> QED BY <1>5, <1>6, <1>7, <1>8, <1>9 DEF WholeInv

(* The listing, the window and the ends of the run. *)
LEMMA PullKeeps ==
  ASSUME RunInv, WholeInv, Pull, UNCHANGED setup
  PROVE  WholeInv'
<1> DEFINE o == listed + 1
<1>1. o \in Objects /\ pc[o] = "none"
  <2>1. listed \in 0..MaxObjects /\ listed < MaxObjects /\ MaxObjects \in Nat
    BY PoolAssumption DEF Pull, PullItem, RunInv, PoolInv, PoolTypeOK
  <2>2. o \in Objects /\ o > listed
    BY <2>1 DEF Objects
  <2> QED BY <2>2 DEF RunInv, LinkInv
<1> HIDE DEF o
<1>2. /\ pc'[o] = "start" /\ \A x \in Objects : x # o => pc'[x] = pc[x]
      /\ UNCHANGED <<lockq, objectsListed, objectsIncluded, objectsSkipped, omissions, rows, entries,
                     completedKeys, run, outcome>>
      /\ Goto(o, "start")
  BY <1>1, PcType DEF Pull, PullItem, RunInv, counters, results, o
<1>3. Archived' = Archived /\ \A x : Excused(x)' <=> Excused(x)
  BY <1>2 DEF Archived, Elements, Excused, Skippable, Checkpointing
<1>4. EntriesInv'
  BY <1>1, <1>2, <1>3 DEF WholeInv, EntriesInv
<1>5. TasksInv'
  BY <1>1, <1>2, <1>3 DEF WholeInv, TasksInv, TaskInv
<1>6. KeysInv'
  BY <1>2, <1>3 DEF WholeInv, KeysInv, Checkpointing
<1>7. CountInv'
  <2>1. Counted' = Counted
    BY <1>1, <1>2 DEF Counted
  <2>2. Included' = Included
    <3>1. o \notin Archived
      BY <1>1 DEF WholeInv, EntriesInv
    <3> QED BY <1>2, <1>3, <3>1 DEF Included
  <2>3. Skipped' = Skipped
    BY <1>1, <1>2, <1>3 DEF Skipped
  <2> QED BY <1>2, <2>1, <2>2, <2>3 DEF WholeInv, CountInv
<1>8. RowsInv'
  BY <1>1, <1>2, RowsUndisturbed DEF WholeInv, LockMoves
<1> QED BY <1>4, <1>5, <1>6, <1>7, <1>8 DEF WholeInv

LEMMA EngineKeeps ==
  ASSUME RunInv, WholeInv, Engine, Healthy', UNCHANGED setup
  PROVE  WholeInv'
<1> DEFINE Same == UNCHANGED <<pc, outcome, objectsListed, objectsIncluded, objectsSkipped,
                               omissions, rows, completedKeys>>
<1>1. Same
  BY DEF Engine, IterationRejected, IterationResolved, WriteManifest, PipelineSettles, poolVars,
         counters, results
<1>2. CASE UNCHANGED <<entries, lockq>> /\ (IterationRejected \/ PipelineSettles)
  <2>1. /\ Archived' = Archived /\ \A x : Excused(x)' <=> Excused(x)
        /\ Included' = Included /\ Skipped' = Skipped /\ Counted' = Counted
    BY <1>1, <1>2 DEF Archived, Elements, Excused, Skippable, Checkpointing, Included, Skipped, Counted
  <2>2. run' \in {"closing", "done"} <=> run \in {"closing", "done"}
    BY <1>2 DEF IterationRejected, PipelineSettles, Healthy
  <2>3. EntriesInv' /\ TasksInv' /\ KeysInv' /\ CountInv'
    BY <1>1, <1>2, <2>1, <2>2 DEF WholeInv, EntriesInv, TasksInv, TaskInv, KeysInv, CountInv,
       Checkpointing
  <2>4. RowsInv'
    BY <1>1, <1>2, <2>2 DEF WholeInv, RowsInv, Before, IncludeManifest
  <2> QED BY <2>3, <2>4 DEF WholeInv
<1>3. CASE IterationResolved \/ (WriteManifest /\ stuck)
  <2>1. /\ run \in {"iterating", "manifest"} /\ UNCHANGED entries /\ LockMoves(Manifest)
        /\ run' \in {"manifest", "failed"} \/ (~ IncludeManifest /\ run' = "closing")
    BY <1>3 DEF IterationResolved, WriteManifest, LockMoves, results
  <2>2. /\ Archived' = Archived /\ \A x : Excused(x)' <=> Excused(x)
        /\ Included' = Included /\ Skipped' = Skipped /\ Counted' = Counted
    BY <1>1, <2>1 DEF Archived, Elements, Excused, Skippable, Checkpointing, Included, Skipped, Counted
  <2>3. EntriesInv' /\ TasksInv' /\ KeysInv' /\ CountInv'
    BY <1>1, <2>1, <2>2 DEF WholeInv, EntriesInv, TasksInv, TaskInv, KeysInv, CountInv,
       Checkpointing
  <2>4. RowsInv'
    <3> SUFFICES ASSUME IncludeManifest PROVE RowsInv'
      BY DEF RowsInv, IncludeManifest
    <3> DEFINE B(x, y) == \A a, b \in 1..Len(lockq') : lockq'[a] = x /\ lockq'[b] = y => a < b
    <3>1. \A x, y : x # Manifest /\ y # Manifest /\ Before(x, y) => B(x, y)
      <4>1. lockq \in Seq(Objects \cup {Manifest}) /\ LockMoves(Manifest)
        BY <2>1 DEF RunInv, LockInv
      <4>2. \A x, y : x # Manifest /\ y # Manifest /\ Before(x, y) => Before(x, y)'
        BY <4>1, OrderKept
      <4> QED BY <4>2 DEF Before
    <3>2. \A i \in 1..Len(entries) : entries[i] # Manifest
      BY <2>1 DEF WholeInv, EntriesInv
    <3>3. \A i, k \in 1..Len(entries) : Len(rows) < i /\ i < k => B(entries[i], entries[k])
      <4> HIDE DEF B
      <4>1. \A i, k \in 1..Len(entries) : Len(rows) < i /\ i < k => Before(entries[i], entries[k])
        BY <2>1 DEF WholeInv, RowsInv
      <4> QED BY <3>1, <3>2, <4>1
    <3> QED BY <1>1, <2>1, <3>3 DEF WholeInv, RowsInv, Before
  <2> QED BY <2>3, <2>4 DEF WholeInv
<1>4. CASE WriteManifest /\ ~ stuck
  <2>1. run = "manifest" /\ run' = "closing" /\ entries' = Append(entries, Manifest)
    BY <1>4 DEF WriteManifest
  <2>2. /\ entries \in Seq(Objects \cup {Manifest}) /\ Len(entries) \in Nat
        /\ entries' \in Seq(Objects \cup {Manifest}) /\ Len(entries') = Len(entries) + 1
        /\ entries'[Len(entries) + 1] = Manifest
        /\ \A i \in 1..Len(entries) : entries'[i] = entries[i] /\ entries[i] # Manifest
    BY <2>1 DEF WholeInv, EntriesInv
  <2>3. Elements(entries') = Elements(entries) \cup {Manifest}
    BY <2>2 DEF Elements
  <2>4. Archived' = Archived
    BY <2>3 DEF Archived
  <2>5. /\ \A x : Excused(x)' <=> Excused(x)
        /\ Included' = Included /\ Skipped' = Skipped /\ Counted' = Counted
    BY <1>1, <2>4 DEF Excused, Skippable, Checkpointing, Included, Skipped, Counted
  <2>6. EntriesInv'
    <3>1. \A i, k \in 1..Len(entries') : entries'[i] = entries'[k] => i = k
      <4> SUFFICES ASSUME NEW i \in 1..Len(entries'), NEW k \in 1..Len(entries'),
                          entries'[i] = entries'[k]
                   PROVE  i = k
        OBVIOUS
      <4>1. i = Len(entries) + 1 \/ i \in 1..Len(entries)
        BY <2>2
      <4>2. k = Len(entries) + 1 \/ k \in 1..Len(entries)
        BY <2>2
      <4>3. CASE i \in 1..Len(entries) /\ k \in 1..Len(entries)
        BY <2>2, <4>3 DEF WholeInv, EntriesInv
      <4> QED BY <2>2, <4>1, <4>2, <4>3
    <3> QED BY <1>1, <2>1, <2>2, <2>4, <3>1 DEF WholeInv, EntriesInv
  <2>7. TasksInv' /\ KeysInv' /\ CountInv'
    BY <1>1, <2>4, <2>5 DEF WholeInv, TasksInv, TaskInv, KeysInv, CountInv, Checkpointing
  <2>8. RowsInv'
    <3> SUFFICES ASSUME IncludeManifest PROVE RowsInv'
      BY DEF RowsInv, IncludeManifest
    <3>1. \A o \in Objects : pc[o] # "record"
      BY <2>1, ActiveRun
    <3>2. /\ rows \in Seq(Objects) /\ Len(rows) \in Nat /\ Len(rows) <= Len(entries)
          /\ \A i \in 1..Len(rows) : rows[i] = entries[i]
          /\ \A i \in 1..Len(entries) : pc[entries[i]] = "record" <=> i > Len(rows)
          /\ \A i \in 1..Len(entries) : entries[i] \in Objects
      <4>1. RowsInv /\ EntriesInv
        BY DEF WholeInv
      <4>2. rows \in Seq(Objects) /\ \A i \in 1..Len(entries) : entries[i] \in Objects
        BY <4>1, <2>1, <2>2 DEF EntriesInv
      <4>3. /\ Len(rows) <= Len(entries)
            /\ \A i \in 1..Len(rows) : rows[i] = entries[i]
            /\ \A i \in 1..Len(entries) : pc[entries[i]] = "record" <=> i > Len(rows)
        BY <4>1, <2>1, <2>2 DEF RowsInv
      <4>4. Len(rows) \in Nat
        BY <4>2
      <4> QED BY <4>2, <4>3, <4>4
    <3>3. Len(rows) = Len(entries)
      <4>1. ASSUME Len(rows) < Len(entries) PROVE FALSE
        <5>1. Len(entries) \in 1..Len(entries) /\ Len(entries) > Len(rows)
          BY <2>2, <3>2, <4>1
        <5> QED BY <3>1, <3>2, <5>1
      <4> QED BY <2>2, <3>2, <4>1
    <3>4. entries \in Seq(Objects)
      <4>1. entries \in [1..Len(entries) -> Objects]
        BY <2>2, <3>2
      <4> QED BY <2>2, <4>1, SeqDef
    <3>5. entries = rows
      BY <3>2, <3>3, <3>4, SeqEqual
    <3> QED BY <1>1, <2>1, <3>5 DEF RowsInv
  <2> QED BY <2>6, <2>7, <2>8 DEF WholeInv
<1>5. Engine => IterationRejected \/ PipelineSettles \/ IterationResolved \/ WriteManifest
  BY DEF Engine
<1> QED BY <1>2, <1>3, <1>4, <1>5 DEF IterationRejected, PipelineSettles, results

LEMMA UndisturbedKeeps ==
  ASSUME WholeInv,
         UNCHANGED <<setup, pc, lockq, outcome, objectsListed, objectsIncluded, objectsSkipped,
                     omissions, rows, entries, completedKeys, run>>
  PROVE  WholeInv'
<1>1. /\ Archived' = Archived /\ \A x : Excused(x)' <=> Excused(x)
      /\ Included' = Included /\ Skipped' = Skipped /\ Counted' = Counted
  BY DEF Archived, Elements, Excused, Skippable, Checkpointing, Included, Skipped, Counted
<1>2. EntriesInv' /\ TasksInv' /\ KeysInv' /\ CountInv'
  BY <1>1 DEF WholeInv, EntriesInv, TasksInv, TaskInv, KeysInv, CountInv, Checkpointing
<1>3. RowsInv'
  <2>1. RowsInv
    BY DEF WholeInv
  <2>2. UNCHANGED <<IncludeManifest, run, rows, entries, pc, lockq>>
    BY DEF IncludeManifest
  <2> QED BY ONLY <2>1, <2>2 DEF RowsInv, Before
<1> QED BY <1>2, <1>3 DEF WholeInv

LEMMA WholeStep ==
  ASSUME RunInv, ZipInv, Healthy => WholeInv, Next, UNCHANGED setup, Healthy'
  PROVE  WholeInv'
<1>1. CASE Pull
  BY <1>1, PullKeeps DEF Pull, Healthy, output
<1>2. CASE ListingEnds
  <2>1. UNCHANGED <<pc, lockq, outcome, objectsListed, objectsIncluded, objectsSkipped,
                    omissions, rows, entries, completedKeys, run, zip, aborted>>
    BY <1>2 DEF ListingEnds, PullEnd, PullFails, counters, results, output
  <2>2. WholeInv
    BY <2>1 DEF Healthy
  <2> QED BY <2>1, <2>2, UndisturbedKeeps
<1>3. CASE Engine
  <2>1. Healthy
    BY <1>3 DEF Engine, IterationRejected, IterationResolved, WriteManifest, PipelineSettles,
                Healthy, output
  <2> QED BY <1>3, <2>1, EngineKeeps
<1>4. ~ DestinationFails /\ ~ Abort
  BY DEF DestinationFails, Abort, Healthy
<1>5. ASSUME NEW o \in Objects, Step(o) \/ External(o) PROVE WholeInv'
  BY <1>5, HealthyTask, MovesKeeps, EndsWithoutKeeps, EncodesKeeps, RecordsKeeps, FinishesKeeps
<1> QED BY <1>1, <1>2, <1>3, <1>4, <1>5 DEF Next

LEMMA WholeInit == Init => WholeInv
<1> SUFFICES ASSUME Init PROVE WholeInv
  OBVIOUS
<1>1. /\ pc = [o \in Objects |-> "none"] /\ entries = <<>> /\ rows = <<>> /\ completedKeys = <<>>
      /\ objectsListed = 0 /\ objectsIncluded = 0 /\ objectsSkipped = 0 /\ run = "iterating"
  BY DEF Init
<1>2. Archived = {} /\ Counted = {} /\ Included = {} /\ Skipped = {}
  BY <1>1 DEF Archived, Elements, Counted, Included, Skipped
<1>3. CountInv
  BY <1>1, <1>2, FS_EmptySet DEF CountInv
<1>4. EntriesInv /\ TasksInv /\ KeysInv
  BY <1>1, <1>2 DEF EntriesInv, TasksInv, TaskInv, KeysInv
<1>5. RowsInv
  BY <1>1 DEF RowsInv
<1> QED BY <1>3, <1>4, <1>5 DEF WholeInv

LEMMA WholeInvariance == Spec => [](RunInv /\ ZipInv /\ (Healthy => WholeInv))
<1>1. /\ RunInv /\ ZipInv /\ (Healthy => WholeInv)
      /\ [Next /\ UNCHANGED setup]_<<setup, vars>>
      => ZipInv' /\ (Healthy => WholeInv)'
  <2> SUFFICES ASSUME RunInv, ZipInv, Healthy => WholeInv,
                      [Next /\ UNCHANGED setup]_<<setup, vars>>
               PROVE  ZipInv' /\ (Healthy' => WholeInv')
    OBVIOUS
  <2>1. CASE Next /\ UNCHANGED setup
    BY <2>1, ZipStep, WholeStep
  <2>2. CASE UNCHANGED <<setup, vars>>
    <3>1. UNCHANGED <<setup, pc, lockq, outcome, objectsListed, objectsIncluded, objectsSkipped,
                      omissions, rows, entries, completedKeys, run, zip, aborted>>
      BY <2>2 DEF vars, poolVars, counters, results, output
    <3>2. ZipInv' /\ (Healthy' => WholeInv)
      BY <3>1 DEF ZipInv, Healthy
    <3> QED BY <3>1, <3>2, UndisturbedKeeps
  <2> QED BY <2>1, <2>2
<1> QED BY <1>1, ZipInitInv, WholeInit, RunInvariance, PTL DEF Spec

(* A run that resolves without an abort has lost nothing: the counters add *)
(* up to the listing, every object without an entry has its reason, and    *)
(* the manifest has the rows of the entries before it.                     *)
THEOREM ResolvedIsComplete == Spec => []ResolvedRunIsComplete
<1>1. ASSUME RunInv, ZipInv, Healthy => WholeInv, run = "done", ~ aborted
      PROVE  LET archived == Elements(entries) \ {Manifest}
             IN  /\ \A o \in 1..listed : outcome[o] = "ok"
                 /\ objectsListed = listed
                 /\ objectsIncluded + objectsSkipped = listed
                 /\ objectsIncluded = Cardinality(archived)
                 /\ \A o \in 1..listed \ (omissions \cup Skippable) :
                      \E x \in archived : x = o \/ (Checkpointing /\ Key[x] = Key[o])
                 /\ zip = "flushed"
                 /\ IncludeManifest => entries = Append(rows, Manifest)
  <2>1. zip = "flushed" /\ WholeInv
    BY <1>1 DEF ZipInv, Healthy
  <2>2. listed \in Nat /\ 1..listed \subseteq Objects
    BY <1>1, PoolAssumption DEF RunInv, PoolInv, PoolTypeOK, Objects
  <2>3. /\ \A o \in Objects : pc[o] \in {"none", "ended"}
        /\ \A o \in Objects : pc[o] = "ended" <=> o \in 1..listed
    <3>1. \A o \in Objects : pc[o] \in {"none", "ended"}
      BY <1>1, ActiveRun
    <3>2. \A o \in Objects : (o > listed) <=> (pc[o] = "none")
      BY <1>1 DEF RunInv, LinkInv
    <3> QED BY <2>2, <3>1, <3>2, PoolAssumption DEF Objects
  <2>4. \A o \in 1..listed : outcome[o] = "ok"
    BY <2>1, <2>2, <2>3 DEF WholeInv, TasksInv, TaskInv
  <2>5. Counted = 1..listed
    BY <2>2, <2>3 DEF Counted
  <2>6. IsFiniteSet(1..listed) /\ Cardinality(1..listed) = listed
    <3>1. \A n \in Nat : IsFiniteSet(1..n) /\ Cardinality(1..n) = n
      BY FS_Interval
    <3> QED BY <2>2, <3>1
  <2>7. Included = Archived
    <3>1. Archived \subseteq Objects
      BY <2>1 DEF WholeInv, EntriesInv, Archived, Elements
    <3> QED BY <2>3, <3>1 DEF Included
  <2>8. Included \cup Skipped = 1..listed /\ Included \cap Skipped = {}
    BY <2>1, <2>2, <2>3 DEF Included, Skipped, WholeInv, EntriesInv
  <2>9. Cardinality(Included) + Cardinality(Skipped) = listed
    <3>1. IsFiniteSet(Included) /\ IsFiniteSet(Skipped)
      BY <2>6, <2>8, FS_Subset
    <3>2. Cardinality(Included \cup Skipped) =
            Cardinality(Included) + Cardinality(Skipped) - Cardinality(Included \cap Skipped)
      BY <3>1, FS_Union
    <3>3. Cardinality(Included) \in Nat /\ Cardinality(Skipped) \in Nat /\ Cardinality({}) = 0
      BY <3>1, FS_CardinalityType, FS_EmptySet
    <3>4. Cardinality(Included \cup Skipped) = listed
      BY <2>6, <2>8
    <3>5. Cardinality(Included \cap Skipped) = 0
      BY <2>8, <3>3
    <3> DEFINE a == Cardinality(Included)
               b == Cardinality(Skipped)
    <3>6. a \in Nat /\ b \in Nat /\ listed = a + b - 0
      BY <3>2, <3>3, <3>4, <3>5
    <3> HIDE DEF a, b
    <3>7. a + b = listed
      BY <2>2, <3>6
    <3> QED BY <3>7 DEF a, b
  <2>10. ASSUME NEW o \in 1..listed, o \notin omissions \cup Skippable
         PROVE  \E x \in Archived : x = o \/ (Checkpointing /\ Key[x] = Key[o])
    <3>1. CASE o \in Archived
      BY <3>1
    <3>2. CASE o \notin Archived
      <4>1. Excused(o)
        BY <2>1, <2>2, <2>3, <3>2 DEF WholeInv, TasksInv, TaskInv
      <4> QED BY <2>10, <4>1 DEF Excused
    <3> QED BY <3>1, <3>2
  <2>11. IncludeManifest => entries = Append(rows, Manifest)
    BY <1>1, <2>1 DEF WholeInv, RowsInv
  <2> QED BY <2>1, <2>4, <2>5, <2>6, <2>7, <2>9, <2>10, <2>11 DEF WholeInv, CountInv, Archived
<1>2. RunInv /\ ZipInv /\ (Healthy => WholeInv) => ResolvedRunIsComplete
  BY <1>1 DEF ResolvedRunIsComplete
<1> QED BY <1>2, WholeInvariance, PTL

-----------------------------------------------------------------------------
(* Repeated keys.  What is encoded is in its record section or past it,    *)
(* and past it, with a checkpoint, its key is one that is looked up.       *)
Found(key) == \E i \in 1..Len(completedKeys) : completedKeys[i] = key

KnownInv ==
  /\ entries \in Seq(Objects \cup {Manifest})
  /\ completedKeys \in Seq({Key[o] : o \in Objects})
  /\ \A i \in 1..Len(entries) : entries[i] # Manifest =>
       /\ pc[entries[i]] \in {"record", "saving", "failing", "ended"}
       /\ Checkpointing => pc[entries[i]] = "record" \/ Found(Key[entries[i]])

(* The steps of a task around its record section. *)
LEMMA AroundTheRecord ==
  ASSUME RunInv, NEW o \in Objects, Step(o) \/ External(o)
  PROVE  /\ \A x \in Objects : x # o => pc'[x] = pc[x]
         /\ \/ /\ pc[o] = "writing" /\ pc'[o] = "record"
               /\ entries' = Append(entries, o) /\ completedKeys' = completedKeys
            \/ /\ pc[o] = "record" /\ pc'[o] \in {"saving", "failing", "ended"}
               /\ entries' = entries
               /\ \/ completedKeys' = Append(completedKeys, Key[o])
                  \/ ~ Checkpointing /\ completedKeys' = completedKeys
            \/ /\ pc[o] \notin {"none", "record", "ended"}
               /\ pc[o] \in {"saving", "failing"} => pc'[o] \in {"failing", "ended"}
               /\ entries' = entries /\ completedKeys' = completedKeys
<1>0. \A place : Goto(o, place) => pc'[o] = place /\ \A x \in Objects : x # o => pc'[x] = pc[x]
  BY DEF RunInv, LockInv, Goto
<1>1. CASE Record(o)
  BY <1>0, <1>1 DEF Record, Return, Throw
<1>2. CASE AppendDone(o)
  BY <1>0, <1>2 DEF AppendDone
<1>3. CASE SaveDone(o) \/ SaveFails(o) \/ Reject(o)
  BY <1>0, <1>3 DEF SaveDone, SaveFails, Reject, Return, Throw, results
<1>4. CASE StartTask(o) \/ CountListed(o) \/ CountSkipped(o) \/ Begin(o) \/ Omit(o)
  BY <1>0, <1>4 DEF StartTask, CountListed, CountSkipped, Begin, Omit, Return, Throw, results
<1>5. CASE PassGate(o) \/ GateRejects(o) \/ GetObject(o) \/ GetSucceeds(o) \/ GetFails(o)
            \/ StartAppend(o) \/ AppendFails(o)
  BY <1>0, <1>5 DEF PassGate, GateRejects, GetObject, GetSucceeds, GetFails, StartAppend,
                    AppendFails, Throw, results
<1> QED BY <1>1, <1>2, <1>3, <1>4, <1>5 DEF Step, External

LEMMA TaskKeepsKnown ==
  ASSUME RunInv, KnownInv, NEW o \in Objects, Step(o) \/ External(o), UNCHANGED setup
  PROVE  KnownInv'
<1>0. /\ \A x \in Objects : x # o => pc'[x] = pc[x]
      /\ o \in Objects \cup {Manifest} /\ Key[o] \in {Key[x] : x \in Objects}
      /\ Checkpointing' = Checkpointing
  BY AroundTheRecord DEF Checkpointing
<1>1. CASE /\ pc[o] = "writing" /\ pc'[o] = "record"
           /\ entries' = Append(entries, o) /\ completedKeys' = completedKeys
  <2>1. /\ entries' \in Seq(Objects \cup {Manifest}) /\ Len(entries) \in Nat
        /\ Len(entries') = Len(entries) + 1 /\ entries'[Len(entries) + 1] = o
        /\ \A i \in 1..Len(entries) : entries'[i] = entries[i] /\ entries[i] # o
    BY <1>0, <1>1, ObjectsNotManifest DEF KnownInv
  <2>2. ASSUME NEW i \in 1..Len(entries'), entries'[i] # Manifest
        PROVE  /\ pc'[entries'[i]] \in {"record", "saving", "failing", "ended"}
               /\ Checkpointing => pc'[entries'[i]] = "record" \/ Found(Key[entries'[i]])
    <3>1. CASE i = Len(entries) + 1
      BY <1>1, <2>1, <3>1
    <3>2. CASE i # Len(entries) + 1
      <4>1. i \in 1..Len(entries)
        BY <2>1, <3>2
      <4>2. entries'[i] = entries[i] /\ entries[i] \in Objects \ {o}
        BY <2>1, <2>2, <4>1 DEF KnownInv
      <4> QED BY <1>0, <2>2, <4>1, <4>2 DEF KnownInv
    <3> QED BY <3>1, <3>2
  <2> QED BY <1>0, <1>1, <2>1, <2>2 DEF KnownInv, Found
<1>2. CASE /\ pc[o] = "record" /\ pc'[o] \in {"saving", "failing", "ended"}
           /\ entries' = entries
           /\ \/ completedKeys' = Append(completedKeys, Key[o])
              \/ ~ Checkpointing /\ completedKeys' = completedKeys
  <2>1. /\ completedKeys' \in Seq({Key[x] : x \in Objects})
        /\ \A key : Found(key) => Found(key)'
        /\ Checkpointing => Found(Key[o])'
    <3>1. CASE completedKeys' = Append(completedKeys, Key[o])
      <4>1. /\ completedKeys' \in Seq({Key[x] : x \in Objects}) /\ Len(completedKeys) \in Nat
            /\ Len(completedKeys') = Len(completedKeys) + 1
            /\ completedKeys'[Len(completedKeys) + 1] = Key[o]
            /\ \A i \in 1..Len(completedKeys) : completedKeys'[i] = completedKeys[i]
        BY <1>0, <3>1 DEF KnownInv
      <4> QED BY <4>1 DEF Found
    <3>2. CASE ~ Checkpointing /\ completedKeys' = completedKeys
      BY <3>2 DEF KnownInv, Found
    <3> QED BY <1>2, <3>1, <3>2
  <2>2. ASSUME NEW i \in 1..Len(entries), entries[i] # Manifest
        PROVE  /\ pc'[entries[i]] \in {"record", "saving", "failing", "ended"}
               /\ Checkpointing => pc'[entries[i]] = "record" \/ Found(Key[entries[i]])'
    <3>1. entries[i] \in Objects
      BY <2>2 DEF KnownInv
    <3> QED BY <1>0, <1>2, <2>1, <2>2, <3>1 DEF KnownInv
  <2> QED BY <1>0, <1>2, <2>1, <2>2 DEF KnownInv
<1>3. CASE /\ pc[o] \notin {"none", "record", "ended"}
           /\ pc[o] \in {"saving", "failing"} => pc'[o] \in {"failing", "ended"}
           /\ entries' = entries /\ completedKeys' = completedKeys
  <2>1. ASSUME NEW i \in 1..Len(entries), entries[i] # Manifest
        PROVE  /\ pc'[entries[i]] \in {"record", "saving", "failing", "ended"}
               /\ Checkpointing => pc'[entries[i]] = "record" \/ Found(Key[entries[i]])'
    <3>1. entries[i] \in Objects
      BY <2>1 DEF KnownInv
    <3> QED BY <1>0, <1>3, <2>1, <3>1 DEF KnownInv, Found
  <2> QED BY <1>0, <1>3, <2>1 DEF KnownInv
<1> QED BY <1>1, <1>2, <1>3, AroundTheRecord

LEMMA KnownStep ==
  ASSUME RunInv, KnownInv, Next, UNCHANGED setup
  PROVE  KnownInv'
<1>1. CASE UNCHANGED <<pc, entries, completedKeys>>
  BY <1>1 DEF KnownInv, Found, Checkpointing
<1>2. CASE ListingEnds \/ DestinationFails \/ Abort \/ IterationRejected \/ IterationResolved
            \/ PipelineSettles
  BY <1>1, <1>2 DEF ListingEnds, DestinationFails, Abort, IterationRejected, IterationResolved,
                    PipelineSettles, results
<1>3. CASE Pull
  <2> DEFINE o == listed + 1
  <2>1. o \in Objects /\ pc[o] = "none"
    <3>1. listed \in 0..MaxObjects /\ listed < MaxObjects /\ MaxObjects \in Nat
      BY <1>3, PoolAssumption DEF Pull, PullItem, RunInv, PoolInv, PoolTypeOK
    <3>2. o \in Objects /\ o > listed
      BY <3>1 DEF Objects
    <3> QED BY <3>2 DEF RunInv, LinkInv
  <2> HIDE DEF o
  <2>2. /\ \A x \in Objects : x # o => pc'[x] = pc[x]
        /\ UNCHANGED <<entries, completedKeys>>
    BY <1>3, <2>1, PcType DEF Pull, RunInv, results, o
  <2>3. ASSUME NEW i \in 1..Len(entries), entries[i] # Manifest
        PROVE  pc'[entries[i]] = pc[entries[i]]
    <3>1. entries[i] \in Objects /\ pc[entries[i]] # "none"
      BY <2>3 DEF KnownInv
    <3> QED BY <2>1, <2>2, <3>1
  <2> QED BY <2>2, <2>3 DEF KnownInv, Found, Checkpointing
<1>4. CASE WriteManifest
  <2>1. CASE UNCHANGED entries
    BY <1>1, <1>4, <2>1 DEF WriteManifest
  <2>2. CASE entries' = Append(entries, Manifest)
    <3>1. /\ entries' \in Seq(Objects \cup {Manifest}) /\ Len(entries) \in Nat
          /\ Len(entries') = Len(entries) + 1 /\ entries'[Len(entries) + 1] = Manifest
          /\ \A i \in 1..Len(entries) : entries'[i] = entries[i]
      BY <2>2 DEF KnownInv
    <3>2. pc' = pc /\ completedKeys' = completedKeys
      BY <1>4 DEF WriteManifest
    <3>3. ASSUME NEW i \in 1..Len(entries'), entries'[i] # Manifest
          PROVE  i \in 1..Len(entries) /\ entries'[i] = entries[i]
      BY <3>1, <3>3
    <3> QED BY <3>1, <3>2, <3>3 DEF KnownInv, Found, Checkpointing
  <2> QED BY <1>4, <2>1, <2>2 DEF WriteManifest
<1> QED BY <1>2, <1>3, <1>4, TaskKeepsKnown DEF Next, Engine

(* With a checkpoint no key is archived again once the record section of   *)
(* its first entry is over, whatever fails in the run.                     *)
THEOREM RepeatsAreInFlight == Spec => RepeatsOnlyInFlight
<1> DEFINE Repeats == \A o \in Objects, i \in 1..Len(entries) :
                        /\ Checkpointing /\ entries[i] # Manifest
                        /\ pc[o] = "listed" /\ pc'[o] = "begin" /\ Key[entries[i]] = Key[o]
                        => pc[entries[i]] = "record"
<1>1. Init => KnownInv
  BY DEF Init, KnownInv
<1>2. RunInv /\ KnownInv /\ [Next /\ UNCHANGED setup]_<<setup, vars>> => KnownInv'
  <2> SUFFICES ASSUME RunInv, KnownInv, [Next /\ UNCHANGED setup]_<<setup, vars>> PROVE KnownInv'
    OBVIOUS
  <2>1. CASE UNCHANGED <<setup, vars>>
    BY <2>1 DEF vars, results, KnownInv, Found, Checkpointing
  <2> QED BY <2>1, KnownStep
<1>3. ASSUME RunInv, KnownInv, [Next /\ UNCHANGED setup]_<<setup, vars>>
      PROVE  [Repeats]_<<setup, vars>>
  <2> SUFFICES ASSUME NEW o \in Objects, NEW i \in 1..Len(entries), Next,
                      Checkpointing, entries[i] # Manifest,
                      pc[o] = "listed", pc'[o] = "begin", Key[entries[i]] = Key[o]
               PROVE  pc[entries[i]] = "record"
    BY <1>3
  <2>1. \A x \in Objects \ {o} : \A place : Goto(x, place) => pc'[o] = pc[o]
    BY <1>3 DEF Goto, RunInv, LockInv
  <2>2. ~ Pull
    BY <1>3, PoolAssumption DEF Pull, Goto, RunInv, LinkInv, LockInv, PoolInv, PoolTypeOK
  <2>3. ~ (ListingEnds \/ DestinationFails \/ Abort \/ Engine)
    BY DEF ListingEnds, DestinationFails, Abort, Engine, IterationRejected, IterationResolved,
           WriteManifest, PipelineSettles
  <2>4. PICK x \in Objects : Step(x) \/ External(x)
    BY <2>2, <2>3 DEF Next
  <2>5. x = o
    BY <1>3, <2>4, AroundTheRecord
  <2>6. CountListed(o)
    BY <1>3, <2>4, <2>5, PcType DEF RunInv, Step, External, StartTask, CountSkipped, Begin, PassGate,
       GateRejects, GetObject, StartAppend, Omit, Record, Reject, GetSucceeds, GetFails, AppendDone,
       AppendFails, SaveDone, SaveFails
  <2>7. ~ Found(Key[o])
    BY <1>3, <2>6, PcType DEF RunInv, CountListed, Throw, Found
  <2> QED BY <1>3, <2>7 DEF KnownInv
<1>4. Spec => [](RunInv /\ KnownInv)
  BY <1>1, <1>2, RunInvariance, PTL DEF Spec
<1>5. RunInv /\ KnownInv /\ [Next /\ UNCHANGED setup]_<<setup, vars>> => [Repeats]_<<setup, vars>>
  BY <1>3
<1> QED BY <1>4, <1>5, PTL DEF Spec, RepeatsOnlyInFlight

-----------------------------------------------------------------------------
(* The pool with objectPriority.  A recursive function of the heap stands  *)
(* for a loop: LoopDefined shows that a loop whose measure falls has a     *)
(* result, and what the result is follows by induction on that measure,    *)
(* with a set of numbers in the place of the predicate.                    *)

(* A set that holds every natural number whose predecessors it holds,     *)
(* holds them all.                                                         *)
LEMMA SetInduction ==
  ASSUME NEW T, \A n \in Nat : (\A m \in 0..n-1 : m \in T) => n \in T
  PROVE  Nat \subseteq T
<1> DEFINE D == Nat \ T
<1>1. SUFFICES ASSUME D # {} PROVE FALSE
  OBVIOUS
<1>2. PICK x \in D : \A y \in D : <<y, x>> \notin OpToRel(<,Nat)
  <2>1. D \subseteq Nat
    OBVIOUS
  <2> HIDE DEF D
  <2> QED BY ONLY <1>1, <2>1, NatLessThanWellFounded, WFMin
<1>0. OpToRel(<,Nat) = {ss \in Nat \X Nat : ss[1] < ss[2]}
  BY DEF OpToRel
<1>3. \A y \in D : ~(y < x)
  BY <1>2, <1>0
<1>4. x \in Nat /\ x \notin T
  BY <1>2
<1>5. \A m \in 0..x-1 : m \in Nat /\ m < x
  BY <1>4
<1>6. \A m \in 0..x-1 : m \in T
  BY <1>3, <1>5
<1> QED BY <1>4, <1>6

(* A loop: from x on to G[x], until Stop, where R is its result. *)
Loop(X, G, Stop, R, f) == f = [x \in X |-> IF x \in Stop THEN R[x] ELSE f[G[x]]]

(* A loop that comes nearer to its end with every round has a result. *)
LEMMA LoopDefined ==
  ASSUME NEW X, NEW m \in [X -> Nat], NEW Stop, NEW G, NEW R,
         \A x \in X \ Stop : G[x] \in X /\ m[G[x]] < m[x]
  PROVE  \E f : Loop(X, G, Stop, R, f)
<1> DEFINE Round(f, x) == IF x \in Stop THEN R[x] ELSE f[G[x]]
           UpTo(f, n) == \A x \in X : m[x] < n => f[x] = Round(f, x)
           T == {n \in Nat : \E f : UpTo(f, n)}
<1>1. ASSUME NEW n \in Nat, \A k \in 0..n-1 : k \in T PROVE n \in T
  <2>1. CASE n = 0
    <3>1. \A f : UpTo(f, 0)
      OBVIOUS
    <3> QED BY <2>1, <3>1
  <2>2. CASE n # 0
    <3>1. n - 1 \in T
      BY <1>1, <2>2
    <3>2. PICK g : UpTo(g, n - 1)
      BY <3>1
    <3> DEFINE h == [x \in X |-> Round(g, x)]
    <3>3. ASSUME NEW x \in X, m[x] < n, x \notin Stop PROVE h[x] = h[G[x]]
      <4>1. G[x] \in X /\ m[G[x]] < n - 1
        BY <3>3
      <4>2. g[G[x]] = Round(g, G[x])
        BY <3>2, <4>1
      <4> QED BY <3>3, <4>1, <4>2
    <3>4. \A x \in X : x \in Stop => h[x] = R[x]
      OBVIOUS
    <3> HIDE DEF h
    <3>5. UpTo(h, n)
      BY <3>3, <3>4
    <3> QED BY <3>5
  <2> QED BY <2>1, <2>2
<1>2. \A n \in Nat : \E f : UpTo(f, n)
  <2> HIDE DEF UpTo
  <2>1. \A n \in Nat : (\A k \in 0..n-1 : k \in T) => n \in T
    BY <1>1
  <2> HIDE DEF T
  <2>2. Nat \subseteq T
    BY ONLY <2>1, SetInduction
  <2> QED BY <2>2 DEF T
<1> DEFINE g(n) == CHOOSE f : UpTo(f, n)
<1>3. \A n \in Nat : UpTo(g(n), n)
  <2> HIDE DEF UpTo
  <2> QED BY <1>2
<1> DEFINE Same(n) == \A i, j \in Nat : \A x \in X : m[x] = n /\ n < i /\ n < j => g(i)[x] = g(j)[x]
           S == {n \in Nat : Same(n)}
<1> HIDE DEF g
<1>4. ASSUME NEW n \in Nat, \A k \in 0..n-1 : k \in S PROVE n \in S
  <2> SUFFICES ASSUME NEW i \in Nat, NEW j \in Nat, NEW x \in X, m[x] = n, n < i, n < j
               PROVE  g(i)[x] = g(j)[x]
    OBVIOUS
  <2>1. g(i)[x] = Round(g(i), x) /\ g(j)[x] = Round(g(j), x)
    BY <1>3
  <2>2. CASE x \in Stop
    BY <2>1, <2>2
  <2>3. CASE x \notin Stop
    <3>1. G[x] \in X /\ m[G[x]] \in 0..n-1 /\ m[G[x]] < i /\ m[G[x]] < j
      BY <2>3
    <3>2. Same(m[G[x]])
      BY <1>4, <3>1
    <3> QED BY <2>1, <2>3, <3>1, <3>2
  <2> QED BY <2>2, <2>3
<1>5. \A n \in Nat : Same(n)
  <2> HIDE DEF Same
  <2>1. \A n \in Nat : (\A k \in 0..n-1 : k \in S) => n \in S
    BY <1>4
  <2> HIDE DEF S
  <2>2. Nat \subseteq S
    BY ONLY <2>1, SetInduction
  <2> QED BY <2>2 DEF S
<1> DEFINE f == [x \in X |-> g(m[x] + 1)[x]]
<1>6. ASSUME NEW x \in X PROVE f[x] = Round(f, x)
  <2>1. m[x] \in Nat /\ m[x] + 1 \in Nat /\ m[x] < m[x] + 1
    OBVIOUS
  <2>2. f[x] = Round(g(m[x] + 1), x)
    BY <1>3, <2>1
  <2>3. CASE x \in Stop
    BY <2>2, <2>3
  <2>4. CASE x \notin Stop
    <3>1. G[x] \in X /\ m[G[x]] \in Nat /\ m[G[x]] < m[x] + 1
      BY <2>4
    <3>2. f[G[x]] = g(m[G[x]] + 1)[G[x]]
      BY <3>1
    <3>3. g(m[G[x]] + 1)[G[x]] = g(m[x] + 1)[G[x]]
      BY <1>5, <3>1, <2>1
    <3> QED BY <2>2, <2>4, <3>2, <3>3
  <2> QED BY <2>3, <2>4
<1>7. f = [x \in X |-> f[x]]
  OBVIOUS
<1> HIDE DEF f
<1> QED BY <1>6, <1>7 DEF Loop

(* Swapping two entries. *)
LEMMA SwapType ==
  ASSUME NEW a \in Arrays, NEW i \in 1..Len(a), NEW k \in 1..Len(a)
  PROVE  /\ Swap(a, i, k) \in Arrays /\ Len(Swap(a, i, k)) = Len(a)
         /\ \A j \in 1..Len(a) :
              Swap(a, i, k)[j] = IF j = i THEN a[k] ELSE IF j = k THEN a[i] ELSE a[j]
  BY DEF Swap, Arrays

(* The loops of the heap do what their bodies say. *)
UpEnds == {x \in Positions : x[2] = 1 \/ ~ Better(x[1][x[2]], x[1][x[2] \div 2])}

LEMMA SiftUpValue ==
  ASSUME NEW a \in Arrays, NEW i \in 1..Len(a)
  PROVE  SiftUp[<<a, i>>] =
           IF i = 1 \/ ~ Better(a[i], a[i \div 2]) THEN a
           ELSE SiftUp[<<Swap(a, i, i \div 2), i \div 2>>]
<1> DEFINE m == [x \in Positions |-> x[2]]
           R == [x \in Positions |-> x[1]]
           G == [x \in Positions |-> <<Swap(x[1], x[2], x[2] \div 2), x[2] \div 2>>]
           Body(f, x) == IF x[2] = 1 \/ ~ Better(x[1][x[2]], x[1][x[2] \div 2]) THEN x[1]
                         ELSE f[<<Swap(x[1], x[2], x[2] \div 2), x[2] \div 2>>]
<1>1. m \in [Positions -> Nat]
  BY DEF Positions
<1>2. ASSUME NEW x \in Positions \ UpEnds PROVE G[x] \in Positions /\ m[G[x]] < m[x]
  <2>1. x[1] \in Arrays /\ x[2] \in 1..Len(x[1]) /\ x[2] # 1 /\ Len(x[1]) \in Nat
    BY DEF Positions, UpEnds, Arrays
  <2>2. x[2] \div 2 \in 1..Len(x[1]) /\ x[2] \div 2 < x[2]
    BY <2>1
  <2>3. Swap(x[1], x[2], x[2] \div 2) \in Arrays
        /\ Len(Swap(x[1], x[2], x[2] \div 2)) = Len(x[1])
    <3> DEFINE p == x[2] \div 2
    <3>1. p \in 1..Len(x[1])
      BY <2>2
    <3> HIDE DEF p
    <3>2. Swap(x[1], x[2], p) \in Arrays /\ Len(Swap(x[1], x[2], p)) = Len(x[1])
      BY <2>1, <3>1, SwapType
    <3> QED BY <3>2 DEF p
  <2>4. G[x] \in Positions
    BY <2>1, <2>2, <2>3 DEF Positions
  <2> QED BY <2>2, <2>4
<1>3. \E f : Loop(Positions, G, UpEnds, R, f)
  <2> HIDE DEF m, R, G
  <2> QED BY ONLY <1>1, <1>2, LoopDefined
<1>4. ASSUME NEW f, Loop(Positions, G, UpEnds, R, f)
      PROVE  f = [x \in Positions |-> Body(f, x)]
  <2>1. ASSUME NEW x \in Positions
        PROVE  (IF x \in UpEnds THEN R[x] ELSE f[G[x]]) = Body(f, x)
    BY DEF UpEnds
  <2> QED BY <1>4, <2>1 DEF Loop
<1>5. SiftUp = CHOOSE f : f = [x \in Positions |-> Body(f, x)]
  BY DEF SiftUp
<1>6. SiftUp = [x \in Positions |-> Body(SiftUp, x)]
  <2> HIDE DEF Body
  <2> QED BY <1>3, <1>4, <1>5
<1>7. <<a, i>> \in Positions
  BY DEF Positions, Arrays
<1> QED BY <1>6, <1>7

LEMMA BestOfChild ==
  ASSUME NEW a \in Arrays, NEW i \in 1..Len(a)
  PROVE  /\ BestOf(a, i) \in {i, 2 * i, 2 * i + 1} /\ BestOf(a, i) \in 1..Len(a)
         /\ BestOf(a, i) # i => BestOf(a, i) > i
BY DEF BestOf, Arrays

DownEnds == {x \in Positions : BestOf(x[1], x[2]) = x[2]}

LEMMA SiftDownValue ==
  ASSUME NEW a \in Arrays, NEW i \in 1..Len(a)
  PROVE  SiftDown[<<a, i>>] =
           IF BestOf(a, i) = i THEN a
           ELSE SiftDown[<<Swap(a, i, BestOf(a, i)), BestOf(a, i)>>]
<1> DEFINE m == [x \in Positions |-> Len(x[1]) - x[2]]
           R == [x \in Positions |-> x[1]]
           G == [x \in Positions |-> <<Swap(x[1], x[2], BestOf(x[1], x[2])), BestOf(x[1], x[2])>>]
           Body(f, x) == IF BestOf(x[1], x[2]) = x[2] THEN x[1]
                         ELSE f[<<Swap(x[1], x[2], BestOf(x[1], x[2])), BestOf(x[1], x[2])>>]
<1>1. m \in [Positions -> Nat]
  BY DEF Positions, Arrays
<1>2. ASSUME NEW x \in Positions \ DownEnds PROVE G[x] \in Positions /\ m[G[x]] < m[x]
  <2> DEFINE s == Swap(x[1], x[2], BestOf(x[1], x[2]))
             b == BestOf(x[1], x[2])
  <2>1. x[1] \in Arrays /\ x[2] \in 1..Len(x[1]) /\ b # x[2] /\ Len(x[1]) \in Nat
    BY DEF Positions, DownEnds, Arrays
  <2>2. b \in 1..Len(x[1]) /\ b > x[2]
    BY <2>1, BestOfChild
  <2>3. s \in Arrays /\ Len(s) = Len(x[1])
    BY <2>1, <2>2, SwapType
  <2>0. G[x] = <<s, b>>
    OBVIOUS
  <2> HIDE DEF s, b, G
  <2>4. G[x] \in Positions
    BY <2>0, <2>1, <2>2, <2>3 DEF Positions
  <2> QED BY <2>0, <2>1, <2>2, <2>3, <2>4
<1>3. \E f : Loop(Positions, G, DownEnds, R, f)
  <2> HIDE DEF m, R, G
  <2> QED BY ONLY <1>1, <1>2, LoopDefined
<1>4. ASSUME NEW f, Loop(Positions, G, DownEnds, R, f)
      PROVE  f = [x \in Positions |-> Body(f, x)]
  <2>1. ASSUME NEW x \in Positions
        PROVE  (IF x \in DownEnds THEN R[x] ELSE f[G[x]]) = Body(f, x)
    BY DEF DownEnds
  <2> QED BY <1>4, <2>1 DEF Loop
<1>5. SiftDown = CHOOSE f : f = [x \in Positions |-> Body(f, x)]
  BY DEF SiftDown
<1>6. SiftDown = [x \in Positions |-> Body(SiftDown, x)]
  <2> HIDE DEF Body
  <2> QED BY <1>3, <1>4, <1>5
<1>7. <<a, i>> \in Positions
  BY DEF Positions, Arrays
<1> QED BY <1>6, <1>7

(* No entry is better than its parent; entries differ in their seq. *)
Ordered(a) == \A k \in 2..Len(a) : ~ Better(a[k], a[k \div 2])
Distinct(a) == \A i, j \in 1..Len(a) : a[i].seq = a[j].seq => i = j
Contents(a) == {a[i] : i \in 1..Len(a)}
Rearranges(b, a) ==
  /\ b \in Arrays /\ Len(b) = Len(a)
  /\ Contents(b) = Contents(a)
  /\ Distinct(a) => Distinct(b)

LEMMA BetterOrders ==
  ASSUME NEW x \in HeapEntries, NEW y \in HeapEntries
  PROVE  /\ Better(x, y) => ~ Better(y, x)
         /\ x.seq # y.seq => Better(x, y) \/ Better(y, x)
         /\ \A z \in HeapEntries : ~ Better(x, y) /\ ~ Better(y, z) => ~ Better(x, z)
         /\ \A z \in HeapEntries : Better(x, y) /\ Better(y, z) => Better(x, z)
BY DEF Better, HeapEntries

LEMMA EntriesOf ==
  ASSUME NEW a \in Arrays
  PROVE  Len(a) \in Nat /\ \A i \in 1..Len(a) : a[i] \in HeapEntries
BY DEF Arrays

LEMMA SwapRearranges ==
  ASSUME NEW a \in Arrays, NEW i \in 1..Len(a), NEW k \in 1..Len(a)
  PROVE  Rearranges(Swap(a, i, k), a)
<1> DEFINE s == Swap(a, i, k)
<1>1. /\ s \in Arrays /\ Len(s) = Len(a)
      /\ \A j \in 1..Len(a) : s[j] = IF j = i THEN a[k] ELSE IF j = k THEN a[i] ELSE a[j]
  BY SwapType
<1> HIDE DEF s
<1>2. Contents(s) \subseteq Contents(a)
  BY <1>1 DEF Contents
<1>3. Contents(a) \subseteq Contents(s)
  <2> SUFFICES ASSUME NEW y \in Contents(a) PROVE y \in Contents(s)
    OBVIOUS
  <2>0. PICK j \in 1..Len(a) : y = a[j]
    BY DEF Contents
  <2> DEFINE n == IF j = i THEN k ELSE IF j = k THEN i ELSE j
  <2>1. n \in 1..Len(s) /\ s[n] = a[j]
    BY <1>1
  <2> QED BY <2>0, <2>1 DEF Contents
<1>4. Distinct(a) => Distinct(s)
  BY <1>1 DEF Distinct
<1> QED BY <1>1, <1>2, <1>3, <1>4 DEF Rearranges, s

LEMMA RearrangesTwice ==
  ASSUME NEW a, NEW b, NEW c, Rearranges(b, a), Rearranges(c, b)
  PROVE  Rearranges(c, a)
BY DEF Rearranges

(* Only entry i may be better than its parent: siftUp restores the order. *)
UpOrdered(a, i) ==
  \A k \in 2..Len(a) :
    /\ k # i => ~ Better(a[k], a[k \div 2])
    /\ k \div 2 = i /\ i > 1 => ~ Better(a[k], a[i \div 2])

LEMMA SwapUp ==
  ASSUME NEW a \in Arrays, NEW i \in 2..Len(a), UpOrdered(a, i), Better(a[i], a[i \div 2])
  PROVE  UpOrdered(Swap(a, i, i \div 2), i \div 2)
<1> DEFINE p == i \div 2
           s == Swap(a, i, p)
<1>0. Len(a) \in Nat /\ i \in 1..Len(a) /\ p \in 1..Len(a) /\ p < i
  BY EntriesOf
<1>1. /\ Len(s) = Len(a)
      /\ \A j \in 1..Len(a) : s[j] = IF j = i THEN a[p] ELSE IF j = p THEN a[i] ELSE a[j]
  <2>1. i \in 1..Len(a) /\ p \in 1..Len(a)
    BY <1>0
  <2> HIDE DEF p
  <2>2. a \in Arrays
    OBVIOUS
  <2> QED BY ONLY <2>1, <2>2, SwapType
<1>2. \A j \in 1..Len(a) : a[j] \in HeapEntries
  BY EntriesOf
<1>3. ~ Better(a[p], a[i]) /\ Better(a[i], a[p])
  BY <1>0, <1>2, BetterOrders
<1> SUFFICES ASSUME NEW k \in 2..Len(a)
             PROVE  /\ k # p => ~ Better(s[k], s[k \div 2])
                    /\ k \div 2 = p /\ p > 1 => ~ Better(s[k], s[p \div 2])
  BY <1>1 DEF UpOrdered
<1>4. k \in 1..Len(a) /\ k \div 2 \in 1..Len(a) /\ k \div 2 < k
  BY <1>0
<1>5. /\ k # i => ~ Better(a[k], a[k \div 2])
      /\ k \div 2 = i => ~ Better(a[k], a[p])
      /\ p > 1 => ~ Better(a[p], a[p \div 2])
  BY <1>0 DEF UpOrdered
<1> HIDE DEF s
<1>6. k # p => ~ Better(s[k], s[k \div 2])
  <2>1. CASE k = i
    BY <2>1, <1>0, <1>1, <1>3
  <2>2. CASE k \div 2 = i
    BY <2>2, <1>0, <1>1, <1>4, <1>5
  <2>3. CASE k \div 2 = p /\ k # i
    <3>1. s[k] = a[k] /\ s[k \div 2] = a[i]
      BY <2>3, <1>0, <1>1, <1>4
    <3> QED BY <2>3, <3>1, <1>0, <1>2, <1>3, <1>4, <1>5, BetterOrders
  <2>4. CASE k # i /\ k \div 2 # i /\ k \div 2 # p
    BY <2>4, <1>1, <1>4, <1>5
  <2> QED BY <2>1, <2>2, <2>3, <2>4
<1>7. k \div 2 = p /\ p > 1 => ~ Better(s[k], s[p \div 2])
  <2> SUFFICES ASSUME k \div 2 = p, p > 1 PROVE ~ Better(s[k], s[p \div 2])
    OBVIOUS
  <2>1. p \div 2 \in 1..Len(a) /\ p \div 2 < p
    BY <1>0
  <2>2. s[p \div 2] = a[p \div 2]
    BY <1>0, <1>1, <2>1
  <2>3. CASE k = i
    BY <2>2, <2>3, <1>0, <1>1, <1>5
  <2>4. CASE k # i
    <3>1. s[k] = a[k]
      BY <2>4, <1>1, <1>4
    <3>2. ~ Better(a[k], a[p]) /\ ~ Better(a[p], a[p \div 2])
      BY <2>4, <1>5
    <3> QED BY <3>1, <3>2, <2>1, <2>2, <1>0, <1>2, <1>4, BetterOrders
  <2> QED BY <2>3, <2>4
<1> QED BY <1>6, <1>7

LEMMA SiftUpOrders ==
  ASSUME NEW a \in Arrays, NEW i \in 1..Len(a), UpOrdered(a, i)
  PROVE  Ordered(SiftUp[<<a, i>>]) /\ Rearranges(SiftUp[<<a, i>>], a)
<1> DEFINE Right(b, n) == Ordered(SiftUp[<<b, n>>]) /\ Rearranges(SiftUp[<<b, n>>], b)
           T == {n \in Nat : \A b \in Arrays : n \in 1..Len(b) /\ UpOrdered(b, n) => Right(b, n)}
<1>1. ASSUME NEW n \in Nat, \A k \in 0..n-1 : k \in T PROVE n \in T
  <2> SUFFICES ASSUME NEW b \in Arrays, n \in 1..Len(b), UpOrdered(b, n) PROVE Right(b, n)
    OBVIOUS
  <2>0. Len(b) \in Nat
    BY EntriesOf
  <2>1. CASE n = 1 \/ ~ Better(b[n], b[n \div 2])
    <3>1. SiftUp[<<b, n>>] = b
      BY <2>1, SiftUpValue
    <3>2. Ordered(b)
      BY <2>0, <2>1 DEF UpOrdered, Ordered
    <3> QED BY <3>1, <3>2 DEF Rearranges
  <2>2. CASE n # 1 /\ Better(b[n], b[n \div 2])
    <3> DEFINE p == n \div 2
               s == Swap(b, n, p)
    <3>1. n \in 2..Len(b) /\ p \in 0..n-1 /\ p \in 1..Len(b)
      BY <2>0, <2>2
    <3>2. SiftUp[<<b, n>>] = SiftUp[<<s, p>>]
      BY <2>2, SiftUpValue
    <3>3. UpOrdered(s, p)
      BY <2>2, <3>1, SwapUp
    <3>4. Rearranges(s, b)
      BY <3>1, SwapRearranges
    <3> HIDE DEF s, p
    <3>5. Right(s, p)
      BY <1>1, <3>1, <3>3, <3>4 DEF Rearranges
    <3> QED BY <3>2, <3>4, <3>5, RearrangesTwice
  <2> QED BY <2>1, <2>2
<1> HIDE DEF Right
<1>2. Nat \subseteq T
  <2>1. \A n \in Nat : (\A k \in 0..n-1 : k \in T) => n \in T
    BY <1>1
  <2> HIDE DEF T
  <2> QED BY ONLY <2>1, SetInduction
<1>3. Right(a, i)
  BY <1>2, EntriesOf
<1> QED BY <1>3 DEF Right

(* Only children of entry i may be better than it: siftDown restores. *)
DownOrdered(a, i) ==
  \A k \in 2..Len(a) :
    /\ k \div 2 # i => ~ Better(a[k], a[k \div 2])
    /\ k \div 2 = i /\ i > 1 => ~ Better(a[k], a[i \div 2])

LEMMA BestOfIsBest ==
  ASSUME NEW a \in Arrays, NEW i \in 1..Len(a), NEW k \in 2..Len(a), k \div 2 = i
  PROVE  /\ ~ Better(a[k], a[BestOf(a, i)])
         /\ BestOf(a, i) # i => Better(a[BestOf(a, i)], a[i])
<1> DEFINE l == 2 * i
           b == IF l <= Len(a) /\ Better(a[l], a[i]) THEN l ELSE i
           c == IF l + 1 <= Len(a) /\ Better(a[l + 1], a[b]) THEN l + 1 ELSE b
<1>1. Len(a) \in Nat /\ \A j \in 1..Len(a) : a[j] \in HeapEntries
  BY EntriesOf
<1>2. k = l \/ k = l + 1
  BY <1>1
<1>3. b \in 1..Len(a) /\ c \in 1..Len(a)
  BY <1>1
<1>4. b # i => Better(a[b], a[i])
  OBVIOUS
<1>5. c # b => Better(a[c], a[b])
  OBVIOUS
<1>6. ~ Better(a[b], a[c])
  <2>1. ~ Better(a[b], a[b])
    BY <1>1, <1>3, BetterOrders
  <2> QED BY <2>1, <1>1, <1>3, <1>5, BetterOrders
<1>7. c = l + 1 => (k = l + 1 => ~ Better(a[k], a[c]))
  BY <1>1, BetterOrders
<1>8. k = l + 1 => ~ Better(a[k], a[c])
  BY <1>1, <1>3, <1>7, BetterOrders
<1>9. k = l => ~ Better(a[k], a[b])
  BY <1>1, <1>3, BetterOrders
<1>10. k = l => ~ Better(a[k], a[c])
  BY <1>1, <1>2, <1>3, <1>6, <1>9, BetterOrders
<1>11. c # i => Better(a[c], a[i])
  <2>1. CASE c = b
    BY <2>1, <1>4
  <2>2. CASE c # b /\ b = i
    BY <2>2, <1>5
  <2>3. CASE c # b /\ b # i
    <3>1. Better(a[b], a[i]) /\ Better(a[c], a[b])
      BY <2>3, <1>4, <1>5
    <3>2. a[i] \in HeapEntries /\ a[b] \in HeapEntries /\ a[c] \in HeapEntries
      BY <1>1, <1>3
    <3> QED BY <3>1, <3>2, BetterOrders
  <2> QED BY <2>1, <2>2, <2>3
<1>12. BestOf(a, i) = c
  BY DEF BestOf
<1> QED BY <1>2, <1>8, <1>10, <1>11, <1>12

LEMMA SwapDown ==
  ASSUME NEW a \in Arrays, NEW i \in 1..Len(a), DownOrdered(a, i), BestOf(a, i) # i
  PROVE  DownOrdered(Swap(a, i, BestOf(a, i)), BestOf(a, i))
<1> DEFINE b == BestOf(a, i)
           s == Swap(a, i, b)
<1>0. /\ Len(a) \in Nat /\ b \in 2..Len(a) /\ b \in 1..Len(a) /\ b > i /\ b \div 2 = i
  <2>1. b \in {i, 2 * i, 2 * i + 1} /\ b \in 1..Len(a) /\ b # i /\ Len(a) \in Nat
    BY EntriesOf, BestOfChild
  <2> HIDE DEF b
  <2> QED BY <2>1
<1>1. /\ Len(s) = Len(a)
      /\ \A j \in 1..Len(a) : s[j] = IF j = i THEN a[b] ELSE IF j = b THEN a[i] ELSE a[j]
  <2>1. b \in 1..Len(a)
    BY <1>0
  <2> HIDE DEF b
  <2>2. a \in Arrays
    OBVIOUS
  <2> QED BY ONLY <2>1, <2>2, SwapType
<1>2. \A j \in 1..Len(a) : a[j] \in HeapEntries
  BY EntriesOf
<1>3. /\ Better(a[b], a[i]) /\ ~ Better(a[i], a[b])
      /\ \A k \in 2..Len(a) : k \div 2 = i => ~ Better(a[k], a[b])
  <2>1. Better(a[b], a[i]) /\ \A k \in 2..Len(a) : k \div 2 = i => ~ Better(a[k], a[b])
    BY <1>0, BestOfIsBest
  <2> HIDE DEF b
  <2> QED BY <2>1, <1>0, <1>2, BetterOrders
<1> SUFFICES ASSUME NEW k \in 2..Len(a)
             PROVE  /\ k \div 2 # b => ~ Better(s[k], s[k \div 2])
                    /\ k \div 2 = b => ~ Better(s[k], s[b \div 2])
  BY <1>1 DEF DownOrdered
<1> HIDE DEF s, b
<1>4. k \in 1..Len(a) /\ k \div 2 \in 1..Len(a) /\ k \div 2 < k
  BY <1>0
<1>5. /\ k \div 2 # i => ~ Better(a[k], a[k \div 2])
      /\ i > 1 => ~ Better(a[b], a[i \div 2])
  BY <1>0 DEF DownOrdered
<1>6. k \div 2 # b => ~ Better(s[k], s[k \div 2])
  <2> SUFFICES ASSUME k \div 2 # b PROVE ~ Better(s[k], s[k \div 2])
    OBVIOUS
  <2>1. CASE k = b
    BY <2>1, <1>0, <1>1, <1>3
  <2>2. CASE k \div 2 = i /\ k # b
    BY <2>2, <1>0, <1>1, <1>3, <1>4
  <2>3. CASE k = i
    BY <2>3, <1>0, <1>1, <1>4, <1>5
  <2>4. CASE k # b /\ k # i /\ k \div 2 # i
    BY <2>4, <1>1, <1>4, <1>5
  <2> QED BY <2>1, <2>2, <2>3, <2>4
<1>7. k \div 2 = b => ~ Better(s[k], s[b \div 2])
  BY <1>0, <1>1, <1>4, <1>5
<1> QED BY <1>6, <1>7

LEMMA SiftDownOrders ==
  ASSUME NEW a \in Arrays, NEW i \in 1..Len(a), DownOrdered(a, i)
  PROVE  Ordered(SiftDown[<<a, i>>]) /\ Rearranges(SiftDown[<<a, i>>], a)
<1> DEFINE Right(b, j) == Ordered(SiftDown[<<b, j>>]) /\ Rearranges(SiftDown[<<b, j>>], b)
           T == {n \in Nat : \A b \in Arrays : \A j \in 1..Len(b) :
                               Len(b) - j = n /\ DownOrdered(b, j) => Right(b, j)}
<1>1. ASSUME NEW n \in Nat, \A k \in 0..n-1 : k \in T PROVE n \in T
  <2> SUFFICES ASSUME NEW b \in Arrays, NEW j \in 1..Len(b), Len(b) - j = n, DownOrdered(b, j)
               PROVE  Right(b, j)
    OBVIOUS
  <2>0. Len(b) \in Nat
    BY EntriesOf
  <2>1. CASE BestOf(b, j) = j
    <3>1. SiftDown[<<b, j>>] = b
      BY <2>1, SiftDownValue
    <3>2. Ordered(b)
      <4> SUFFICES ASSUME NEW k \in 2..Len(b) PROVE ~ Better(b[k], b[k \div 2])
        BY DEF Ordered
      <4>1. CASE k \div 2 = j
        BY <4>1, <2>1, BestOfIsBest
      <4>2. CASE k \div 2 # j
        BY <4>2 DEF DownOrdered
      <4> QED BY <4>1, <4>2
    <3> QED BY <3>1, <3>2 DEF Rearranges
  <2>2. CASE BestOf(b, j) # j
    <3> DEFINE c == BestOf(b, j)
               s == Swap(b, j, c)
    <3>1. c \in 1..Len(b) /\ c > j
      BY <2>2, BestOfChild
    <3>2. SiftDown[<<b, j>>] = SiftDown[<<s, c>>]
      BY <2>2, SiftDownValue
    <3>3. DownOrdered(s, c)
      BY <2>2, SwapDown
    <3>4. Rearranges(s, b)
      BY <3>1, SwapRearranges
    <3> HIDE DEF s, c
    <3>5. s \in Arrays /\ Len(s) = Len(b)
      BY <3>4 DEF Rearranges
    <3>6. Len(s) - c \in 0..n-1
      BY <2>0, <3>1, <3>5
    <3>7. Right(s, c)
      BY <1>1, <3>1, <3>3, <3>5, <3>6
    <3> QED BY <3>2, <3>4, <3>7, RearrangesTwice
  <2> QED BY <2>1, <2>2
<1> HIDE DEF Right
<1>2. Nat \subseteq T
  <2>1. \A n \in Nat : (\A k \in 0..n-1 : k \in T) => n \in T
    BY <1>1
  <2> HIDE DEF T
  <2> QED BY ONLY <2>1, SetInduction
<1>3. Len(a) - i \in Nat
  BY EntriesOf
<1>4. Right(a, i)
  BY <1>2, <1>3
<1> QED BY <1>4 DEF Right

LEMMA RootIsBest ==
  ASSUME NEW a \in Arrays, Ordered(a)
  PROVE  \A i \in 1..Len(a) : ~ Better(a[i], a[1])
<1> DEFINE T == {n \in Nat : n \in 1..Len(a) => ~ Better(a[n], a[1])}
<1>1. ASSUME NEW n \in Nat, \A k \in 0..n-1 : k \in T PROVE n \in T
  <2> SUFFICES ASSUME n \in 1..Len(a) PROVE ~ Better(a[n], a[1])
    OBVIOUS
  <2>0. Len(a) \in Nat /\ \A i \in 1..Len(a) : a[i] \in HeapEntries
    BY EntriesOf
  <2>1. CASE n = 1
    BY <2>0, <2>1, BetterOrders
  <2>2. CASE n # 1
    <3>1. n \div 2 \in 0..n-1 /\ n \div 2 \in 1..Len(a) /\ n \in 2..Len(a) /\ 1 \in 1..Len(a)
      BY <2>0, <2>2
    <3>2. ~ Better(a[n \div 2], a[1]) /\ ~ Better(a[n], a[n \div 2])
      BY <3>1, <1>1 DEF Ordered
    <3> QED BY <2>0, <3>1, <3>2, BetterOrders
  <2> QED BY <2>1, <2>2
<1>2. Nat \subseteq T
  <2>1. \A n \in Nat : (\A k \in 0..n-1 : k \in T) => n \in T
    BY <1>1
  <2> HIDE DEF T
  <2> QED BY ONLY <2>1, SetInduction
<1>3. \A i \in 1..Len(a) : i \in Nat
  BY EntriesOf
<1> QED BY <1>2, <1>3

(* A heap: an ordered array of entries that differ in their seq. *)
IsHeap(a) == a \in Arrays /\ Ordered(a) /\ Distinct(a)

(* push keeps the heap and adds the entry, whatever the scores. *)
THEOREM PushAdds ==
  ASSUME NEW a, IsHeap(a), NEW e \in HeapEntries, \A x \in Contents(a) : x.seq # e.seq
  PROVE  /\ IsHeap(Push(a, e)) /\ Len(Push(a, e)) = Len(a) + 1
         /\ Contents(Push(a, e)) = Contents(a) \cup {e}
<1> DEFINE b == Append(a, e)
           n == Len(a) + 1
<1>0. a \in Arrays /\ Len(a) \in Nat
  BY EntriesOf DEF IsHeap
<1>1. /\ b \in Arrays /\ Len(b) = n /\ n \in 1..Len(b) /\ b[n] = e
      /\ \A i \in 1..Len(a) : b[i] = a[i]
  BY <1>0 DEF Arrays
<1> HIDE DEF b
<1>2. UpOrdered(b, n)
  <2> SUFFICES ASSUME NEW k \in 2..Len(b)
               PROVE  /\ k # n => ~ Better(b[k], b[k \div 2])
                      /\ k \div 2 = n /\ n > 1 => ~ Better(b[k], b[n \div 2])
    BY DEF UpOrdered
  <2>1. k # n => k \in 2..Len(a) /\ k \div 2 \in 1..Len(a) /\ k \in 1..Len(a)
    BY <1>0, <1>1
  <2>2. k \div 2 # n
    BY <1>0, <1>1
  <2> QED BY <1>1, <2>1, <2>2 DEF IsHeap, Ordered
<1>3. Distinct(b)
  <2> SUFFICES ASSUME NEW i \in 1..Len(b), NEW j \in 1..Len(b), b[i].seq = b[j].seq
               PROVE  i = j
    BY DEF Distinct
  <2>1. \A k \in 1..Len(b) : k = n \/ (k \in 1..Len(a) /\ b[k] = a[k] /\ b[k] \in Contents(a))
    BY <1>0, <1>1 DEF Contents
  <2> QED BY <1>1, <2>1 DEF IsHeap, Distinct
<1>4. Contents(b) = Contents(a) \cup {e}
  <2>1. \A k \in 1..Len(b) : k = n \/ (k \in 1..Len(a) /\ b[k] = a[k])
    BY <1>0, <1>1
  <2>2. \A k \in 1..Len(a) : k \in 1..Len(b)
    BY <1>0, <1>1
  <2> QED BY <1>1, <2>1, <2>2 DEF Contents
<1>5. Ordered(SiftUp[<<b, n>>]) /\ Rearranges(SiftUp[<<b, n>>], b)
  BY <1>1, <1>2, SiftUpOrders
<1>6. Push(a, e) = SiftUp[<<b, n>>]
  BY DEF Push, b
<1> QED BY <1>1, <1>3, <1>4, <1>5, <1>6 DEF Rearranges, IsHeap

(* pop keeps the heap and takes its root, the best entry there is. *)
THEOREM PopTakesBest ==
  ASSUME NEW a, IsHeap(a), a # <<>>
  PROVE  /\ IsHeap(Pop(a)) /\ Len(Pop(a)) = Len(a) - 1
         /\ a[1] \in Contents(a) /\ a[1] \in HeapEntries
         /\ Contents(Pop(a)) = Contents(a) \ {a[1]}
         /\ \A x \in Contents(Pop(a)) : Better(a[1], x)
<1>0. /\ a \in Arrays /\ Len(a) \in Nat /\ Len(a) >= 1 /\ Ordered(a) /\ Distinct(a)
      /\ \A i \in 1..Len(a) : a[i] \in HeapEntries
  BY EntriesOf DEF IsHeap, Arrays
<1>1. \A x \in Contents(a) \ {a[1]} : Better(a[1], x)
  <2> SUFFICES ASSUME NEW i \in 1..Len(a), i # 1 PROVE Better(a[1], a[i])
    BY DEF Contents
  <2>1. a[1].seq # a[i].seq
    BY <1>0 DEF Distinct
  <2>2. ~ Better(a[i], a[1])
    BY <1>0, RootIsBest
  <2> QED BY <1>0, <2>1, <2>2, BetterOrders
<1>2. a[1] \in Contents(a) /\ a[1] \in HeapEntries
  BY <1>0 DEF Contents
<1>3. CASE Len(a) = 1
  <2>1. Pop(a) = <<>>
    BY <1>3 DEF Pop
  <2>2. IsHeap(<<>>) /\ Len(<<>>) = 0 /\ Contents(<<>>) = {}
    BY DEF IsHeap, Arrays, Ordered, Distinct, Contents
  <2>3. Contents(a) = {a[1]}
    BY <1>3 DEF Contents
  <2> QED BY <1>2, <1>3, <2>1, <2>2, <2>3
<1>4. CASE Len(a) # 1
  <2> DEFINE n == Len(a) - 1
             b == [SubSeq(a, 1, n) EXCEPT ![1] = a[Len(a)]]
  <2>1. /\ b \in Arrays /\ Len(b) = n /\ n \in Nat /\ n >= 1
        /\ \A i \in 1..n : b[i] = IF i = 1 THEN a[Len(a)] ELSE a[i]
    <3> DEFINE c == SubSeq(a, 1, n)
    <3>0. Len(a) \in 1..Len(a)
      BY <1>0
    <3>1. n \in Nat /\ n >= 1 /\ n \in 0..Len(a) /\ a[Len(a)] \in HeapEntries
      <4>1. a[Len(a)] \in HeapEntries
        BY <1>0, <3>0
      <4>2. Len(a) \in Nat /\ Len(a) >= 1 /\ Len(a) # 1
        BY <1>0, <1>4
      <4>3. n \in Nat /\ n >= 1 /\ n \in 0..Len(a)
        <5>1. \A m \in Nat : m >= 1 /\ m # 1 => m - 1 \in Nat /\ m - 1 >= 1 /\ m - 1 \in 0..m
          OBVIOUS
        <5> QED BY <4>2, <5>1
      <4> QED BY <4>1, <4>3
    <3> HIDE DEF n
    <3>2. c \in Arrays /\ Len(c) = n /\ \A i \in 1..n : c[i] = a[i]
      <4>1. 1 \in 1..Len(a) + 1 /\ n \in (1 - 1)..Len(a) /\ a \in Seq(HeapEntries)
        BY <1>0, <3>1 DEF Arrays
      <4>2. /\ c \in Seq(HeapEntries) /\ Len(c) = (IF 1 <= n THEN n - 1 + 1 ELSE 0)
            /\ \A i \in 1..(n - 1 + 1) : c[i] = a[1 + i - 1]
        BY <4>1, SubSeqProperties
      <4> HIDE DEF c
      <4> QED BY <4>2, <3>1 DEF Arrays
    <3>3. b = [c EXCEPT ![1] = a[Len(a)]]
      OBVIOUS
    <3> HIDE DEF c, b
    <3>4. 1 \in 1..Len(c)
      BY <3>1, <3>2
    <3>5. b \in Seq(HeapEntries) /\ Len(b) = Len(c)
          /\ \A i \in 1..Len(c) : b[i] = IF i = 1 THEN a[Len(a)] ELSE c[i]
      BY <3>1, <3>2, <3>3, <3>4 DEF Arrays
    <3> QED BY <3>1, <3>2, <3>5 DEF Arrays
  <2>2. Pop(a) = SiftDown[<<b, 1>>]
    BY <1>4 DEF Pop
  <2> HIDE DEF b
  <2>3. DownOrdered(b, 1)
    <3> SUFFICES ASSUME NEW k \in 2..Len(b), k \div 2 # 1 PROVE ~ Better(b[k], b[k \div 2])
      BY DEF DownOrdered
    <3>1. k \in 2..Len(a) /\ k \div 2 \in 2..n /\ k \in 2..n
      BY <2>1
    <3>2. b[k] = a[k] /\ b[k \div 2] = a[k \div 2]
      BY <2>1, <3>1
    <3> QED BY <1>0, <3>1, <3>2 DEF Ordered
  <2>4. Distinct(b)
    <3> SUFFICES ASSUME NEW i \in 1..Len(b), NEW j \in 1..Len(b), b[i].seq = b[j].seq
                 PROVE  i = j
      BY DEF Distinct
    <3> DEFINE Source(k) == IF k = 1 THEN Len(a) ELSE k
    <3>1. \A k \in 1..Len(b) : Source(k) \in 1..Len(a) /\ b[k] = a[Source(k)]
      BY <1>0, <2>1
    <3>2. Source(i) = Source(j)
      BY <1>0, <3>1 DEF Distinct
    <3> QED BY <2>1, <3>2
  <2>5. Contents(b) = Contents(a) \ {a[1]}
    <3>1. ASSUME NEW x \in Contents(b) PROVE x \in Contents(a) \ {a[1]}
      <4>1. PICK k \in 1..Len(b) : x = b[k]
        BY <3>1 DEF Contents
      <4>2. PICK m \in 2..Len(a) : x = a[m]
        BY <4>1, <1>0, <2>1
      <4>3. m \in 1..Len(a) /\ 1 \in 1..Len(a) /\ m # 1
        BY <1>0
      <4>4. a[m] # a[1]
        BY <1>0, <4>3 DEF Distinct
      <4> QED BY <4>2, <4>3, <4>4 DEF Contents
    <3>2. ASSUME NEW x \in Contents(a), x # a[1] PROVE x \in Contents(b)
      <4>1. PICK m \in 1..Len(a) : x = a[m] /\ m # 1
        BY <3>2 DEF Contents
      <4>2. PICK k \in 1..Len(b) : x = b[k]
        <5>1. CASE m = Len(a)
          BY <4>1, <5>1, <2>1
        <5>2. CASE m # Len(a)
          BY <4>1, <5>2, <1>0, <2>1
        <5> QED BY <5>1, <5>2
      <4> QED BY <4>2 DEF Contents
    <3> QED BY <3>1, <3>2
  <2>6. 1 \in 1..Len(b)
    BY <2>1
  <2>7. Ordered(SiftDown[<<b, 1>>]) /\ Rearranges(SiftDown[<<b, 1>>], b)
    BY <2>1, <2>3, <2>6, SiftDownOrders
  <2> QED BY <1>1, <1>2, <2>1, <2>2, <2>4, <2>5, <2>7 DEF Rearranges, IsHeap
<1> QED BY <1>3, <1>4

(* The heaps a filling of the window goes through. *)
LEMMA PopsDefined ==
  ASSUME NEW h, NEW k \in Nat
  PROVE  /\ AfterPops(h, k)[0] = h
         /\ \A n \in 1..k : AfterPops(h, k)[n] = Pop(AfterPops(h, k)[n - 1])
<1> DEFINE Chain(f, n) == f[0] = h /\ \A j \in 1..n : f[j] = Pop(f[j - 1])
           Body(f, n) == IF n = 0 THEN h ELSE Pop(f[n - 1])
           T == {n \in Nat : \E f : Chain(f, n)}
<1>1. ASSUME NEW n \in Nat, \A m \in 0..n-1 : m \in T PROVE n \in T
  <2>1. CASE n = 0
    <3> DEFINE f == [j \in {0} |-> h]
    <3>1. Chain(f, 0)
      OBVIOUS
    <3> HIDE DEF f
    <3> QED BY <2>1, <3>1
  <2>2. CASE n # 0
    <3>1. PICK g : Chain(g, n - 1)
      BY <1>1, <2>2
    <3> DEFINE f == [j \in 0..n |-> IF j = n THEN Pop(g[n - 1]) ELSE g[j]]
    <3>2. f[0] = h
      BY <3>1, <2>2
    <3>3. ASSUME NEW j \in 1..n PROVE f[j] = Pop(f[j - 1])
      <4>1. j - 1 \in 0..n-1 /\ f[j - 1] = g[j - 1]
        OBVIOUS
      <4>2. CASE j = n
        BY <4>1, <4>2
      <4>3. CASE j # n
        <5>1. j \in 1..n-1 /\ f[j] = g[j]
          BY <4>3
        <5>2. g[j] = Pop(g[j - 1])
          BY <3>1, <5>1
        <5> QED BY <4>1, <5>1, <5>2
      <4> QED BY <4>2, <4>3
    <3> HIDE DEF f
    <3>4. Chain(f, n)
      BY <3>2, <3>3
    <3> QED BY <3>4
  <2> QED BY <2>1, <2>2
<1>2. PICK g : Chain(g, k)
  <2> HIDE DEF Chain
  <2>1. \A n \in Nat : (\A m \in 0..n-1 : m \in T) => n \in T
    BY <1>1
  <2> HIDE DEF T
  <2>2. Nat \subseteq T
    BY ONLY <2>1, SetInduction
  <2> QED BY <2>2 DEF T
<1>3. \E f : f = [n \in 0..k |-> Body(f, n)]
  <2> DEFINE f == [n \in 0..k |-> g[n]]
  <2>1. ASSUME NEW n \in 0..k PROVE g[n] = Body(f, n)
    <3>1. CASE n = 0
      BY <3>1, <1>2
    <3>2. CASE n # 0
      <4>1. n \in 1..k /\ n - 1 \in 0..k
        BY <3>2
      <4>2. f[n - 1] = g[n - 1] /\ g[n] = Pop(g[n - 1])
        BY <4>1, <1>2
      <4> QED BY <3>2, <4>2
    <3> QED BY <3>1, <3>2
  <2>2. f = [n \in 0..k |-> Body(f, n)]
    BY <2>1
  <2> QED BY <2>2
<1>4. AfterPops(h, k) = CHOOSE f : f = [n \in 0..k |-> Body(f, n)]
  BY DEF AfterPops
<1>5. AfterPops(h, k) = [n \in 0..k |-> Body(AfterPops(h, k), n)]
  <2> HIDE DEF Body
  <2> QED BY <1>3, <1>4
<1> DEFINE p == AfterPops(h, k)
<1> HIDE DEF p
<1>6. p = [n \in 0..k |-> Body(p, n)]
  BY <1>5 DEF p
<1>7. p[0] = h
  BY <1>6
<1>8. \A n \in 1..k : p[n] = Pop(p[n - 1])
  BY <1>6
<1> QED BY <1>7, <1>8 DEF p

(* What k pops take out of a heap, and what they leave. *)
Items(a) == {x.item : x \in Contents(a)}
Taken(p, n) == {p[j - 1][1].item : j \in 1..n}

Filled(h, window, p, n) ==
  /\ IsHeap(p[n]) /\ Len(p[n]) = Len(h) - n
  /\ \A x \in Contents(p[n]) : x \in Contents(h) /\ x.item \notin window \cup Taken(p, n)
  /\ \A x \in Contents(h) : x \in Contents(p[n]) \/ x.item \in Taken(p, n)
  /\ \A o \in Taken(p, n) : \E y \in Contents(h) :
       y.item = o /\ \A x \in Contents(p[n]) : Better(y, x)
  /\ IsFiniteSet(window \cup Taken(p, n))
  /\ Cardinality(window \cup Taken(p, n)) = Cardinality(window) + n

LEMMA PopFills ==
  ASSUME NEW h, NEW window, NEW p, NEW n \in Nat, n < Len(h), Len(h) \in Nat,
         \A x \in Contents(h) : x.item = x.seq,
         Cardinality(window) \in Nat,
         Filled(h, window, p, n), p[n + 1] = Pop(p[n])
  PROVE  Filled(h, window, p, n + 1)
<1> DEFINE a == p[n]  b == p[n + 1]  r == a[1]
           S == Taken(p, n)
<1>0. Taken(p, n + 1) = S \cup {r.item}
  <2>1. \A j \in 1..n + 1 : j \in 1..n \/ j = n + 1
    OBVIOUS
  <2>2. n + 1 \in 1..n + 1 /\ (n + 1) - 1 = n /\ \A j \in 1..n : j \in 1..n + 1
    OBVIOUS
  <2> QED BY <2>1, <2>2 DEF Taken
<1>1. /\ IsHeap(a) /\ Len(a) = Len(h) - n
      /\ \A x \in Contents(a) : x \in Contents(h) /\ x.item \notin window \cup S
      /\ \A x \in Contents(h) : x \in Contents(a) \/ x.item \in S
      /\ \A o \in S : \E y \in Contents(h) : y.item = o /\ \A x \in Contents(a) : Better(y, x)
      /\ IsFiniteSet(window \cup S)
      /\ Cardinality(window \cup S) = Cardinality(window) + n
  BY DEF Filled
<1>2. b = Pop(a) /\ a # <<>>
  BY <1>1
<1> HIDE DEF a, b, S
<1>3. /\ IsHeap(b) /\ Len(b) = Len(a) - 1
      /\ r \in Contents(a)
      /\ Contents(b) = Contents(a) \ {r}
      /\ \A x \in Contents(b) : Better(r, x)
  BY <1>1, <1>2, PopTakesBest
<1>4. \A x \in Contents(b) : x.item # r.item
  <2> SUFFICES ASSUME NEW x \in Contents(b), x.item = r.item PROVE FALSE
    OBVIOUS
  <2>1. x \in Contents(a) /\ x # r /\ x.seq = r.seq
    BY <1>1, <1>3
  <2> HIDE DEF r
  <2>2. PICK i \in 1..Len(a), j \in 1..Len(a) : x = a[i] /\ r = a[j]
    BY <1>3, <2>1 DEF Contents
  <2>3. i = j
    BY <1>1, <2>1, <2>2 DEF IsHeap, Distinct
  <2> QED BY <2>1, <2>2, <2>3
<1> HIDE DEF r
<1>5. Len(b) = Len(h) - (n + 1)
  BY <1>1, <1>3
<1>6. \A x \in Contents(b) : x \in Contents(h) /\ x.item \notin window \cup (S \cup {r.item})
  BY <1>1, <1>3, <1>4
<1>7. \A x \in Contents(h) : x \in Contents(b) \/ x.item \in S \cup {r.item}
  BY <1>1, <1>3
<1>8. \A o \in S \cup {r.item} : \E y \in Contents(h) :
        y.item = o /\ \A x \in Contents(b) : Better(y, x)
  BY <1>1, <1>3
<1>9. r.item \notin window \cup S
  BY <1>1, <1>3
<1> DEFINE W == window \cup S
<1>10. /\ IsFiniteSet(W \cup {r.item})
       /\ Cardinality(W \cup {r.item}) = Cardinality(window) + (n + 1)
  <2>1. IsFiniteSet(W) /\ r.item \notin W /\ Cardinality(W) = Cardinality(window) + n
    BY <1>1, <1>9
  <2> HIDE DEF W
  <2>2. IsFiniteSet(W \cup {r.item}) /\ Cardinality(W \cup {r.item}) = Cardinality(W) + 1
    BY <2>1, FS_AddElement
  <2> QED BY <2>1, <2>2
<1>11. window \cup (S \cup {r.item}) = W \cup {r.item}
  OBVIOUS
<1> HIDE DEF W
<1> QED BY <1>0, <1>3, <1>5, <1>6, <1>7, <1>8, <1>10, <1>11 DEF Filled, b

LEMMA PopsFill ==
  ASSUME NEW h, IsHeap(h), NEW k \in 0..Len(h), NEW window, IsFiniteSet(window),
         \A x \in Contents(h) : x.item = x.seq /\ x.item \notin window
  PROVE  Filled(h, window, AfterPops(h, k), k)
<1> DEFINE p == AfterPops(h, k)
           T == {n \in Nat : n <= k => Filled(h, window, p, n)}
<1>0. Len(h) \in Nat /\ k \in Nat /\ k <= Len(h) /\ Cardinality(window) \in Nat
  BY EntriesOf, FS_CardinalityType DEF IsHeap
<1>1. p[0] = h /\ \A n \in 1..k : p[n] = Pop(p[n - 1])
  BY <1>0, PopsDefined
<1> HIDE DEF p
<1>2. Filled(h, window, p, 0)
  <2>1. Taken(p, 0) = {}
    BY DEF Taken
  <2>2. window \cup Taken(p, 0) = window
    BY <2>1
  <2>3. Len(h) = Len(h) - 0 /\ Cardinality(window) = Cardinality(window) + 0
    BY <1>0
  <2>4. p[0] = h
    BY <1>1
  <2> QED BY <2>1, <2>2, <2>3, <2>4 DEF Filled
<1>3. ASSUME NEW n \in Nat, \A m \in 0..n-1 : m \in T PROVE n \in T
  <2>1. CASE n = 0
    BY <1>2, <2>1
  <2>2. CASE n # 0 /\ n <= k
    <3>1. n - 1 \in Nat /\ n - 1 \in 0..n-1 /\ n - 1 <= k /\ n - 1 < Len(h) /\ n \in 1..k
          /\ (n - 1) + 1 = n
      BY <1>0, <2>2
    <3>2. Filled(h, window, p, n - 1)
      BY <1>3, <3>1
    <3>3. p[(n - 1) + 1] = Pop(p[n - 1])
      BY <1>1, <3>1
    <3>4. Filled(h, window, p, (n - 1) + 1)
      BY <1>0, <3>1, <3>2, <3>3, PopFills
    <3> QED BY <3>1, <3>4
  <2> QED BY <2>1, <2>2
<1>4. Nat \subseteq T
  <2>1. \A n \in Nat : (\A m \in 0..n-1 : m \in T) => n \in T
    BY <1>3
  <2> HIDE DEF T
  <2> QED BY ONLY <2>1, SetInduction
<1> QED BY <1>0, <1>4 DEF p

(* The books of a window w and a heap h, when n objects have been listed   *)
(* and out says how they settled: an object is in one place only, and none *)
(* that has not settled is lost.                                           *)
Books(h, w, n, out) ==
  /\ IsHeap(h)
  /\ w \subseteq 1..n /\ Cardinality(w) <= Concurrency
  /\ \A x \in Contents(h) : x.item \in 1..n /\ x = Entry(x.item) /\ x.item \notin w
  /\ \A o \in 1..n : out[o] = "none" => o \in w \cup Items(h)

PriorityTypes ==
  /\ listed \in Nat /\ listed <= MaxObjects
  /\ priority \in [Objects -> Scores \cup {Unscorable}]
  /\ outcome \in [Objects -> {"none", "ok", "failed"}]

(* A driver that resolves leaves nothing behind. *)
WaitsWell ==
  /\ driver = "race" =>
       /\ executing # {}
       /\ heap # <<>> => Cardinality(executing) = Concurrency
  /\ driver = "resolved" => executing = {} /\ heap = <<>>

PriorityInv == PriorityTypes /\ Books(heap, executing, listed, outcome) /\ WaitsWell

LEMMA WindowIsFinite ==
  ASSUME NEW n \in Nat, NEW w, w \subseteq 1..n
  PROVE  /\ IsFiniteSet(w) /\ Cardinality(w) \in Nat
         /\ Cardinality(w) = 0 <=> w = {}
         /\ \A o \in w : Cardinality(w \ {o}) = Cardinality(w) - 1
<1>1. IsFiniteSet(1..n)
  BY FS_Interval
<1>2. IsFiniteSet(w)
  BY <1>1, FS_Subset
<1> QED BY <1>2, FS_CardinalityType, FS_EmptySet, FS_RemoveElement

(* Filling the window keeps the books, and leaves objects behind only when *)
(* the window is full, and only worse ones.                                *)
LEMMA StartBestFills ==
  ASSUME NEW h, NEW w, NEW n \in Nat, NEW out, NEW done,
         Books(h, w, n, out), StartBest(h, w, done)
  PROVE  /\ Books(heap', executing', n, out)
         /\ heap' # <<>> => Cardinality(executing') = Concurrency
         /\ \A o \in executing' \ w : \A x \in Contents(heap') :
              \E y \in Contents(h) : y.item = o /\ Better(y, x)
         /\ driver' = IF executing' # {} THEN "race" ELSE IF done THEN "resolved" ELSE "fill"
<1> DEFINE c == Cardinality(w)
           k == Fewer(Len(h), Concurrency - c)
           p == AfterPops(h, k)
           S == Taken(p, k)
<1>0. /\ IsHeap(h) /\ Len(h) \in Nat /\ w \subseteq 1..n
      /\ IsFiniteSet(w) /\ c \in Nat /\ c <= Concurrency /\ Concurrency \in Nat
      /\ \A x \in Contents(h) : x.item \in 1..n /\ x = Entry(x.item) /\ x.item \notin w
      /\ \A o \in 1..n : out[o] = "none" => o \in w \cup Items(h)
  BY EntriesOf, WindowIsFinite, PoolAssumption DEF Books, IsHeap
<1>1. /\ heap' = p[k] /\ executing' = w \cup S
      /\ driver' = IF executing' # {} THEN "race" ELSE IF done THEN "resolved" ELSE "fill"
  BY DEF StartBest, Taken
<1> HIDE DEF c
<1>2. k \in 0..Len(h) /\ (k = Len(h) \/ k = Concurrency - c) /\ c + k <= Concurrency
  BY <1>0 DEF Fewer
<1>3. \A x \in Contents(h) : x.item = x.seq /\ x.item \notin w
  BY <1>0 DEF Entry
<1> HIDE DEF k
<1>4. Filled(h, w, p, k)
  BY <1>0, <1>2, <1>3, PopsFill
<1> HIDE DEF p, S
<1>5. /\ IsHeap(heap') /\ Len(heap') = Len(h) - k
      /\ \A x \in Contents(heap') : x \in Contents(h) /\ x.item \notin executing'
      /\ \A x \in Contents(h) : x \in Contents(heap') \/ x.item \in S
      /\ \A o \in S : \E y \in Contents(h) :
           y.item = o /\ \A x \in Contents(heap') : Better(y, x)
      /\ Cardinality(executing') = c + k
  BY <1>1, <1>4 DEF Filled, S, c
<1>6. heap' # <<>> => Cardinality(executing') = Concurrency
  <2> SUFFICES ASSUME heap' # <<>> PROVE c + k = Concurrency
    BY <1>5
  <2>1. heap' \in Seq(HeapEntries)
    BY <1>5 DEF IsHeap, Arrays
  <2>2. Len(heap') # 0
    BY <2>1
  <2> QED BY <2>2, <1>0, <1>2, <1>5
<1>7. executing' \subseteq 1..n
  BY <1>0, <1>1, <1>5
<1>8. Cardinality(executing') <= Concurrency
  BY <1>2, <1>5
<1>9. \A o \in 1..n : out[o] = "none" => o \in executing' \cup Items(heap')
  BY <1>0, <1>1, <1>5 DEF Items
<1>10. \A o \in executing' \ w : \A x \in Contents(heap') :
         \E y \in Contents(h) : y.item = o /\ Better(y, x)
  BY <1>1, <1>5
<1>11. Books(heap', executing', n, out)
  BY <1>0, <1>5, <1>7, <1>8, <1>9 DEF Books
<1> QED BY <1>1, <1>6, <1>10, <1>11

(* A step of the driver over a window w and a heap h. *)
LEMMA DriverStep ==
  ASSUME NEW h, NEW w, NEW done, StartBest(h, w, done) \/ Refill(h, w),
         PriorityTypes, PriorityTypes', priority' = priority,
         Books(h, w, listed', outcome')
  PROVE  /\ PriorityInv'
         /\ \A o \in executing' \ w : \A x \in Contents(heap') :
              \E y \in Contents(h) : y.item = o /\ Better(y, x)
<1>0. listed' \in Nat /\ Concurrency \in Nat /\ Concurrency # 0
  BY PoolAssumption DEF PriorityTypes
<1>1. Books(heap', executing', listed', outcome') => Books(heap, executing, listed, outcome)'
  BY DEF Books, Entry, Score
<1>2. CASE StartBest(h, w, done)
  <2>1. /\ Books(heap', executing', listed', outcome')
        /\ heap' # <<>> => Cardinality(executing') = Concurrency
        /\ \A o \in executing' \ w : \A x \in Contents(heap') :
             \E y \in Contents(h) : y.item = o /\ Better(y, x)
        /\ driver' = IF executing' # {} THEN "race" ELSE IF done THEN "resolved" ELSE "fill"
    BY <1>0, <1>2, StartBestFills
  <2>2. executing' = {} => heap' = <<>>
    BY <1>0, <2>1, FS_EmptySet
  <2>3. WaitsWell'
    BY <2>1, <2>2 DEF WaitsWell
  <2> QED BY <1>1, <2>1, <2>3 DEF PriorityInv
<1>3. CASE Refill(h, w)
  BY <1>1, <1>3 DEF Refill, PriorityInv, WaitsWell
<1> QED BY <1>2, <1>3

LEMMA PriorityInitInv == PriorityInit => PriorityInv
<1> SUFFICES ASSUME PriorityInit PROVE PriorityInv
  OBVIOUS
<1>1. PriorityTypes
  BY PoolAssumption DEF PriorityInit, PriorityTypes, Objects
<1>2. Contents(<<>>) = {} /\ IsHeap(<<>>)
  BY DEF IsHeap, Arrays, Ordered, Distinct, Contents
<1>3. Books(heap, executing, listed, outcome)
  BY <1>2, FS_EmptySet, PoolAssumption DEF PriorityInit, Books
<1>4. WaitsWell
  BY DEF PriorityInit, WaitsWell
<1> QED BY <1>1, <1>3, <1>4 DEF PriorityInv

(* What a step takes is better than everything it leaves behind. *)
TakesBest ==
  \A o \in executing' \ executing, left \in BufferedItems' :
    Score(o) > Score(left) \/ (Score(o) = Score(left) /\ o < left)

(* One step of the driver, from the books of what it has in hand. *)
LEMMA DriverTakesBest ==
  ASSUME NEW h, NEW w, NEW done, StartBest(h, w, done) \/ Refill(h, w),
         PriorityTypes, PriorityTypes', priority' = priority,
         Books(h, w, listed', outcome'), w \subseteq executing
  PROVE  PriorityInv' /\ TakesBest
<1>1. /\ PriorityInv'
      /\ \A o \in executing' \ w : \A x \in Contents(heap') :
           \E y \in Contents(h) : y.item = o /\ Better(y, x)
  BY DriverStep
<1>2. ASSUME NEW o \in executing' \ executing, NEW left \in BufferedItems'
      PROVE  Score(o) > Score(left) \/ (Score(o) = Score(left) /\ o < left)
  <2>1. PICK x \in Contents(heap') : x.item = left
    BY DEF BufferedItems, Buffered, Contents
  <2>2. PICK y \in Contents(h) : y.item = o /\ Better(y, x)
    BY <1>1, <1>2, <2>1
  <2>3. y = Entry(o)
    BY <2>2 DEF Books
  <2>4. x = Entry(left)
    BY <1>1, <2>1 DEF PriorityInv, Books, Entry, Score
  <2>5. Better(Entry(o), Entry(left))
    BY <2>2, <2>3, <2>4
  <2> QED BY <2>5 DEF Better, Entry
<1> QED BY <1>1, <1>2 DEF TakesBest

LEMMA PriorityStep ==
  ASSUME PriorityInv, [PriorityNext]_priorityVars
  PROVE  PriorityInv' /\ (TakesBest \/ UNCHANGED priorityVars)
<1>a. /\ PriorityTypes /\ Books(heap, executing, listed, outcome) /\ WaitsWell
      /\ listed \in Nat /\ Len(heap) \in Nat
  BY EntriesOf DEF PriorityInv, PriorityTypes, Books, IsHeap
<1>1. CASE ReadItem
  <2> DEFINE e == Entry(listed + 1)
             h == Push(heap, e)
  <2>1. /\ listed' = listed + 1 /\ listed + 1 \in Objects
        /\ UNCHANGED <<priority, outcome>>
        /\ StartBest(h, executing, FALSE) \/ Refill(h, executing)
    <3>1. /\ listed' = listed + 1 /\ listed < MaxObjects
          /\ UNCHANGED <<priority, outcome>>
      BY <1>1 DEF ReadItem
    <3>2. StartBest(h, executing, FALSE) \/ Refill(h, executing)
      BY <1>1 DEF ReadItem
    <3>3. listed + 1 \in Objects
      BY <1>a, <3>1, PoolAssumption DEF Objects
    <3> QED BY <3>1, <3>2, <3>3
  <2>2. e \in HeapEntries /\ e.item = listed + 1 /\ e.seq = listed + 1
    <3>1. priority[listed + 1] \in Scores \cup {Unscorable}
      BY <1>a, <2>1 DEF PriorityTypes
    <3>2. Score(listed + 1) \in Nat
      BY <3>1, PriorityPoolAssumption DEF Score
    <3> QED BY <1>a, <3>2 DEF Entry, HeapEntries
  <2>3. \A x \in Contents(heap) : x.item \in 1..listed /\ x = Entry(x.item)
                                  /\ x.item \notin executing
    BY <1>a DEF Books
  <2>4. \A x \in Contents(heap) : x.seq # e.seq
    BY <2>2, <2>3, <1>a DEF Entry
  <2>5. IsHeap(h) /\ Contents(h) = Contents(heap) \cup {e}
    BY <1>a, <2>2, <2>4, PushAdds DEF Books
  <2>6. executing \subseteq 1..listed /\ Cardinality(executing) <= Concurrency
    BY <1>a DEF Books
  <2>7. \A o \in 1..listed + 1 : o = listed + 1 \/ o \in 1..listed
    BY <1>a
  <2>8. \A x \in Contents(h) : x.item \in 1..listed + 1 /\ x = Entry(x.item)
                               /\ x.item \notin executing
    <3>1. listed + 1 \notin executing /\ listed + 1 \in 1..listed + 1
          /\ 1..listed \subseteq 1..listed + 1
      BY <1>a, <2>6
    <3> HIDE DEF h
    <3>2. \A x \in Contents(h) : x \in Contents(heap) \/ x = e
      BY <2>5
    <3> QED BY <2>2, <2>3, <3>1, <3>2
  <2>9. \A o \in 1..listed + 1 : outcome'[o] = "none" => o \in executing \cup Items(h)
    BY <1>a, <2>1, <2>2, <2>5, <2>7 DEF Books, Items
  <2>10. executing \subseteq 1..listed + 1
    BY <1>a, <2>6
  <2> HIDE DEF h
  <2>11. Books(h, executing, listed', outcome')
    BY <2>1, <2>5, <2>6, <2>8, <2>9, <2>10 DEF Books
  <2>12. PriorityTypes'
    BY <1>a, <2>1, PoolAssumption DEF PriorityTypes, Objects
  <2> QED BY <1>a, <2>1, <2>11, <2>12, DriverTakesBest
<1>2. CASE ReadEnd
  BY <1>2, <1>a, DriverTakesBest DEF ReadEnd, PriorityTypes
<1>3. CASE ReadFails \/ Signal
  <2>1. /\ UNCHANGED <<priority, listed, heap, executing, outcome>>
        /\ driver' = driver \/ driver' = "rejected"
    BY <1>3 DEF ReadFails, Signal
  <2>2. PriorityInv'
    BY <1>a, <2>1 DEF PriorityInv, PriorityTypes, WaitsWell, Books, Entry, Score
  <2> QED BY <2>1, <2>2 DEF TakesBest
<1>4. ASSUME NEW o \in Objects, Finish(o) PROVE PriorityInv' /\ TakesBest
  <2> DEFINE w == executing \ {o}
  <2>1. PICK result \in {"ok", "failed"} :
          /\ outcome' = [outcome EXCEPT ![o] = result]
          /\ \/ /\ driver' = "rejected" /\ executing' = w /\ UNCHANGED heap
             \/ StartBest(heap, w, exhausted) \/ Refill(heap, w)
             \/ /\ driver # "race" /\ executing' = w /\ UNCHANGED <<heap, driver>>
    BY <1>4 DEF Finish
  <2>2. o \in executing /\ UNCHANGED <<priority, listed>>
    BY <1>4 DEF Finish
  <2>3. PriorityTypes'
    BY <1>a, <2>1, <2>2 DEF PriorityTypes
  <2>4. Books(heap, w, listed', outcome')
    <3>1. w \subseteq 1..listed /\ Cardinality(w) <= Concurrency
      <4>1. executing \subseteq 1..listed /\ Cardinality(executing) <= Concurrency
        BY <1>a DEF Books
      <4>2. Cardinality(w) = Cardinality(executing) - 1 /\ Cardinality(executing) \in Nat
        BY <1>a, <2>2, <4>1, WindowIsFinite
      <4>3. w \subseteq 1..listed
        BY <4>1
      <4> HIDE DEF w
      <4>4. Concurrency \in Nat
        BY PoolAssumption
      <4> QED BY <4>1, <4>2, <4>3, <4>4
    <3>2. \A d \in 1..listed : outcome'[d] = "none" => d # o /\ outcome[d] = "none"
      BY <1>a, <2>1, PoolAssumption DEF PriorityTypes, Objects
    <3>3. \A d \in 1..listed : outcome'[d] = "none" => d \in w \cup Items(heap)
      BY <1>a, <3>2 DEF Books
    <3> QED BY <1>a, <2>2, <3>1, <3>3 DEF Books
  <2>5. ASSUME executing' = w, UNCHANGED heap,
               driver' = "rejected" \/ (driver' = driver /\ driver # "race")
        PROVE  PriorityInv' /\ TakesBest
    <3>1. Books(heap, executing, listed, outcome)'
      BY <2>2, <2>4, <2>5 DEF Books, Entry, Score
    <3>2. WaitsWell'
      BY <1>a, <2>5 DEF WaitsWell
    <3> QED BY <2>3, <2>5, <3>1, <3>2 DEF PriorityInv, TakesBest
  <2>6. CASE StartBest(heap, w, exhausted) \/ Refill(heap, w)
    BY <1>a, <2>2, <2>3, <2>4, <2>6, DriverTakesBest
  <2> QED BY <2>1, <2>5, <2>6
<1>5. CASE UNCHANGED priorityVars
  BY <1>a, <1>5
     DEF priorityVars, poolVars, PriorityInv, PriorityTypes, WaitsWell, Books, Entry, Score
<1> QED BY <1>1, <1>2, <1>3, <1>4, <1>5 DEF PriorityNext

(* For every priority, any buffer and any concurrency: the driver waits    *)
(* only when it must, and a pool that resolves has worked off every object.*)
THEOREM PriorityPoolIsBusy == PrioritySpec => []WaitsOnlyWhenBusy
<1>1. PriorityInv => WaitsOnlyWhenBusy
  BY DEF PriorityInv, WaitsWell, Books, Contents, Items, WaitsOnlyWhenBusy
<1>2. PriorityInv /\ [PriorityNext]_priorityVars => PriorityInv'
  BY PriorityStep
<1> QED BY <1>1, <1>2, PriorityInitInv, PTL DEF PrioritySpec

(* The array is a heap: a free slot takes the best object read ahead.      *)
THEOREM BestGoesFirst == PrioritySpec => BestFirst
<1>1. PriorityInv /\ [PriorityNext]_priorityVars => PriorityInv'
  BY PriorityStep
<1>2. PriorityInv /\ [PriorityNext]_priorityVars =>
        [\A o \in executing' \ executing, left \in BufferedItems' :
           Score(o) > Score(left) \/ (Score(o) = Score(left) /\ o < left)]_priorityVars
  BY PriorityStep DEF TakesBest
<1> QED BY <1>1, <1>2, PriorityInitInv, PTL DEF PrioritySpec, BestFirst
=============================================================================
