----------------------------- MODULE PriorityPool -----------------------------
(***************************************************************************)
(* forEachAsyncIterablePriorityPool (src/src/async-iterable-pool.ts): the  *)
(* window used when objectPriority is given.  The driver reads ahead up to *)
(* BufferMax objects, hands the best-scoring ones to free slots, and then  *)
(* races the tasks in flight.  Objects are numbered in listing order;      *)
(* objectPriority is any function of them, Unscorable stands for a result  *)
(* that is not a finite number, and 0 for the score -Infinity.  The window *)
(* is kept like AsyncPool's, p.finally included, and the driver's state is *)
(* "fill" while it reads ahead.                                            *)
(***************************************************************************)
EXTENDS AsyncPool, ScoreHeap

CONSTANTS
  BufferMax,    \* max(1, bufferMax)
  Scores,       \* finite scores objectPriority returns
  Unscorable    \* NaN or an infinity

ASSUME PriorityPoolAssumption ==
  /\ BufferMax \in Nat \ {0}
  /\ Scores \subseteq Nat \ {0}

VARIABLES
  priority,   \* objectPriority, fixed for the run
  exhausted,  \* the iterator said done
  heap,       \* objects read ahead; listed is its seq counter
  signalled   \* options.signal

priorityVars == <<poolVars, priority, exhausted, heap, signalled>>

PriorityInit ==
  /\ priority \in [Objects -> Scores \cup {Unscorable}]
  /\ listed = 0
  /\ exhausted = FALSE
  /\ heap = <<>>
  /\ signalled \in BOOLEAN
  /\ driver = IF signalled THEN "rejected" ELSE "fill"
  /\ executing = {}
  /\ outcome = [o \in Objects |-> "none"]
  /\ unhandled = {}

Fewer(m, n) == IF m <= n THEN m ELSE n

(* The heap after its k best objects have been taken out. *)
AfterPops(h, k) ==
  LET f[n \in 0..k] == IF n = 0 THEN h ELSE Pop(f[n - 1]) IN f

(* Mutants: one slot is filled per round; an empty window is raced. *)
StartBestOnlyOne(h, window, done) ==
  LET k == IF Len(h) > 0 /\ Cardinality(window) < Concurrency THEN 1 ELSE 0
      pops == AfterPops(h, k)
  IN  /\ heap' = pops[k]
      /\ executing' = window \cup {pops[n - 1][1].item : n \in 1..k}
      /\ driver' = IF executing' # {} THEN "race"
                   ELSE IF done THEN "resolved" ELSE "fill"

StartBestRacesEmpty(h, window, done) ==
  LET k == Fewer(Len(h), Concurrency - Cardinality(window))
      pops == AfterPops(h, k)
  IN  /\ heap' = pops[k]
      /\ executing' = window \cup {pops[n - 1][1].item : n \in 1..k}
      /\ driver' = "race"

(***************************************************************************)
(* After the read-ahead: free slots take the best objects, and the driver  *)
(* returns, or awaits the window.                                          *)
(***************************************************************************)
StartBest(h, window, done) ==
  LET k == Fewer(Len(h), Concurrency - Cardinality(window))
      pops == AfterPops(h, k)
  IN  /\ heap' = pops[k]
      /\ executing' = window \cup {pops[n - 1][1].item : n \in 1..k}
      /\ driver' = IF executing' # {} THEN "race"
                   ELSE IF done THEN "resolved" ELSE "fill"

(* The loop is about to pull again: abort is noticed first. *)
Refill(h, window) ==
  /\ heap' = h
  /\ executing' = window
  /\ driver' = IF signalled THEN "rejected" ELSE "fill"

Score(o) == IF priority[o] = Unscorable THEN 0 ELSE priority[o]
Entry(o) == [item |-> o, score |-> Score(o), seq |-> o]

ReadItem ==
  /\ driver = "fill"
  /\ listed < MaxObjects
  /\ listed' = listed + 1
  /\ \E h \in {Push(heap, Entry(listed + 1))} :
         IF Len(h) < BufferMax THEN Refill(h, executing)
         ELSE StartBest(h, executing, FALSE)
  /\ UNCHANGED <<priority, exhausted, outcome, unhandled, signalled>>

ReadEnd ==
  /\ driver = "fill"
  /\ exhausted' = TRUE
  /\ StartBest(heap, executing, TRUE)
  /\ UNCHANGED <<priority, listed, outcome, unhandled, signalled>>

(* it.next() rejects. *)
ReadFails ==
  /\ driver = "fill"
  /\ driver' = "rejected"
  /\ UNCHANGED <<priority, listed, exhausted, heap, executing, outcome, unhandled, signalled>>

(* A task settles; the driver learns of it only while it races. *)
Finish(o) ==
  /\ o \in executing
  /\ \E result \in {"ok", "failed"} :
       /\ outcome' = [outcome EXCEPT ![o] = result]
       /\ unhandled' = IF result = "failed" THEN unhandled \cup {o} ELSE unhandled
       /\ \/ /\ driver = "race" /\ (result = "failed" \/ signalled)
             /\ driver' = "rejected"
             /\ executing' = executing \ {o}
             /\ UNCHANGED heap
          \/ /\ driver = "race" /\ result = "ok" /\ ~ signalled
             /\ IF exhausted \/ Len(heap) >= BufferMax
                THEN StartBest(heap, executing \ {o}, exhausted)
                ELSE Refill(heap, executing \ {o})
          \/ /\ driver # "race"
             /\ executing' = executing \ {o}
             /\ UNCHANGED <<heap, driver>>
  /\ UNCHANGED <<priority, listed, exhausted, signalled>>

Signal ==
  /\ ~ signalled
  /\ signalled' = TRUE
  /\ UNCHANGED <<priority, listed, exhausted, heap, driver, executing, outcome, unhandled>>

PriorityNext ==
  \/ ReadItem
  \/ ReadEnd
  \/ ReadFails
  \/ Signal
  \/ \E o \in Objects : Finish(o)

(* Listing requests return, and a task comes to an end. *)
PrioritySpec ==
  /\ PriorityInit
  /\ [][PriorityNext]_priorityVars
  /\ WF_priorityVars(ReadItem \/ ReadEnd \/ ReadFails)
  /\ \A o \in Objects : WF_priorityVars(Finish(o))

-----------------------------------------------------------------------------
Buffered == {heap[i] : i \in 1..Len(heap)}
BufferedItems == {e.item : e \in Buffered}

(* The driver never races an empty window, never waits for a task while an *)
(* object is buffered and a slot is free, and resolves only when every     *)
(* listed object has been worked off.                                      *)
WaitsOnlyWhenBusy ==
  /\ driver = "race" =>
       /\ executing # {}
       /\ heap # <<>> => Cardinality(executing) = Concurrency
  /\ driver = "resolved" => \A o \in 1..listed : outcome[o] # "none"

(* What a slot takes is better than everything left behind, and listing    *)
(* order decides between equal scores.                                     *)
BestFirst ==
  [][ \A o \in executing' \ executing, left \in BufferedItems' :
        Score(o) > Score(left) \/ (Score(o) = Score(left) /\ o < left) ]_priorityVars

(* The pool always returns. *)
PoolReturns == <>(driver \in Ended)
=============================================================================
