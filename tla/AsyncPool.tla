------------------------------ MODULE AsyncPool ------------------------------
(***************************************************************************)
(* forEachAsyncIterablePool (src/src/async-iterable-pool.ts): the bounded  *)
(* window through which a ZIP run processes the listed objects.            *)
(*                                                                         *)
(* Objects are numbered in listing order.  The driver pulls the next one,  *)
(* starts a task for it, and, when the window is full, races the tasks in  *)
(* flight; at the end of the listing it waits for all of them.  A task's   *)
(* promise p has two followers: p.finally, which takes p out of the window *)
(* and whose own promise nobody keeps, and the race or the Promise.all the *)
(* driver may be awaiting.  p-limit never queues here, since the window is *)
(* as wide as the limit: a task that is added runs.  The listing is any    *)
(* list of at most MaxObjects objects, and may fail at any point.          *)
(***************************************************************************)
EXTENDS Naturals, FiniteSets

CONSTANTS
  Concurrency,  \* width of the window
  MaxObjects    \* bound: objects a listing yields

ASSUME PoolAssumption == Concurrency \in Nat \ {0} /\ MaxObjects \in Nat

VARIABLES
  listed,    \* objects pulled from the iterable so far
  driver,    \* what the pool function is awaiting, or how it ended
  executing, \* the window: tasks whose promise is pending
  outcome,   \* how each task's promise settled
  unhandled  \* tasks whose p.finally promise rejected with nobody listening

poolVars == <<listed, driver, executing, outcome, unhandled>>

Objects == 1..MaxObjects

PoolInit ==
  /\ listed = 0
  /\ driver = "pull"
  /\ executing = {}
  /\ outcome = [o \in Objects |-> "none"]
  /\ unhandled = {}

(* it.next() yields an object: its task starts; a full window is raced. *)
PullItem ==
  /\ driver = "pull"
  /\ listed < MaxObjects
  /\ listed' = listed + 1
  /\ executing' = executing \cup {listed + 1}
  /\ driver' = IF Cardinality(executing') >= Concurrency THEN "race" ELSE "pull"
  /\ UNCHANGED <<outcome, unhandled>>

(* The listing is exhausted: Promise.all over what is left. *)
PullEnd ==
  /\ driver = "pull"
  /\ driver' = IF executing = {} THEN "resolved" ELSE "join"
  /\ UNCHANGED <<listed, executing, outcome, unhandled>>

(* it.next() rejects: for await throws out of the pool; tasks go on alone. *)
PullFails ==
  /\ driver = "pull"
  /\ driver' = "rejected"
  /\ UNCHANGED <<listed, executing, outcome, unhandled>>

(***************************************************************************)
(* The task of o settles.  Its rejection reaches the caller only when the  *)
(* driver is awaiting the window at that moment; p.finally's own promise   *)
(* repeats a rejection in every case.                                      *)
(***************************************************************************)
SettleWith(o, result) ==
  /\ o \in executing
  /\ executing' = executing \ {o}
  /\ outcome' = [outcome EXCEPT ![o] = result]
  /\ unhandled' = IF result = "failed" THEN unhandled \cup {o} ELSE unhandled
  /\ driver' =
       CASE result = "failed" /\ driver \in {"race", "join"} -> "rejected"
         [] result = "ok" /\ driver = "race" -> "pull"
         [] result = "ok" /\ driver = "join" /\ executing' = {} -> "resolved"
         [] OTHER -> driver
  /\ UNCHANGED listed

Settle(o) == \E result \in {"ok", "failed"} : SettleWith(o, result)

PoolNext ==
  \/ PullItem
  \/ PullEnd
  \/ PullFails
  \/ \E o \in Objects : Settle(o)

PoolSpec == PoolInit /\ [][PoolNext]_poolVars

-----------------------------------------------------------------------------
Ended == {"resolved", "rejected"}

(* Type invariant. *)
PoolTypeOK ==
  /\ listed \in 0..MaxObjects
  /\ driver \in {"pull", "race", "join"} \cup Ended
  /\ executing \subseteq Objects
  /\ outcome \in [Objects -> {"none", "ok", "failed"}]
  /\ unhandled \subseteq Objects

(* The window holds exactly the listed objects that have not settled, and  *)
(* is never wider than the concurrency.                                    *)
WindowExact ==
  /\ executing = {o \in 1..listed : outcome[o] = "none"}
  /\ Cardinality(executing) <= Concurrency

(* The driver never awaits an empty window: Promise.race over an empty set *)
(* stays pending for ever.  Nor does it pull while the window is full.     *)
NeverStuckOnEmptyWindow ==
  /\ driver \in {"race", "join"} => executing # {}
  /\ driver = "pull" => Cardinality(executing) < Concurrency

(* The pool resolves only when every listed object has been worked off.    *)
ResolvesWhenAllDone ==
  driver = "resolved" => \A o \in 1..listed : outcome[o] # "none"

(* A pool that has returned starts nothing any more.                       *)
NoStartAfterEnd ==
  [][ (driver \in Ended) => executing' \subseteq executing /\ driver' = driver ]_poolVars

(* test/chaos-memory-storage-provider.ts: the rejection tracking is only   *)
(* confused, the behaviour is correct in production.  The promise made by  *)
(* p.finally rejects with no handler whenever a task fails.                *)
NoUnhandledRejection == unhandled = {}
=============================================================================
