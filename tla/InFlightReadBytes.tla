-------------------------- MODULE InFlightReadBytes --------------------------
(***************************************************************************)
(* The byte budget of src/src/in-flight-read-bytes.ts, with the way        *)
(* processOne (archive-object-processor.ts) uses it: a worker reserves the *)
(* listed size of its object before GetObject and gives the grant back in  *)
(* a finally, when the body has been archived or the object has failed.    *)
(*                                                                         *)
(* Sizes are whole bytes (the code truncates them).  acquire up to its     *)
(* first await, and release with the wake-ups it makes, are synchronous:   *)
(* each is one action.  A woken waiter owns its bytes from the wake-up on. *)
(***************************************************************************)
EXTENDS Naturals, Sequences, FiniteSets, FiniteSetsExt

CONSTANTS
  Workers,     \* objects in flight at once (the pool's concurrency)
  Sizes,       \* listed object sizes
  MaxBytes,    \* maxInFlightReadBytes
  MaxArrivals  \* bound: objects started in a run

ASSUME BudgetAssumption ==
  /\ IsFiniteSet(Workers)
  /\ MaxBytes \in Nat \ {0}
  /\ Sizes \subseteq Nat
  /\ MaxArrivals \in Nat

VARIABLES
  used,     \* bytes reserved
  q,        \* workers blocked in acquire, oldest first
  phase,    \* what each worker is doing
  grant,    \* bytes each worker asked for and holds, or will hold
  arrivals  \* objects started so far (bounded by MaxArrivals)

vars == <<used, q, phase, grant, arrivals>>

(* readReservationBytes, then acquire's own clamp to the budget. *)
Reservation(size) ==
  IF size = 0 THEN 0 ELSE IF size <= MaxBytes THEN size ELSE MaxBytes

Init ==
  /\ used = 0
  /\ q = <<>>
  /\ phase = [w \in Workers |-> "idle"]
  /\ grant = [w \in Workers |-> 0]
  /\ arrivals = 0

(* Mutant: any room in the budget is enough. *)
AcquireAnyRoom(w, size) ==
  LET n == Reservation(size)
  IN  /\ phase[w] = "idle"
      /\ arrivals < MaxArrivals
      /\ arrivals' = arrivals + 1
      /\ grant' = [grant EXCEPT ![w] = n]
      /\ \/ /\ used < MaxBytes \/ n = 0
            /\ used' = used + n
            /\ phase' = [phase EXCEPT ![w] = "holding"]
            /\ UNCHANGED q
         \/ /\ used >= MaxBytes /\ n > 0
            /\ q' = Append(q, w)
            /\ phase' = [phase EXCEPT ![w] = "waiting"]
            /\ UNCHANGED used

(* An object starts: nothing to reserve, room in the budget, or wait. *)
Acquire(w, size) ==
  LET n == Reservation(size)
  IN  /\ phase[w] = "idle"
      /\ arrivals < MaxArrivals
      /\ arrivals' = arrivals + 1
      /\ grant' = [grant EXCEPT ![w] = n]
      /\ \/ /\ used + n <= MaxBytes
            /\ used' = used + n
            /\ phase' = [phase EXCEPT ![w] = "holding"]
            /\ UNCHANGED q
         \/ /\ used + n > MaxBytes
            /\ n > 0
            /\ q' = Append(q, w)
            /\ phase' = [phase EXCEPT ![w] = "waiting"]
            /\ UNCHANGED used

(* Bytes the first k waiters ask for. *)
Asked(k) == MapThenSumSet(LAMBDA i : grant[q[i]], 1..k)

(* Mutants of tryWake: the woken waiter is not charged; only the first is  *)
(* looked at; nobody is woken.                                             *)
TryWakeUncharged(base, ph) ==
  \E k \in 0..Len(q) :
    /\ base + Asked(k) <= MaxBytes
    /\ k < Len(q) => base + Asked(k + 1) > MaxBytes
    /\ used' = base
    /\ q' = SubSeq(q, k + 1, Len(q))
    /\ phase' = [w \in Workers |-> IF \E i \in 1..k : q[i] = w THEN "holding" ELSE ph[w]]

TryWakeOne(base, ph) ==
  IF q # <<>> /\ base + grant[Head(q)] <= MaxBytes
  THEN /\ used' = base + grant[Head(q)]
       /\ q' = Tail(q)
       /\ phase' = [ph EXCEPT ![Head(q)] = "holding"]
  ELSE used' = base /\ phase' = ph /\ UNCHANGED q

TryWakeNobody(base, ph) == used' = base /\ phase' = ph /\ UNCHANGED q

(***************************************************************************)
(* tryWake with `base` bytes in use: waiters are woken from the front as   *)
(* long as the next one fits.                                              *)
(***************************************************************************)
TryWake(base, ph) ==
  \E k \in 0..Len(q), total \in 0..MaxBytes :
    /\ total = base + Asked(k)
    /\ k < Len(q) => total + grant[q[k + 1]] > MaxBytes
    /\ used' = total
    /\ q' = SubSeq(q, k + 1, Len(q))
    /\ phase' = [w \in Workers |->
                   IF \E i \in 1..k : q[i] = w THEN "holding" ELSE ph[w]]

(* The object is done, one way or the other: release what it held. *)
Release(w) ==
  /\ phase[w] = "holding"
  /\ LET done == [phase EXCEPT ![w] = "idle"]
         left == IF grant[w] <= used THEN used - grant[w] ELSE 0
     IN  \/ /\ grant[w] > 0
            /\ TryWake(left, done)
         \/ /\ grant[w] = 0
            /\ phase' = done
            /\ UNCHANGED <<used, q>>
  /\ grant' = [grant EXCEPT ![w] = 0]
  /\ UNCHANGED arrivals

Next == \E w \in Workers : Release(w) \/ \E size \in Sizes : Acquire(w, size)

Spec == Init /\ [][Next]_vars

(* An object in flight ends: its download and its append settle. *)
FairSpec == Spec /\ \A w \in Workers : WF_vars(Release(w))

-----------------------------------------------------------------------------
Holding == {w \in Workers : phase[w] = "holding"}

(* Type invariant. *)
TypeOK ==
  /\ used \in 0..MaxBytes
  /\ q \in Seq(Workers)
  /\ phase \in [Workers -> {"idle", "waiting", "holding"}]
  /\ grant \in [Workers -> 0..MaxBytes]
  /\ arrivals \in 0..MaxArrivals

(* The counter is exactly what the workers hold: the clamp at zero in      *)
(* release never has to hide a double release, and nothing leaks.          *)
AccountingExact == used = MapThenSumSet(LAMBDA w : grant[w], Holding)

(* No lost wakeup: whoever is first in the queue really does not fit.      *)
HeadDoesNotFit == q # <<>> => used + grant[Head(q)] > MaxBytes

(* The blocked workers are the queue, each once, and ask for something.    *)
QueueExact ==
  /\ \A i \in 1..Len(q) : phase[q[i]] = "waiting" /\ grant[q[i]] > 0
  /\ \A w \in Workers : phase[w] = "waiting" => \E i \in 1..Len(q) : q[i] = w
  /\ \A i, k \in 1..Len(q) : q[i] = q[k] => i = k

(* Only an object asking for less than the first waiter can pass it.       *)
OvertakesOnlyIfSmaller ==
  [][ \A w \in Workers :
        phase[w] = "idle" /\ phase'[w] = "holding" /\ q # <<>>
          => grant'[w] < grant[Head(q)] ]_vars

(* As a listing is finite, every blocked object gets its bytes in the end. *)
EveryWaiterGranted ==
  \A w \in Workers : phase[w] = "waiting" ~> phase[w] = "holding"
=============================================================================
