------------------------------ MODULE YazlEntry ------------------------------
(***************************************************************************)
(* appendYazlReadStreamEntry and waitYazlLastEntryComplete                 *)
(* (src/src/yazl-entry.ts): how an append learns that yazl has encoded its *)
(* entry.  Every append listens for errors of the zip file and of its own  *)
(* stream, and runs a polling loop, once per turn of the event loop, that  *)
(* ends when the entry's state says done.  The loop reads `errored` when   *)
(* it starts, and never again.  Whichever comes first settles the append   *)
(* and takes the listeners off; nothing stops the loop.                    *)
(*                                                                         *)
(* Appends are serialized by the exclusive runner.  The loop waits for     *)
(* entries.at(-1), which it reads in the same synchronous stretch in which *)
(* addReadStream pushed the append's entry: it is the append's own.  yazl  *)
(* is external: it encodes entries in order and stops at the first one     *)
(* that fails.                                                             *)
(***************************************************************************)
EXTENDS Naturals

CONSTANT NumEntries  \* bound: entries appended in a run
ASSUME EntriesAssumption == NumEntries \in Nat

VARIABLES
  appended, \* entries handed to yazl
  encoded,  \* entries encoded: the first `encoded` of them
  broken,   \* the entry in progress will never be finished
  errored,  \* zipfile.errored
  result,   \* the promise of each append
  loop,     \* the polling loop of each append
  snapshot  \* what each loop read of `errored`

vars == <<appended, encoded, broken, errored, result, loop, snapshot>>

Entries == 1..NumEntries

Init ==
  /\ appended = 0 /\ encoded = 0
  /\ broken = FALSE /\ errored = FALSE
  /\ result = [e \in Entries |-> "none"]
  /\ loop = [e \in Entries |-> "none"]
  /\ snapshot = [e \in Entries |-> FALSE]

Settle(f, e, how) == [f EXCEPT ![e] = IF @ = "pending" THEN how ELSE @]

(* Mutant: an append does not ask whether the file is broken. *)
AppendEntryUnchecked ==
  LET e == appended + 1
  IN  /\ appended < NumEntries
      /\ \A d \in 1..appended : result[d] # "pending"
      /\ appended' = e
      /\ snapshot' = [snapshot EXCEPT ![e] = FALSE]
      /\ result' = [result EXCEPT ![e] = "pending"]
      /\ loop' = [loop EXCEPT ![e] = "polling"]
      /\ UNCHANGED <<encoded, broken, errored>>

(***************************************************************************)
(* The call: listeners, addReadStream, and the loop up to its first pause. *)
(* A zip file already known to be broken fails the append at once.         *)
(***************************************************************************)
AppendEntry ==
  LET e == appended + 1
  IN  /\ appended < NumEntries
      /\ \A d \in 1..appended : result[d] # "pending"
      /\ appended' = e
      /\ snapshot' = [snapshot EXCEPT ![e] = errored]
      /\ result' = [result EXCEPT ![e] = IF errored THEN "rejected" ELSE "pending"]
      /\ loop' = [loop EXCEPT ![e] = IF errored THEN "ended" ELSE "polling"]
      /\ UNCHANGED <<encoded, broken, errored>>

(* yazl finishes the entry in progress. *)
Encode ==
  /\ encoded < appended
  /\ ~ broken /\ ~ errored
  /\ encoded' = encoded + 1
  /\ UNCHANGED <<appended, broken, errored, result, loop, snapshot>>

(* Mutant: the loop never resolves. *)
PollOnlyErrors(e) ==
  /\ loop[e] = "polling"
  /\ e > encoded /\ snapshot[e]
  /\ result' = Settle(result, e, "rejected")
  /\ loop' = [loop EXCEPT ![e] = "ended"]
  /\ UNCHANGED <<appended, encoded, broken, errored, snapshot>>

(* One turn of the loop: the entry is done, or the snapshot says errored. *)
Poll(e) ==
  /\ loop[e] = "polling"
  /\ \/ /\ e <= encoded
        /\ result' = Settle(result, e, "resolved")
     \/ /\ e > encoded /\ snapshot[e]
        /\ result' = Settle(result, e, "rejected")
  /\ loop' = [loop EXCEPT ![e] = "ended"]
  /\ UNCHANGED <<appended, encoded, broken, errored, snapshot>>

(* The body of an entry that is not encoded yet fails. *)
StreamError(e) ==
  /\ encoded < e /\ e <= appended
  /\ broken' = TRUE
  /\ result' = Settle(result, e, "rejected")
  /\ UNCHANGED <<appended, encoded, errored, loop, snapshot>>

(* yazl emits "error", e.g. for a body of another size than was listed. *)
ZipError ==
  /\ ~ errored
  /\ encoded < appended
  /\ errored' = TRUE
  /\ broken' = TRUE
  /\ result' = [e \in Entries |-> IF result[e] = "pending" THEN "rejected" ELSE result[e]]
  /\ UNCHANGED <<appended, encoded, loop, snapshot>>

Next ==
  \/ AppendEntry \/ Encode \/ ZipError
  \/ \E e \in Entries : Poll(e) \/ StreamError(e)

(* yazl works while nothing is broken; setImmediate callbacks run. *)
Spec ==
  /\ Init
  /\ [][Next]_vars
  /\ WF_vars(Encode)
  /\ \A e \in Entries : WF_vars(Poll(e))

-----------------------------------------------------------------------------
(* Type invariant. *)
TypeOK ==
  /\ appended \in 0..NumEntries
  /\ encoded \in 0..appended
  /\ broken \in BOOLEAN /\ errored \in BOOLEAN
  /\ result \in [Entries -> {"none", "pending", "resolved", "rejected"}]
  /\ loop \in [Entries -> {"none", "polling", "ended"}]
  /\ snapshot \in [Entries -> BOOLEAN]

(* Once the zip file has an error, no append is left waiting: the pending  *)
(* one is rejected, and later ones fail at once.                           *)
ErrorReachesAppends == errored => \A e \in Entries : result[e] # "pending"
=============================================================================
