----------------------------- MODULE S3Requests -----------------------------
(***************************************************************************)
(* S3StorageProvider (src/src/s3-provider.ts) over withRetry (retry.ts):   *)
(* one ListObjectsV2 listing of several pages and a GetObject per object,  *)
(* each a sequence of attempts with pauses between them.  A request's      *)
(* signal merges the caller's with a timeout (abort-signal-util.ts); it is *)
(* made once per call of the provider, so that all pages of a listing, and *)
(* all attempts at an object, live under one timeout.                      *)
(*                                                                         *)
(* S3 and the SDK are external: an attempt succeeds, fails in a way        *)
(* isRetryableAwsError accepts or not, and fails at once under a signal    *)
(* that has fired.  The bucket holds the objects 1..NumObjects.            *)
(***************************************************************************)
EXTENDS Naturals

CONSTANTS
  NumObjects,   \* objects under the prefix
  PageSize,     \* listDefaults.maxKeys
  MaxAttempts,  \* retry.maxAttempts
  HasTimeout    \* requestTimeoutMs > 0

ASSUME RequestsAssumption ==
  /\ NumObjects \in Nat
  /\ PageSize \in Nat \ {0}
  /\ MaxAttempts \in Nat \ {0}
  /\ HasTimeout \in BOOLEAN

VARIABLES
  phase,     \* where each request is
  attempt,   \* the attempt of withRetry in progress, counted from 1
  fired,     \* what each request's merged signal was aborted by
  aborted,   \* options.signal of the run
  received,  \* objects in the pages received so far
  buffered,  \* of them, not yet yielded
  more       \* ContinuationToken is set

requestVars == <<phase, attempt, fired>>
listingVars == <<received, buffered, more>>
s3vars == <<requestVars, aborted, listingVars>>

Listing == 0
Objects == 1..NumObjects
Requests == {Listing} \cup Objects

Failures == {"abortError", "requestFailed"}
InProgress == {"sending", "backoff"}

S3Init ==
  /\ phase = [r \in Requests |-> "idle"]
  /\ attempt = [r \in Requests |-> 0]
  /\ fired = [r \in Requests |-> "none"]
  /\ aborted = FALSE
  /\ received = 0 /\ buffered = 0 /\ more = FALSE

Become(r, p) == phase' = [phase EXCEPT ![r] = p]

(* withRetry begins, under the signal the request has. *)
Send(r) ==
  /\ Become(r, "sending")
  /\ attempt' = [attempt EXCEPT ![r] = 1]
  /\ UNCHANGED fired

(* #effectiveSignal, then withRetry. *)
OpenRequest(r) ==
  /\ phase[r] = "idle"
  /\ Become(r, "sending")
  /\ attempt' = [attempt EXCEPT ![r] = 1]
  /\ fired' = [fired EXCEPT ![r] = IF aborted THEN "abort" ELSE "none"]

(* A retryable failure with attempts left: sleep, or go on if the delay is 0. *)
RetryLater(r) ==
  /\ attempt[r] < MaxAttempts
  /\ \/ /\ Become(r, "backoff")
        /\ UNCHANGED attempt
     \/ /\ attempt' = [attempt EXCEPT ![r] = @ + 1]
        /\ UNCHANGED phase

(* Mutant: the signal is not looked at before a failure is retried. *)
AttemptFailsUnchecked(r) ==
  /\ phase[r] = "sending"
  /\ \/ Become(r, "requestFailed") /\ UNCHANGED attempt
     \/ RetryLater(r)
  /\ UNCHANGED <<fired, aborted, listingVars>>

(***************************************************************************)
(* The catch of withRetry and, when it throws, the catch of the provider.  *)
(* throwIfAborted comes first; it throws the signal's reason, an           *)
(* AbortError (passed on) or a TimeoutError (wrapped).  A caller that      *)
(* aborts is taken to give no reason of its own.                           *)
(***************************************************************************)
AttemptFails(r) ==
  /\ phase[r] = "sending"
  /\ \/ /\ fired[r] = "abort"
        /\ Become(r, "abortError") /\ UNCHANGED attempt
     \/ /\ fired[r] # "abort"
        /\ Become(r, "requestFailed") /\ UNCHANGED attempt
     \/ /\ fired[r] = "none"
        /\ RetryLater(r)
  /\ UNCHANGED <<fired, aborted, listingVars>>

(* The pause runs out; or it is cut short, by an AbortError in either case. *)
Wake(r) ==
  /\ phase[r] = "backoff"
  /\ \/ /\ fired[r] = "none"
        /\ Become(r, "sending")
        /\ attempt' = [attempt EXCEPT ![r] = @ + 1]
     \/ /\ fired[r] # "none"
        /\ Become(r, "abortError")
        /\ UNCHANGED attempt
  /\ UNCHANGED <<fired, aborted, listingVars>>

(* getObjectStream resolves with an open body. *)
BodyArrives(o) ==
  /\ phase[o] = "sending"
  /\ fired[o] = "none"
  /\ Become(o, "ok")
  /\ UNCHANGED <<attempt, fired, aborted, listingVars>>

(* A page: some of the remaining objects, and whether others follow. *)
PageArrives ==
  /\ phase[Listing] = "sending"
  /\ fired[Listing] = "none"
  /\ \E n \in 0..PageSize :
       /\ received + n <= NumObjects
       /\ n = 0 => received = NumObjects
       /\ received' = received + n
       /\ buffered' = n
       /\ more' = (received' < NumObjects)
  /\ Become(Listing, "page")
  /\ UNCHANGED <<attempt, fired, aborted>>

(* The consumer asks for an object: the next one of the page, a new page   *)
(* under the old signal, or the end.                                       *)
YieldNext ==
  /\ phase[Listing] = "page"
  /\ buffered > 0
  /\ buffered' = buffered - 1
  /\ UNCHANGED <<requestVars, aborted, received, more>>

FetchPage ==
  /\ \/ OpenRequest(Listing)
     \/ phase[Listing] = "page" /\ buffered = 0 /\ more /\ Send(Listing)
  /\ UNCHANGED <<aborted, listingVars>>

ListingDone ==
  /\ phase[Listing] = "page"
  /\ buffered = 0 /\ ~ more
  /\ Become(Listing, "ok")
  /\ UNCHANGED <<attempt, fired, aborted, listingVars>>

(* AbortSignal.timeout: it runs from the call, whatever the request is doing. *)
DeadlineFires(r) ==
  /\ HasTimeout
  /\ phase[r] \in InProgress \cup {"page"}
  /\ fired[r] = "none"
  /\ fired' = [fired EXCEPT ![r] = "timeout"]
  /\ UNCHANGED <<phase, attempt, aborted, listingVars>>

(* The caller aborts the run: every merged signal that is still quiet fires. *)
AbortRun ==
  /\ ~ aborted
  /\ aborted' = TRUE
  /\ fired' = [r \in Requests |->
                 IF fired[r] = "none" /\ phase[r] \in InProgress \cup {"page"}
                 THEN "abort" ELSE fired[r]]
  /\ UNCHANGED <<phase, attempt, listingVars>>

(* What happens to the requests while their caller waits. *)
AnswerTo(r) ==
  \/ AttemptFails(r)
  \/ Wake(r)
  \/ r \in Objects /\ BodyArrives(r)
  \/ r = Listing /\ PageArrives

S3Step ==
  \/ \E r \in Requests : AnswerTo(r) \/ DeadlineFires(r)
  \/ AbortRun

-----------------------------------------------------------------------------
Phases == {"idle", "page", "ok"} \cup InProgress \cup Failures

(* Type invariant of the request layer; no request makes more attempts   *)
(* than it may.                                                           *)
S3TypeOK ==
  /\ phase \in [Requests -> Phases]
  /\ attempt \in [Requests -> 0..MaxAttempts]
  /\ fired \in [Requests -> {"none", "abort", "timeout"}]
  /\ aborted \in BOOLEAN
  /\ received \in 0..NumObjects
  /\ buffered \in 0..received
  /\ more \in BOOLEAN

(* Once the signal of a request in progress has fired, the request makes   *)
(* no further attempt, so that no retry is reported (and no cap lowered)   *)
(* on behalf of a run that is over; and when it was the caller who         *)
(* aborted, the caller sees an AbortError, not S3_REQUEST_FAILED.          *)
AbortEndsRetries ==
  [][\A r \in Requests :
       fired[r] # "none" /\ phase[r] \in InProgress =>
         /\ attempt'[r] = attempt[r]
         /\ phase'[r] \in {phase[r]} \cup Failures
         /\ fired[r] = "abort" => phase'[r] # "requestFailed"]_s3vars
=============================================================================
