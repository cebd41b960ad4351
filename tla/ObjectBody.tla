----------------------------- MODULE ObjectBody -----------------------------
(***************************************************************************)
(* The body of an object on its way from GetObject into its ZIP entry:     *)
(* wrapGetObjectBodyPipeline (archive-object-processor.ts), the stages it  *)
(* may put behind the raw stream, and the append of YazlEntry at the end.  *)
(*                                                                         *)
(*   raw -> hwm -> md5 -> user -> slow -> append                           *)
(*                                                                         *)
(* Stages are joined by pipe(), which passes on data and the end, but not  *)
(* errors.  hwm and slow listen for errors of the stage before them; md5   *)
(* does not; a stage of the user's may or may not.  The last stage has a   *)
(* listener only once its append has been called: until then, in ZIP runs, *)
(* the body is paused and waits for the exclusive runner.  What happens to *)
(* an error nobody listens for is up to the stream: an HTTP body just ends *)
(* its life without an event, any other stream brings the process down.    *)
(*                                                                         *)
(* Bodies are numbered in the order they queue for the exclusive runner,   *)
(* which serves them in that order.                                        *)
(***************************************************************************)
EXTENDS YazlEntry, Sequences, FiniteSets

CONSTANTS
  NumChunks,  \* bound: chunks of a body
  Workers     \* the concurrency of the run

ASSUME BodyAssumption == NumChunks \in Nat \ {0} /\ Workers \in Nat \ {0}

VARIABLES
  chain,    \* the optional stages of this run
  kind,     \* what the provider's bodies are
  fetched,  \* bodies fetched so far
  body,     \* what became of each body
  slow,     \* bodies onSlow was called for
  unheard,  \* errors that reached no listener: of which body, and from where in its chain
  crashed   \* an 'error' event without listener ended the process

bodyVars == <<chain, kind, fetched, body, slow, unheard, crashed>>
allVars == <<vars, bodyVars>>

Stages == <<"hwm", "md5", "user", "deaf", "slow">>
StagesAfter(k) == {n \in k + 1 .. Len(Stages) : Stages[n] \in chain}
Raw == 0
Verifier == 2

(* A user's stage either forwards errors ("user") or does not ("deaf"). *)
Chains == {c \in SUBSET {"hwm", "md5", "user", "deaf", "slow"} : ~ {"user", "deaf"} \subseteq c}

Kinds == {"http", "web"}

BodyInit ==
  /\ Init
  /\ chain \in Chains /\ kind \in Kinds
  /\ fetched = 0
  /\ body = [e \in Entries |-> [at |-> "none", read |-> 0, intact |-> FALSE]]
  /\ slow = {}
  /\ unheard = {}
  /\ crashed = FALSE

(* toNodeReadable: HTTP bodies as they are, web streams wrapped; a missing *)
(* or unknown body is a GetObject failure and never gets this far.         *)
Fetch ==
  /\ fetched < NumEntries
  /\ Cardinality({e \in 1..fetched : result[e] \in {"none", "pending"}}) < Workers
  /\ fetched' = fetched + 1
  /\ body' = [body EXCEPT ![fetched + 1].at = "paused"]
  /\ UNCHANGED <<vars, chain, kind, slow, unheard, crashed>>

(* The turn of the next body: resume() and the append. *)
Resume(b) == [b EXCEPT !.at = IF @ = "paused" THEN "flowing" ELSE @]

Append1 ==
  /\ appended < fetched
  /\ AppendEntry
  /\ body' = [body EXCEPT ![appended + 1] = Resume(@)]
  /\ UNCHANGED <<chain, kind, fetched, slow, unheard, crashed>>

(* A chunk passes all stages.  The slow monitor calls back at most once,   *)
(* when enough bytes, enough time and a rate below the threshold coincide. *)
Chunk(e) ==
  /\ body[e].at = "flowing" /\ body[e].read < NumChunks
  /\ body' = [body EXCEPT ![e].read = @ + 1]
  /\ \/ UNCHANGED slow
     \/ "slow" \in chain /\ e \notin slow /\ slow' = slow \cup {e}
  /\ UNCHANGED <<vars, chain, kind, fetched, unheard, crashed>>

(* Mutant: the read buffer does not listen to its source. *)
ForwardsNotInBuffer(stage) == stage \in {"user", "slow"}

(* Whether a stage listens for errors of the stage before it. *)
Forwards(stage) == stage \in {"hwm", "user", "slow"}

DeafStages(k) == {n \in StagesAfter(k) : ~ Forwards(Stages[n])}

(* Somebody listens to the last stage: the append while it is pending, or  *)
(* yazl, which pumps an entry unless the zip file had failed before.       *)
Listened(e) ==
  e <= appended /\ (result[e] = "pending" \/ (e <= encoded + 1 /\ ~ snapshot[e]))

Heard(e, k) == DeafStages(k) = {} /\ Listened(e)

(* Whether the stream left alone with the error is the HTTP body itself:   *)
(* no stage of the chain comes before the first that does not listen.      *)
Silent(e, k) ==
  /\ k = Raw /\ kind = "http"
  /\ \A n \in StagesAfter(Raw) : \E d \in DeafStages(Raw) : d <= n

(* An error of the stream at position k of body e. *)
ErrorAt(e, k) ==
  /\ body' = [body EXCEPT ![e].at = "errored"]
  /\ \/ /\ Heard(e, k)
        /\ StreamError(e)
        /\ UNCHANGED <<unheard, crashed>>
     \/ /\ ~ Heard(e, k)
        /\ unheard' = unheard \cup {<<e, k>>}
        /\ crashed' = ~ Silent(e, k)
        /\ UNCHANGED vars
  /\ UNCHANGED <<chain, kind, fetched, slow>>

(* The connection breaks while the body is paused or flowing. *)
SourceFails(e) ==
  /\ body[e].at \in {"paused", "flowing"}
  /\ ErrorAt(e, Raw)

EndsWell(e, intact) ==
  /\ body' = [body EXCEPT ![e] = [@ EXCEPT !.at = "ended", !.intact = intact]]
  /\ UNCHANGED <<vars, chain, kind, fetched, slow, unheard, crashed>>

(* Mutant: the digest is not looked at. *)
EndBodyUnverified(e) ==
  /\ body[e].at = "flowing" /\ body[e].read = NumChunks
  /\ \E intact \in BOOLEAN : EndsWell(e, intact)

(* The end of the body passes the stages; md5 compares digests in flush(). *)
EndBody(e) ==
  /\ body[e].at = "flowing" /\ body[e].read = NumChunks
  /\ \E intact \in BOOLEAN :
       IF "md5" \in chain /\ ~ intact THEN ErrorAt(e, Verifier) ELSE EndsWell(e, intact)

(* yazl finishes an entry when its body has ended. *)
EncodeBody ==
  /\ Encode
  /\ body[encoded + 1].at = "ended"
  /\ UNCHANGED bodyVars

(* yazl emits an error for a body that failed or has another size.  *)
ZipFails == ZipError /\ UNCHANGED bodyVars

PollBody(e) == Poll(e) /\ UNCHANGED bodyVars

BodyNext ==
  /\ ~ crashed
  /\ \/ Fetch \/ Append1 \/ EncodeBody \/ ZipFails
     \/ \E e \in Entries : Chunk(e) \/ SourceFails(e) \/ EndBody(e) \/ PollBody(e)

(* Bytes flow, the exclusive runner serves, yazl works and reports the     *)
(* entry it cannot finish; setImmediate callbacks run.                     *)
BodySpec ==
  /\ BodyInit /\ [][BodyNext]_allVars
  /\ WF_allVars(~ crashed /\ Append1) /\ WF_allVars(~ crashed /\ EncodeBody)
  /\ WF_allVars(~ crashed /\ broken /\ ZipFails)
  /\ \A e \in Entries : /\ WF_allVars(~ crashed /\ (Chunk(e) \/ EndBody(e)))
                        /\ WF_allVars(~ crashed /\ PollBody(e))

-----------------------------------------------------------------------------

(* An append that resolves has written the whole body and, with            *)
(* verifyGetObjectMd5Etag, the bytes the ETag stands for: an error         *)
(* anywhere in the chain may stop the entry but never finishes it.         *)
ResolvedIsWhole ==
  \A e \in Entries : result[e] = "resolved" =>
    /\ body[e].at = "ended" /\ body[e].read = NumChunks
    /\ "md5" \in chain => body[e].intact

(* An error of a body goes unheard in these cases only: a stage of the     *)
(* user's does not forward it; it is the source's and the verifier is in   *)
(* between; the body still waits for its turn; or the zip file has failed  *)
(* and its append is over.  A digest that does not match is always heard   *)
(* of, but for the first and the last of these.                            *)
UnheardOnlyInGaps ==
  [][\A e \in Entries, k \in {Raw, Verifier} : <<e, k>> \in unheard' \ unheard =>
       \/ "deaf" \in chain
       \/ "md5" \in chain /\ k = Raw
       \/ k = Raw /\ e > appended
       \/ errored]_allVars

(* Every append settles, unless its body's error went unheard (then it     *)
(* waits for ever, and holds the exclusive runner) or the process is gone. *)
AppendSettles ==
  \A e \in Entries :
    result[e] = "pending" ~>
      (result[e] # "pending" \/ {<<e, Raw>>, <<e, Verifier>>} \cap unheard # {} \/ crashed)
=============================================================================
