------------------------- MODULE TarUploadJobProofs -------------------------
(***************************************************************************)
(* Proofs about TarUploadJob, for every bucket, page size, number of       *)
(* attempts and choice of faults: an upload that completes is a whole      *)
(* archive, and a request whose signal has fired makes no further attempt. *)
(***************************************************************************)
EXTENDS TarUploadJob, TLAPS, FiniteSetTheorems

USE RequestsAssumption, JobAssumption

Runs == {"listing", "object", "get", "saving", "manifest", "closing", "finished", "threw"}

(* Types. *)
JobTypeOK ==
  /\ S3TypeOK
  /\ run \in Runs
  /\ pack \in {"open", "destroyed", "finished"}
  /\ body \in {"open", "destroyed", "ended"}
  /\ upload \in {"running", "completed", "failed"}
  /\ objectsIncluded \in Nat /\ objectsSkipped \in Nat
  /\ omissions \subseteq Objects
  /\ entries \in Seq(Requests)

(* A request that pauses has an attempt left. *)
RetryInv == \A r \in Requests : phase[r] = "backoff" => attempt[r] < MaxAttempts

(* What the listing has got to: nothing is buffered outside a page, and a  *)
(* listing that is over was whole.                                         *)
ListingInv ==
  /\ phase[Listing] \notin {"page", "ok"} => buffered = 0
  /\ phase[Listing] = "page" => (more <=> received < NumObjects)
  /\ phase[Listing] = "ok" => received = NumObjects /\ buffered = 0 /\ ~ more
  /\ run \in {"manifest", "closing", "finished"} => phase[Listing] = "ok"

(* The objects the loop is done with. *)
Settled == 1..(IF run \in {"object", "get"} THEN Current - 1 ELSE Current)

(* Until something is thrown, every object the loop is done with is        *)
(* accounted for.                                                          *)
AccountInv ==
  /\ run \in {"object", "get"} => Current >= 1
  /\ run # "threw" =>
       /\ Settled = Archived \cup omissions \cup (Skippable \cap Settled)
       /\ IsFiniteSet(Archived)
       /\ objectsIncluded = Cardinality(Archived)
       /\ objectsIncluded + objectsSkipped
            = IF run \in {"object", "get"} THEN Current - 1 ELSE Current

(* Entries are written once, and a manifest after all others. *)
EntriesInv ==
  /\ \A i, j \in 1..Len(entries) : entries[i] = entries[j] => i = j
  /\ \A i \in 1..Len(entries) : entries[i] = Manifest =>
       /\ i = Len(entries)
       /\ run \in {"closing", "finished", "threw"}

(* Only a run that has finished ends the body of the upload. *)
OutputInv ==
  /\ body = "ended" => run = "finished"
  /\ upload = "completed" => body = "ended"
  /\ job = "resolved" => upload = "completed"

IInv == JobTypeOK /\ RetryInv /\ ListingInv /\ AccountInv /\ EntriesInv /\ OutputInv

-----------------------------------------------------------------------------
(* The elements of a sequence with one more at its end. *)
LEMMA AppendElements ==
  ASSUME NEW S, NEW s \in Seq(S), NEW x \in S
  PROVE  {Append(s, x)[i] : i \in 1..Len(Append(s, x))} = {s[i] : i \in 1..Len(s)} \cup {x}
  OBVIOUS

(* The initial states satisfy the invariant. *)
LEMMA InitInv == Init => IInv
<1> SUFFICES ASSUME Init PROVE IInv
  OBVIOUS
<1>1. JobTypeOK
  <2>1. S3TypeOK
    <3>1. phase \in [Requests -> Phases]
      BY DEF Init, S3Init, Phases
    <3>2. attempt \in [Requests -> 0..MaxAttempts]
      BY DEF Init, S3Init
    <3>3. fired \in [Requests -> {"none", "abort", "timeout"}] /\ aborted \in BOOLEAN
      BY DEF Init, S3Init
    <3>4. received \in 0..NumObjects /\ buffered \in 0..received
      BY DEF Init, S3Init
    <3>5. more \in BOOLEAN
      BY DEF Init, S3Init
    <3> QED
      BY <3>1, <3>2, <3>3, <3>4, <3>5 DEF S3TypeOK
  <2> QED
    BY <2>1 DEF Init, JobTypeOK, Runs
<1>2. RetryInv /\ ListingInv
  BY DEF Init, S3Init, RetryInv, ListingInv, Requests, Listing
<1>3. Archived = {}
  BY DEF Init, Archived
<1>4. AccountInv
  BY <1>3, FS_EmptySet DEF Init, S3Init, AccountInv, Settled, Current
<1>5. EntriesInv /\ OutputInv
  BY DEF Init, EntriesInv, OutputInv
<1> QED
  BY <1>1, <1>2, <1>4, <1>5 DEF IInv

-----------------------------------------------------------------------------
(* A step of a request, seen from the outside: what it may do to the       *)
(* listing, and that it keeps the types.                                   *)
LEMMA RequestEffect ==
  ASSUME S3TypeOK, RetryInv, ListingInv, RequestStep
  PROVE  S3TypeOK' /\ RetryInv' /\ ListingInv' /\ Current' = Current
<1> USE DEF S3TypeOK, RetryInv, Phases, InProgress, Failures, Requests, Objects, Listing
<1>0. UNCHANGED run
  BY DEF RequestStep, results, options, streams, counters
<1>1. ASSUME NEW r \in Requests, AttemptFails(r)
      PROVE  S3TypeOK' /\ RetryInv' /\ ListingInv' /\ Current' = Current
  BY <1>0, <1>1 DEF AttemptFails, RetryLater, Become, ListingInv, Current, listingVars
<1>2. ASSUME NEW r \in Requests, Wake(r)
      PROVE  S3TypeOK' /\ RetryInv' /\ ListingInv' /\ Current' = Current
  BY <1>0, <1>2 DEF Wake, Become, ListingInv, Current, listingVars
<1>3. ASSUME NEW r \in Objects, BodyArrives(r)
      PROVE  S3TypeOK' /\ RetryInv' /\ ListingInv' /\ Current' = Current
  BY <1>0, <1>3 DEF BodyArrives, Become, ListingInv, Current, listingVars
<1>4. ASSUME PageArrives
      PROVE  S3TypeOK' /\ RetryInv' /\ ListingInv' /\ Current' = Current
  <2>1. PICK n \in 0..PageSize :
          /\ received + n <= NumObjects
          /\ n = 0 => received = NumObjects
          /\ received' = received + n
          /\ buffered' = n
          /\ more' = (received' < NumObjects)
    BY <1>4 DEF PageArrives
  <2>2. phase' = [phase EXCEPT ![Listing] = "page"] /\ phase[Listing] = "sending"
    BY <1>4 DEF PageArrives, Become
  <2>3. UNCHANGED <<attempt, fired, aborted>>
    BY <1>4 DEF PageArrives
  <2>4. S3TypeOK' /\ RetryInv'
    BY <2>1, <2>2, <2>3
  <2>5. ListingInv' /\ Current' = Current
    <3>1. phase'[Listing] = "page"
      BY <2>2
    <3>2. run \notin {"manifest", "closing", "finished"}
      BY <2>2 DEF ListingInv
    <3>3. more' <=> received' < NumObjects
      BY <2>1
    <3>4. buffered = 0
      BY <2>2 DEF ListingInv
    <3> QED
      BY <2>1, <3>1, <3>2, <3>3, <3>4, <1>0 DEF ListingInv, Current
  <2> QED
    BY <2>4, <2>5
<1>5. ASSUME NEW r \in Requests, DeadlineFires(r)
      PROVE  S3TypeOK' /\ RetryInv' /\ ListingInv' /\ Current' = Current
  BY <1>0, <1>5 DEF DeadlineFires, ListingInv, Current, listingVars
<1>6. ASSUME AbortRun
      PROVE  S3TypeOK' /\ RetryInv' /\ ListingInv' /\ Current' = Current
  <2>1. fired' \in [Requests -> {"none", "abort", "timeout"}]
    BY <1>6 DEF AbortRun
  <2>2. aborted' = TRUE /\ UNCHANGED <<phase, attempt, received, buffered, more>>
    BY <1>6 DEF AbortRun, listingVars
  <2>3. aborted' \in BOOLEAN
    BY <2>2
  <2>4. S3TypeOK' /\ RetryInv'
    BY <2>1, <2>2, <2>3
  <2>5. ListingInv' /\ Current' = Current
    BY <2>2, <1>0 DEF ListingInv, Current
  <2> QED
    BY <2>4, <2>5
<1> QED
  BY <1>1, <1>2, <1>3, <1>4, <1>5, <1>6 DEF RequestStep, S3Step, AnswerTo

(* The loop's own steps of the listing and of a GetObject. *)
LEMMA AskEffect ==
  ASSUME S3TypeOK, RetryInv, ListingInv, FetchPage, UNCHANGED run, run = "listing"
  PROVE  S3TypeOK' /\ RetryInv' /\ ListingInv' /\ Current' = Current
<1> USE DEF S3TypeOK, RetryInv, Phases, InProgress, Failures, Requests, Objects, Listing
<1>1. ASSUME OpenRequest(Listing)
      PROVE  S3TypeOK' /\ RetryInv' /\ ListingInv' /\ Current' = Current
  BY <1>1 DEF OpenRequest, Become, FetchPage, ListingInv, Current, listingVars
<1>2. ASSUME phase[Listing] = "page", buffered = 0, more, Send(Listing)
      PROVE  S3TypeOK' /\ RetryInv' /\ ListingInv' /\ Current' = Current
  BY <1>2 DEF Send, Become, FetchPage, ListingInv, Current, listingVars
<1> QED
  BY <1>1, <1>2 DEF FetchPage

LEMMA YieldEffect ==
  ASSUME S3TypeOK, RetryInv, ListingInv, YieldNext, run = "listing",
         run' \in {"listing", "object", "threw"}
  PROVE  S3TypeOK' /\ RetryInv' /\ ListingInv' /\ Current' = Current + 1
<1>1. S3TypeOK' /\ RetryInv'
  BY DEF YieldNext, S3TypeOK, RetryInv, requestVars
<1>2. ListingInv'
  BY DEF YieldNext, S3TypeOK, ListingInv, requestVars
<1>3. Current' = Current + 1
  BY DEF YieldNext, S3TypeOK, Current
<1> QED
  BY <1>1, <1>2, <1>3

LEMMA GetEffect ==
  ASSUME S3TypeOK, RetryInv, ListingInv, NEW o \in Objects, OpenRequest(o),
         UNCHANGED <<aborted, listingVars>>, run = "object", run' = "get"
  PROVE  S3TypeOK' /\ RetryInv' /\ ListingInv' /\ Current' = Current
BY DEF S3TypeOK, RetryInv, Phases, InProgress, Failures, Requests, Objects, Listing,
       OpenRequest, Become, ListingInv, Current, listingVars

LEMMA DoneEffect ==
  ASSUME S3TypeOK, RetryInv, ListingInv, ListingDone, run' \in {"manifest", "closing"}
  PROVE  /\ S3TypeOK' /\ RetryInv' /\ ListingInv' /\ Current' = Current
         /\ Current = NumObjects
<1>1. ~ more /\ buffered = 0 /\ received = NumObjects
  BY DEF ListingDone, ListingInv, S3TypeOK
<1> QED
  BY <1>1 DEF S3TypeOK, RetryInv, Phases, InProgress, Failures, Requests, Objects, Listing,
       ListingDone, Become, ListingInv, Current, listingVars

-----------------------------------------------------------------------------
(* Steps that leave the request layer alone. *)
LEMMA RequestsUnchanged ==
  ASSUME IInv, UNCHANGED s3vars,
         run' \in {"manifest", "closing", "finished"} => phase[Listing] = "ok"
  PROVE  S3TypeOK' /\ RetryInv' /\ ListingInv' /\ Current' = Current
BY DEF IInv, JobTypeOK, S3TypeOK, RetryInv, ListingInv, Current,
       s3vars, requestVars, listingVars

(* Steps of the request layer only. *)
LEMMA JobUnchanged ==
  ASSUME IInv, UNCHANGED <<run, streams, job, counters, results>>,
         S3TypeOK', RetryInv', ListingInv', Current' = Current
  PROVE  IInv'
<1>1. UNCHANGED <<run, pack, body, upload, job, objectsIncluded, objectsSkipped, omissions, entries>>
  BY DEF streams, counters, results
<1>2. JobTypeOK'
  BY <1>1 DEF IInv, JobTypeOK
<1>3. Archived' = Archived /\ Settled' = Settled
  BY <1>1 DEF Archived, Settled
<1>4. AccountInv'
  BY <1>1, <1>3 DEF IInv, AccountInv
<1>5. EntriesInv' /\ OutputInv'
  BY <1>1 DEF IInv, EntriesInv, OutputInv
<1> QED
  BY <1>2, <1>4, <1>5 DEF IInv

(* A step that ends with the run thrown needs no account, and one that     *)
(* only moves the run between an object and the loop keeps it.             *)
LEMMA AccountKept ==
  ASSUME IInv, UNCHANGED <<objectsIncluded, objectsSkipped, omissions, entries>>,
         \/ run' = "threw"
         \/ /\ run # "threw"
            /\ Settled' = Settled
            /\ run' \in {"object", "get"} => Current' >= 1
            /\ (IF run' \in {"object", "get"} THEN Current' - 1 ELSE Current')
                 = (IF run \in {"object", "get"} THEN Current - 1 ELSE Current)
  PROVE  AccountInv'
<1>1. CASE run' = "threw"
  BY <1>1 DEF AccountInv
<1>2. CASE /\ run # "threw"
           /\ Settled' = Settled
           /\ run' \in {"object", "get"} => Current' >= 1
           /\ (IF run' \in {"object", "get"} THEN Current' - 1 ELSE Current')
                = (IF run \in {"object", "get"} THEN Current - 1 ELSE Current)
  <2>1. Archived' = Archived
    BY DEF Archived
  <2> QED
    BY <1>2, <2>1 DEF IInv, AccountInv
<1> QED
  BY <1>1, <1>2

(* One more object is skipped or omitted. *)
LEMMA AccountSkips ==
  ASSUME IInv, UNCHANGED <<objectsIncluded, entries>>,
         run \in {"listing", "get"}, run' = "listing", NEW o \in Objects,
         Settled' = Settled \cup {o}, o \notin Settled,
         Current' = o, o = (IF run = "get" THEN Current ELSE Current + 1),
         objectsSkipped' = objectsSkipped + 1,
         \/ o \in Skippable /\ UNCHANGED omissions
         \/ omissions' = omissions \cup {o}
  PROVE  AccountInv'
<1>1. Archived' = Archived
  BY DEF Archived
<1>2. /\ Settled = Archived \cup omissions \cup (Skippable \cap Settled)
      /\ IsFiniteSet(Archived) /\ objectsIncluded = Cardinality(Archived)
      /\ objectsIncluded + objectsSkipped = IF run = "get" THEN Current - 1 ELSE Current
  BY DEF IInv, AccountInv
<1>3. Settled' = Archived \cup omissions' \cup (Skippable \cap Settled')
  BY <1>2
<1>4. objectsIncluded \in Nat /\ objectsSkipped \in Nat /\ Current \in Int
  BY DEF IInv, JobTypeOK, S3TypeOK, Current
<1>5. objectsIncluded' + objectsSkipped' = Current'
  BY <1>2, <1>4
<1> QED
  BY <1>1, <1>2, <1>3, <1>5 DEF AccountInv

-----------------------------------------------------------------------------
(* The loop's own steps keep the invariant. *)
LEMMA AskStep == IInv /\ AskForObject => IInv'
<1> SUFFICES ASSUME IInv, AskForObject PROVE IInv'
  OBVIOUS
<1>1. run = "listing" /\ FetchPage /\ UNCHANGED <<run, streams, job, counters, results>>
  BY DEF AskForObject
<1>2. S3TypeOK' /\ RetryInv' /\ ListingInv' /\ Current' = Current
  BY <1>1, AskEffect DEF IInv, JobTypeOK
<1> QED
  BY <1>1, <1>2, JobUnchanged

LEMMA TakeStep == IInv /\ TakeObject => IInv'
<1> SUFFICES ASSUME IInv, TakeObject PROVE IInv'
  OBVIOUS
<1>1. /\ run = "listing" /\ YieldNext
      /\ run' \in {"listing", "object", "threw"}
      /\ UNCHANGED <<upload, job, objectsIncluded, omissions, entries>>
      /\ pack' \in {pack, "destroyed"} /\ body' \in {body, "destroyed"}
  BY DEF TakeObject, Throw, BreakPipe, BreakPack, BreakBody, results, streams
<1>2. S3TypeOK' /\ RetryInv' /\ ListingInv' /\ Current' = Current + 1
  BY <1>1, YieldEffect DEF IInv, JobTypeOK
<1>3. Current \in Nat /\ Current' \in Objects
  <2>1. Current \in Nat
    BY DEF IInv, JobTypeOK, S3TypeOK, Current
  <2>2. Current' \in 0..NumObjects
    <3>1. received' \in 0..NumObjects /\ buffered' \in 0..received'
      BY <1>2 DEF S3TypeOK
    <3>2. \A r \in 0..NumObjects : \A b \in 0..r : r - b \in 0..NumObjects
      OBVIOUS
    <3>3. received' - buffered' \in 0..NumObjects
      BY <3>1, <3>2
    <3> QED
      BY <3>3 DEF Current
  <2> QED
    BY <2>1, <2>2, <1>2 DEF Objects
<1>4. \/ run' \in {"object", "threw"} /\ UNCHANGED objectsSkipped
      \/ run' = "listing" /\ objectsSkipped' = objectsSkipped + 1 /\ Current' \in Skippable
  BY <1>1 DEF TakeObject, Throw
<1>5. JobTypeOK'
  BY <1>1, <1>2, <1>4 DEF IInv, JobTypeOK, Runs
<1>6. AccountInv'
  <2>1. CASE run' \in {"object", "threw"}
    <3>1. UNCHANGED objectsSkipped
      BY <2>1, <1>4
    <3>2. CASE run' = "object"
      <4>1. Settled' = Settled /\ Current' >= 1
        BY <3>2, <1>1, <1>2, <1>3 DEF Settled
      <4> QED
        BY <3>1, <3>2, <4>1, <1>1, <1>2, <1>3, AccountKept
    <3> QED
      BY <2>1, <3>1, <3>2, <1>1, AccountKept
  <2>2. CASE run' = "listing"
    <3>1. objectsSkipped' = objectsSkipped + 1 /\ Current' \in Skippable
      BY <2>2, <1>4
    <3>2. Settled' = Settled \cup {Current'} /\ Current' \notin Settled
      BY <2>2, <1>1, <1>2, <1>3 DEF Settled
    <3> QED
      BY <2>2, <3>1, <3>2, <1>1, <1>2, <1>3, AccountSkips
  <2> QED
    BY <2>1, <2>2, <1>1
<1>7. EntriesInv' /\ OutputInv'
  BY <1>1 DEF IInv, EntriesInv, OutputInv
<1> QED
  BY <1>2, <1>5, <1>6, <1>7 DEF IInv

LEMMA GetStep == IInv /\ GetObject => IInv'
<1> SUFFICES ASSUME IInv, GetObject PROVE IInv'
  OBVIOUS
<1>1. /\ run = "object" /\ run' = "get" /\ OpenRequest(Current)
      /\ UNCHANGED <<aborted, listingVars, pack, body, upload, job>>
      /\ UNCHANGED <<objectsIncluded, objectsSkipped, omissions, entries>>
  BY DEF GetObject, streams, counters, results
<1>2. Current \in Objects
  BY <1>1 DEF IInv, JobTypeOK, S3TypeOK, AccountInv, Current, Objects
<1>3. S3TypeOK' /\ RetryInv' /\ ListingInv' /\ Current' = Current
  BY <1>1, <1>2, GetEffect DEF IInv, JobTypeOK
<1>4. JobTypeOK'
  BY <1>1, <1>3 DEF IInv, JobTypeOK, Runs
<1>5. AccountInv'
  <2>1. Settled' = Settled /\ Current' >= 1
    BY <1>1, <1>2, <1>3 DEF Settled, Objects
  <2> QED
    BY <2>1, <1>1, <1>3, AccountKept
<1>6. EntriesInv' /\ OutputInv'
  BY <1>1 DEF IInv, EntriesInv, OutputInv
<1> QED
  BY <1>3, <1>4, <1>5, <1>6 DEF IInv

(* An object goes without, because its GetObject or its append failed. *)
LEMMA GiveUpStep ==
  ASSUME IInv, run = "get", GiveUp,
         UNCHANGED <<s3vars, upload, job, objectsIncluded, entries>>,
         pack' \in {pack, "destroyed"}, body' \in {body, "destroyed"},
         run' = "listing" => objectsSkipped' = objectsSkipped + 1,
         run' = "threw" => UNCHANGED <<objectsSkipped, omissions>>
  PROVE  IInv'
<1>1. \/ run' = "listing" /\ omissions' = omissions \cup {Current}
      \/ run' = "threw"
  BY DEF GiveUp
<1>2. S3TypeOK' /\ RetryInv' /\ ListingInv' /\ Current' = Current
  BY <1>1, RequestsUnchanged
<1>3. Current \in Objects
  BY DEF IInv, JobTypeOK, S3TypeOK, AccountInv, Current, Objects
<1>4. JobTypeOK'
  BY <1>1, <1>2, <1>3 DEF IInv, JobTypeOK, Runs
<1>5. AccountInv'
  <2>1. CASE run' = "threw"
    BY <2>1, AccountKept
  <2>2. CASE run' = "listing"
    <3>1. Settled' = Settled \cup {Current} /\ Current \notin Settled
      BY <2>2, <1>2, <1>3 DEF Settled, Objects
    <3> QED
      BY <2>2, <3>1, <1>1, <1>2, <1>3, AccountSkips
  <2> QED
    BY <2>1, <2>2, <1>1
<1>6. EntriesInv' /\ OutputInv'
  BY <1>1 DEF IInv, EntriesInv, OutputInv
<1> QED
  BY <1>2, <1>4, <1>5, <1>6 DEF IInv

LEMMA FailStep == IInv /\ (GetFails \/ AppendFails) => IInv'
<1> SUFFICES ASSUME IInv, GetFails \/ AppendFails PROVE IInv'
  OBVIOUS
<1>1. /\ run = "get" /\ GiveUp
      /\ UNCHANGED <<s3vars, upload, job, objectsIncluded, entries>>
  BY DEF GetFails, AppendFails, streams, counters, results, BreakPipe
<1>2. pack' \in {pack, "destroyed"} /\ body' \in {body, "destroyed"}
  BY DEF GetFails, AppendFails, BreakPipe, BreakPack, BreakBody, streams
<1>3. /\ run' = "listing" => objectsSkipped' = objectsSkipped + 1
      /\ run' = "threw" => UNCHANGED <<objectsSkipped, omissions>>
  BY <1>1 DEF GiveUp
<1> QED
  BY <1>1, <1>2, <1>3, GiveUpStep

(* An entry: the object joins the archive. *)
LEMMA AppendStep == IInv /\ AppendDone => IInv'
<1> SUFFICES ASSUME IInv, AppendDone PROVE IInv'
  OBVIOUS
<1>1. /\ run = "get" /\ run' \in {"saving", "listing"}
      /\ entries' = Append(entries, Current)
      /\ objectsIncluded' = objectsIncluded + 1
      /\ UNCHANGED <<s3vars, pack, body, upload, job, objectsSkipped, omissions>>
  BY DEF AppendDone, streams
<1>2. S3TypeOK' /\ RetryInv' /\ ListingInv' /\ Current' = Current
  BY <1>1, RequestsUnchanged
<1>3. Current \in Objects
  BY <1>1 DEF IInv, JobTypeOK, S3TypeOK, AccountInv, Current, Objects
<1>4. Current \in Requests /\ Current # Manifest
  BY <1>3 DEF Objects, Requests, Manifest
<1>5. JobTypeOK'
  BY <1>1, <1>2, <1>4 DEF IInv, JobTypeOK, Runs
<1>6. Archived' = Archived \cup {Current}
  BY <1>1, <1>4, AppendElements DEF IInv, JobTypeOK, Archived
<1>7. /\ Settled = Archived \cup omissions \cup (Skippable \cap Settled)
      /\ IsFiniteSet(Archived) /\ objectsIncluded = Cardinality(Archived)
      /\ objectsIncluded + objectsSkipped = Current - 1
  BY <1>1 DEF IInv, AccountInv
<1>8. Settled' = Settled \cup {Current} /\ Current \notin Settled
  BY <1>1, <1>2, <1>3 DEF Settled, Objects
<1>9. AccountInv'
  <2>1. IsFiniteSet(Archived') /\ Cardinality(Archived') = Cardinality(Archived) + 1
    BY <1>6, <1>7, <1>8, FS_AddElement
  <2>2. Settled' = Archived' \cup omissions \cup (Skippable \cap Settled')
    BY <1>6, <1>7, <1>8
  <2>3. objectsIncluded' + objectsSkipped = Current
    <3>1. objectsIncluded \in Nat /\ objectsSkipped \in Nat /\ Current \in Int
      BY <1>3 DEF IInv, JobTypeOK, Objects
    <3> DEFINE n == objectsIncluded
               m == objectsSkipped
               k == Current
    <3>2. n + m = k - 1 /\ n \in Nat /\ m \in Nat /\ k \in Int
      BY <3>1, <1>7
    <3>3. objectsIncluded' = n + 1
      BY <1>1
    <3> HIDE DEF n, m, k
    <3>4. objectsIncluded' + m = k
      BY <3>2, <3>3
    <3> QED
      BY <3>4 DEF m, k
  <2> QED
    BY <2>1, <2>2, <2>3, <1>1, <1>2, <1>7 DEF AccountInv
<1>10. EntriesInv'
  <2>1. /\ entries \in Seq(Requests) /\ EntriesInv
        /\ \A i \in 1..Len(entries) : entries[i] # Current /\ entries[i] # Manifest
    BY <1>1, <1>4, <1>7, <1>8 DEF IInv, JobTypeOK, EntriesInv, Archived
  <2>2. /\ Len(entries') = Len(entries) + 1
        /\ entries'[Len(entries) + 1] = Current
        /\ \A i \in 1..Len(entries) : entries'[i] = entries[i]
    BY <1>1, <1>4, <2>1
  <2> QED
    BY <2>1, <2>2, <1>4 DEF EntriesInv
<1>11. OutputInv'
  BY <1>1 DEF IInv, OutputInv
<1> QED
  BY <1>2, <1>5, <1>9, <1>10, <1>11 DEF IInv

LEMMA SaveStep == IInv /\ SaveSettles => IInv'
<1> SUFFICES ASSUME IInv, SaveSettles PROVE IInv'
  OBVIOUS
<1>1. /\ run = "saving" /\ run' \in {"listing", "threw"}
      /\ pack' \in {pack, "destroyed"} /\ body' \in {body, "destroyed"}
      /\ UNCHANGED <<s3vars, upload, job, objectsIncluded, objectsSkipped, omissions, entries>>
  BY DEF SaveSettles, Throw, BreakPipe, BreakPack, BreakBody, streams, counters, results
<1>2. S3TypeOK' /\ RetryInv' /\ ListingInv' /\ Current' = Current
  BY <1>1, RequestsUnchanged
<1>3. JobTypeOK'
  BY <1>1, <1>2 DEF IInv, JobTypeOK, Runs
<1>4. AccountInv'
  <2>1. CASE run' = "threw"
    BY <2>1, <1>1, AccountKept
  <2>2. CASE run' = "listing"
    <3>1. Settled' = Settled
      BY <2>2, <1>1, <1>2 DEF Settled
    <3> QED
      BY <2>2, <3>1, <1>1, <1>2, AccountKept
  <2> QED
    BY <2>1, <2>2, <1>1
<1>5. EntriesInv' /\ OutputInv'
  BY <1>1 DEF IInv, EntriesInv, OutputInv
<1> QED
  BY <1>2, <1>3, <1>4, <1>5 DEF IInv

LEMMA ListingFailsStep == IInv /\ ListingFails => IInv'
<1> SUFFICES ASSUME IInv, ListingFails PROVE IInv'
  OBVIOUS
<1>1. /\ run = "listing" /\ run' = "threw"
      /\ UNCHANGED <<s3vars, pack, body, upload, job>>
      /\ UNCHANGED <<objectsIncluded, objectsSkipped, omissions, entries>>
  BY DEF ListingFails, streams, counters, results
<1>2. S3TypeOK' /\ RetryInv' /\ ListingInv'
  BY <1>1, RequestsUnchanged
<1>3. JobTypeOK'
  BY <1>1, <1>2 DEF IInv, JobTypeOK, Runs
<1>4. AccountInv'
  BY <1>1, AccountKept
<1>5. EntriesInv' /\ OutputInv'
  BY <1>1 DEF IInv, EntriesInv, OutputInv
<1> QED
  BY <1>2, <1>3, <1>4, <1>5 DEF IInv

LEMMA ListingEndsStep == IInv /\ ListingEnds => IInv'
<1> SUFFICES ASSUME IInv, ListingEnds PROVE IInv'
  OBVIOUS
<1>1. /\ run = "listing" /\ run' \in {"manifest", "closing"} /\ ListingDone
      /\ UNCHANGED <<pack, body, upload, job>>
      /\ UNCHANGED <<objectsIncluded, objectsSkipped, omissions, entries>>
  BY DEF ListingEnds, streams, counters, results
<1>2. S3TypeOK' /\ RetryInv' /\ ListingInv' /\ Current' = Current
  BY <1>1, DoneEffect DEF IInv, JobTypeOK
<1>3. JobTypeOK'
  BY <1>1, <1>2 DEF IInv, JobTypeOK, Runs
<1>4. AccountInv'
  <2>1. Settled' = Settled
    BY <1>1, <1>2 DEF Settled
  <2> QED
    BY <2>1, <1>1, <1>2, AccountKept
<1>5. EntriesInv' /\ OutputInv'
  BY <1>1 DEF IInv, EntriesInv, OutputInv
<1> QED
  BY <1>2, <1>3, <1>4, <1>5 DEF IInv

LEMMA ManifestStep == IInv /\ WriteManifest => IInv'
<1> SUFFICES ASSUME IInv, WriteManifest PROVE IInv'
  OBVIOUS
<1>1. /\ run = "manifest" /\ run' \in {"closing", "threw"}
      /\ UNCHANGED <<s3vars, pack, body, upload, job, objectsIncluded, objectsSkipped, omissions>>
      /\ \/ run' = "closing" /\ entries' = Append(entries, Manifest)
         \/ run' = "threw" /\ entries' = entries
  BY DEF WriteManifest, streams, counters
<1>2. S3TypeOK' /\ RetryInv' /\ ListingInv' /\ Current' = Current
  BY <1>1, RequestsUnchanged DEF IInv, ListingInv
<1>3. Manifest \in Requests
  BY DEF Manifest, Requests, Listing
<1>4. JobTypeOK'
  BY <1>1, <1>2, <1>3 DEF IInv, JobTypeOK, Runs
<1>5. AccountInv'
  <2>1. CASE run' = "threw"
    BY <2>1, <1>1, AccountKept
  <2>2. CASE run' = "closing"
    <3>1. Archived' = Archived
      BY <2>2, <1>1, <1>3, AppendElements DEF IInv, JobTypeOK, Archived
    <3>2. Settled' = Settled
      BY <2>2, <1>1, <1>2 DEF Settled
    <3> QED
      BY <2>2, <3>1, <3>2, <1>1, <1>2 DEF IInv, AccountInv
  <2> QED
    BY <2>1, <2>2, <1>1
<1>6. EntriesInv'
  <2>1. CASE run' = "threw"
    BY <2>1, <1>1 DEF IInv, EntriesInv
  <2>2. CASE run' = "closing"
    <3>1. entries \in Seq(Requests) /\ \A i \in 1..Len(entries) : entries[i] # Manifest
      BY <1>1 DEF IInv, JobTypeOK, EntriesInv
    <3>2. /\ Len(entries') = Len(entries) + 1
          /\ entries'[Len(entries) + 1] = Manifest
          /\ \A i \in 1..Len(entries) : entries'[i] = entries[i]
      BY <2>2, <1>1, <1>3, <3>1
    <3> QED
      BY <2>2, <3>1, <3>2 DEF IInv, EntriesInv
  <2> QED
    BY <2>1, <2>2, <1>1
<1>7. OutputInv'
  BY <1>1 DEF IInv, OutputInv
<1> QED
  BY <1>2, <1>4, <1>5, <1>6, <1>7 DEF IInv

LEMMA PipelineStep == IInv /\ PipelineSettles => IInv'
<1> SUFFICES ASSUME IInv, PipelineSettles PROVE IInv'
  OBVIOUS
<1>1. /\ run = "closing"
      /\ \/ run' = "finished" /\ pack' = "finished" /\ body' = "ended"
         \/ run' = "threw" /\ pack' = pack /\ body' = body
      /\ UNCHANGED <<s3vars, upload, job, objectsIncluded, objectsSkipped, omissions, entries>>
  BY DEF PipelineSettles, counters, results
<1>2. S3TypeOK' /\ RetryInv' /\ ListingInv' /\ Current' = Current
  BY <1>1, RequestsUnchanged DEF IInv, ListingInv
<1>3. JobTypeOK'
  BY <1>1, <1>2 DEF IInv, JobTypeOK, Runs
<1>4. AccountInv'
  <2>1. CASE run' = "threw"
    BY <2>1, <1>1, AccountKept
  <2>2. CASE run' = "finished"
    <3>1. Settled' = Settled
      BY <2>2, <1>1, <1>2 DEF Settled
    <3> QED
      BY <2>2, <3>1, <1>1, <1>2, AccountKept
  <2> QED
    BY <2>1, <2>2, <1>1
<1>5. EntriesInv' /\ OutputInv'
  BY <1>1 DEF IInv, EntriesInv, OutputInv
<1> QED
  BY <1>2, <1>3, <1>4, <1>5 DEF IInv

(* The steps of runFolderArchiveToS3 and of the upload touch the output only. *)
LEMMA OutputStep ==
  IInv /\ (Platform \/ UploadSettles \/ UploadFails) => IInv'
<1> SUFFICES ASSUME IInv, Platform \/ UploadSettles \/ UploadFails PROVE IInv'
  OBVIOUS
<1>1. UNCHANGED <<s3vars, run, objectsIncluded, objectsSkipped, omissions, entries>>
  BY DEF Platform, PumpThrew, PumpFinished, UploadAwaited, UploadSettles, UploadFails,
         BreakPipe, streams, counters, results
<1>2. /\ pack' \in {pack, "destroyed"}
      /\ body' \in {body, "destroyed"} /\ (body = "ended" => body' = "ended")
  BY DEF Platform, PumpThrew, PumpFinished, UploadAwaited, UploadSettles, UploadFails,
         BreakPipe, BreakPack, BreakBody, streams
<1>3. \/ upload' = upload
      \/ upload' = "completed" /\ body = "ended" /\ body' = "ended"
      \/ upload = "running" /\ upload' = "failed"
  BY DEF Platform, PumpThrew, PumpFinished, UploadAwaited, UploadSettles, UploadFails, streams
<1>4. job' = "resolved" => \/ job = "resolved" /\ (upload' = upload \/ upload = "running")
                           \/ upload = "completed" /\ upload' = upload
  BY DEF Platform, PumpThrew, PumpFinished, UploadAwaited, UploadSettles, UploadFails, streams
<1>5. S3TypeOK' /\ RetryInv' /\ ListingInv' /\ Current' = Current
  BY <1>1, RequestsUnchanged DEF IInv, ListingInv
<1>6. JobTypeOK'
  BY <1>1, <1>2, <1>3, <1>5 DEF IInv, JobTypeOK
<1>7. AccountInv'
  <2>1. Settled' = Settled /\ Archived' = Archived
    BY <1>1, <1>5 DEF Settled, Archived
  <2> QED
    BY <2>1, <1>1, <1>5 DEF IInv, AccountInv
<1>8. EntriesInv'
  BY <1>1 DEF IInv, EntriesInv
<1>9. OutputInv'
  BY <1>1, <1>2, <1>3, <1>4 DEF IInv, OutputInv
<1> QED
  BY <1>5, <1>6, <1>7, <1>8, <1>9 DEF IInv

-----------------------------------------------------------------------------
LEMMA StepInv == IInv /\ [Next]_vars => IInv'
<1> SUFFICES ASSUME IInv, [Next]_vars PROVE IInv'
  OBVIOUS
<1>1. CASE Engine
  BY <1>1, AskStep, TakeStep, GetStep, FailStep, AppendStep, SaveStep,
     ListingFailsStep, ListingEndsStep, ManifestStep, PipelineStep DEF Engine
<1>2. CASE Platform \/ UploadSettles \/ UploadFails
  BY <1>2, OutputStep
<1>3. CASE RequestStep
  <2>1. S3TypeOK' /\ RetryInv' /\ ListingInv' /\ Current' = Current
    BY <1>3, RequestEffect DEF IInv, JobTypeOK
  <2> QED
    BY <2>1, <1>3, JobUnchanged DEF RequestStep
<1>4. CASE UNCHANGED vars
  <2>1. UNCHANGED s3vars /\ UNCHANGED <<run, streams, job, counters, results>>
    BY <1>4 DEF vars
  <2>2. S3TypeOK' /\ RetryInv' /\ ListingInv' /\ Current' = Current
    BY <2>1, RequestsUnchanged DEF IInv, ListingInv
  <2> QED
    BY <2>1, <2>2, JobUnchanged
<1> QED
  BY <1>1, <1>2, <1>3, <1>4 DEF Next

(* What the invariant says of an upload that has completed. *)
LEMMA CompletedIsWhole == IInv => UploadIsWhole
<1> SUFFICES ASSUME IInv, upload = "completed" PROVE Whole
  BY DEF IInv, OutputInv, UploadIsWhole
<1>1. run = "finished"
  BY DEF IInv, OutputInv
<1>2. received = NumObjects /\ buffered = 0 /\ ~ more
  BY <1>1 DEF IInv, ListingInv
<1>3. Current = NumObjects
  BY <1>2 DEF Current
<1>4. Settled = Objects
  BY <1>1, <1>3 DEF Settled, Objects
<1>5. Objects = Archived \cup omissions \cup Skippable
  BY <1>1, <1>4 DEF IInv, AccountInv
<1>6. /\ objectsIncluded = Cardinality(Archived)
      /\ objectsIncluded + objectsSkipped = NumObjects
  BY <1>1, <1>3 DEF IInv, AccountInv
<1>7. /\ \A i, j \in 1..Len(entries) : entries[i] = entries[j] => i = j
      /\ \A i \in 1..Len(entries) : entries[i] = Manifest => i = Len(entries)
  BY DEF IInv, EntriesInv
<1> QED
  BY <1>2, <1>5, <1>6, <1>7 DEF Whole

(* The requests and the job keep their types: no request makes more        *)
(* attempts than it may, whatever the page size and the number of objects. *)
THEOREM RequestTypes == Spec => []S3TypeOK
<1>1. IInv => S3TypeOK
  BY DEF IInv, JobTypeOK
<1> QED
  BY <1>1, InitInv, StepInv, PTL DEF Spec

(* An upload that completes is a whole archive, and a job that resolves    *)
(* has one, for every bucket, whatever failed or was aborted on the way.   *)
THEOREM CompletedUploadIsWhole == Spec => []UploadIsWhole
BY InitInv, StepInv, CompletedIsWhole, PTL DEF Spec

-----------------------------------------------------------------------------
(* A step of one request, or of the listing, against a request r whose     *)
(* signal has fired: r is left alone, or fails as its signal says.         *)
LEMMA FiredRequest ==
  ASSUME S3TypeOK, [Next]_vars, NEW r \in Requests, fired[r] # "none", phase[r] \in InProgress
  PROVE  /\ attempt'[r] = attempt[r]
         /\ phase'[r] \in {phase[r]} \cup Failures
         /\ fired[r] = "abort" => phase'[r] # "requestFailed"
<1> DEFINE Keeps == /\ attempt'[r] = attempt[r]
                    /\ phase'[r] \in {phase[r]} \cup Failures
                    /\ fired[r] = "abort" => phase'[r] # "requestFailed"
<1>0. /\ phase \in [Requests -> Phases] /\ attempt \in [Requests -> 0..MaxAttempts]
      /\ phase[r] \in {"sending", "backoff"}
      /\ Listing \in Requests /\ Objects \subseteq Requests
  BY DEF S3TypeOK, InProgress, Requests
<1>1. ASSUME UNCHANGED s3vars PROVE Keeps
  BY <1>0, <1>1 DEF s3vars, requestVars
<1>2. ASSUME NEW q \in Requests, AttemptFails(q) PROVE Keeps
  BY <1>0, <1>2 DEF AttemptFails, RetryLater, Become, Failures
<1>3. ASSUME NEW q \in Requests, Wake(q) PROVE Keeps
  BY <1>0, <1>3 DEF Wake, Become, Failures
<1>4. ASSUME NEW q \in Objects, BodyArrives(q) PROVE Keeps
  BY <1>0, <1>4 DEF BodyArrives, Become
<1>5. ASSUME PageArrives PROVE Keeps
  BY <1>0, <1>5 DEF PageArrives, Become
<1>6. ASSUME NEW q \in Requests, DeadlineFires(q) PROVE Keeps
  BY <1>0, <1>6 DEF DeadlineFires
<1>7. ASSUME AbortRun PROVE Keeps
  BY <1>0, <1>7 DEF AbortRun
<1>8. ASSUME RequestStep PROVE Keeps
  BY <1>2, <1>3, <1>4, <1>5, <1>6, <1>7, <1>8 DEF RequestStep, S3Step, AnswerTo
<1>9. ASSUME FetchPage PROVE Keeps
  BY <1>0, <1>9 DEF FetchPage, OpenRequest, Send, Become
<1>10. ASSUME NEW q \in Requests, OpenRequest(q) PROVE Keeps
  BY <1>0, <1>10 DEF OpenRequest, Become
<1>11. ASSUME ListingDone PROVE Keeps
  BY <1>0, <1>11 DEF ListingDone, Become
<1>12. ASSUME YieldNext PROVE Keeps
  BY <1>0, <1>12 DEF YieldNext, requestVars
<1>13. CASE Engine
  <2>1. ASSUME GetObject PROVE Keeps
    <3>1. Current \in Requests
      BY DEF S3TypeOK, Current, Requests, Objects, Listing
    <3> QED
      BY <2>1, <3>1, <1>10 DEF GetObject
  <2>2. ASSUME AskForObject \/ TakeObject \/ ListingEnds PROVE Keeps
    BY <2>2, <1>9, <1>11, <1>12 DEF AskForObject, TakeObject, ListingEnds
  <2>3. ASSUME GetFails \/ AppendDone \/ AppendFails \/ SaveSettles
               \/ ListingFails \/ WriteManifest \/ PipelineSettles
        PROVE  UNCHANGED s3vars
    BY <2>3 DEF GetFails, AppendDone, AppendFails, SaveSettles, ListingFails, WriteManifest,
                PipelineSettles
  <2> QED
    BY <1>13, <2>1, <2>2, <2>3, <1>1 DEF Engine
<1>14. CASE Platform \/ UploadSettles \/ UploadFails \/ UNCHANGED vars
  <2>1. UNCHANGED s3vars
    BY <1>14 DEF Platform, PumpThrew, PumpFinished, UploadAwaited, UploadSettles, UploadFails, vars
  <2> QED
    BY <2>1, <1>1
<1> QED
  BY <1>8, <1>13, <1>14 DEF Next

(* Once the signal of a request has fired there is no further attempt, and *)
(* an abort is reported as one, for any number of attempts and requests.   *)
THEOREM NoRetryAfterSignal == Spec => AbortEndsRetries
<1>1. S3TypeOK /\ [Next]_vars =>
        [\A r \in Requests :
           fired[r] # "none" /\ phase[r] \in InProgress =>
             /\ attempt'[r] = attempt[r]
             /\ phase'[r] \in {phase[r]} \cup Failures
             /\ fired[r] = "abort" => phase'[r] # "requestFailed"]_s3vars
  BY FiredRequest
<1> QED
  BY <1>1, RequestTypes, PTL DEF Spec, AbortEndsRetries
=============================================================================
