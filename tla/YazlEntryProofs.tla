--------------------------- MODULE YazlEntryProofs ---------------------------
(***************************************************************************)
(* For any number of entries: after an error of the zip file no append is  *)
(* left waiting.  With the bodies of ObjectBody in front, whatever the     *)
(* chain of stages: an append that resolves has written the whole body,    *)
(* and the bytes its ETag stands for where they are verified, and an error *)
(* of a body goes unheard in the listed gaps only (HearInv: a promise is   *)
(* rejected for an error of the zip file or of its own body, so a body     *)
(* still on its way has its append listening).                             *)
(***************************************************************************)
EXTENDS ObjectBody, TLAPS

(* The counters and the promises; the errors and the loops are typed apart. *)
ResultTypes ==
  /\ appended \in Nat /\ appended <= NumEntries
  /\ encoded \in Nat /\ encoded <= appended
  /\ result \in [Entries -> {"none", "pending", "resolved", "rejected"}]

(* Auxiliary: the entry of an append that resolved is encoded. *)
ResolvedIsEncoded == \A e \in Entries : result[e] = "resolved" => e <= encoded

IInv == ResultTypes /\ ResolvedIsEncoded /\ ErrorReachesAppends

LEMMA InitInv == Init => IInv
BY EntriesAssumption
   DEF Init, IInv, ResultTypes, ResolvedIsEncoded, ErrorReachesAppends, Entries

(* A settled promise stays as it is. *)
LEMMA SettleResult ==
  ASSUME NEW e \in Entries, NEW how \in {"resolved", "rejected"},
         result \in [Entries -> {"none", "pending", "resolved", "rejected"}],
         result' = Settle(result, e, how)
  PROVE  /\ result' \in [Entries -> {"none", "pending", "resolved", "rejected"}]
         /\ \A d \in Entries : result'[d] = result[d] \/ (d = e /\ result'[d] = how)
BY DEF Settle

LEMMA StepInv == IInv /\ [Next]_vars => IInv'
<1> SUFFICES ASSUME IInv, [Next]_vars PROVE IInv'
  OBVIOUS
<1> USE DEF IInv, ResultTypes, ResolvedIsEncoded, ErrorReachesAppends
<1>1. CASE AppendEntry
  <2>1. /\ appended' = appended + 1 /\ appended' <= NumEntries /\ appended' \in Entries
        /\ UNCHANGED <<encoded, errored>>
    BY <1>1, EntriesAssumption DEF AppendEntry, Entries
  <2>2. result' = [result EXCEPT ![appended + 1] = IF errored THEN "rejected" ELSE "pending"]
    BY <1>1 DEF AppendEntry
  <2>3. result' \in [Entries -> {"none", "pending", "resolved", "rejected"}]
    BY <2>1, <2>2
  <2>4. ResolvedIsEncoded' /\ ErrorReachesAppends'
    BY <2>1, <2>2
  <2> QED
    BY <2>1, <2>3, <2>4
<1>2. CASE Encode
  BY <1>2 DEF Encode, Entries
<1>3. CASE ZipError
  BY <1>3 DEF ZipError
<1>4. ASSUME NEW e \in Entries, Poll(e) PROVE IInv'
  <2>1. PICK how \in {"resolved", "rejected"} :
          result' = Settle(result, e, how) /\ (how = "resolved" => e <= encoded)
    BY <1>4 DEF Poll
  <2>2. UNCHANGED <<appended, encoded, errored>>
    BY <1>4 DEF Poll
  <2> QED
    BY <2>1, <2>2, SettleResult
<1>5. ASSUME NEW e \in Entries, StreamError(e) PROVE IInv'
  <2>1. result' = Settle(result, e, "rejected") /\ UNCHANGED <<appended, encoded, errored>>
    BY <1>5 DEF StreamError
  <2> QED
    BY <2>1, SettleResult
<1>6. CASE UNCHANGED vars
  BY <1>6 DEF vars
<1> QED
  BY <1>1, <1>2, <1>3, <1>4, <1>5, <1>6 DEF Next

(* An error of the zip file leaves no append waiting. *)
THEOREM NoAppendOutlivesError == Spec => []ErrorReachesAppends
<1>1. IInv => ErrorReachesAppends
  BY DEF IInv
<1> QED
  BY <1>1, InitInv, StepInv, PTL DEF Spec

-----------------------------------------------------------------------------

BodyStates == {"none", "paused", "flowing", "ended", "errored"}

BodyTypes ==
  /\ fetched \in Nat
  /\ body \in [Entries -> [at : BodyStates, read : Nat, intact : BOOLEAN]]

(* A body that was not fetched has not begun. *)
NotBegun == \A e \in Entries : e > fetched => body[e].at = "none"

(* An ended body has been read and verified, and yazl encodes ended bodies. *)
EndedIsWhole ==
  \A e \in Entries : body[e].at = "ended" =>
    body[e].read = NumChunks /\ ("md5" \in chain => body[e].intact)

EncodedIsEnded == \A e \in Entries : e <= encoded => body[e].at = "ended"

BodyInv == IInv /\ BodyTypes /\ NotBegun /\ EndedIsWhole /\ EncodedIsEnded

LEMMA BodyInitInv == BodyInit => BodyInv
BY InitInv, EntriesAssumption
   DEF BodyInit, BodyInv, BodyTypes, BodyStates, NotBegun, EndedIsWhole, EncodedIsEnded,
       Init, Entries

(* A step with the bodies is a step of the appends, or leaves them alone. *)
LEMMA BodyStep == [BodyNext]_allVars => [Next]_vars
<1> SUFFICES ASSUME [BodyNext]_allVars PROVE [Next]_vars
  OBVIOUS
<1>1. CASE UNCHANGED allVars
  BY <1>1 DEF allVars
<1>2. CASE Fetch \/ Append1 \/ EncodeBody \/ ZipFails
  BY <1>2 DEF Fetch, Append1, EncodeBody, ZipFails, Next
<1>3. ASSUME NEW e \in Entries, NEW k, ErrorAt(e, k) PROVE [Next]_vars
  BY <1>3 DEF ErrorAt, Next
<1>4. ASSUME NEW e \in Entries, Chunk(e) \/ SourceFails(e) \/ EndBody(e) \/ PollBody(e)
      PROVE  [Next]_vars
  BY <1>3, <1>4 DEF Chunk, SourceFails, EndBody, EndsWell, PollBody, Next
<1> QED
  BY <1>1, <1>2, <1>4 DEF BodyNext

(* A step that changes body e to t, well typed and whole if it has ended. *)
LEMMA OneBody ==
  ASSUME BodyInv, NEW e \in Entries, NEW t \in [at : BodyStates, read : Nat, intact : BOOLEAN],
         body' = [body EXCEPT ![e] = t], chain' = chain,
         fetched' \in Nat, fetched <= fetched', e <= fetched',
         body[e].at = "ended" => t = body[e],
         t.at = "ended" => t.read = NumChunks /\ ("md5" \in chain => t.intact)
  PROVE  /\ BodyTypes' /\ NotBegun' /\ EndedIsWhole'
         /\ \A d \in Entries : body[d].at = "ended" => body'[d] = body[d]
<1> USE DEF BodyInv, BodyTypes
<1>1. \A d \in Entries : body'[d] = IF d = e THEN t ELSE body[d]
  OBVIOUS
<1>2. BodyTypes'
  OBVIOUS
<1>3. NotBegun'
  BY <1>1 DEF NotBegun, Entries
<1>4. EndedIsWhole'
  BY <1>1 DEF EndedIsWhole
<1> QED
  BY <1>1, <1>2, <1>3, <1>4

(* What a step does to the bodies: one that has ended stays as it is. *)
LEMMA BodyChange ==
  ASSUME BodyInv, [BodyNext]_allVars
  PROVE  /\ BodyTypes' /\ NotBegun' /\ EndedIsWhole'
         /\ \A e \in Entries : body[e].at = "ended" => body'[e] = body[e]
<1> DEFINE Goal == /\ BodyTypes' /\ NotBegun' /\ EndedIsWhole'
                   /\ \A e \in Entries : body[e].at = "ended" => body'[e] = body[e]
<1>0. ASSUME UNCHANGED <<chain, fetched, body>> PROVE Goal
  BY <1>0 DEF BodyInv, BodyTypes, NotBegun, EndedIsWhole
<1>1. CASE UNCHANGED allVars \/ EncodeBody \/ ZipFails
  BY <1>0, <1>1 DEF allVars, bodyVars, EncodeBody, ZipFails
<1>2. CASE Fetch
  <2>1. /\ chain' = chain /\ fetched' = fetched + 1
        /\ body' = [body EXCEPT ![fetched + 1] = [body[fetched + 1] EXCEPT !.at = "paused"]]
    BY <1>2 DEF Fetch
  <2>2. fetched + 1 \in Entries /\ fetched \in Nat
    BY <1>2, EntriesAssumption DEF Fetch, BodyInv, BodyTypes, Entries
  <2>3. body[fetched + 1].at = "none"
    BY <2>2 DEF BodyInv, NotBegun
  <2> DEFINE t == [body[fetched + 1] EXCEPT !.at = "paused"]
  <2>4. t \in [at : BodyStates, read : Nat, intact : BOOLEAN] /\ t.at = "paused"
    BY <2>2 DEF BodyInv, BodyTypes, BodyStates
  <2> HIDE DEF t
  <2>5. body' = [body EXCEPT ![fetched + 1] = t]
    BY <2>1 DEF t
  <2>6. fetched' \in Nat /\ fetched <= fetched' /\ fetched + 1 <= fetched'
    BY <2>1, <2>2
  <2> QED
    BY <2>1, <2>2, <2>3, <2>4, <2>5, <2>6, OneBody
<1>3. CASE Append1
  <2>1. /\ chain' = chain /\ fetched' = fetched
        /\ body' = [body EXCEPT ![appended + 1] = Resume(body[appended + 1])]
    BY <1>3 DEF Append1
  <2>2. appended + 1 \in Entries /\ appended + 1 <= fetched /\ fetched \in Nat
    BY <1>3, EntriesAssumption
       DEF Append1, AppendEntry, BodyInv, BodyTypes, IInv, ResultTypes, Entries
  <2> DEFINE t == Resume(body[appended + 1])
  <2>3. /\ t \in [at : BodyStates, read : Nat, intact : BOOLEAN]
        /\ t = body[appended + 1] \/ t.at = "flowing"
        /\ body[appended + 1].at = "ended" => t = body[appended + 1]
    BY <2>2 DEF BodyInv, BodyTypes, BodyStates, Resume
  <2> HIDE DEF t
  <2>4. body' = [body EXCEPT ![appended + 1] = t]
    BY <2>1 DEF t
  <2>5. t.at = "ended" => t.read = NumChunks /\ ("md5" \in chain => t.intact)
    BY <2>2, <2>3 DEF BodyInv, EndedIsWhole
  <2>6. fetched' \in Nat /\ fetched <= fetched' /\ appended + 1 <= fetched'
    BY <2>1, <2>2
  <2> QED
    BY <2>1, <2>2, <2>3, <2>4, <2>5, <2>6, OneBody
<1>4. ASSUME NEW e \in Entries, NEW t \in [at : BodyStates, read : Nat, intact : BOOLEAN],
             body' = [body EXCEPT ![e] = t], UNCHANGED <<chain, fetched>>,
             body[e].at \in {"paused", "flowing"},
             t.at = "ended" => t.read = NumChunks /\ ("md5" \in chain => t.intact)
      PROVE  Goal
  <2>1. e <= fetched /\ fetched \in Nat
    BY <1>4 DEF BodyInv, BodyTypes, NotBegun, Entries
  <2>2. fetched' \in Nat /\ fetched <= fetched' /\ e <= fetched' /\ chain' = chain
    BY <2>1, <1>4
  <2>3. body[e].at # "ended"
    BY <1>4
  <2> QED
    BY <1>4, <2>2, <2>3, OneBody
<1>5. ASSUME NEW e \in Entries, Chunk(e) PROVE Goal
  <2> DEFINE t == [body[e] EXCEPT !.read = @ + 1]
  <2>1. /\ body' = [body EXCEPT ![e] = t] /\ UNCHANGED <<chain, fetched>>
        /\ body[e].at = "flowing"
    BY <1>5 DEF Chunk
  <2>2. t \in [at : BodyStates, read : Nat, intact : BOOLEAN] /\ t.at = "flowing"
    BY <2>1 DEF BodyInv, BodyTypes, BodyStates
  <2> HIDE DEF t
  <2> QED
    BY <1>4, <2>1, <2>2
<1>6. ASSUME NEW e \in Entries, NEW k, ErrorAt(e, k), body[e].at \in {"paused", "flowing"}
      PROVE  Goal
  <2> DEFINE t == [body[e] EXCEPT !.at = "errored"]
  <2>1. body' = [body EXCEPT ![e] = t] /\ UNCHANGED <<chain, fetched>>
    BY <1>6 DEF ErrorAt
  <2>2. t \in [at : BodyStates, read : Nat, intact : BOOLEAN] /\ t.at = "errored"
    BY DEF BodyInv, BodyTypes, BodyStates
  <2> HIDE DEF t
  <2> QED
    BY <1>4, <1>6, <2>1, <2>2
<1>7. ASSUME NEW e \in Entries, EndBody(e) PROVE Goal
  <2>1. body[e].at = "flowing" /\ body[e].read = NumChunks
    BY <1>7 DEF EndBody
  <2>2. PICK intact \in BOOLEAN :
          IF "md5" \in chain /\ ~ intact THEN ErrorAt(e, Verifier) ELSE EndsWell(e, intact)
    BY <1>7 DEF EndBody
  <2>3. CASE "md5" \in chain /\ ~ intact
    BY <1>6, <2>1, <2>2, <2>3
  <2>4. CASE ~ ("md5" \in chain /\ ~ intact)
    <3> DEFINE t == [body[e] EXCEPT !.at = "ended", !.intact = intact]
    <3>1. body' = [body EXCEPT ![e] = t] /\ UNCHANGED <<chain, fetched>>
      BY <2>2, <2>4 DEF EndsWell
    <3>2. /\ t \in [at : BodyStates, read : Nat, intact : BOOLEAN]
          /\ t.read = NumChunks /\ t.intact = intact
      BY <2>1 DEF BodyInv, BodyTypes, BodyStates
    <3> HIDE DEF t
    <3> QED
      BY <1>4, <2>1, <2>4, <3>1, <3>2
  <2> QED
    BY <2>3, <2>4
<1>8. ASSUME NEW e \in Entries, SourceFails(e) \/ PollBody(e) PROVE Goal
  BY <1>0, <1>6, <1>8 DEF SourceFails, PollBody, bodyVars
<1> QED
  BY <1>1, <1>2, <1>3, <1>5, <1>7, <1>8 DEF BodyNext

(* yazl encodes the next entry when its body has ended, and only then. *)
LEMMA EncodedChange ==
  ASSUME BodyInv, [BodyNext]_allVars
  PROVE  encoded' = encoded \/ (encoded' = encoded + 1 /\ body[encoded + 1].at = "ended")
<1>1. CASE UNCHANGED allVars
  BY <1>1 DEF allVars, vars
<1>2. CASE Fetch \/ Append1 \/ EncodeBody \/ ZipFails
  BY <1>2 DEF Fetch, Append1, AppendEntry, EncodeBody, Encode, ZipFails, ZipError, vars
<1>3. ASSUME NEW e \in Entries, NEW k, ErrorAt(e, k) PROVE encoded' = encoded
  BY <1>3 DEF ErrorAt, StreamError, vars
<1>4. ASSUME NEW e \in Entries, Chunk(e) \/ SourceFails(e) \/ EndBody(e) \/ PollBody(e)
      PROVE  encoded' = encoded
  BY <1>3, <1>4 DEF Chunk, SourceFails, EndBody, EndsWell, PollBody, Poll, vars
<1> QED
  BY <1>1, <1>2, <1>4 DEF BodyNext

LEMMA BodyStepInv == BodyInv /\ [BodyNext]_allVars => BodyInv'
<1> SUFFICES ASSUME BodyInv, [BodyNext]_allVars PROVE BodyInv'
  OBVIOUS
<1>1. IInv'
  BY BodyStep, StepInv DEF BodyInv
<1>2. BodyTypes' /\ NotBegun' /\ EndedIsWhole'
  BY BodyChange
<1>3. EncodedIsEnded'
  <2>1. \A e \in Entries : body[e].at = "ended" => body'[e] = body[e]
    BY BodyChange
  <2> QED
    BY <2>1, EncodedChange DEF BodyInv, EncodedIsEnded, IInv, ResultTypes, Entries
<1> QED
  BY <1>1, <1>2, <1>3 DEF BodyInv

(* Whatever stages a run puts behind the bodies, and wherever errors go:   *)
(* an append that resolves has written the whole, verified body.           *)
THEOREM BodiesAreWhole == BodySpec => []ResolvedIsWhole
<1>1. BodyInv => ResolvedIsWhole
  BY DEF BodyInv, IInv, ResolvedIsEncoded, EncodedIsEnded, EndedIsWhole, ResolvedIsWhole
<1> QED
  BY <1>1, BodyInitInv, BodyStepInv, PTL DEF BodySpec

(* With the bodies in front of the adapter, too, an error of the zip file  *)
(* leaves no append waiting.                                               *)
THEOREM NoBodyOutlivesError == BodySpec => []ErrorReachesAppends
<1>1. BodyInv => ErrorReachesAppends
  BY DEF BodyInv, IInv
<1> QED
  BY <1>1, BodyInitInv, BodyStepInv, PTL DEF BodySpec

-----------------------------------------------------------------------------
(* Who hears an error.  What a loop read of `errored` stays true, an entry *)
(* handed over has a promise, a promise is rejected for an error of the    *)
(* zip file or of its own body, and a body flows once it is appended.      *)
SnapshotIsTrue ==
  /\ errored \in BOOLEAN
  /\ snapshot \in [Entries -> BOOLEAN]
  /\ \A e \in Entries : snapshot[e] => errored

HandedOver == \A e \in Entries : e <= appended => result[e] # "none"

RejectedForAReason ==
  \A e \in Entries : result[e] = "rejected" => errored \/ body[e].at = "errored"

FlowsInItsTurn ==
  \A e \in Entries : body[e].at \in {"flowing", "ended"} => e <= appended

HearInv == BodyInv /\ SnapshotIsTrue /\ HandedOver /\ RejectedForAReason /\ FlowsInItsTurn

LEMMA HearInit == BodyInit => HearInv
<1> SUFFICES ASSUME BodyInit PROVE HearInv
  OBVIOUS
<1>1. BodyInv
  BY BodyInitInv
<1>2. SnapshotIsTrue /\ RejectedForAReason
  BY DEF BodyInit, Init, SnapshotIsTrue, RejectedForAReason
<1>3. HandedOver
  BY EntriesAssumption DEF BodyInit, Init, HandedOver, Entries
<1>4. FlowsInItsTurn
  BY DEF BodyInit, FlowsInItsTurn
<1> QED
  BY <1>1, <1>2, <1>3, <1>4 DEF HearInv

(* A body in error stays in error. *)
LEMMA ErrorsLast ==
  ASSUME BodyInv, [BodyNext]_allVars, NEW e \in Entries, body[e].at = "errored"
  PROVE  body'[e].at = "errored"
<1> USE DEF BodyInv, BodyTypes
<1>1. ASSUME NEW d \in Entries, NEW k, ErrorAt(d, k) PROVE body'[e].at = "errored"
  BY <1>1 DEF ErrorAt
<1>2. CASE Fetch
  <2>1. fetched + 1 \in Entries /\ fetched + 1 > fetched
    BY <1>2, EntriesAssumption DEF Fetch, Entries
  <2>2. e # fetched + 1
    BY <2>1 DEF NotBegun
  <2> QED
    BY <1>2, <2>2 DEF Fetch
<1>3. CASE Append1
  BY <1>3 DEF Append1, Resume
<1>4. CASE EncodeBody \/ ZipFails \/ UNCHANGED allVars
  BY <1>4 DEF EncodeBody, ZipFails, allVars, bodyVars
<1>5. ASSUME NEW d \in Entries, Chunk(d) \/ SourceFails(d) \/ EndBody(d) \/ PollBody(d)
      PROVE  body'[e].at = "errored"
  BY <1>1, <1>5 DEF Chunk, SourceFails, EndBody, EndsWell, PollBody, bodyVars
<1> QED
  BY <1>2, <1>3, <1>4, <1>5, <1>1 DEF BodyNext

(* What a step does to the promises, apart from the errors. *)
LEMMA PromiseChange ==
  ASSUME HearInv, [BodyNext]_allVars
  PROVE  SnapshotIsTrue' /\ HandedOver' /\ RejectedForAReason'
<1> DEFINE Goal == SnapshotIsTrue' /\ HandedOver' /\ RejectedForAReason'
<1> USE DEF SnapshotIsTrue, HandedOver, RejectedForAReason
<1>a. /\ BodyInv /\ SnapshotIsTrue /\ HandedOver /\ RejectedForAReason
      /\ ResultTypes
  BY DEF HearInv, BodyInv, IInv
<1>b. \A e \in Entries : body[e].at = "errored" => body'[e].at = "errored"
  BY <1>a, ErrorsLast
<1>0. ASSUME UNCHANGED vars PROVE Goal
  BY <1>a, <1>b, <1>0 DEF vars
<1>1. CASE Append1
  <2>1. /\ appended' = appended + 1 /\ errored' = errored
        /\ appended + 1 \in Entries
        /\ snapshot' = [snapshot EXCEPT ![appended + 1] = errored]
        /\ result' = [result EXCEPT ![appended + 1] = IF errored THEN "rejected" ELSE "pending"]
    BY <1>1, <1>a, EntriesAssumption DEF Append1, AppendEntry, ResultTypes, Entries
  <2>2. SnapshotIsTrue'
    BY <1>a, <2>1
  <2>3. \A e \in Entries : e # appended + 1 => result'[e] = result[e]
    BY <2>1, <1>a DEF ResultTypes
  <2>4. result'[appended + 1] = IF errored THEN "rejected" ELSE "pending"
    BY <2>1, <1>a DEF ResultTypes
  <2>5. HandedOver'
    BY <2>1, <2>3, <2>4, <1>a DEF ResultTypes, Entries
  <2>6. RejectedForAReason'
    BY <2>1, <2>3, <2>4, <1>a, <1>b
  <2> QED
    BY <2>2, <2>5, <2>6
<1>2. ASSUME NEW e \in Entries, StreamError(e), body'[e].at = "errored" PROVE Goal
  <2>1. /\ result' = Settle(result, e, "rejected")
        /\ UNCHANGED <<appended, errored, snapshot>>
    BY <1>2 DEF StreamError
  <2>2. \A d \in Entries : result'[d] = result[d] \/ (d = e /\ result'[d] = "rejected")
    BY <2>1, <1>a, SettleResult DEF ResultTypes
  <2>3. SnapshotIsTrue' /\ HandedOver'
    BY <1>a, <2>1, <2>2
  <2>4. RejectedForAReason'
    BY <1>a, <1>b, <1>2, <2>1, <2>2
  <2> QED
    BY <2>3, <2>4
<1>3. ASSUME NEW e \in Entries, NEW k, ErrorAt(e, k) PROVE Goal
  <2>1. body'[e].at = "errored"
    BY <1>3, <1>a DEF ErrorAt, BodyInv, BodyTypes
  <2>2. StreamError(e) \/ UNCHANGED vars
    BY <1>3 DEF ErrorAt
  <2> QED
    BY <2>1, <2>2, <1>0, <1>2
<1>4. ASSUME NEW e \in Entries, Poll(e) PROVE Goal
  <2>1. PICK how \in {"resolved", "rejected"} :
          result' = Settle(result, e, how) /\ (how = "rejected" => snapshot[e])
    BY <1>4 DEF Poll
  <2>2. UNCHANGED <<appended, errored, snapshot>>
    BY <1>4 DEF Poll
  <2>3. \A d \in Entries : result'[d] = result[d] \/ (d = e /\ result'[d] = how)
    BY <2>1, <1>a, SettleResult DEF ResultTypes
  <2>4. SnapshotIsTrue' /\ HandedOver'
    BY <1>a, <2>2, <2>3
  <2>5. how = "rejected" => errored
    BY <1>a, <2>1
  <2>6. RejectedForAReason'
    BY <1>a, <1>b, <2>2, <2>3, <2>5
  <2> QED
    BY <2>4, <2>6
<1>5. CASE Encode
  BY <1>5, <1>a, <1>b DEF Encode
<1>6. CASE ZipError
  <2>1. errored' = TRUE /\ UNCHANGED <<appended, snapshot>>
    BY <1>6 DEF ZipError
  <2>2. \A d \in Entries : result'[d] = IF result[d] = "pending" THEN "rejected" ELSE result[d]
    BY <1>6 DEF ZipError
  <2> QED
    BY <1>a, <2>1, <2>2
<1>7. ASSUME NEW e \in Entries, Chunk(e) \/ SourceFails(e) \/ EndBody(e) \/ PollBody(e)
      PROVE  Goal
  BY <1>7, <1>0, <1>3, <1>4 DEF Chunk, SourceFails, EndBody, EndsWell, PollBody
<1>8. CASE Fetch \/ EncodeBody \/ ZipFails \/ UNCHANGED allVars
  BY <1>8, <1>0, <1>5, <1>6 DEF Fetch, EncodeBody, ZipFails, allVars
<1> QED
  BY <1>1, <1>7, <1>8 DEF BodyNext

(* A body begins to flow in the step that appends it. *)
LEMMA FlowStep ==
  ASSUME HearInv, [BodyNext]_allVars
  PROVE  FlowsInItsTurn'
<1>a. FlowsInItsTurn /\ BodyTypes /\ ResultTypes
  BY DEF HearInv, BodyInv, IInv
<1>0. ASSUME appended' = appended,
             \A e \in Entries :
               \/ body'[e].at = body[e].at
               \/ body'[e].at \in {"paused", "errored"}
               \/ body[e].at = "flowing"
      PROVE  FlowsInItsTurn'
  BY <1>a, <1>0 DEF FlowsInItsTurn
<1>1. CASE Append1
  <2>1. /\ appended' = appended + 1
        /\ body' = [body EXCEPT ![appended + 1] = Resume(@)]
    BY <1>1 DEF Append1, AppendEntry
  <2>2. \A e \in Entries : e # appended + 1 => body'[e] = body[e]
    BY <2>1, <1>a DEF BodyTypes
  <2> QED
    BY <2>1, <2>2, <1>a DEF FlowsInItsTurn, ResultTypes, Entries
<1>2. CASE Fetch
  <2>1. \A e \in Entries : body'[e].at = body[e].at \/ body'[e].at = "paused"
    BY <1>2, <1>a DEF Fetch, BodyTypes
  <2> QED
    BY <1>0, <1>2, <2>1 DEF Fetch, vars
<1>3. CASE EncodeBody \/ ZipFails \/ UNCHANGED allVars
  BY <1>0, <1>3 DEF EncodeBody, Encode, ZipFails, ZipError, allVars, vars, bodyVars
<1>4. ASSUME NEW d \in Entries, NEW k, ErrorAt(d, k) PROVE FlowsInItsTurn'
  <2>1. \A e \in Entries : body'[e].at = body[e].at \/ body'[e].at = "errored"
    BY <1>4, <1>a DEF ErrorAt, BodyTypes
  <2>2. appended' = appended
    BY <1>4 DEF ErrorAt, StreamError, vars
  <2> QED
    BY <1>0, <2>1, <2>2
<1>5. ASSUME NEW d \in Entries, Chunk(d) PROVE FlowsInItsTurn'
  <2>1. \A e \in Entries : body'[e].at = body[e].at
    BY <1>5, <1>a DEF Chunk, BodyTypes
  <2> QED
    BY <1>0, <1>5, <2>1 DEF Chunk, vars
<1>6. ASSUME NEW d \in Entries, NEW intact \in BOOLEAN, EndsWell(d, intact), body[d].at = "flowing"
      PROVE  FlowsInItsTurn'
  <2>1. \A e \in Entries : body'[e].at = body[e].at \/ body[e].at = "flowing"
    BY <1>6, <1>a DEF EndsWell, BodyTypes
  <2> QED
    BY <1>0, <1>6, <2>1 DEF EndsWell, vars
<1>7. ASSUME NEW d \in Entries, SourceFails(d) \/ EndBody(d) \/ PollBody(d)
      PROVE  FlowsInItsTurn'
  BY <1>0, <1>4, <1>6, <1>7 DEF SourceFails, EndBody, PollBody, Poll, bodyVars
<1> QED
  BY <1>1, <1>2, <1>3, <1>5, <1>7 DEF BodyNext

LEMMA HearStep == HearInv /\ [BodyNext]_allVars => HearInv'
BY PromiseChange, FlowStep, BodyStepInv DEF HearInv

(* Why an error of a body still on its way goes unheard: a stage behind    *)
(* its origin does not listen, the append was not called yet, or the zip   *)
(* file had failed.                                                        *)
LEMMA Unheard ==
  ASSUME HearInv, NEW e \in Entries, NEW k, body[e].at \in {"paused", "flowing"}, ~ Heard(e, k)
  PROVE  DeafStages(k) # {} \/ e > appended \/ errored
<1>1. CASE ~ Listened(e) /\ e <= appended
  <2>1. result[e] # "pending" /\ (e > encoded + 1 \/ snapshot[e])
    BY <1>1 DEF Listened, HearInv, BodyInv, IInv, ResultTypes, Entries
  <2>2. result[e] \in {"resolved", "rejected"}
    BY <1>1, <2>1 DEF HearInv, HandedOver, BodyInv, IInv, ResultTypes
  <2>3. result[e] # "resolved"
    BY DEF HearInv, BodyInv, IInv, ResolvedIsEncoded, EncodedIsEnded
  <2>4. errored \/ body[e].at = "errored"
    BY <2>2, <2>3 DEF HearInv, RejectedForAReason
  <2> QED
    BY <2>4
<1>2. e > appended \/ e <= appended
  BY DEF HearInv, BodyInv, IInv, ResultTypes, Entries
<1> QED
  BY <1>1, <1>2 DEF Heard

(* The only stages that do not listen are the verifier and the user's, and *)
(* only the user's may come after the verifier.                            *)
LEMMA DeafOnes ==
  /\ DeafStages(Raw) # {} => chain \cap {"md5", "deaf"} # {}
  /\ DeafStages(Verifier) # {} => "deaf" \in chain
<1>1. ASSUME NEW k, NEW n \in DeafStages(k)
      PROVE  n \in 1..5 => Stages[n] \in chain \cap {"md5", "deaf"}
  BY <1>1 DEF DeafStages, StagesAfter, Forwards, Stages
<1>2. \A n \in DeafStages(Raw) : n \in 1..5
  BY DEF DeafStages, StagesAfter, Stages, Raw
<1>3. \A n \in DeafStages(Verifier) : n \in 3..5
  BY DEF DeafStages, StagesAfter, Stages, Verifier
<1>4. \A n \in 3..5 : Stages[n] # "md5"
  BY DEF Stages
<1>5. \A n \in DeafStages(Verifier) : Stages[n] = "deaf" /\ Stages[n] \in chain
  BY <1>1, <1>3, <1>4
<1> QED
  BY <1>1, <1>2, <1>5

LEMMA GapStep ==
  HearInv /\ [BodyNext]_allVars =>
    [\A e \in Entries, k \in {Raw, Verifier} : <<e, k>> \in unheard' \ unheard =>
       \/ "deaf" \in chain
       \/ "md5" \in chain /\ k = Raw
       \/ k = Raw /\ e > appended
       \/ errored]_allVars
<1> DEFINE Gap(e, k) == \/ "deaf" \in chain
                        \/ "md5" \in chain /\ k = Raw
                        \/ k = Raw /\ e > appended
                        \/ errored
<1> SUFFICES ASSUME HearInv, BodyNext, NEW e \in Entries, NEW k \in {Raw, Verifier},
                    <<e, k>> \in unheard' \ unheard
             PROVE  Gap(e, k)
  OBVIOUS
<1>1. ASSUME NEW d \in Entries, NEW j \in {Raw, Verifier}, ErrorAt(d, j)
      PROVE  d = e /\ j = k /\ ~ Heard(e, k)
  BY <1>1 DEF ErrorAt
<1>2. ASSUME NEW d \in Entries, SourceFails(d) PROVE Gap(e, k)
  <2>1. d = e /\ k = Raw /\ ~ Heard(e, Raw) /\ body[e].at \in {"paused", "flowing"}
    BY <1>1, <1>2 DEF SourceFails
  <2> QED
    BY <2>1, Unheard, DeafOnes
<1>3. ASSUME NEW d \in Entries, EndBody(d) PROVE Gap(e, k)
  <2>1. ErrorAt(d, Verifier) /\ body[d].at = "flowing"
    BY <1>3 DEF EndBody, EndsWell
  <2>2. d = e /\ k = Verifier /\ ~ Heard(e, Verifier)
    BY <1>1, <2>1
  <2>3. ~ (e > appended)
    BY <2>1, <2>2 DEF HearInv, FlowsInItsTurn, BodyInv, IInv, ResultTypes, Entries
  <2> QED
    BY <2>1, <2>2, <2>3, Unheard, DeafOnes
<1>4. ~ (Fetch \/ Append1 \/ EncodeBody \/ ZipFails)
  BY DEF Fetch, Append1, EncodeBody, ZipFails, bodyVars
<1>5. \A d \in Entries : ~ Chunk(d) /\ ~ PollBody(d)
  BY DEF Chunk, PollBody, bodyVars
<1> QED
  BY <1>2, <1>3, <1>4, <1>5 DEF BodyNext

(* An error of a body goes unheard in the listed gaps only, for any number *)
(* of bodies, any concurrency and every chain of stages.                   *)
THEOREM ErrorsAreHeard == BodySpec => UnheardOnlyInGaps
BY HearInit, HearStep, GapStep, PTL DEF BodySpec, UnheardOnlyInGaps
=============================================================================
