------------------------------- MODULE Listing -------------------------------
(***************************************************************************)
(* Where a run's objects come from: the listings of S3, Google Cloud       *)
(* Storage, Azure and the in-memory provider, and the prepared index.  The *)
(* pages of several S3 roots follow each other (mergedList).  A listing is *)
(* asked for one object at a time; it answers with the next one, its end,  *)
(* or an error.                                                            *)
(*                                                                         *)
(* Each source has its own idea of an aborted run.  S3 passes the signal   *)
(* to every request; GCS looks at it when it is asked for more than its    *)
(* page holds, and Azure when a page is in, and both then end as if there  *)
(* were no more; the in-memory provider and the index look at it before    *)
(* every object.  None of them looks once the last object is out.          *)
(***************************************************************************)
EXTENDS Integers, FiniteSets

CONSTANTS
  MaxObjects,  \* bound: objects under the prefix
  PageSize     \* objects on a page

ASSUME ListingAssumption == MaxObjects \in Nat /\ PageSize \in Nat \ {0}

VARIABLES
  source,    \* where objects come from
  complete,  \* the index holds every object; the write of it may have been cut short
  listing,   \* what the iterator is doing
  received,  \* objects on the pages received so far
  yielded,   \* objects handed out
  leaving,   \* GCS has seen the signal and left its page loop
  aborted    \* the signal has fired

listingVars == <<source, complete, listing, received, yielded, leaving, aborted>>

Objects == 1..MaxObjects
Paged == {"s3", "gcs", "azure"}
Sources == Paged \cup {"memory", "index"}

Held == IF complete \/ MaxObjects = 0 THEN MaxObjects ELSE MaxObjects - 1

ListingInit ==
  /\ source \in Sources
  /\ complete \in (IF source = "index" THEN BOOLEAN ELSE {TRUE})
  /\ listing = "idle"
  /\ received = (IF source \in Paged THEN 0 ELSE Held)
  /\ yielded = 0
  /\ leaving = FALSE /\ aborted = FALSE

(* inner.next() is called.  GCS looks at the signal now, at the end of a   *)
(* page, and never while it waits for the next one.                        *)
AskNext ==
  /\ listing = "idle"
  /\ listing' = "asked"
  /\ leaving' = (source = "gcs" /\ aborted /\ 0 < received /\ yielded = received)
  /\ UNCHANGED <<source, complete, received, yielded, aborted>>

(* A page is in: the next request returns. *)
ReceivePage ==
  /\ listing = "asked" /\ yielded = received /\ received < Held
  /\ source \in Paged
  /\ ~ (IF source = "gcs" THEN leaving ELSE aborted)
  /\ received' = IF received + PageSize > Held THEN Held ELSE received + PageSize
  /\ UNCHANGED <<source, complete, listing, yielded, leaving, aborted>>

(* The next object of the page, or of the lines or keys that are there. *)
Yields ==
  /\ listing = "asked" /\ yielded < received
  /\ source \notin Paged => ~ aborted
  /\ listing' = "idle"
  /\ yielded' = yielded + 1
  /\ UNCHANGED <<source, complete, received, leaving, aborted>>

(* Mutant: S3 ends the way GCS and Azure do. *)
EndsSilently ==
  /\ listing = "asked" /\ yielded = received
  /\ yielded = Held \/ aborted
  /\ listing' = "ended"
  /\ UNCHANGED <<source, complete, received, yielded, leaving, aborted>>

(* No page is left, or the provider breaks out of its loop. *)
Ends ==
  /\ listing = "asked" /\ yielded = received
  /\ \/ yielded = Held
     \/ aborted /\ source \in {"gcs", "azure"} /\ (source = "gcs" => leaving)
  /\ listing' = "ended"
  /\ UNCHANGED <<source, complete, received, yielded, leaving, aborted>>

(* A request fails for good or is aborted; throwIfAborted throws; a line   *)
(* of the index does not parse or lies outside the prefix.                 *)
ListingFails(mayFail) ==
  /\ listing = "asked"
  /\ \/ /\ mayFail /\ source # "memory" /\ ~ leaving
        /\ source \in Paged => yielded = received /\ received < Held
     \/ aborted /\ source \in {"s3", "azure"} /\ yielded = received /\ received < Held
     \/ aborted /\ source \in {"memory", "index"} /\ yielded < received
  /\ listing' = "failed"
  /\ UNCHANGED <<source, complete, received, yielded, leaving, aborted>>

(* options.signal fires. *)
Abort ==
  /\ ~ aborted
  /\ aborted' = TRUE
  /\ UNCHANGED <<source, complete, listing, received, yielded, leaving>>
=============================================================================
