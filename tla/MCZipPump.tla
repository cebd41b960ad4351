------------------------------ MODULE MCZipPump ------------------------------
(* Listed objects; the third is as big as the budget and repeats a key.     *)
(* A fail-fast run with everything that can go wrong, and a best-effort one *)
(* without a checkpoint.                                                    *)
EXTENDS ZipPump

MCSize == [o \in Objects |-> IF o = 3 THEN 2 ELSE 1]
RepeatedKey == [o \in Objects |-> IF o = 3 THEN 1 ELSE o]
MCSetups ==
  { [bestEffort |-> FALSE, checkpointing |-> TRUE, includeManifest |-> TRUE, skippable |-> {},
     faults |-> {"list", "name", "get", "append", "save", "destination", "abort", "sample"}],
    [bestEffort |-> TRUE, checkpointing |-> FALSE, includeManifest |-> TRUE, skippable |-> {2},
     faults |-> {"get", "list", "append"}],
    [bestEffort |-> TRUE, checkpointing |-> FALSE, includeManifest |-> FALSE, skippable |-> {2},
     faults |-> {"append"}] }
=============================================================================
