---------------------------- MODULE MCObjectBody ----------------------------
(* Three bodies of two chunks and two workers, through every chain of      *)
(* stages: while one is appended another waits, and a third may follow a   *)
(* failed one.                                                             *)
EXTENDS ObjectBody
=============================================================================
