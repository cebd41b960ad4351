----------------------------- MODULE MCAsyncPool -----------------------------
(* Five listed objects through windows of up to three tasks. *)
EXTENDS AsyncPool
=============================================================================
