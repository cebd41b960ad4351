-------------------------- MODULE MCBackgroundJobs --------------------------
(* Four jobs and two ids: an id can be used, cleared and used again while  *)
(* the first run under it is outstanding.                                  *)
EXTENDS BackgroundJobs
=============================================================================
