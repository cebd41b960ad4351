---------------------- MODULE MCThroughputZipController ----------------------
(* Three calls: one more than fits under a cap that has been lowered. *)
EXTENDS ThroughputZipController

CONSTANTS j1, j2, j3

MCJobs == {j1, j2, j3}
=============================================================================
