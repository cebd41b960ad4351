------------------------ MODULE MCInFlightReadBytes ------------------------
(* Four workers; objects that are empty, small, or larger than the budget.  *)
EXTENDS InFlightReadBytes

CONSTANTS w1, w2, w3, w4

MCWorkers == {w1, w2, w3, w4}
MCSizes == {0, 1, 2, 5}
=============================================================================
