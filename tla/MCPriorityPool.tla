---------------------------- MODULE MCPriorityPool ----------------------------
(* Five objects, two slots, a read-ahead of four, ties and unscorable ones. *)
EXTENDS PriorityPool
=============================================================================
