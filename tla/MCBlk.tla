------------------------------- MODULE MCBlk -------------------------------
(* BlkLifecycle on small bounds. *)
EXTENDS BlkLifecycle
============================================================================
