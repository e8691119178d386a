--------------------------- MODULE MCSchedStats ---------------------------
(* SchedStats for one clone beside the coordinator.  An answer fits in the  *)
(* buffer, or exceeds its limit with two of its bytes and its cap with all  *)
(* three.                                                                   *)
EXTENDS SchedStats
CONSTANTS c0, c1
OneClone == {c1}
ShortAndLong == {1, 3}

\* With a second scheduler the end of the run is not followed.
OneAtTheEnd == lives < 2 \/ ~kill
============================================================================
