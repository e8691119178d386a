----------------------------- MODULE MCFreeze -----------------------------
(* FreezeRendezvous on small sets of vCPUs. *)
EXTENDS FreezeRendezvous, TLC
CONSTANTS a1, a2
OneAP == {a1}
TwoAPs == {a1, a2}
SymmetricAPs == Permutations(TwoAPs)
AnyWorker == {"absent", "none", "idle"}
AbsentWorker == {"absent"}
Deadlines == {"deadline"}
Drops == {"workerDrop"}
\* Bound: a freeze that was disturbed is followed to its thaw.  Nothing is read
\* as a stopped world after it.
FollowedToThaw == upset = {} \/ freeze
============================================================================
