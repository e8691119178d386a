---------------------------- MODULE MCErrTrigger ----------------------------
(* Small instances of ErrTrigger. *)
EXTENDS ErrTrigger

CONSTANTS v1, a, b

OneVcpu == {v1}
TwoScheds == {a, b}

(* The probe is loaded; with dual snapshots and a dump path, or without. *)
DualOrPlain == {[dual |-> d, path |-> d, probe |-> TRUE] : d \in BOOLEAN}
=============================================================================
