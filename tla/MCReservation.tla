---------------------------- MODULE MCReservation ----------------------------
(***************************************************************************)
(* A host with four LLCs of unequal size on two NUMA nodes, and the        *)
(* requests the processes choose from.                                     *)
(***************************************************************************)
EXTENDS Reservation, TLC

CONSTANTS p1, p2

TwoProcs == {p1, p2}

Groups == (0 :> <<0, 1>>) @@ (1 :> <<2>>) @@ (2 :> <<3, 4>>) @@ (3 :> <<5>>)
Online == <<0, 1, 2, 3, 4, 5>>
LlcsByNode == <<<<0, 1>>, <<2, 3>>>>
NodeDistance == [e \in {1, 2} \X {1, 2} |-> IF e[1] = e[2] THEN 10 ELSE 20]

Pinned(mode, numllcs, width, nodes) ==
    [mode |-> mode, llcs |-> numllcs, width |-> width, nodes |-> nodes]
Budgeted(mode, cap, allowed) ==
    [mode |-> mode, cap |-> cap, allowed |-> allowed]

\* One LLC or two, on one node or across both; requests that fit only some
\* LLCs, and one that is too large; budgets of one LLC, of several, of more
\* CPUs than are allowed, and on CPUs that no LLC lists.
MixedWants ==
    {Pinned("perf", 1, 1, 1), Pinned("perf", 2, 1, 2), Pinned("perf", 1, 2, 1),
     Pinned("perf", 4, 1, 1), Pinned("default", 2, 1, 2), Pinned("default", 1, 2, 1),
     Budgeted("noperf", 3, 0..5), Budgeted("kbuild", 0, {0, 2, 3, 4}),
     Budgeted("noperf", 4, 0..2), Budgeted("noperf", 1, {9})}

\* A process confined to the LLCs 0 and 2: the snapshot vector has two entries.
ConfinedWants == {Budgeted("noperf", 3, {0, 3, 4}), Budgeted("kbuild", 1, {3, 4})}

\* Exact plans can be promised for the former, and for none of the latter.
ASSUME MixedAreRegular == \A w \in MixedWants : w.mode \in Capped => Regular(w)
ASSUME ConfinedAreNot == \A w \in ConfinedWants : ~Regular(w)

=============================================================================
