----------------------------- MODULE AtomicCache -----------------------------
(***************************************************************************)
(* What the kernel cache promises the processes that share it: a store     *)
(* takes effect at once and whole, or not at all, never under a reader,    *)
(* and nothing but a clean touches an entry afterwards, which only takes   *)
(* away.  Staging, sweeps, renames and lock files are left to KernelCache. *)
(***************************************************************************)
CONSTANTS Procs, Keys, Builds, NoFile, NoJob,
          Absent   \* an entry that does not exist

VARIABLES
    entry,    \* [Keys -> the files of the entry, or Absent]
    readers,  \* [Keys -> SUBSET Procs]
    asked     \* [Procs -> the store the process has still to carry out]

state == <<entry, readers, asked>>

Calls == [key : Keys, build : Builds, vml : BOOLEAN]
Nothing == [img |-> NoFile, vml |-> NoFile, meta |-> [build |-> NoFile, vml |-> FALSE]]
Output(j) == [img  |-> j.build,
              vml  |-> IF j.vml THEN j.build ELSE NoFile,
              meta |-> [build |-> j.build, vml |-> j.vml]]

Init ==
    /\ entry = [k \in Keys |-> Absent]
    /\ readers = [k \in Keys |-> {}]
    /\ asked = [p \in Procs |-> NoJob]

Ask(p) ==
    /\ asked[p] = NoJob
    /\ \E j \in Calls : asked' = [asked EXCEPT ![p] = j]
    /\ UNCHANGED <<entry, readers>>

Publish(p) ==
    LET j == asked[p]
    IN  /\ j \in Calls /\ readers[j.key] = {}
        /\ entry' = [entry EXCEPT ![j.key] = Output(j)]
        /\ asked' = [asked EXCEPT ![p] = NoJob]
        /\ UNCHANGED readers

\* The store gives up, fails, or finds what it was to store.
Abandon(p) ==
    /\ asked' = [asked EXCEPT ![p] = NoJob]
    /\ UNCHANGED <<entry, readers>>

Read(p, k) ==
    /\ readers' = [readers EXCEPT ![k] = @ \cup {p}]
    /\ UNCHANGED <<entry, asked>>

Leave(p, k) ==
    /\ readers' = [readers EXCEPT ![k] = @ \ {p}]
    /\ UNCHANGED <<entry, asked>>

\* A clean takes a file, and at last the entry.
Take(k) ==
    /\ entry[k] # Absent
    /\ \/ \E f \in DOMAIN Nothing : entry' = [entry EXCEPT ![k][f] = Nothing[f]]
       \/ entry[k] = Nothing /\ entry' = [entry EXCEPT ![k] = Absent]
    /\ UNCHANGED <<readers, asked>>

Die(p) ==
    /\ readers' = [k \in Keys |-> readers[k] \ {p}]
    /\ asked' = [asked EXCEPT ![p] = NoJob]
    /\ UNCHANGED entry

Next ==
    \/ \E p \in Procs : Ask(p) \/ Publish(p) \/ Abandon(p) \/ Die(p)
    \/ \E p \in Procs, k \in Keys : Read(p, k) \/ Leave(p, k)
    \/ \E k \in Keys : Take(k)

Spec == Init /\ [][Next]_state
=============================================================================
