---------------------------- MODULE StopTheWorld ----------------------------
(***************************************************************************)
(* What freeze_and_capture promises its callers: guest memory is read in   *)
(* an interval in which nobody who can change it runs.  How the parties    *)
(* are stopped, counted and released is left to FreezeRendezvous.          *)
(***************************************************************************)
CONSTANT Parties   \* the threads that may change guest memory

VARIABLES
    running,   \* the parties that may be changing it
    gone,      \* those that have ended for good
    reading    \* a full dump is being taken

world == <<running, gone, reading>>

Init ==
    /\ running \subseteq Parties
    /\ gone = {}
    /\ reading = FALSE

(* Parties stop, end or go on, also several at once; one that has ended does
   not come back, and under a dump nobody is released or started. *)
Move ==
    /\ UNCHANGED reading
    /\ gone \subseteq gone'
    /\ running' \subseteq Parties \ gone'
    /\ reading => running' \subseteq running

BeginRead ==
    /\ ~reading /\ running = {}
    /\ reading' = TRUE
    /\ UNCHANGED <<running, gone>>

EndRead ==
    /\ reading
    /\ reading' = FALSE
    /\ UNCHANGED <<running, gone>>

Next == Move \/ BeginRead \/ EndRead

Spec == Init /\ [][Next]_world
=============================================================================
