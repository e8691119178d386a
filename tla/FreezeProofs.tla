--------------------------- MODULE FreezeProofs ---------------------------
(***************************************************************************)
(* Proofs about FreezeRendezvous for any finite set of APs, any number of  *)
(* freezes and any disturbances.                                           *)
(***************************************************************************)
EXTENDS FreezeRendezvous, FiniteSetTheorems, TLAPS

(* Nothing has disturbed the rendezvous so far and no teardown has begun. *)
Calm == upset = {} /\ ~kill /\ ~bspDone

(* vCPUs that can no longer run the guest in this freeze and have left their
   registers for it. *)
Settled == {v \in Vcpus : /\ pc[v] \in {"wait", "exited"} \cup OutPcs
                          /\ regs[v] = cycle}
WorkerAcked == IF wk = "wait" /\ paused THEN 1 ELSE 0

(* Only this freeze may have been disturbed. *)
Fresh == (\A u \in upset : u[2] = cycle) /\ ~kill /\ ~bspDone

(* The worker between two freezes. *)
WorkerFree ==
    /\ ~pauseEvt /\ wk # "ack"
    /\ paused <=> wk \in {"none", "start"}
(* The worker within a freeze: it acks at most once, and only if expected. *)
WorkerInFreeze ==
    /\ wrun <=> wk \notin {"absent", "none"}
    /\ wk # "start"
    /\ wk \in {"idle", "io"} => ~paused
    /\ wk = "ack" => paused
    /\ wk \in {"absent", "none", "ack"} => ~pauseEvt
    /\ wk = "wait" /\ paused => ~pauseEvt
WorkerStopped ==
    /\ ~pauseEvt
    /\ wk \in {"absent", "none"} \/ (wk = "wait" /\ paused)

BeforeFreeze ==
    Calm /\ cpc \in {"loop", "retest", "head", "body", "drain", "seed", "freeze"} =>
        /\ \A v \in Vcpus : pc[v] \notin FreezePcs
        /\ WorkerFree
        /\ cpc \in {"seed", "freeze"} =>
               /\ parkedEvt = 0
               /\ wk # "start"
               /\ wrun <=> WorkerAlive
Kicking ==
    Calm /\ cpc \in {"ie", "signal"} =>
        WorkerInFreeze /\ parkedEvt <= Cardinality(Settled) + WorkerAcked
Counting ==
    cpc = "rendezvous" /\ upset = {} =>
        /\ expected = Cardinality(Vcpus) + IF wrun THEN 1 ELSE 0
        /\ Calm => /\ WorkerInFreeze
                   /\ parkedEvt + count <= Cardinality(Settled) + WorkerAcked
        /\ count > 0 => /\ WorkerInFreeze
                        /\ count <= Cardinality(Settled) + WorkerAcked
Stopped ==
    cpc \in {"collect", "capture", "thaw"} /\ upset = {} =>
        /\ allParked => Settled = Vcpus /\ WorkerStopped
        /\ allParked \/ kill \/ bspDone
Thawing ==
    Calm /\ cpc = "barrier" =>
        /\ \A v \in Vcpus : pc[v] \notin {"drain", "park", "ack"}
        /\ WorkerFree

(* Whom a vCPU in handle_freeze serves, and what its register slot holds. *)
Cleared(v) == pc[v] \notin FreezePcs /\ regs[v] = 0
Serves(v) ==
    /\ regs[v] \in {0, cycle}
    /\ pc[v] \in FreezePcs => since[v] = cycle
    /\ pc[v] \in {"park", "ack", "wait"} => regs[v] = cycle
Serving ==
    Fresh => /\ cpc \in {"seed", "freeze"} => \A v \in Vcpus : Cleared(v)
             /\ cpc \in {"ie"} \cup KickedPcs => \A v \in Vcpus : Serves(v)
UpsetsPast == \A u \in upset : u[2] <= cycle

FreezeFlag == freeze <=> cpc \in {"ie"} \cup KickedPcs
ParkedFlag == \A v \in Vcpus : parked[v] <=> pc[v] \in {"ack", "wait"}
CycleBound == cpc = "drain" => cycle < MaxCycles

(* The inductive invariant, in the order of its use. *)
TypeInv == TypeOK /\ CycleBound
KickInv == TypeInv /\ FreezeFlag /\ KickNotLost
CountInv == /\ KickInv /\ ParkedFlag
            /\ BeforeFreeze /\ Kicking /\ Counting /\ Stopped /\ Thawing
            /\ Serving /\ UpsetsPast

---------------------------------------------------------------------------
\* Most leaves are first-order; those that need more say so.
USE Zenon

(* The finite sets that are counted. *)
LEMMA VcpusFinite ==
    /\ IsFiniteSet(Vcpus)
    /\ Cardinality(Vcpus) \in Nat
    /\ Cardinality(Vcpus) = Cardinality(APs) + 1
    /\ Cardinality(APs) \in Nat
    /\ BSP \in Vcpus
<1>1. IsFiniteSet(APs) /\ Cardinality(APs) \in Nat
  BY RendezvousAssumption, FS_CardinalityType
<1>2. IsFiniteSet(APs \cup {BSP}) /\ Cardinality(APs \cup {BSP}) = Cardinality(APs) + 1
  BY <1>1, RendezvousAssumption, FS_AddElement
<1> QED  BY <1>1, <1>2, SMT DEF Vcpus

\* A set of vCPUs is finite, and one as large as Vcpus is all of them.
LEMMA SubsetOfVcpus ==
    ASSUME NEW S \in SUBSET Vcpus
    PROVE  /\ IsFiniteSet(S) /\ Cardinality(S) \in Nat
           /\ Cardinality(S) <= Cardinality(Vcpus)
           /\ Cardinality(S) = Cardinality(Vcpus) => S = Vcpus
BY VcpusFinite, FS_Subset, FS_CardinalityType

\* The number of parked vCPUs is a number.
LEMMA StillParkedNat ==
    StillParked \in Nat
<1>1. Cardinality({v \in Vcpus : parked[v]}) \in Nat
  BY SubsetOfVcpus
<1> QED  BY <1>1, SMT DEF StillParked

---------------------------------------------------------------------------
(* Types. *)
LEMMA Locations ==
    /\ "top" \in VcpuPcs /\ "enter" \in VcpuPcs /\ "guest" \in VcpuPcs
    /\ "exit" \in VcpuPcs /\ "eintr" \in VcpuPcs /\ "drain" \in VcpuPcs
    /\ "park" \in VcpuPcs /\ "ack" \in VcpuPcs /\ "wait" \in VcpuPcs
    /\ "outKill" \in VcpuPcs /\ "outJoin" \in VcpuPcs
    /\ "reap" \in VcpuPcs /\ "joined" \in VcpuPcs
    /\ \A v : Leave(v) \in VcpuPcs
    /\ "none" \in WorkerPcs /\ "start" \in WorkerPcs /\ "idle" \in WorkerPcs
    /\ "io" \in WorkerPcs /\ "ack" \in WorkerPcs /\ "wait" \in WorkerPcs
    /\ "loop" \in CoordPcs /\ "retest" \in CoordPcs /\ "head" \in CoordPcs
    /\ "body" \in CoordPcs /\ "done" \in CoordPcs
    /\ "drain" \in CoordPcs /\ "seed" \in CoordPcs /\ "freeze" \in CoordPcs
    /\ "ie" \in CoordPcs /\ "signal" \in CoordPcs
    /\ "rendezvous" \in CoordPcs /\ "collect" \in CoordPcs
    /\ "capture" \in CoordPcs /\ "thaw" \in CoordPcs
    /\ "barrier" \in CoordPcs
    /\ WorkerInit \subseteq WorkerPcs
BY RendezvousAssumption
   DEF VcpuPcs, FreezePcs, OutPcs, WorkerPcs, CoordPcs, EntryPcs,
       IdlePcs, Leave

\* The initial state has the declared types.
LEMMA TypeInit == Init => TypeInv
<1> SUFFICES ASSUME Init PROVE TypeInv
  OBVIOUS
<1>1. FlagTypes /\ WaitTypes
  BY DEF Init, FlagTypes, WaitTypes
<1>2. VcpuTypes
  BY Locations, RendezvousAssumption, SMT DEF Init, VcpuTypes
<1>3. BlkTypes
  BY Locations DEF Init, BlkTypes
<1>4. cycle \in 0..MaxCycles
  BY RendezvousAssumption, SMT DEF Init
<1>5. CoordTypes /\ CycleBound
  BY <1>4, Locations DEF Init, CoordTypes, CycleBound
<1> QED  BY <1>1, <1>2, <1>3, <1>5 DEF TypeInv, TypeOK

\* Every step keeps the declared types.
LEMMA TypeStep == TypeInv /\ [Next]_vars => TypeInv'
<1> SUFFICES ASSUME TypeInv, [Next]_vars PROVE TypeInv'
  OBVIOUS
<1>inv. /\ FlagTypes /\ VcpuTypes /\ BlkTypes /\ WaitTypes /\ CoordTypes
        /\ CycleBound
  BY DEF TypeInv, TypeOK
<1>flags. UNCHANGED <<kill, freeze, bspDone, parkedEvt, wd, upset>> => FlagTypes'
  BY <1>inv DEF FlagTypes
<1>upset. /\ cycle \in 0..MaxCycles
          /\ \A k \in Upsets, c \in 0..MaxCycles :
                upset \cup {<<k, c>>} \subseteq Upsets \X (0..MaxCycles)
  BY <1>inv, SMT DEF FlagTypes, CoordTypes
<1>vcpus. UNCHANGED vcpuVars => VcpuTypes'
  BY <1>inv DEF VcpuTypes, vcpuVars
<1>blk. UNCHANGED blkVars => BlkTypes'
  BY <1>inv DEF BlkTypes, blkVars
<1>wait. UNCHANGED waitVars => WaitTypes'
  BY <1>inv DEF WaitTypes, waitVars
<1>coord. UNCHANGED <<cpc, cycle, finalBsp, finalKill>> =>
              CoordTypes' /\ CycleBound'
  BY <1>inv DEF CoordTypes, CycleBound
<1>goal. TypeInv' <=> /\ FlagTypes' /\ VcpuTypes' /\ BlkTypes' /\ WaitTypes'
                      /\ CoordTypes' /\ CycleBound'
  BY DEF TypeInv, TypeOK
<1>1. ASSUME NEW v \in Vcpus, LoopHead(v) PROVE TypeInv'
  <2>1. VcpuTypes'
    BY <1>1, <1>inv, Locations, RendezvousAssumption
       DEF LoopHead, VcpuTypes, CoordTypes
  <2> QED
    BY <1>1, <2>1, <1>flags, <1>blk, <1>wait, <1>coord, <1>goal
       DEF LoopHead, coordVars
<1>2. ASSUME NEW v \in Vcpus, Enter(v) PROVE TypeInv'
  <2>1. VcpuTypes'
    BY <1>2, <1>inv, Locations
       DEF Enter, VcpuTypes
  <2> QED
    BY <1>2, <2>1, <1>flags, <1>blk, <1>wait, <1>coord, <1>goal
       DEF Enter, coordVars
<1>3. ASSUME NEW v \in Vcpus, GuestExit(v) PROVE TypeInv'
  <2>1. VcpuTypes'
    BY <1>3, <1>inv, Locations
       DEF GuestExit, VcpuTypes
  <2> QED
    BY <1>3, <2>1, <1>flags, <1>blk, <1>wait, <1>coord, <1>goal
       DEF GuestExit, coordVars
<1>4. ASSUME NEW v \in Vcpus, Interrupt(v) PROVE TypeInv'
  <2>1. VcpuTypes'
    BY <1>4, <1>inv, Locations
       DEF Interrupt, VcpuTypes
  <2> QED
    BY <1>4, <2>1, <1>flags, <1>blk, <1>wait, <1>coord, <1>goal
       DEF Interrupt, coordVars
<1>5. ASSUME NEW v \in Vcpus, Eintr(v) PROVE TypeInv'
  <2>1. VcpuTypes'
    BY <1>5, <1>inv, Locations
       DEF Eintr, VcpuTypes
  <2> QED
    BY <1>5, <2>1, <1>flags, <1>blk, <1>wait, <1>coord, <1>goal
       DEF Eintr, coordVars
<1>6. ASSUME NEW v \in Vcpus, Dispatch(v) PROVE TypeInv'
  <2>1. VcpuTypes'
    BY <1>6, <1>inv, Locations
       DEF Dispatch, VcpuTypes
  <2> QED
    BY <1>6, <2>1, <1>flags, <1>blk, <1>wait, <1>coord, <1>goal
       DEF Dispatch, coordVars
<1>7. ASSUME NEW v \in Vcpus, Stop(v) PROVE TypeInv'
  <2>1. FlagTypes'
    BY <1>7, <1>inv
       DEF Stop, FlagTypes
  <2>2. VcpuTypes'
    BY <1>7, <1>inv, Locations
       DEF Stop, VcpuTypes
  <2> QED
    BY <1>7, <2>1, <2>2, <1>blk, <1>wait, <1>coord, <1>goal
       DEF Stop, coordVars
<1>8. ASSUME NEW v \in Vcpus, DriverOk(v) PROVE TypeInv'
  <2>1. FlagTypes'
    <3>1. upset' \subseteq Upsets \X (0..MaxCycles)
      BY <1>8, <1>inv, <1>upset DEF DriverOk, FlagTypes
    <3> QED  BY <1>8, <1>inv, <3>1 DEF DriverOk, FlagTypes
  <2>2. VcpuTypes'
    BY <1>8, <1>inv, Locations
       DEF DriverOk, VcpuTypes
  <2>3. BlkTypes'
    BY <1>8, <1>inv, Locations
       DEF DriverOk, BlkTypes
  <2> QED
    BY <1>8, <2>1, <2>2, <2>3, <1>wait, <1>coord, <1>goal
       DEF DriverOk, coordVars
<1>9. ASSUME NEW v \in Vcpus, DrainAndCapture(v) PROVE TypeInv'
  <2>1. VcpuTypes'
    BY <1>9, <1>inv, Locations, RendezvousAssumption
       DEF DrainAndCapture, VcpuTypes
  <2> QED
    BY <1>9, <2>1, <1>flags, <1>blk, <1>wait, <1>coord, <1>goal
       DEF DrainAndCapture, coordVars
<1>10. ASSUME NEW v \in Vcpus, Park(v) PROVE TypeInv'
  <2>1. VcpuTypes'
    BY <1>10, <1>inv, Locations
       DEF Park, VcpuTypes
  <2> QED
    BY <1>10, <2>1, <1>flags, <1>blk, <1>wait, <1>coord, <1>goal
       DEF Park, coordVars
<1>11. ASSUME NEW v \in Vcpus, Ack(v) PROVE TypeInv'
  <2>1. FlagTypes'
    BY <1>11, <1>inv, SMT
       DEF Ack, FlagTypes
  <2>2. VcpuTypes'
    BY <1>11, <1>inv, Locations
       DEF Ack, VcpuTypes
  <2> QED
    BY <1>11, <2>1, <2>2, <1>blk, <1>wait, <1>coord, <1>goal
       DEF Ack, coordVars
<1>12. ASSUME NEW v \in Vcpus, Unpark(v) PROVE TypeInv'
  <2>1. VcpuTypes'
    BY <1>12, <1>inv, Locations, RendezvousAssumption, SMT
       DEF Unpark, VcpuTypes
  <2> QED
    BY <1>12, <2>1, <1>flags, <1>blk, <1>wait, <1>coord, <1>goal
       DEF Unpark, coordVars
<1>13. CASE WorkerStart
  <2>1. BlkTypes'
    BY <1>13, <1>inv, Locations
       DEF WorkerStart, BlkTypes
  <2> QED
    BY <1>13, <2>1, <1>flags, <1>vcpus, <1>wait, <1>coord, <1>goal
       DEF WorkerStart, coordVars
<1>14. CASE WorkerDrain
  <2>1. BlkTypes'
    BY <1>14, <1>inv, Locations
       DEF WorkerDrain, BlkTypes
  <2> QED
    BY <1>14, <2>1, <1>flags, <1>vcpus, <1>wait, <1>coord, <1>goal
       DEF WorkerDrain, coordVars
<1>15. CASE WorkerDrained
  <2>1. BlkTypes'
    BY <1>15, <1>inv, Locations
       DEF WorkerDrained, BlkTypes
  <2> QED
    BY <1>15, <2>1, <1>flags, <1>vcpus, <1>wait, <1>coord, <1>goal
       DEF WorkerDrained, coordVars
<1>16. CASE WorkerPause
  <2>1. BlkTypes'
    BY <1>16, <1>inv, Locations
       DEF WorkerPause, BlkTypes
  <2> QED
    BY <1>16, <2>1, <1>flags, <1>vcpus, <1>wait, <1>coord, <1>goal
       DEF WorkerPause, coordVars
<1>17. CASE WorkerAck
  <2>1. FlagTypes'
    BY <1>17, <1>inv, SMT
       DEF WorkerAck, FlagTypes
  <2>2. BlkTypes'
    BY <1>17, <1>inv, Locations
       DEF WorkerAck, BlkTypes
  <2> QED
    BY <1>17, <2>1, <2>2, <1>vcpus, <1>wait, <1>coord, <1>goal
       DEF WorkerAck, coordVars
<1>18. CASE WorkerUnpark
  <2>1. BlkTypes'
    BY <1>18, <1>inv, Locations
       DEF WorkerUnpark, BlkTypes
  <2> QED
    BY <1>18, <2>1, <1>flags, <1>vcpus, <1>wait, <1>coord, <1>goal
       DEF WorkerUnpark, coordVars
<1>19. CASE LoopStep
  <2>1. CoordTypes' /\ CycleBound'
    BY <1>19, <1>inv, Locations
       DEF LoopStep, CoordLoop, CoordRetest, CoordHead, CoordTypes, CycleBound
  <2> QED
    BY <1>19, <2>1, <1>flags, <1>vcpus, <1>blk, <1>wait, <1>goal
       DEF LoopStep, CoordLoop, CoordRetest, CoordHead, coordVars
<1>20. CASE CoordCapture
  <2>1. CoordTypes' /\ CycleBound'
    BY <1>20, <1>inv, Locations
       DEF CoordCapture, CoordTypes, CycleBound
  <2> QED
    BY <1>20, <2>1, <1>flags, <1>vcpus, <1>blk, <1>wait, <1>goal
       DEF CoordCapture, coordVars
<1>21. CASE CoordKill
  <2>1. FlagTypes'
    BY <1>21, <1>inv
       DEF CoordKill, FlagTypes
  <2> QED
    BY <1>21, <2>1, <1>vcpus, <1>blk, <1>wait, <1>coord, <1>goal
       DEF CoordKill, coordVars
<1>22. CASE CoordNext
  <2>1. CoordTypes' /\ CycleBound'
    BY <1>22, <1>inv, Locations
       DEF CoordNext, CoordTypes, CycleBound
  <2> QED
    BY <1>22, <2>1, <1>flags, <1>vcpus, <1>blk, <1>wait, <1>goal
       DEF CoordNext, coordVars
<1>23. CASE FcDrain
  <2>1. FlagTypes'
    <3>1. cycle + 1 \in 0..MaxCycles
      BY <1>23, <1>inv, <1>upset, RendezvousAssumption, SMT DEF FcDrain, CycleBound
    <3>2. upset' \subseteq Upsets \X (0..MaxCycles)
      BY <1>23, <1>inv, <1>upset, <3>1 DEF FcDrain, FlagTypes
    <3> QED  BY <1>23, <1>inv, <3>2 DEF FcDrain, FlagTypes
  <2>2. VcpuTypes'
    BY <1>23, <1>inv, Locations, RendezvousAssumption, SMT
       DEF FcDrain, VcpuTypes
  <2>3. WaitTypes'
    BY <1>23, <1>inv
       DEF FcDrain, WaitTypes
  <2>4. CoordTypes' /\ CycleBound'
    BY <1>23, <1>inv, Locations, RendezvousAssumption, SMT
       DEF FcDrain, CoordTypes, CycleBound
  <2> QED
    BY <1>23, <2>1, <2>2, <2>3, <2>4, <1>blk, <1>goal DEF FcDrain
<1>24. CASE FcSeed
  <2>1. FlagTypes'
    BY <1>24, <1>inv, StillParkedNat, SMT
       DEF FcSeed, FlagTypes
  <2>2. CoordTypes' /\ CycleBound'
    BY <1>24, <1>inv, Locations
       DEF FcSeed, CoordTypes, CycleBound
  <2> QED
    BY <1>24, <2>1, <2>2, <1>vcpus, <1>blk, <1>wait, <1>goal
       DEF FcSeed, coordVars
<1>25. CASE FcFreeze
  <2>1. FlagTypes'
    BY <1>25, <1>inv
       DEF FcFreeze, FlagTypes
  <2>2. BlkTypes'
    BY <1>25, <1>inv, Locations
       DEF FcFreeze, BlkTypes
  <2>3. CoordTypes' /\ CycleBound'
    BY <1>25, <1>inv, Locations
       DEF FcFreeze, CoordTypes, CycleBound
  <2> QED
    BY <1>25, <2>1, <2>2, <2>3, <1>vcpus, <1>wait, <1>goal
       DEF FcFreeze, coordVars
<1>26. CASE FcImmediateExit
  <2>1. VcpuTypes'
    BY <1>26, <1>inv, Locations, RendezvousAssumption
       DEF FcImmediateExit, VcpuTypes
  <2>2. CoordTypes' /\ CycleBound'
    BY <1>26, <1>inv, Locations
       DEF FcImmediateExit, CoordTypes, CycleBound
  <2> QED
    BY <1>26, <2>1, <2>2, <1>flags, <1>blk, <1>wait, <1>goal
       DEF FcImmediateExit, coordVars
<1>27. CASE FcSignal
  <2>1. VcpuTypes'
    BY <1>27, <1>inv, Locations
       DEF FcSignal, VcpuTypes, Signalled
  <2>2. WaitTypes'
    <3>1. expected' \in Nat
      BY <1>27, VcpusFinite, SMT DEF FcSignal
    <3> QED  BY <1>27, <1>inv, <3>1 DEF FcSignal, WaitTypes
  <2>3. CoordTypes' /\ CycleBound'
    BY <1>27, <1>inv, Locations
       DEF FcSignal, CoordTypes, CycleBound
  <2> QED
    BY <1>27, <2>1, <2>2, <2>3, <1>flags, <1>blk, <1>goal DEF FcSignal
<1>28. CASE FcLeave
  <2>1. WaitTypes'
    BY <1>28, <1>inv
       DEF FcLeave, WaitTypes
  <2>2. CoordTypes' /\ CycleBound'
    BY <1>28, <1>inv, Locations
       DEF FcLeave, CoordTypes, CycleBound
  <2> QED
    BY <1>28, <2>1, <2>2, <1>flags, <1>vcpus, <1>blk, <1>goal DEF FcLeave
<1>29. CASE FcPoll
  <2>1. FlagTypes'
    BY <1>29, <1>inv
       DEF FcPoll, FlagTypes
  <2>2. WaitTypes'
    <3>1. count' \in Nat
      BY <1>29, <1>inv, SMT DEF FcPoll, FlagTypes, WaitTypes
    <3> QED  BY <1>29, <1>inv, <3>1 DEF FcPoll, WaitTypes
  <2> QED
    BY <1>29, <2>1, <2>2, <1>vcpus, <1>blk, <1>coord, <1>goal
       DEF FcPoll, coordVars
<1>30. CASE FcDropWorker
  <2>1. FlagTypes'
    <3>1. upset' \subseteq Upsets \X (0..MaxCycles)
      BY <1>30, <1>inv, <1>upset DEF FcDropWorker, FlagTypes
    <3> QED  BY <1>30, <1>inv, <3>1 DEF FcDropWorker, FlagTypes
  <2>2. WaitTypes'
    BY <1>30, <1>inv, SMT
       DEF FcDropWorker, WaitTypes
  <2>3. CoordTypes' /\ CycleBound'
    BY <1>30, <1>inv, Locations
       DEF FcDropWorker, CoordTypes, CycleBound
  <2> QED
    BY <1>30, <2>1, <2>2, <2>3, <1>vcpus, <1>blk, <1>goal DEF FcDropWorker
<1>31. CASE FcTimeout
  <2>1. FlagTypes'
    <3>1. upset' \subseteq Upsets \X (0..MaxCycles)
      BY <1>31, <1>inv, <1>upset DEF FcTimeout, FlagTypes
    <3> QED  BY <1>31, <1>inv, <3>1 DEF FcTimeout, FlagTypes
  <2>2. CoordTypes' /\ CycleBound'
    BY <1>31, <1>inv, Locations
       DEF FcTimeout, CoordTypes, CycleBound
  <2> QED
    BY <1>31, <2>1, <2>2, <1>vcpus, <1>blk, <1>wait, <1>goal
       DEF FcTimeout, coordVars
<1>32. CASE FcCollect
  <2>1. CoordTypes' /\ CycleBound'
    BY <1>32, <1>inv, Locations
       DEF FcCollect, CoordTypes, CycleBound
  <2> QED
    BY <1>32, <2>1, <1>flags, <1>vcpus, <1>blk, <1>wait, <1>goal
       DEF FcCollect, coordVars
<1>33. CASE FcCapture
  <2>1. CoordTypes' /\ CycleBound'
    BY <1>33, <1>inv, Locations
       DEF FcCapture, CoordTypes, CycleBound
  <2> QED
    BY <1>33, <2>1, <1>flags, <1>vcpus, <1>blk, <1>wait, <1>goal
       DEF FcCapture, coordVars
<1>34. CASE Thaw
  <2>1. FlagTypes'
    BY <1>34, <1>inv
       DEF Thaw, FlagTypes
  <2>2. BlkTypes'
    BY <1>34, <1>inv, Locations
       DEF Thaw, BlkTypes
  <2>3. WaitTypes'
    BY <1>34, <1>inv
       DEF Thaw, WaitTypes, WaitReset
  <2>4. CoordTypes' /\ CycleBound'
    BY <1>34, <1>inv, Locations
       DEF Thaw, CoordTypes, CycleBound
  <2> QED
    BY <1>34, <2>1, <2>2, <2>3, <2>4, <1>vcpus, <1>goal DEF Thaw
<1>35. CASE ThawBarrier
  <2>1. FlagTypes'
    BY <1>35, <1>inv
       DEF ThawBarrier, FlagTypes
  <2>2. CoordTypes' /\ CycleBound'
    BY <1>35, <1>inv, Locations
       DEF ThawBarrier, CoordTypes, CycleBound
  <2> QED
    BY <1>35, <2>1, <2>2, <1>vcpus, <1>blk, <1>wait, <1>goal
       DEF ThawBarrier, coordVars
<1>36. CASE BarrierTimeout
  <2>1. FlagTypes'
    <3>1. upset' \subseteq Upsets \X (0..MaxCycles)
      BY <1>36, <1>inv, <1>upset DEF BarrierTimeout, FlagTypes
    <3> QED  BY <1>36, <1>inv, <3>1 DEF BarrierTimeout, FlagTypes
  <2>2. CoordTypes' /\ CycleBound'
    BY <1>36, <1>inv, Locations
       DEF BarrierTimeout, CoordTypes, CycleBound
  <2> QED
    BY <1>36, <2>1, <2>2, <1>vcpus, <1>blk, <1>wait, <1>goal
       DEF BarrierTimeout, coordVars
<1>37. CASE WatchdogFire
  <2>1. FlagTypes'
    BY <1>37, <1>inv
       DEF WatchdogFire, FlagTypes
  <2>2. VcpuTypes'
    BY <1>37, <1>inv, Locations, RendezvousAssumption
       DEF WatchdogFire, VcpuTypes, Signalled
  <2> QED
    BY <1>37, <2>1, <2>2, <1>blk, <1>wait, <1>coord, <1>goal
       DEF WatchdogFire, coordVars
<1>38. CASE WatchdogReturn
  <2>1. FlagTypes'
    BY <1>38, <1>inv
       DEF WatchdogReturn, FlagTypes
  <2> QED
    BY <1>38, <2>1, <1>vcpus, <1>blk, <1>wait, <1>coord, <1>goal
       DEF WatchdogReturn, coordVars
<1>39. CASE BspDone
  <2>1. FlagTypes'
    BY <1>39, <1>inv
       DEF BspDone, FlagTypes
  <2>2. VcpuTypes'
    BY <1>39, <1>inv, Locations
       DEF BspDone, VcpuTypes
  <2> QED
    BY <1>39, <2>1, <2>2, <1>blk, <1>wait, <1>coord, <1>goal
       DEF BspDone, coordVars
<1>40. CASE BspKill
  <2>1. FlagTypes'
    BY <1>40, <1>inv
       DEF BspKill, FlagTypes
  <2>2. VcpuTypes'
    BY <1>40, <1>inv, Locations
       DEF BspKill, VcpuTypes
  <2> QED
    BY <1>40, <2>1, <2>2, <1>blk, <1>wait, <1>coord, <1>goal
       DEF BspKill, coordVars
<1>41. CASE CollectKick
  <2>1. FlagTypes'
    BY <1>41, <1>inv
       DEF CollectKick, FlagTypes
  <2>2. VcpuTypes'
    BY <1>41, <1>inv, Locations, RendezvousAssumption
       DEF CollectKick, VcpuTypes, KickAPs, Signalled
  <2> QED
    BY <1>41, <2>1, <2>2, <1>blk, <1>wait, <1>coord, <1>goal
       DEF CollectKick, coordVars
<1>42. CASE CollectRekick
  <2>1. VcpuTypes'
    BY <1>42, <1>inv, Locations, RendezvousAssumption
       DEF CollectRekick, VcpuTypes, KickAPs, Signalled
  <2> QED
    BY <1>42, <2>1, <1>flags, <1>blk, <1>wait, <1>coord, <1>goal
       DEF CollectRekick, coordVars
<1>43. CASE JoinAPs
  <2>1. VcpuTypes'
    BY <1>43, <1>inv, Locations
       DEF JoinAPs, VcpuTypes
  <2> QED
    BY <1>43, <2>1, <1>flags, <1>blk, <1>wait, <1>coord, <1>goal
       DEF JoinAPs, coordVars
<1>44. CASE UNCHANGED vars
  BY <1>44, <1>flags, <1>vcpus, <1>blk, <1>wait, <1>coord, <1>goal
     DEF vars, coordVars
<1> QED
  BY <1>1, <1>2, <1>3, <1>4, <1>5, <1>6, <1>7, <1>8, <1>9, <1>10, <1>11,
     <1>12, <1>13, <1>14, <1>15, <1>16, <1>17, <1>18, <1>19, <1>20, <1>21,
     <1>22, <1>23, <1>24, <1>25, <1>26, <1>27, <1>28, <1>29, <1>30, <1>31,
     <1>32, <1>33, <1>34, <1>35, <1>36, <1>37, <1>38, <1>39, <1>40, <1>41,
     <1>42, <1>43, <1>44
     DEF Next, VcpuStep, ExitStep, WorkerStep, CoordStep, FreezeStep,
         ThawStep, TeardownStep, Finished

(* Every variable has its type; no more than MaxCycles freezes are counted. *)
THEOREM TypeCorrect == Spec => []TypeOK
<1>1. Spec => []TypeInv
  BY TypeInit, TypeStep, PTL DEF Spec
<1>2. TypeInv => TypeOK
  BY DEF TypeInv
<1> QED  BY <1>1, <1>2, PTL

---------------------------------------------------------------------------
(* No kick is lost. *)
LEMMA KickInit == Init => KickInv
BY TypeInit DEF Init, KickInv, FreezeFlag, KickNotLost, KickedPcs

\* Every step keeps KickInv.
LEMMA KickStep == KickInv /\ [Next]_vars => KickInv'
<1> SUFFICES ASSUME KickInv, [Next]_vars PROVE FreezeFlag' /\ KickNotLost'
  BY TypeStep DEF KickInv
<1> USE DEF KickInv, FreezeFlag, KickNotLost, KickedPcs,
            vcpuVars, blkVars, waitVars, coordVars
<1>types. /\ pc \in [Vcpus -> VcpuPcs] /\ ie \in [Vcpus -> BOOLEAN]
          /\ sig \in [Vcpus -> BOOLEAN]
  BY DEF TypeInv, TypeOK, VcpuTypes
<1>1. CASE UNCHANGED <<freeze, cpc, pc, ie, sig>>
  BY <1>1
<1>2. ASSUME NEW v \in Vcpus, VcpuStep(v) \/ ExitStep(v) \/ GuestExit(v)
      PROVE  FreezeFlag' /\ KickNotLost'
  <2>1. CASE LoopHead(v)
    BY <2>1, <1>types DEF LoopHead, Leave
  <2>2. CASE Enter(v)
    BY <2>2, <1>types DEF Enter
  <2>3. CASE GuestExit(v)
    BY <2>3, <1>types DEF GuestExit
  <2>4. CASE Interrupt(v)
    BY <2>4, <1>types DEF Interrupt
  <2>5. CASE Eintr(v)
    BY <2>5, <1>types DEF Eintr
  <2>6. CASE Dispatch(v)
    BY <2>6, <1>types DEF Dispatch
  <2>7. CASE Stop(v)
    BY <2>7, <1>types DEF Stop, Leave
  <2>8. CASE DriverOk(v)
    BY <2>8, <1>types DEF DriverOk
  <2>9. CASE DrainAndCapture(v)
    <3>1. /\ pc' = [pc EXCEPT ![v] = "park"]
          /\ \A u \in Vcpus \ {v} : ie'[u] = ie[u]
          /\ UNCHANGED <<freeze, cpc, sig>>
      BY <2>9, <1>types DEF DrainAndCapture
    <3> QED  BY <3>1, <1>types
  <2>10. CASE Park(v)
    BY <2>10, <1>types DEF Park
  <2>11. CASE Ack(v)
    BY <2>11, <1>types DEF Ack
  <2>12. CASE Unpark(v)
    BY <2>12, <1>types DEF Unpark, Leave
  <2> QED  BY <1>2, <2>1, <2>2, <2>3, <2>4, <2>5, <2>6, <2>7, <2>8, <2>9,
              <2>10, <2>11, <2>12 DEF VcpuStep, ExitStep
<1>3. CASE WorkerStep
  BY <1>1, <1>3 DEF WorkerStep, WorkerStart, WorkerDrain, WorkerDrained,
                    WorkerPause, WorkerAck, WorkerUnpark
<1>4. CASE \/ LoopStep \/ CoordCapture \/ CoordNext \/ FcDrain \/ FcSeed
           \/ ThawBarrier \/ BarrierTimeout
  <2>1. /\ cpc \notin {"ie"} \cup KickedPcs /\ cpc' \notin {"ie"} \cup KickedPcs
        /\ freeze' = freeze
    <3>1. CASE LoopStep \/ CoordCapture \/ CoordNext
      BY <3>1 DEF LoopStep, CoordLoop, CoordRetest, CoordHead, CoordCapture, CoordNext
    <3>2. CASE FcDrain \/ FcSeed
      BY <3>2 DEF FcDrain, FcSeed
    <3>3. CASE ThawBarrier \/ BarrierTimeout
      BY <3>3 DEF ThawBarrier, BarrierTimeout
    <3> QED  BY <1>4, <3>1, <3>2, <3>3
  <2> QED  BY <2>1
<1>5. CASE FcFreeze
  BY <1>5 DEF FcFreeze
<1>6. CASE FcImmediateExit
  BY <1>6 DEF FcImmediateExit
<1>7. CASE FcSignal
  BY <1>7, <1>types DEF FcSignal, Signalled
<1>8. CASE FcLeave \/ FcTimeout \/ FcCollect \/ FcCapture
  BY <1>8 DEF FcLeave, FcTimeout, FcCollect, FcCapture
<1>9. CASE FcDropWorker
  BY <1>9 DEF FcDropWorker
<1>10. CASE FcPoll \/ CoordKill \/ WatchdogReturn \/ UNCHANGED vars
  BY <1>1, <1>10 DEF FcPoll, CoordKill, WatchdogReturn, vars
<1>11. CASE Thaw
  BY <1>11 DEF Thaw
<1>12. CASE WatchdogFire
  <2>1. /\ \A v \in Vcpus : (ie[v] => ie'[v]) /\ (sig[v] => sig'[v])
        /\ UNCHANGED <<freeze, cpc, pc>>
    BY <1>12, <1>types DEF WatchdogFire, Signalled
  <2> QED  BY <2>1
<1>13. CASE BspDone \/ BspKill \/ JoinAPs
  <2>1. /\ \A v \in Vcpus : pc'[v] \in {"enter", "guest"} => pc'[v] = pc[v]
        /\ UNCHANGED <<freeze, cpc, ie, sig>>
    BY <1>13, <1>types DEF BspDone, BspKill, JoinAPs
  <2> QED  BY <2>1
<1>14. CASE CollectKick
  BY <1>14 DEF CollectKick
<1>15. CASE CollectRekick
  BY <1>15, <1>types DEF CollectRekick, KickAPs, Signalled
<1> QED
  BY <1>2, <1>3, <1>4, <1>5, <1>6, <1>7, <1>8, <1>9, <1>10, <1>11, <1>12,
     <1>13, <1>14, <1>15
     DEF Next, CoordStep, FreezeStep, ThawStep, TeardownStep, Finished

(* From pass 1 of a freeze to its thaw no vCPU enters the guest past its kick,
   however many vCPUs there are and whatever timed out in earlier freezes. *)
THEOREM KickReachesEveryVcpu == Spec => []KickNotLost
<1>1. Spec => []KickInv
  BY KickInit, KickStep, PTL DEF Spec
<1>2. KickInv => KickNotLost
  BY DEF KickInv
<1> QED  BY <1>1, <1>2, PTL

---------------------------------------------------------------------------
(* The count of acks stands for the set of parkers. *)
LEMMA SettledFinite ==
    /\ Settled \subseteq Vcpus
    /\ IsFiniteSet(Settled) /\ Cardinality(Settled) \in Nat
    /\ Cardinality(Settled) <= Cardinality(Vcpus)
    /\ Cardinality(Settled) = Cardinality(Vcpus) => Settled = Vcpus
<1>1. Settled \in SUBSET Vcpus
  BY DEF Settled
<1> QED  BY <1>1, SubsetOfVcpus

\* The settled vCPUs of the next state are finitely many.
LEMMA SettledFinitePrime ==
    /\ Settled' \subseteq Vcpus
    /\ IsFiniteSet(Settled') /\ Cardinality(Settled') \in Nat
<1>1. Settled' \in SUBSET Vcpus
  BY DEF Settled
<1> QED  BY <1>1, SubsetOfVcpus

\* More settled vCPUs are counted as more.
LEMMA SettledGrows ==
    ASSUME Settled \subseteq Settled'
    PROVE  Cardinality(Settled) <= Cardinality(Settled')
BY SettledFinitePrime, FS_Subset

(* Everything the counting invariants read. *)
Ledger == <<cpc, parkedEvt, count, expected, wrun, allParked, wk, paused,
            pauseEvt, upset>>

(* A step that leaves the ledger alone, undoes no teardown, lets no vCPU out
   of the settled set during a freeze and none into handle_freeze outside. *)
LEMMA CountFrame ==
    ASSUME CountInv, UNCHANGED Ledger,
           kill \in BOOLEAN, kill => kill', bspDone => bspDone',
           cpc \in {"ie"} \cup KickedPcs => Settled \subseteq Settled',
           cpc \notin {"ie"} \cup KickedPcs =>
               \A v \in Vcpus :
                   /\ pc'[v] \in FreezePcs => pc[v] \in FreezePcs
                   /\ pc'[v] \in {"drain", "park", "ack"} =>
                          pc[v] \in {"drain", "park", "ack"}
    PROVE  BeforeFreeze' /\ Kicking' /\ Counting' /\ Stopped' /\ Thawing'
<1> USE DEF CountInv, Ledger, Calm, WorkerFree, WorkerInFreeze, WorkerStopped,
            WorkerAcked, WorkerAlive, KickedPcs
<1>1. BeforeFreeze'
  BY DEF BeforeFreeze
<1>2. Cardinality(Settled) \in Nat /\ Cardinality(Settled') \in Nat
  BY SettledFinite, SettledFinitePrime
<1>3. parkedEvt \in Nat /\ count \in Nat
  BY DEF KickInv, TypeInv, TypeOK, FlagTypes, WaitTypes
<1>4. Kicking'
  BY <1>2, <1>3, SettledGrows, SMT DEF Kicking
<1>5. Counting'
  BY <1>2, <1>3, SettledGrows, SMT DEF Counting
<1>6. Stopped'
  BY SettledFinitePrime DEF Stopped
<1>7. Thawing'
  BY DEF Thawing
<1> QED  BY <1>1, <1>4, <1>5, <1>6, <1>7

\* Initially nothing has been frozen or counted.
LEMMA CountInit == Init => CountInv
<1> SUFFICES ASSUME Init PROVE CountInv
  OBVIOUS
<1>1. WorkerFree
  BY RendezvousAssumption DEF Init, WorkerFree
<1>2. ParkedFlag /\ \A v \in Vcpus : pc[v] \notin FreezePcs
  BY DEF Init, ParkedFlag, FreezePcs
<1>3. cpc = "loop"
  BY DEF Init
<1>4. Serving /\ UpsetsPast
  BY <1>3 DEF Init, Serving, UpsetsPast, KickedPcs
<1> QED  BY <1>1, <1>2, <1>3, <1>4, KickInit
            DEF CountInv, BeforeFreeze, Kicking, Counting, Stopped, Thawing

(* The steps of the vCPU threads. *)
LEMMA CountVcpu ==
    ASSUME CountInv, NEW v \in Vcpus, VcpuStep(v) \/ ExitStep(v) \/ GuestExit(v)
    PROVE  /\ ParkedFlag' /\ BeforeFreeze' /\ Kicking' /\ Counting'
           /\ Stopped' /\ Thawing'
<1> USE DEF vcpuVars, blkVars, waitVars, coordVars
<1>types. /\ pc \in [Vcpus -> VcpuPcs] /\ parked \in [Vcpus -> BOOLEAN]
          /\ kill \in BOOLEAN /\ parkedEvt \in Nat /\ count \in Nat
  BY DEF CountInv, KickInv, TypeInv, TypeOK, FlagTypes, VcpuTypes, BlkTypes,
         WaitTypes, CoordTypes
<1>flag. freeze <=> cpc \in {"ie"} \cup KickedPcs
  BY DEF CountInv, KickInv, FreezeFlag
<1>parked. ParkedFlag'
  <2> USE <1>types DEF CountInv, ParkedFlag
  <2>1. CASE LoopHead(v)
    BY <2>1 DEF LoopHead, Leave
  <2>2. CASE Enter(v) \/ GuestExit(v) \/ Interrupt(v) \/ Eintr(v)
    BY <2>2 DEF Enter, GuestExit, Interrupt, Eintr
  <2>3. CASE Dispatch(v) \/ Stop(v) \/ DriverOk(v)
    BY <2>3 DEF Dispatch, Stop, DriverOk, Leave
  <2>4. CASE DrainAndCapture(v)
    <3>1. pc[v] = "drain" /\ pc' = [pc EXCEPT ![v] = "park"]
          /\ parked' = parked
      BY <2>4 DEF DrainAndCapture
    <3> QED  BY <3>1
  <2>5. CASE Park(v)
    BY <2>5 DEF Park
  <2>6. CASE Ack(v)
    BY <2>6 DEF Ack
  <2>7. CASE Unpark(v)
    BY <2>7 DEF Unpark, Leave
  <2> QED  BY <2>1, <2>2, <2>3, <2>4, <2>5, <2>6, <2>7 DEF VcpuStep, ExitStep
<1>1. CASE Ack(v)
  <2>1. /\ pc[v] = "ack" /\ pc' = [pc EXCEPT ![v] = "wait"]
        /\ parkedEvt' = parkedEvt + 1
        /\ UNCHANGED <<cpc, count, expected, wrun, allParked, wk, paused,
                       pauseEvt, upset, kill, bspDone, regs, cycle>>
    BY <1>1 DEF Ack
  <2>2. Settled \subseteq Settled' /\ Settled' \subseteq Settled \cup {v}
    BY <2>1, <1>types DEF Settled, OutPcs
  <2>3. ASSUME Calm, cpc \in {"ie"} \cup KickedPcs
        PROVE  Cardinality(Settled') = Cardinality(Settled) + 1
    <3>1. regs[v] = cycle
      BY <2>1, <2>3 DEF Calm, Fresh, CountInv, Serving, Serves
    <3>2. v \notin Settled /\ Settled' = Settled \cup {v}
      BY <2>1, <2>2, <3>1, <1>types DEF Settled, OutPcs
    <3> QED  BY <3>2, SettledFinite, FS_AddElement
  <2>4. /\ Cardinality(Settled) \in Nat /\ Cardinality(Settled') \in Nat
        /\ Cardinality(Settled) <= Cardinality(Settled')
    BY <2>2, SettledFinite, SettledFinitePrime, SettledGrows
  <2> USE DEF CountInv, Calm, WorkerFree, WorkerInFreeze, WorkerStopped,
              WorkerAcked, WorkerAlive
  <2>5. BeforeFreeze'
    BY <2>1, <1>types DEF BeforeFreeze, FreezePcs
  <2>6. Kicking'
    BY <2>1, <2>3, <2>4, <1>types, SMT DEF Kicking, KickedPcs
  <2>7. Counting'
    BY <2>1, <2>3, <2>4, <1>types, SMT DEF Counting, KickedPcs
  <2>8. Stopped'
    BY <2>1, <2>2, SettledFinitePrime DEF Stopped
  <2>9. Thawing'
    BY <2>1, <1>types DEF Thawing
  <2> QED  BY <1>parked, <2>5, <2>6, <2>7, <2>8, <2>9
<1>2. CASE DriverOk(v)
  <2>1. /\ pc[v] = "exit" /\ pc' = [pc EXCEPT ![v] = "top"]
        /\ wk = "none" /\ wk' = "start"
        /\ upset' = IF InCycle THEN upset \cup {<<"spawn", cycle>>} ELSE upset
        /\ UNCHANGED <<cpc, parkedEvt, count, expected, wrun, allParked,
                       paused, pauseEvt, kill, bspDone>>
    BY <1>2 DEF DriverOk
  <2>2. CASE InCycle
    BY <2>1, <2>2, <1>parked
       DEF BeforeFreeze, Kicking, Counting, Stopped, Thawing, Calm
  <2>3. CASE ~InCycle
    <3>1. cpc \in {"loop", "retest", "head", "body", "done"} /\ cpc' = cpc /\ upset' = upset
      BY <2>1, <2>3 DEF InCycle, IdlePcs
    <3>2. BeforeFreeze'
      BY <2>1, <3>1, <1>types
         DEF CountInv, BeforeFreeze, Calm, WorkerFree, FreezePcs
    <3> QED  BY <3>1, <3>2, <1>parked DEF Kicking, Counting, Stopped, Thawing
  <2> QED  BY <2>2, <2>3
<1>3. CASE ~Ack(v) /\ ~DriverOk(v)
  <2>1. UNCHANGED Ledger /\ (kill => kill') /\ (bspDone => bspDone')
    <3>1. CASE Stop(v)
      <4>1. kill => kill'
        BY <3>1 DEF Stop
      <4> QED  BY <3>1, <4>1 DEF Stop, Ledger
    <3>2. CASE DrainAndCapture(v)
      BY <3>2 DEF DrainAndCapture, Ledger
    <3>3. CASE LoopHead(v) \/ Enter(v) \/ GuestExit(v) \/ Interrupt(v)
      BY <3>3, SMT DEF LoopHead, Enter, GuestExit, Interrupt, Ledger
    <3>4. CASE Eintr(v) \/ Dispatch(v) \/ Park(v) \/ Unpark(v)
      BY <3>4, SMT DEF Eintr, Dispatch, Park, Unpark, Ledger
    <3> QED  BY <1>3, <3>1, <3>2, <3>3, <3>4 DEF VcpuStep, ExitStep
  <2>2. /\ \A u \in Vcpus \ {v} : pc'[u] = pc[u]
        /\ pc[v] \in {"wait", "exited"} \cup OutPcs /\ freeze =>
               pc'[v] \in {"wait", "exited"} \cup OutPcs
        /\ ~freeze => /\ pc'[v] \in FreezePcs => pc[v] \in FreezePcs
                      /\ pc'[v] \in {"drain", "park", "ack"} =>
                             pc[v] \in {"drain", "park", "ack"}
    <3> USE <1>types DEF OutPcs, FreezePcs, Leave
    <3>1. CASE LoopHead(v)
      BY <3>1 DEF LoopHead
    <3>2. CASE Enter(v) \/ GuestExit(v) \/ Interrupt(v) \/ Eintr(v)
      BY <3>2 DEF Enter, GuestExit, Interrupt, Eintr
    <3>3. CASE Dispatch(v) \/ Stop(v)
      BY <3>3 DEF Dispatch, Stop
    <3>4. CASE DrainAndCapture(v)
      <4>1. pc[v] = "drain" /\ pc' = [pc EXCEPT ![v] = "park"]
        BY <3>4 DEF DrainAndCapture
      <4> QED  BY <4>1
    <3>5. CASE Park(v)
      BY <3>5 DEF Park
    <3>6. CASE Unpark(v)
      BY <3>6 DEF Unpark
    <3> QED  BY <1>3, <3>1, <3>2, <3>3, <3>4, <3>5, <3>6 DEF VcpuStep, ExitStep
  <2>3. cycle' = cycle /\ \A u \in Vcpus : pc[u] # "drain" => regs'[u] = regs[u]
    <3>1. CASE DrainAndCapture(v)
      <4>1. regs \in [Vcpus -> 0..MaxCycles]
        BY DEF CountInv, KickInv, TypeInv, TypeOK, VcpuTypes
      <4> QED  BY <3>1, <4>1 DEF DrainAndCapture
    <3>2. CASE ~DrainAndCapture(v)
      BY <1>3, <3>2 DEF VcpuStep, ExitStep, LoopHead, Enter, Interrupt, Eintr,
                        Park, Unpark, GuestExit, Dispatch, Stop
    <3> QED  BY <3>1, <3>2
  <2>4. freeze => Settled \subseteq Settled'
    BY <2>2, <2>3 DEF Settled, OutPcs
  <2> QED  BY <2>1, <2>2, <2>4, <1>types, <1>flag, <1>parked, CountFrame
<1> QED  BY <1>1, <1>2, <1>3

(* What one step of the worker does to the three pictures of it. *)
LEMMA WorkerMoves ==
    ASSUME WorkerStep, paused \in BOOLEAN, parkedEvt \in Nat
    PROVE  /\ UNCHANGED <<pc, parked, cpc, count, expected, wrun, allParked,
                          upset, kill, bspDone, regs, since, cycle>>
           /\ WorkerFree =>
                 /\ WorkerFree' /\ parkedEvt' = parkedEvt
                 /\ wk # "start" => wk' # "start" /\ (WorkerAlive <=> WorkerAlive')
           /\ WorkerInFreeze =>
                 /\ WorkerInFreeze'
                 /\ \/ parkedEvt' = parkedEvt /\ WorkerAcked' = WorkerAcked
                    \/ parkedEvt' = parkedEvt + 1 /\ WorkerAcked = 0 /\ WorkerAcked' = 1
           /\ WorkerStopped => WorkerStopped'
<1> USE DEF WorkerFree, WorkerInFreeze, WorkerStopped, WorkerAcked, WorkerAlive,
            vcpuVars, waitVars, coordVars
<1>1. CASE WorkerStart
  BY <1>1 DEF WorkerStart
<1>2. CASE WorkerDrain
  BY <1>2 DEF WorkerDrain
<1>3. CASE WorkerDrained
  BY <1>3 DEF WorkerDrained
<1>4. CASE WorkerPause
  BY <1>4 DEF WorkerPause
<1>5. CASE WorkerAck
  BY <1>5 DEF WorkerAck
<1>6. CASE WorkerUnpark
  BY <1>6 DEF WorkerUnpark
<1> QED  BY <1>1, <1>2, <1>3, <1>4, <1>5, <1>6 DEF WorkerStep

(* The steps of the worker. *)
LEMMA CountWorker ==
    ASSUME CountInv, WorkerStep
    PROVE  /\ ParkedFlag' /\ BeforeFreeze' /\ Kicking' /\ Counting'
           /\ Stopped' /\ Thawing'
<1>types. /\ parkedEvt \in Nat /\ parkedEvt' \in Nat /\ count \in Nat
          /\ paused \in BOOLEAN
          /\ WorkerAcked \in Nat /\ WorkerAcked' \in Nat
  <2>1. TypeInv'
    BY TypeStep DEF CountInv, KickInv, Next
  <2> QED  BY <2>1 DEF CountInv, KickInv, TypeInv, TypeOK, FlagTypes, BlkTypes,
                       WaitTypes, WorkerAcked
<1>1. /\ UNCHANGED <<pc, parked, cpc, count, expected, wrun, allParked, upset,
                     kill, bspDone, regs, cycle>>
      /\ Settled' = Settled
  BY <1>types, WorkerMoves DEF Settled
<1>2. Cardinality(Settled) \in Nat
  BY SettledFinite
<1> USE DEF CountInv, Calm
<1>3. ParkedFlag'
  BY <1>1 DEF ParkedFlag
<1>4. BeforeFreeze'
  BY <1>1, <1>types, WorkerMoves DEF BeforeFreeze
<1>5. Kicking'
  <2> SUFFICES ASSUME Calm', cpc' \in {"ie", "signal"}
               PROVE  WorkerInFreeze' /\ parkedEvt' <= Cardinality(Settled') + WorkerAcked'
    BY DEF Kicking
  <2>1. WorkerInFreeze /\ parkedEvt <= Cardinality(Settled) + WorkerAcked
    BY <1>1 DEF Kicking
  <2>2. CASE parkedEvt' = parkedEvt /\ WorkerAcked' = WorkerAcked
    BY <1>1, <1>types, <2>1, <2>2, WorkerMoves
  <2>3. CASE parkedEvt' = parkedEvt + 1 /\ WorkerAcked = 0 /\ WorkerAcked' = 1
    <3>1. parkedEvt' <= Cardinality(Settled) + 1
      BY <1>types, <1>2, <2>1, <2>3, SMT
    <3> QED  BY <1>1, <1>types, <2>1, <2>3, <3>1, WorkerMoves
  <2> QED  BY <1>types, <2>1, <2>2, <2>3, WorkerMoves
<1>6. Counting'
  <2> SUFFICES ASSUME cpc' = "rendezvous", upset' = {}
               PROVE  /\ expected' = Cardinality(Vcpus) + IF wrun' THEN 1 ELSE 0
                      /\ Calm' =>
                            /\ WorkerInFreeze'
                            /\ parkedEvt' + count' <= Cardinality(Settled') + WorkerAcked'
                      /\ count' > 0 =>
                            /\ WorkerInFreeze'
                            /\ count' <= Cardinality(Settled') + WorkerAcked'
    BY DEF Counting
  <2>1. expected' = Cardinality(Vcpus) + IF wrun' THEN 1 ELSE 0
    BY <1>1 DEF Counting
  <2>2. ASSUME Calm'
        PROVE  /\ WorkerInFreeze'
               /\ parkedEvt' + count' <= Cardinality(Settled') + WorkerAcked'
    <3>1. WorkerInFreeze /\ parkedEvt + count <= Cardinality(Settled) + WorkerAcked
      BY <1>1, <2>2 DEF Counting
    <3>2. CASE parkedEvt' = parkedEvt /\ WorkerAcked' = WorkerAcked
      BY <1>1, <1>types, <3>1, <3>2, WorkerMoves
    <3>3. CASE parkedEvt' = parkedEvt + 1 /\ WorkerAcked = 0 /\ WorkerAcked' = 1
      <4>1. parkedEvt' + count <= Cardinality(Settled) + 1
        BY <1>types, <1>2, <3>1, <3>3, SMT
      <4> QED  BY <1>1, <1>types, <3>1, <3>3, <4>1, WorkerMoves
    <3> QED  BY <1>types, <3>1, <3>2, <3>3, WorkerMoves
  <2>3. ASSUME count' > 0
        PROVE  WorkerInFreeze' /\ count' <= Cardinality(Settled') + WorkerAcked'
    <3>1. WorkerInFreeze /\ count <= Cardinality(Settled) + WorkerAcked
      BY <1>1, <2>3 DEF Counting
    <3>2. /\ WorkerInFreeze'
          /\ \/ parkedEvt' = parkedEvt /\ WorkerAcked' = WorkerAcked
             \/ parkedEvt' = parkedEvt + 1 /\ WorkerAcked = 0 /\ WorkerAcked' = 1
      BY <1>types, <3>1, WorkerMoves
    <3>3. count <= Cardinality(Settled) + WorkerAcked'
      <4>1. CASE WorkerAcked' = WorkerAcked
        BY <3>1, <4>1
      <4>2. CASE WorkerAcked = 0 /\ WorkerAcked' = 1
        <5>1. count <= Cardinality(Settled) + 1
          BY <1>types, <1>2, <3>1, <4>2, SMT
        <5> QED  BY <4>2, <5>1
      <4> QED  BY <3>2, <4>1, <4>2
    <3> QED  BY <1>1, <3>2, <3>3
  <2> QED  BY <2>1, <2>2, <2>3
<1>7. Stopped'
  BY <1>1, <1>types, WorkerMoves DEF Stopped
<1>8. Thawing'
  BY <1>1, <1>types, WorkerMoves DEF Thawing
<1> QED  BY <1>3, <1>4, <1>5, <1>6, <1>7, <1>8

(* The steps of the coordinator that start a freeze. *)
LEMMA CountStart ==
    ASSUME CountInv,
           \/ LoopStep \/ CoordCapture \/ CoordNext \/ FcDrain \/ FcSeed
           \/ FcFreeze \/ FcImmediateExit \/ FcSignal
    PROVE  BeforeFreeze' /\ Kicking' /\ Counting' /\ Stopped' /\ Thawing'
<1> USE DEF vcpuVars, blkVars, waitVars, coordVars
<1>types. /\ kill \in BOOLEAN /\ parkedEvt \in Nat /\ paused \in BOOLEAN
          /\ cpc \in CoordPcs
  BY DEF CountInv, KickInv, TypeInv, TypeOK, FlagTypes, VcpuTypes, BlkTypes,
         WaitTypes, CoordTypes
<1>1. /\ UNCHANGED <<pc, kill, bspDone, wk, paused>>
      /\ cpc # "drain" => Settled' = Settled
  BY DEF LoopStep, CoordLoop, CoordRetest, CoordHead, CoordCapture, CoordNext, FcDrain, FcSeed, FcFreeze,
         FcImmediateExit, FcSignal, Settled
<1>2. Cardinality(Settled) \in Nat
  BY SettledFinite
<1> USE DEF CountInv, Calm, WorkerFree, WorkerInFreeze, WorkerAcked, WorkerAlive
<1>3. CASE LoopStep \/ CoordCapture \/ CoordNext
  <2>1. /\ cpc \in {"loop", "retest", "head", "body"}
        /\ cpc' \in {"loop", "retest", "head", "body", "drain", "done"}
        /\ UNCHANGED <<upset, pauseEvt>>
    BY <1>3 DEF LoopStep, CoordLoop, CoordRetest, CoordHead, CoordCapture, CoordNext
  <2>2. BeforeFreeze'
    BY <1>1, <2>1 DEF BeforeFreeze
  <2> QED  BY <2>1, <2>2 DEF Kicking, Counting, Stopped, Thawing
<1>5. CASE FcDrain
  <2>1. /\ cpc = "drain" /\ cpc' = "seed" /\ parkedEvt' = 0
        /\ wrun' = (wk # "absent" /\ ~paused) /\ pauseEvt' = pauseEvt
        /\ upset' = IF wk = "start" THEN upset \cup {<<"spawn", cycle + 1>>} ELSE upset
    BY <1>5 DEF FcDrain
  <2>2. ASSUME Calm' PROVE /\ wk # "start" /\ WorkerFree
                           /\ \A v \in Vcpus : pc[v] \notin FreezePcs
    BY <1>1, <2>1, <2>2 DEF BeforeFreeze
  <2>3. ASSUME Calm' PROVE wrun' <=> WorkerAlive'
    BY <1>1, <2>1, <2>2, <2>3
  <2>4. BeforeFreeze'
    BY <1>1, <2>1, <2>2, <2>3 DEF BeforeFreeze
  <2> QED  BY <2>1, <2>4 DEF Kicking, Counting, Stopped, Thawing
<1>6. CASE FcSeed
  <2>1. ASSUME Calm PROVE StillParked = 0
    <3>1. {v \in Vcpus : parked[v]} = {}
      BY <1>6, <2>1 DEF FcSeed, BeforeFreeze, ParkedFlag, FreezePcs
    <3>2. ~(wrun /\ paused)
      BY <1>6, <2>1 DEF FcSeed, BeforeFreeze
    <3> QED  BY <3>1, <3>2, FS_EmptySet, SMT DEF StillParked
  <2>2. /\ cpc = "seed" /\ cpc' = "freeze" /\ upset' = upset
        /\ wrun' = wrun /\ pauseEvt' = pauseEvt
        /\ parkedEvt' = parkedEvt + StillParked
    BY <1>6 DEF FcSeed
  <2>3. BeforeFreeze'
    BY <1>1, <2>1, <2>2, SMT DEF BeforeFreeze
  <2> QED  BY <2>2, <2>3 DEF Kicking, Counting, Stopped, Thawing
<1>7. CASE FcFreeze
  <2>1. /\ cpc = "freeze" /\ cpc' = "ie" /\ upset' = upset
        /\ wrun' = wrun /\ pauseEvt' = (pauseEvt \/ WorkerAlive)
        /\ parkedEvt' = parkedEvt
    BY <1>7 DEF FcFreeze
  <2>2. ASSUME Calm' PROVE WorkerInFreeze' /\ parkedEvt = 0
    BY <1>1, <2>1, <2>2, <1>types DEF BeforeFreeze
  <2>3. Kicking'
    BY <1>1, <1>2, <2>1, <2>2, SMT DEF Kicking
  <2> QED  BY <2>1, <2>3 DEF BeforeFreeze, Counting, Stopped, Thawing
<1>8. CASE FcImmediateExit
  <2>1. /\ cpc = "ie" /\ cpc' = "signal"
        /\ UNCHANGED <<upset, wrun, pauseEvt, parkedEvt>>
    BY <1>8 DEF FcImmediateExit
  <2>2. Kicking'
    BY <1>1, <2>1 DEF Kicking
  <2> QED  BY <2>1, <2>2 DEF BeforeFreeze, Counting, Stopped, Thawing
<1>9. CASE FcSignal
  <2>1. expected' = Cardinality(Vcpus) + IF wrun THEN 1 ELSE 0
    BY <1>9, VcpusFinite DEF FcSignal
  <2>2. /\ cpc = "signal" /\ cpc' = "rendezvous" /\ count' = 0
        /\ UNCHANGED <<upset, wrun, pauseEvt, parkedEvt>>
    BY <1>9 DEF FcSignal
  <2>3. Counting'
    BY <1>1, <1>2, <2>1, <2>2, <1>types, SMT DEF Kicking, Counting
  <2> QED  BY <2>2, <2>3 DEF BeforeFreeze, Kicking, Stopped, Thawing
<1> QED  BY <1>3, <1>5, <1>6, <1>7, <1>8, <1>9

(* Enough acks mean that every expected parker has acked. *)
LEMMA FullCount ==
    ASSUME CountInv, cpc = "rendezvous", upset = {}, count >= expected
    PROVE  Settled = Vcpus /\ WorkerStopped
<1>1. /\ count \in Nat /\ Cardinality(Settled) \in Nat
      /\ Cardinality(Vcpus) \in Nat /\ Cardinality(Vcpus) > 0
      /\ Cardinality(Settled) <= Cardinality(Vcpus)
      /\ wrun \in BOOLEAN /\ wk \in WorkerPcs
  BY VcpusFinite, SettledFinite, SMT
     DEF CountInv, KickInv, TypeInv, TypeOK, BlkTypes, WaitTypes
<1>2. expected = Cardinality(Vcpus) + IF wrun THEN 1 ELSE 0
  BY DEF CountInv, Counting
<1>3. count > 0
  BY <1>1, <1>2, SMT
<1>4. WorkerInFreeze /\ count <= Cardinality(Settled) + WorkerAcked
  BY <1>3 DEF CountInv, Counting
<1>5. WorkerAcked = 1 => wrun
  BY <1>4, SMT DEF WorkerAcked, WorkerInFreeze
<1>6. Cardinality(Settled) = Cardinality(Vcpus) /\ (wrun => WorkerAcked = 1)
  BY <1>1, <1>2, <1>4, <1>5, SMT DEF WorkerAcked
<1>7. WorkerStopped
  BY <1>1, <1>4, <1>6, SMT DEF WorkerStopped, WorkerInFreeze, WorkerAcked
<1> QED  BY <1>6, <1>7, SettledFinite

(* The steps of the coordinator from the rendezvous loop to the barrier. *)
LEMMA CountEnd ==
    ASSUME CountInv,
           \/ FcLeave \/ FcPoll \/ FcDropWorker \/ FcTimeout \/ FcCollect
           \/ FcCapture \/ Thaw \/ ThawBarrier \/ BarrierTimeout
    PROVE  BeforeFreeze' /\ Kicking' /\ Counting' /\ Stopped' /\ Thawing'
<1> USE DEF vcpuVars, blkVars, waitVars, coordVars
<1>types. /\ kill \in BOOLEAN /\ parkedEvt \in Nat /\ count \in Nat
          /\ expected \in Nat /\ bspDone \in BOOLEAN
  BY DEF CountInv, KickInv, TypeInv, TypeOK, FlagTypes, VcpuTypes, BlkTypes,
         WaitTypes, CoordTypes
<1>1. /\ UNCHANGED <<pc, kill, bspDone, wk, pauseEvt>>
      /\ Settled' = Settled
  BY DEF FcLeave, FcPoll, FcDropWorker, FcTimeout, FcCollect, FcCapture, Thaw,
         ThawBarrier, BarrierTimeout, Settled
<1>2. Cardinality(Settled) \in Nat
  BY SettledFinite
<1> USE DEF Calm
<1>3. CASE FcLeave
  <2>1. /\ cpc = "rendezvous" /\ cpc' = "collect"
        /\ allParked' = (~bspDone /\ count >= expected)
        /\ bspDone \/ count >= expected \/ kill
        /\ UNCHANGED <<paused, upset>>
    BY <1>3 DEF FcLeave
  <2>2. Stopped'
    BY <1>1, <2>1, <1>types, FullCount DEF Stopped, WorkerStopped
  <2> QED  BY <2>1, <2>2 DEF BeforeFreeze, Kicking, Counting, Thawing
<1>4. CASE FcPoll
  <2>1. /\ cpc = "rendezvous" /\ cpc' = cpc /\ ~bspDone /\ ~kill
        /\ count' = count + parkedEvt /\ parkedEvt' = 0
        /\ UNCHANGED <<paused, upset, wrun, expected>>
    BY <1>4 DEF FcPoll
  <2>2. Counting'
    BY <1>1, <1>2, <2>1, <1>types, SMT
       DEF CountInv, Counting, WorkerInFreeze, WorkerAcked
  <2> QED  BY <2>1, <2>2 DEF BeforeFreeze, Kicking, Stopped, Thawing
<1>5. CASE FcDropWorker
  <2>1. upset' # {} /\ UNCHANGED <<paused>>
    BY <1>5 DEF FcDropWorker
  <2> QED  BY <2>1 DEF BeforeFreeze, Kicking, Counting, Stopped, Thawing
<1>6. CASE FcTimeout \/ BarrierTimeout
  <2>1. upset' # {}
    BY <1>6 DEF FcTimeout, BarrierTimeout
  <2> QED  BY <2>1 DEF BeforeFreeze, Kicking, Counting, Stopped, Thawing
<1>7. CASE FcCollect \/ FcCapture
  <2>1. /\ cpc \in {"collect", "capture"} /\ cpc' \in {"capture", "thaw"}
        /\ UNCHANGED <<paused, upset, allParked>>
    BY <1>7 DEF FcCollect, FcCapture
  <2>2. Stopped'
    BY <1>1, <2>1 DEF CountInv, Stopped, WorkerStopped
  <2> QED  BY <2>1, <2>2 DEF BeforeFreeze, Kicking, Counting, Thawing
<1>8. CASE Thaw
  <2>1. /\ cpc = "thaw" /\ paused' = (wk = "none") /\ upset' = upset
        /\ cpc' = IF bspDone THEN "body" ELSE "barrier"
    BY <1>8 DEF Thaw
  <2>2. ASSUME Calm' PROVE Settled = Vcpus /\ WorkerStopped
    BY <1>1, <2>1, <2>2 DEF CountInv, Stopped
  <2>3. Thawing'
    <3>1. ASSUME Calm' PROVE WorkerFree'
      BY <1>1, <2>1, <2>2, <3>1 DEF WorkerFree, WorkerStopped
    <3>2. ASSUME Calm', NEW v \in Vcpus PROVE pc'[v] \notin {"drain", "park", "ack"}
      BY <1>1, <2>2, <3>2 DEF Settled, OutPcs
    <3> QED  BY <3>1, <3>2 DEF Thawing
  <2> QED  BY <1>1, <2>1, <2>3, <1>types
              DEF BeforeFreeze, Kicking, Counting, Stopped
<1>9. CASE ThawBarrier
  <2>1. /\ cpc = "barrier" /\ cpc' = "body"
        /\ kill \/ bspDone \/ AllUnparked
        /\ UNCHANGED <<paused, upset>>
    BY <1>9 DEF ThawBarrier
  <2>2. ASSUME Calm', NEW v \in Vcpus PROVE pc'[v] \notin FreezePcs
    BY <1>1, <2>1, <2>2
       DEF CountInv, Thawing, ParkedFlag, AllUnparked, FreezePcs
  <2>3. BeforeFreeze'
    BY <1>1, <2>1, <2>2 DEF CountInv, BeforeFreeze, Thawing, WorkerFree
  <2> QED  BY <2>1, <2>3 DEF Kicking, Counting, Stopped, Thawing
<1> QED  BY <1>3, <1>4, <1>5, <1>6, <1>7, <1>8, <1>9

(* The teardown steps, and kill by the coordinator. *)
LEMMA CountTeardown ==
    ASSUME CountInv,
           \/ CoordKill \/ WatchdogFire \/ TeardownStep \/ CollectRekick
           \/ UNCHANGED vars
    PROVE  /\ ParkedFlag' /\ BeforeFreeze' /\ Kicking' /\ Counting'
           /\ Stopped' /\ Thawing'
<1> USE DEF vcpuVars, blkVars, waitVars, coordVars
<1>types. /\ kill \in BOOLEAN /\ bspDone \in BOOLEAN
          /\ pc \in [Vcpus -> VcpuPcs] /\ BSP \in Vcpus
  BY VcpusFinite DEF CountInv, KickInv, TypeInv, TypeOK, FlagTypes, VcpuTypes
<1>1. /\ UNCHANGED Ledger /\ UNCHANGED <<parked, regs, since, cycle>>
      /\ (kill => kill') /\ (bspDone => bspDone')
  <2> USE DEF Ledger
  <2>1. CASE CoordKill
    BY <2>1 DEF CoordKill
  <2>5. CASE WatchdogFire
    BY <2>5 DEF WatchdogFire
  <2>2. CASE CollectRekick
    BY <2>2 DEF CollectRekick
  <2>6. CASE UNCHANGED vars
    BY <2>6 DEF vars
  <2>3. CASE WatchdogReturn \/ BspDone \/ BspKill
    BY <2>3, SMT DEF WatchdogReturn, BspDone, BspKill
  <2>4. CASE CollectKick \/ JoinAPs
    BY <2>4, SMT DEF CollectKick, JoinAPs
  <2> QED  BY <2>1, <2>2, <2>3, <2>4, <2>5, <2>6 DEF TeardownStep
<1>2. /\ \A v \in APs : pc'[v] = pc[v]
      /\ pc'[BSP] = pc[BSP] \/ (pc[BSP] \in OutPcs /\ pc'[BSP] \in OutPcs)
  <2> USE <1>types, RendezvousAssumption DEF Vcpus, OutPcs
  <2>1. CASE CoordKill \/ WatchdogFire \/ CollectRekick \/ UNCHANGED vars
    BY <2>1 DEF CoordKill, WatchdogFire, CollectRekick, vars
  <2>2. CASE WatchdogReturn \/ BspDone \/ BspKill
    BY <2>2 DEF WatchdogReturn, BspDone, BspKill
  <2>3. CASE CollectKick \/ JoinAPs
    BY <2>3 DEF CollectKick, JoinAPs
  <2> QED  BY <2>1, <2>2, <2>3 DEF TeardownStep
<1>3. Settled \subseteq Settled'
  BY <1>1, <1>2 DEF Settled, Vcpus
<1>4. \A v \in Vcpus :
          /\ pc'[v] \in FreezePcs => pc[v] \in FreezePcs
          /\ pc'[v] \in {"drain", "park", "ack"} =>
                 pc[v] \in {"drain", "park", "ack"}
  BY <1>2 DEF FreezePcs, OutPcs, Vcpus
<1>5. ParkedFlag'
  BY <1>1, <1>2 DEF CountInv, ParkedFlag, OutPcs, Vcpus
<1> QED  BY <1>1, <1>3, <1>4, <1>5, <1>types, CountFrame

(* Only the start of a freeze changes its number, and a disturbance goes on
   record under the number of the freeze it disturbs. *)
LEMMA Disturbance ==
    ASSUME [Next]_vars
    PROVE  \/ FcDrain
           \/ /\ cycle' = cycle /\ (kill => kill') /\ (bspDone => bspDone')
              /\ upset' = upset \/ \E k : upset' = upset \cup {<<k, cycle>>}
<1> USE DEF vcpuVars, blkVars, waitVars, coordVars
<1>1. CASE \E v \in Vcpus : VcpuStep(v) \/ GuestExit(v)
  BY <1>1 DEF VcpuStep, LoopHead, Enter, Interrupt, Eintr, DrainAndCapture, Park,
              Ack, Unpark, GuestExit
<1>2. CASE \E v \in Vcpus : ExitStep(v)
  BY <1>2 DEF ExitStep, Dispatch, Stop, DriverOk
<1>3. CASE WorkerStep
  BY <1>3 DEF WorkerStep, WorkerStart, WorkerDrain, WorkerDrained, WorkerPause,
              WorkerAck, WorkerUnpark
<1>4. CASE LoopStep \/ CoordNext \/ CoordCapture \/ CoordKill \/ ThawStep
  BY <1>4 DEF LoopStep, CoordLoop, CoordRetest, CoordHead, CoordNext,
              CoordCapture, CoordKill, ThawStep, Thaw, ThawBarrier, BarrierTimeout
<1>5. CASE FreezeStep
  BY <1>5 DEF FreezeStep, FcSeed, FcFreeze, FcImmediateExit, FcSignal,
              FcLeave, FcPoll, FcDropWorker, FcTimeout, FcCollect, FcCapture
<1>6. CASE TeardownStep \/ WatchdogFire \/ CollectRekick
  BY <1>6 DEF TeardownStep, WatchdogReturn, BspDone, BspKill, CollectKick,
              JoinAPs, WatchdogFire, CollectRekick
<1>7. CASE UNCHANGED vars
  BY <1>7 DEF vars
<1> QED  BY <1>1, <1>2, <1>3, <1>4, <1>5, <1>6, <1>7
            DEF Next, CoordStep, Finished

\* A disturbance is recorded under the number of a freeze that has begun.
LEMMA UpsetsStep ==
    ASSUME CountInv, [Next]_vars
    PROVE  UpsetsPast'
<1>1. cycle \in Nat /\ UpsetsPast
  BY RendezvousAssumption, SMT
     DEF CountInv, KickInv, TypeInv, TypeOK, CoordTypes
<1>2. \A u \in upset : u[2] <= cycle /\ u[2] <= cycle + 1
  <2>1. upset \subseteq Upsets \X (0..MaxCycles)
    BY DEF CountInv, KickInv, TypeInv, TypeOK, FlagTypes
  <2> QED  BY <1>1, <2>1, RendezvousAssumption, SMT DEF UpsetsPast
<1>3. CASE FcDrain
  BY <1>1, <1>2, <1>3, SMT DEF FcDrain, UpsetsPast
<1>4. CASE cycle' = cycle /\ (upset' = upset \/ \E k : upset' = upset \cup {<<k, cycle>>})
  BY <1>1, <1>2, <1>4, SMT DEF UpsetsPast
<1> QED  BY <1>3, <1>4, Disturbance

(* A vCPU in handle_freeze serves the freeze under way, unless an earlier one
   was disturbed. *)
LEMMA ServingStep ==
    ASSUME CountInv, [Next]_vars
    PROVE  Serving'
<1> USE DEF vcpuVars, blkVars, waitVars, coordVars
<1>types. /\ pc \in [Vcpus -> VcpuPcs] /\ regs \in [Vcpus -> 0..MaxCycles]
          /\ since \in [Vcpus -> 0..MaxCycles]
          /\ kill \in BOOLEAN /\ bspDone \in BOOLEAN /\ BSP \in Vcpus
  BY VcpusFinite DEF CountInv, KickInv, TypeInv, TypeOK, FlagTypes, VcpuTypes
<1>flag. freeze <=> cpc \in {"ie"} \cup KickedPcs
  BY DEF CountInv, KickInv, FreezeFlag
<1>inv. Serving
  BY DEF CountInv
<1> SUFFICES ASSUME Fresh'
             PROVE  /\ cpc' \in {"seed", "freeze"} => \A v \in Vcpus : Cleared(v)'
                    /\ cpc' \in {"ie"} \cup KickedPcs => \A v \in Vcpus : Serves(v)'
  BY DEF Serving
<1>drain. CASE FcDrain
  <2>1. cycle \in Nat
    BY RendezvousAssumption, SMT
       DEF CountInv, KickInv, TypeInv, TypeOK, CoordTypes
  <2>2. /\ cpc = "drain" /\ cpc' = "seed" /\ cycle' = cycle + 1
        /\ regs' = [v \in Vcpus |-> 0]
        /\ upset \subseteq upset' /\ UNCHANGED <<pc, kill, bspDone>>
    BY <1>drain DEF FcDrain
  <2>3. upset = {}
    BY <2>1, <2>2, SMT DEF CountInv, UpsetsPast, Fresh
  <2>4. \A v \in Vcpus : pc[v] \notin FreezePcs
    BY <2>2, <2>3 DEF CountInv, BeforeFreeze, Calm, Fresh
  <2> QED  BY <2>2, <2>4 DEF Cleared, KickedPcs
<1>rest. CASE ~FcDrain
  <2>fresh. Fresh /\ cycle' = cycle
    BY <1>rest, Disturbance, <1>types DEF Fresh
  <2>frame. CASE UNCHANGED <<cpc, pc, regs, since>>
    BY <1>inv, <2>fresh, <2>frame DEF Serving, Cleared, Serves
  <2>1. ASSUME NEW v \in Vcpus, VcpuStep(v) \/ ExitStep(v) \/ GuestExit(v)
        PROVE  /\ cpc' \in {"seed", "freeze"} => \A u \in Vcpus : Cleared(u)'
               /\ cpc' \in {"ie"} \cup KickedPcs => \A u \in Vcpus : Serves(u)'
    <3>1. /\ cpc' = cpc
          /\ \A u \in Vcpus \ {v} : /\ pc'[u] = pc[u] /\ regs'[u] = regs[u]
                                    /\ since'[u] = since[u]
      BY <2>1, <1>types
         DEF VcpuStep, LoopHead, Enter, Interrupt, Eintr, DrainAndCapture, Park,
             Ack, Unpark, GuestExit, ExitStep, Dispatch, Stop, DriverOk
    <3>2. \/ pc'[v] \notin FreezePcs /\ regs'[v] = regs[v]
          \/ freeze /\ pc'[v] = "drain" /\ since'[v] = cycle /\ regs'[v] = regs[v]
          \/ /\ pc[v] = "drain" /\ pc'[v] = "park"
             /\ regs'[v] = since[v] /\ since'[v] = since[v]
          \/ /\ pc[v] \in {"park", "ack"} /\ pc'[v] \in {"ack", "wait"}
             /\ regs'[v] = regs[v] /\ since'[v] = since[v]
      <4> USE <1>types
      <4>1. CASE LoopHead(v)
        BY <4>1 DEF LoopHead, Leave, FreezePcs, OutPcs
      <4>2. CASE Enter(v) \/ GuestExit(v) \/ Interrupt(v) \/ Eintr(v)
        BY <4>2 DEF Enter, GuestExit, Interrupt, Eintr, FreezePcs
      <4>3. CASE Dispatch(v) \/ Stop(v) \/ DriverOk(v)
        BY <4>3 DEF Dispatch, Stop, DriverOk, Leave, FreezePcs
      <4>4. CASE DrainAndCapture(v)
        BY <4>4 DEF DrainAndCapture
      <4>5. CASE Park(v) \/ Ack(v)
        BY <4>5 DEF Park, Ack
      <4>6. CASE Unpark(v)
        BY <4>6 DEF Unpark, Leave, FreezePcs
      <4> QED  BY <2>1, <4>1, <4>2, <4>3, <4>4, <4>5, <4>6 DEF VcpuStep, ExitStep
    <3>3. ASSUME cpc \in {"seed", "freeze"}, NEW u \in Vcpus PROVE Cleared(u)'
      <4>1. Cleared(u) /\ Cleared(v) /\ ~freeze
        BY <3>3, <1>inv, <1>flag, <2>fresh DEF Serving, KickedPcs
      <4> QED  BY <3>1, <3>2, <4>1 DEF Cleared, FreezePcs
    <3>4. ASSUME cpc \in {"ie"} \cup KickedPcs, NEW u \in Vcpus PROVE Serves(u)'
      <4>1. Serves(u) /\ Serves(v)
        BY <3>4, <1>inv, <2>fresh DEF Serving
      <4>2. CASE u # v
        BY <3>1, <4>1, <4>2, <2>fresh DEF Serves
      <4>3. Serves(v)'
        BY <3>2, <4>1, <2>fresh DEF Serves, FreezePcs
      <4> QED  BY <4>2, <4>3
    <3> QED  BY <3>1, <3>3, <3>4
  <2>2. CASE WorkerStep
    BY <2>2, <2>frame DEF WorkerStep, WorkerStart, WorkerDrain, WorkerDrained,
                          WorkerPause, WorkerAck, WorkerUnpark
  <2>3. CASE FcPoll \/ CoordKill \/ WatchdogFire \/ WatchdogReturn
             \/ CollectRekick \/ UNCHANGED vars
    BY <2>3, <2>frame DEF FcPoll, CoordKill, WatchdogFire, WatchdogReturn,
                          CollectRekick, vars
  <2>4. CASE LoopStep \/ CoordCapture \/ CoordNext \/ ThawStep
    <3>1. cpc' \notin {"seed", "freeze", "ie"} \cup KickedPcs
      BY <2>4 DEF LoopStep, CoordLoop, CoordRetest, CoordHead, CoordCapture,
                  CoordNext, ThawStep, Thaw, ThawBarrier, BarrierTimeout, KickedPcs
    <3> QED  BY <3>1
  <2>5. CASE FcSeed \/ FcFreeze
    <3>1. /\ cpc \in {"seed", "freeze"} /\ cpc' \in {"freeze", "ie"}
          /\ UNCHANGED <<pc, regs>>
      BY <2>5 DEF FcSeed, FcFreeze
    <3>2. \A v \in Vcpus : Cleared(v)
      BY <1>inv, <2>fresh, <3>1 DEF Serving
    <3> QED  BY <3>1, <3>2 DEF Cleared, Serves, FreezePcs
  <2>6. CASE \/ FcImmediateExit \/ FcSignal \/ FcLeave \/ FcDropWorker
             \/ FcTimeout \/ FcCollect \/ FcCapture
    <3>1. /\ cpc \in {"ie"} \cup KickedPcs /\ cpc' \notin {"seed", "freeze"}
          /\ UNCHANGED <<pc, regs, since>>
      BY <2>6 DEF FcImmediateExit, FcSignal, FcLeave, FcDropWorker, FcTimeout,
                  FcCollect, FcCapture, KickedPcs
    <3>2. \A v \in Vcpus : Serves(v)
      BY <1>inv, <2>fresh, <3>1 DEF Serving
    <3> QED  BY <2>fresh, <3>1, <3>2 DEF Serves
  <2>7. CASE BspDone \/ BspKill \/ CollectKick
    BY <2>7 DEF BspDone, BspKill, CollectKick, Fresh
  <2>8. CASE JoinAPs
    <3>1. /\ pc' = [pc EXCEPT ![BSP] = "joined"]
          /\ UNCHANGED <<cpc, regs, since>>
      BY <2>8 DEF JoinAPs
    <3>2. \A v \in Vcpus : pc'[v] \in FreezePcs => pc'[v] = pc[v]
      BY <3>1, <1>types DEF FreezePcs
    <3> QED  BY <1>inv, <2>fresh, <3>1, <3>2 DEF Serving, Cleared, Serves, FreezePcs
  <2> QED
    BY <1>rest, <2>1, <2>2, <2>3, <2>4, <2>5, <2>6, <2>7, <2>8
       DEF Next, CoordStep, FreezeStep, TeardownStep, Finished
<1> QED  BY <1>drain, <1>rest

\* Every step keeps CountInv, one case for each action.
LEMMA CountStep == CountInv /\ [Next]_vars => CountInv'
<1> SUFFICES ASSUME CountInv, [Next]_vars
             PROVE  /\ ParkedFlag' /\ BeforeFreeze' /\ Kicking' /\ Counting'
                    /\ Stopped' /\ Thawing'
  BY KickStep, ServingStep, UpsetsStep DEF CountInv
<1>1. CASE \E v \in Vcpus : VcpuStep(v) \/ ExitStep(v) \/ GuestExit(v)
  BY <1>1, CountVcpu
<1>2. CASE WorkerStep
  BY <1>2, CountWorker
<1>3. CASE \/ LoopStep \/ CoordCapture \/ CoordNext \/ FcDrain \/ FcSeed
           \/ FcFreeze \/ FcImmediateExit \/ FcSignal
  <2>1. ParkedFlag'
    BY <1>3 DEF CountInv, ParkedFlag, vcpuVars, LoopStep, CoordLoop, CoordRetest,
                CoordHead, CoordCapture,
                CoordNext, FcDrain, FcSeed, FcFreeze, FcImmediateExit, FcSignal
  <2> QED  BY <1>3, <2>1, CountStart
<1>4. CASE \/ FcLeave \/ FcPoll \/ FcDropWorker \/ FcTimeout \/ FcCollect
           \/ FcCapture \/ Thaw \/ ThawBarrier \/ BarrierTimeout
  <2>1. ParkedFlag'
    BY <1>4 DEF CountInv, ParkedFlag, vcpuVars, FcLeave, FcPoll, FcDropWorker,
                FcTimeout, FcCollect, FcCapture, Thaw, ThawBarrier,
                BarrierTimeout
  <2> QED  BY <1>4, <2>1, CountEnd
<1>5. CASE CoordKill \/ WatchdogFire \/ TeardownStep \/ CollectRekick
             \/ UNCHANGED vars
  BY <1>5, CountTeardown
<1> QED  BY <1>1, <1>2, <1>3, <1>4, <1>5
            DEF Next, CoordStep, FreezeStep, ThawStep, Finished

(* An undisturbed rendezvous that counted enough acks has stopped everything
   that writes guest memory, for any finite set of vCPUs. *)
THEOREM CaptureIsQuiesced == Spec => []QuiescedCapture
<1>1. Spec => []CountInv
  BY CountInit, CountStep, PTL DEF Spec
<1>2. CountInv => QuiescedCapture
  BY DEF CountInv, Stopped, QuiescedCapture, Quiesced, Settled, WorkerStopped
<1> QED  BY <1>1, <1>2, PTL

(* The registers a report collects were captured for this freeze, as long as no
   earlier one was disturbed and no teardown has begun, and an undisturbed full
   dump has those of every vCPU (handle_freeze fills the slots that the entry of
   freeze_and_capture has cleared). *)
THEOREM ReportHasItsRegisters == Spec => []RegsOfThisCycle
<1>1. Spec => []CountInv
  BY CountInit, CountStep, PTL DEF Spec
<1>2. CountInv => RegsOfThisCycle
  BY DEF CountInv, Stopped, Serving, Serves, Settled, Fresh, RegsOfThisCycle,
         KickedPcs
<1> QED  BY <1>1, <1>2, PTL

(* A step moves a thread or the dump, not both; the spawn of a worker under a
   freeze is on record as a disturbance. *)
LEMMA ThreadsOrDump ==
    ASSUME [Next]_vars
    PROVE  \/ UNCHANGED <<pc, wk>>
           \/ UNCHANGED <<cpc, allParked, upset>>
           \/ \E v \in Vcpus : DriverOk(v)
<1> USE DEF vcpuVars, blkVars, waitVars, coordVars
<1>1. CASE \E v \in Vcpus : VcpuStep(v) \/ GuestExit(v)
  BY <1>1 DEF VcpuStep, LoopHead, Enter, Interrupt, Eintr, DrainAndCapture, Park,
              Ack, Unpark, GuestExit
<1>2. CASE \E v \in Vcpus : ExitStep(v)
  BY <1>2 DEF ExitStep, Dispatch, Stop
<1>3. CASE WorkerStep
  BY <1>3 DEF WorkerStep, WorkerStart, WorkerDrain, WorkerDrained, WorkerPause,
              WorkerAck, WorkerUnpark
<1>4. CASE LoopStep \/ CoordNext \/ CoordCapture \/ CoordKill \/ ThawStep
  BY <1>4 DEF LoopStep, CoordLoop, CoordRetest, CoordHead, CoordNext,
              CoordCapture, CoordKill, ThawStep, Thaw, ThawBarrier, BarrierTimeout
<1>5. CASE FreezeStep
  BY <1>5 DEF FreezeStep, FcDrain, FcSeed, FcFreeze, FcImmediateExit, FcSignal,
              FcLeave, FcPoll, FcDropWorker, FcTimeout, FcCollect, FcCapture
<1>6. CASE TeardownStep \/ WatchdogFire \/ CollectRekick
  BY <1>6 DEF TeardownStep, WatchdogReturn, BspDone, BspKill, CollectKick,
              JoinAPs, WatchdogFire, CollectRekick
<1>7. CASE UNCHANGED vars
  BY <1>7 DEF vars
<1> QED  BY <1>1, <1>2, <1>3, <1>4, <1>5, <1>6, <1>7
            DEF Next, CoordStep, Finished

(* A thread that has ended stays so. *)
LEMMA GoneGrows ==
    ASSUME TypeInv, [Next]_vars
    PROVE  Gone \subseteq Gone'
<1> USE DEF vcpuVars, blkVars, waitVars, coordVars
<1>types. /\ pc \in [Vcpus -> VcpuPcs] /\ BSP \in Vcpus
  BY VcpusFinite DEF TypeInv, TypeOK, VcpuTypes
<1> SUFFICES \A v \in Vcpus : pc[v] \in {"exited"} \cup OutPcs =>
                                pc'[v] \in {"exited"} \cup OutPcs
  BY DEF Gone
<1>1. CASE UNCHANGED pc
  BY <1>1
<1>2. ASSUME NEW u \in Vcpus, VcpuStep(u) \/ ExitStep(u) \/ GuestExit(u)
      PROVE  /\ pc[u] \notin {"exited"} \cup OutPcs
             /\ \A v \in Vcpus \ {u} : pc'[v] = pc[v]
  BY <1>2, <1>types
     DEF VcpuStep, LoopHead, Enter, Interrupt, Eintr, DrainAndCapture, Park, Ack,
         Unpark, GuestExit, ExitStep, Dispatch, Stop, DriverOk, OutPcs
<1>3. CASE \E u \in Vcpus : VcpuStep(u) \/ ExitStep(u) \/ GuestExit(u)
  BY <1>2, <1>3
<1>4. CASE TeardownStep
  BY <1>4, <1>types DEF TeardownStep, WatchdogReturn, BspDone, BspKill,
                        CollectKick, JoinAPs, OutPcs
<1>5. CASE WorkerStep \/ CoordStep \/ CoordCapture \/ CoordKill
             \/ WatchdogFire \/ CollectRekick \/ UNCHANGED vars
  <2>1. UNCHANGED pc
    <3>1. CASE WorkerStep
      BY <3>1 DEF WorkerStep, WorkerStart, WorkerDrain, WorkerDrained,
                  WorkerPause, WorkerAck, WorkerUnpark
    <3>2. CASE LoopStep \/ CoordNext \/ CoordCapture \/ CoordKill \/ ThawStep
      BY <3>2 DEF LoopStep, CoordLoop, CoordRetest, CoordHead, CoordNext,
                  CoordCapture, CoordKill, ThawStep, Thaw, ThawBarrier,
                  BarrierTimeout
    <3>3. CASE FreezeStep
      BY <3>3 DEF FreezeStep, FcDrain, FcSeed, FcFreeze, FcImmediateExit,
                  FcSignal, FcLeave, FcPoll, FcDropWorker, FcTimeout, FcCollect,
                  FcCapture
    <3>4. CASE WatchdogFire \/ CollectRekick
      BY <3>4 DEF WatchdogFire, CollectRekick
    <3>5. CASE UNCHANGED vars
      BY <3>5 DEF vars
    <3> QED  BY <1>5, <3>1, <3>2, <3>3, <3>4, <3>5 DEF CoordStep
  <2> QED  BY <2>1
<1> QED  BY <1>3, <1>4, <1>5 DEF Next, Finished

(* Under a dump that counts, the abstract world stands still. *)
LEMMA ReadingIsStill ==
    ASSUME CountInv, Reading
    PROVE  Running = {}
BY DEF CountInv, Stopped, Settled, WorkerStopped, Reading, Running

\* The initial states of the protocol are initial states of FrozenWorld.
LEMMA WorldInit == Init => World!Init
<1> SUFFICES ASSUME Init PROVE World!Init
  OBVIOUS
<1>1. Gone = {}
  BY DEF Init, Gone, OutPcs
<1>2. Running \subseteq Vcpus \cup {"worker"} /\ Reading = FALSE
  BY DEF Init, Running, Reading
<1> QED  BY <1>1, <1>2 DEF World!Init

\* Every step of the protocol is a step of FrozenWorld or leaves it alone.
LEMMA WorldStep ==
    ASSUME CountInv, CountInv', [Next]_vars
    PROVE  [World!Next]_(World!world)
<1>1. Gone \subseteq Gone'
  BY GoneGrows DEF CountInv, KickInv
<1>2. Running' \subseteq (Vcpus \cup {"worker"}) \ Gone'
  <2>1. "worker" \notin Vcpus
    BY RendezvousAssumption DEF Vcpus
  <2> QED  BY <2>1 DEF Running, Gone
<1>3. Reading' => Running' = {}
  BY ReadingIsStill DEF CountInv, Stopped, Settled, WorkerStopped, Reading, Running
<1>4. CASE Reading' = Reading
  BY <1>1, <1>2, <1>3, <1>4 DEF World!Next, World!Move
<1>5. CASE Reading' # Reading
  <2>1. UNCHANGED <<pc, wk>>
    <3>1. ASSUME NEW v \in Vcpus, DriverOk(v) PROVE Reading' = Reading
      <4>1. cpc' = cpc /\ pc[v] = "exit" /\ (cpc = "capture" => upset' # {})
        BY <3>1 DEF DriverOk, coordVars, InCycle, IdlePcs
      <4>2. ~Reading'
        BY <4>1 DEF Reading
      <4>3. v \in Running
        BY <4>1 DEF Running, OutPcs
      <4> QED  BY <4>2, <4>3, ReadingIsStill DEF Reading
    <3> QED  BY <1>5, <3>1, ThreadsOrDump, SMT DEF Reading
  <2>2. Running' = Running /\ Gone' = Gone
    BY <2>1 DEF Running, Gone
  <2>3. Reading \in BOOLEAN /\ Reading' \in BOOLEAN
    BY DEF Reading
  <2>4. CASE Reading
    BY <1>5, <2>2, <2>3, <2>4 DEF World!Next, World!EndRead
  <2>5. CASE ~Reading
    BY <1>3, <1>5, <2>2, <2>3, <2>5 DEF World!Next, World!BeginRead
  <2> QED  BY <2>4, <2>5
<1> QED  BY <1>4, <1>5

(* The rendezvous implements StopTheWorld for any finite set of vCPUs: every
   step of a thread, the worker, the coordinator or the teardown is a step of
   the abstract world or leaves it alone. *)
THEOREM RendezvousStopsTheWorld == Spec => StopsTheWorld
<1>1. Spec => []CountInv
  BY CountInit, CountStep, PTL DEF Spec
<1>2. CountInv /\ CountInv' /\ [Next]_vars => [World!Next]_(World!world)
  BY WorldStep
<1> QED  BY <1>1, <1>2, WorldInit, PTL DEF Spec, StopsTheWorld, World!Spec

---------------------------------------------------------------------------
(* Teardown.                                                                *)

(* What the teardown leaves behind in the flags: bsp_done is up once the BSP
   has left its loop for good, the watchdog ends only with kill or bsp_done,
   and the APs are collected after watchdog and coordinator. *)
Ends ==
    /\ bspDone <=> pc[BSP] \in {"outKill", "outJoin", "reap", "joined"}
    /\ finalBsp => bspDone
    /\ wd = "done" => kill \/ bspDone
    /\ pc[BSP] \in {"outJoin", "reap", "joined"} => kill
    /\ pc[BSP] \in {"reap", "joined"} => wd = "done" /\ cpc = "done"
    /\ pc[BSP] # "exited"
    /\ \A v \in APs : pc[v] \notin OutPcs

EndInv == TypeInv /\ Ends /\ KillNotLost

(* How far a thread at p is from leaving its run loop, and the BSP from its
   end, once kill is up. *)
Distance(p) ==
    CASE p \in {"enter", "drain"} -> 9
      [] p \in {"guest", "park"} -> 8
      [] p \in {"exit", "ack"} -> 7
      [] p \in {"eintr", "wait"} -> 6
      [] p = "top" -> 5
      [] p = "out" -> 4
      [] p = "outKill" -> 3
      [] p = "outJoin" -> 2
      [] p = "reap" -> 1
      [] p \in {"exited", "joined"} -> 0

\* Distance, place by place.
LEMMA Distances ==
    /\ Distance("enter") = 9 /\ Distance("drain") = 9
    /\ Distance("guest") = 8 /\ Distance("park") = 8
    /\ Distance("exit") = 7 /\ Distance("ack") = 7
    /\ Distance("eintr") = 6 /\ Distance("wait") = 6
    /\ Distance("top") = 5 /\ Distance("out") = 4 /\ Distance("outKill") = 3
    /\ Distance("outJoin") = 2 /\ Distance("reap") = 1
    /\ Distance("exited") = 0 /\ Distance("joined") = 0
BY SMT DEF Distance

\* What a vCPU thread's own step writes, and where it may take the thread.
VcpuMove(v) ==
    /\ pc' = [pc EXCEPT ![v] = pc'[v]]
    /\ UNCHANGED <<bspDone, wd, coordVars>>
    /\ (kill' = kill) \/ kill'
    /\ pc[v] \notin {"exited"} \cup OutPcs
    /\ pc'[v] \in {"exited"} \cup OutPcs => pc'[v] = Leave(v)
    /\ pc'[v] = "enter" => ~kill
    /\ pc'[v] = "guest" => pc[v] = "enter" /\ ~ie[v]
    /\ kill => Distance(pc'[v]) < Distance(pc[v])

\* Every step of a vCPU thread is such a move.
LEMMA VcpuMoves ==
    ASSUME TypeInv, NEW v \in Vcpus, VcpuStep(v) \/ ExitStep(v) \/ GuestExit(v)
    PROVE  VcpuMove(v)
<1> USE DEF OutPcs, Leave, vcpuVars
<1>types. pc \in [Vcpus -> VcpuPcs]
  BY DEF TypeInv, TypeOK, VcpuTypes
<1>d. /\ 8 < 9 /\ 7 < 8 /\ 6 < 7 /\ 6 < 8 /\ 5 < 6 /\ 5 < 7 /\ 4 < 5 /\ 0 < 5
      /\ 4 < 6 /\ 0 < 6 /\ 4 < 7 /\ 0 < 7 /\ 6 < 9
  BY SMT
<1>1. CASE LoopHead(v)
  <2>1. /\ pc[v] = "top" /\ pc' = [pc EXCEPT ![v] = pc'[v]]
        /\ UNCHANGED <<bspDone, wd, coordVars, kill>>
    BY <1>1, <1>types DEF LoopHead
  <2>2. pc'[v] = IF kill THEN Leave(v) ELSE IF freeze THEN "drain" ELSE "enter"
    BY <1>1, <1>types DEF LoopHead
  <2> QED  BY <2>1, <2>2, <1>d, Distances DEF VcpuMove
<1>2. CASE Enter(v)
  <2>1. /\ pc[v] = "enter" /\ pc' = [pc EXCEPT ![v] = pc'[v]]
        /\ UNCHANGED <<bspDone, wd, coordVars, kill>>
    BY <1>2, <1>types DEF Enter
  <2>2. pc'[v] = IF ie[v] THEN "eintr" ELSE "guest"
    BY <1>2, <1>types DEF Enter
  <2> QED  BY <2>1, <2>2, <1>d, Distances DEF VcpuMove
<1>3. CASE GuestExit(v)
  <2>1. /\ pc[v] = "guest" /\ pc' = [pc EXCEPT ![v] = pc'[v]] /\ pc'[v] = "exit"
        /\ UNCHANGED <<bspDone, wd, coordVars, kill>>
    BY <1>3, <1>types DEF GuestExit
  <2> QED  BY <2>1, <1>d, Distances DEF VcpuMove
<1>4. CASE Interrupt(v)
  <2>1. /\ pc[v] = "guest" /\ pc' = [pc EXCEPT ![v] = pc'[v]] /\ pc'[v] = "eintr"
        /\ UNCHANGED <<bspDone, wd, coordVars, kill>>
    BY <1>4, <1>types DEF Interrupt
  <2> QED  BY <2>1, <1>d, Distances DEF VcpuMove
<1>5. CASE Eintr(v)
  <2>1. /\ pc[v] = "eintr" /\ pc' = [pc EXCEPT ![v] = pc'[v]] /\ pc'[v] = "top"
        /\ UNCHANGED <<bspDone, wd, coordVars, kill>>
    BY <1>5, <1>types DEF Eintr
  <2> QED  BY <2>1, <1>d, Distances DEF VcpuMove
<1>6. CASE Dispatch(v) \/ DriverOk(v)
  <2>1. /\ pc[v] = "exit" /\ pc' = [pc EXCEPT ![v] = pc'[v]] /\ pc'[v] = "top"
        /\ UNCHANGED <<bspDone, wd, coordVars, kill>>
    BY <1>6, <1>types DEF Dispatch, DriverOk
  <2> QED  BY <2>1, <1>d, Distances DEF VcpuMove
<1>7. CASE Stop(v)
  <2>1. /\ pc[v] = "exit" /\ pc' = [pc EXCEPT ![v] = pc'[v]] /\ pc'[v] = Leave(v)
        /\ UNCHANGED <<bspDone, wd, coordVars>>
        /\ (kill' = kill) \/ kill'
    BY <1>7, <1>types DEF Stop
  <2> QED  BY <2>1, <1>d, Distances DEF VcpuMove
<1>8. CASE DrainAndCapture(v)
  <2>1. /\ pc[v] = "drain" /\ pc' = [pc EXCEPT ![v] = pc'[v]] /\ pc'[v] = "park"
        /\ UNCHANGED <<bspDone, wd, coordVars, kill>>
    BY <1>8, <1>types DEF DrainAndCapture
  <2> QED  BY <2>1, <1>d, Distances DEF VcpuMove
<1>9. CASE Park(v)
  <2>1. /\ pc[v] = "park" /\ pc' = [pc EXCEPT ![v] = pc'[v]] /\ pc'[v] = "ack"
        /\ UNCHANGED <<bspDone, wd, coordVars, kill>>
    BY <1>9, <1>types DEF Park
  <2> QED  BY <2>1, <1>d, Distances DEF VcpuMove
<1>10. CASE Ack(v)
  <2>1. /\ pc[v] = "ack" /\ pc' = [pc EXCEPT ![v] = pc'[v]] /\ pc'[v] = "wait"
        /\ UNCHANGED <<bspDone, wd, coordVars, kill>>
    BY <1>10, <1>types DEF Ack
  <2> QED  BY <2>1, <1>d, Distances DEF VcpuMove
<1>11. CASE Unpark(v)
  <2>1. /\ pc[v] = "wait" /\ pc' = [pc EXCEPT ![v] = pc'[v]]
        /\ UNCHANGED <<bspDone, wd, coordVars, kill>>
    BY <1>11, <1>types DEF Unpark
  <2>2. pc'[v] = IF kill THEN Leave(v) ELSE "enter"
    BY <1>11, <1>types DEF Unpark
  <2> QED  BY <2>1, <2>2, <1>d, Distances DEF VcpuMove
<1> QED
  BY <1>1, <1>2, <1>3, <1>4, <1>5, <1>6, <1>7, <1>8, <1>9, <1>10, <1>11
     DEF VcpuStep, ExitStep

\* The steps that move no vCPU thread and end nothing.
Aside == /\ UNCHANGED <<bspDone, wd, pc>>
         /\ (kill' = kill) \/ kill'

\* The coordinator and the worker leave the teardown's flags alone.
LEMMA OthersAside ==
    ASSUME WorkerStep \/ CoordStep \/ CoordCapture \/ CoordKill
    PROVE  Aside
<1> USE DEF Aside, vcpuVars
<1>1. CASE WorkerStep
  BY <1>1 DEF WorkerStep, WorkerStart, WorkerDrain, WorkerDrained,
              WorkerPause, WorkerAck, WorkerUnpark
<1>2. CASE LoopStep \/ CoordNext \/ CoordCapture \/ CoordKill
  BY <1>2 DEF LoopStep, CoordLoop, CoordRetest, CoordHead, CoordNext,
              CoordCapture, CoordKill
<1>3. CASE FreezeStep
  BY <1>3 DEF FreezeStep, FcDrain, FcSeed, FcFreeze, FcImmediateExit,
              FcSignal, FcLeave, FcPoll, FcDropWorker, FcTimeout, FcCollect,
              FcCapture
<1>4. CASE ThawStep
  BY <1>4 DEF ThawStep, Thaw, ThawBarrier, BarrierTimeout
<1> QED  BY <1>1, <1>2, <1>3, <1>4 DEF CoordStep

\* kill is never taken back.
LEMMA KillStays == ((kill' = kill) \/ kill') => (kill => kill')
<1>1. (kill' = kill) => (kill => kill')
  BY SMT
<1> QED  BY <1>1

\* Only the head of the loop makes the final pass for the BSP, and the loop
\* that has ended stays ended.
LEMMA FinalPasses ==
    ASSUME CoordStep \/ CoordCapture \/ CoordKill
    PROVE  /\ (finalBsp' = finalBsp) \/ (finalBsp' = (finalBsp \/ bspDone))
           /\ cpc = "done" => cpc' = "done"
<1> USE DEF coordVars, waitVars
<1>1. CASE LoopStep \/ CoordNext \/ CoordCapture \/ CoordKill
  BY <1>1 DEF LoopStep, CoordLoop, CoordRetest, CoordHead, CoordNext,
              CoordCapture, CoordKill
<1>2. CASE FreezeStep
  BY <1>2 DEF FreezeStep, FcDrain, FcSeed, FcFreeze, FcImmediateExit,
              FcSignal, FcLeave, FcPoll, FcDropWorker, FcTimeout, FcCollect,
              FcCapture
<1>3. CASE ThawStep
  BY <1>3 DEF ThawStep, Thaw, ThawBarrier, BarrierTimeout
<1> QED  BY <1>1, <1>2, <1>3 DEF CoordStep

\* Initially nothing has ended.
LEMMA EndsInit == Init => Ends /\ KillNotLost
BY VcpusFinite DEF Init, Ends, KillNotLost, OutPcs, Vcpus

\* Every step keeps Ends.
LEMMA EndsStep ==
    ASSUME TypeInv, Ends, [Next]_vars
    PROVE  Ends'
<1> USE DEF vcpuVars
<1>types. /\ pc \in [Vcpus -> VcpuPcs] /\ BSP \in Vcpus /\ APs \subseteq Vcpus
          /\ BSP \notin APs /\ wd \in {"run", "done"}
  BY VcpusFinite, RendezvousAssumption DEF TypeInv, TypeOK, VcpuTypes, FlagTypes, Vcpus
<1>1. CASE UNCHANGED vars
  BY <1>1 DEF vars, coordVars, Ends
<1>2. ASSUME NEW v \in Vcpus, VcpuStep(v) \/ ExitStep(v) \/ GuestExit(v)
      PROVE  Ends'
  <2>1. VcpuMove(v)
    BY <1>2, VcpuMoves
  <2>2. UNCHANGED <<bspDone, wd, finalBsp, cpc>> /\ (kill => kill')
    BY <2>1, KillStays DEF VcpuMove, coordVars
  <2>3. \A u \in Vcpus \ {v} : pc'[u] = pc[u]
    BY <2>1, <1>types DEF VcpuMove
  <2>4. CASE v = BSP
    <3>1. /\ pc[BSP] \notin {"exited"} \cup OutPcs
          /\ pc'[BSP] \in {"exited"} \cup OutPcs => pc'[BSP] = "out"
      BY <2>1, <2>4 DEF VcpuMove, Leave
    <3>2. ~bspDone
      BY <3>1 DEF Ends, OutPcs
    <3>3. \A u \in APs : pc'[u] = pc[u]
      BY <2>3, <2>4, <1>types
    <3> QED  BY <2>2, <3>1, <3>2, <3>3 DEF Ends, OutPcs
  <2>5. CASE v # BSP
    <3>1. pc'[BSP] = pc[BSP]
      BY <2>3, <2>5, <1>types
    <3>2. pc'[v] \in OutPcs => FALSE
      BY <2>1, <2>5 DEF VcpuMove, Leave, OutPcs
    <3>3. \A u \in APs : pc'[u] \notin OutPcs
      BY <2>3, <3>2, <1>types DEF Ends
    <3> QED  BY <2>2, <3>1, <3>3 DEF Ends
  <2> QED  BY <2>4, <2>5
<1>3. CASE WorkerStep
  <2>1. Aside
    BY <1>3, OthersAside
  <2>2. UNCHANGED coordVars
    BY <1>3 DEF WorkerStep, WorkerStart, WorkerDrain, WorkerDrained,
                WorkerPause, WorkerAck, WorkerUnpark
  <2> QED  BY <2>1, <2>2, KillStays DEF Ends, Aside, coordVars
<1>4. CASE CoordStep \/ CoordCapture \/ CoordKill
  <2>1. UNCHANGED <<bspDone, wd, pc>> /\ (kill => kill')
    BY <1>4, OthersAside, KillStays DEF Aside
  <2>2. /\ (finalBsp' = finalBsp) \/ (finalBsp' = (finalBsp \/ bspDone))
        /\ cpc = "done" => cpc' = "done"
    BY <1>4, FinalPasses
  <2>3. CASE finalBsp' = finalBsp
    BY <2>1, <2>2, <2>3 DEF Ends
  <2>4. CASE finalBsp' = (finalBsp \/ bspDone)
    <3>1. finalBsp' => finalBsp \/ bspDone
      BY <2>4
    <3> QED  BY <2>1, <2>2, <3>1 DEF Ends
  <2> QED  BY <2>2, <2>3, <2>4
<1>5. CASE WatchdogReturn \/ WatchdogFire
  <2>1. /\ UNCHANGED <<bspDone, pc, finalBsp, cpc>> /\ wd' = "done" /\ wd = "run"
        /\ kill' \/ (bspDone /\ kill' = kill)
    BY <1>5 DEF WatchdogReturn, WatchdogFire, coordVars
  <2> QED  BY <2>1 DEF Ends
<1>6. CASE BspDone
  <2>1. /\ UNCHANGED <<kill, wd, finalBsp, cpc>> /\ bspDone'
        /\ pc' = [pc EXCEPT ![BSP] = "outKill"]
    BY <1>6 DEF BspDone, coordVars
  <2> QED  BY <2>1, <1>types DEF Ends
<1>7. CASE BspKill
  <2>1. /\ UNCHANGED <<bspDone, wd, finalBsp, cpc>> /\ kill'
        /\ pc[BSP] = "outKill" /\ pc' = [pc EXCEPT ![BSP] = "outJoin"]
    BY <1>7 DEF BspKill, coordVars
  <2> QED  BY <2>1, <1>types DEF Ends
<1>8. CASE CollectKick
  <2>1. /\ UNCHANGED <<bspDone, wd, finalBsp, cpc>> /\ kill'
        /\ wd = "done" /\ cpc = "done"
        /\ pc[BSP] = "outJoin" /\ pc' = [pc EXCEPT ![BSP] = "reap"]
    BY <1>8 DEF CollectKick, coordVars
  <2> QED  BY <2>1, <1>types DEF Ends
<1>9. CASE JoinAPs
  <2>1. /\ UNCHANGED <<kill, bspDone, wd, finalBsp, cpc>>
        /\ pc[BSP] = "reap" /\ pc' = [pc EXCEPT ![BSP] = "joined"]
    BY <1>9 DEF JoinAPs, coordVars
  <2> QED  BY <2>1, <1>types DEF Ends
<1>10. CASE CollectRekick
  <2>1. UNCHANGED <<kill, bspDone, wd, finalBsp, cpc, pc>>
    BY <1>10 DEF CollectRekick, coordVars
  <2> QED  BY <2>1 DEF Ends
<1> QED
  BY <1>1, <1>2, <1>3, <1>4, <1>5, <1>6, <1>7, <1>8, <1>9, <1>10
     DEF Next, TeardownStep, Finished

\* Every step keeps KillNotLost: with kill up no thread is on its way in again.
LEMMA KillStep ==
    ASSUME EndInv, [Next]_vars
    PROVE  KillNotLost'
<1> USE DEF vcpuVars
<1>types. /\ pc \in [Vcpus -> VcpuPcs] /\ ie \in [Vcpus -> BOOLEAN]
          /\ sig \in [Vcpus -> BOOLEAN]
          /\ BSP \in Vcpus /\ BSP \notin APs
  BY VcpusFinite, RendezvousAssumption DEF EndInv, TypeInv, TypeOK, VcpuTypes
<1>inv. TypeInv /\ Ends /\ KillNotLost
  BY DEF EndInv
<1> DEFINE Told(v) == IF v = BSP THEN wd = "done" ELSE pc[BSP] = "reap"
           Caught(v) == (pc[v] = "enter" => ie[v]) /\ (pc[v] = "guest" => sig[v])
<1>k. KillNotLost <=> (HasImmediateExit => \A v \in Vcpus : Told(v) => Caught(v))
  BY DEF KillNotLost
<1>l. KillNotLost' <=> (HasImmediateExit => \A v \in Vcpus : Told(v)' => Caught(v)')
  BY DEF KillNotLost
<1> SUFFICES ASSUME HasImmediateExit, NEW v \in Vcpus, Told(v)' PROVE Caught(v)'
  BY <1>l
<1>1. CASE UNCHANGED <<pc, ie, sig, wd>>
  BY <1>1, <1>k, <1>inv
<1>2. ASSUME NEW u \in Vcpus, VcpuStep(u) \/ ExitStep(u) \/ GuestExit(u)
      PROVE  Caught(v)'
  <2>1. VcpuMove(u)
    BY <1>2, <1>inv, VcpuMoves
  <2>2. wd' = wd /\ \A x \in Vcpus \ {u} : pc'[x] = pc[x]
    BY <2>1, <1>types DEF VcpuMove
  <2>3. pc'[BSP] = "reap" => pc[BSP] = "reap"
    <3>1. CASE u = BSP
      BY <2>1, <3>1 DEF VcpuMove, Leave, OutPcs
    <3> QED  BY <2>2, <3>1, <1>types
  <2>4. Told(v)
    BY <2>2, <2>3
  <2>5. Caught(v)
    BY <1>k, <1>inv, <2>4
  <2>6. CASE u # v
    <3>1. /\ pc'[v] = pc[v] /\ ie'[v] = ie[v] /\ sig'[v] = sig[v]
      BY <1>2, <2>6, <1>types
         DEF VcpuStep, LoopHead, Enter, Interrupt, Eintr, DrainAndCapture, Park,
             Ack, Unpark, GuestExit, ExitStep, Dispatch, Stop, DriverOk
    <3> QED  BY <2>5, <3>1
  <2>7. CASE u = v
    <3>1. pc[v] \notin OutPcs
      BY <2>1, <2>7 DEF VcpuMove
    <3>2. kill
      BY <1>inv, <2>4, <3>1 DEF Ends, OutPcs
    <3>3. pc'[v] # "enter"
      BY <2>1, <2>7, <3>2 DEF VcpuMove
    <3>4. pc'[v] # "guest"
      BY <2>1, <2>5, <2>7 DEF VcpuMove
    <3> QED  BY <3>3, <3>4
  <2> QED  BY <2>6, <2>7
<1>3. CASE WorkerStep \/ LoopStep \/ CoordNext \/ CoordCapture \/ CoordKill \/ ThawStep
  <2>1. UNCHANGED <<pc, ie, sig, wd>>
    <3>1. CASE WorkerStep
      BY <3>1 DEF WorkerStep, WorkerStart, WorkerDrain, WorkerDrained,
                  WorkerPause, WorkerAck, WorkerUnpark
    <3>2. CASE LoopStep \/ CoordNext \/ CoordCapture \/ CoordKill
      BY <3>2 DEF LoopStep, CoordLoop, CoordRetest, CoordHead, CoordNext,
                  CoordCapture, CoordKill
    <3>3. CASE ThawStep
      BY <3>3 DEF ThawStep, Thaw, ThawBarrier, BarrierTimeout
    <3> QED  BY <1>3, <3>1, <3>2, <3>3
  <2> QED  BY <1>1, <2>1
<1>4. CASE FreezeStep \/ WatchdogReturn
  <2>1. /\ UNCHANGED pc /\ (v = BSP => pc[BSP] \in OutPcs \/ wd' = wd)
        /\ (ie[v] => ie'[v]) /\ (sig[v] => sig'[v])
    <3>1. CASE FcImmediateExit
      BY <3>1, <1>types DEF FcImmediateExit
    <3>2. CASE FcSignal
      BY <3>2, <1>types DEF FcSignal, Signalled
    <3>3. CASE \/ FcDrain \/ FcSeed \/ FcFreeze \/ FcLeave \/ FcPoll
               \/ FcDropWorker \/ FcTimeout \/ FcCollect \/ FcCapture
      <4>1. UNCHANGED <<pc, ie, sig, wd>>
        BY <3>3 DEF FcDrain, FcSeed, FcFreeze, FcLeave, FcPoll, FcDropWorker,
                    FcTimeout, FcCollect, FcCapture
      <4> QED  BY <4>1
    <3>4. CASE WatchdogReturn
      <4>1. UNCHANGED <<pc, ie, sig>> /\ bspDone
        BY <3>4 DEF WatchdogReturn
      <4> QED  BY <4>1, <1>inv DEF Ends, OutPcs
    <3> QED  BY <1>4, <3>1, <3>2, <3>3, <3>4 DEF FreezeStep
  <2>2. CASE Told(v)
    BY <1>k, <1>inv, <2>1, <2>2
  <2>3. CASE ~Told(v)
    <3>1. pc[v] \in OutPcs
      BY <2>1, <2>3
    <3> QED  BY <2>1, <3>1 DEF OutPcs
  <2> QED  BY <2>2, <2>3
<1>5. CASE WatchdogFire
  <2>1. /\ UNCHANGED pc
        /\ (ie[v] => ie'[v]) /\ (sig[v] => sig'[v])
        /\ v = BSP => ie'[v] /\ (pc[v] = "guest" => sig'[v])
    BY <1>5, <1>types DEF WatchdogFire, Signalled
  <2>2. CASE v = BSP
    BY <2>1, <2>2
  <2>3. CASE v # BSP
    <3>1. Told(v)
      BY <2>1, <2>3
    <3> QED  BY <1>k, <1>inv, <2>1, <3>1
  <2> QED  BY <2>2, <2>3
<1>6. CASE BspDone \/ BspKill \/ JoinAPs
  <2>1. /\ pc'[BSP] \in {"outKill", "outJoin", "joined"}
        /\ UNCHANGED wd
    BY <1>6, <1>types DEF BspDone, BspKill, JoinAPs
  <2>2. v = BSP
    BY <2>1
  <2> QED  BY <2>1, <2>2
<1>7. CASE CollectKick \/ CollectRekick
  <2>1. /\ pc'[BSP] = "reap"
        /\ v # BSP => pc'[v] = pc[v]
        /\ v # BSP /\ pc[v] # "exited" => ie'[v] /\ (pc[v] = "guest" => sig'[v])
    BY <1>7, <1>types DEF CollectKick, CollectRekick, KickAPs, Signalled, Vcpus
  <2> QED  BY <2>1
<1>8. CASE UNCHANGED vars
  BY <1>1, <1>8 DEF vars
<1> QED
  BY <1>2, <1>3, <1>4, <1>5, <1>6, <1>7, <1>8
     DEF Next, CoordStep, TeardownStep, Finished

\* EndInv is inductive.
LEMMA EndInvStep == EndInv /\ [Next]_vars => EndInv'
BY TypeStep, EndsStep, KillStep DEF EndInv

\* Initially the watchdog runs and nobody is collected.
LEMMA EndInvInit == Init => EndInv
BY TypeInit, EndsInit DEF EndInv

(* However many vCPUs there are and whatever freezes are under way, the BSP
   after the watchdog's one kick, and the APs after collect_results', are not
   left behind in the guest: KillNotLost. *)
THEOREM KillReachesEveryVcpu == Spec => []KillNotLost
<1>1. EndInv => KillNotLost
  BY DEF EndInv
<1> QED  BY <1>1, EndInvInit, EndInvStep, PTL DEF Spec

(* How far the coordinator is from its end: the final passes it may still
   make, the captures, the places of its loop in the order of a pass, and the
   acks to wait for.  With kill up the head of the loop is the end of a pass
   rather than its beginning: it is reached only to make a final pass, unless
   the loop condition was read before. *)
PassesLeft == (IF finalBsp THEN 0 ELSE 1) + (IF finalKill THEN 0 ELSE 1)
CapturesLeft == MaxCycles - cycle - (IF cpc = "drain" THEN 1 ELSE 0)
Place(p, final) ==
    CASE p = "head" -> IF final THEN 15 ELSE 1
      [] p = "drain" -> 14
      [] p = "seed" -> 13
      [] p = "freeze" -> 12
      [] p = "ie" -> 11
      [] p = "signal" -> 10
      [] p = "rendezvous" -> 9
      [] p = "collect" -> 8
      [] p = "capture" -> 7
      [] p = "thaw" -> 6
      [] p = "barrier" -> 5
      [] p = "body" -> 4
      [] p = "loop" -> 3
      [] p = "retest" -> 2
      [] p = "done" -> 0
PlaceLeft == Place(cpc, finalBsp)
AcksLeft == IF count < expected THEN expected - count ELSE 0

CoordNearer ==
    \/ PassesLeft' < PassesLeft
    \/ /\ PassesLeft' = PassesLeft
       /\ \/ CapturesLeft' < CapturesLeft
          \/ /\ CapturesLeft' = CapturesLeft
             /\ \/ PlaceLeft' < PlaceLeft
                \/ (PlaceLeft' = PlaceLeft /\ AcksLeft' < AcksLeft)

\* Place, one by one.
LEMMA Places ==
    ASSUME NEW f
    PROVE  /\ Place("drain", f) = 14 /\ Place("seed", f) = 13
           /\ Place("freeze", f) = 12 /\ Place("ie", f) = 11
           /\ Place("signal", f) = 10 /\ Place("rendezvous", f) = 9
           /\ Place("collect", f) = 8 /\ Place("capture", f) = 7
           /\ Place("thaw", f) = 6 /\ Place("barrier", f) = 5
           /\ Place("body", f) = 4 /\ Place("loop", f) = 3
           /\ Place("retest", f) = 2 /\ Place("done", f) = 0
           /\ Place("head", TRUE) = 15 /\ Place("head", FALSE) = 1
BY SMT DEF Place

\* A step to a lower place of the same pass and capture.
LEMMA LowerPlace ==
    ASSUME UNCHANGED <<cycle, finalBsp, finalKill>>,
           cpc # "drain", cpc' # "drain", PlaceLeft' < PlaceLeft
    PROVE  CoordNearer
<1>1. CapturesLeft' = CapturesLeft
  BY DEF CapturesLeft
<1>2. PassesLeft' = PassesLeft
  BY DEF PassesLeft
<1> QED  BY <1>1, <1>2 DEF CoordNearer

\* Within a freeze every step of the coordinator leads to its thaw and out of
\* the barrier, whether or not kill is up.
LEMMA CaptureNearer ==
    ASSUME TypeInv, FreezeStep \/ ThawStep
    PROVE  CoordNearer
<1> USE DEF waitVars
<1>types. /\ cycle \in Nat /\ MaxCycles \in Nat /\ count \in Nat
          /\ expected \in Nat /\ parkedEvt \in Nat
  BY RendezvousAssumption, SMT
     DEF TypeInv, TypeOK, CoordTypes, WaitTypes, FlagTypes
<1>d. /\ 12 < 13 /\ 11 < 12 /\ 10 < 11 /\ 9 < 10 /\ 8 < 9 /\ 7 < 8 /\ 6 < 7
      /\ 6 < 8 /\ 5 < 6 /\ 4 < 6 /\ 4 < 5 /\ 13 < 14
  BY SMT
<1>1. CASE FcDrain
  <2>1. /\ UNCHANGED <<finalBsp, finalKill>> /\ cycle' = cycle + 1
        /\ cpc = "drain" /\ cpc' = "seed"
    BY <1>1 DEF FcDrain
  <2>2. PassesLeft' = PassesLeft
    BY <2>1 DEF PassesLeft
  <2>3. CapturesLeft' = CapturesLeft
    BY <2>1, <1>types, SMT DEF CapturesLeft
  <2>4. PlaceLeft' < PlaceLeft
    BY <2>1, <1>d, Places DEF PlaceLeft
  <2> QED  BY <2>2, <2>3, <2>4 DEF CoordNearer
<1>2. CASE FcSeed \/ FcFreeze \/ FcImmediateExit \/ FcSignal
  <2>1. /\ UNCHANGED <<cycle, finalBsp, finalKill>>
        /\ \/ (cpc = "seed" /\ cpc' = "freeze") \/ (cpc = "freeze" /\ cpc' = "ie")
           \/ (cpc = "ie" /\ cpc' = "signal") \/ (cpc = "signal" /\ cpc' = "rendezvous")
    BY <1>2 DEF FcSeed, FcFreeze, FcImmediateExit, FcSignal
  <2>2. PlaceLeft' < PlaceLeft
    BY <2>1, <1>d, Places DEF PlaceLeft
  <2> QED  BY <2>1, <2>2, LowerPlace
<1>3. CASE FcLeave \/ FcTimeout \/ FcCollect \/ FcCapture
  <2>1. /\ UNCHANGED <<cycle, finalBsp, finalKill>>
        /\ \/ (cpc = "rendezvous" /\ cpc' = "collect")
           \/ (cpc = "collect" /\ cpc' \in {"capture", "thaw"})
           \/ (cpc = "capture" /\ cpc' = "thaw")
    BY <1>3 DEF FcLeave, FcTimeout, FcCollect, FcCapture
  <2>2. PlaceLeft' < PlaceLeft
    BY <2>1, <1>d, Places DEF PlaceLeft
  <2> QED  BY <2>1, <2>2, LowerPlace
<1>4. CASE FcPoll
  <2>1. /\ UNCHANGED <<cycle, finalBsp, finalKill, cpc, expected>>
        /\ count < expected /\ parkedEvt > 0 /\ count' = count + parkedEvt
    BY <1>4 DEF FcPoll
  <2>2. AcksLeft' < AcksLeft
    BY <2>1, <1>types, SMT DEF AcksLeft
  <2>3. PassesLeft' = PassesLeft /\ CapturesLeft' = CapturesLeft /\ PlaceLeft' = PlaceLeft
    BY <2>1 DEF PassesLeft, CapturesLeft, PlaceLeft
  <2> QED  BY <2>2, <2>3 DEF CoordNearer
<1>5. CASE FcDropWorker
  <2>1. /\ UNCHANGED <<cycle, finalBsp, finalKill, count>> /\ cpc = "rendezvous"
        /\ count < expected /\ expected' = expected - 1
        /\ cpc' = "collect" \/ cpc' = "rendezvous"
    BY <1>5 DEF FcDropWorker
  <2>2. CASE cpc' = "collect"
    <3>1. PlaceLeft' < PlaceLeft
      BY <2>1, <2>2, <1>d, Places DEF PlaceLeft
    <3> QED  BY <2>1, <2>2, <3>1, LowerPlace
  <2>3. CASE cpc' = "rendezvous"
    <3>1. AcksLeft' < AcksLeft
      BY <2>1, <1>types, SMT DEF AcksLeft
    <3>2. PassesLeft' = PassesLeft /\ CapturesLeft' = CapturesLeft /\ PlaceLeft' = PlaceLeft
      BY <2>1, <2>3 DEF PassesLeft, CapturesLeft, PlaceLeft
    <3> QED  BY <3>1, <3>2 DEF CoordNearer
  <2> QED  BY <2>1, <2>2, <2>3
<1>6. CASE ThawStep
  <2>1. /\ UNCHANGED <<cycle, finalBsp, finalKill>>
        /\ \/ (cpc = "thaw" /\ cpc' \in {"barrier", "body"})
           \/ (cpc = "barrier" /\ cpc' = "body")
    BY <1>6 DEF ThawStep, Thaw, ThawBarrier, BarrierTimeout
  <2>2. PlaceLeft' < PlaceLeft
    BY <2>1, <1>d, Places DEF PlaceLeft
  <2> QED  BY <2>1, <2>2, LowerPlace
<1> QED  BY <1>1, <1>2, <1>3, <1>4, <1>5, <1>6 DEF FreezeStep

\* With kill up every step of the coordinator's loop leads to its end.
LEMMA LoopNearer ==
    ASSUME TypeInv, Ends, kill, LoopStep \/ CoordNext \/ CoordCapture
    PROVE  CoordNearer
<1> USE DEF waitVars
<1>types. /\ cycle \in Nat /\ MaxCycles \in Nat
          /\ finalBsp \in BOOLEAN /\ finalKill \in BOOLEAN /\ bspDone \in BOOLEAN
  BY RendezvousAssumption, SMT DEF TypeInv, TypeOK, CoordTypes, FlagTypes
<1>d. /\ 3 < 4 /\ 2 < 3 /\ 1 < 3 /\ 1 < 2 /\ 0 < 2 /\ 4 < 15 /\ 0 < 15 /\ 0 < 1
  BY SMT
<1>f. ~finalBsp => finalBsp = FALSE
  BY <1>types
<1>1. CASE CoordLoop
  <2>1. /\ UNCHANGED <<cycle, finalBsp, finalKill>> /\ cpc = "loop"
        /\ cpc' = "retest" \/ (cpc' = "head" /\ ~finalBsp)
    BY <1>1 DEF CoordLoop
  <2>2. PlaceLeft' < PlaceLeft
    BY <2>1, <1>d, <1>f, Places DEF PlaceLeft
  <2> QED  BY <2>1, <2>2, LowerPlace
<1>2. CASE CoordRetest
  <2>1. /\ UNCHANGED <<cycle, finalBsp, finalKill>> /\ cpc = "retest"
        /\ cpc' = "done" \/ (cpc' = "head" /\ ~bspDone)
    BY <1>2 DEF CoordRetest
  <2>2. cpc' = "head" => ~finalBsp
    BY <2>1 DEF Ends
  <2>3. PlaceLeft' < PlaceLeft
    BY <2>1, <2>2, <1>d, <1>f, Places DEF PlaceLeft
  <2> QED  BY <2>1, <2>3, LowerPlace
<1>3. CASE CoordHead
  <2>1. /\ UNCHANGED cycle /\ cpc = "head" /\ cpc' \in {"body", "done"}
        /\ finalBsp' = (finalBsp \/ bspDone)
        /\ finalKill' = (finalKill \/ (~bspDone /\ kill))
        /\ ~bspDone /\ finalKill => cpc' = "done"
    BY <1>3 DEF CoordHead
  <2>2. CASE finalBsp
    <3>1. bspDone
      BY <2>2 DEF Ends
    <3>2. UNCHANGED <<finalBsp, finalKill>>
      BY <2>1, <2>2, <3>1, <1>types
    <3>3. finalBsp = TRUE
      BY <2>2, <1>types
    <3>4. PlaceLeft' < PlaceLeft
      BY <2>1, <3>3, <1>d, Places DEF PlaceLeft
    <3> QED  BY <2>1, <3>2, <3>4, LowerPlace
  <2>3. CASE ~finalBsp /\ bspDone
    <3>1. finalBsp' /\ finalKill' = finalKill
      BY <2>1, <2>3, <1>types
    <3>2. PassesLeft' < PassesLeft
      BY <2>3, <3>1, SMT DEF PassesLeft
    <3> QED  BY <3>2 DEF CoordNearer
  <2>4. CASE ~finalBsp /\ ~bspDone /\ ~finalKill
    <3>1. finalBsp' = finalBsp /\ finalKill'
      BY <2>1, <2>4, <1>types
    <3>2. PassesLeft' < PassesLeft
      BY <2>4, <3>1, SMT DEF PassesLeft
    <3> QED  BY <3>2 DEF CoordNearer
  <2>5. CASE ~finalBsp /\ ~bspDone /\ finalKill
    <3>1. UNCHANGED <<finalBsp, finalKill>> /\ cpc' = "done"
      BY <2>1, <2>5, <1>types
    <3>2. PlaceLeft' < PlaceLeft
      BY <2>1, <2>5, <3>1, <1>d, <1>f, Places DEF PlaceLeft
    <3> QED  BY <2>1, <3>1, <3>2, LowerPlace
  <2> QED  BY <2>2, <2>3, <2>4, <2>5
<1>4. CASE CoordNext
  <2>1. UNCHANGED <<cycle, finalBsp, finalKill>> /\ cpc = "body" /\ cpc' = "loop"
    BY <1>4 DEF CoordNext
  <2>2. PlaceLeft' < PlaceLeft
    BY <2>1, <1>d, Places DEF PlaceLeft
  <2> QED  BY <2>1, <2>2, LowerPlace
<1>5. CASE CoordCapture
  <2>1. UNCHANGED <<cycle, finalBsp, finalKill>> /\ cpc = "body" /\ cpc' = "drain"
    BY <1>5 DEF CoordCapture
  <2>2. CapturesLeft' < CapturesLeft
    BY <2>1, <1>types, SMT DEF CapturesLeft
  <2>3. PassesLeft' = PassesLeft
    BY <2>1 DEF PassesLeft
  <2> QED  BY <2>2, <2>3 DEF CoordNearer
<1> QED  BY <1>1, <1>2, <1>3, <1>4, <1>5 DEF LoopStep

(* With kill up, which nobody takes back, every step of a vCPU thread and of
   the BSP's teardown brings that thread nearer to its end, and every step of
   the coordinator brings its loop nearer to its end; no other thread sets
   either back.  A freeze comes nearer to its thaw without kill, too. *)
Shrinks ==
    /\ kill => kill'
    /\ FreezeStep \/ ThawStep => CoordNearer
    /\ kill /\ (LoopStep \/ CoordNext \/ CoordCapture) => CoordNearer
    /\ coordVars' # coordVars => CoordStep \/ CoordCapture
    /\ kill => \A v \in Vcpus : pc'[v] # pc[v] => Distance(pc'[v]) < Distance(pc[v])

TeardownShrinks == [][Shrinks]_vars

\* The parts of Shrinks that are not about the coordinator's own steps.
LEMMA ThreadsShrink ==
    ASSUME TypeInv, Next
    PROVE  /\ kill => kill'
           /\ coordVars' # coordVars => CoordStep \/ CoordCapture
           /\ kill => \A v \in Vcpus :
                         pc'[v] # pc[v] => Distance(pc'[v]) < Distance(pc[v])
<1> USE DEF vcpuVars
<1>types. pc \in [Vcpus -> VcpuPcs] /\ BSP \in Vcpus
  BY VcpusFinite DEF TypeInv, TypeOK, VcpuTypes
<1>d. 3 < 4 /\ 2 < 3 /\ 1 < 2 /\ 0 < 1
  BY SMT
<1>1. ASSUME NEW v \in Vcpus, VcpuStep(v) \/ ExitStep(v) \/ GuestExit(v)
      PROVE  /\ kill => kill'
             /\ coordVars' = coordVars
             /\ kill => \A u \in Vcpus :
                           pc'[u] # pc[u] => Distance(pc'[u]) < Distance(pc[u])
  <2>1. VcpuMove(v)
    BY <1>1, VcpuMoves
  <2>2. \A u \in Vcpus \ {v} : pc'[u] = pc[u]
    BY <2>1, <1>types DEF VcpuMove
  <2> QED  BY <2>1, <2>2, KillStays DEF VcpuMove
<1>2. CASE WorkerStep
  <2>1. UNCHANGED coordVars
    BY <1>2 DEF WorkerStep, WorkerStart, WorkerDrain, WorkerDrained,
                WorkerPause, WorkerAck, WorkerUnpark
  <2> QED  BY <1>2, <2>1, OthersAside, KillStays DEF Aside
<1>3. CASE CoordStep \/ CoordCapture
  BY <1>3, OthersAside, KillStays DEF Aside
<1>4. CASE CoordKill
  <2>1. UNCHANGED coordVars
    BY <1>4 DEF CoordKill
  <2> QED  BY <1>4, <2>1, OthersAside, KillStays DEF Aside
<1>5. CASE WatchdogReturn \/ WatchdogFire \/ CollectRekick \/ Finished
  <2>1. UNCHANGED <<pc, coordVars>> /\ ((kill' = kill) \/ kill')
    BY <1>5 DEF WatchdogReturn, WatchdogFire, CollectRekick, Finished, vars
  <2> QED  BY <2>1, KillStays
<1>6. CASE BspDone \/ BspKill \/ CollectKick \/ JoinAPs
  <2>1. UNCHANGED coordVars /\ ((kill' = kill) \/ kill')
    BY <1>6 DEF BspDone, BspKill, CollectKick, JoinAPs
  <2>2. \/ (pc[BSP] = "out" /\ pc' = [pc EXCEPT ![BSP] = "outKill"])
        \/ (pc[BSP] = "outKill" /\ pc' = [pc EXCEPT ![BSP] = "outJoin"])
        \/ (pc[BSP] = "outJoin" /\ pc' = [pc EXCEPT ![BSP] = "reap"])
        \/ (pc[BSP] = "reap" /\ pc' = [pc EXCEPT ![BSP] = "joined"])
    BY <1>6 DEF BspDone, BspKill, CollectKick, JoinAPs
  <2>3. Distance(pc'[BSP]) < Distance(pc[BSP])
    BY <2>2, <1>types, <1>d, Distances
  <2>4. \A u \in Vcpus \ {BSP} : pc'[u] = pc[u]
    BY <2>2, <1>types
  <2> QED  BY <2>1, <2>3, <2>4, KillStays
<1> QED
  BY <1>1, <1>2, <1>3, <1>4, <1>5, <1>6 DEF Next, TeardownStep

(* The step-by-step half of TeardownCompletes and of FrozenIsReleased, for any
   number of vCPUs and freezes: no thread runs in circles once kill is up, and
   none holds another back (run_bsp_loop, vcpu_run_loop_unified, the 'coord
   loop with its two final passes, freeze_and_capture, thaw_and_barrier). *)
THEOREM TeardownAlwaysShrinks == Spec => TeardownShrinks
<1>1. EndInv /\ [Next]_vars => [Shrinks]_vars
  <2> SUFFICES ASSUME EndInv, Next PROVE Shrinks
    OBVIOUS
  <2>1. TypeInv /\ Ends
    BY DEF EndInv
  <2> QED  BY <2>1, ThreadsShrink, CaptureNearer, LoopNearer DEF Shrinks
<1> QED  BY <1>1, EndInvInit, EndInvStep, PTL DEF Spec, TeardownShrinks

(* The vCPU thread can go on: the guards of VcpuStep and ExitStep. *)
VcpuGoesOn(v) ==
    \/ pc[v] \in {"top", "enter", "eintr", "exit", "drain", "park", "ack"}
    \/ (pc[v] = "guest" /\ sig[v])
    \/ (pc[v] = "wait" /\ (~freeze \/ kill))

(* The coordinator can go on: the guards of CoordStep. *)
CoordGoesOn ==
    \/ cpc \in {"loop", "retest", "head", "body", "seed", "freeze", "ie",
                "signal", "collect", "capture", "thaw"}
    \/ (cpc = "drain" /\ (wk = "start" => "spawn" \in Upsets))
    \/ /\ cpc = "rendezvous"
       /\ \/ bspDone \/ count >= expected \/ kill
          \/ parkedEvt > 0 \/ "deadline" \in Upsets
          \/ ("workerDrop" \in Upsets /\ wrun /\ ~dropped /\ ~paused)
    \/ (cpc = "barrier" /\ (kill \/ bspDone \/ AllUnparked \/ "deadline" \in Upsets))

(* With kill up whomever the teardown waits for can go on: the BSP in its run
   loop, or the watchdog that is about to kick it; after bsp_done the watchdog
   and the coordinator that are joined, whatever freeze it is in (or a worker
   whose start an instance without spawns waits for); and then every AP that
   has not exited.  What is left to do is counted in natural numbers. *)
TeardownIsOwed ==
    /\ CapturesLeft \in Nat /\ AcksLeft \in Nat
    /\ HasImmediateExit /\ kill =>
        /\ pc[BSP] \notin OutPcs => VcpuGoesOn(BSP) \/ (wd = "run" /\ ~bspDone)
        /\ pc[BSP] = "outJoin" =>
              /\ wd = "run" => bspDone
              /\ cpc = "done" \/ CoordGoesOn \/ (cpc = "drain" /\ wk = "start")
        /\ pc[BSP] = "reap" =>
              \A v \in APs : pc[v] = "exited" \/ VcpuGoesOn(v)

(* No thread that the teardown joins waits for another one that cannot go on,
   for any number of vCPUs and at any point of a freeze. *)
THEOREM TeardownAlwaysOwed == Spec => []TeardownIsOwed
<1>1. EndInv => TeardownIsOwed
  <2> SUFFICES ASSUME EndInv PROVE TeardownIsOwed
    OBVIOUS
  <2>inv. TypeInv /\ Ends /\ KillNotLost
    BY DEF EndInv
  <2>types. /\ pc \in [Vcpus -> VcpuPcs] /\ BSP \in Vcpus /\ APs \subseteq Vcpus
            /\ BSP \notin APs /\ wd \in {"run", "done"} /\ cpc \in CoordPcs
    BY <2>inv, VcpusFinite, RendezvousAssumption
       DEF TypeInv, TypeOK, VcpuTypes, FlagTypes, CoordTypes, Vcpus
  <2>1. CapturesLeft \in Nat /\ AcksLeft \in Nat
    <3>1. /\ cycle \in 0..MaxCycles /\ MaxCycles \in Nat /\ count \in Nat
          /\ expected \in Nat /\ (cpc = "drain" => cycle < MaxCycles)
      BY <2>inv, RendezvousAssumption
         DEF TypeInv, TypeOK, CoordTypes, WaitTypes, CycleBound
    <3>2. CapturesLeft \in Nat
      BY <3>1, SMT DEF CapturesLeft
    <3>3. AcksLeft \in Nat
      BY <3>1, SMT DEF AcksLeft
    <3> QED  BY <3>2, <3>3
  <2> SUFFICES ASSUME HasImmediateExit, kill
               PROVE
        /\ pc[BSP] \notin OutPcs => VcpuGoesOn(BSP) \/ (wd = "run" /\ ~bspDone)
        /\ pc[BSP] = "outJoin" =>
              /\ wd = "run" => bspDone
              /\ cpc = "done" \/ CoordGoesOn \/ (cpc = "drain" /\ wk = "start")
        /\ pc[BSP] = "reap" =>
              \A v \in APs : pc[v] = "exited" \/ VcpuGoesOn(v)
    BY <2>1 DEF TeardownIsOwed
  <2>2. ASSUME NEW v \in Vcpus, pc[v] \notin {"exited"} \cup OutPcs,
               pc[v] = "guest" => sig[v]
        PROVE  VcpuGoesOn(v)
    <3>1. pc[v] \in VcpuPcs
      BY <2>types
    <3> QED  BY <2>2, <3>1 DEF VcpuGoesOn, VcpuPcs, FreezePcs
  <2>3. ASSUME pc[BSP] \notin OutPcs
        PROVE  VcpuGoesOn(BSP) \/ (wd = "run" /\ ~bspDone)
    <3>1. ~bspDone /\ pc[BSP] # "exited"
      BY <2>3, <2>inv DEF Ends, OutPcs
    <3>2. wd = "done" => (pc[BSP] = "guest" => sig[BSP])
      BY <2>inv, <2>types DEF KillNotLost
    <3> QED  BY <2>2, <2>3, <3>1, <3>2, <2>types
  <2>4. ASSUME pc[BSP] = "outJoin"
        PROVE  /\ bspDone
               /\ cpc = "done" \/ CoordGoesOn \/ (cpc = "drain" /\ wk = "start")
    BY <2>4, <2>inv, <2>types DEF Ends, CoordGoesOn, CoordPcs, IdlePcs, EntryPcs
  <2>5. ASSUME pc[BSP] = "reap", NEW v \in APs
        PROVE  pc[v] = "exited" \/ VcpuGoesOn(v)
    <3>1. v \in Vcpus /\ v # BSP
      BY <2>types
    <3>2. pc[v] = "guest" => sig[v]
      BY <2>5, <3>1, <2>inv DEF KillNotLost
    <3>3. pc[v] \notin OutPcs
      BY <2>inv DEF Ends
    <3> QED  BY <2>2, <3>1, <3>2, <3>3
  <2> QED  BY <2>3, <2>4, <2>5
<1> QED  BY <1>1, EndInvInit, EndInvStep, PTL DEF Spec
============================================================================
