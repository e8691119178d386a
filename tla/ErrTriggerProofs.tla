-------------------------- MODULE ErrTriggerProofs --------------------------
(***************************************************************************)
(* Proofs about ErrTrigger, for any vCPUs, schedulers and configurations.  *)
(*                                                                         *)
(* A dump is genuine because every sign of an error comes from one: the    *)
(* inductive invariant Signs follows the error from exit_kind through the  *)
(* trap, the latch and the trigger to the report.  An early snapshot is    *)
(* kept because it leaves "held" by a write that is accounted for, or for  *)
(* a late report, and is lost only with that report.                       *)
(* A reported error is dumped because each step of the coordinator's loop  *)
(* brings its evaluation nearer and a final pass is always in reserve.     *)
(***************************************************************************)
EXTENDS ErrTrigger, TLAPS

(* Every sign of an error is one of a scheduler that failed. *)
Signs ==
    /\ \A x \in Scheds : ErrorKind(x) => x \in erred
    /\ bss => erred # {}
    /\ \A v \in Vcpus : vt[v] = "latch" => erred # {}
    /\ hit => erred # {}
    /\ trig => erred # {}
    /\ cpc \in {"gate", "emit"} => trig
    /\ late \in {"captured", "degraded"} => erred # {}

(* What names a scheduler does. *)
Names ==
    /\ root \in Scheds \cup {Nil}
    /\ ptr \in Scheds \cup {Nil}
    /\ last \in Scheds \cup {Nil}
    /\ DOMAIN g = Scheds
    /\ DOMAIN vt = Vcpus

(* The address of slot 0, its pointer and last_sched_kva, step by step. *)
Slot0 ==
    /\ request # Nil => ptr = request
    /\ cpc = "disarm" => request = Nil

(* Where an early snapshot is, step by step. *)
Kept ==
    /\ took => early # "none"
    /\ cpc = "exited" /\ cfg.path => early # "held"
    /\ early = "taken" /\ cfg.path => cpc = "emit"
    /\ early = "lost" /\ late = "captured" => fails > 0
    /\ early = "lost" /\ late # "captured" => cut
    /\ early = "lost" => fs = "Done" \/ cpc \in {"drain", "exited"}
    /\ late = "captured" => fs = "Done"
    /\ fs = "Done" => cpc \notin {"early", "late", "gate", "emit"}
    /\ early \in EarlyPlaces
    /\ fails \in Nat

(* TypeOK in the groups that the frames of the actions leave alone. *)
GuestTypes ==
    /\ g \in [Scheds -> {"new", "on", "erred", "probed", "done", "gone"}]
    /\ root \in Scheds \cup {Nil} /\ bss \in BOOLEAN /\ erred \subseteq Scheds
VcpuTypes ==
    /\ dr0 \in [Vcpus -> Scheds \cup {Nil}]
    /\ vt \in [Vcpus -> {"run", "trap", "latch"}] /\ hit \in BOOLEAN
SlotTypes ==
    /\ request \in Scheds \cup {Nil} /\ ptr \in Scheds \cup {Nil}
    /\ last \in Scheds \cup {Nil}
ModeTypes ==
    /\ fs \in {"Idle", "TookEarly", "Done"}
    /\ late \in {"none", "captured", "degraded", "suppressed"}
    /\ trig \in BOOLEAN /\ only \in BOOLEAN
TickTypes == bssPa \in BOOLEAN /\ tick \in BOOLEAN
EarlyTypes ==
    /\ early \in (IF cfg.dual THEN EarlyPlaces ELSE {"none"})
    /\ took \in BOOLEAN /\ cfg \in Configs
EndTypes == kill \in BOOLEAN /\ bspDone \in BOOLEAN
PassTypes ==
    /\ bspFinal \in BOOLEAN /\ final \in BOOLEAN /\ cut \in BOOLEAN
    /\ eintrs \in 0..MaxEintr
(* The early trigger is evaluated with dual_snapshot only. *)
Places ==
    /\ cpc \in {"idle", "disarm", "publish", "eval", "early", "late", "gate",
                "emit", "drain", "exited"}
    /\ cpc = "early" => cfg.dual

Types == /\ GuestTypes /\ VcpuTypes /\ SlotTypes /\ ModeTypes /\ TickTypes
         /\ EarlyTypes /\ EndTypes /\ PassTypes /\ Places
         /\ fails \in 0..MaxFail

\* The initial state has the declared types.
LEMMA TypesInit == Init => Types
  <1> SUFFICES ASSUME Init PROVE Types
    OBVIOUS
  <1>1. fails \in 0..MaxFail /\ eintrs \in 0..MaxEintr
    BY TriggerAssumption DEF Init
  <1>2. GuestTypes /\ VcpuTypes /\ SlotTypes
    BY Zenon DEF Init, GuestTypes, VcpuTypes, SlotTypes
  <1>3. ModeTypes /\ TickTypes /\ EndTypes /\ Places
    BY Zenon DEF Init, ModeTypes, TickTypes, EndTypes, Places
  <1>4. EarlyTypes /\ PassTypes
    BY <1>1, Zenon DEF Init, EarlyTypes, EarlyPlaces, PassTypes
  <1> QED
    BY <1>1, <1>2, <1>3, <1>4, Zenon DEF Types

\* Every step keeps the declared types.
LEMMA TypesStep == Types /\ [Next]_vars => Types'
  <1> SUFFICES ASSUME Types, [Next]_vars PROVE Types'
    OBVIOUS
  <1> USE DEF guestVars, slotVars, passVars, earlyVars, endVars
  <1>guest. UNCHANGED guestVars => GuestTypes'
    BY Zenon DEF Types, GuestTypes
  <1>vcpu. UNCHANGED <<dr0, vt, hit>> => VcpuTypes'
    BY Zenon DEF Types, VcpuTypes
  <1>slot. UNCHANGED slotVars => SlotTypes'
    BY Zenon DEF Types, SlotTypes
  <1>mode. UNCHANGED <<fs, late, trig, only>> => ModeTypes'
    BY Zenon DEF Types, ModeTypes
  <1>tick. UNCHANGED <<bssPa, tick>> => TickTypes'
    BY Zenon DEF Types, TickTypes
  <1>early. UNCHANGED <<early, took, cfg>> => EarlyTypes'
    BY Zenon DEF Types, EarlyTypes
  <1>end. UNCHANGED endVars => EndTypes'
    BY Zenon DEF Types, EndTypes
  <1>pass. UNCHANGED passVars => PassTypes'
    BY Zenon DEF Types, PassTypes
  <1>place. UNCHANGED <<cpc, cfg>> => Places'
    BY Zenon DEF Types, Places
  <1>fails. UNCHANGED fails => (fails \in 0..MaxFail)'
    BY Zenon DEF Types
  <1>more. fails < MaxFail => fails + 1 \in 0..MaxFail
    BY TriggerAssumption, SMT DEF Types
  <1>goal. Types' <=> /\ GuestTypes' /\ VcpuTypes' /\ SlotTypes' /\ ModeTypes'
                      /\ TickTypes' /\ EarlyTypes' /\ EndTypes' /\ PassTypes'
                      /\ Places' /\ (fails \in 0..MaxFail)'
    BY Zenon DEF Types
  <1>1. ASSUME NEW v \in Vcpus, GuestStep(v) PROVE Types'
    <2>1. PICK x \in Scheds : \/ Attach(v, x) \/ ErrorExit(v, x) \/ Probe(v, x)
                              \/ ExitDone(v, x) \/ Detach(v, x)
      BY <1>1, Zenon DEF GuestStep
    <2>2. GuestFrame
      BY <2>1, Zenon DEF Attach, ErrorExit, Probe, ExitDone, Detach
    <2>3. GuestTypes'
      BY <2>1, Zenon DEF Types, GuestTypes, Attach, ErrorExit, Probe, ExitDone,
           Detach
    <2>4. vt' \in [Vcpus -> {"run", "trap", "latch"}]
      BY <2>1, Zenon DEF Types, VcpuTypes, Attach, ErrorExit, Probe, ExitDone,
                         Detach, Wrote
    <2>5. VcpuTypes'
      BY <2>2, <2>4, Zenon DEF Types, VcpuTypes, GuestFrame
    <2> QED
      BY <2>2, <2>3, <2>5, <1>slot, <1>mode, <1>tick, <1>early, <1>end, <1>pass,
         <1>place, <1>fails, <1>goal, Zenon DEF GuestFrame
  <1>2. ASSUME NEW v \in Vcpus, VcpuStep(v) PROVE Types'
    <2>1. VcpuTypes'
      BY <1>2, Zenon DEF Types, VcpuTypes, SlotTypes, VcpuStep, SelfArm, ReadKind,
                         LatchHit
    <2>2. VcpuFrame
      BY <1>2, Zenon DEF VcpuStep, SelfArm, ReadKind, LatchHit
    <2> QED
      BY <2>1, <2>2, <1>guest, <1>slot, <1>mode, <1>tick, <1>early, <1>end,
         <1>pass, <1>place, <1>fails, <1>goal, Zenon DEF VcpuFrame
  <1>3. CASE Kill \/ BspDone
    <2>1. EndTypes' /\ EndFrame
      BY <1>3, Zenon DEF Types, EndTypes, Kill, BspDone
    <2> QED
      BY <2>1, <1>guest, <1>vcpu, <1>slot, <1>mode, <1>tick, <1>early, <1>pass,
         <1>place, <1>fails, <1>goal, Zenon DEF EndFrame
  <1>4. CASE Iterate \/ LeaveLoop \/ Interrupted \/ EpollFails
    <2>1. IterFrame /\ cpc' \in {"idle", "publish", "eval", "drain"}
      BY <1>4, Zenon DEF Iterate, LeaveLoop, Interrupted, EpollFails
    <2>2. Places'
      BY <2>1, Zenon DEF Places
    <2>3. eintrs' \in 0..MaxEintr
      <3>1. eintrs' = eintrs \/ (eintrs < MaxEintr /\ eintrs' = eintrs + 1)
        BY <1>4, Zenon DEF Iterate, LeaveLoop, Interrupted, EpollFails
      <3> QED
        BY <3>1, TriggerAssumption, SMT DEF Types, PassTypes
    <2>4. bspFinal' \in BOOLEAN /\ final' \in BOOLEAN /\ cut' \in BOOLEAN
      BY <1>4, Zenon DEF Types, PassTypes, Iterate, LeaveLoop, Interrupted,
                         EpollFails, FinalPass
    <2>5. TickTypes'
      BY <1>4, <2>4, Zenon DEF Types, TickTypes, Iterate, LeaveLoop, Interrupted,
                               EpollFails
    <2>6. PassTypes'
      BY <2>3, <2>4, Zenon DEF PassTypes
    <2> QED
      BY <2>1, <2>2, <2>5, <2>6, <1>guest, <1>vcpu, <1>slot, <1>mode, <1>early,
         <1>end, <1>fails, <1>goal, Zenon DEF IterFrame
  <1>5. CASE Unchanged \/ DisarmRequest \/ DisarmPtr \/ PublishPtr \/ PublishRequest
    <2>1. PubFrame /\ SlotTypes' /\ cpc' \in {"publish", "disarm", "eval"}
      BY <1>5, Zenon DEF Types, SlotTypes, GuestTypes, Unchanged, DisarmRequest,
                         DisarmPtr, PublishPtr, PublishRequest
    <2>2. Places'
      BY <2>1, Zenon DEF Places
    <2> QED
      BY <2>1, <2>2, <1>guest, <1>vcpu, <1>mode, <1>tick, <1>early, <1>end,
         <1>pass, <1>fails, <1>goal, Zenon DEF PubFrame
  <1>6. CASE Evaluate
    <2>1. Places'
      BY <1>6, Zenon DEF Evaluate, Places
    <2>2. ModeTypes'
      BY <1>6, Zenon DEF Types, Evaluate, ModeTypes
    <2> QED
      BY <1>6, <2>1, <2>2, <1>guest, <1>vcpu, <1>slot, <1>tick, <1>early, <1>end,
         <1>pass, <1>fails, <1>goal, Zenon DEF Evaluate
  <1>7. CASE EarlyCapture \/ NoEarly \/ NoTrigger \/ LateFreeze \/ LateDegraded
             \/ LateCaptured \/ EmitLate \/ LateSuppressed \/ Panic \/ Drain
    <2>1. CaptureFrame /\ cpc' \in {"late", "idle", "gate", "emit", "drain", "exited"}
      BY <1>7, Zenon DEF EarlyCapture, NoEarly, NoTrigger, LateFreeze, EndLate,
           LateDegraded, LateCaptured, EmitLate, LateSuppressed, Panic, Drain
    <2>2. Places'
      BY <2>1, Zenon DEF Places
    <2>3. ModeTypes'
      BY <1>7, Zenon DEF Types, ModeTypes, EarlyCapture, NoEarly, NoTrigger,
                         LateFreeze, EndLate, LateDegraded, LateCaptured, EmitLate,
                         LateSuppressed, Panic, Drain
    <2>4. hit' \in BOOLEAN /\ kill' \in BOOLEAN /\ cut' \in BOOLEAN /\ took' \in BOOLEAN
      BY <1>7, Zenon DEF Types, VcpuTypes, EndTypes, PassTypes, EarlyTypes,
                         EarlyCapture, NoEarly, NoTrigger, LateFreeze, LateDegraded,
                         LateCaptured, EmitLate, LateSuppressed, Panic, Drain
    <2>5. VcpuTypes' /\ EndTypes' /\ PassTypes'
      BY <2>1, <2>4, Zenon DEF Types, VcpuTypes, EndTypes, PassTypes, CaptureFrame
    <2>6. (fails \in 0..MaxFail)'
      BY <1>7, <1>fails, <1>more, Zenon
         DEF EarlyCapture, NoEarly, NoTrigger, LateFreeze, WriteEarly,
             LateDegraded, LateCaptured, EmitLate, LateSuppressed, Panic, Drain
    <2>7. early' \in (IF cfg.dual THEN EarlyPlaces ELSE {"none"})
      <3>1. /\ early \in EarlyPlaces
            /\ early # "none" => cfg.dual
        BY Zenon DEF Types, EarlyTypes, EarlyPlaces
      <3>2. CASE EarlyCapture
        BY <3>1, <3>2, Zenon DEF Types, Places, EarlyCapture, EarlyPlaces
      <3>3. CASE NoEarly \/ NoTrigger \/ LateFreeze \/ Panic
        BY <3>1, <3>3, Zenon DEF NoEarly, NoTrigger, LateFreeze, Panic, EarlyPlaces
      <3>4. CASE LateDegraded \/ LateSuppressed
        BY <3>1, <3>4, Zenon DEF LateDegraded, LateSuppressed, WriteEarly,
             EarlyPlaces
      <3>5. CASE LateCaptured \/ EmitLate
        BY <3>1, <3>5, SMT DEF LateCaptured, EmitLate, EarlyPlaces
      <3>6. CASE Drain
        BY <3>1, <3>6, Zenon DEF Drain, EarlyPlaces
      <3> QED
        BY <1>7, <3>2, <3>3, <3>4, <3>5, <3>6, Zenon
    <2>8. EarlyTypes'
      BY <2>1, <2>4, <2>7, Zenon DEF Types, EarlyTypes, CaptureFrame
    <2> QED
      BY <2>1, <2>2, <2>3, <2>5, <2>6, <2>8, <1>guest, <1>slot, <1>tick, <1>goal,
         Zenon DEF CaptureFrame
  <1>8. CASE UNCHANGED vars
    BY <1>8, <1>guest, <1>vcpu, <1>slot, <1>mode, <1>tick, <1>early, <1>end,
       <1>pass, <1>place, <1>fails, <1>goal, Zenon DEF vars
  <1> QED
    BY <1>1, <1>2, <1>3, <1>4, <1>5, <1>6, <1>7, <1>8, Zenon
       DEF Next, CoordStep, Ended

(* Every variable has its type; without dual_snapshot there is never an early
   snapshot, because the early trigger is not even evaluated. *)
THEOREM TypeCorrect == Spec => []TypeOK
  <1>1. Types => TypeOK
    BY Zenon DEF Types, GuestTypes, VcpuTypes, SlotTypes, ModeTypes, TickTypes,
                 EarlyTypes, EndTypes, PassTypes, Places, TypeOK
  <1> QED
    BY <1>1, TypesInit, TypesStep, PTL DEF Spec

---------------------------------------------------------------------------
\* What names a scheduler does so initially.
LEMMA NamesInit == Init => Names
  BY DEF Init, Names

\* Every step keeps Names.
LEMMA NamesStep == Names /\ [Next]_vars => Names'
  <1> SUFFICES ASSUME Names, [Next]_vars PROVE Names'
    OBVIOUS
  <1>1. ASSUME NEW v \in Vcpus, GuestStep(v) PROVE Names'
    BY <1>1 DEF Names, GuestStep, Attach, ErrorExit, Probe, ExitDone, Detach,
        Wrote, GuestFrame, slotVars
  <1>2. ASSUME NEW v \in Vcpus, VcpuStep(v) PROVE Names'
    BY <1>2 DEF Names, VcpuStep, SelfArm, ReadKind, LatchHit, VcpuFrame,
        guestVars, slotVars
  <1>3. CASE Kill \/ BspDone
    BY <1>3 DEF Names, Kill, BspDone, EndFrame, guestVars, slotVars
  <1>4. CASE Iterate \/ LeaveLoop \/ Interrupted \/ EpollFails
    BY <1>4 DEF Names, Iterate, LeaveLoop, Interrupted, EpollFails, IterFrame,
        guestVars, slotVars
  <1>5. CASE Unchanged \/ DisarmRequest \/ DisarmPtr \/ PublishPtr \/ PublishRequest
    BY <1>5 DEF Names, Unchanged, DisarmRequest, DisarmPtr, PublishPtr,
        PublishRequest, PubFrame, guestVars, slotVars
  <1>6. CASE Evaluate
    BY <1>6 DEF Names, Evaluate, guestVars, slotVars
  <1>7. CASE EarlyCapture \/ NoEarly \/ NoTrigger \/ LateFreeze \/ LateDegraded
             \/ LateCaptured \/ EmitLate \/ LateSuppressed \/ Panic \/ Drain
    BY <1>7 DEF Names, EarlyCapture, NoEarly, NoTrigger, LateFreeze,
         LateDegraded, LateCaptured, EmitLate, LateSuppressed, Panic, Drain,
         CaptureFrame, guestVars, slotVars
  <1>8. CASE UNCHANGED vars
    BY <1>8 DEF Names, vars, guestVars, slotVars
  <1> QED
    BY <1>1, <1>2, <1>3, <1>4, <1>5, <1>6, <1>7, <1>8 DEF Next, CoordStep, Ended

---------------------------------------------------------------------------
\* Slot 0 is unarmed initially.
LEMMA Slot0Init == Init => Slot0
  BY DEF Init, Slot0

\* Every step keeps Slot0.
LEMMA Slot0Step == Slot0 /\ [Next]_vars => Slot0'
  <1> SUFFICES ASSUME Slot0, [Next]_vars PROVE Slot0'
    OBVIOUS
  <1>1. ASSUME NEW v \in Vcpus, GuestStep(v) PROVE Slot0'
    BY <1>1 DEF Slot0, GuestStep, Attach, ErrorExit, Probe, ExitDone, Detach,
        Wrote, GuestFrame, slotVars
  <1>2. ASSUME NEW v \in Vcpus, VcpuStep(v) PROVE Slot0'
    BY <1>2 DEF Slot0, VcpuStep, SelfArm, ReadKind, LatchHit, VcpuFrame, slotVars
  <1>3. CASE Kill \/ BspDone
    BY <1>3 DEF Slot0, Kill, BspDone, EndFrame, slotVars
  <1>4. CASE Iterate \/ LeaveLoop \/ Interrupted \/ EpollFails
    BY <1>4 DEF Slot0, Iterate, LeaveLoop, Interrupted, EpollFails, IterFrame,
        slotVars
  <1>5. CASE Unchanged \/ DisarmRequest \/ DisarmPtr \/ PublishPtr \/ PublishRequest
    BY <1>5 DEF Slot0, Unchanged, DisarmRequest, DisarmPtr, PublishPtr,
        PublishRequest, PubFrame, slotVars
  <1>6. CASE Evaluate
    BY <1>6 DEF Slot0, Evaluate, slotVars
  <1>7. CASE EarlyCapture \/ NoEarly \/ NoTrigger \/ LateFreeze \/ LateDegraded
             \/ LateCaptured \/ EmitLate \/ LateSuppressed \/ Panic \/ Drain
    BY <1>7 DEF Slot0, EarlyCapture, NoEarly, NoTrigger, LateFreeze,
        LateDegraded, LateCaptured, EmitLate, LateSuppressed, EndLate, Panic, Drain,
        CaptureFrame, slotVars
  <1>8. CASE UNCHANGED vars
    BY <1>8 DEF Slot0, vars, slotVars
  <1> QED
    BY <1>1, <1>2, <1>3, <1>4, <1>5, <1>6, <1>7, <1>8 DEF Next, CoordStep, Ended

(* Slot 0 never holds an address without the pointer that its traps read, at
   any store of republish_watchpoint_on_rebind. *)
THEOREM RequestAlwaysCovered == Spec => []PointerCoversRequest
  <1>1. Slot0 => PointerCoversRequest
    BY DEF Slot0, PointerCoversRequest
  <1> QED
    BY <1>1, Slot0Init, Slot0Step, PTL DEF Spec

---------------------------------------------------------------------------
\* Initially there is no sign of an error.
LEMMA SignsInit == Init => Signs
  BY DEF Init, Signs, ErrorKind

\* Every step keeps Signs.
LEMMA SignsStep == Names /\ Signs /\ [Next]_vars => Signs'
  <1> SUFFICES ASSUME Names, Signs, [Next]_vars PROVE Signs'
    OBVIOUS
  <1>1. ASSUME NEW v \in Vcpus, GuestStep(v) PROVE Signs'
    BY <1>1 DEF Signs, Names, ErrorKind, GuestStep, Attach, ErrorExit, Probe,
        ExitDone, Detach, Wrote, GuestFrame
  <1>2. ASSUME NEW v \in Vcpus, VcpuStep(v) PROVE Signs'
    BY <1>2 DEF Signs, Names, ErrorKind, VcpuStep, SelfArm, ReadKind, LatchHit,
        VcpuFrame, guestVars
  <1>3. CASE Kill \/ BspDone
    BY <1>3 DEF Signs, ErrorKind, Kill, BspDone, EndFrame, guestVars
  <1>4. CASE Iterate \/ LeaveLoop \/ Interrupted \/ EpollFails
    <2>1. IterFrame /\ cpc' \in {"idle", "publish", "eval", "drain"}
      BY <1>4 DEF Iterate, LeaveLoop, Interrupted, EpollFails
    <2> QED
      BY <2>1 DEF Signs, ErrorKind, IterFrame, guestVars
  <1>5. CASE Unchanged \/ DisarmRequest \/ DisarmPtr \/ PublishPtr \/ PublishRequest
    BY <1>5 DEF Signs, ErrorKind, Unchanged, DisarmRequest, DisarmPtr,
        PublishPtr, PublishRequest, PubFrame, guestVars
  <1>6. CASE Evaluate
    <2>1. Polled => erred # {}
      BY DEF Polled, Signs, Names
    <2>2. hit \/ BssTriggered \/ Polled => erred # {}
      BY <2>1 DEF BssTriggered, Signs
    <2>3. trig' => erred' # {}
      BY <1>6, <2>2, Zenon DEF Evaluate, guestVars
    <2> QED
      BY <1>6, <2>3 DEF Evaluate, guestVars, Signs, ErrorKind
  <1>7. CASE EarlyCapture \/ NoEarly \/ NoTrigger \/ LateFreeze \/ LateDegraded
             \/ LateCaptured \/ EmitLate \/ LateSuppressed \/ Panic \/ Drain
    BY <1>7 DEF Signs, ErrorKind, EarlyCapture, NoEarly, NoTrigger, LateFreeze,
        LateDegraded, LateCaptured, EmitLate, LateSuppressed, EndLate, Panic, Drain,
        CaptureFrame, guestVars
  <1>8. CASE UNCHANGED vars
    BY <1>8 DEF Signs, ErrorKind, vars, guestVars
  <1> QED
    BY <1>1, <1>2, <1>3, <1>4, <1>5, <1>6, <1>7, <1>8 DEF Next, CoordStep, Ended

(* No failure dump without a failure: an orderly detach, a stale DR0 or a
   pointer of another scheduler never adds up to a late capture. *)
THEOREM DumpsAreGenuine == Spec => []DumpIsGenuine
  <1>1. Signs => DumpIsGenuine
    BY DEF Signs, DumpIsGenuine
  <1> QED
    BY <1>1, NamesInit, NamesStep, SignsInit, SignsStep, PTL DEF Spec

---------------------------------------------------------------------------
\* Nothing has been captured initially.
LEMMA KeptInit == Init => Kept
  BY DEF Init, Kept, EarlyPlaces

\* Every step keeps Kept.
LEMMA KeptStep == Kept /\ [Next]_vars => Kept'
  <1> SUFFICES ASSUME Kept, [Next]_vars PROVE Kept'
    OBVIOUS
  <1> USE DEF earlyVars, passVars, EarlyPlaces
  <1>1. ASSUME NEW v \in Vcpus, GuestStep(v) PROVE Kept'
    BY <1>1 DEF Kept, GuestStep, Attach, ErrorExit, Probe,
         ExitDone, Detach, GuestFrame
  <1>2. ASSUME NEW v \in Vcpus, VcpuStep(v) PROVE Kept'
    BY <1>2 DEF Kept, VcpuStep, SelfArm, ReadKind, LatchHit,
         VcpuFrame
  <1>3. CASE Kill \/ BspDone
    BY <1>3 DEF Kept, Kill, BspDone, EndFrame
  <1>4. CASE Iterate \/ LeaveLoop \/ Interrupted \/ EpollFails
    <2>1. IterFrame /\ cpc = "idle" /\ cpc' \in {"idle", "publish", "eval", "drain"}
      BY <1>4 DEF Iterate, LeaveLoop, Interrupted, EpollFails
    <2>2. cut => cut'
      BY <1>4 DEF Iterate, LeaveLoop, Interrupted, EpollFails
    <2> QED
      BY <2>1, <2>2 DEF Kept, IterFrame
  <1>5. CASE Unchanged \/ DisarmRequest \/ DisarmPtr \/ PublishPtr \/ PublishRequest
    BY <1>5 DEF Kept, Unchanged, DisarmRequest, DisarmPtr, PublishPtr,
        PublishRequest, PubFrame
  <1>6. CASE Evaluate
    BY <1>6 DEF Kept, Evaluate
  <1>7. CASE EarlyCapture \/ NoEarly \/ NoTrigger \/ LateFreeze
    BY <1>7 DEF Kept, EarlyCapture, NoEarly, NoTrigger, LateFreeze, CaptureFrame
  <1>8. CASE LateDegraded \/ LateSuppressed
    BY <1>8 DEF Kept, LateDegraded, LateSuppressed, EndLate, WriteEarly,
        CaptureFrame
  <1>9. CASE LateCaptured
    BY <1>9 DEF Kept, LateCaptured, CaptureFrame
  <1>10. CASE EmitLate
    BY <1>10 DEF Kept, EmitLate, EndLate, CaptureFrame
  <1>11. CASE Panic
    BY <1>11 DEF Kept, Panic, CaptureFrame
  <1>12. CASE Drain
    BY <1>12 DEF Kept, Drain, CaptureFrame
  <1>13. CASE UNCHANGED vars
    BY <1>13 DEF Kept, vars
  <1> QED
    BY <1>1, <1>2, <1>3, <1>4, <1>5, <1>6, <1>7, <1>8, <1>9, <1>10,
       <1>11, <1>12, <1>13 DEF Next, CoordStep, Ended

(* EarlySnapshotGuard keeps what it holds on every way out of the coordinator:
   the loop's end, an epoll error and a panic in a capture.  What a late report
   has taken out of it is lost only with that report. *)
THEOREM EarlyAlwaysKept == Spec => []EarlyIsKept
  <1>1. Kept => EarlyIsKept
    BY DEF Kept, EarlyIsKept, EarlyPlaces
  <1> QED
    BY <1>1, KeptInit, KeptStep, PTL DEF Spec

---------------------------------------------------------------------------
(* The way of a reported error to its dump.                                *)

Dumped == late \in {"captured", "degraded"}

(* The left-hand side of ReportedErrorIsDumped. *)
Reported == BssTriggered /\ ~kill /\ ~bspDone /\ fs # "Done"

(* A reported error whose evaluation is still to come, with a final pass in
   reserve, or has set the trigger. *)
Owed ==
    /\ BssTriggered /\ fs # "Done" /\ cpc \notin {"drain", "exited"}
    /\ cpc = "idle" \/ (cpc \in {"early", "late"} /\ ~trig) => ~bspFinal /\ ~final

(* How far the coordinator is from the dump of an error that is owed one: the
   rest of a pass that has read the triggers before it, and one pass more. *)
LeftAt(place, triggered, p) ==
    CASE place = "early" -> IF triggered THEN 3 ELSE 10
      [] place = "late" -> IF triggered THEN 2 ELSE 9
      [] place = "idle" -> 8
      [] place = "publish" -> IF p = Nil THEN 7 ELSE 6
      [] place = "disarm" -> 5
      [] place = "eval" -> 4
      [] place = "gate" -> 1
      [] OTHER -> 0
PassLeft == LeftAt(cpc, trig, ptr)

(* The guards of CoordStep. *)
CoordGoesOn ==
    \/ cpc \in {"idle", "disarm", "eval", "early", "gate", "emit", "drain"}
    \/ /\ cpc = "publish"
       /\ \/ ptr = last /\ (last = root \/ last = Nil)
          \/ last # Nil /\ root # last
          \/ last = Nil /\ ptr = Nil /\ root # Nil
          \/ last = Nil /\ ptr # Nil
    \/ cpc = "late" /\ (~trig \/ CanFreeze \/ ~bspDone)

(* The final passes come of what ends a run, and the loop ends after them. *)
Endings ==
    /\ bspFinal => bspDone
    /\ final => kill
    /\ cpc \in {"drain", "exited"} => kill \/ bspDone \/ cut
    /\ last # Nil => ptr = last

(* An error that the probe has latched before the run was told to end is not
   forgotten: no step of the guest, of a vCPU, of kill or of the BSP takes it
   further from its dump, every step of the coordinator takes it nearer, the
   exit_kind gate lets it pass and the loop does not end before, unless a pass
   is cut short (the loop of the freeze coordinator with its final passes). *)
ReportIsServed ==
    [][Owed => \/ Dumped' \/ cut'
               \/ /\ Owed' /\ PassLeft' <= PassLeft
                  /\ CoordStep => PassLeft' < PassLeft]_vars

(* The coordinator is never blocked, and what is reported is owed a dump. *)
ReportIsOwed ==
    /\ cpc # "exited" => CoordGoesOn
    /\ Reported => Owed \/ cut

\* Initially no pass is the last.
LEMMA EndingsInit == Init => Endings
  BY DEF Init, Endings

\* Every step keeps Endings.
LEMMA EndingsStep == Endings /\ [Next]_vars => Endings'
  <1> SUFFICES ASSUME Endings, [Next]_vars PROVE Endings'
    OBVIOUS
  <1> USE DEF guestVars, slotVars, passVars, earlyVars, endVars
  <1>1. ASSUME NEW v \in Vcpus, GuestStep(v) PROVE Endings'
    <2>1. GuestFrame
      BY <1>1, Zenon DEF GuestStep, Attach, ErrorExit, Probe, ExitDone, Detach
    <2> QED
      BY <2>1, Zenon DEF Endings, GuestFrame
  <1>2. ASSUME NEW v \in Vcpus, VcpuStep(v) PROVE Endings'
    <2>1. VcpuFrame
      BY <1>2, Zenon DEF VcpuStep, SelfArm, ReadKind, LatchHit
    <2> QED
      BY <2>1, Zenon DEF Endings, VcpuFrame
  <1>3. CASE Kill \/ BspDone
    <2>1. EndFrame /\ (kill => kill') /\ (bspDone => bspDone')
      BY <1>3, SMT DEF Kill, BspDone
    <2> QED
      BY <2>1, Zenon DEF Endings, EndFrame
  <1>4. CASE Iterate \/ Interrupted \/ EpollFails
    <2>1. FinalPass /\ IterFrame /\ (cpc' \in {"idle", "publish", "eval"} \/ cut')
      BY <1>4, Zenon DEF Iterate, Interrupted, EpollFails
    <2> QED
      BY <2>1, Zenon DEF Endings, FinalPass, IterFrame
  <1>5. CASE LeaveLoop
    BY <1>5, Zenon DEF Endings, LeaveLoop, LoopEnds, IterFrame
  <1>6. CASE Unchanged \/ DisarmRequest \/ DisarmPtr \/ PublishPtr \/ PublishRequest
    <2>1. PubFrame /\ cpc' \in {"publish", "disarm", "eval"} /\ (last' # Nil => ptr' = last')
      BY <1>6, Zenon DEF Endings, Unchanged, DisarmRequest, DisarmPtr, PublishPtr,
                         PublishRequest
    <2> QED
      BY <2>1, Zenon DEF Endings, PubFrame
  <1>7. CASE Evaluate
    <2>1. cpc' \in {"idle", "early", "late"}
      BY <1>7, Zenon DEF Evaluate
    <2> QED
      BY <1>7, <2>1, Zenon DEF Endings, Evaluate
  <1>8. CASE EarlyCapture \/ NoEarly \/ NoTrigger \/ LateFreeze \/ LateDegraded
             \/ LateCaptured \/ EmitLate \/ LateSuppressed \/ Panic \/ Drain
    <2>1. /\ CaptureFrame /\ (kill => kill') /\ (cut => cut')
          /\ cpc' \in {"late", "idle", "gate", "emit"} \/ cut' \/ cpc = "drain"
      BY <1>8, SMT DEF EarlyCapture, NoEarly, NoTrigger, LateFreeze, EndLate,
           LateDegraded, LateCaptured, EmitLate, LateSuppressed, Panic, Drain
    <2> QED
      BY <2>1, Zenon DEF Endings, CaptureFrame
  <1>9. CASE UNCHANGED vars
    BY <1>9, Zenon DEF Endings, vars
  <1> QED
    BY <1>1, <1>2, <1>3, <1>4, <1>5, <1>6, <1>7, <1>8, <1>9, Zenon
       DEF Next, CoordStep, Ended

\* A step of another thread takes a reported error no further from its dump.
LEMMA OwedByOthers ==
  ASSUME Types, Owed, UNCHANGED <<bssPa, fs, cpc, trig, slotVars, passVars>>,
         bss => bss'
  PROVE  Owed' /\ PassLeft' = PassLeft
  <1> USE DEF slotVars, passVars
  <1>1. Owed'
    BY Zenon DEF Owed, BssTriggered
  <1>2. PassLeft' = PassLeft
    BY Zenon DEF PassLeft
  <1> QED
    BY <1>1, <1>2

\* Every step of the coordinator in ReportIsServed.
LEMMA OwedByCoord ==
  ASSUME Types, Endings, Owed, CoordStep
  PROVE  Dumped' \/ cut' \/ (Owed' /\ PassLeft' < PassLeft)
  <1> USE DEF guestVars, slotVars, passVars, earlyVars, endVars
  <1>bss. bssPa /\ bss /\ fs # "Done"
    BY Zenon DEF Owed, BssTriggered
  <1>types. trig \in BOOLEAN /\ bssPa \in BOOLEAN /\ bss \in BOOLEAN
    BY Zenon DEF Types, ModeTypes, TickTypes, GuestTypes
  <1>left. /\ cpc = "early" => PassLeft = (IF trig THEN 3 ELSE 10)
           /\ cpc = "late" => PassLeft = (IF trig THEN 2 ELSE 9)
           /\ cpc = "idle" => PassLeft = 8
           /\ cpc = "publish" => PassLeft = (IF ptr = Nil THEN 7 ELSE 6)
           /\ cpc = "disarm" => PassLeft = 5
           /\ cpc = "eval" => PassLeft = 4
           /\ cpc = "gate" => PassLeft = 1
           /\ cpc = "emit" => PassLeft = 0
    BY SMT DEF PassLeft, LeftAt
  <1>next. /\ cpc' = "early" => PassLeft' = (IF trig' THEN 3 ELSE 10)
           /\ cpc' = "late" => PassLeft' = (IF trig' THEN 2 ELSE 9)
           /\ cpc' = "idle" => PassLeft' = 8
           /\ cpc' = "publish" => PassLeft' = (IF ptr' = Nil THEN 7 ELSE 6)
           /\ cpc' = "disarm" => PassLeft' = 5
           /\ cpc' = "eval" => PassLeft' = 4
           /\ cpc' = "gate" => PassLeft' = 1
           /\ cpc' = "emit" => PassLeft' = 0
    BY SMT DEF PassLeft, LeftAt
  <1>1. CASE Iterate
    <2>a. cpc = "idle" /\ cpc' \in {"publish", "eval"} /\ bss' = bss /\ fs' = fs
      BY <1>1, Zenon DEF Iterate, IterFrame
    <2>b. bssPa' \in {bssPa, bssPa \/ (tick' /\ cfg.probe)}
      BY <1>1, Zenon DEF Iterate
    <2>c. bssPa'
      BY <2>b, <1>bss, Zenon
    <2>1. cpc = "idle" /\ cpc' \in {"publish", "eval"} /\ bss' /\ bssPa' /\ fs' # "Done"
      BY <2>a, <2>c, <1>bss, SMT
    <2>2. Owed'
      BY <2>1, SMT DEF Owed, BssTriggered
    <2>3. PassLeft' < PassLeft
      BY <2>1, <1>left, <1>next, SMT
    <2> QED
      BY <2>2, <2>3
  <1>2. CASE LeaveLoop
    BY <1>2, SMT DEF LeaveLoop, LoopEnds, Owed
  <1>3. CASE Unchanged \/ DisarmRequest \/ DisarmPtr \/ PublishPtr \/ PublishRequest
    <2>1. /\ PubFrame
          /\ \/ cpc = "publish" /\ cpc' \in {"disarm", "eval"}
             \/ cpc = "disarm" /\ cpc' = "eval"
             \/ cpc = "publish" /\ cpc' = "publish" /\ ptr = Nil /\ ptr' # Nil
      BY <1>3, Zenon DEF Unchanged, DisarmRequest, DisarmPtr, PublishPtr,
           PublishRequest
    <2>2. Owed'
      BY <2>1, <1>bss, SMT DEF PubFrame, Owed, BssTriggered
    <2>3. PassLeft' < PassLeft
      BY <2>1, <1>left, <1>next, SMT
    <2> QED
      BY <2>2, <2>3
  <1>4. CASE Evaluate
    <2>1. cpc = "eval" /\ cpc' \in {"early", "late"} /\ trig' /\ bss' /\ bssPa' /\ fs' # "Done"
      <3>1. trig' = (fs # "Done" /\ (hit \/ BssTriggered \/ Polled))
        BY <1>4, Zenon DEF Evaluate
      <3>2. trig'
        BY <3>1, <1>bss, Zenon DEF BssTriggered
      <3>3. /\ cpc = "eval" /\ bss' = bss /\ bssPa' = bssPa /\ fs' = fs
            /\ cpc' \in {"early", "late"}
        BY <1>4, <1>bss, Zenon DEF Evaluate
      <3> QED
        BY <3>2, <3>3, <1>bss, SMT
    <2>2. Owed'
      BY <2>1, SMT DEF Owed, BssTriggered
    <2>3. PassLeft' < PassLeft
      BY <2>1, <1>left, <1>next, SMT
    <2> QED
      BY <2>2, <2>3
  <1>5. CASE EarlyCapture \/ NoEarly \/ NoTrigger \/ LateFreeze \/ LateCaptured
    <2>1. /\ CaptureFrame /\ trig' = trig /\ fs' \in {fs, "TookEarly"}
          /\ \/ cpc = "early" /\ cpc' = "late"
             \/ cpc = "late" /\ ~trig /\ cpc' = "idle"
             \/ cpc = "late" /\ trig /\ cpc' = "gate"
             \/ cpc = "gate" /\ cpc' = "emit"
      BY <1>5, Zenon DEF EarlyCapture, NoEarly, NoTrigger, LateFreeze, LateCaptured
    <2>2. Owed'
      BY <2>1, <1>bss, SMT DEF CaptureFrame, Owed, BssTriggered
    <2>3. PassLeft' < PassLeft
      BY <2>1, <1>left, <1>next, SMT
    <2> QED
      BY <2>2, <2>3
  <1>6. CASE LateDegraded \/ EmitLate
    BY <1>6, Zenon DEF LateDegraded, EmitLate, EndLate, Dumped
  <1>7. CASE LateSuppressed
    BY <1>7, <1>bss, Zenon DEF LateSuppressed, GateSuppresses, BssTriggered
  <1>8. CASE Drain
    BY <1>8, Zenon DEF Drain, Owed
  <1> QED
    BY <1>1, <1>2, <1>3, <1>4, <1>5, <1>6, <1>7, <1>8, Zenon DEF CoordStep

\* Every step of the rest of the system in ReportIsServed.
LEMMA OwedByRest ==
  ASSUME Types, Owed, [Next]_vars, ~CoordStep
  PROVE  Dumped' \/ cut' \/ (Owed' /\ PassLeft' <= PassLeft)
  <1> USE DEF guestVars, slotVars, passVars, earlyVars, endVars
  <1>left. PassLeft \in Nat
    BY SMT DEF PassLeft, LeftAt
  <1>same. /\ UNCHANGED <<bssPa, fs, cpc, trig, slotVars, passVars>>
           /\ bss => bss'
           => Owed' /\ PassLeft' <= PassLeft
    <2> SUFFICES ASSUME UNCHANGED <<bssPa, fs, cpc, trig, slotVars, passVars>>,
                        bss => bss'
                 PROVE  Owed' /\ PassLeft' <= PassLeft
      OBVIOUS
    <2>1. Owed' /\ PassLeft' = PassLeft
      BY OwedByOthers, Zenon
    <2> QED
      BY <2>1, <1>left, SMT
  <1>1. ASSUME NEW v \in Vcpus, GuestStep(v) PROVE Owed' /\ PassLeft' <= PassLeft
    <2>1. GuestFrame /\ (bss' = bss \/ bss' = (bss \/ cfg.probe))
      BY <1>1, Zenon DEF GuestStep, Attach, ErrorExit, Probe, ExitDone, Detach
    <2>2. bss => bss'
      BY <2>1, Zenon
    <2> QED
      BY <2>1, <2>2, <1>same, Zenon DEF GuestFrame
  <1>2. ASSUME NEW v \in Vcpus, VcpuStep(v) PROVE Owed' /\ PassLeft' <= PassLeft
    <2>1. VcpuFrame
      BY <1>2, Zenon DEF VcpuStep, SelfArm, ReadKind, LatchHit
    <2> QED
      BY <2>1, <1>same, Zenon DEF VcpuFrame
  <1>3. CASE Kill \/ BspDone
    <2>1. EndFrame
      BY <1>3, Zenon DEF Kill, BspDone
    <2> QED
      BY <2>1, <1>same, Zenon DEF EndFrame
  <1>4. CASE Interrupted
    <2>1. /\ IterFrame /\ cpc = "idle" /\ cpc' = "idle" /\ bssPa' = bssPa
          /\ cut' = (cut \/ bspFinal' \/ final')
      BY <1>4, Zenon DEF Interrupted
    <2>2. CASE bspFinal' \/ final'
      BY <2>1, <2>2, Zenon
    <2>3. CASE ~bspFinal' /\ ~final'
      <3>1. Owed'
        BY <2>1, <2>3, Zenon DEF Owed, BssTriggered, IterFrame
      <3>2. PassLeft' = PassLeft
        BY <2>1, Zenon DEF PassLeft, IterFrame
      <3> QED
        BY <3>1, <3>2, <1>left, SMT
    <2> QED
      BY <2>2, <2>3
  <1>5. CASE EpollFails \/ Panic
    BY <1>5, Zenon DEF EpollFails, Panic
  <1>6. CASE UNCHANGED vars
    BY <1>6, <1>same, Zenon DEF vars
  <1> QED
    BY <1>1, <1>2, <1>3, <1>4, <1>5, <1>6, Zenon DEF Next, Ended

\* The coordinator is never blocked, and what is reported is owed a dump.
LEMMA ReportOwed ==
  ASSUME Types, Endings
  PROVE  ReportIsOwed
  <1>1. ASSUME cpc # "exited" PROVE CoordGoesOn
    <2>1. cpc \in {"idle", "disarm", "publish", "eval", "early", "late", "gate",
                   "emit", "drain"}
      BY <1>1, Zenon DEF Types, Places
    <2>2. CASE cpc = "late"
      BY <2>2, Zenon DEF CoordGoesOn, CanFreeze
    <2>3. CASE cpc = "publish"
      BY <2>3, Zenon DEF CoordGoesOn, Endings
    <2> QED
      BY <2>1, <2>2, <2>3, Zenon DEF CoordGoesOn
  <1>2. ASSUME Reported, ~cut PROVE Owed
    <2>1. cpc \notin {"drain", "exited"} /\ ~bspFinal /\ ~final
      BY <1>2, Zenon DEF Reported, Endings
    <2> QED
      BY <1>2, <2>1, Zenon DEF Owed, Reported
  <1> QED
    BY <1>1, <1>2, Zenon DEF ReportIsOwed

(* The step-by-step half of ReportedErrorIsDumped, for every number of vCPUs
   and schedulers: with each of its steps the coordinator's loop comes nearer
   to the dump of an error that the probe has latched, and no other thread
   undoes it, kill and the end of the BSP included. *)
THEOREM ReportAlwaysServed == Spec => ReportIsServed
  <1>1. ASSUME Types, Endings, [Next]_vars
        PROVE  [Owed => \/ Dumped' \/ cut'
                        \/ /\ Owed' /\ PassLeft' <= PassLeft
                           /\ CoordStep => PassLeft' < PassLeft]_vars
    <2> SUFFICES ASSUME Owed
                 PROVE  \/ Dumped' \/ cut'
                        \/ /\ Owed' /\ PassLeft' <= PassLeft
                           /\ CoordStep => PassLeft' < PassLeft
      OBVIOUS
    <2>1. CASE CoordStep
      <3>1. PassLeft \in Nat /\ PassLeft' \in Nat
        BY SMT DEF PassLeft, LeftAt
      <3>2. PassLeft' < PassLeft => PassLeft' <= PassLeft
        BY <3>1, SMT
      <3> QED
        BY <1>1, <2>1, <3>2, OwedByCoord, Zenon
    <2>2. CASE ~CoordStep
      BY <1>1, <2>2, OwedByRest, Zenon
    <2> QED
      BY <2>1, <2>2
  <1> QED
    BY <1>1, TypesInit, TypesStep, EndingsInit, EndingsStep, PTL
       DEF Spec, ReportIsServed

(* The coordinator's loop always has a step to take until it is left, and it
   is never left with an error unserved that the probe had latched before the
   run was told to end, unless a pass was cut short. *)
THEOREM ReportAlwaysOwed == Spec => []ReportIsOwed
  <1>1. Types /\ Endings => ReportIsOwed
    BY ReportOwed
  <1> QED
    BY <1>1, TypesInit, TypesStep, EndingsInit, EndingsStep, PTL DEF Spec
=============================================================================
