------------------------- MODULE FreezeRendezvous -------------------------
(***************************************************************************)
(* The stop-the-world rendezvous of the VMM: the freeze coordinator thread *)
(* stops every vCPU thread and the virtio-blk worker, reads guest memory,  *)
(* and thaws them.  Teardown (kill, watchdog, BSP exit, joins) races it.   *)
(*                                                                         *)
(* Time is abstracted: a deadline may pass whenever its wait is blocked.   *)
(* thaw_evt, kill_evt and bsp_done_evt only shorten polls that have a time *)
(* limit of their own, so a waiter may re-check its condition at any time. *)
(***************************************************************************)
EXTENDS Integers, FiniteSets

CONSTANTS
    APs,               \* application-processor vCPU threads
    BSP,               \* the boot processor: vCPU 0, the thread of run_vm
    HasImmediateExit,  \* KVM_CAP_IMMEDIATE_EXIT
    MaxCycles,         \* bound on freeze_and_capture calls
    WorkerInit,        \* what the virtio-blk worker may be at the start
    Upsets             \* disturbances this instance admits: a rendezvous or
                       \* barrier deadline, the worker's one-second limit, a
                       \* worker spawned while a freeze is under way

ASSUME RendezvousAssumption ==
    /\ IsFiniteSet(APs)
    /\ BSP \notin APs
    /\ "worker" \notin APs \cup {BSP}   \* the name StopTheWorld knows it by
    /\ HasImmediateExit \in BOOLEAN
    /\ MaxCycles \in Nat
    /\ WorkerInit \subseteq {"absent", "none", "idle"}
    /\ Upsets \subseteq {"deadline", "workerDrop", "spawn"}

Vcpus == APs \cup {BSP}

VARIABLES
    kill,        \* AtomicBool kill
    freeze,      \* AtomicBool freeze
    bspDone,     \* AtomicBool bsp_done
    parkedEvt,   \* counter of the eventfd parked_evt
    pc,          \* per vCPU: where its run loop is
    ie,          \* per vCPU: the kvm_run immediate_exit byte
    sig,         \* per vCPU: SIGRTMIN pending in KVM_RUN
    parked,      \* per vCPU: AtomicBool parked
    regs,        \* per vCPU: the register slot, 0 for None, else the cycle
                 \* whose freeze the vCPU was serving when it filled it
    since,       \* per vCPU: cycle of the freeze it is serving, else 0 (history)
    wk,          \* the virtio-blk worker thread
    paused,      \* AtomicBool VirtioBlk::paused
    pauseEvt,    \* eventfd pause_evt is readable
    cpc,         \* where the coordinator is
    cycle,       \* number of the current or last freeze_and_capture
    count,       \* parked_count
    expected,    \* expected_parks
    wrun,        \* worker_was_running
    dropped,     \* worker_dropped
    allParked,   \* all_parked
    finalBsp,    \* bsp_done_final_pass
    finalKill,   \* sched_exit_final_pass
    wd,          \* the watchdog thread
    upset        \* disturbances that have happened, with their cycle (history)

vcpuVars  == <<pc, ie, sig, parked, regs, since>>
blkVars   == <<wk, paused, pauseEvt>>
waitVars  == <<count, expected, wrun, dropped, allParked>>
coordVars == <<cpc, cycle, waitVars, finalBsp, finalKill>>
vars == <<kill, freeze, bspDone, parkedEvt, vcpuVars, blkVars, coordVars,
          wd, upset>>

(* handle_freeze, from its call to its return. *)
FreezePcs == {"drain", "park", "ack", "wait"}
(* The BSP after its run loop, up to the last join of collect_results. *)
OutPcs == {"out", "outKill", "outJoin", "reap", "joined"}
VcpuPcs == {"top", "enter", "guest", "exit", "eintr", "exited"}
             \cup FreezePcs \cup OutPcs
(* "absent": no device; "none": no live worker; "start": spawned, and its
   thread has not run yet. *)
WorkerPcs == {"absent", "none", "start", "idle", "io", "ack", "wait"}
(* The coordinator outside a freeze. *)
IdlePcs == {"loop", "retest", "head", "body"}
(* freeze_and_capture before its rendezvous loop, in order. *)
EntryPcs == {"drain", "seed", "freeze", "ie", "signal"}
CoordPcs == {"rendezvous", "collect", "capture", "thaw", "barrier", "done"}
              \cup IdlePcs \cup EntryPcs

FlagTypes ==
    /\ kill \in BOOLEAN /\ freeze \in BOOLEAN /\ bspDone \in BOOLEAN
    /\ parkedEvt \in Nat
    /\ wd \in {"run", "done"}
    /\ upset \subseteq Upsets \X (0..MaxCycles)
VcpuTypes ==
    /\ pc \in [Vcpus -> VcpuPcs]
    /\ ie \in [Vcpus -> BOOLEAN] /\ sig \in [Vcpus -> BOOLEAN]
    /\ parked \in [Vcpus -> BOOLEAN]
    /\ regs \in [Vcpus -> 0..MaxCycles] /\ since \in [Vcpus -> 0..MaxCycles]
BlkTypes ==
    wk \in WorkerPcs /\ paused \in BOOLEAN /\ pauseEvt \in BOOLEAN
WaitTypes ==
    /\ count \in Nat /\ expected \in Nat
    /\ wrun \in BOOLEAN /\ dropped \in BOOLEAN /\ allParked \in BOOLEAN
CoordTypes ==
    /\ cpc \in CoordPcs /\ cycle \in 0..MaxCycles
    /\ finalBsp \in BOOLEAN /\ finalKill \in BOOLEAN

(* Every variable has its type, and no more than MaxCycles freezes begin. *)
TypeOK == FlagTypes /\ VcpuTypes /\ BlkTypes /\ WaitTypes /\ CoordTypes

Init ==
    /\ kill = FALSE /\ freeze = FALSE /\ bspDone = FALSE
    /\ parkedEvt = 0
    /\ pc = [v \in Vcpus |-> "top"]
    /\ ie = [v \in Vcpus |-> FALSE] /\ sig = [v \in Vcpus |-> FALSE]
    /\ parked = [v \in Vcpus |-> FALSE]
    /\ regs = [v \in Vcpus |-> 0] /\ since = [v \in Vcpus |-> 0]
    /\ wk \in WorkerInit /\ paused = (wk = "none")
    /\ pauseEvt = FALSE
    /\ cpc = "loop" /\ cycle = 0
    /\ count = 0 /\ expected = 0
    /\ wrun = FALSE /\ dropped = FALSE /\ allParked = FALSE
    /\ finalBsp = FALSE /\ finalKill = FALSE
    /\ wd = "run"
    /\ upset = {}

(* WorkerEngine::Spawned.handle is Some. *)
WorkerAlive == wk \notin {"absent", "none"}

(* The coordinator is inside freeze_and_capture or thaw_and_barrier. *)
InCycle == cpc \notin IdlePcs \cup {"done"}

(* pthread_kill(SIGRTMIN) to a set of vCPU threads.  It interrupts KVM_RUN;
   a thread in user mode runs the empty handler at once and the kick is gone. *)
Signalled(S) == [v \in Vcpus |-> sig[v] \/ (v \in S /\ pc[v] = "guest")]

---------------------------------------------------------------------------
(* The vCPU threads: vcpu_run_loop_unified, run_bsp_loop, handle_freeze.   *)

Leave(v) == IF v = BSP THEN "out" ELSE "exited"

(* The loop head: kill is checked first, then freeze.  The watchpoint
   self-arm that follows does not touch this module's state. *)
LoopHead(v) ==
    /\ pc[v] = "top"
    /\ pc' = [pc EXCEPT ![v] = IF kill THEN Leave(v)
                               ELSE IF freeze THEN "drain" ELSE "enter"]
    /\ since' = [since EXCEPT ![v] = IF ~kill /\ freeze THEN cycle ELSE @]
    /\ UNCHANGED <<kill, freeze, bspDone, parkedEvt, ie, sig, parked, regs,
                   blkVars, coordVars, wd, upset>>

(* The KVM_RUN ioctl: immediate_exit turns it into an EINTR return. *)
Enter(v) ==
    /\ pc[v] = "enter"
    /\ pc' = [pc EXCEPT ![v] = IF ie[v] THEN "eintr" ELSE "guest"]
    /\ UNCHANGED <<kill, freeze, bspDone, parkedEvt, ie, sig, parked, regs,
                   since, blkVars, coordVars, wd, upset>>

(* A pending signal is taken on the way back to user mode. *)
GuestExit(v) ==
    /\ pc[v] = "guest"
    /\ pc' = [pc EXCEPT ![v] = "exit"]
    /\ sig' = [sig EXCEPT ![v] = FALSE]
    /\ UNCHANGED <<kill, freeze, bspDone, parkedEvt, ie, parked, regs, since,
                   blkVars, coordVars, wd, upset>>

Interrupt(v) ==
    /\ pc[v] = "guest" /\ sig[v]
    /\ sig' = [sig EXCEPT ![v] = FALSE]
    /\ pc' = [pc EXCEPT ![v] = "eintr"]
    /\ UNCHANGED <<kill, freeze, bspDone, parkedEvt, ie, parked, regs, since,
                   blkVars, coordVars, wd, upset>>

Eintr(v) ==
    /\ pc[v] = "eintr"
    /\ ie' = [ie EXCEPT ![v] = FALSE]
    /\ pc' = [pc EXCEPT ![v] = "top"]
    /\ UNCHANGED <<kill, freeze, bspDone, parkedEvt, sig, parked, regs, since,
                   blkVars, coordVars, wd, upset>>

(* An exit that only continues the loop: Hlt, Debug, ExitAction::Continue. *)
Dispatch(v) ==
    /\ pc[v] = "exit"
    /\ pc' = [pc EXCEPT ![v] = "top"]
    /\ UNCHANGED <<kill, freeze, bspDone, parkedEvt, ie, sig, parked, regs,
                   since, blkVars, coordVars, wd, upset>>

(* An exit that ends the loop.  Shutdown or Fatal on an AP, a panic of an AP
   (the panic hook) and Fatal on the BSP set kill; Shutdown and a failed
   KVM_RUN on the BSP only leave the loop. *)
Stop(v) ==
    /\ pc[v] = "exit"
    /\ pc' = [pc EXCEPT ![v] = Leave(v)]
    /\ kill' \in IF v = BSP THEN {kill, TRUE} ELSE {TRUE}
    /\ UNCHANGED <<freeze, bspDone, parkedEvt, ie, sig, parked, regs, since,
                   blkVars, coordVars, wd, upset>>

(* The guest writes DRIVER_OK: the vCPU thread spawns the worker.  A spawn
   while a cycle is under way is a disturbance. *)
DriverOk(v) ==
    /\ pc[v] = "exit" /\ wk = "none"
    /\ InCycle => "spawn" \in Upsets
    /\ wk' = "start"
    /\ upset' = IF InCycle THEN upset \cup {<<"spawn", cycle>>} ELSE upset
    /\ pc' = [pc EXCEPT ![v] = "top"]
    /\ UNCHANGED <<kill, freeze, bspDone, parkedEvt, ie, sig, parked, regs,
                   since, paused, pauseEvt, coordVars, wd>>

(* The drain dance (immediate_exit := 1, KVM_RUN, immediate_exit := 0), then
   the registers go into the slot. *)
DrainAndCapture(v) ==
    /\ pc[v] = "drain"
    /\ ie' = [ie EXCEPT ![v] = IF HasImmediateExit THEN FALSE ELSE @]
    /\ regs' = [regs EXCEPT ![v] = since[v]]
    /\ pc' = [pc EXCEPT ![v] = "park"]
    /\ UNCHANGED <<kill, freeze, bspDone, parkedEvt, sig, parked, since,
                   blkVars, coordVars, wd, upset>>

Park(v) ==
    /\ pc[v] = "park"
    /\ parked' = [parked EXCEPT ![v] = TRUE]
    /\ pc' = [pc EXCEPT ![v] = "ack"]
    /\ UNCHANGED <<kill, freeze, bspDone, parkedEvt, ie, sig, regs, since,
                   blkVars, coordVars, wd, upset>>

Ack(v) ==
    /\ pc[v] = "ack"
    /\ parkedEvt' = parkedEvt + 1
    /\ pc' = [pc EXCEPT ![v] = "wait"]
    /\ UNCHANGED <<kill, freeze, bspDone, ie, sig, parked, regs, since,
                   blkVars, coordVars, wd, upset>>

(* The park loop ends; the caller checks kill and then goes on to KVM_RUN
   without looking at freeze again. *)
Unpark(v) ==
    /\ pc[v] = "wait"
    /\ ~freeze \/ kill
    /\ parked' = [parked EXCEPT ![v] = FALSE]
    /\ pc' = [pc EXCEPT ![v] = IF kill THEN Leave(v) ELSE "enter"]
    /\ since' = [since EXCEPT ![v] = 0]
    /\ UNCHANGED <<kill, freeze, bspDone, parkedEvt, ie, sig, regs, blkVars,
                    coordVars, wd, upset>>

---------------------------------------------------------------------------
(* The virtio-blk worker: worker_thread_main.                              *)

WorkerStart ==
    /\ wk = "start"
    /\ wk' = "idle" /\ paused' = FALSE
    /\ UNCHANGED <<kill, freeze, bspDone, parkedEvt, vcpuVars, pauseEvt,
                   coordVars, wd, upset>>

(* A kick is pending, or the throttle retry timer has fired: either may be so
   whenever the worker polls. *)
WorkerDrain ==
    /\ wk = "idle"
    /\ wk' = "io"
    /\ UNCHANGED <<kill, freeze, bspDone, parkedEvt, vcpuVars, paused,
                   pauseEvt, coordVars, wd, upset>>

WorkerDrained ==
    /\ wk = "io"
    /\ wk' = "idle"
    /\ UNCHANGED <<kill, freeze, bspDone, parkedEvt, vcpuVars, paused,
                   pauseEvt, coordVars, wd, upset>>

WorkerPause ==
    /\ wk = "idle" /\ pauseEvt
    /\ wk' = "ack" /\ pauseEvt' = FALSE /\ paused' = TRUE
    /\ UNCHANGED <<kill, freeze, bspDone, parkedEvt, vcpuVars,
                   coordVars, wd, upset>>

WorkerAck ==
    /\ wk = "ack"
    /\ wk' = "wait" /\ parkedEvt' = parkedEvt + 1
    /\ UNCHANGED <<kill, freeze, bspDone, vcpuVars, paused, pauseEvt,
                   coordVars, wd, upset>>

WorkerUnpark ==
    /\ wk = "wait" /\ ~paused
    /\ wk' = "idle"
    /\ UNCHANGED <<kill, freeze, bspDone, parkedEvt, vcpuVars, paused,
                   pauseEvt, coordVars, wd, upset>>

---------------------------------------------------------------------------
(* The coordinator thread: the 'coord loop, freeze_and_capture and         *)
(* thaw_and_barrier.                                                       *)

(* The loop condition; with kill up it loads bsp_done twice. *)
CoordLoop ==
    /\ cpc = "loop"
    /\ cpc' = IF ~kill \/ (bspDone /\ ~finalBsp) THEN "head" ELSE "retest"
    /\ UNCHANGED <<kill, freeze, bspDone, parkedEvt, vcpuVars, blkVars, cycle,
                   waitVars, finalBsp, finalKill, wd, upset>>

CoordRetest ==
    /\ cpc = "retest"
    /\ cpc' = IF ~bspDone /\ ~finalKill THEN "head" ELSE "done"
    /\ UNCHANGED <<kill, freeze, bspDone, parkedEvt, vcpuVars, blkVars, cycle,
                   waitVars, finalBsp, finalKill, wd, upset>>

(* The two one-shot final passes.  Captures deferred until the accessor is
   there may keep the loop alive after the pass for the BSP. *)
CoordHead ==
    /\ cpc = "head"
    /\ \E deferred \in BOOLEAN :
          cpc' = IF \/ bspDone /\ finalBsp /\ ~deferred
                    \/ ~bspDone /\ kill /\ finalKill
                 THEN "done" ELSE "body"
    /\ finalBsp' = (finalBsp \/ bspDone)
    /\ finalKill' = (finalKill \/ (~bspDone /\ kill))
    /\ UNCHANGED <<kill, freeze, bspDone, parkedEvt, vcpuVars, blkVars, cycle,
                   waitVars, wd, upset>>

(* One pass of the loop body captures any number of times: on-demand
   requests, periodic boundaries, user watchpoints, early and late trigger. *)
CoordCapture ==
    /\ cpc = "body" /\ cycle < MaxCycles
    /\ cpc' = "drain"
    /\ UNCHANGED <<kill, freeze, bspDone, parkedEvt, vcpuVars, blkVars, cycle,
                   waitVars, finalBsp, finalKill, wd, upset>>

(* A SCHED_EXIT message, or the end of a late capture, sets kill. *)
CoordKill ==
    /\ cpc = "body"
    /\ kill' = TRUE
    /\ UNCHANGED <<freeze, bspDone, parkedEvt, vcpuVars, blkVars, coordVars,
                   wd, upset>>

CoordNext ==
    /\ cpc = "body"
    /\ cpc' = "loop"
    /\ UNCHANGED <<kill, freeze, bspDone, parkedEvt, vcpuVars, blkVars, cycle,
                   waitVars, finalBsp, finalKill, wd, upset>>

(* Mutant of FcDrain: the register slots keep what they hold. *)
FcDrainKeepsRegs ==
    /\ cpc = "drain"
    /\ wk = "start" => "spawn" \in Upsets
    /\ cpc' = "seed"
    /\ cycle' = cycle + 1
    /\ parkedEvt' = 0
    /\ wrun' = (wk # "absent" /\ ~paused)
    /\ upset' = IF wk = "start" THEN upset \cup {<<"spawn", cycle + 1>>} ELSE upset
    /\ UNCHANGED <<kill, freeze, bspDone, vcpuVars, blkVars, count, expected,
                   dropped, allParked, finalBsp, finalKill, wd>>

(* Entry: drain parked_evt, clear the register slots, sample the worker.
   Sampling a worker that is spawned but not running yet is a disturbance. *)
FcDrain ==
    /\ cpc = "drain"
    /\ wk = "start" => "spawn" \in Upsets
    /\ cpc' = "seed"
    /\ cycle' = cycle + 1
    /\ parkedEvt' = 0
    /\ regs' = [v \in Vcpus |-> 0]
    /\ wrun' = (wk # "absent" /\ ~paused)
    /\ upset' = IF wk = "start" THEN upset \cup {<<"spawn", cycle + 1>>} ELSE upset
    /\ UNCHANGED <<kill, freeze, bspDone, pc, ie, sig, parked, since, blkVars,
                   count, expected, dropped, allParked, finalBsp, finalKill,
                   wd>>

(* Parkers whose flag is still set are credited in advance. *)
StillParked == Cardinality({v \in Vcpus : parked[v]})
                 + IF wrun /\ paused THEN 1 ELSE 0

(* Mutant of FcSeed: the credit is taken from the counter. *)
FcSeedDebits ==
    /\ cpc = "seed"
    /\ cpc' = "freeze"
    /\ parkedEvt' = parkedEvt - StillParked
    /\ UNCHANGED <<kill, freeze, bspDone, vcpuVars, blkVars, cycle, waitVars,
                   finalBsp, finalKill, wd, upset>>

FcSeed ==
    /\ cpc = "seed"
    /\ cpc' = "freeze"
    /\ parkedEvt' = parkedEvt + StillParked
    /\ UNCHANGED <<kill, freeze, bspDone, vcpuVars, blkVars, cycle, waitVars,
                   finalBsp, finalKill, wd, upset>>

(* freeze goes up, then pass 0: VirtioBlk::pause. *)
FcFreeze ==
    /\ cpc = "freeze"
    /\ cpc' = "ie"
    /\ freeze' = TRUE
    /\ pauseEvt' = (pauseEvt \/ WorkerAlive)
    /\ UNCHANGED <<kill, bspDone, parkedEvt, vcpuVars, wk, paused, cycle,
                   waitVars, finalBsp, finalKill, wd, upset>>

(* Mutant of FcImmediateExit: the BSP gets the signal only. *)
FcImmediateExitNoBsp ==
    /\ cpc = "ie"
    /\ cpc' = "signal"
    /\ ie' = [v \in Vcpus |-> ie[v] \/ (HasImmediateExit /\ v \in APs)]
    /\ UNCHANGED <<kill, freeze, bspDone, parkedEvt, pc, sig, parked, regs,
                   since, blkVars, cycle, waitVars, finalBsp, finalKill, wd,
                   upset>>

(* Pass 1: immediate_exit on every vCPU. *)
FcImmediateExit ==
    /\ cpc = "ie"
    /\ cpc' = "signal"
    /\ ie' = [v \in Vcpus |-> ie[v] \/ HasImmediateExit]
    /\ UNCHANGED <<kill, freeze, bspDone, parkedEvt, pc, sig, parked, regs,
                   since, blkVars, cycle, waitVars, finalBsp, finalKill, wd,
                   upset>>

(* Mutant of FcSignal: the BSP is not expected. *)
FcSignalNoBsp ==
    /\ cpc = "signal"
    /\ cpc' = "rendezvous"
    /\ sig' = Signalled(Vcpus)
    /\ count' = 0 /\ allParked' = FALSE /\ dropped' = FALSE
    /\ expected' = Cardinality(APs) + IF wrun THEN 1 ELSE 0
    /\ UNCHANGED <<kill, freeze, bspDone, parkedEvt, pc, ie, parked, regs,
                   since, blkVars, cycle, wrun, finalBsp, finalKill, wd,
                   upset>>

(* Pass 2: SIGRTMIN to every vCPU; the rendezvous loop is set up. *)
FcSignal ==
    /\ cpc = "signal"
    /\ cpc' = "rendezvous"
    /\ sig' = Signalled(Vcpus)
    /\ count' = 0 /\ allParked' = FALSE /\ dropped' = FALSE
    /\ expected' = Cardinality(APs) + 1 + IF wrun THEN 1 ELSE 0
    /\ UNCHANGED <<kill, freeze, bspDone, parkedEvt, pc, ie, parked, regs,
                   since, blkVars, cycle, wrun, finalBsp, finalKill, wd,
                   upset>>

(* The rendezvous loop leaves when the BSP is done, when enough acks are in,
   or when kill is set, tested in this order. *)
FcLeave ==
    /\ cpc = "rendezvous"
    /\ bspDone \/ count >= expected \/ kill
    /\ cpc' = "collect"
    /\ allParked' = (~bspDone /\ count >= expected)
    /\ UNCHANGED <<kill, freeze, bspDone, parkedEvt, vcpuVars, blkVars, cycle,
                   count, expected, wrun, dropped, finalBsp, finalKill, wd,
                   upset>>

(* Still short of acks, the loop drains the eventfd into its count. *)
FcPoll ==
    /\ cpc = "rendezvous"
    /\ ~bspDone /\ count < expected /\ ~kill
    /\ parkedEvt > 0
    /\ count' = count + parkedEvt /\ parkedEvt' = 0
    /\ UNCHANGED <<kill, freeze, bspDone, vcpuVars, blkVars, cpc, cycle,
                   expected, wrun, dropped, allParked, finalBsp, finalKill,
                   wd, upset>>

(* One second without the worker's flag: stop expecting its ack. *)
FcDropWorker ==
    /\ "workerDrop" \in Upsets
    /\ cpc = "rendezvous"
    /\ ~bspDone /\ count < expected /\ ~kill
    /\ wrun /\ ~dropped /\ ~paused
    /\ expected' = expected - 1 /\ dropped' = TRUE
    /\ allParked' = (count >= expected - 1)
    /\ cpc' = IF count >= expected - 1 THEN "collect" ELSE "rendezvous"
    /\ upset' = upset \cup {<<"workerDrop", cycle>>}
    /\ UNCHANGED <<kill, freeze, bspDone, parkedEvt, vcpuVars, blkVars, cycle,
                   count, wrun, finalBsp, finalKill, wd>>

(* FREEZE_RENDEZVOUS_TIMEOUT passes. *)
FcTimeout ==
    /\ "deadline" \in Upsets
    /\ cpc = "rendezvous"
    /\ ~bspDone /\ count < expected /\ ~kill
    /\ cpc' = "collect"
    /\ upset' = upset \cup {<<"deadline", cycle>>}
    /\ UNCHANGED <<kill, freeze, bspDone, parkedEvt, vcpuVars, blkVars, cycle,
                   waitVars, finalBsp, finalKill, wd>>

(* Full dump, or the Degraded report of the collected registers.  After the
   BSP is done the dump goes ahead without the acks. *)
FcCollect ==
    /\ cpc = "collect"
    /\ cpc' = IF allParked \/ bspDone THEN "capture" ELSE "thaw"
    /\ UNCHANGED <<kill, freeze, bspDone, parkedEvt, vcpuVars, blkVars, cycle,
                   waitVars, finalBsp, finalKill, wd, upset>>

(* The dump reads guest memory while cpc = "capture". *)
FcCapture ==
    /\ cpc = "capture"
    /\ cpc' = "thaw"
    /\ UNCHANGED <<kill, freeze, bspDone, parkedEvt, vcpuVars, blkVars, cycle,
                   waitVars, finalBsp, finalKill, wd, upset>>

(* The locals of freeze_and_capture go out of scope with it. *)
WaitReset == /\ count' = 0 /\ expected' = 0
             /\ wrun' = FALSE /\ dropped' = FALSE /\ allParked' = FALSE

(* Mutant of Thaw: only the worker is released. *)
ThawWorkerOnly ==
    /\ cpc = "thaw"
    /\ paused' = (wk = "none")
    /\ cpc' = IF bspDone THEN "body" ELSE "barrier"
    /\ WaitReset
    /\ UNCHANGED <<kill, freeze, bspDone, parkedEvt, vcpuVars, wk, pauseEvt,
                   cycle, finalBsp, finalKill, wd, upset>>

(* thaw_and_barrier up to its barrier: VirtioBlk::resume, which arms the flag
   again when there is no live worker, and then freeze goes down. *)
Thaw ==
    /\ cpc = "thaw"
    /\ paused' = (wk = "none")
    /\ freeze' = FALSE
    /\ cpc' = IF bspDone THEN "body" ELSE "barrier"
    /\ WaitReset
    /\ UNCHANGED <<kill, bspDone, parkedEvt, vcpuVars, wk, pauseEvt, cycle,
                   finalBsp, finalKill, wd, upset>>

(* Every flag clear, as the post-thaw barrier reads it. *)
AllUnparked == (\A v \in Vcpus : ~parked[v]) /\ (wk # "absent" => ~paused)

ThawBarrier ==
    /\ cpc = "barrier"
    /\ kill \/ bspDone \/ AllUnparked
    /\ cpc' = "body" /\ parkedEvt' = 0
    /\ UNCHANGED <<kill, freeze, bspDone, vcpuVars, blkVars, cycle, waitVars,
                   finalBsp, finalKill, wd, upset>>

BarrierTimeout ==
    /\ "deadline" \in Upsets
    /\ cpc = "barrier"
    /\ ~(kill \/ bspDone \/ AllUnparked)
    /\ cpc' = "body" /\ parkedEvt' = 0
    /\ upset' = upset \cup {<<"deadline", cycle>>}
    /\ UNCHANGED <<kill, freeze, bspDone, vcpuVars, blkVars, cycle, waitVars,
                   finalBsp, finalKill, wd>>

---------------------------------------------------------------------------
(* The watchdog thread and the teardown by the BSP thread.                 *)

(* Mutant of WatchdogFire: kill is raised, the BSP is not kicked. *)
WatchdogFireNoKick ==
    /\ wd = "run" /\ ~bspDone
    /\ wd' = "done"
    /\ kill' = TRUE
    /\ UNCHANGED <<freeze, bspDone, parkedEvt, vcpuVars, blkVars, coordVars,
                   upset>>

(* Raises kill itself on its deadline, or follows it; kicks the BSP once. *)
WatchdogFire ==
    /\ wd = "run" /\ ~bspDone
    /\ wd' = "done"
    /\ kill' = TRUE
    /\ ie' = [ie EXCEPT ![BSP] = @ \/ HasImmediateExit]
    /\ sig' = Signalled({BSP})
    /\ UNCHANGED <<freeze, bspDone, parkedEvt, pc, parked, regs, since,
                   blkVars, coordVars, upset>>

WatchdogReturn ==
    /\ wd = "run" /\ bspDone
    /\ wd' = "done"
    /\ UNCHANGED <<kill, freeze, bspDone, parkedEvt, vcpuVars, blkVars,
                   coordVars, upset>>

BspDone ==
    /\ pc[BSP] = "out"
    /\ pc' = [pc EXCEPT ![BSP] = "outKill"]
    /\ bspDone' = TRUE
    /\ UNCHANGED <<kill, freeze, parkedEvt, ie, sig, parked, regs, since,
                   blkVars, coordVars, wd, upset>>

BspKill ==
    /\ pc[BSP] = "outKill"
    /\ pc' = [pc EXCEPT ![BSP] = "outJoin"]
    /\ kill' = TRUE
    /\ UNCHANGED <<freeze, bspDone, parkedEvt, ie, sig, parked, regs, since,
                   blkVars, coordVars, wd, upset>>

(* VcpuThread::kick on every AP that has not exited. *)
KickAPs ==
    LET live == {v \in APs : pc[v] # "exited"}
    IN  /\ ie' = [v \in Vcpus |-> ie[v] \/ (v \in live /\ HasImmediateExit)]
        /\ sig' = Signalled(live)

(* collect_results, after watchdog and coordinator are joined. *)
CollectKick ==
    /\ pc[BSP] = "outJoin" /\ wd = "done" /\ cpc = "done"
    /\ pc' = [pc EXCEPT ![BSP] = "reap"]
    /\ kill' = TRUE /\ freeze' = FALSE
    /\ KickAPs
    /\ UNCHANGED <<bspDone, parkedEvt, parked, regs, since, blkVars,
                   coordVars, wd, upset>>

(* Each AP exit wakes the wait, which kicks the remaining APs again. *)
CollectRekick ==
    /\ pc[BSP] = "reap"
    /\ \E v \in APs : pc[v] = "exited"
    /\ \E v \in APs : pc[v] # "exited"
    /\ KickAPs
    /\ UNCHANGED <<kill, freeze, bspDone, parkedEvt, pc, parked, regs, since,
                   blkVars, coordVars, wd, upset>>

JoinAPs ==
    /\ pc[BSP] = "reap"
    /\ \A v \in APs : pc[v] = "exited"
    /\ pc' = [pc EXCEPT ![BSP] = "joined"]
    /\ UNCHANGED <<kill, freeze, bspDone, parkedEvt, ie, sig, parked, regs,
                   since, blkVars, coordVars, wd, upset>>

(* run_vm has returned its result. *)
Finished == pc[BSP] = "joined" /\ UNCHANGED vars

---------------------------------------------------------------------------
VcpuStep(v) == \/ LoopHead(v) \/ Enter(v) \/ Interrupt(v) \/ Eintr(v)
               \/ DrainAndCapture(v) \/ Park(v) \/ Ack(v) \/ Unpark(v)
ExitStep(v) == Dispatch(v) \/ Stop(v) \/ DriverOk(v)
WorkerStep == \/ WorkerStart \/ WorkerDrain \/ WorkerDrained
              \/ WorkerPause \/ WorkerAck \/ WorkerUnpark
FreezeStep == \/ FcDrain \/ FcSeed \/ FcFreeze
              \/ FcImmediateExit \/ FcSignal \/ FcLeave \/ FcPoll
              \/ FcDropWorker \/ FcTimeout \/ FcCollect \/ FcCapture
ThawStep == Thaw \/ ThawBarrier \/ BarrierTimeout
LoopStep == CoordLoop \/ CoordRetest \/ CoordHead
CoordStep == LoopStep \/ CoordNext \/ FreezeStep \/ ThawStep
TeardownStep == \/ WatchdogReturn \/ BspDone \/ BspKill
                \/ CollectKick \/ JoinAPs

Next == \/ \E v \in Vcpus : VcpuStep(v) \/ ExitStep(v) \/ GuestExit(v)
        \/ WorkerStep
        \/ CoordStep \/ CoordCapture \/ CoordKill
        \/ TeardownStep \/ WatchdogFire \/ CollectRekick
        \/ Finished

Spec == Init /\ [][Next]_vars

(* Every thread is scheduled by the host, so each runs on when it can; the
   deadlines pass.  The guest need never exit by itself, nobody need ask for
   a capture or raise kill, and the watchdog must act only once kill is up. *)
Fairness ==
    /\ \A v \in Vcpus : WF_vars(VcpuStep(v)) /\ WF_vars(ExitStep(v))
    /\ \A v \in Vcpus : WF_vars(Interrupt(v))
    /\ WF_vars(WorkerStep) /\ WF_vars(WorkerPause)
    /\ WF_vars(CoordStep)
    /\ WF_vars(TeardownStep)
    /\ WF_vars(kill /\ WatchdogFire)

FairSpec == Spec /\ Fairness

---------------------------------------------------------------------------
(* The host may read guest memory: every vCPU thread is in its park loop, or
   has left its run loop for good, and no worker is running. *)
Quiesced ==
    /\ \A v \in Vcpus : pc[v] \in {"wait", "exited"} \cup OutPcs
    /\ wk \in {"absent", "none", "wait"}

(* When freeze_and_capture dumps because enough acks came in, and none of the
   disturbances has ever happened, nothing mutates guest memory under the
   dump: the count of anonymous acks stands for the set of parkers. *)
QuiescedCapture ==
    cpc = "capture" /\ allParked /\ upset = {} => Quiesced

(* The same promise with its interval: the rendezvous implements StopTheWorld.
   A party runs unless it is in its park loop or its thread has ended, and a
   dump counts as long as nothing has disturbed a freeze. *)
Gone == {v \in Vcpus : pc[v] \in {"exited"} \cup OutPcs}
Running ==
    {v \in Vcpus : pc[v] \notin {"wait", "exited"} \cup OutPcs}
      \cup (IF wk \in {"absent", "none", "wait"} THEN {} ELSE {"worker"})
Reading == cpc = "capture" /\ allParked /\ upset = {}

World == INSTANCE StopTheWorld
            WITH Parties <- Vcpus \cup {"worker"}, running <- Running,
                 gone <- Gone, reading <- Reading

(* From the first read of an undisturbed full dump to its last no vCPU and no
   worker runs, is started or is released, and no thread comes back once it
   has ended (freeze_and_capture with thaw_and_barrier, handle_freeze, the
   worker's pause). *)
StopsTheWorld == World!Spec

(* From pass 1 to the thaw no vCPU slips into the guest past its kick: one
   about to enter finds immediate_exit set, and after pass 2 one in the guest
   has its signal pending.  It holds whatever has timed out before. *)
KickedPcs == {"signal", "rendezvous", "collect", "capture", "thaw"}
KickNotLost ==
    HasImmediateExit /\ cpc \in KickedPcs =>
        \A v \in Vcpus : /\ pc[v] = "enter" => ie[v]
                         /\ pc[v] = "guest" /\ cpc # "signal" => sig[v]

(* Teardown leaves no vCPU behind in the guest: the BSP after the watchdog has
   kicked it, once, and the APs after collect_results has, find immediate_exit
   set on their way in and their signal pending inside.  No freeze in between,
   whose drain dance clears immediate_exit, uses the kick up for good. *)
KillNotLost ==
    HasImmediateExit =>
        \A v \in Vcpus :
            (IF v = BSP THEN wd = "done" ELSE pc[BSP] = "reap") =>
                /\ pc[v] = "enter" => ie[v]
                /\ pc[v] = "guest" => sig[v]

(* As long as no earlier freeze was disturbed and teardown has not begun, the
   registers a report collects, also the Degraded one of a rendezvous that
   ran out of time, were captured for this freeze (None for a vCPU that did
   not park); an undisturbed full dump has them all. *)
RegsOfThisCycle ==
    cpc \in {"collect", "capture"} =>
        \A v \in Vcpus :
            /\ (\A u \in upset : u[2] = cycle) /\ ~kill /\ ~bspDone
                   => regs[v] \in {0, cycle}
            /\ upset = {} /\ allParked => regs[v] = cycle

(* Once kill is raised, by anybody and at any point of a freeze, the BSP
   leaves its loop, watchdog, coordinator and APs stop, and run_vm returns. *)
TeardownCompletes == kill ~> pc[BSP] = "joined"

(* A vCPU that entered handle_freeze leaves it again: every freeze is thawed,
   also one cut short by a timeout, by kill or by the end of the BSP. *)
FrozenIsReleased ==
    \A v \in Vcpus : pc[v] \in FreezePcs ~> pc[v] \notin FreezePcs
============================================================================
