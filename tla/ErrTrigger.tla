----------------------------- MODULE ErrTrigger -----------------------------
(***************************************************************************)
(* From a scheduler's error exit in the guest to the failure dump.  Slot 0 *)
(* of WatchpointArm watches exit_kind of the scheduler at *scx_root; a     *)
(* probe in the guest latches ktstr_err_exit_detected in its .bss.  The    *)
(* freeze coordinator follows *scx_root with the slot, tests both signs,   *)
(* captures early (dual snapshot) and late, and passes a late capture that *)
(* only the watchpoint asked for through the exit_kind gate.               *)
(*                                                                         *)
(* The freeze is taken from StopTheWorld.  The guest kernel writes         *)
(* exit_kind twice for one exit: the kind, then SCX_EXIT_DONE; the probe   *)
(* runs in between.  A kind is below SCX_EXIT_ERROR or not; memory of a    *)
(* detached scheduler keeps its last value.                                *)
(***************************************************************************)
EXTENDS Naturals, FiniteSets

CONSTANTS
    Vcpus,     \* the vCPU threads
    Bsp,       \* the one that run_vm's own thread runs
    Scheds,    \* schedulers the guest attaches, one after the other
    Nil,       \* null
    Configs,   \* the configurations a run may have
    MaxFail,   \* bound on file writes that fail
    MaxEintr   \* bound on epoll_wait calls that are interrupted

ASSUME TriggerAssumption ==
    /\ IsFiniteSet(Vcpus) /\ Bsp \in Vcpus
    /\ IsFiniteSet(Scheds) /\ Nil \notin Scheds
    /\ Configs \subseteq [dual : BOOLEAN, path : BOOLEAN, probe : BOOLEAN]
    /\ MaxFail \in Nat /\ MaxEintr \in Nat

VARIABLES
    g,         \* per scheduler: where the guest kernel is with it
    root,      \* *scx_root
    bss,       \* ktstr_err_exit_detected
    erred,     \* schedulers that took an error exit (history)
    dr0,       \* per vCPU: what its DR0 watches
    vt,        \* per vCPU: where it is with a trap of DR0
    request,   \* request_kva of slot 0
    ptr,       \* kind_host_ptr
    hit,       \* hit of slot 0
    last,      \* last_sched_kva, and with it cached_exit_kind_pa
    bssPa,     \* cached_bss_pa is Some
    fs,        \* freeze_state
    cpc,       \* where the coordinator is
    tick,      \* scan_tick
    trig,      \* err_triggered
    only,      \* watchpoint_only_trigger
    late,      \* what the late capture came to
    early,     \* where the early snapshot is
    took,      \* an early snapshot was captured (history)
    cfg,       \* dual_snapshot, dump_path, and whether the probe is loaded
    kill, bspDone, bspFinal, final,
    cut,       \* an epoll error or a panic cut a pass short (history)
    fails, eintrs

guestVars == <<g, root, bss, erred>>
slotVars  == <<request, ptr, last>>
passVars  == <<bspFinal, final, cut, eintrs>>
earlyVars == <<early, took, fails>>
endVars   == <<kill, bspDone>>
vars == <<guestVars, dr0, vt, hit, slotVars, bssPa, fs, cpc, tick, trig, only,
          late, earlyVars, cfg, endVars, passVars>>

(* exit_kind is at or above SCX_EXIT_ERROR. *)
ErrorKind(x) == g[x] \in {"erred", "probed"}

(* Not captured, in the guard, in the report that is being emitted, in a file,
   in a write that failed in the drain, gone with the report. *)
EarlyPlaces == {"none", "held", "taken", "out", "tried", "lost"}

(* Every variable has its type. *)
TypeOK ==
    /\ g \in [Scheds -> {"new", "on", "erred", "probed", "done", "gone"}]
    /\ root \in Scheds \cup {Nil} /\ bss \in BOOLEAN /\ erred \subseteq Scheds
    /\ dr0 \in [Vcpus -> Scheds \cup {Nil}]
    /\ vt \in [Vcpus -> {"run", "trap", "latch"}]
    /\ request \in Scheds \cup {Nil} /\ ptr \in Scheds \cup {Nil}
    /\ last \in Scheds \cup {Nil} /\ hit \in BOOLEAN /\ bssPa \in BOOLEAN
    /\ fs \in {"Idle", "TookEarly", "Done"}
    /\ cpc \in {"idle", "disarm", "publish", "eval", "early", "late", "gate",
                "emit", "drain", "exited"}
    /\ tick \in BOOLEAN /\ trig \in BOOLEAN /\ only \in BOOLEAN
    /\ late \in {"none", "captured", "degraded", "suppressed"}
    /\ early \in (IF cfg.dual THEN EarlyPlaces ELSE {"none"})
    /\ took \in BOOLEAN
    /\ cfg \in Configs
    /\ kill \in BOOLEAN /\ bspDone \in BOOLEAN
    /\ bspFinal \in BOOLEAN /\ final \in BOOLEAN /\ cut \in BOOLEAN
    /\ fails \in 0..MaxFail /\ eintrs \in 0..MaxEintr

Init ==
    /\ g = [x \in Scheds |-> "new"] /\ root = Nil /\ bss = FALSE /\ erred = {}
    /\ dr0 = [v \in Vcpus |-> Nil] /\ vt = [v \in Vcpus |-> "run"]
    /\ request = Nil /\ ptr = Nil /\ last = Nil /\ hit = FALSE
    /\ bssPa = FALSE
    /\ fs = "Idle" /\ cpc = "idle" /\ tick = FALSE
    /\ trig = FALSE /\ only = FALSE
    /\ late = "none" /\ early = "none" /\ took = FALSE
    /\ cfg \in Configs
    /\ kill = FALSE /\ bspDone = FALSE
    /\ bspFinal = FALSE /\ final = FALSE /\ cut = FALSE
    /\ fails = 0 /\ eintrs = 0

---------------------------------------------------------------------------
(* The guest kernel, which a full freeze stops; vCPU v does the writing.   *)

Frozen == cpc = "gate" /\ ~bspDone
Runs(v) == vt[v] = "run" /\ ~Frozen /\ (v = Bsp => ~bspDone)

(* A write to exit_kind of x traps on a vCPU whose DR0 watches it. *)
Wrote(v, x) ==
    vt' = [vt EXCEPT ![v] = IF dr0[v] = x THEN "trap" ELSE @]

GuestFrame ==
    UNCHANGED <<dr0, slotVars, hit, bssPa, fs, cpc, tick, trig, only, late,
                earlyVars, cfg, endVars, passVars>>

Attach(v, x) ==
    /\ Runs(v) /\ root = Nil /\ g[x] = "new"
    /\ root' = x
    /\ g' = [g EXCEPT ![x] = "on"]
    /\ UNCHANGED <<bss, erred, vt>> /\ GuestFrame

ErrorExit(v, x) ==
    /\ Runs(v) /\ g[x] = "on"
    /\ g' = [g EXCEPT ![x] = "erred"]
    /\ erred' = erred \cup {x}
    /\ Wrote(v, x)
    /\ UNCHANGED <<root, bss>> /\ GuestFrame

Probe(v, x) ==
    /\ Runs(v) /\ g[x] = "erred"
    /\ g' = [g EXCEPT ![x] = "probed"]
    /\ bss' = (bss \/ cfg.probe)
    /\ UNCHANGED <<root, erred, vt>> /\ GuestFrame

(* SCX_EXIT_DONE, after an error or an orderly unregistration. *)
ExitDone(v, x) ==
    /\ Runs(v) /\ g[x] \in {"on", "probed"}
    /\ g' = [g EXCEPT ![x] = "done"]
    /\ Wrote(v, x)
    /\ UNCHANGED <<root, bss, erred>> /\ GuestFrame

Detach(v, x) ==
    /\ Runs(v) /\ g[x] = "done"
    /\ g' = [g EXCEPT ![x] = "gone"]
    /\ root' = Nil
    /\ UNCHANGED <<bss, erred, vt>> /\ GuestFrame

GuestStep(v) ==
    \E x \in Scheds : \/ Attach(v, x) \/ ErrorExit(v, x) \/ Probe(v, x)
                      \/ ExitDone(v, x) \/ Detach(v, x)

---------------------------------------------------------------------------
(* A vCPU thread.  Nothing kicks it when slot 0 changes: it arms whenever  *)
(* it next leaves KVM_RUN.                                                 *)

VcpuFrame ==
    UNCHANGED <<guestVars, slotVars, bssPa, fs, cpc, tick, trig, only, late,
                earlyVars, cfg, endVars, passVars>>

SelfArm(v) ==
    /\ Runs(v) /\ dr0[v] # request
    /\ dr0' = [dr0 EXCEPT ![v] = request]
    /\ UNCHANGED <<vt, hit>> /\ VcpuFrame

(* latch_slot0_with_gate: the pointer, the kind behind it, then latch_hit. *)
ReadKindAlways(v) ==
    /\ vt[v] = "trap"
    /\ vt' = [vt EXCEPT ![v] = IF ptr # Nil THEN "latch" ELSE "run"]
    /\ UNCHANGED <<dr0, hit>> /\ VcpuFrame

ReadKind(v) ==
    /\ vt[v] = "trap"
    /\ vt' = [vt EXCEPT ![v] = IF ptr # Nil /\ ErrorKind(ptr)
                                 THEN "latch" ELSE "run"]
    /\ UNCHANGED <<dr0, hit>> /\ VcpuFrame

LatchHit(v) ==
    /\ vt[v] = "latch"
    /\ hit' = TRUE
    /\ vt' = [vt EXCEPT ![v] = "run"]
    /\ UNCHANGED dr0 /\ VcpuFrame

VcpuStep(v) == SelfArm(v) \/ ReadKind(v) \/ LatchHit(v)

---------------------------------------------------------------------------
(* What ends a run.                                                        *)

EndFrame ==
    UNCHANGED <<guestVars, dr0, vt, hit, slotVars, bssPa, fs, cpc, tick, trig,
                only, late, earlyVars, cfg, passVars>>

Kill ==
    /\ ~kill
    /\ kill' = TRUE
    /\ UNCHANGED bspDone /\ EndFrame

(* The BSP leaves its loop, for kill or because the guest has shut down. *)
BspDone ==
    /\ ~bspDone /\ Runs(Bsp)
    /\ bspDone' = TRUE
    /\ UNCHANGED kill /\ EndFrame

---------------------------------------------------------------------------
(* The freeze coordinator.                                                 *)

(* A variant of LoopEnds without the final passes. *)
LoopEndsAtOnce == kill \/ bspDone

(* The condition of the loop, and its break: kill and the end of the BSP each
   grant one more pass. *)
LoopEnds ==
    \/ kill /\ (IF bspDone THEN bspFinal ELSE final)
    \/ bspDone /\ bspFinal

FinalPass ==
    /\ bspFinal' = (bspFinal \/ bspDone)
    /\ final' = (final \/ (kill /\ ~bspDone))

IterFrame ==
    UNCHANGED <<guestVars, dr0, vt, hit, slotVars, fs, trig, only, late,
                earlyVars, cfg, endVars>>

(* A pass: after the timer, or on any other event without it; a final pass
   counts as the timer's.  With it the probe's .bss may be found. *)
Iterate ==
    /\ cpc = "idle" /\ ~LoopEnds
    /\ FinalPass
    /\ tick' \in {TRUE, bspFinal' \/ final'}
    /\ bssPa' \in {bssPa, bssPa \/ (tick' /\ cfg.probe)}
    /\ cpc' = IF tick' THEN "publish" ELSE "eval"
    /\ UNCHANGED <<cut, eintrs>> /\ IterFrame

(* epoll_wait returns EINTR: back to the condition of the loop. *)
Interrupted ==
    /\ cpc = "idle" /\ ~LoopEnds /\ eintrs < MaxEintr
    /\ FinalPass
    /\ eintrs' = eintrs + 1
    /\ cut' = (cut \/ bspFinal' \/ final')
    /\ UNCHANGED <<cpc, tick, bssPa>> /\ IterFrame

(* epoll_wait fails in any other way. *)
EpollFails ==
    /\ cpc = "idle" /\ ~LoopEnds
    /\ FinalPass
    /\ cpc' = "drain" /\ cut' = TRUE
    /\ UNCHANGED <<tick, bssPa, eintrs>> /\ IterFrame

LeaveLoop ==
    /\ cpc = "idle" /\ LoopEnds
    /\ cpc' = "drain"
    /\ UNCHANGED <<tick, bssPa, passVars>> /\ IterFrame

(* republish_watchpoint_on_rebind and what the tick does with its result.
   Detached and RebindDisarmed clear the address, then the pointer; a new
   scheduler is published a tick later, pointer first, when exit_kind can be
   translated. *)
PubFrame ==
    UNCHANGED <<guestVars, dr0, vt, hit, bssPa, fs, tick, trig, only, late,
                earlyVars, cfg, endVars, passVars>>

Unchanged ==
    /\ cpc = "publish" /\ ptr = last
    /\ last = root \/ last = Nil  \* nothing new, or PublishDeferred
    /\ cpc' = "eval"
    /\ UNCHANGED slotVars /\ PubFrame

(* A variant of DisarmRequest that clears the pointer first. *)
DisarmRequestLast ==
    /\ cpc = "publish" /\ last # Nil /\ root # last
    /\ ptr' = Nil
    /\ cpc' = "disarm"
    /\ UNCHANGED <<request, last>> /\ PubFrame

DisarmRequest ==
    /\ cpc = "publish" /\ last # Nil /\ root # last
    /\ request' = Nil
    /\ cpc' = "disarm"
    /\ UNCHANGED <<ptr, last>> /\ PubFrame

DisarmPtr ==
    /\ cpc = "disarm"
    /\ ptr' = Nil /\ last' = Nil
    /\ cpc' = "eval"
    /\ UNCHANGED request /\ PubFrame

PublishPtr ==
    /\ cpc = "publish" /\ last = Nil /\ ptr = Nil /\ root # Nil
    /\ ptr' = root
    /\ UNCHANGED <<request, last, cpc>> /\ PubFrame

PublishRequest ==
    /\ cpc = "publish" /\ last = Nil /\ ptr # Nil
    /\ request' = ptr /\ last' = ptr
    /\ cpc' = "eval"
    /\ UNCHANGED ptr /\ PubFrame

BssTriggered == bssPa /\ bss

Polled ==
    \/ tick /\ last # Nil /\ ErrorKind(last)
    \/ /\ bspFinal \/ final
       /\ \E x \in Scheds :
            /\ x = (IF request # Nil THEN request ELSE root)
            /\ ErrorKind(x)

(* A variant of Evaluate that scans for stalls in every mode. *)
EvaluateScans ==
    /\ cpc = "eval"
    /\ trig' = (fs # "Done" /\ (hit \/ BssTriggered \/ Polled))
    /\ only' = (fs # "Done" /\ hit /\ ~BssTriggered)
    /\ cpc' = IF fs = "Done" THEN "idle"
              ELSE IF tick /\ fs = "Idle" THEN "early" ELSE "late"
    /\ UNCHANGED <<guestVars, dr0, vt, hit, slotVars, bssPa, fs, tick, late,
                   earlyVars, cfg, endVars, passVars>>

(* The signs, read once: hit, .bss, and the polls of exit_kind at a tick and
   on a final pass (there at what is published, or at *scx_root). *)
Evaluate ==
    /\ cpc = "eval"
    /\ trig' = (fs # "Done" /\ (hit \/ BssTriggered \/ Polled))
    /\ only' = (fs # "Done" /\ hit /\ ~BssTriggered)
    /\ cpc' = IF fs = "Done" THEN "idle"
              ELSE IF tick /\ fs = "Idle" /\ cfg.dual THEN "early" ELSE "late"
    /\ UNCHANGED <<guestVars, dr0, vt, hit, slotVars, bssPa, fs, tick, late,
                   earlyVars, cfg, endVars, passVars>>

CaptureFrame ==
    UNCHANGED <<guestVars, dr0, vt, slotVars, bssPa, tick, cfg, bspDone,
                bspFinal, final, eintrs>>

(* A full rendezvous: every vCPU has left the guest and its traps.  Once kill
   is up the rendezvous gives up at once, and once the BSP is done nothing is
   frozen and the guest is quiet. *)
CanFreeze == bspDone \/ (~kill /\ \A v \in Vcpus : vt[v] = "run")

(* The early trigger: a task has waited for half the watchdog's limit. *)
EarlyCapture ==
    /\ cpc = "early" /\ ~bspDone
    /\ \/ CanFreeze /\ early' = "held" /\ took' = TRUE
       \/ UNCHANGED <<early, took>>  \* degraded, to a file of its own
    /\ fs' = "TookEarly"
    /\ cpc' = "late"
    /\ UNCHANGED <<hit, trig, only, late, fails, kill, cut>> /\ CaptureFrame

NoEarly ==
    /\ cpc = "early"
    /\ cpc' = "late"
    /\ UNCHANGED <<hit, fs, trig, only, late, earlyVars, kill, cut>> /\ CaptureFrame

NoTrigger ==
    /\ cpc = "late" /\ ~trig
    /\ cpc' = "idle"
    /\ UNCHANGED <<hit, fs, trig, only, late, earlyVars, kill, cut>> /\ CaptureFrame

LateFreeze ==
    /\ cpc = "late" /\ trig /\ CanFreeze
    /\ cpc' = "gate"
    /\ UNCHANGED <<hit, fs, trig, only, late, earlyVars, kill, cut>> /\ CaptureFrame

(* A variant of WriteEarly that takes the snapshot before the write. *)
WriteEarlyTakes ==
    IF cfg.path /\ early = "held"
      THEN \/ early' = "out" /\ UNCHANGED fails
           \/ fails < MaxFail /\ fails' = fails + 1 /\ early' = "none"
      ELSE UNCHANGED <<early, fails>>

(* The early snapshot beside a late one that has no place for it: a file of
   its own, or kept for the drain if that cannot be written. *)
WriteEarly ==
    IF cfg.path /\ early = "held"
      THEN \/ early' = "out" /\ UNCHANGED fails
           \/ fails < MaxFail /\ fails' = fails + 1 /\ UNCHANGED early
      ELSE UNCHANGED <<early, fails>>

EndLate(o) ==
    /\ late' = o /\ fs' = "Done"
    /\ trig' = FALSE /\ only' = FALSE
    /\ cpc' = "idle"

LateDegraded ==
    /\ cpc = "late" /\ trig /\ ~bspDone
    /\ EndLate("degraded")
    /\ WriteEarly
    /\ kill' = TRUE
    /\ UNCHANGED <<hit, took, cut>> /\ CaptureFrame

(* The exit_kind gate: a capture that only the watchpoint asked for, with the
   kind below SCX_EXIT_ERROR, unless .bss tells of an error. *)
GateSuppresses ==
    only /\ request # Nil /\ ~ErrorKind(request) /\ ~BssTriggered

(* Captured: the vCPUs are thawed, and with dual_snapshot the report takes the
   early one out of the guard or, when the backstop finds that the stall was
   there, has a copy of the late one. *)
LateCaptured ==
    /\ cpc = "gate" /\ ~GateSuppresses
    /\ cpc' = "emit"
    /\ early' \in CASE early = "held" -> {"taken"}
                   [] early = "none" /\ cfg.dual -> {"none", "taken"}
                   [] OTHER -> {early}
    /\ UNCHANGED <<hit, fs, trig, only, late, took, fails, kill, cut>>
    /\ CaptureFrame

(* Serialisation and emit_json: what cannot be written is gone, but for the
   summary on stderr. *)
EmitLate ==
    /\ cpc = "emit"
    /\ EndLate("captured")
    /\ \/ /\ early' = IF early = "taken" /\ cfg.path THEN "out" ELSE early
          /\ UNCHANGED fails
       \/ /\ cfg.path /\ fails < MaxFail
          /\ early' = IF early = "taken" THEN "lost" ELSE early
          /\ fails' = fails + 1
    /\ kill' = TRUE
    /\ UNCHANGED <<hit, took, cut>> /\ CaptureFrame

LateSuppressed ==
    /\ cpc = "gate" /\ GateSuppresses
    /\ EndLate("suppressed")
    /\ WriteEarly
    /\ hit' = FALSE
    /\ UNCHANGED <<took, kill, cut>> /\ CaptureFrame

(* A panic inside a capture or its emission unwinds to EarlySnapshotGuard::drop,
   and a report that is being emitted takes its early snapshot with it. *)
Panic ==
    /\ cpc \in {"early", "gate", "emit"}
    /\ cpc' = "drain" /\ cut' = TRUE
    /\ early' = IF early = "taken" THEN "lost" ELSE early
    /\ UNCHANGED <<hit, fs, trig, only, late, took, fails, kill>> /\ CaptureFrame

(* drain_to_disk, at the end of the loop or from drop. *)
Drain ==
    /\ cpc = "drain"
    /\ IF cfg.path /\ early = "held"
         THEN \/ early' = "out" /\ UNCHANGED fails
              \/ fails < MaxFail /\ early' = "tried" /\ fails' = fails + 1
         ELSE UNCHANGED <<early, fails>>
    /\ cpc' = "exited"
    /\ UNCHANGED <<hit, fs, trig, only, late, took, kill, cut>> /\ CaptureFrame

CoordStep ==
    \/ Iterate \/ LeaveLoop
    \/ Unchanged \/ DisarmRequest \/ DisarmPtr \/ PublishPtr \/ PublishRequest
    \/ Evaluate \/ EarlyCapture \/ NoEarly \/ NoTrigger \/ LateFreeze
    \/ LateDegraded \/ LateCaptured \/ EmitLate \/ LateSuppressed \/ Drain

Ended == cpc = "exited" /\ UNCHANGED vars

Next ==
    \/ \E v \in Vcpus : GuestStep(v) \/ VcpuStep(v)
    \/ Kill \/ BspDone \/ CoordStep \/ Interrupted \/ EpollFails \/ Panic
    \/ Ended

Spec == Init /\ [][Next]_vars

FairSpec == Spec /\ WF_vars(CoordStep) /\ \A v \in Vcpus :
                WF_vars(ReadKind(v) \/ LatchHit(v))

---------------------------------------------------------------------------
(* A failure dump, whole or degraded, is of a run in which a scheduler really
   took an error exit: the kernel writes exit_kind on every orderly detach as
   well, vCPUs may keep a DR0 or a pointer of the scheduler before, and the
   kind is read some time after the write that trapped. *)
DumpIsGenuine == late \in {"captured", "degraded"} => erred # {}

(* An address in slot 0 always has its exit_kind pointer beside it, across
   every detach and rebind: what latch_slot0_with_gate calls the publication
   invariant. *)
PointerCoversRequest == request # Nil => ptr = request

(* No early snapshot is dropped, however the coordinator goes: it is in a file,
   the drain has tried to write it, or it was in a late report whose own write
   failed or that a panic unwound.  The last case is the one that the comment
   on EarlySnapshotGuard leaves out: the report takes the snapshot out of the
   guard before it is emitted. *)
EarlyIsKept ==
    cpc = "exited" /\ took /\ cfg.path =>
        \/ early \in {"out", "tried"}
        \/ early = "lost" /\ (IF late = "captured" THEN fails > 0 ELSE cut)

(* An error that the probe has latched before the run was told to end leads to
   a failure dump, also when kill or the end of the BSP comes before the
   coordinator has looked; unless an epoll error or a panic cut the last pass
   short.  A dump that cannot be written is a summary on stderr. *)
ReportedErrorIsDumped ==
    (BssTriggered /\ ~kill /\ ~bspDone /\ fs # "Done")
        ~> (late \in {"captured", "degraded"} \/ cut)
=============================================================================
