# A verification project for ktstr

ktstr boots Linux kernels in virtual machines of its own and tests sched_ext
schedulers inside them.  Its VMM runs one thread per vCPU, a worker thread per
disk, a watchdog, a monitor and a freeze coordinator that can stop the whole
machine to read guest memory.  On the host, concurrent ktstr processes share
CPUs and caches through advisory locks.  This directory holds TLA+ models of
that concurrent core, the TLC configurations that check them on small instances,
and proofs for every instance that TLAPS checks.

Paths below are relative to the repository.

## The system and its parts

| part | source | modelled in |
|---|---|---|
| freeze rendezvous, thaw, teardown | `src/vmm/freeze_coord/mod.rs`, `src/vmm/exit_dispatch.rs`, `src/vmm/vcpu.rs` | FreezeRendezvous, which implements StopTheWorld |
| virtio-blk device and worker | `src/vmm/virtio_blk/` | BlkLifecycle; its pause protocol also in FreezeRendezvous |
| watch snapshots and on-demand captures | `src/vmm/freeze_coord/{mod,snapshot,dispatch}.rs`, `src/vmm/vcpu.rs` | UserWatch |
| error trigger: slot 0, probe latch, early and late captures | `src/vmm/freeze_coord/{mod,watchpoint}.rs`, `src/vmm/exit_dispatch.rs` | ErrTrigger |
| scheduler statistics: client, console port 2, guest relay | `src/vmm/{sched_stats,virtio_console,rust_init}.rs`, `src/vmm/freeze_coord/mod.rs` | SchedStats |
| periodic captures | `src/vmm/freeze_coord/{mod,state}.rs` | their statistics request and freeze in SchedStats; their boundaries in time are not modelled |
| console ports 0 and 1, bulk messages, wire format | `src/vmm/{virtio_console,bulk,wire,host_comms,guest_comms}.rs` | not modelled yet |
| reservation of host LLCs and CPUs | `src/flock.rs`, `src/vmm/host_topology/`, `src/vmm/builder.rs`, `src/vmm/mod.rs` | Reservation |
| kernel cache | `src/cache/`, `src/cli/kernel_list.rs`, `src/test_support/eval.rs`, `src/vmm/vmlinux.rs` | KernelCache, which implements AtomicCache |
| disk-template and initramfs caches | `src/vmm/disk_template.rs`, `src/vmm/initramfs_cache.rs` | not modelled |
| scenario engine, cgroups, workload workers | `src/scenario/`, `src/cgroup.rs`, `src/workload/` | not modelled yet |
| temporal assertions, budget, statistics | `src/assert/`, `src/budget.rs`, `src/stats.rs` | not modelled: pure functions of collected samples |
| virtio-net | `src/vmm/virtio_net/` | not modelled: a smaller virtio-blk |
| guest init | `src/vmm/rust_init.rs` | its statistics relay in SchedStats; the rest is system calls on one path |
| boot and memory set-up | `src/vmm/setup.rs` and the architecture modules | not modelled: straight-line, before any vCPU runs |
| monitor and dump readers | `src/monitor/` | not modelled: they depend on kernel data layouts |
| test support, macros, command line, probes | `src/test_support/`, `src/cli/`, `src/probe/` | not modelled: registration, I/O, code run inside a kernel |

How the parts interact.  A capture request (from a guest message, a timer, a
watchpoint hit or an error latch in guest memory) makes the coordinator call
`freeze_and_capture`: it raises `freeze`, asks the disk worker to pause, kicks
every vCPU out of KVM_RUN (the `immediate_exit` byte first, then SIGRTMIN) and
counts acks.  All parkers ack by adding one to the same eventfd, so an ack has
no name.  When the count is full the coordinator reads guest memory,
`thaw_and_barrier` releases everybody, and the loop goes on.  Meanwhile the
guest may shut down, the watchdog may fire, the scheduler may exit (`kill`), and
the guest's driver may reset the disk, which stops its worker thread and starts
another one later.  Before each periodic capture the coordinator asks the
scheduler in the guest for its statistics, over a console port and a relay in
the guest's init, and waits for the answer.  Before all this the process has
reserved LLCs and CPUs of the host against every other ktstr process; it holds
them while the VM runs.  The kernel it boots comes from a cache directory that
builds, tests and `kernel clean` of other processes use at the same time.

## FreezeRendezvous: stop the world

State: for each vCPU its place in the run loop (`pc`), its `immediate_exit`
byte (`ie`), its pending signal (`sig`), `parked` and the register slot
(`regs`, which holds the number of the freeze it was filled in); the flags
`freeze`, `kill` and `bspDone`; the ack counter `parkedEvt`; the disk worker
(`wk`, `paused`, `pauseEvt`); and the coordinator (`cpc`, `count`, `expected`,
`wrun`, `dropped`, `allParked`, the final-pass flags).

| code | actions |
|---|---|
| `vcpu_run_loop_unified`, `run_bsp_loop` | LoopHead, Enter, GuestExit, Interrupt, Eintr, Dispatch, Stop |
| `handle_freeze` | DrainAndCapture, Park, Ack, Unpark |
| `worker_thread_main`, pause arm | WorkerStart, WorkerDrain, WorkerDrained, WorkerPause, WorkerAck, WorkerUnpark |
| the coordinator's loop head | CoordLoop, CoordRetest, CoordHead, CoordCapture, CoordKill, CoordNext |
| `freeze_and_capture` | FcDrain, FcSeed, FcFreeze, FcImmediateExit, FcSignal, FcPoll, FcDropWorker, FcTimeout, FcLeave, FcCollect, FcCapture |
| `thaw_and_barrier` | Thaw, ThawBarrier, BarrierTimeout |
| watchdog, BSP exit, `collect_results` | WatchdogFire, WatchdogReturn, BspDone, BspKill, CollectKick, CollectRekick, JoinAPs |

Time is left out.  A deadline may pass whenever its wait is blocked; an
eventfd that only shortens a poll with a time limit of its own is a re-check
that may happen at any time.  What a deadline, the one-second drop of the
worker, or a worker spawned into a freeze does to later freezes is recorded in
the history variable `upset`, with the freeze it happened in; `Upsets` says
which of them an instance admits.

Properties:

- `StopsTheWorld`: FreezeRendezvous implements StopTheWorld.  That module says
  what a caller of `freeze_and_capture` relies on, in three actions: threads
  that change guest memory stop, end and go on (`Move`); reading begins only
  when none runs; while it lasts none is released or started; one that has
  ended does not come back.  The refinement mapping takes for `running` the
  vCPUs outside the park loop and the live worker, and for `reading` the dump
  that a full count has started, as long as `upset` is empty.  A count of
  nameless acks thus stands for a set of parkers, up to the thaw.
- `KickNotLost`: after pass 1 no vCPU is about to enter the guest without its
  `immediate_exit` byte, and after pass 2 none is in the guest without a
  pending signal, whatever timed out before.
- `RegsOfThisCycle`: reported registers are those of this freeze, also in the
  report of a rendezvous that ran out of time, as long as earlier freezes were
  not upset.
- `KillNotLost`: the BSP after the watchdog's one kick, and an AP after that of
  `collect_results`, cannot stay in the guest or enter it again, though a freeze
  in between clears `immediate_exit` in its drain dance.
- `TeardownCompletes`: a raised `kill` leads to the last join.
- `FrozenIsReleased`: a vCPU that enters `handle_freeze` leaves it.

## BlkLifecycle: the disk over its whole life

State: `device_status` and the queue's ready bit; the engine (`gen` threads
spawned so far, the `handle`, the `pending` state for the next one); for each
thread its place, its eventfds, its retry timer and its drain outcome; the
rings as counters (`avail`, `used`) with the notification flag; interrupt
status and eventfd; `paused`, `pauseEvt` and the acks; one vCPU that runs the
guest's driver; the coordinator as far as it concerns the disk.  The mutex
around the device is `LockFree`.

| code | actions |
|---|---|
| `set_status` | SetStatusLoad, SetStatusReject, SetStatusRetry, SetStatusStore with Respawn |
| `reset`, `reset_engine_spawned`, `stop_worker_and_reclaim_state` | Reset, ResetJoined, ResetTimedOut |
| `mmio_write`, `mmio_read` | WriteStatus, QueueReady, Notify, IsrRead, InterruptAck |
| `worker_thread_main` | WorkerStart, WorkerStop, WorkerKick, WorkerTimer, WorkerPause, WorkerAck, WorkerUnpark |
| `drain_bracket_impl`, `resolve_action` | DrainBegin, DrainPoison, DrainPop, DrainServe, DrainStall, DrainEmpty, DrainEnable, DrainRecheck, DrainSignal |
| throttle | TimerFires, Refill |
| `pause`, `resume`, the rendezvous around them | FcSample, FcFreeze, FcPause, FcDump, FcGiveUp, FcThaw |
| the guest's driver (external) | Submit, BreakRing, Isr, Reap |

The compare-exchange of `set_status` and the load before it are separate
steps, and so are the worker's look at an empty ring, the re-enabling of
notifications, and the second look; the driver's publication of a request and
its look at the notification flag; and the interrupt handler's read and
acknowledgement.  The contents of a request, descriptor validation, the token
arithmetic and the event-index variant of notification suppression are
abstracted.  `FcDump` waits for the vCPU and, if it was running, the worker;
the counting itself is FreezeRendezvous's subject.

Properties:

- `OneWorker`: at most one worker thread lives, leaked threads included.
- `NeedsResetSticks`: only a reset takes NEEDS_RESET back.
- `DumpIsQuiet`: no worker can touch guest memory while it is dumped, with
  resets and respawns in the middle of freezes; excluded are a thread that was
  leaked, one spawned into the freeze, and the late ack of one given up
  (`leaked`, `raced`), which the rendezvous cannot see.
- `CompletionsAreOwed`: a driver never gets more completions than it has made
  requests, unless a thread of an earlier binding was left behind.
- `WorkIsNoticed`: a request in the ring of a device that has its worker is
  about to be looked at: a kick is due or written, the drain has still to look,
  or the retry timer of a stalled worker is set.
- `CompletionIsSignalled`: a completion in the used ring has an interrupt that
  is owed, pending or being handled.
- `RequestsComplete`: every request is completed and seen by the driver unless
  the driver breaks its ring or the device has lost its worker.

## Reservation: sharing the host

Processes of four kinds (`perf`, `default`, `noperf`, `kbuild`) plan a set of
LLCs and CPUs and take their flocks, one non-blocking call at a time.  State,
per process: its place (`pc`), its request, the slot of its walk, the holders
it has seen (`snap`), its lost races (`tries`), its plan, and the locks it
holds (`llcs`, and the first `ncpus` of the pinned CPUs).  Whether an LLC lock
is exclusive follows from the holder's mode.

| code | definitions |
|---|---|
| `compute_pinning`, `numa_aware_llc_order` | Fits, Pinning, assignments, numa_aware_llc_order |
| `discover_llc_snapshots`, `plan_from_snapshots` | Discover (one LLC at a time), MakePlan, plan_from_snapshots, GreedyWalk, FirstCpus |
| `build`, `validate_performance_mode` | Build, PerfNeeds |
| `acquire_slot_with_locks`, last branch of `acquire_run_locks` | TrySlot, NextSlot |
| `try_acquire_all`, `try_acquire_llc_plan_locks`, `try_flock` | LockLlc, LockCpu, Busy, LlcBusy, CpuBusy |
| retry loop of `acquire_llc_plan_with_acquire_fn` | TryElsewhere |
| plan accepted; `build` strips the locks | Locked |
| `acquire_run_locks`, `run` | Run, Finish, Exit; Crash is a kill |

The planning algorithms are stated over sets instead of loops: an LLC is taken
when those walked before it do not fill the budget, a CPU when fewer than the
budget come before it.

Properties:

- `PerfIsAlone`: no CPU of a running performance VM's LLCs carries work of
  another VM or build.  Every plan was made under locks that were dropped.
- `PinnedOnce`: two running VMs pin disjoint CPUs, though one may rely on an
  exclusive LLC lock and the other on CPU locks.
- `PlanIsExact`: a budget plan has exactly the CPUs asked for, all allowed, and
  is refused only when no LLC has an allowed CPU.
- `AttemptEnds`: every attempt ends, whatever the others do.

## KernelCache: one directory tree, many processes

A directory is an inode reached through a name, the entry of a key or the
staging directory of a key and a pid; a file is represented by the build it
came from.  State: the names (`at`), the directories' files (`dir`), the holders
of each entry lock (`ex`, `sh`), and per process its place, its call, what a
look-up has read, what a sweep or clean has still to visit, the directory a
removal holds open, and what the VM of a test has read.

| code | actions |
|---|---|
| `CacheDir::store` | StoreCall, StoreLock, StoreRecheckMeta, StoreRecheckImage, StoreClear, StoreStage, StoreImage, StoreVmlinux, StoreMetadata, StoreRename, StoreSwap, StoreFails, StoreDrop |
| `clean_orphaned_tmp_dirs` | SweepProbe, SweepRemove |
| a test that boots from an entry | TestCall, TestLookMeta, TestLookImage, TestLock, TestBoot, TestSymbols, TestUnlock |
| `kernel clean` | CleanCall, CleanOpen, CleanUnlink, CleanRmdir, CleanOver |
| end or kill of a process, reuse of its pid | Exit, Spawn |

A clean takes no lock and removes file by file, as `remove_dir_all` does.  A
kill leaves staging directories and half-emptied entries behind.

Properties:

- `PublishedIsWhole`: an entry has all the files its metadata names, unless a
  clean has begun to empty that very directory.
- `StagingIsKept`: nobody's sweep takes a staging directory that a live store
  is filling, with pids used again.
- `LockedVmIsConsistent`: under the shared lock kernel and symbols are of one
  build.
- `EntryChangesHands`: the directory of a key changes only under its exclusive
  lock, with no reader, to a whole one; or by the rmdir of an emptied one.
- `StoresAreAtomic`: KernelCache implements AtomicCache, a cache without
  staging, renames, sweeps and lock files.  There a process asks for a store,
  which takes effect whole, in one step and with no reader, or not at all, at
  most once; and only a clean touches an entry afterwards, to take away.  The
  refinement mapping takes for `entry` what the directory of a key holds, for
  `readers` the holders of LOCK_SH, and for `asked` the call of a store up to its
  rename.

## UserWatch: watch snapshots

The guest asks for a watchpoint on a kernel symbol or for a capture.  State: the
slots of WatchpointArm (`request`, `tag`, `hit`, `anyArmed`); for each vCPU its
place, what it believes armed, its debug registers, its failures, the byte
(`ie`) and the signal (`sig`) of a kick; the queues of requests; the coordinator
(`inFlight`, the loop's final passes, the walk over requests and slots); and per
tag what the bridge holds.

| code | actions |
|---|---|
| `vcpu_run_loop_unified`, `handle_freeze` | LeaveLoop, Park, Unpark, EnterGuest, KickedOut, ClearKick, OtherExit, TrappedWrite |
| `self_arm_watchpoint` (x86_64) | SelfArm, ArmOk, ArmEintr, ArmFails |
| `dispatch_watchpoint_hit`, `latch_user_hit` | LatchUserHit |
| the coordinator's loop, adoption of the accessor | Iterate, LeaveCoord |
| snapshot requests | Defer, Refuse, BeginCapture, CaptureReply, RequestsDone |
| `arm_user_watchpoint` | Publish, KickOne, Fence, SignalOne, WatchReply |
| the walk over the user slots | QuietSlot, FiredSlot, ReleaseSlot, EndIteration |
| `freeze_and_capture` as seen from here | Freeze, Capture |
| the drain after the loop | DrainSlot, CoordExit |

Properties:

- `WatchNotMissed`: a vCPU that enters the guest or is in it, with no byte and
  no signal to come, has every published watch in its registers.  Exempt is one
  whose ioctl was refused, or was stopped by a signal whose byte had been used up
  before (`missed`): the code does let those run unarmed.
- `GateIsCleared`: every path that takes the capture gate gives it back.
- `NoneStranded`: nothing is deferred once the one event that brings deferred
  requests back has happened.
- `DrainKeepsReports`: the drain puts no placeholder over a report.
- `FireIsRecorded`: a latched hit ends as a report or a placeholder under the
  tag of its slot.

## ErrTrigger: from an error exit to a failure dump

The guest's kernel writes `exit_kind` twice for one exit, the kind and then
SCX_EXIT_DONE, and the probe latches in between; schedulers follow one another
at `*scx_root`.  State: where the kernel is with each scheduler; `root`, the
latch `bss`; per vCPU its DR0 and its trap; slot 0 (`request`, `ptr`, `hit`);
what the coordinator has cached (`last`, `bssPa`); its `freeze_state`, the
triggers it has read, the late outcome and where the early snapshot is.

| code | actions |
|---|---|
| guest kernel (external) and probe | Attach, ErrorExit, Probe, ExitDone, Detach |
| vCPU threads | SelfArm, ReadKind, LatchHit |
| the coordinator's loop | Iterate, Interrupted, EpollFails, LeaveLoop |
| `republish_watchpoint_on_rebind` and its results | Unchanged, DisarmRequest, DisarmPtr, PublishPtr, PublishRequest |
| triggers and polls | Evaluate |
| early capture | EarlyCapture, NoEarly |
| late capture | NoTrigger, LateFreeze, LateCaptured, EmitLate, LateDegraded, LateSuppressed |
| `EarlySnapshotGuard` | Panic, Drain |
| what ends a run | Kill, BspDone |

Properties:

- `DumpIsGenuine`: a dump, whole or degraded, is of a run with a real error.
- `PointerCoversRequest`: an address in slot 0 has its pointer beside it.
- `EarlyIsKept`: an early snapshot reaches a file, or the drain has tried; or
  it was in a late report whose own write failed or that a panic unwound.
- `ReportedErrorIsDumped`: an error that the probe has latched before the run
  is told to end is dumped, through the final passes if need be.

## SchedStats: requests without a time-out

Host threads ask the guest's scheduler for statistics through clones of one
SchedStatsClient.  A request crosses console port 2 as a line and a newline; a
relay thread of the guest's init forwards it to the scheduler's socket; what
comes back is collected by a drainer thread and waited for on a condition
variable.  The coordinator is one of the callers and blocks while it waits.
State: where each caller is in `request_raw`, `request_in_flight`, the response
buffer; the drainer and the bytes in its hands; the kill flag and `kill_evt`;
the port's buffers; the relay, its socket and the schedulers behind it; the
coordinator's periodic captures and the end of the run.  A byte of output stands
for a stretch of bytes and remembers which request it answers; `fresh` (for the
properties only) says that it had not reached the host before the present
request began, and the history variable `clean` that no error envelope was sent
and no request given up so far.

| code | actions |
|---|---|
| `request_raw` | Call, Start, MarkInFlight, ClearResponse, PushLine, PushNewline, Check, Sleep |
| `drainer_loop` | DrainData, DrainRoute, DrainAppend, DrainCancel, DrainBye |
| `queue_input_port2`, `process_tx` | Deliver, WritePort |
| `sched_stats_relay_loop`, `wait_for_stats_socket` | OpenPort, Connect, Refuse |
| `run_relay_session`, `drain_port_emit_errors` | Forward, Backward, LoseSocket, PortIsEmpty |
| the relay or the guest ends | Stop, GuestStops |
| schedulers (external) | SchedStart, SchedAnswer, SchedExit |
| the coordinator's periodic captures and loop | PeriodicDue, PeriodicFreeze, Rendezvous, PeriodicStore, CoordReadsKill, CoordExits |
| watchdog, BSP exit, `collect_results` | Kill, BspEnds, CollectResults |

Properties:

- `AnswersAreOwn`: callers that overlap get their own answers, as long as the
  run is `clean`.
- `OldBytesAreDropped`: no request finds bytes that had reached the device
  before it began, except those the drainer held in its hands.
- `NoRequestHangs`: where nothing that goes on by itself can go on (`GoesOn`,
  the guards of the actions in `Progress`), every caller has returned, and after
  `kill` the coordinator has left its loop.
- `ProgressIsFinite`: every step of `Progress` leaves less to do, in a
  lexicographic order of fifteen counts (`LessLeft`): the end of the run,
  captures, the event, the drainer, requests not started, then the bytes from
  the host to the scheduler and back, those furthest upstream first.  With
  NoRequestHangs: left alone, every request returns.

## Runs

| run | configuration | shows |
|---|---|---|
| `freeze_count` | 3 vCPUs, 1 freeze, any worker, one-second drop | StopsTheWorld |
| `freeze_late` | 2 vCPUs, 2 freezes, deadlines | TypeOK, KillNotLost, KickNotLost, RegsOfThisCycle across freezes that overlap |
| `freeze_live` | 2 vCPUs, 1 freeze, deadlines, fairness | TeardownCompletes, FrozenIsReleased |
| `blk_safe` | 2 threads, 1 request, 2 freezes, 1 reset, host faults | TypeOK, OneWorker, DumpIsQuiet, CompletionsAreOwed, NeedsResetSticks |
| `blk_live` | 1 thread, 2 requests, throttled, 1 freeze, fairness | WorkIsNoticed, CompletionIsSignalled, RequestsComplete |
| `reservation` | 2 processes, 4 unequal LLCs on 2 nodes, 10 requests, kills, fairness | TypeOK, PerfIsAlone, PinnedOnce, PlanIsExact, AttemptEnds |
| `reservation_sparse` | requests confined to LLCs 0 and 2 | violation of PlanIsExact |
| `kernel_cache` | 2 storing processes and 1 testing one, all cleaning, 2 keys, 2 builds, 3 calls, kills | TypeOK, PublishedIsWhole, StagingIsKept, LockedVmIsConsistent, StoresAreAtomic |
| `user_watch` | 1 vCPU, 1 slot, 2 symbols, 2 requests, fairness | TypeOK, WatchNotMissed, GateIsCleared, NoneStranded, FireIsRecorded |
| `user_watch_tag` | the same with 2 slots, safety | violation of CaptureIsOfItsSymbol |
| `err_trigger` | 1 vCPU, 2 schedulers, dual snapshots or none, 1 failing write, 1 EINTR, fairness | TypeOK, DumpIsGenuine, PointerCoversRequest, EarlyIsKept, ReportedErrorIsDumped |
| `sched_stats` | the coordinator and 1 clone, 1 request and 1 capture, 2 schedulers, answers below and above the limit | TypeOK, AnswersAreOwn, OldBytesAreDropped, NoRequestHangs, ProgressIsFinite |

Bounds.  One AP and the BSP are enough for every interleaving of two vCPUs; a
second AP (with symmetry, for an invariant) adds the case in which one parker's
ack stands in for another's while a third has parked, and the re-kick loop of
the teardown.  There a freeze that was disturbed is followed to its thaw only
(`FollowedToThaw`): after it StopTheWorld has no more reads to speak of, and the
proof has no such bound.  Two freezes are the fewest in which something left
over from one can be seen by the next; registers, acks, pause events and flags
are the only things left over and each is consumed or overwritten by the next
freeze.  For the disk, two threads are what one reset and its respawn need; two
requests are needed for a notification to be lost behind the first, one suffices
for the safety properties.  For the reservations, conflicts are between two
holders, so two processes show them; the proofs cover more.  The host has LLCs
of one and of two CPUs, so that a request fits in some slots only, and the
requests reach every branch: one node and two, too large, a cap above the
allowed CPUs, a partly allowed LLC, CPUs no LLC lists.  The requests of
`reservation` leave out those whose allowed CPUs skip an LLC: they are the
subject of `reservation_sparse`. For the cache, a store against a store, a store
against a test and either against a clean are all there with three processes and
three calls; four directories are one more than can be in use by then.  For the
watches one slot makes two symbols contend for it, and one vCPU with its loop,
its kick and its late latch shows every race with the coordinator; the proofs
cover more of both.  For the error trigger two schedulers are what a rebind
needs; a vCPU with stale registers of the first is then at the second.  For the
statistics two callers are enough to contend for the lock, the buffer and
`kill_evt`; two schedulers are what half a request left by the first needs to
reach the second; an answer of three bytes passes the limit with two and the cap
with all.  `OneAtTheEnd` does not follow the end of a run that has had a second
scheduler; the same instance without it (3.6 million states) was explored once,
and there `GoesOn` was found to agree with ENABLED Progress in every state.
Larger instances that were explored once and take longer than a regular run:
UserWatch with 2 vCPUs, safety (103 million states), and with 2 slots under
fairness (1.3 million); ErrTrigger with 2 vCPUs and all eight configurations, safety (19
million); the two liveness properties of `freeze_live` over two freezes (0.8
million) and with any worker and its one-second drop (0.4 million).  None found
an error. `HasImmediateExit` is TRUE in every run: without
KVM_CAP_IMMEDIATE_EXIT the kick relies on repeated signals, which the model does
not repeat; the theorems do not assume it, except where the property itself
does.

Fairness.  Every thread is a thread of the host kernel, which schedules it:
weak fairness of each thread's own steps.  Deadlines pass: they are part of
the coordinator's steps.  A signal pending for a thread in KVM_RUN is
delivered.  The guest need never exit, nobody need request a capture or raise
`kill`, and the watchdog must act only when `kill` is up.  For the disk,
timers fire and buckets refill; interrupt delivery is strongly fair because a
driver busy with registers disables it again and again without losing it.
A reserving process is scheduled, its VM ends (the watchdog sees to it) and so
does a kernel build; nobody need start one.  `Scheduled` states this as weak
fairness of the process's steps, written out: idle again and again, or changing
its own state again and again.  In UserWatch and ErrTrigger the coordinator's
wait has a time limit, so its passes follow one another; a vCPU thread handles
a trap and a kick it has received; that a vCPU leaves the guest of itself, and
so arms slot 0, is not assumed.  The cache has safety properties only, and so has
SchedStats, whose `Progress` says the same: threads of the host, the relay and a
connected scheduler go on, and once the guest has stopped the run ends; nobody
need ask, and no scheduler need start, be connected to or exit.

## What the violations say

- `reservation_sparse`: positions in the snapshot vector are used as LLC
  indices.  A process confined to LLC 2 is told that no LLC overlaps its CPUs
  (`host_topology/mod.rs:1251`).
- `user_watch_tag`: the release of a user slot leaves its `hit` set.  A write
  latched during the capture is captured again later, under the empty tag or
  under that of the symbol that got the slot (`freeze_coord/mod.rs:6824`).

Behaviour of the code that the models also show, and that limits what the
passing properties can say:

- After one second the worker is dropped from the expected count, and its ack,
  when it comes, is counted for a vCPU: the dump may start with a vCPU in the
  guest (`freeze_coord/mod.rs:4520`).  StopsTheWorld therefore ends at the first
  entry in `upset`.
- On the pass after `kill` the rendezvous leaves before it has read an ack, so
  that pass yields a degraded report (`freeze_coord/mod.rs:4446`), which
  ReportedErrorIsDumped accepts.
- `resume` leaves the pause event readable: a worker that takes it after the
  thaw parks until another freeze (`virtio_blk/device.rs:3253`).
- A reset clears the pause before it writes `stop_fd`; a pause event not yet
  taken can still park the worker, the join times out and the disk stays
  without a worker (`virtio_blk/device.rs:2771`).
- The service CPU of a performance VM is looked for outside the locked LLCs,
  and may be a vCPU's CPU of another VM (`host_topology/mod.rs:428`).
- The recheck of a store takes an entry for a hit whose vmlinux a clean has
  removed (`cache/cache_dir.rs:521`); a test that has dropped its lock may boot
  one build with symbols of another (`vmm/vmlinux.rs:18`).
- EINTR in the coordinator's wait uses up a final pass
  (`freeze_coord/mod.rs:2792`).
- What the exit_kind gate suppresses as a clean shutdown
  (`freeze_coord/mod.rs:7561`, with its comment at 7577) is always a real error,
  since `hit` is only latched for one (`exit_dispatch.rs:824`); suppression ends the
  watch.
- A kick of `arm_user_watchpoint` is a byte and, after a pass over all vCPUs, a
  signal (`freeze_coord/snapshot.rs:332`).  A vCPU may return from KVM_RUN for the
  byte and clear it (`exit_dispatch.rs:1043`) before the signal is sent.  If the
  signal then ends its KVM_SET_GUEST_DEBUG with EINTR, the code leaves the arming
  to the next iteration (`vcpu.rs:1034`), but no kick is left to bring one about:
  the vCPU runs the guest without the watch until it exits of itself.
  WatchNotMissed exempts this case and no other signal.
- The late report takes the early snapshot out of its guard before it is
  serialised and written (`freeze_coord/mod.rs:7308`).  If the write fails, a
  summary of the late capture goes to stderr (`freeze_coord/mod.rs:5670`), and the
  drain finds no early one; after a panic in between it is the same.  "Every
  captured early reaches disk" (`freeze_coord/mod.rs:2323`) does not hold there.
- The relay sends an envelope for each read, so one request can get two; the
  second, like bytes the drainer held when a request began, can end the next
  request.  AnswersAreOwn therefore ends with `clean`.
- `kill_evt` has two readers, the coordinator and the drainer, and each may take
  the event from the other; the writes at the end of the BSP and in
  `collect_results` are what wakes the one that missed it.

## Proofs

FreezeProofs, for any finite set of APs, any number of freezes and any
admitted disturbances, from `RendezvousAssumption` (the APs are finite, the
BSP is not one of them, the other constants have their types):

- `TypeCorrect`: `Spec => []TypeOK`.  The bound on `cycle` needs `CycleBound`:
  a freeze is only begun while one is left.
- `KickReachesEveryVcpu`: `Spec => []KickNotLost`.  The strengthening is
  `FreezeFlag`, which ties `freeze` to the coordinator's place: a vCPU that
  passes its loop head after pass 1 sees the flag, and one that passed before
  has the byte.
- `ReportHasItsRegisters`: `Spec => []RegsOfThisCycle`.  An ack has no name, so
  the count must stand for vCPUs that have captured in this very freeze: in
  `CountInv` (below) a vCPU is settled only with `regs[v] = cycle`.  `Serving`
  adds that, unless an earlier freeze was disturbed, a vCPU in `handle_freeze`
  serves the freeze under way (`Serves`) and nobody is there between freezes
  (`Cleared`); `UpsetsPast`, that a disturbance is recorded under the number of a
  freeze that has begun, so that "earlier" means something.
- `CaptureIsQuiesced`: `Spec => []QuiescedCapture` (a full dump of an
  undisturbed run finds every vCPU parked or gone and no worker running).  The
  inductive invariant `CountInv` is a ledger: acks not yet read plus acks
  counted never exceed the number of vCPUs that are settled plus one for a
  worker that has acked (`Kicking`, `Counting`).  Since the expectation is the
  number of all parkers, a full count leaves nobody out, by cardinality.
  `BeforeFreeze` and `Thawing` carry the ledger's zero from one freeze to the
  next; `ParkedFlag` makes the advance credit of still-parked vCPUs zero in an
  undisturbed run.
- `RendezvousStopsTheWorld`: `Spec => StopsTheWorld`, the refinement.  Begin of
  a read follows from CaptureIsQuiesced; for the rest, a step moves threads or
  the dump but not both (`ThreadsOrDump`), a thread that has ended stays so
  (`GoneGrows`), and none that is settled under the dump can leave it.
- `KillReachesEveryVcpu`: `Spec => []KillNotLost`.  `Ends` ties the flags to the
  order of the teardown: `bspDone` is up exactly when the BSP has left its loop,
  and APs are collected only after watchdog and coordinator, so that no freeze
  can clear a byte of theirs any more; the BSP that loses its byte to a freeze is
  on its way to the loop head, where it reads `kill`.
- `TeardownAlwaysShrinks`: `Spec => TeardownShrinks`, and
- `TeardownAlwaysOwed`: `Spec => []TeardownIsOwed`, the step-by-step halves of
  TeardownCompletes and FrozenIsReleased.  With `kill` up every step of a vCPU
  lowers its `Distance` from its end, and every step of the coordinator lowers,
  in this order, the passes left, the captures left, its place in a freeze and
  the acks to come; the steps of a freeze do so without `kill`, too.  And whomever
  the joins wait for meets the guard of a step, which needs `Ends` and
  KillNotLost: a vCPU in the guest can be got out.

BlkProofs, for any bounds, from `LifecycleAssumption` (the constants have
their types):

- `AtMostOneWorker`: `Spec => []OneWorker`.  The inductive invariant
  `Lifecycle` says where the one BlkWorkerState is: pending, with the newest
  thread, or lost.  Only the newest thread may be alive, never while the state
  is pending, and the handle, or the reset that has taken it, is for that
  thread.
- `NeedsResetSurvives`: `Spec => NeedsResetSticks`, step by step: the only
  store to the status beside the worker's is a compare-exchange against the
  value that was validated.
- `TypeCorrect`: `Spec => []TypeOK`, with `Lifecycle` for the thread numbers.
- `CompletionsAlwaysOwed`: `Spec => []CompletionsAreOwed`.  `Owners` says that a
  live thread is the handle's or the one a reset joins, unless one was left
  behind; `Accounts`, that then the requests reaped, used and available are no
  more than those sent, and fewer while a thread is in the middle of one.  The
  second part pays for the completion of the request the thread has popped.
- `DumpAlwaysQuiet`: `Spec => []DumpIsQuiet`.  `Handshake` ties the parked vCPU to
  the device lock, `freeze` to the coordinator's place, and a readable pause
  event to a thread that is there to read it.  `PauseProtocol` gives the three
  stages a thread asked to pause goes through, told, parking and parked, as
  long as no thread was left behind, spawned into the freeze or given up: the
  event, the flag and the ack are never there in another combination, so an
  ack is of the thread that is now waiting.
- `WorkAlwaysNoticed`: `Spec => []WorkIsNoticed`.  `Noticed` adds that notifications
  are off only while the drain has its second look before it; `Fit`, that a worker
  that leaves its kicks alone has its timer set; `Bound`, that a ring with requests
  has DRIVER_OK, and that a worker spawned after a reset finds notifications on.
- `CompletionsAlwaysSignalled`: `Spec => []CompletionIsSignalled`, for threads that a
  reset has left behind, too.  `Fit` says that a drain that owes an interrupt comes
  to DrainSignal.

ReservationProofs, for any number of processes, any host and any requests,
from `HostAssumption` (LLCs are numbered from 0 and share no CPU),
`WantAssumption` (requests have their types) and, beyond the first two theorems,
`TopologyAssumption` (a CPU is listed once, as `from_system` collects the LLCs'
CPUs in sets and `parse_cpu_list` removes duplicates; every LLC is on a node;
distances are numbers; there are finitely many processes):

- `PerfRunsAlone`: `Spec => []PerfIsAlone`, and
- `CpuPinnedOnce`: `Spec => []PinnedOnce`.  Both follow from `IInv`: a plan's
  CPUs lie in the plan's LLCs (`PinningOK`, `BudgetPlanOK`: the arithmetic of
  `compute_pinning` never indexes outside an LLC), locks are held only while
  they are taken and while the VM runs, then all of them are, and no two
  processes hold incompatible ones.  A common CPU of two VMs lies in one LLC,
  which both hold; if one holds it exclusively that is a contradiction, and
  otherwise both hold the lock of the CPU.  `StepOfOne` reduces each step to
  the process that takes it.
- `AttemptsAlwaysShrink`: `Spec => AttemptsShrink`, and
- `AttemptsGoOn`: the safety half of AttemptEnds, which leaves the scheduling
  to fairness.  Each step of a process lowers what it has left, in a
  lexicographic order of six natural numbers: its stage, the slots or retries
  ahead, the plan to make, the LLCs to look at, LLC locks and CPU locks to take.
  No other process can change these, and one that is not idle always meets the
  guard of one of its steps, whoever holds the locks.  It needs `OnTrack`: a walk
  stays on the slots there are, so that going round it meets its start again,
  and a discovery looks at LLCs with an allowed CPU only.
- `TypeCorrect`: `Spec => []TypeOK`.
- `ServiceCpuFound`: once `compute_pinning` has checked the number of online CPUs,
  its last `ensure!` cannot fail: pinned CPUs are at most as many as vCPUs, so a
  CPU is left, and the one taken carries no vCPU.
- `PlansAreExact`: if every budgeted request is `Regular`, then
  `Spec => []PlanIsExact`.  A request is Regular if its allowed CPUs are CPUs of
  LLCs, or none is, and if the positions of the snapshot vector are LLC indices,
  or the budget is too small for the short cut that takes them for such.  The
  hypothesis is needed: `reservation_sparse` shows the violation without it, and
  the theorem says that the short cut is the only culprit.  MCReservation has TLC
  confirm that the requests of `reservation` meet it and those of
  `reservation_sparse` do not.  The argument counts without induction: the CPUs
  of a plan are those with fewer than `Budget` before them, and the number of
  predecessors is a bijection from the walked CPUs to an initial segment of the
  numbers (`FewerBefore`, `FirstOf`, `FirstMany`, from the finite-set theorems),
  so exactly `Budget` are taken; the greedy walk fills the budget because the
  LLCs before the first one left out do (`GreedyFills`, with the well-ordering
  of the numbers for "first"); and a budget is at least 1 and at most the number
  of allowed CPUs, the 30 % default included (`BudgetBound`).

KernelCacheProofs, for any number of processes, keys, builds, directories and
calls, from `NamesAssumption` (the mark of an entry is no pid, and the absent
values, NoDir among them, are none of the present ones):

- `TypeCorrect`, `PublishedAlwaysWhole`, `StagingAlwaysKept`,
  `LockedVmAlwaysConsistent`: `Spec => []P` for `TypeOK`, `PublishedIsWhole`,
  `StagingIsKept` and `LockedVmIsConsistent`, all from one invariant `Inv`.
  Directories do not alias (`TreeOK`).  Each name has one writer: a staging name
  its pid, while it lives (`Stages`; a sweep aims at dead pids only, and a pid it
  aims at is not used again), an entry the holder of its exclusive lock
  (`Locks`), but for removal by a clean, whose open directory is on record as
  long as it has a name (`Opens`).  So what a store has staged is what it
  publishes, an entry is of one build even while it is being emptied
  (`Entries`), and a test under its shared lock reads symbols of the build it
  booted or none, its process cache being cold before (`Vms`).
- `EntryAlwaysChangesHands`: `Spec => EntryChangesHands`, step by step from `Inv`.
- `StoresAlwaysAtomic`: `Spec => StoresAreAtomic`, the refinement.  `ShelfKept`
  reduces a step to what it does to the directories that are entries, and steps
  on staging directories are stutters (`StagingIsUnseen`).  The rename and the
  swap publish (`StorePublishes`): by `Inv` the staging directory holds the whole
  output of the call.

UserWatchProofs, for any vCPUs, slots, symbols and number of requests, from
`WatchAssumption`:

- `NoWatchMissed`: `Spec => []WatchNotMissed`.  `ArmInv` adds that a vCPU about
  to program its registers, with no kick to come, has read every published
  request; that before the first publication there is nothing to arm; that
  what a vCPU believes armed is in its registers unless it was refused; and,
  between the two passes of a kick, that a vCPU behind them has its byte or has
  gone round its loop since the publication (`Programmed`).
- `GateAlwaysCleared`, `AdoptionStrandsNothing`: the gate is held exactly
  between the places that take it and those that free it; a deferral happens
  only while there is no accessor.
- `ReportsSurviveDrain`: `Spec => DrainKeepsReports`, step by step.
- `TypeCorrect`: `Spec => []TypeOK`.  It needs that a request being served stays
  at the head of `pending` until its reply, so that the reply has one to remove.
- `FireAlwaysServed`: `Spec => FireIsServed`, and
- `CoordAlwaysLive`: `Spec => []CoordIsLive`, the step-by-step halves of
  FireIsRecorded.  Until something is under its tag a hit, or its capture, is
  there (`Owes`); each step of the coordinator lowers the phase of the iteration,
  the requests or slots ahead, the stage or the vCPUs to kick, in this order, and
  no other thread raises them: new requests wait for the next iteration.  `Visits`
  says where the walks are, and that a capture is of the tag of its slot.

ErrTriggerProofs, for any vCPUs, schedulers and configurations, from
`TriggerAssumption`:

- `DumpsAreGenuine`: `Spec => []DumpIsGenuine`.  `Signs` follows the error from
  `exit_kind` through the trap, the latch and the trigger to the report.
- `RequestAlwaysCovered`: `Spec => []PointerCoversRequest`; `Slot0` adds that
  between the two stores of a disarm the address is gone.
- `EarlyAlwaysKept`: `Spec => []EarlyIsKept`; `Kept` says that a snapshot leaves
  "held" by a write that is accounted for or for a late report, and that it is
  lost only with that report, of which there is one in a run.
- `TypeCorrect`: `Spec => []TypeOK`; without dual snapshots there never is an
  early one.
- `ReportAlwaysServed`: `Spec => ReportIsServed`, and
- `ReportAlwaysOwed`: `Spec => []ReportIsOwed`, the step-by-step halves of
  ReportedErrorIsDumped.  What is latched before the run is told to end is `Owed`
  a dump: the triggers are set or a pass that reads them is still to come.  It
  stays so until the dump, or until a pass is cut short, and each step of the
  coordinator brings the dump nearer (`PassLeft`).  `Endings` says that final passes
  come of `kill` and `bsp_done` only.

SchedStatsProofs and SchedStatsProgressProofs, for any number of callers,
requests, captures, schedulers, lengths of answers and limits of the buffer, from
`StatsAssumption`:

- `OldBytesAlwaysDropped`: `Spec => []OldBytesAreDropped`.  Old bytes can only be
  in the response buffer, and only until the one holder of `request_lock` has
  cleared it.
- `AnswersAlwaysOwn`: `Spec => []AnswersAreOwn`.  `Own` follows one request in a
  clean run.  Before it is pushed every channel is empty; then its line and
  newline are on the way in and nothing is on the way out, or the bytes of its
  answer, of which only the last ends a line, are on the way out and nothing on
  the way in.  What ends the request is therefore the last byte of all.
- `TypesAlwaysOK`: `Spec => []TypeOK`.  The bound on `seq` needs `Ledger`: each
  call of a clone and each capture is good for one request, used up when the
  lock is taken, so that requests started are at most as many as there are calls
  (counted as a finite set) and captures.
- `RequestsNeverHang`: `Spec => []NoRequestHangs`.  A caller that sleeps is owed
  something by somebody: `SleepsUnanswered` says that the buffer does not hold its
  answer yet, `AnswerOwed` where the rest of the request or the answer is on its
  way, and `EndReached` which of the events that end a run is still to come.  Each
  place along the way is one where some guard holds.
- `ProgressAlwaysFinite`: `Spec => ProgressIsFinite`, one lemma per thread, and
  `LeftAlwaysNatural`: the fifteen counts are natural numbers, so the order is
  well-founded.

The large inductive invariants were checked by TLC on the instances of the runs
before they were proved: BlkLifecycle's on 1.5 million states,
FreezeRendezvous's on 4.6 million, KernelCache's on 0.2 million, SchedStats's on
3.6 million; and so were the orders and the guards of the step-by-step halves
of liveness.

Only proved, with no run of their own: EntryChangesHands and DrainKeepsReports.
A store that locks under readers is caught by StoresAreAtomic on the instance of
`kernel_cache`.  No run checks that the drain keeps a report: for that there is
the theorem alone.

Only model-checked:

- the liveness properties TeardownCompletes, FrozenIsReleased, RequestsComplete,
  AttemptEnds, FireIsRecorded and ReportedErrorIsDumped: fairness is outside
  what the prover handles.  Proved are their step-by-step halves, that each step
  leaves less to do and that the guard of one holds until all is done (for
  RequestsComplete: that no request and no completion is forgotten), and the
  step from them to termination is not;
- that the guards written out in `GoesOn` (SchedStats, ReservationProofs),
  `CoordGoesOn` and `VcpuGoesOn` (the other proofs) are what ENABLED says of the
  actions: TLC compared them on the instances of the runs;
- PlanIsExact for requests that are not Regular: it fails there.

## Abstractions

- Atomic variables are read and written in program order.  The source uses
  acquire and release pairs, or stronger, wherever one flag publishes another;
  weaker orders are not explored.
- A vCPU's work in the guest is one action, and so is the dump itself.
- Not modelled: panics of vCPU and worker threads, HelperDisconnected as a
  case of its own (it behaves as a failed join), `Drop` of the device, the
  monitor and BPF-writer threads, EVENT_IDX.
- BlkLifecycle has one vCPU.  The device mutex serialises register accesses of
  several, and each handler holds it from beginning to end.  Guest memory that
  the queue names is there and the host's timerfd works: left out are
  `publish_completion` returning false (`virtio_blk/drain.rs:1190`), which leaves
  a request uncompleted, an error of `enable_notification`
  (`virtio_blk/drain.rs:1229`), and errors of the retry timer.  The driver
  always needs the interrupt that DrainSignal sends
  (`needs_notification`, `virtio_blk/drain.rs:1283`).
- Reservation: lock files dropped together are dropped in one step.  The
  branches without locks are left out (KTSTR_BYPASS_LLC_LOCKS, cargo-test mode,
  unreadable sysfs), and so are errors of open and flock other than "busy", the
  cgroup sandbox of kernel builds, and `acquire_cpu_locks`, which has no caller
  outside tests.
- KernelCache: a process runs one test, as under nextest; the cache of symbols
  of a process that runs several (`vmm/vmlinux.rs:11`) is cold in the model.
  The list of entries that a clean works on is taken in one step; no pid is used
  again between `kill(pid, 0)` of a sweep and its removal; the lock on a file
  that is itself removed and made again is not modelled.
- UserWatch: the loads of the four requests are one step; so are the byte and
  the signal of a freeze's kick, since a vCPU that has used up the byte finds
  `freeze` raised (KickNotLost shows the two passes apart); an unknown kind of
  request, and a watch without a symbol cache, are refused like an unknown
  symbol; `hit_evt` only shortens a wait and is left out; the bridge evicts
  nothing; periodic captures, which take and free the gate in the same way, are
  left out.  aarch64, which steps over the watched write, is not modelled.
- ErrTrigger: memory of a detached scheduler, and the .bss of an unloaded probe,
  keep their last value; a published address that no longer translates is a
  kind below SCX_EXIT_ERROR; out-of-bounds .bss addresses are left out.  A vCPU
  need never arm, which covers refused ioctls.  The triggers of one pass are
  read in one step, and so are the decision of the gate, the thaw and the end of
  a suppressed capture.  That a degraded report cannot be written changes
  nothing but the file, and is left out.
- SchedStats: a scheduler that is connected answers; one that never does keeps
  the coordinator in its request until the watchdog raises `kill`
  (`sched_stats.rs:666`).  Left out: the drainer's end by `Drop` of the last
  clone, or by a failing epoll call (`sched_stats.rs:839`), after which it wakes
  nobody; captures that freeze without asking, and the gate and the deadlines of
  the periodic ones; end of file on the port; exhaustion of the guest's receive
  buffers, where `clear_port2_pending_rx` may cut a line
  (`virtio_console.rs:1031`); and the limit on bytes per transmit call.

## Plan

1. The boundaries of periodic captures (`freeze_coord/state.rs`) against a
   reference definition, and the gate they share with the other captures.
2. The disk-template and initramfs caches, after the pattern of KernelCache.
3. Wire and scenario: frame reassembly as a pure algorithm against a reference
   definition; step and teardown order of scenarios; worker handshakes.
