---------------------------- MODULE BlkLifecycle ----------------------------
(***************************************************************************)
(* The virtio-blk device over its whole life: the status machine, reset,   *)
(* the worker thread that is stopped by a reset and spawned again by       *)
(* DRIVER_OK, the request path from the guest's submission to its          *)
(* interrupt, throttling, and the pause protocol of the freeze coordinator.*)
(*                                                                         *)
(* The guest's driver is one vCPU; the mutex around VirtioBlk serialises   *)
(* its register accesses with pause and resume.  The virtqueue is the      *)
(* external crate virtio_queue: its rings are counters here.               *)
(***************************************************************************)
EXTENDS Integers, FiniteSets

CONSTANTS
    MaxGen,      \* bound on worker threads ever spawned
    MaxReq,      \* bound on requests between two resets
    MaxFreezes,  \* bound on freezes
    MaxResets,   \* bound on resets
    Throttled,   \* the disk has a throttle
    HostFaults   \* a read or write may outlast the one-second join of a
                 \* reset, or the helper thread that joins may not be had

ASSUME LifecycleAssumption ==
    /\ MaxGen \in Nat /\ MaxReq \in Nat
    /\ MaxFreezes \in Nat /\ MaxResets \in Nat
    /\ Throttled \in BOOLEAN /\ HostFaults \in BOOLEAN

Gens == 1..MaxGen
Bits == {"ACK", "DRIVER", "FEATURES_OK", "DRIVER_OK", "FAILED", "NEEDS_RESET"}

VARIABLES
    status,     \* device_status, a set of bits
    ready,      \* the request queue is ready
    gen,        \* worker threads spawned so far; their kick_fd and stop_fd
                \* are the engine's
    handle,     \* SpawnedEngine::handle: a thread, or 0 for None
    pending,    \* respawn_pending is Some
    w,          \* the worker threads
    stalled,    \* BlkWorkerState::currently_stalled
    poisoned,   \* BlkWorkerState::queue_poisoned
    token,      \* the token buckets can pay for the next request
    avail,      \* chains in the avail ring
    notifyOn,   \* the guest is asked to notify the queue
    used,       \* completions the guest has not reaped
    badRing,    \* the guest's avail index is out of range
    intr,       \* interrupt_status, a set of bits
    irq,        \* irq_evt is pending
    paused,     \* VirtioBlk::paused
    pauseEvt,   \* pause_evt is readable
    acks,       \* what the worker added to parked_evt in this freeze
    vpc,        \* where the vCPU is
    vparked,    \* it is in the park loop of handle_freeze
    vval, vcur, \* set_status: the value to write, and current_status
    vjoin,      \* reset: the thread it joins, or 0
    vint,       \* the interrupt handler: the bits it has read
    sent,       \* requests submitted since the last reset (history)
    reaped,     \* requests the guest has seen completed (history)
    freeze,     \* AtomicBool freeze
    fpc,        \* where the coordinator is
    wrun,       \* worker_was_running
    freezes, resets,  \* how many so far
    leaked,     \* a reset has given up a join (history)
    raced       \* a worker was spawned while a freeze was under way, or had
                \* not run yet when one began, or a freeze gave up waiting
                \* for a live one (history)

engine == <<gen, handle, pending, w, stalled, poisoned, token>>
rings  == <<ready, avail, notifyOn, used, badRing>>
irqs   == <<intr, irq>>
park   == <<paused, pauseEvt, acks>>
vcpu   == <<vpc, vparked, vval, vcur, vjoin, vint, sent, reaped>>
coord  == <<freeze, fpc, wrun, freezes>>
hist   == <<resets, leaked, raced>>
vars == <<status, engine, rings, irqs, park, vcpu, coord, hist>>

(* worker_thread_main: "poll" is epoll_wait, "drain" to "signal" are in
   drain_bracket_impl, "ack" and "wait" in the pause arm. *)
WorkerPcs == {"unborn", "start", "poll", "drain", "pop", "io", "enable",
              "recheck", "signal", "ack", "wait", "exited"}
Workers == [pc : WorkerPcs, kick : BOOLEAN, stop : BOOLEAN,
            timer : {"off", "armed", "fired"}, blocked : BOOLEAN,
            outcome : {"done", "sleep", "zero"}, again : BOOLEAN,
            completed : BOOLEAN]
Unborn == [pc |-> "unborn", kick |-> FALSE, stop |-> FALSE, timer |-> "off",
           blocked |-> FALSE, outcome |-> "done", again |-> FALSE,
           completed |-> FALSE]

(* Every variable has its type. *)
TypeOK ==
    /\ status \subseteq Bits /\ ready \in BOOLEAN
    /\ gen \in 0..MaxGen /\ handle \in 0..MaxGen /\ pending \in BOOLEAN
    /\ w \in [Gens -> Workers]
    /\ stalled \in BOOLEAN /\ poisoned \in BOOLEAN /\ token \in BOOLEAN
    /\ avail \in 0..MaxReq /\ used \in Nat
    /\ notifyOn \in BOOLEAN /\ badRing \in BOOLEAN
    /\ intr \subseteq {"VRING", "CONFIG"} /\ irq \in BOOLEAN
    /\ paused \in BOOLEAN /\ pauseEvt \in BOOLEAN /\ acks \in Nat
    /\ vpc \in {"guest", "top", "submit", "load", "cas", "join", "isr", "isrAck",
                "reap"}
    /\ vparked \in BOOLEAN
    /\ vval \subseteq Bits /\ vcur \subseteq Bits /\ vjoin \in 0..MaxGen
    /\ vint \subseteq {"VRING", "CONFIG"}
    /\ sent \in 0..MaxReq /\ reaped \in Nat
    /\ freeze \in BOOLEAN /\ wrun \in BOOLEAN
    /\ fpc \in {"idle", "freeze", "pause", "wait", "dump", "thaw"}
    /\ freezes \in 0..MaxFreezes /\ resets \in 0..MaxResets
    /\ leaked \in BOOLEAN /\ raced \in BOOLEAN

(* with_options: no thread yet, its state pending, the paused sentinel set. *)
Init ==
    /\ status = {} /\ ready = FALSE
    /\ gen = 0 /\ handle = 0 /\ pending = TRUE
    /\ w = [g \in Gens |-> Unborn]
    /\ stalled = FALSE /\ poisoned = FALSE /\ token = TRUE
    /\ avail = 0 /\ used = 0 /\ notifyOn = TRUE /\ badRing = FALSE
    /\ intr = {} /\ irq = FALSE
    /\ paused = TRUE /\ pauseEvt = FALSE /\ acks = 0
    /\ vpc = "guest" /\ vparked = FALSE
    /\ vval = {} /\ vcur = {} /\ vjoin = 0 /\ vint = {}
    /\ sent = 0 /\ reaped = 0
    /\ freeze = FALSE /\ fpc = "idle" /\ wrun = FALSE
    /\ freezes = 0 /\ resets = 0 /\ leaked = FALSE /\ raced = FALSE

---------------------------------------------------------------------------
(* The vCPU: the guest's driver and the register handlers it calls.        *)

(* The vCPU runs guest code. *)
Running == vpc = "guest" /\ ~vparked

(* Back at the loop head, where a freeze is noticed. *)
AfterExit == IF freeze THEN "top" ELSE "guest"

LockFree == vpc \notin {"load", "cas", "join"}

(* The driver adds a bit to the status it reads. *)
WriteStatus ==
    /\ Running
    /\ \E b \in Bits \ {"NEEDS_RESET"} : vval' = status \cup {b}
    /\ vpc' = "load"
    /\ UNCHANGED <<status, engine, rings, irqs, park, vparked, vcur, vjoin,
                   vint, sent, reaped, coord, hist>>

SetStatusLoad ==
    /\ vpc = "load"
    /\ vcur' = status /\ vpc' = "cas"
    /\ UNCHANGED <<status, engine, rings, irqs, park, vparked, vval, vjoin,
                   vint, sent, reaped, coord, hist>>

(* One bit at a time, in order; FAILED at any time.  The driver's feature
   words are taken to be acceptable. *)
ValidStep(cur, new) ==
    \/ new = {"FAILED"}
    \/ cur = {} /\ new = {"ACK"}
    \/ cur = {"ACK"} /\ new = {"DRIVER"}
    \/ cur = {"ACK", "DRIVER"} /\ new = {"FEATURES_OK"}
    \/ cur = {"ACK", "DRIVER", "FEATURES_OK"} /\ new = {"DRIVER_OK"}

Accepted == vcur \subseteq vval /\ ValidStep(vcur, vval \ vcur)

(* The handler returns and its locals go out of scope. *)
SetStatusReturn == vpc' = AfterExit /\ vval' = {} /\ vcur' = {}

SetStatusReject ==
    /\ vpc = "cas" /\ ~Accepted
    /\ SetStatusReturn
    /\ UNCHANGED <<status, engine, rings, irqs, park, vparked, vjoin, vint,
                   sent, reaped, coord, hist>>

(* The worker has set NEEDS_RESET since the load: look again. *)
SetStatusRetry ==
    /\ vpc = "cas" /\ Accepted /\ status # vcur
    /\ vcur' = status
    /\ UNCHANGED <<status, engine, rings, irqs, park, vpc, vparked, vval,
                   vjoin, vint, sent, reaped, coord, hist>>

(* consume_pending_respawn, at DRIVER_OK: fresh eventfds and a fresh thread
   for the pending state.  The thread or an eventfd may not be had. *)
Respawn ==
    IF vval \ vcur = {"DRIVER_OK"} /\ pending
    THEN /\ pending' = FALSE /\ stalled' = FALSE /\ poisoned' = FALSE
         /\ token' = TRUE
         /\ \/ /\ gen < MaxGen
               /\ gen' = gen + 1 /\ handle' = gen + 1
               /\ w' = [w EXCEPT ![gen + 1].pc = "start"]
               /\ raced' = (raced \/ fpc # "idle")
            \/ UNCHANGED <<gen, handle, w, raced>>
    ELSE UNCHANGED <<engine, raced>>

(* Mutant of SetStatusStore: a plain store in place of the compare-exchange. *)
SetStatusStoreBlind ==
    /\ vpc = "cas" /\ Accepted
    /\ status' = vval
    /\ Respawn
    /\ SetStatusReturn
    /\ UNCHANGED <<rings, irqs, park, vparked, vjoin, vint, sent,
                   reaped, coord, resets, leaked>>

SetStatusStore ==
    /\ vpc = "cas" /\ Accepted /\ status = vcur
    /\ status' = vval
    /\ Respawn
    /\ SetStatusReturn
    /\ UNCHANGED <<rings, irqs, park, vparked, vjoin, vint, sent,
                   reaped, coord, resets, leaked>>

(* queue_config_allowed, and the write of 1 or 0 to QUEUE_READY. *)
QueueReady ==
    /\ Running
    /\ {"ACK", "DRIVER", "FEATURES_OK"} \subseteq status
    /\ "DRIVER_OK" \notin status
    /\ ready' = ~ready /\ vpc' = AfterExit
    /\ UNCHANGED <<status, engine, avail, notifyOn, used, badRing, irqs, park,
                   vparked, vval, vcur, vjoin, vint, sent, reaped, coord, hist>>

(* STATUS := 0.  Unless a state is pending already, reset clears the pause,
   writes stop_fd and takes the handle. *)
Reset ==
    /\ Running /\ resets < MaxResets
    /\ resets' = resets + 1
    /\ vpc' = "join"
    /\ IF pending
       THEN vjoin' = 0 /\ UNCHANGED <<handle, w, paused>>
       ELSE /\ vjoin' = handle /\ handle' = 0
            /\ paused' = (handle = 0)
            /\ w' = [g \in Gens |-> [w[g] EXCEPT !.stop = @ \/ g = gen]]
    /\ UNCHANGED <<status, gen, pending, stalled, poisoned, token, rings, irqs,
                   pauseEvt, acks, vparked, vval, vcur, vint, sent, reaped,
                   coord, leaked, raced>>

(* The rest of reset, after the join: the sentinel, the state kept for the
   respawn, the queue, the drained eventfds and the cleared registers.  The
   driver forgets the requests of the old queue. *)
ResetDevice(joined) ==
    /\ pending' = (pending \/ joined)
    /\ paused' = (paused \/ ~pending)
    /\ pauseEvt' = FALSE /\ irq' = FALSE /\ intr' = {} /\ status' = {}
    /\ ready' = FALSE /\ avail' = 0 /\ used' = 0
    /\ notifyOn' = TRUE /\ badRing' = FALSE
    /\ sent' = 0 /\ reaped' = 0
    /\ vjoin' = 0 /\ vpc' = AfterExit
    /\ UNCHANGED <<gen, handle, w, stalled, poisoned, token, acks, vparked,
                   vval, vcur, vint, coord, resets, raced>>

ResetJoined ==
    /\ vpc = "join"
    /\ vjoin # 0 => w[vjoin].pc = "exited"
    /\ ResetDevice(vjoin # 0)
    /\ UNCHANGED leaked

(* A thread that can run leaves within the second; one in the park loop with
   nobody to release it does not. *)
JoinFails(g) == HostFaults \/ (w[g].pc = "wait" /\ paused)

(* Mutant of ResetTimedOut: a state is made up for the respawn. *)
ResetTimedOutRespawns ==
    /\ vpc = "join" /\ vjoin # 0 /\ JoinFails(vjoin)
    /\ ResetDevice(TRUE)
    /\ leaked' = TRUE

(* The join fails (TimedOut, HelperSpawnFailed and HelperDisconnected are
   alike): the thread is left to itself and its state is lost. *)
ResetTimedOut ==
    /\ vpc = "join" /\ vjoin # 0 /\ JoinFails(vjoin)
    /\ ResetDevice(FALSE)
    /\ leaked' = TRUE

(* The driver puts a chain into the avail ring, *)
Submit ==
    /\ Running
    /\ "DRIVER_OK" \in status /\ "FAILED" \notin status /\ ready
    /\ sent < MaxReq /\ avail < MaxReq /\ ~badRing
    /\ sent' = sent + 1 /\ avail' = avail + 1
    /\ vpc' = "submit"
    /\ UNCHANGED <<status, engine, ready, notifyOn, used, badRing, irqs, park,
                   vparked, vval, vcur, vjoin, vint, reaped, coord, hist>>

(* and then writes QUEUE_NOTIFY unless the device has asked not to. *)
Notify ==
    /\ vpc = "submit" /\ ~vparked
    /\ w' = [g \in Gens |-> [w[g] EXCEPT !.kick = @ \/ (notifyOn /\ g = gen)]]
    /\ vpc' = IF notifyOn THEN AfterExit ELSE "guest"
    /\ UNCHANGED <<status, gen, handle, pending, stalled, poisoned, token,
                   rings, irqs, park, vparked, vval, vcur, vjoin, vint, sent,
                   reaped, coord, hist>>

(* The guest's avail index goes wrong. *)
BreakRing ==
    /\ Running /\ ready /\ ~badRing
    /\ badRing' = TRUE
    /\ UNCHANGED <<status, engine, ready, avail, notifyOn, used, irqs, park,
                   vcpu, coord, hist>>

(* The guest's interrupt handler: read interrupt_status, acknowledge what was
   read, reap the used ring. *)
Isr ==
    /\ Running /\ irq
    /\ irq' = FALSE /\ vpc' = "isr"
    /\ UNCHANGED <<status, engine, rings, intr, park, vparked, vval, vcur,
                   vjoin, vint, sent, reaped, coord, hist>>

IsrRead ==
    /\ vpc = "isr" /\ ~vparked
    /\ vint' = intr /\ vpc' = "isrAck"
    /\ UNCHANGED <<status, engine, rings, irqs, park, vparked, vval, vcur,
                   vjoin, sent, reaped, coord, hist>>

(* Mutant of InterruptAck: every bit is cleared, also one set since. *)
InterruptAckAll ==
    /\ vpc = "isrAck" /\ ~vparked
    /\ intr' = {} /\ vint' = {}
    /\ vpc' = IF "VRING" \in vint THEN "reap" ELSE AfterExit
    /\ UNCHANGED <<status, engine, rings, irq, park, vparked, vval, vcur,
                   vjoin, sent, reaped, coord, hist>>

InterruptAck ==
    /\ vpc = "isrAck" /\ ~vparked
    /\ intr' = intr \ vint /\ vint' = {}
    /\ vpc' = IF "VRING" \in vint THEN "reap" ELSE AfterExit
    /\ UNCHANGED <<status, engine, rings, irq, park, vparked, vval, vcur,
                   vjoin, sent, reaped, coord, hist>>

Reap ==
    /\ vpc = "reap" /\ ~vparked
    /\ reaped' = reaped + used /\ used' = 0
    /\ vpc' = AfterExit
    /\ UNCHANGED <<status, engine, ready, avail, notifyOn, badRing, irqs, park,
                   vparked, vval, vcur, vjoin, vint, sent, coord, hist>>

(* handle_freeze, entered from any place outside a register handler. *)
VcpuPark ==
    /\ freeze \/ vpc = "top"
    /\ LockFree /\ ~vparked
    /\ vparked' = TRUE
    /\ UNCHANGED <<status, engine, rings, irqs, park, vpc, vval, vcur, vjoin,
                   vint, sent, reaped, coord, hist>>

VcpuUnpark ==
    /\ vparked /\ ~freeze
    /\ vparked' = FALSE
    /\ vpc' = IF vpc = "top" THEN "guest" ELSE vpc
    /\ UNCHANGED <<status, engine, rings, irqs, park, vval, vcur, vjoin, vint,
                   sent, reaped, coord, hist>>

---------------------------------------------------------------------------
(* The worker thread g: worker_thread_main and drain_bracket_impl.  The    *)
(* events of one epoll_wait are taken one by one, in any order.            *)

WorkerStart(g) ==
    /\ w[g].pc = "start"
    /\ w' = [w EXCEPT ![g].pc = "poll"]
    /\ paused' = FALSE
    /\ UNCHANGED <<status, gen, handle, pending, stalled, poisoned, token,
                   rings, irqs, pauseEvt, acks, vcpu, coord, hist>>

WorkerStop(g) ==
    /\ w[g].pc = "poll" /\ w[g].stop
    /\ w' = [w EXCEPT ![g].pc = "exited"]
    /\ UNCHANGED <<status, gen, handle, pending, stalled, poisoned, token,
                   rings, irqs, park, vcpu, coord, hist>>

(* A kick while the last drain is stalled is left to the retry timer. *)
WorkerKick(g) ==
    /\ w[g].pc = "poll" /\ w[g].kick
    /\ w' = [w EXCEPT ![g].kick = FALSE, ![g].again = FALSE,
                      ![g].pc = IF w[g].blocked THEN "poll" ELSE "drain"]
    /\ UNCHANGED <<status, gen, handle, pending, stalled, poisoned, token,
                   rings, irqs, park, vcpu, coord, hist>>

WorkerTimer(g) ==
    /\ w[g].pc = "poll" /\ w[g].timer = "fired"
    /\ w' = [w EXCEPT ![g].timer = "off", ![g].blocked = FALSE,
                      ![g].kick = FALSE, ![g].again = FALSE, ![g].pc = "drain"]
    /\ UNCHANGED <<status, gen, handle, pending, stalled, poisoned, token,
                   rings, irqs, park, vcpu, coord, hist>>

WorkerPause(g) ==
    /\ w[g].pc = "poll" /\ pauseEvt
    /\ w' = [w EXCEPT ![g].pc = "ack"]
    /\ pauseEvt' = FALSE /\ paused' = TRUE
    /\ UNCHANGED <<status, gen, handle, pending, stalled, poisoned, token,
                   rings, irqs, acks, vcpu, coord, hist>>

WorkerAck(g) ==
    /\ w[g].pc = "ack"
    /\ w' = [w EXCEPT ![g].pc = "wait"]
    /\ acks' = acks + 1
    /\ UNCHANGED <<status, gen, handle, pending, stalled, poisoned, token,
                   rings, irqs, paused, pauseEvt, vcpu, coord, hist>>

WorkerUnpark(g) ==
    /\ w[g].pc = "wait" /\ ~paused
    /\ w' = [w EXCEPT ![g].pc = "poll"]
    /\ UNCHANGED <<status, gen, handle, pending, stalled, poisoned, token,
                   rings, irqs, park, vcpu, coord, hist>>

(* drain_bracket_impl begins: nothing to do, or notifications go off. *)
DrainBegin(g) ==
    /\ w[g].pc = "drain"
    /\ w' = [w EXCEPT ![g].outcome = "done", ![g].completed = FALSE,
                      ![g].pc = IF ready /\ ~poisoned THEN "pop" ELSE "signal"]
    /\ notifyOn' = (notifyOn /\ ~(ready /\ ~poisoned))
    /\ UNCHANGED <<status, gen, handle, pending, stalled, poisoned, token,
                   ready, avail, used, badRing, irqs, park, vcpu, coord, hist>>

(* iter fails: the avail index is out of range, or the queue was reset. *)
DrainPoison(g) ==
    /\ w[g].pc = "pop" /\ (badRing \/ ~ready)
    /\ w' = [w EXCEPT ![g].pc = "signal"]
    /\ poisoned' = TRUE
    /\ status' = status \cup {"NEEDS_RESET"}
    /\ intr' = intr \cup {"CONFIG"} /\ irq' = TRUE
    /\ UNCHANGED <<gen, handle, pending, stalled, token, rings, park, vcpu,
                   coord, hist>>

(* Mutant of DrainPop: the end of the ring is overrun. *)
DrainPopOverrun(g) ==
    /\ w[g].pc = "pop" /\ ready /\ ~badRing /\ token
    /\ w' = [w EXCEPT ![g].pc = "io"]
    /\ avail' = avail - 1 /\ stalled' = FALSE /\ token' = ~Throttled
    /\ UNCHANGED <<status, gen, handle, pending, poisoned, ready, notifyOn,
                   used, badRing, irqs, park, vcpu, coord, hist>>

(* Mutant of DrainPop: the chain is rolled back although it is served. *)
DrainPopRollsBack(g) ==
    /\ w[g].pc = "pop" /\ ready /\ ~badRing /\ avail > 0 /\ token
    /\ w' = [w EXCEPT ![g].pc = "io"]
    /\ stalled' = FALSE /\ token' = ~Throttled
    /\ UNCHANGED <<status, gen, handle, pending, poisoned, rings, irqs, park,
                   vcpu, coord, hist>>

(* A chain is popped and paid for, *)
DrainPop(g) ==
    /\ w[g].pc = "pop" /\ ready /\ ~badRing /\ avail > 0 /\ token
    /\ w' = [w EXCEPT ![g].pc = "io"]
    /\ avail' = avail - 1 /\ stalled' = FALSE /\ token' = ~Throttled
    /\ UNCHANGED <<status, gen, handle, pending, poisoned, ready, notifyOn,
                   used, badRing, irqs, park, vcpu, coord, hist>>

(* and its completion published after the read or write. *)
DrainServe(g) ==
    /\ w[g].pc = "io"
    /\ w' = [w EXCEPT ![g].pc = "pop", ![g].completed = TRUE]
    /\ used' = used + 1
    /\ UNCHANGED <<status, gen, handle, pending, stalled, poisoned, token,
                   ready, avail, notifyOn, badRing, irqs, park, vcpu, coord,
                   hist>>

(* No token: the chain is rolled back and notifications go on again.  The
   computed wait is zero when the bucket refills in between. *)
DrainStall(g) ==
    /\ w[g].pc = "pop" /\ ready /\ ~badRing /\ avail > 0 /\ ~token
    /\ \E o \in {"sleep", "zero"} :
          w' = [w EXCEPT ![g].pc = "signal", ![g].outcome = o]
    /\ stalled' = TRUE /\ notifyOn' = TRUE
    /\ UNCHANGED <<status, gen, handle, pending, poisoned, token, ready, avail,
                   used, badRing, irqs, park, vcpu, coord, hist>>

(* The ring is empty: *)
DrainEmpty(g) ==
    /\ w[g].pc = "pop" /\ ready /\ ~badRing /\ avail = 0
    /\ w' = [w EXCEPT ![g].pc = "enable"]
    /\ UNCHANGED <<status, gen, handle, pending, stalled, poisoned, token,
                   rings, irqs, park, vcpu, coord, hist>>

(* notifications go on, *)
DrainEnable(g) ==
    /\ w[g].pc = "enable"
    /\ w' = [w EXCEPT ![g].pc = "recheck"]
    /\ notifyOn' = TRUE
    /\ UNCHANGED <<status, gen, handle, pending, stalled, poisoned, token,
                   ready, avail, used, badRing, irqs, park, vcpu, coord, hist>>

(* Mutant of DrainRecheck: what enable_notification returns is ignored. *)
DrainRecheckIgnored(g) ==
    /\ w[g].pc = "recheck"
    /\ w' = [w EXCEPT ![g].pc = "signal"]
    /\ UNCHANGED <<status, gen, handle, pending, stalled, poisoned, token,
                   rings, irqs, park, vcpu, coord, hist>>

(* and the ring is looked at once more. *)
DrainRecheck(g) ==
    /\ w[g].pc = "recheck"
    /\ w' = [w EXCEPT ![g].pc = IF avail > 0 THEN "pop" ELSE "signal"]
    /\ notifyOn' = (avail = 0)
    /\ UNCHANGED <<status, gen, handle, pending, stalled, poisoned, token,
                   ready, avail, used, badRing, irqs, park, vcpu, coord, hist>>

(* The end of the drain, the interrupt, and resolve_action: go on, drain once
   more at once, or arm the retry timer. *)
DrainSignal(g) ==
    /\ w[g].pc = "signal"
    /\ intr' = IF w[g].completed THEN intr \cup {"VRING"} ELSE intr
    /\ irq' = (irq \/ w[g].completed)
    /\ LET redrain == w[g].outcome = "zero" /\ ~w[g].again
           sleep   == w[g].outcome # "done" /\ ~redrain
       IN  w' = [w EXCEPT ![g].pc = IF redrain THEN "drain" ELSE "poll",
                          ![g].again = redrain,
                          ![g].blocked = sleep,
                          ![g].timer = IF sleep THEN "armed" ELSE @,
                          ![g].outcome = "done", ![g].completed = FALSE]
    /\ UNCHANGED <<status, gen, handle, pending, stalled, poisoned, token,
                   rings, park, vcpu, coord, hist>>

TimerFires(g) ==
    /\ w[g].timer = "armed"
    /\ w' = [w EXCEPT ![g].timer = "fired"]
    /\ UNCHANGED <<status, gen, handle, pending, stalled, poisoned, token,
                   rings, irqs, park, vcpu, coord, hist>>

Refill ==
    /\ ~token
    /\ token' = TRUE
    /\ UNCHANGED <<status, gen, handle, pending, w, stalled, poisoned, rings,
                   irqs, park, vcpu, coord, hist>>

---------------------------------------------------------------------------
(* The freeze coordinator, as far as it concerns this device.              *)

(* freeze_and_capture drains parked_evt and samples the sentinel.  The
   post-thaw barrier of the freeze before has seen the vCPU leave. *)
FcSample ==
    /\ fpc = "idle" /\ ~vparked /\ freezes < MaxFreezes
    /\ fpc' = "freeze" /\ freezes' = freezes + 1
    /\ acks' = 0 /\ wrun' = ~paused
    /\ raced' = (raced \/ \E g \in Gens : w[g].pc = "start")
    /\ UNCHANGED <<status, engine, rings, irqs, paused, pauseEvt, vcpu, freeze,
                   resets, leaked>>

FcFreeze ==
    /\ fpc = "freeze"
    /\ fpc' = "pause" /\ freeze' = TRUE
    /\ UNCHANGED <<status, engine, rings, irqs, park, vcpu, wrun, freezes, hist>>

(* VirtioBlk::pause. *)
FcPause ==
    /\ fpc = "pause" /\ LockFree
    /\ fpc' = "wait"
    /\ pauseEvt' = (pauseEvt \/ handle # 0)
    /\ UNCHANGED <<status, engine, rings, irqs, paused, acks, vcpu, freeze,
                   wrun, freezes, hist>>

(* Mutant of FcDump: the worker's ack is not waited for. *)
FcDumpAtOnce ==
    /\ fpc = "wait" /\ vparked
    /\ fpc' = "dump"
    /\ UNCHANGED <<status, engine, rings, irqs, park, vcpu, freeze, wrun,
                   freezes, hist>>

(* The rendezvous is complete; guest memory is read while fpc = "dump". *)
FcDump ==
    /\ fpc = "wait" /\ vparked /\ (wrun => acks > 0)
    /\ fpc' = "dump"
    /\ UNCHANGED <<status, engine, rings, irqs, park, vcpu, freeze, wrun,
                   freezes, hist>>

(* The rendezvous deadline: the worker is gone, or busy for too long. *)
FcGiveUp ==
    /\ fpc = "wait" /\ wrun /\ acks = 0
    /\ handle = 0 \/ HostFaults
    /\ fpc' = "thaw"
    /\ raced' = (raced \/ handle # 0)
    /\ UNCHANGED <<status, engine, rings, irqs, park, vcpu, freeze, wrun,
                   freezes, resets, leaked>>

(* Mutant of FcThaw: the worker is not resumed. *)
FcThawKeepsPause ==
    /\ fpc \in {"dump", "thaw"} /\ LockFree
    /\ fpc' = "idle" /\ freeze' = FALSE /\ wrun' = FALSE
    /\ UNCHANGED <<status, engine, rings, irqs, park, vcpu, freezes, hist>>

(* VirtioBlk::resume; then freeze goes down. *)
FcThaw ==
    /\ fpc \in {"dump", "thaw"} /\ LockFree
    /\ fpc' = "idle" /\ freeze' = FALSE /\ wrun' = FALSE
    /\ paused' = (handle = 0)
    /\ UNCHANGED <<status, engine, rings, irqs, pauseEvt, acks, vcpu, freezes,
                   hist>>

---------------------------------------------------------------------------
DriverStep == \/ WriteStatus \/ QueueReady \/ Reset \/ Submit \/ BreakRing
VcpuStep == \/ SetStatusLoad \/ SetStatusReject \/ SetStatusRetry
            \/ SetStatusStore \/ ResetJoined \/ ResetTimedOut
            \/ Notify \/ IsrRead \/ InterruptAck \/ Reap
            \/ VcpuPark \/ VcpuUnpark
DrainStep(g) == \/ DrainBegin(g) \/ DrainPoison(g) \/ DrainPop(g)
                \/ DrainServe(g) \/ DrainStall(g) \/ DrainEmpty(g)
                \/ DrainEnable(g) \/ DrainRecheck(g) \/ DrainSignal(g)
WorkerStep(g) == \/ WorkerStart(g) \/ WorkerStop(g) \/ WorkerKick(g)
                 \/ WorkerTimer(g) \/ WorkerPause(g) \/ WorkerAck(g)
                 \/ WorkerUnpark(g) \/ DrainStep(g)
FreezeStep == FcFreeze \/ FcPause \/ FcDump \/ FcGiveUp \/ FcThaw

Next == \/ DriverStep \/ VcpuStep \/ Isr
        \/ \E g \in Gens : WorkerStep(g) \/ TimerFires(g)
        \/ Refill
        \/ FcSample \/ FreezeStep

Spec == Init /\ [][Next]_vars

(* Threads run on, timers fire, buckets refill and interrupts are delivered
   even to a driver that is busy with the status register.  The driver need
   do nothing of itself, and nobody need freeze the VM. *)
Fairness ==
    /\ WF_vars(VcpuStep) /\ SF_vars(Isr)
    /\ \A g \in Gens : WF_vars(WorkerStep(g)) /\ WF_vars(TimerFires(g))
    /\ WF_vars(Refill) /\ WF_vars(FreezeStep)

FairSpec == Spec /\ Fairness

---------------------------------------------------------------------------
Alive(g) == w[g].pc \notin {"unborn", "exited"}

(* There is one BlkWorkerState, so at most one worker thread lives, leaked
   threads included: no two threads ever drain the same queue and file. *)
OneWorker == \A g, h \in Gens : Alive(g) /\ Alive(h) => g = h

(* Only a reset takes NEEDS_RESET back: set_status never overwrites what the
   worker sets while the vCPU is between its load and its store. *)
NeedsResetSticks ==
    [][ "NEEDS_RESET" \in status => "NEEDS_RESET" \in status' \/ status' = {} ]_vars

(* While the coordinator reads guest memory no worker can touch it, resets
   and respawns in the middle of the freeze included; a leaked thread, one
   spawned into the freeze, and the late ack of one that was given up are
   what the rendezvous cannot see. *)
DumpIsQuiet ==
    fpc = "dump" /\ ~leaked /\ ~raced =>
        \A g \in Gens : w[g].pc \in {"unborn", "exited", "ack", "wait"}

(* A driver never sees more completions than it has requests, as long as no
   thread of an earlier binding was left behind. *)
CompletionsAreOwed == ~leaked => reaped + used <= sent

(* No request is forgotten in the ring: as long as the device has its worker
   and the ring is sound, a notification is due or written, the drain has
   still to look, or the retry timer is set.  It rests on the second look at
   the ring in enable_notification, and on the timer that resolve_action arms
   before a stalled worker may leave its kicks alone. *)
WorkIsNoticed ==
    handle # 0 /\ ready /\ avail > 0 /\ ~badRing /\ ~poisoned =>
        \/ vpc = "submit" /\ notifyOn
        \/ w[handle].kick
        \/ w[handle].pc \in {"drain", "pop", "io", "enable", "recheck"}
        \/ w[handle].pc = "signal" /\ w[handle].outcome # "done"
        \/ w[handle].blocked /\ w[handle].timer # "off"

(* No completion is forgotten in the used ring: the drain has still to signal
   it, its interrupt is on the way, or the driver is about to reap.  The
   driver acknowledges only the bits it has read, and interrupt_status is set
   before irq_evt. *)
CompletionIsSignalled ==
    used > 0 => \/ \E g \in Gens : w[g].completed
                \/ "VRING" \in intr /\ (irq \/ vpc = "isr")
                \/ vpc = "isrAck" /\ "VRING" \in vint
                \/ vpc = "reap"

(* Every request is completed and seen by the driver, unless the driver
   resets the device, breaks its ring, or the device has lost its worker:
   no notification, retry or interrupt is lost on the way. *)
RequestsComplete ==
    sent > reaped ~> \/ sent = reaped \/ badRing \/ poisoned
                     \/ handle = 0 \/ leaked \/ raced
============================================================================
