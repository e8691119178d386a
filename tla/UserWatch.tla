----------------------------- MODULE UserWatch -----------------------------
(***************************************************************************)
(* Watch snapshots.  The guest asks for a data-write watchpoint on a       *)
(* kernel symbol; the freeze coordinator publishes the request in one of   *)
(* the user slots of WatchpointArm and kicks the vCPU threads, each of     *)
(* which programs its own debug registers before it enters the guest.  A   *)
(* trapped write latches the slot; the coordinator captures, stores the    *)
(* report on the bridge under the tag of the slot, and frees the slot.     *)
(*                                                                         *)
(* The freeze is taken from StopTheWorld: a capture is full once no vCPU   *)
(* runs, and degraded when the rendezvous gives up, which it may always.   *)
(* The coordinator's wait has a time limit, so an iteration may begin at   *)
(* any time and hit_evt, which only shortens the wait, is left out.        *)
(***************************************************************************)
EXTENDS Integers, FiniteSets, Sequences, FiniteSetsExt

CONSTANTS
    Vcpus,      \* the vCPU threads
    Bsp,        \* the one of the boot processor
    Symbols,    \* symbols of vmlinux that can be armed, each with its address
    Other,      \* a tag that is no such symbol
    Nil,        \* address 0 and the empty tag
    UserSlots,  \* WatchpointArm::user.len()
    FailCap,    \* WATCHPOINT_MAX_NON_EINTR_FAILURES
    MaxReq      \* bound on requests of the guest

ASSUME WatchAssumption ==
    /\ IsFiniteSet(Vcpus) /\ Bsp \in Vcpus /\ IsFiniteSet(Symbols)
    /\ Other \notin Symbols /\ Nil \notin Symbols \cup {Other}
    /\ UserSlots \in Nat \ {0} /\ FailCap \in Nat \ {0} /\ MaxReq \in Nat

Slots == 1..UserSlots
Tags == Symbols \cup {Other, Nil}
Requests == [kind : {"watch"}, tag : Symbols \cup {Other}]
              \cup [kind : {"capture"}, tag : {Other}]

VARIABLES
    request,   \* per slot: request_kva
    tag,       \* per slot: the tag
    hit,       \* per slot: hit
    anyArmed,  \* any_armed
    vpc,       \* per vCPU: where its run loop is
    armed,     \* per vCPU: armed_slots
    want,      \* per vCPU: the requests it is about to program
    dr,        \* per vCPU: its debug registers
    failures,  \* per vCPU: failures, counted to FailCap
    ie,        \* per vCPU: immediate_exit is set
    sig,       \* per vCPU: SIGRTMIN has come while it is in an ioctl
    missed,    \* per vCPU: a signal without its byte stopped the last arming
               \* (history)
    fired,     \* per vCPU: slots of the trap still to be latched
    wrote,     \* per vCPU: the symbol whose write trapped
    tx,        \* requests sent and not yet drained from port 1
    pending,   \* requests of this iteration
    deferred,  \* capture_requests_deferred
    answered,  \* replies sent
    ready,     \* owned_accessor is Some, and with it the KASLR offset
    inFlight,  \* on_demand_in_flight
    freeze,    \* the freeze flag
    kill,      \* the kill flag
    bspDone,   \* bsp_done
    bspFinal,  \* bsp_done_final_pass
    final,     \* sched_exit_final_pass
    cpc,       \* where the coordinator is
    slot,      \* slot_idx, 0 while a request is served
    toKick,    \* vCPUs arm_user_watchpoint has yet to kick
    job,       \* tag of the capture under way
    outcome,   \* what it came to
    bridge,    \* per tag: what SnapshotBridge holds
    cause,     \* per slot: the symbol whose write latched hit (history)
    source,    \* the same for the capture under way (history)
    mislaid    \* a report lies under a tag that is not its symbol (history)

slotVars  == <<request, tag, hit, anyArmed>>
kickVars  == <<ie, sig, missed>>
vcpuVars  == <<vpc, armed, want, dr, failures, kickVars, fired, wrote>>
queueVars == <<tx, pending, deferred, answered, ready>>
passVars  == <<bspFinal, final>>
coordVars == <<inFlight, freeze, passVars, cpc, slot, toKick, job, outcome>>
bookVars  == <<bridge, cause, source, mislaid>>
endVars   == <<kill, bspDone>>
vars == <<slotVars, vcpuVars, queueVars, coordVars, endVars, bookVars>>

NoKva == [s \in Slots |-> Nil]
Alive(v) == vpc[v] # "gone"

(* Every variable has its type. *)
TypeOK ==
    /\ request \in [Slots -> Symbols \cup {Nil}]
    /\ tag \in [Slots -> Symbols \cup {Nil}]
    /\ hit \in [Slots -> BOOLEAN] /\ anyArmed \in BOOLEAN
    /\ vpc \in [Vcpus -> {"top", "ioctl", "enter", "guest", "debug",
                      "eintr", "parked", "gone"}]
    /\ armed \in [Vcpus -> [Slots -> Symbols \cup {Nil}]]
    /\ want \in [Vcpus -> [Slots -> Symbols \cup {Nil}]]
    /\ dr \in [Vcpus -> [Slots -> Symbols \cup {Nil}]]
    /\ failures \in [Vcpus -> 0..FailCap]
    /\ ie \in [Vcpus -> BOOLEAN] /\ sig \in [Vcpus -> BOOLEAN]
    /\ missed \in [Vcpus -> BOOLEAN]
    /\ fired \in [Vcpus -> SUBSET Slots]
    /\ wrote \in [Vcpus -> Symbols \cup {Nil}]
    /\ tx \in Seq(Requests) /\ pending \in Seq(Requests)
    /\ deferred \in Seq(Requests)
    /\ answered \in 0..MaxReq /\ ready \in BOOLEAN
    /\ inFlight \in BOOLEAN /\ freeze \in BOOLEAN
    /\ kill \in BOOLEAN /\ bspDone \in BOOLEAN
    /\ bspFinal \in BOOLEAN /\ final \in BOOLEAN
    /\ cpc \in {"idle", "req", "kick", "signal", "freeze", "rendezvous",
                "store", "slots", "drain", "exited"}
    /\ slot \in 0..(UserSlots + 1) /\ toKick \subseteq Vcpus
    /\ job \in Tags /\ outcome \in {"none", "real", "placeholder"}
    /\ bridge \in [Tags -> {"none", "real", "placeholder"}]
    /\ cause \in [Slots -> Symbols \cup {Nil}]
    /\ source \in Symbols \cup {Nil} /\ mislaid \in BOOLEAN

Init ==
    /\ request = NoKva /\ tag = NoKva
    /\ hit = [s \in Slots |-> FALSE] /\ anyArmed = FALSE
    /\ vpc = [v \in Vcpus |-> "top"]
    /\ armed = [v \in Vcpus |-> NoKva]
    /\ want = [v \in Vcpus |-> NoKva]
    /\ dr = [v \in Vcpus |-> NoKva]
    /\ failures = [v \in Vcpus |-> 0]
    /\ ie = [v \in Vcpus |-> FALSE] /\ sig = [v \in Vcpus |-> FALSE]
    /\ missed = [v \in Vcpus |-> FALSE]
    /\ fired = [v \in Vcpus |-> {}]
    /\ wrote = [v \in Vcpus |-> Nil]
    /\ tx = <<>> /\ pending = <<>> /\ deferred = <<>> /\ answered = 0
    /\ ready \in BOOLEAN
    /\ inFlight = FALSE /\ freeze = FALSE /\ kill = FALSE
    /\ bspDone = FALSE /\ bspFinal = FALSE /\ final = FALSE
    /\ cpc = "idle" /\ slot = 0 /\ toKick = {} /\ job = Nil
    /\ outcome = "none"
    /\ bridge = [t \in Tags |-> "none"]
    /\ cause = NoKva /\ source = Nil /\ mislaid = FALSE

---------------------------------------------------------------------------
(* A vCPU thread: the head of its run loop, self_arm_watchpoint, KVM_RUN   *)
(* and dispatch_watchpoint_hit (x86_64).                                   *)

Goto(v, l) == vpc' = [vpc EXCEPT ![v] = l]

(* The loop head, kill first, then freeze: handle_freeze clears the
   immediate_exit byte when it parks, and returns on thaw or kill. *)
LeaveLoop(v) ==
    /\ vpc[v] \in {"top", "parked"} /\ kill
    /\ Goto(v, "gone")
    /\ ie' = [ie EXCEPT ![v] = FALSE]
    /\ UNCHANGED <<slotVars, armed, want, dr, failures, sig, missed, fired,
                   wrote, queueVars, coordVars, endVars, bookVars>>

Park(v) ==
    /\ vpc[v] = "top" /\ ~kill /\ freeze
    /\ Goto(v, "parked")
    /\ ie' = [ie EXCEPT ![v] = FALSE]
    /\ UNCHANGED <<slotVars, armed, want, dr, failures, sig, missed, fired,
                   wrote, queueVars, coordVars, endVars, bookVars>>

Unpark(v) ==
    /\ vpc[v] = "parked" /\ ~kill /\ ~freeze
    /\ Goto(v, "top")
    /\ UNCHANGED <<slotVars, armed, want, dr, failures, kickVars, fired,
                   wrote, queueVars, coordVars, endVars, bookVars>>

(* self_arm_watchpoint up to the ioctl: the any_armed gate, the loads of the
   requests, and the return when they are what is armed. *)
SelfArm(v) ==
    /\ vpc[v] = "top" /\ ~kill /\ ~freeze
    /\ IF ~anyArmed \/ request = armed[v]
         THEN Goto(v, "enter") /\ UNCHANGED want
         ELSE Goto(v, "ioctl") /\ want' = [want EXCEPT ![v] = request]
    /\ missed' = [missed EXCEPT ![v] = FALSE]
    /\ UNCHANGED <<slotVars, armed, dr, failures, ie, sig, fired, wrote,
                   queueVars, coordVars, endVars, bookVars>>

(* The end of a system call: a signal that came during it is handled, by a
   handler that does nothing. *)
Handled(v) == sig' = [sig EXCEPT ![v] = FALSE]

(* A variant of ArmOk that clears the byte once the registers are set. *)
ArmOkEatsKick(v) ==
    /\ vpc[v] = "ioctl"
    /\ Goto(v, "enter") /\ Handled(v)
    /\ dr' = [dr EXCEPT ![v] = want[v]]
    /\ armed' = [armed EXCEPT ![v] = want[v]]
    /\ failures' = [failures EXCEPT ![v] = 0]
    /\ want' = [want EXCEPT ![v] = NoKva]
    /\ ie' = [ie EXCEPT ![v] = FALSE]
    /\ UNCHANGED <<slotVars, missed, fired, wrote, queueVars, coordVars,
                   endVars, bookVars>>

(* KVM_SET_GUEST_DEBUG succeeds, is interrupted by the signal of a kick, or is
   refused; FailCap refusals in a row pass the requests off as armed.  The
   loop enters the guest in each case. *)
ArmOk(v) ==
    /\ vpc[v] = "ioctl"
    /\ Goto(v, "enter") /\ Handled(v)
    /\ dr' = [dr EXCEPT ![v] = want[v]]
    /\ armed' = [armed EXCEPT ![v] = want[v]]
    /\ failures' = [failures EXCEPT ![v] = 0]
    /\ want' = [want EXCEPT ![v] = NoKva]
    /\ UNCHANGED <<slotVars, ie, missed, fired, wrote, queueVars, coordVars,
                   endVars, bookVars>>

ArmEintr(v) ==
    /\ vpc[v] = "ioctl" /\ sig[v]
    /\ Goto(v, "enter") /\ Handled(v)
    /\ want' = [want EXCEPT ![v] = NoKva]
    /\ missed' = [missed EXCEPT ![v] = ~ie[v]]
    /\ UNCHANGED <<slotVars, armed, dr, failures, ie, fired, wrote, queueVars,
                   coordVars, endVars, bookVars>>

(* A variant of ArmFails without the cap on the count. *)
ArmFailsForever(v) ==
    /\ vpc[v] = "ioctl"
    /\ Goto(v, "enter") /\ Handled(v)
    /\ failures' = [failures EXCEPT ![v] = @ + 1]
    /\ want' = [want EXCEPT ![v] = NoKva]
    /\ UNCHANGED <<slotVars, armed, dr, ie, missed, fired, wrote, queueVars,
                   coordVars, endVars, bookVars>>

ArmFails(v) ==
    /\ vpc[v] = "ioctl"
    /\ Goto(v, "enter") /\ Handled(v)
    /\ failures' = [failures EXCEPT ![v] = IF @ < FailCap THEN @ + 1 ELSE @]
    /\ armed' = IF failures'[v] >= FailCap
                  THEN [armed EXCEPT ![v] = want[v]] ELSE armed
    /\ want' = [want EXCEPT ![v] = NoKva]
    /\ UNCHANGED <<slotVars, dr, ie, missed, fired, wrote, queueVars,
                   coordVars, endVars, bookVars>>

(* KVM_RUN looks at the byte when it is called, and later only a signal makes
   it return; either way with EINTR, upon which the loop clears the byte.  Any
   other exit leaves the byte, and the next KVM_RUN returns. *)
EnterGuest(v) ==
    /\ vpc[v] = "enter"
    /\ Goto(v, IF ie[v] THEN "eintr" ELSE "guest")
    /\ UNCHANGED <<slotVars, armed, want, dr, failures, kickVars, fired,
                   wrote, queueVars, coordVars, endVars, bookVars>>

KickedOut(v) ==
    /\ vpc[v] = "guest" /\ sig[v]
    /\ Goto(v, "eintr") /\ Handled(v)
    /\ UNCHANGED <<slotVars, armed, want, dr, failures, ie, missed, fired,
                   wrote, queueVars, coordVars, endVars, bookVars>>

ClearKick(v) ==
    /\ vpc[v] = "eintr"
    /\ Goto(v, "top")
    /\ ie' = [ie EXCEPT ![v] = FALSE]
    /\ UNCHANGED <<slotVars, armed, want, dr, failures, sig, missed, fired,
                   wrote, queueVars, coordVars, endVars, bookVars>>

OtherExit(v) ==
    /\ vpc[v] = "guest"
    /\ Goto(v, "top") /\ Handled(v)
    /\ UNCHANGED <<slotVars, armed, want, dr, failures, ie, missed, fired,
                   wrote, queueVars, coordVars, endVars, bookVars>>

(* The guest writes x, and one or more debug registers of this vCPU match. *)
TrappedWrite(v, x) ==
    /\ vpc[v] = "guest"
    /\ \E s \in Slots : dr[v][s] = x
    /\ Goto(v, "debug") /\ Handled(v)
    /\ fired' = [fired EXCEPT ![v] = {s \in Slots : dr[v][s] = x}]
    /\ wrote' = [wrote EXCEPT ![v] = x]
    /\ UNCHANGED <<slotVars, armed, want, dr, failures, ie, missed, queueVars,
                   coordVars, endVars, bookVars>>

(* dispatch_watchpoint_hit takes the slots of DR6 in order; latch_user_hit
   is a compare-and-swap from false to true. *)
LatchUserHit(v) ==
    LET s == Min(fired[v]) IN
    /\ vpc[v] = "debug"
    /\ hit' = [hit EXCEPT ![s] = TRUE]
    /\ cause' = [cause EXCEPT ![s] = IF hit[s] THEN @ ELSE wrote[v]]
    /\ fired' = [fired EXCEPT ![v] = @ \ {s}]
    /\ IF fired'[v] = {}
         THEN Goto(v, "top") /\ wrote' = [wrote EXCEPT ![v] = Nil]
         ELSE UNCHANGED <<vpc, wrote>>
    /\ UNCHANGED <<request, tag, anyArmed, armed, want, dr, failures,
                   kickVars, queueVars, coordVars, endVars, bridge, source,
                   mislaid>>

VcpuStep(v) ==
    \/ LeaveLoop(v) \/ Park(v) \/ Unpark(v)
    \/ SelfArm(v) \/ ArmOk(v) \/ ArmEintr(v) \/ ArmFails(v)
    \/ EnterGuest(v) \/ KickedOut(v) \/ ClearKick(v) \/ LatchUserHit(v)

GuestStep(v) == OtherExit(v) \/ \E x \in Symbols : TrappedWrite(v, x)

---------------------------------------------------------------------------
(* The guest's executor, and whatever ends the run.                        *)

Sent == Len(tx) + Len(pending) + Len(deferred) + answered

SendRequest(r) ==
    /\ Sent < MaxReq
    /\ \E v \in Vcpus : vpc[v] = "guest"
    /\ tx' = Append(tx, r)
    /\ UNCHANGED <<slotVars, vcpuVars, pending, deferred, answered, ready,
                   coordVars, endVars, bookVars>>

Kill ==
    /\ ~kill
    /\ kill' = TRUE
    /\ UNCHANGED <<slotVars, vcpuVars, queueVars, coordVars, bspDone,
                   bookVars>>

(* The guest shuts down, which the BSP sees; and what run_vm stores when the
   BSP's loop returns, for that or for kill. *)
Shutdown ==
    /\ vpc[Bsp] = "guest"
    /\ Goto(Bsp, "gone") /\ Handled(Bsp)
    /\ ie' = [ie EXCEPT ![Bsp] = FALSE]
    /\ UNCHANGED <<slotVars, armed, want, dr, failures, missed, fired, wrote,
                   queueVars, coordVars, endVars, bookVars>>

BspDone ==
    /\ vpc[Bsp] = "gone" /\ ~bspDone
    /\ bspDone' = TRUE
    /\ UNCHANGED <<slotVars, vcpuVars, queueVars, coordVars, kill,
                   bookVars>>

---------------------------------------------------------------------------
(* The freeze coordinator, one iteration of its loop after another.        *)

(* The condition of the loop, and its break: kill and the end of the BSP each
   grant one more pass, and after the BSP's the coordinator stays only for
   deferred requests, until kill. *)
LoopEnds ==
    \/ kill /\ (IF bspDone THEN bspFinal ELSE final)
    \/ bspDone /\ bspFinal /\ (deferred = <<>> \/ ready)

FinalPass ==
    /\ bspFinal' = (bspFinal \/ bspDone)
    /\ final' = (final \/ (kill /\ ~bspDone))

(* A variant of Iterate that adopts without bringing back the deferred. *)
IterateStrands ==
    /\ cpc = "idle" /\ ~LoopEnds
    /\ FinalPass
    /\ ready' \in {ready, TRUE}
    /\ pending' = tx /\ tx' = <<>>
    /\ cpc' = "req"
    /\ UNCHANGED <<slotVars, vcpuVars, deferred, answered, inFlight, freeze,
                   slot, toKick, job, outcome, endVars, bookVars>>

(* The head of an iteration.  The port is drained, and adoption of the
   accessor brings back what was deferred. *)
Iterate ==
    /\ cpc = "idle" /\ ~LoopEnds
    /\ FinalPass
    /\ ready' \in {ready, TRUE}
    /\ pending' = tx \o (IF ready' /\ ~ready THEN deferred ELSE <<>>)
    /\ deferred' = IF ready' /\ ~ready THEN <<>> ELSE deferred
    /\ tx' = <<>>
    /\ cpc' = "req"
    /\ UNCHANGED <<slotVars, vcpuVars, answered, inFlight, freeze, slot,
                   toKick, job, outcome, endVars, bookVars>>

LeaveCoord ==
    /\ cpc = "idle" /\ LoopEnds
    /\ cpc' = "drain" /\ slot' = 1
    /\ UNCHANGED <<slotVars, vcpuVars, queueVars, inFlight, freeze,
                   passVars, toKick, job, outcome, endVars, bookVars>>

(* A variant of Defer that keeps the gate. *)
DeferLeaksGate ==
    /\ cpc = "req" /\ pending # <<>> /\ ~ready
    /\ Head(pending).kind = "watch" => ~inFlight
    /\ deferred' = Append(deferred, Head(pending))
    /\ pending' = Tail(pending)
    /\ inFlight' = (Head(pending).kind = "watch" \/ inFlight)
    /\ UNCHANGED <<slotVars, vcpuVars, tx, answered, ready, freeze,
                   passVars, cpc, slot, toKick, job, outcome, endVars,
                   bookVars>>

(* A request that needs what adoption brings waits for it: a capture before
   it asks for the gate, a watch after, giving the gate back. *)
Defer ==
    /\ cpc = "req" /\ pending # <<>> /\ ~ready
    /\ Head(pending).kind = "watch" => ~inFlight
    /\ deferred' = Append(deferred, Head(pending))
    /\ pending' = Tail(pending)
    /\ UNCHANGED <<slotVars, vcpuVars, tx, answered, ready, coordVars,
                   endVars, bookVars>>

FreeSlots == {s \in Slots : request[s] = Nil}
CanArm(t) == FreeSlots # {} /\ t \in Symbols

(* The gate is held, or there is no free slot or no such symbol: an error
   reply, with the gate as it was. *)
Refuse ==
    /\ cpc = "req" /\ pending # <<>>
    /\ \/ inFlight /\ (Head(pending).kind = "capture" => ready)
       \/ ready /\ Head(pending).kind = "watch" /\ ~CanArm(Head(pending).tag)
    /\ pending' = Tail(pending)
    /\ answered' = answered + 1
    /\ UNCHANGED <<slotVars, vcpuVars, tx, deferred, ready, coordVars,
                   endVars, bookVars>>

(* arm_user_watchpoint: the first free slot, tag before address, the gate of
   self_arm_watchpoint, and only then the kicks. *)
Publish ==
    LET s == Min(FreeSlots)
        t == Head(pending).tag IN
    /\ cpc = "req" /\ pending # <<>> /\ ready /\ ~inFlight
    /\ Head(pending).kind = "watch" /\ CanArm(t)
    /\ inFlight' = TRUE
    /\ tag' = [tag EXCEPT ![s] = t]
    /\ request' = [request EXCEPT ![s] = t]
    /\ anyArmed' = TRUE
    /\ toKick' = Vcpus /\ cpc' = "kick"
    /\ UNCHANGED <<hit, vcpuVars, queueVars, freeze, passVars, slot, job,
                   outcome, endVars, bookVars>>

(* The kick, in two passes with a fence between them: every byte, then a
   SIGRTMIN to every vCPU.  Outside a system call the handler uses the signal
   up at once. *)
KickOne(v) ==
    /\ cpc = "kick" /\ v \in toKick
    /\ toKick' = toKick \ {v}
    /\ ie' = [ie EXCEPT ![v] = Alive(v)]
    /\ UNCHANGED <<slotVars, vpc, armed, want, dr, failures, sig, missed,
                   fired, wrote, queueVars, inFlight, freeze, passVars, cpc,
                   slot, job, outcome, endVars, bookVars>>

Fence ==
    /\ cpc = "kick" /\ toKick = {}
    /\ toKick' = Vcpus /\ cpc' = "signal"
    /\ UNCHANGED <<slotVars, vcpuVars, queueVars, inFlight, freeze, passVars,
                   slot, job, outcome, endVars, bookVars>>

Interruptible(v) == vpc[v] \in {"ioctl", "guest"}

SignalOne(v) ==
    /\ cpc = "signal" /\ v \in toKick
    /\ toKick' = toKick \ {v}
    /\ sig' = [sig EXCEPT ![v] = Interruptible(v)]
    /\ UNCHANGED <<slotVars, vpc, armed, want, dr, failures, ie, missed,
                   fired, wrote, queueVars, inFlight, freeze, passVars, cpc,
                   slot, job, outcome, endVars, bookVars>>

WatchReply ==
    /\ cpc = "signal" /\ toKick = {}
    /\ pending' = Tail(pending) /\ answered' = answered + 1
    /\ inFlight' = FALSE
    /\ cpc' = "req"
    /\ UNCHANGED <<slotVars, vcpuVars, tx, deferred, ready, freeze,
                   passVars, slot, toKick, job, outcome, endVars, bookVars>>

BeginCapture ==
    /\ cpc = "req" /\ pending # <<>> /\ ready /\ ~inFlight
    /\ Head(pending).kind = "capture"
    /\ inFlight' = TRUE
    /\ slot' = 0 /\ job' = Head(pending).tag /\ source' = Nil
    /\ cpc' = "freeze"
    /\ UNCHANGED <<slotVars, vcpuVars, queueVars, freeze, passVars, toKick,
                   outcome, endVars, bridge, cause, mislaid>>

RequestsDone ==
    /\ cpc = "req" /\ pending = <<>>
    /\ cpc' = "slots" /\ slot' = 1
    /\ UNCHANGED <<slotVars, vcpuVars, queueVars, inFlight, freeze,
                   passVars, toKick, job, outcome, endVars, bookVars>>

(* The walk over the user slots: swap(hit, false) and, if it was set, the tag
   and the gate; a held gate puts the hit back. *)
QuietSlot ==
    /\ cpc = "slots" /\ slot \in Slots /\ ~hit[slot]
    /\ slot' = slot + 1
    /\ UNCHANGED <<slotVars, vcpuVars, queueVars, inFlight, freeze,
                   passVars, cpc, toKick, job, outcome, endVars, bookVars>>

FiredSlot ==
    /\ cpc = "slots" /\ slot \in Slots /\ hit[slot]
    /\ IF inFlight
         THEN /\ slot' = slot + 1
              /\ UNCHANGED <<hit, inFlight, cpc, job, cause, source>>
         ELSE /\ hit' = [hit EXCEPT ![slot] = FALSE]
              /\ cause' = [cause EXCEPT ![slot] = Nil]
              /\ inFlight' = TRUE
              /\ job' = tag[slot] /\ source' = cause[slot]
              /\ cpc' = "freeze"
              /\ UNCHANGED slot
    /\ UNCHANGED <<request, tag, anyArmed, vcpuVars, queueVars, freeze,
                   passVars, toKick, outcome, endVars, bridge, mislaid>>

EndIteration ==
    /\ cpc = "slots" /\ slot > UserSlots
    /\ cpc' = "idle" /\ slot' = 0
    /\ UNCHANGED <<slotVars, vcpuVars, queueVars, inFlight, freeze,
                   passVars, toKick, job, outcome, endVars, bookVars>>

(* freeze_and_capture, which does not freeze once the BSP is done, and
   thaw_and_barrier.  Its kick is one step: the flag is up before the bytes
   and until after the signals, so that a vCPU that has used its byte up
   parks and no signal of the freeze finds it in an ioctl. *)
Freeze ==
    /\ cpc = "freeze"
    /\ freeze' = ~bspDone
    /\ ie' = IF bspDone THEN ie ELSE [v \in Vcpus |-> Alive(v)]
    /\ sig' = IF bspDone THEN sig ELSE [v \in Vcpus |-> Interruptible(v)]
    /\ cpc' = "rendezvous"
    /\ UNCHANGED <<slotVars, vpc, armed, want, dr, failures, missed, fired,
                   wrote, queueVars, inFlight, passVars, slot, toKick, job,
                   outcome, endVars, bookVars>>

Capture(o) ==
    /\ cpc = "rendezvous"
    /\ IF o = "real"
         THEN freeze => \A v \in Vcpus : vpc[v] \in {"parked", "gone"}
         ELSE freeze
    /\ outcome' = o
    /\ freeze' = FALSE
    /\ cpc' = "store"
    /\ UNCHANGED <<slotVars, vcpuVars, queueVars, inFlight, passVars, slot,
                   toKick, job, endVars, bookVars>>

StoreReport ==
    /\ bridge' = [bridge EXCEPT ![job] = outcome]
    /\ mislaid' = (mislaid \/ (slot \in Slots /\ job # source))
    /\ job' = Nil /\ outcome' = "none" /\ source' = Nil

CaptureReply ==
    /\ cpc = "store" /\ slot = 0
    /\ StoreReport
    /\ pending' = Tail(pending) /\ answered' = answered + 1
    /\ inFlight' = FALSE
    /\ cpc' = "req"
    /\ UNCHANGED <<slotVars, vcpuVars, tx, deferred, ready, freeze,
                   passVars, slot, toKick, endVars, cause>>

(* The report under the tag read before the freeze, then the slot is free. *)
ReleaseSlot ==
    /\ cpc = "store" /\ slot \in Slots
    /\ StoreReport
    /\ tag' = [tag EXCEPT ![slot] = Nil]
    /\ request' = [request EXCEPT ![slot] = Nil]
    /\ inFlight' = FALSE
    /\ cpc' = "slots" /\ slot' = slot + 1
    /\ UNCHANGED <<hit, anyArmed, vcpuVars, queueVars, freeze, passVars,
                   toKick, endVars, cause>>

(* A variant of DrainSlot that only resets the hits. *)
DrainSlotSilent ==
    /\ cpc = "drain" /\ slot \in Slots
    /\ hit' = [hit EXCEPT ![slot] = FALSE]
    /\ cause' = [cause EXCEPT ![slot] = Nil]
    /\ slot' = slot + 1
    /\ UNCHANGED <<request, tag, anyArmed, vcpuVars, queueVars, inFlight,
                   freeze, passVars, cpc, toKick, job, outcome, endVars,
                   bridge, source, mislaid>>

(* After the loop: a hit nobody served becomes a placeholder, unless the
   bridge has a report under that tag. *)
DrainSlot ==
    /\ cpc = "drain" /\ slot \in Slots
    /\ hit' = [hit EXCEPT ![slot] = FALSE]
    /\ cause' = [cause EXCEPT ![slot] = Nil]
    /\ bridge' = IF hit[slot] /\ bridge[tag[slot]] = "none"
                   THEN [bridge EXCEPT ![tag[slot]] = "placeholder"]
                   ELSE bridge
    /\ slot' = slot + 1
    /\ UNCHANGED <<request, tag, anyArmed, vcpuVars, queueVars, inFlight,
                   freeze, passVars, cpc, toKick, job, outcome, endVars,
                   source, mislaid>>

CoordExit ==
    /\ cpc = "drain" /\ slot > UserSlots
    /\ cpc' = "exited"
    /\ UNCHANGED <<slotVars, vcpuVars, queueVars, inFlight, freeze,
                   passVars, slot, toKick, job, outcome, endVars, bookVars>>

CoordStep ==
    \/ Iterate \/ LeaveCoord
    \/ Defer \/ Refuse \/ Publish \/ (\E v \in Vcpus : KickOne(v))
    \/ Fence \/ (\E v \in Vcpus : SignalOne(v)) \/ WatchReply
    \/ BeginCapture \/ RequestsDone
    \/ QuietSlot \/ FiredSlot \/ EndIteration
    \/ Freeze \/ (\E o \in {"real", "placeholder"} : Capture(o))
    \/ CaptureReply \/ ReleaseSlot \/ DrainSlot \/ CoordExit

(* The coordinator and every vCPU thread have ended. *)
Ended ==
    /\ cpc = "exited" /\ \A v \in Vcpus : vpc[v] = "gone"
    /\ UNCHANGED vars

Next ==
    \/ \E v \in Vcpus : VcpuStep(v) \/ GuestStep(v)
    \/ \E r \in Requests : SendRequest(r)
    \/ Kill \/ Shutdown \/ BspDone \/ CoordStep \/ Ended

Spec == Init /\ [][Next]_vars

(* Threads run, and KVM_RUN returns to a kick; that the guest leaves KVM_RUN
   by itself, writes or asks for anything is not assumed. *)
FairSpec ==
    /\ Spec
    /\ WF_vars(CoordStep) /\ WF_vars(BspDone)
    /\ \A v \in Vcpus : WF_vars(VcpuStep(v))
---------------------------------------------------------------------------
(* The signal of a kick is still to be sent to v. *)
KickDue(v) == cpc = "kick" \/ (cpc = "signal" /\ v \in toKick)

(* No vCPU goes on running the guest with a watch it has missed: one that is
   in KVM_RUN, or about to call it, and that no kick stops has every published
   request in its debug registers.  (request_kva is stored before any_armed
   and the kicks; the byte stops the vCPUs outside KVM_RUN and the signal
   those inside, and the requests are read again after each.)  Not so when
   KVM_SET_GUEST_DEBUG was refused, or interrupted by a signal whose byte an
   earlier KVM_RUN had used up: self_arm_watchpoint retries only after the
   next exit, which nothing then forces. *)
WatchNotMissed ==
    \A v \in Vcpus, s \in Slots :
        /\ (vpc[v] = "enter" /\ ~ie[v]) \/ (vpc[v] = "guest" /\ ~sig[v])
        /\ ~KickDue(v) /\ request[s] # Nil
        /\ failures[v] = 0 /\ ~missed[v]
        => dr[v][s] = request[s]

(* The capture gate is free whenever the coordinator looks at it, so no
   request is refused as busy and no hit is put back: every path that takes
   on_demand_in_flight, deferral of a watch included, clears it. *)
GateIsCleared == cpc \in {"idle", "req", "slots", "drain"} => ~inFlight

(* Adoption of the accessor is the only thing that brings deferred requests
   back, and it happens once: none may be deferred after it. *)
NoneStranded == ready => deferred = <<>>

(* The reports under a tag survive the coordinator's exit: the drain does not
   put a placeholder over a report that is there. *)
DrainKeepsReports ==
    [][\A t \in Tags : cpc = "drain" /\ bridge[t] = "real"
                         => bridge'[t] = "real"]_vars

(* A latched hit is not lost: whatever the gate, the freeze and the teardown
   do, something is stored under the tag of the slot it was latched in. *)
FireIsRecorded ==
    \A s \in Slots, t \in Symbols :
        (hit[s] /\ tag[s] = t /\ cpc \notin {"drain", "exited"})
            ~> bridge[t] # "none"

(* What the guide says of Op::watch_snapshot: a fire is one capture, tagged
   with the symbol that was written. *)
CaptureIsOfItsSymbol == ~mislaid
=============================================================================
