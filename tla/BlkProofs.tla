----------------------------- MODULE BlkProofs -----------------------------
(* Theorems about BlkLifecycle, for every value of its constants. *)
EXTENDS BlkLifecycle, TLAPS

\* Most leaves are first-order; those that need more say so.
USE Zenon

(* What the lifecycle of the threads depends on. *)
EngineTypes ==
    /\ gen \in 0..MaxGen /\ handle \in 0..MaxGen /\ vjoin \in 0..MaxGen
    /\ pending \in BOOLEAN /\ w \in [Gens -> Workers]

(* There is one BlkWorkerState: it is pending, or with the newest thread, or
   lost.  Only that thread may be alive, and not while the state is pending;
   the handle, or the reset that took it, is for that thread. *)
Lifecycle ==
    /\ EngineTypes
    /\ \A g \in Gens : g > gen => w[g].pc = "unborn"
    /\ \A g \in Gens : Alive(g) => g = gen /\ ~pending
    /\ handle # 0 => handle = gen /\ ~pending
    /\ vjoin # 0 => vpc = "join" /\ vjoin = gen /\ handle = 0 /\ ~pending

(* No thread comes to life, and the engine's fields are as they were. *)
NoBirth ==
    /\ w' \in [Gens -> Workers]
    /\ \A g \in Gens : /\ Alive(g)' => Alive(g)
                       /\ w[g].pc = "unborn" => w'[g].pc = "unborn"

\* A step that starts no thread and leaves the handles alone keeps Lifecycle.
LEMMA NoBirthKeepsLifecycle ==
    ASSUME Lifecycle, NoBirth, UNCHANGED <<gen, handle, pending, vjoin>>,
           vjoin # 0 => vpc' = "join"
    PROVE  Lifecycle'
  BY DEF Lifecycle, NoBirth, EngineTypes, Gens, Alive

(* A worker's own step changes its own record only and never its stop_fd; a
   thread that has ended or not begun can at most have its timer fire, and one
   ends only when it is told to stop. *)
WorkerMove(g) ==
    /\ w'[g] \in Workers /\ w' = [w EXCEPT ![g] = w'[g]]
    /\ w'[g].stop = w[g].stop
    /\ \/ /\ Alive(g) /\ w'[g].pc # "unborn"
          /\ w'[g].pc = "exited" => w[g].stop
       \/ w'[g].pc = w[g].pc

\* What a worker thread can write: its own record, and it may only die.
LEMMA WorkerMoves ==
    ASSUME EngineTypes, NEW g \in Gens, WorkerStep(g) \/ TimerFires(g)
    PROVE  WorkerMove(g)
  <1> USE DEF EngineTypes, Workers, WorkerPcs, WorkerMove, Alive
  <1>0. w[g] \in Workers OBVIOUS
  <1>1. CASE WorkerStart(g) BY <1>0, <1>1 DEF WorkerStart
  <1>2. CASE WorkerStop(g) BY <1>0, <1>2 DEF WorkerStop
  <1>3. CASE WorkerKick(g) BY <1>0, <1>3 DEF WorkerKick
  <1>4. CASE WorkerTimer(g) BY <1>0, <1>4 DEF WorkerTimer
  <1>5. CASE TimerFires(g) BY <1>0, <1>5 DEF TimerFires
  <1>6. CASE WorkerPause(g) BY <1>0, <1>6 DEF WorkerPause
  <1>7. CASE WorkerAck(g) BY <1>0, <1>7 DEF WorkerAck
  <1>8. CASE WorkerUnpark(g) BY <1>0, <1>8 DEF WorkerUnpark
  <1>9. CASE DrainBegin(g) BY <1>0, <1>9 DEF DrainBegin
  <1>10. CASE DrainPoison(g) BY <1>0, <1>10 DEF DrainPoison
  <1>11. CASE DrainPop(g) BY <1>0, <1>11 DEF DrainPop
  <1>12. CASE DrainServe(g) BY <1>0, <1>12 DEF DrainServe
  <1>13. CASE DrainStall(g)
    <2>1. PICK o \in {"sleep", "zero"} :
              w' = [w EXCEPT ![g].pc = "signal", ![g].outcome = o]
      BY <1>13 DEF DrainStall
    <2> QED BY <1>0, <2>1, <1>13 DEF DrainStall
  <1>14. CASE DrainEnable(g) BY <1>0, <1>14 DEF DrainEnable
  <1>15. CASE DrainRecheck(g) BY <1>0, <1>15 DEF DrainRecheck
  <1>16. CASE DrainSignal(g)
    <2> DEFINE r == w[g].outcome = "zero" /\ ~w[g].again
               s == w[g].outcome # "done" /\ ~r
    <2>1. w' = [w EXCEPT ![g].pc = IF r THEN "drain" ELSE "poll",
                         ![g].again = r,
                         ![g].blocked = s,
                         ![g].timer = IF s THEN "armed" ELSE @,
                         ![g].outcome = "done", ![g].completed = FALSE]
      BY <1>16 DEF DrainSignal
    <2>2. r \in BOOLEAN /\ s \in BOOLEAN OBVIOUS
    <2>3. Alive(g) BY <1>16 DEF DrainSignal
    <2> HIDE DEF r, s
    <2>4. (IF r THEN "drain" ELSE "poll") \in {"drain", "poll"} OBVIOUS
    <2>5. w'[g] = [w[g] EXCEPT !.pc = IF r THEN "drain" ELSE "poll",
                               !.again = r, !.blocked = s,
                               !.timer = IF s THEN "armed" ELSE @,
                               !.outcome = "done", !.completed = FALSE]
      BY <2>1
    <2>6. w'[g] \in Workers BY <1>0, <2>2, <2>4, <2>5
    <2>7. w' = [w EXCEPT ![g] = w'[g]] BY <2>1
    <2>8. w'[g].pc \notin {"unborn", "exited"} /\ w'[g].stop = w[g].stop
      BY <1>0, <2>4, <2>5
    <2> QED BY <2>3, <2>6, <2>7, <2>8
  <1>17. CASE DrainEmpty(g) BY <1>0, <1>17 DEF DrainEmpty
  <1> QED
    BY <1>1, <1>2, <1>3, <1>4, <1>5, <1>6, <1>7, <1>8, <1>9, <1>10, <1>11,
       <1>12, <1>13, <1>14, <1>15, <1>16, <1>17 DEF WorkerStep, DrainStep

\* No step of a worker thread adds a thread or moves a handle.
LEMMA WorkerKeepsLifecycle ==
    ASSUME Lifecycle, NEW g \in Gens, WorkerStep(g) \/ TimerFires(g)
    PROVE  Lifecycle'
  <1>1. UNCHANGED <<gen, handle, pending, vjoin, vpc>>
    BY DEF WorkerStep, DrainStep, WorkerStart, WorkerStop, WorkerKick,
           WorkerTimer, WorkerPause, WorkerAck, WorkerUnpark, DrainBegin,
           DrainPoison, DrainPop, DrainServe, DrainStall, DrainEmpty,
           DrainEnable, DrainRecheck, DrainSignal, TimerFires, vcpu
  <1>2. EngineTypes BY DEF Lifecycle
  <1>3. WorkerMove(g) BY <1>2, WorkerMoves
  <1>4. w' \in [Gens -> Workers] BY <1>2, <1>3 DEF WorkerMove, EngineTypes
  <1>5. \A h \in Gens : h # g => w'[h] = w[h]
    BY <1>2, <1>3 DEF WorkerMove, EngineTypes
  <1>6. NoBirth BY <1>3, <1>4, <1>5 DEF WorkerMove, NoBirth, Alive
  <1> QED BY <1>1, <1>6, NoBirthKeepsLifecycle DEF Lifecycle

(* The steps of the vCPU and the coordinator that leave the engine alone. *)
LEMMA OtherStepsKeepLifecycle ==
    ASSUME Lifecycle, UNCHANGED <<gen, handle, pending, w, vjoin>>,
           vjoin # 0 => vpc' = "join"
    PROVE  Lifecycle'
  <1>1. NoBirth BY DEF NoBirth, Lifecycle, EngineTypes, Alive
  <1> QED BY <1>1, NoBirthKeepsLifecycle

(* Writing an eventfd moves no thread. *)
LEMMA EventfdWrites ==
    ASSUME EngineTypes, NEW g \in Gens, NEW b \in BOOLEAN
    PROVE  /\ [w[g] EXCEPT !.kick = b] \in Workers
           /\ [w[g] EXCEPT !.stop = b] \in Workers
           /\ [w[g] EXCEPT !.kick = b].pc = w[g].pc
           /\ [w[g] EXCEPT !.stop = b].pc = w[g].pc
  <1>1. w[g] \in Workers BY DEF EngineTypes
  <1> QED BY <1>1 DEF Workers

\* Every step keeps Lifecycle; only the spawns and the reset are not frames.
LEMMA LifecycleStep == Lifecycle /\ [Next]_vars => Lifecycle'
  <1> SUFFICES ASSUME Lifecycle, [Next]_vars PROVE Lifecycle'
    OBVIOUS
  <1> USE DEF vcpu, engine
  <1>1. CASE UNCHANGED vars
    BY <1>1, OtherStepsKeepLifecycle DEF vars, Lifecycle
  <1>2. CASE \E g \in Gens : WorkerStep(g) \/ TimerFires(g)
    BY <1>2, WorkerKeepsLifecycle
  <1>3. CASE \/ WriteStatus \/ QueueReady \/ Submit \/ BreakRing \/ Isr
    BY <1>3, OtherStepsKeepLifecycle
       DEF WriteStatus, QueueReady, Submit, BreakRing, Isr, Running, Lifecycle
  <1>4. CASE \/ SetStatusLoad \/ SetStatusReject \/ SetStatusRetry
    BY <1>4, OtherStepsKeepLifecycle
       DEF SetStatusLoad, SetStatusReject, SetStatusRetry, SetStatusReturn,
           Lifecycle
  <1>5. CASE \/ IsrRead \/ InterruptAck \/ Reap \/ VcpuPark \/ VcpuUnpark
    BY <1>5, OtherStepsKeepLifecycle
       DEF IsrRead, InterruptAck, Reap, VcpuPark, VcpuUnpark, LockFree,
           Lifecycle
  <1>6. CASE Refill \/ FcSample \/ FreezeStep
    BY <1>6, OtherStepsKeepLifecycle
       DEF Refill, FcSample, FreezeStep, FcFreeze, FcPause, FcDump, FcGiveUp,
           FcThaw, Lifecycle
  <1>7. CASE Notify
    <2>1. EngineTypes BY DEF Lifecycle
    <2>3. \A g \in Gens : \E b \in BOOLEAN : w'[g] = [w[g] EXCEPT !.kick = b]
      BY <1>7 DEF Notify
    <2>4. \A g \in Gens : w'[g] \in Workers /\ w'[g].pc = w[g].pc
      BY <2>1, <2>3, EventfdWrites
    <2>5. NoBirth
      BY <1>7, <2>4 DEF Notify, NoBirth, Alive
    <2>2. UNCHANGED <<gen, handle, pending, vjoin>> /\ vpc = "submit"
      BY <1>7 DEF Notify
    <2> QED BY <2>5, <2>2, NoBirthKeepsLifecycle DEF Lifecycle
  <1>8. CASE Reset
    <2>1. EngineTypes BY DEF Lifecycle
    <2>2. \A g \in Gens : \/ w'[g] = w[g]
                          \/ \E b \in BOOLEAN : w'[g] = [w[g] EXCEPT !.stop = b]
      BY <1>8 DEF Reset
    <2>3. \A g \in Gens : w'[g] \in Workers /\ w'[g].pc = w[g].pc
      BY <2>1, <2>2, EventfdWrites DEF EngineTypes
    <2>4. w' \in [Gens -> Workers]
      BY <1>8, <2>1, <2>3 DEF Reset, EngineTypes
    <2>5. /\ UNCHANGED <<gen, pending>> /\ vpc' = "join"
          /\ \/ pending /\ vjoin' = 0 /\ handle' = handle
             \/ ~pending /\ vjoin' = handle /\ handle' = 0
      BY <1>8 DEF Reset
    <2> QED BY <2>3, <2>4, <2>5 DEF Lifecycle, EngineTypes, Alive
  <1>9. CASE ResetJoined
    BY <1>9 DEF ResetJoined, ResetDevice, Lifecycle, EngineTypes, Alive
  <1>10. CASE ResetTimedOut
    BY <1>10 DEF ResetTimedOut, ResetDevice, Lifecycle, EngineTypes, Alive
  <1>11. CASE SetStatusStore
    <2>1. vpc = "cas" /\ vjoin' = vjoin /\ Respawn
      BY <1>11 DEF SetStatusStore
    <2>2. vjoin = 0 BY <2>1 DEF Lifecycle
    <2>3. CASE UNCHANGED <<gen, handle, w, pending>>
      BY <2>1, <2>2, <2>3 DEF Lifecycle, EngineTypes, Alive
    <2>5. CASE UNCHANGED <<gen, handle, w>> /\ pending' = FALSE
      BY <2>1, <2>2, <2>5 DEF Lifecycle, EngineTypes, Alive
    <2>4. CASE /\ pending /\ ~pending' /\ pending' \in BOOLEAN
               /\ gen < MaxGen /\ gen' = gen + 1 /\ handle' = gen + 1
               /\ w' = [w EXCEPT ![gen + 1].pc = "start"]
      <3>1. gen + 1 \in Gens /\ gen \in Nat /\ w \in [Gens -> Workers]
        BY <2>4, LifecycleAssumption, SMT DEF Lifecycle, EngineTypes, Gens
      <3>2. [w[gen + 1] EXCEPT !.pc = "start"] \in Workers
        BY <3>1 DEF Workers, WorkerPcs
      <3>3. w' = [w EXCEPT ![gen + 1] = [w[gen + 1] EXCEPT !.pc = "start"]]
        BY <2>4
      <3>4. w' \in [Gens -> Workers] BY <3>1, <3>2, <3>3
      <3>5. \A g \in Gens : g # gen + 1 => w'[g] = w[g] BY <3>1, <3>3
      <3>6. \A g \in Gens : ~Alive(g)
        BY <2>4 DEF Lifecycle
      <3>7. \A g \in Gens : Alive(g)' => g = gen + 1
        BY <3>5, <3>6 DEF Alive
      <3>8. \A g \in Gens : g > gen + 1 => w'[g].pc = "unborn"
        BY <3>1, <3>5, SMT DEF Lifecycle, Gens
      <3>9. gen' \in 0..MaxGen /\ handle' \in 0..MaxGen
        BY <2>4, <3>1, SMT DEF Gens
      <3> QED
        BY <2>1, <2>2, <2>4, <3>1, <3>4, <3>7, <3>8, <3>9
           DEF Lifecycle, EngineTypes
    <2> QED BY <2>1, <2>3, <2>4, <2>5 DEF Respawn
  <1> QED
    BY <1>1, <1>2, <1>3, <1>4, <1>5, <1>6, <1>7, <1>8, <1>9, <1>10, <1>11
       DEF Next, DriverStep, VcpuStep

\* No worker has been spawned initially.
LEMMA InitLifecycle == Init => Lifecycle
  BY LifecycleAssumption, SMT
     DEF Init, Lifecycle, EngineTypes, Gens, Workers, WorkerPcs, Unborn, Alive

(* At most one worker thread lives, whatever the number of resets, leaked
   threads and respawns: OneWorker. *)
THEOREM AtMostOneWorker == Spec => []OneWorker
  <1>1. Lifecycle => OneWorker BY DEF Lifecycle, OneWorker
  <1> QED BY <1>1, InitLifecycle, LifecycleStep, PTL DEF Spec

(* Only a reset takes NEEDS_RESET back: NeedsResetSticks. *)
THEOREM NeedsResetSurvives == Spec => NeedsResetSticks
  <1> DEFINE Keeps == "NEEDS_RESET" \in status =>
                         "NEEDS_RESET" \in status' \/ status' = {}
  <1>1. [Next]_vars => [Keeps]_vars
    <2> SUFFICES ASSUME Next PROVE Keeps OBVIOUS
    <2>1. CASE SetStatusStore
      BY <2>1 DEF SetStatusStore, Accepted
    <2>2. CASE ResetJoined \/ ResetTimedOut
      BY <2>2 DEF ResetJoined, ResetTimedOut, ResetDevice
    <2>3. CASE \E g \in Gens : DrainPoison(g)
      BY <2>3 DEF DrainPoison
    <2>4. CASE status' = status BY <2>4
    <2>5. DriverStep => status' = status
      BY DEF DriverStep, WriteStatus, QueueReady, Reset, Submit, BreakRing
    <2>6. VcpuStep => \/ SetStatusStore \/ ResetJoined \/ ResetTimedOut
                      \/ status' = status
      BY DEF VcpuStep, SetStatusLoad, SetStatusReject, SetStatusRetry, Notify,
             IsrRead, InterruptAck, Reap, VcpuPark, VcpuUnpark
    <2>7. ASSUME NEW g \in Gens, WorkerStep(g) \/ TimerFires(g)
          PROVE  DrainPoison(g) \/ status' = status
      <3>1. CASE \/ WorkerStart(g) \/ WorkerStop(g) \/ WorkerKick(g)
                 \/ WorkerTimer(g) \/ TimerFires(g)
        BY <3>1 DEF WorkerStart, WorkerStop, WorkerKick, WorkerTimer, TimerFires
      <3>2. CASE WorkerPause(g) \/ WorkerAck(g) \/ WorkerUnpark(g)
        BY <3>2 DEF WorkerPause, WorkerAck, WorkerUnpark
      <3>3. CASE DrainBegin(g) \/ DrainPop(g) \/ DrainServe(g) \/ DrainStall(g)
        BY <3>3 DEF DrainBegin, DrainPop, DrainServe, DrainStall
      <3>4. CASE \/ DrainEmpty(g) \/ DrainEnable(g) \/ DrainRecheck(g)
                 \/ DrainSignal(g)
        BY <3>4 DEF DrainEmpty, DrainEnable, DrainRecheck, DrainSignal
      <3> QED BY <2>7, <3>1, <3>2, <3>3, <3>4 DEF WorkerStep, DrainStep
    <2>8. Isr \/ Refill \/ FcSample \/ FreezeStep => status' = status
      BY DEF Isr, Refill, FcSample, FreezeStep, FcFreeze, FcPause, FcDump,
             FcGiveUp, FcThaw
    <2> QED BY <2>1, <2>2, <2>3, <2>4, <2>5, <2>6, <2>7, <2>8 DEF Next
  <1> QED BY <1>1, PTL DEF Spec, NeedsResetSticks
---------------------------------------------------------------------------
(* Types. *)

\* Types: the guest driver and its ring.
LEMMA TypesOfDriver ==
    ASSUME TypeOK, EngineTypes',
           \/ WriteStatus \/ QueueReady \/ Reset \/ Submit \/ BreakRing \/ Isr
    PROVE  TypeOK'
  <1> USE DEF TypeOK, EngineTypes, vcpu, engine, rings, irqs, park, coord, hist
  <1>0. AfterExit \in {"top", "guest"} BY DEF AfterExit
  <1>1. CASE WriteStatus
    <2>1. vval' \subseteq Bits BY <1>1 DEF WriteStatus
    <2> QED BY <1>1, <2>1, SMT DEF WriteStatus
  <1>2. CASE QueueReady BY <1>0, <1>2, SMT DEF QueueReady
  <1>3. CASE Reset
    <2>1. paused' \in BOOLEAN BY <1>3 DEF Reset
    <2>2. resets' \in 0..MaxResets BY <1>3, LifecycleAssumption, SMT DEF Reset
    <2> QED BY <1>3, <2>1, <2>2, SMT DEF Reset
  <1>4. CASE Submit
    <2>1. sent' \in 0..MaxReq /\ avail' \in 0..MaxReq
      BY <1>4, LifecycleAssumption, SMT DEF Submit
    <2> QED BY <1>4, <2>1, SMT DEF Submit
  <1>5. CASE BreakRing BY <1>5, SMT DEF BreakRing
  <1>6. CASE Isr
    <2>1. irq' \in BOOLEAN /\ vpc' = "isr" BY <1>6 DEF Isr
    <2>2. UNCHANGED <<status, engine, rings, intr, park, vparked, vval, vcur,
                      vjoin, vint, sent, reaped, coord, hist>>
      BY <1>6 DEF Isr
    <2> QED BY <2>1, <2>2, SMT
  <1> QED BY <1>1, <1>2, <1>3, <1>4, <1>5, <1>6

\* Types: the vCPU thread in the device (MMIO exits, reset, respawn).
LEMMA TypesOfVcpu ==
    ASSUME TypeOK, EngineTypes', VcpuStep
    PROVE  TypeOK'
  <1> USE DEF TypeOK, EngineTypes, vcpu, engine, rings, irqs, park, coord, hist
  <1>0. AfterExit \in {"top", "guest"} BY DEF AfterExit
  <1>1. CASE SetStatusLoad \/ SetStatusRetry
    <2>1. vcur' = status /\ (vpc' = "cas" \/ vpc' = vpc)
      BY <1>1 DEF SetStatusLoad, SetStatusRetry
    <2>2. UNCHANGED <<status, engine, rings, irqs, park, vparked, vval, vjoin,
                      vint, sent, reaped, coord, hist>>
      BY <1>1 DEF SetStatusLoad, SetStatusRetry
    <2> QED BY <2>1, <2>2, SMT
  <1>2. CASE SetStatusReject BY <1>0, <1>2, SMT DEF SetStatusReject, SetStatusReturn
  <1>3. CASE SetStatusStore
    <2>1. /\ stalled' \in BOOLEAN /\ poisoned' \in BOOLEAN /\ token' \in BOOLEAN
          /\ raced' \in BOOLEAN
      BY <1>3 DEF SetStatusStore, Respawn
    <2>2. /\ status' \subseteq Bits /\ vval' = {} /\ vcur' = {}
          /\ vpc' \in {"top", "guest"}
      BY <1>0, <1>3 DEF SetStatusStore, SetStatusReturn
    <2>3. UNCHANGED <<rings, irqs, park, vparked, vjoin, vint, sent, reaped,
                      coord, resets, leaked>>
      BY <1>3 DEF SetStatusStore
    <2> QED BY <2>1, <2>2, <2>3, SMT
  <1>4. CASE ResetJoined \/ ResetTimedOut
    <2>1. PICK j \in BOOLEAN : ResetDevice(j)
      BY <1>4 DEF ResetJoined, ResetTimedOut
    <2>2. leaked' \in BOOLEAN BY <1>4 DEF ResetJoined, ResetTimedOut
    <2>3. paused' \in BOOLEAN BY <2>1 DEF ResetDevice
    <2>4. avail' \in 0..MaxReq /\ sent' \in 0..MaxReq
      BY <2>1, LifecycleAssumption, SMT DEF ResetDevice
    <2>5. /\ pauseEvt' \in BOOLEAN /\ irq' \in BOOLEAN /\ ready' \in BOOLEAN
          /\ notifyOn' \in BOOLEAN /\ badRing' \in BOOLEAN
      BY <2>1 DEF ResetDevice
    <2>7. /\ intr' = {} /\ status' = {} /\ used' = 0 /\ reaped' = 0
          /\ vpc' \in {"top", "guest"}
      BY <1>0, <2>1 DEF ResetDevice
    <2>6. UNCHANGED <<stalled, poisoned, token, acks, vparked, vval, vcur, vint,
                      coord, resets, raced>>
      BY <2>1 DEF ResetDevice
    <2> QED BY <2>2, <2>3, <2>4, <2>5, <2>6, <2>7, SMT
  <1>5. CASE Notify BY <1>0, <1>5, SMT DEF Notify
  <1>6. CASE IsrRead BY <1>6, SMT DEF IsrRead
  <1>7. CASE InterruptAck
    <2>1. vpc' \in {"reap", "top", "guest"} BY <1>0, <1>7 DEF InterruptAck
    <2>2. intr' \subseteq {"VRING", "CONFIG"} BY <1>7 DEF InterruptAck
    <2> QED BY <1>7, <2>1, <2>2, SMT DEF InterruptAck
  <1>8. CASE Reap BY <1>0, <1>8, SMT DEF Reap
  <1>9. CASE VcpuPark BY <1>9, SMT DEF VcpuPark
  <1>10. CASE VcpuUnpark
    <2>1. vpc' = vpc \/ vpc' = "guest" BY <1>10 DEF VcpuUnpark
    <2>2. vparked' \in BOOLEAN BY <1>10 DEF VcpuUnpark
    <2>3. UNCHANGED <<status, engine, rings, irqs, park, vval, vcur, vjoin, vint,
                      sent, reaped, coord, hist>>
      BY <1>10 DEF VcpuUnpark
    <2> QED BY <2>1, <2>2, <2>3, SMT
  <1> QED BY <1>1, <1>2, <1>3, <1>4, <1>5, <1>6, <1>7, <1>8, <1>9, <1>10
          DEF VcpuStep

\* Types: the bucket and the freeze coordinator.
LEMMA TypesOfCoordinator ==
    ASSUME TypeOK, EngineTypes', Refill \/ FcSample \/ FreezeStep
    PROVE  TypeOK'
  <1> USE DEF TypeOK, EngineTypes, vcpu, engine, rings, irqs, park, coord, hist
  <1>1. CASE Refill BY <1>1, SMT DEF Refill
  <1>2. CASE FcSample
    <2>1. wrun' \in BOOLEAN /\ raced' \in BOOLEAN BY <1>2 DEF FcSample
    <2>2. freezes' \in 0..MaxFreezes BY <1>2, LifecycleAssumption, SMT DEF FcSample
    <2> QED BY <1>2, <2>1, <2>2, SMT DEF FcSample
  <1>3. CASE FcFreeze BY <1>3, SMT DEF FcFreeze
  <1>4. CASE FcPause
    <2>1. pauseEvt' \in BOOLEAN BY <1>4 DEF FcPause
    <2> QED BY <1>4, <2>1, SMT DEF FcPause
  <1>5. CASE FcDump BY <1>5, SMT DEF FcDump
  <1>6. CASE FcGiveUp
    <2>1. raced' \in BOOLEAN BY <1>6 DEF FcGiveUp
    <2> QED BY <1>6, <2>1, SMT DEF FcGiveUp
  <1>7. CASE FcThaw
    <2>1. paused' \in BOOLEAN BY <1>7 DEF FcThaw
    <2>2. fpc' = "idle" /\ freeze' \in BOOLEAN /\ wrun' \in BOOLEAN
      BY <1>7 DEF FcThaw
    <2>3. UNCHANGED <<status, engine, rings, irqs, pauseEvt, acks, vcpu, freezes,
                      hist>>
      BY <1>7 DEF FcThaw
    <2> QED BY <2>1, <2>2, <2>3, SMT
  <1> QED BY <1>1, <1>2, <1>3, <1>4, <1>5, <1>6, <1>7 DEF FreezeStep

\* Types: the worker threads.
LEMMA TypesOfWorker ==
    ASSUME TypeOK, EngineTypes', NEW g \in Gens, WorkerStep(g) \/ TimerFires(g)
    PROVE  TypeOK'
  <1> USE DEF TypeOK, EngineTypes, vcpu, engine, rings, irqs, park, coord, hist
  <1>1. CASE WorkerStart(g)
    <2>1. paused' \in BOOLEAN BY <1>1 DEF WorkerStart
    <2>2. UNCHANGED <<status, gen, handle, pending, stalled, poisoned, token,
                      rings, irqs, pauseEvt, acks, vcpu, coord, hist>>
      BY <1>1 DEF WorkerStart
    <2> QED BY <2>1, <2>2, SMT
  <1>2. CASE WorkerStop(g) BY <1>2, SMT DEF WorkerStop
  <1>3. CASE WorkerKick(g) BY <1>3, SMT DEF WorkerKick
  <1>4. CASE WorkerTimer(g) BY <1>4, SMT DEF WorkerTimer
  <1>5. CASE WorkerPause(g)
    <2>1. pauseEvt' \in BOOLEAN /\ paused' \in BOOLEAN BY <1>5 DEF WorkerPause
    <2>2. UNCHANGED <<status, gen, handle, pending, stalled, poisoned, token,
                      rings, irqs, acks, vcpu, coord, hist>>
      BY <1>5 DEF WorkerPause
    <2> QED BY <2>1, <2>2, SMT
  <1>6. CASE WorkerAck(g) BY <1>6, SMT DEF WorkerAck
  <1>7. CASE WorkerUnpark(g) BY <1>7, SMT DEF WorkerUnpark
  <1>8. CASE DrainBegin(g)
    <2>1. notifyOn' \in BOOLEAN BY <1>8 DEF DrainBegin
    <2> QED BY <1>8, <2>1, SMT DEF DrainBegin
  <1>9. CASE DrainPoison(g) BY <1>9, SMT DEF DrainPoison, Bits
  <1>10. CASE DrainPop(g)
    <2>1. token' \in BOOLEAN BY <1>10 DEF DrainPop
    <2>2. avail' \in 0..MaxReq BY <1>10, LifecycleAssumption, SMT DEF DrainPop
    <2>3. stalled' \in BOOLEAN BY <1>10 DEF DrainPop
    <2>4. UNCHANGED <<status, gen, handle, pending, poisoned, ready, notifyOn,
                      used, badRing, irqs, park, vcpu, coord, hist>>
      BY <1>10 DEF DrainPop
    <2> QED BY <2>1, <2>2, <2>3, <2>4, SMT
  <1>11. CASE DrainServe(g) BY <1>11, SMT DEF DrainServe
  <1>12. CASE DrainStall(g) BY <1>12, SMT DEF DrainStall
  <1>13. CASE DrainEmpty(g) BY <1>13, SMT DEF DrainEmpty
  <1>14. CASE DrainEnable(g) BY <1>14, SMT DEF DrainEnable
  <1>15. CASE DrainRecheck(g)
    <2>1. notifyOn' \in BOOLEAN BY <1>15 DEF DrainRecheck
    <2> QED BY <1>15, <2>1, SMT DEF DrainRecheck
  <1>16. CASE DrainSignal(g)
    <2>1. intr' \subseteq {"VRING", "CONFIG"} BY <1>16 DEF DrainSignal
    <2>2. irq' \in BOOLEAN BY <1>16 DEF DrainSignal
    <2>3. UNCHANGED <<status, gen, handle, pending, stalled, poisoned, token,
                      rings, park, vcpu, coord, hist>>
      BY <1>16 DEF DrainSignal
    <2> QED BY <2>1, <2>2, <2>3, SMT
  <1>17. CASE TimerFires(g) BY <1>17, SMT DEF TimerFires
  <1> QED
    BY <1>1, <1>2, <1>3, <1>4, <1>5, <1>6, <1>7, <1>8, <1>9, <1>10, <1>11,
       <1>12, <1>13, <1>14, <1>15, <1>16, <1>17 DEF WorkerStep, DrainStep

\* The initial state has the declared types.
LEMMA InitTypes == Init => TypeOK
  <1> SUFFICES ASSUME Init PROVE TypeOK OBVIOUS
  <1>1. EngineTypes BY InitLifecycle DEF Lifecycle
  <1>2. 0 \in 0..MaxReq /\ 0 \in 0..MaxFreezes /\ 0 \in 0..MaxResets /\ 0 \in Nat
    BY LifecycleAssumption, SMT
  <1> QED BY <1>1, <1>2 DEF Init, TypeOK, EngineTypes

\* Every step keeps the declared types.
LEMMA TypesStep == Lifecycle /\ TypeOK /\ [Next]_vars => TypeOK'
  <1> SUFFICES ASSUME Lifecycle, TypeOK, [Next]_vars PROVE TypeOK'
    OBVIOUS
  <1>1. EngineTypes' BY LifecycleStep DEF Lifecycle
  <1>2. CASE UNCHANGED vars
    <2>1. UNCHANGED <<status, engine, rings, irqs, park, vcpu, coord, hist>>
      BY <1>2 DEF vars
    <2> QED BY <2>1, SMT DEF TypeOK, vcpu, engine, rings, irqs, park, coord, hist
  <1>3. CASE Next
    BY <1>1, <1>3, TypesOfDriver, TypesOfVcpu, TypesOfCoordinator, TypesOfWorker
       DEF Next, DriverStep
  <1> QED BY <1>2, <1>3

(* Every variable of the device has its type: TypeOK. *)
THEOREM TypeCorrect == Spec => []TypeOK
  BY InitTypes, InitLifecycle, TypesStep, LifecycleStep, PTL DEF Spec

---------------------------------------------------------------------------
(* What the steps do to the threads.                                        *)

\* What no worker thread writes: the handles, the vCPU and the coordinator.
LEMMA WorkerFrame ==
    ASSUME NEW g \in Gens, WorkerStep(g) \/ TimerFires(g)
    PROVE  UNCHANGED <<gen, handle, pending, vcpu, coord, hist>>
  <1>1. CASE \/ WorkerStart(g) \/ WorkerStop(g) \/ WorkerKick(g)
             \/ WorkerTimer(g) \/ TimerFires(g)
    BY <1>1 DEF WorkerStart, WorkerStop, WorkerKick, WorkerTimer, TimerFires
  <1>2. CASE WorkerPause(g) \/ WorkerAck(g) \/ WorkerUnpark(g)
    BY <1>2 DEF WorkerPause, WorkerAck, WorkerUnpark
  <1>3. CASE \/ DrainBegin(g) \/ DrainPoison(g) \/ DrainPop(g) \/ DrainServe(g)
             \/ DrainStall(g)
    BY <1>3 DEF DrainBegin, DrainPoison, DrainPop, DrainServe, DrainStall
  <1>4. CASE \/ DrainEmpty(g) \/ DrainEnable(g) \/ DrainRecheck(g)
             \/ DrainSignal(g)
    BY <1>4 DEF DrainEmpty, DrainEnable, DrainRecheck, DrainSignal
  <1> QED BY <1>1, <1>2, <1>3, <1>4 DEF WorkerStep, DrainStep

Working == {"poll", "drain", "pop", "io", "enable", "recheck", "signal"}

(* A thread outside the pause arm stays outside it, and the pause protocol's
   variables are left alone. *)
LEMMA WorkingStep ==
    ASSUME EngineTypes, NEW g \in Gens, WorkerStep(g) \/ TimerFires(g),
           ~WorkerStart(g), ~WorkerPause(g), ~WorkerAck(g), ~WorkerUnpark(g)
    PROVE  /\ UNCHANGED park
           /\ \/ w'[g].pc = w[g].pc
              \/ w[g].pc \in Working /\ w'[g].pc \in Working \cup {"exited"}
  <1> USE DEF EngineTypes, Workers, WorkerPcs, Working
  <1>0. w[g] \in Workers OBVIOUS
  <1>1. CASE WorkerStop(g) BY <1>0, <1>1 DEF WorkerStop
  <1>2. CASE WorkerKick(g) BY <1>0, <1>2 DEF WorkerKick
  <1>3. CASE WorkerTimer(g) BY <1>0, <1>3 DEF WorkerTimer
  <1>4. CASE TimerFires(g) BY <1>0, <1>4 DEF TimerFires
  <1>5. CASE DrainBegin(g) BY <1>0, <1>5 DEF DrainBegin
  <1>6. CASE DrainPoison(g) BY <1>0, <1>6 DEF DrainPoison
  <1>7. CASE DrainPop(g) BY <1>0, <1>7 DEF DrainPop
  <1>8. CASE DrainServe(g) BY <1>0, <1>8 DEF DrainServe
  <1>9. CASE DrainStall(g) BY <1>0, <1>9, SMT DEF DrainStall
  <1>10. CASE DrainEmpty(g) BY <1>0, <1>10 DEF DrainEmpty
  <1>11. CASE DrainEnable(g) BY <1>0, <1>11 DEF DrainEnable
  <1>12. CASE DrainRecheck(g) BY <1>0, <1>12 DEF DrainRecheck
  <1>13. CASE DrainSignal(g)
    <2>1. w'[g].pc \in {"drain", "poll"} BY <1>0, <1>13 DEF DrainSignal
    <2> QED BY <1>13, <2>1 DEF DrainSignal
  <1> QED
    BY <1>1, <1>2, <1>3, <1>4, <1>5, <1>6, <1>7, <1>8, <1>9, <1>10, <1>11,
       <1>12, <1>13 DEF WorkerStep, DrainStep

(* What a request is worth at each point of the drain. *)
LEMMA RequestStep ==
    ASSUME EngineTypes, NEW g \in Gens, WorkerStep(g) \/ TimerFires(g)
    PROVE  \/ /\ w[g].pc = "pop" /\ avail > 0
              /\ avail' = avail - 1 /\ used' = used
           \/ /\ w[g].pc = "io" /\ w'[g].pc = "pop"
              /\ avail' = avail /\ used' = used + 1
           \/ /\ UNCHANGED <<avail, used>>
              /\ w'[g].pc = "io" => w[g].pc = "io"
  <1> USE DEF EngineTypes, Workers, WorkerPcs, rings
  <1>0. w[g] \in Workers OBVIOUS
  <1>1. CASE WorkerStart(g) BY <1>0, <1>1 DEF WorkerStart
  <1>2. CASE WorkerStop(g) BY <1>0, <1>2 DEF WorkerStop
  <1>3. CASE WorkerKick(g) BY <1>0, <1>3 DEF WorkerKick
  <1>4. CASE WorkerTimer(g) BY <1>0, <1>4 DEF WorkerTimer
  <1>5. CASE WorkerPause(g) BY <1>0, <1>5 DEF WorkerPause
  <1>6. CASE WorkerAck(g) BY <1>0, <1>6 DEF WorkerAck
  <1>7. CASE WorkerUnpark(g) BY <1>0, <1>7 DEF WorkerUnpark
  <1>8. CASE DrainBegin(g) BY <1>0, <1>8 DEF DrainBegin
  <1>9. CASE DrainPoison(g) BY <1>0, <1>9 DEF DrainPoison
  <1>10. CASE DrainPop(g) BY <1>10 DEF DrainPop
  <1>11. CASE DrainServe(g) BY <1>0, <1>11 DEF DrainServe
  <1>12. CASE DrainStall(g) BY <1>0, <1>12 DEF DrainStall
  <1>13. CASE DrainEmpty(g) BY <1>0, <1>13 DEF DrainEmpty
  <1>14. CASE DrainEnable(g) BY <1>0, <1>14 DEF DrainEnable
  <1>15. CASE DrainRecheck(g) BY <1>0, <1>15 DEF DrainRecheck
  <1>16. CASE DrainSignal(g)
    <2>1. w'[g].pc \in {"drain", "poll"} BY <1>0, <1>16 DEF DrainSignal
    <2> QED BY <1>16, <2>1 DEF DrainSignal
  <1>17. CASE TimerFires(g) BY <1>0, <1>17 DEF TimerFires
  <1> QED
    BY <1>1, <1>2, <1>3, <1>4, <1>5, <1>6, <1>7, <1>8, <1>9, <1>10, <1>11,
       <1>12, <1>13, <1>14, <1>15, <1>16, <1>17 DEF WorkerStep, DrainStep

(* QUEUE_NOTIFY moves no thread and stops none; a reset moves none. *)
LEMMA NotifyWrites ==
    ASSUME EngineTypes, Notify, NEW g \in Gens
    PROVE  w'[g].pc = w[g].pc /\ w'[g].stop = w[g].stop
  <1>1. w[g] \in Workers BY DEF EngineTypes
  <1>2. w'[g] = [w[g] EXCEPT !.kick = @ \/ (notifyOn /\ g = gen)] BY DEF Notify
  <1> QED BY <1>1, <1>2 DEF Workers

\* Reset moves no thread, and tells only the latest one to stop.
LEMMA ResetWrites ==
    ASSUME EngineTypes, Reset, NEW g \in Gens
    PROVE  w'[g].pc = w[g].pc /\ (g # gen => w'[g].stop = w[g].stop)
  <1>1. w[g] \in Workers BY DEF EngineTypes
  <1>2. CASE w' = w BY <1>2
  <1>3. CASE w'[g] = [w[g] EXCEPT !.stop = @ \/ g = gen]
    BY <1>1, <1>3 DEF Workers
  <1> QED BY <1>2, <1>3 DEF Reset

(* DRIVER_OK changes no thread but the one that it spawns. *)
Spawned ==
    /\ pending /\ gen' = gen + 1 /\ gen' \in Gens /\ handle' = gen + 1
    /\ raced' = (raced \/ fpc # "idle")
    /\ w'[gen + 1].pc = "start" /\ w'[gen + 1].stop = w[gen + 1].stop
    /\ \A g \in Gens : g # gen + 1 => w'[g] = w[g]

\* Respawn either gives up or starts the next thread.
LEMMA RespawnSpawns ==
    ASSUME EngineTypes, Respawn
    PROVE  UNCHANGED <<gen, handle, w, raced>> \/ Spawned
  <1>1. CASE /\ gen < MaxGen /\ pending
             /\ gen' = gen + 1 /\ handle' = gen + 1
             /\ w' = [w EXCEPT ![gen + 1].pc = "start"]
             /\ raced' = (raced \/ fpc # "idle")
    <2>1. gen + 1 \in Gens /\ w \in [Gens -> Workers]
      BY <1>1, LifecycleAssumption, SMT DEF EngineTypes, Gens
    <2>2. w[gen + 1] \in Workers BY <2>1
    <2>3. w'[gen + 1] = [w[gen + 1] EXCEPT !.pc = "start"] BY <1>1, <2>1
    <2>4. w'[gen + 1].pc = "start" /\ w'[gen + 1].stop = w[gen + 1].stop
      BY <2>2, <2>3 DEF Workers
    <2>5. \A g \in Gens : g # gen + 1 => w'[g] = w[g] BY <1>1, <2>1
    <2> QED BY <1>1, <2>1, <2>4, <2>5 DEF Spawned
  <1> QED BY <1>1 DEF Respawn, engine

---------------------------------------------------------------------------
(* Requests and completions.                                                *)

(* The thread the handle is for lives and has not been told to stop; a live
   thread is the handle's or the one a reset joins, unless a reset has left
   it behind; and a reset has taken the handle. *)
Owners ==
    /\ \A g \in Gens : g > gen => ~w[g].stop
    /\ handle # 0 => Alive(handle) /\ ~w[handle].stop
    /\ ~leaked => \A g \in Gens : Alive(g) => handle = g \/ vjoin = g
    /\ vpc = "join" => handle = 0

\* Owners reads the threads, the handles and where a join is under way.
LEMMA OwnersFrame ==
    ASSUME Owners, UNCHANGED <<gen, handle, w, vjoin, leaked>>,
           vpc' = "join" => vpc = "join"
    PROVE  Owners'
  BY DEF Owners, Alive

\* Every step keeps Owners.
LEMMA OwnersStep ==
    ASSUME Lifecycle, Lifecycle', Owners, [Next]_vars
    PROVE  Owners'
  <1> USE DEF vcpu, engine, coord, hist
  <1>0. EngineTypes /\ EngineTypes' BY DEF Lifecycle
  <1>a. AfterExit # "join" BY DEF AfterExit
  <1>1. CASE UNCHANGED vars BY <1>1, OwnersFrame DEF vars
  <1>2. ASSUME NEW g \in Gens, WorkerStep(g) \/ TimerFires(g) PROVE Owners'
    <2>1. UNCHANGED <<gen, handle, pending, vjoin, vpc, leaked>>
      BY <1>2, WorkerFrame
    <2>2. WorkerMove(g) BY <1>0, <1>2, WorkerMoves
    <2>3. \A h \in Gens : h # g => w'[h] = w[h]
      BY <1>0, <2>2 DEF WorkerMove, EngineTypes
    <2>4. \A h \in Gens : w'[h].stop = w[h].stop
      BY <2>2, <2>3 DEF WorkerMove
    <2>5. \A h \in Gens : Alive(h)' => Alive(h)
      BY <2>2, <2>3 DEF WorkerMove, Alive
    <2>6. \A h \in Gens : Alive(h) /\ ~w[h].stop => Alive(h)'
      BY <2>2, <2>3 DEF WorkerMove, Alive
    <2>7. handle # 0 => handle \in Gens BY <1>0, SMT DEF EngineTypes, Gens
    <2> QED BY <2>1, <2>4, <2>5, <2>6, <2>7 DEF Owners
  <1>3. CASE WriteStatus \/ QueueReady \/ Submit \/ BreakRing \/ Isr
    BY <1>3, <1>a, OwnersFrame DEF WriteStatus, QueueReady, Submit, BreakRing, Isr
  <1>4. CASE SetStatusLoad \/ SetStatusReject \/ SetStatusRetry
    BY <1>4, <1>a, OwnersFrame
       DEF SetStatusLoad, SetStatusReject, SetStatusRetry, SetStatusReturn
  <1>5. CASE IsrRead \/ InterruptAck \/ Reap \/ VcpuPark \/ VcpuUnpark
    BY <1>5, <1>a, OwnersFrame DEF IsrRead, InterruptAck, Reap, VcpuPark, VcpuUnpark
  <1>6. CASE Refill \/ FcSample \/ FreezeStep
    BY <1>6, OwnersFrame
       DEF Refill, FcSample, FreezeStep, FcFreeze, FcPause, FcDump, FcGiveUp, FcThaw
  <1>7. CASE Notify
    <2>1. \A g \in Gens : w'[g].pc = w[g].pc /\ w'[g].stop = w[g].stop
      BY <1>0, <1>7, NotifyWrites
    <2>2. handle # 0 => handle \in Gens BY <1>0, SMT DEF EngineTypes, Gens
    <2>3. UNCHANGED <<gen, handle, vjoin, leaked>> /\ vpc' # "join"
      BY <1>7, <1>a DEF Notify
    <2> QED BY <2>1, <2>2, <2>3 DEF Owners, Alive
  <1>8. CASE Reset
    <2>1. \A g \in Gens : w'[g].pc = w[g].pc /\ (g # gen => w'[g].stop = w[g].stop)
      BY <1>0, <1>8, ResetWrites
    <2>2. /\ UNCHANGED <<gen, leaked>> /\ vpc = "guest"
          /\ \/ pending /\ vjoin' = 0 /\ handle' = handle
             \/ vjoin' = handle /\ handle' = 0
      BY <1>8 DEF Reset, Running
    <2>3. vjoin = 0 /\ handle' = 0 BY <2>2 DEF Lifecycle
    <2>4. \A g \in Gens : g > gen' => ~w'[g].stop
      BY <1>0, <2>1, <2>2, SMT DEF Owners, EngineTypes, Gens
    <2>5. \A g \in Gens : Alive(g)' => Alive(g) BY <2>1 DEF Alive
    <2>6. ~leaked' => \A g \in Gens : Alive(g)' => vjoin' = g
      BY <2>2, <2>3, <2>5, SMT DEF Owners, Lifecycle
    <2> QED BY <2>2, <2>3, <2>4, <2>6 DEF Owners
  <1>9. CASE ResetJoined
    <2>1. /\ UNCHANGED <<gen, handle, w, leaked>> /\ vpc = "join"
          /\ vjoin # 0 => w[vjoin].pc = "exited"
          /\ vjoin' = 0 /\ vpc' # "join"
      BY <1>9, <1>a DEF ResetJoined, ResetDevice
    <2> QED BY <2>1 DEF Owners, Alive
  <1>10. CASE ResetTimedOut
    <2>1. UNCHANGED <<gen, handle, w>> /\ leaked' /\ vpc' # "join"
      BY <1>10, <1>a DEF ResetTimedOut, ResetDevice
    <2> QED BY <2>1 DEF Owners, Alive
  <1>11. CASE SetStatusStore
    <2>1. UNCHANGED <<vjoin, leaked>> /\ vpc' # "join" /\ Respawn
      BY <1>11, <1>a DEF SetStatusStore, SetStatusReturn
    <2>2. CASE Spawned
      <3>1. gen \in Nat /\ gen + 1 \in Gens BY <1>0, <2>2, SMT DEF Spawned, EngineTypes
      <3>2. ~w[gen + 1].stop BY <3>1, SMT DEF Owners
      <3>3. \A g \in Gens : g > gen + 1 => ~w'[g].stop
        BY <2>2, <3>1, SMT DEF Spawned, Owners, Gens
      <3>4. \A g \in Gens : Alive(g)' => g = gen + 1
        BY <2>2 DEF Lifecycle, Spawned, Alive
      <3> QED BY <2>1, <2>2, <3>2, <3>3, <3>4 DEF Owners, Spawned, Alive
    <2> QED BY <1>0, <2>1, <2>2, RespawnSpawns, OwnersFrame
  <1> QED
    BY <1>1, <1>2, <1>3, <1>4, <1>5, <1>6, <1>7, <1>8, <1>9, <1>10, <1>11
       DEF Next, DriverStep, VcpuStep

(* Each request of the driver is at one place: in the avail ring, in the
   worker's hands, in the used ring, or reaped. *)
Accounts ==
    ~leaked => /\ reaped + used + avail <= sent
               /\ \A g \in Gens : w[g].pc = "io" => reaped + used + avail < sent

\* Accounts reads the request counters and which threads are in an I/O.
LEMMA AccountsFrame ==
    ASSUME Accounts, UNCHANGED <<leaked, sent, reaped, used, avail>>,
           \A g \in Gens : w'[g].pc = "io" => w[g].pc = "io"
    PROVE  Accounts'
  BY DEF Accounts

\* Every step keeps Accounts: a completion uses up one popped request.
LEMMA AccountsStep ==
    ASSUME TypeOK, Lifecycle, Lifecycle', Owners, Accounts, [Next]_vars
    PROVE  Accounts'
  <1> USE DEF vcpu, engine, coord, hist, rings
  <1>0. EngineTypes /\ EngineTypes' BY DEF Lifecycle
  <1>t. sent \in Nat /\ avail \in Nat /\ used \in Nat /\ reaped \in Nat
    BY LifecycleAssumption, SMT DEF TypeOK
  <1>1. CASE UNCHANGED vars BY <1>1, AccountsFrame DEF vars
  <1>2. ASSUME NEW g \in Gens, WorkerStep(g) \/ TimerFires(g) PROVE Accounts'
    <2>1. UNCHANGED <<leaked, sent, reaped>> BY <1>2, WorkerFrame
    <2>2. WorkerMove(g) BY <1>0, <1>2, WorkerMoves
    <2>3. \A h \in Gens : h # g => w'[h] = w[h]
      BY <1>0, <2>2 DEF WorkerMove, EngineTypes
    <2>4. \A h \in Gens : Alive(g) /\ Alive(h) => h = g BY DEF Lifecycle
    <2>5. CASE /\ w[g].pc = "pop" /\ avail > 0
               /\ avail' = avail - 1 /\ used' = used
      BY <1>t, <2>1, <2>5, SMT DEF Accounts
    <2>6. CASE /\ w[g].pc = "io" /\ w'[g].pc = "pop"
               /\ avail' = avail /\ used' = used + 1
      <3>1. \A h \in Gens : w'[h].pc # "io" BY <2>3, <2>4, <2>6 DEF Alive
      <3> QED BY <1>t, <2>1, <2>6, <3>1, SMT DEF Accounts
    <2>7. CASE /\ UNCHANGED <<avail, used>>
               /\ w'[g].pc = "io" => w[g].pc = "io"
      BY <2>1, <2>3, <2>7, AccountsFrame
    <2> QED BY <1>0, <1>2, <2>5, <2>6, <2>7, RequestStep
  <1>3. CASE WriteStatus \/ QueueReady \/ BreakRing \/ Isr
    BY <1>3, AccountsFrame DEF WriteStatus, QueueReady, BreakRing, Isr
  <1>4. CASE SetStatusLoad \/ SetStatusReject \/ SetStatusRetry
    BY <1>4, AccountsFrame DEF SetStatusLoad, SetStatusReject, SetStatusRetry
  <1>5. CASE IsrRead \/ InterruptAck \/ VcpuPark \/ VcpuUnpark
    BY <1>5, AccountsFrame DEF IsrRead, InterruptAck, VcpuPark, VcpuUnpark
  <1>6. CASE Refill \/ FcSample \/ FreezeStep
    BY <1>6, AccountsFrame
       DEF Refill, FcSample, FreezeStep, FcFreeze, FcPause, FcDump, FcGiveUp, FcThaw
  <1>7. CASE Notify
    BY <1>0, <1>7, NotifyWrites, AccountsFrame DEF Notify
  <1>8. CASE Reset
    BY <1>0, <1>8, ResetWrites, AccountsFrame DEF Reset
  <1>9. CASE ResetJoined
    <2>1. /\ UNCHANGED <<handle, w, leaked>> /\ vpc = "join"
          /\ vjoin # 0 => w[vjoin].pc = "exited"
          /\ sent' = 0 /\ reaped' = 0 /\ used' = 0 /\ avail' = 0
      BY <1>9 DEF ResetJoined, ResetDevice
    <2>2. ~leaked => \A g \in Gens : ~Alive(g)
      BY <2>1, SMT DEF Owners, Alive, Gens
    <2> QED BY <2>1, <2>2, SMT DEF Accounts, Alive
  <1>10. CASE ResetTimedOut
    BY <1>10 DEF ResetTimedOut, Accounts
  <1>11. CASE SetStatusStore
    <2>1. UNCHANGED <<leaked, sent, reaped, used, avail>> /\ Respawn
      BY <1>11 DEF SetStatusStore
    <2>2. CASE Spawned
      <3>1. \A g \in Gens : w'[g].pc = "io" => w[g].pc = "io"
        BY <2>2 DEF Spawned
      <3> QED BY <2>1, <3>1, AccountsFrame
    <2> QED BY <1>0, <2>1, <2>2, RespawnSpawns, AccountsFrame
  <1>12. CASE Submit
    <2>1. UNCHANGED <<leaked, reaped, used, w>> /\ sent' = sent + 1 /\ avail' = avail + 1
      BY <1>12 DEF Submit
    <2> QED BY <1>t, <2>1, SMT DEF Accounts
  <1>13. CASE Reap
    <2>1. UNCHANGED <<leaked, sent, avail, w>> /\ reaped' = reaped + used /\ used' = 0
      BY <1>13 DEF Reap
    <2> QED BY <1>t, <2>1, SMT DEF Accounts
  <1> QED
    BY <1>1, <1>2, <1>3, <1>4, <1>5, <1>6, <1>7, <1>8, <1>9, <1>10, <1>11, <1>12,
       <1>13 DEF Next, DriverStep, VcpuStep

\* Initially no thread runs and no request has been sent.
LEMMA InitAccounts == Init => Owners /\ Accounts
  BY LifecycleAssumption, SMT DEF Init, Owners, Accounts, Gens, Unborn, Alive

(* Everything that the accounts depend on is inductive together. *)
Booked == TypeOK /\ Lifecycle /\ Owners /\ Accounts

\* Initially nothing has been sent.
LEMMA InitBooked == Init => Booked
  BY InitTypes, InitLifecycle, InitAccounts DEF Booked

\* Every step keeps Booked.
LEMMA BookedStep == Booked /\ [Next]_vars => Booked'
  BY TypesStep, LifecycleStep, OwnersStep, AccountsStep DEF Booked

(* The used ring never holds more completions than the driver has requests
   outstanding, unless a reset has left a thread behind: CompletionsAreOwed. *)
THEOREM CompletionsAlwaysOwed == Spec => []CompletionsAreOwed
  <1>1. Booked => CompletionsAreOwed
    BY LifecycleAssumption, SMT DEF Booked, Accounts, TypeOK, CompletionsAreOwed
  <1> QED BY <1>1, InitBooked, BookedStep, PTL DEF Spec

---------------------------------------------------------------------------
(* The pause protocol.                                                      *)

(* The vCPU parks outside the register handlers and stays parked for the
   dump; pause_evt is readable only for a thread that is there to read it. *)
Handshake ==
    /\ vparked => LockFree
    /\ freeze <=> fpc \in {"pause", "wait", "dump", "thaw"}
    /\ fpc = "dump" => vparked
    /\ pauseEvt /\ ~leaked => handle # 0 \/ vjoin # 0

\* Handshake reads the freeze, the handles and the pause event.
LEMMA HandshakeFrame ==
    ASSUME Handshake, UNCHANGED <<vparked, freeze, fpc, handle, vjoin, leaked>>,
           pauseEvt' => pauseEvt, vparked => LockFree'
    PROVE  Handshake'
  BY DEF Handshake

\* Every step keeps Handshake between the coordinator and the device lock.
LEMMA HandshakeStep ==
    ASSUME TypeOK, Lifecycle, Lifecycle', Handshake, [Next]_vars
    PROVE  Handshake'
  <1> USE DEF vcpu, engine, coord, hist, park
  <1>0. EngineTypes /\ EngineTypes' BY DEF Lifecycle
  <1>a. AfterExit \notin {"load", "cas", "join"} BY DEF AfterExit
  <1>1. CASE UNCHANGED vars
    BY <1>1, HandshakeFrame DEF vars, Handshake, LockFree
  <1>2. ASSUME NEW g \in Gens, WorkerStep(g) \/ TimerFires(g) PROVE Handshake'
    <2>1. UNCHANGED <<vparked, freeze, fpc, handle, vjoin, leaked, vpc>>
      BY <1>2, WorkerFrame
    <2>2. CASE WorkerPause(g)
      BY <2>1, <2>2, HandshakeFrame DEF WorkerPause, Handshake, LockFree
    <2>3. CASE WorkerStart(g) \/ WorkerAck(g) \/ WorkerUnpark(g)
      <3>1. pauseEvt' = pauseEvt
        BY <2>3 DEF WorkerStart, WorkerAck, WorkerUnpark
      <3> QED BY <2>1, <3>1, HandshakeFrame DEF Handshake, LockFree
    <2>4. CASE ~WorkerStart(g) /\ ~WorkerPause(g) /\ ~WorkerAck(g) /\ ~WorkerUnpark(g)
      <3>1. UNCHANGED park BY <1>0, <1>2, <2>4, WorkingStep
      <3> QED BY <2>1, <3>1, HandshakeFrame DEF Handshake, LockFree
    <2> QED BY <2>2, <2>3, <2>4
  <1>3. CASE WriteStatus \/ QueueReady \/ Submit \/ BreakRing \/ Isr
    <2>1. ~vparked BY <1>3 DEF WriteStatus, QueueReady, Submit, BreakRing, Isr, Running
    <2>2. UNCHANGED <<vparked, freeze, fpc, handle, vjoin, leaked, pauseEvt>>
      BY <1>3 DEF WriteStatus, QueueReady, Submit, BreakRing, Isr
    <2> QED BY <2>1, <2>2, HandshakeFrame
  <1>4. CASE SetStatusLoad \/ SetStatusReject \/ SetStatusRetry
    <2>1. ~vparked
      BY <1>4 DEF SetStatusLoad, SetStatusReject, SetStatusRetry, Handshake, LockFree
    <2>2. UNCHANGED <<vparked, freeze, fpc, handle, vjoin, leaked, pauseEvt>>
      BY <1>4 DEF SetStatusLoad, SetStatusReject, SetStatusRetry
    <2> QED BY <2>1, <2>2, HandshakeFrame
  <1>5. CASE IsrRead \/ InterruptAck \/ Reap \/ Notify
    <2>1. ~vparked BY <1>5 DEF IsrRead, InterruptAck, Reap, Notify
    <2>2. UNCHANGED <<vparked, freeze, fpc, handle, vjoin, leaked, pauseEvt>>
      BY <1>5 DEF IsrRead, InterruptAck, Reap, Notify
    <2> QED BY <2>1, <2>2, HandshakeFrame
  <1>6. CASE VcpuPark
    BY <1>6 DEF VcpuPark, Handshake, LockFree
  <1>7. CASE VcpuUnpark
    BY <1>7 DEF VcpuUnpark, Handshake
  <1>8. CASE Reset
    <2>1. /\ UNCHANGED <<vparked, freeze, fpc, leaked, pauseEvt>>
          /\ ~vparked /\ vpc = "guest"
          /\ \/ pending /\ handle' = handle
             \/ vjoin' = handle
      BY <1>8 DEF Reset, Running
    <2>2. vjoin = 0 /\ (pending => handle = 0) BY <2>1 DEF Lifecycle
    <2> QED BY <2>1, <2>2 DEF Handshake
  <1>9. CASE ResetJoined \/ ResetTimedOut
    <2>1. /\ UNCHANGED <<vparked, freeze, fpc>> /\ ~pauseEvt'
          /\ vpc' \notin {"load", "cas", "join"}
      BY <1>9, <1>a DEF ResetJoined, ResetTimedOut, ResetDevice
    <2> QED BY <2>1 DEF Handshake, LockFree
  <1>10. CASE SetStatusStore
    <2>1. /\ UNCHANGED <<vparked, freeze, fpc, leaked, pauseEvt, vjoin>> /\ Respawn
          /\ vpc = "cas"
      BY <1>10 DEF SetStatusStore
    <2>2. Spawned => handle' # 0 BY <1>0, SMT DEF Spawned, EngineTypes
    <2>3. handle # 0 => handle' # 0 BY <1>0, <2>1, <2>2, RespawnSpawns
    <2> QED BY <2>1, <2>3 DEF Handshake, LockFree
  <1>11. CASE Refill \/ FcSample \/ FcFreeze \/ FcDump \/ FcGiveUp \/ FcThaw
    <2>1. UNCHANGED <<vparked, vpc, handle, vjoin, leaked, pauseEvt>>
      BY <1>11 DEF Refill, FcSample, FcFreeze, FcDump, FcGiveUp, FcThaw
    <2>2. CASE Refill
      <3>1. UNCHANGED <<freeze, fpc>> BY <2>2 DEF Refill
      <3> QED BY <2>1, <3>1, HandshakeFrame DEF Handshake, LockFree
    <2>3. CASE FcSample
      BY <2>1, <2>3, SMT DEF FcSample, Handshake, LockFree
    <2>4. CASE FcFreeze BY <2>1, <2>4, SMT DEF FcFreeze, Handshake, LockFree
    <2>5. CASE FcDump BY <2>1, <2>5, SMT DEF FcDump, Handshake, LockFree
    <2>6. CASE FcGiveUp BY <2>1, <2>6, SMT DEF FcGiveUp, Handshake, LockFree
    <2>7. CASE FcThaw BY <2>1, <2>7, SMT DEF FcThaw, Handshake, LockFree
    <2> QED BY <1>11, <2>2, <2>3, <2>4, <2>5, <2>6, <2>7
  <1>12. CASE FcPause
    BY <1>12 DEF FcPause, Handshake, LockFree
  <1> QED
    BY <1>1, <1>2, <1>3, <1>4, <1>5, <1>6, <1>7, <1>8, <1>9, <1>10, <1>11, <1>12
       DEF Next, DriverStep, VcpuStep, FreezeStep

(* What the device's thread may be doing between pause_evt and the dump. *)
Told ==
    /\ pauseEvt /\ ~paused /\ acks = 0
    /\ w[handle].pc \notin {"start", "ack"}
Parking ==
    /\ ~pauseEvt /\ paused /\ acks = 0
    /\ w[handle].pc = "ack"
Parked ==
    /\ ~pauseEvt /\ paused /\ acks > 0
    /\ w[handle].pc = "wait"

Calm == ~leaked /\ ~raced

(* Outside a freeze no pause is under way and the sentinel tells a thread that
   runs; in one, the thread of the handle is told, parks and acknowledges, in
   this order, and stays parked. *)
PauseProtocol ==
    Calm =>
      /\ fpc \in {"idle", "freeze", "pause"} => ~pauseEvt
      /\ fpc = "thaw" => handle = 0
      /\ handle # 0 =>
           /\ fpc = "idle" => /\ w[handle].pc # "ack"
                              /\ paused => w[handle].pc = "start"
           /\ fpc \in {"freeze", "pause"} =>
                 w[handle].pc \notin {"start", "ack"} /\ ~paused /\ acks = 0
           /\ fpc = "wait" => Told \/ Parking \/ Parked
           /\ fpc = "dump" => Parked
           /\ fpc \in {"freeze", "pause", "wait"} => wrun

\* PauseProtocol reads the parking flags and where the held thread is.
LEMMA PauseFrame ==
    ASSUME PauseProtocol, UNCHANGED <<handle, leaked, raced, park, coord>>,
           handle # 0 => w'[handle].pc = w[handle].pc
    PROVE  PauseProtocol'
  BY DEF PauseProtocol, Calm, Told, Parking, Parked, park, coord

(* Once the handle is taken there is no thread to follow. *)
LEMMA PauseWithoutHandle ==
    ASSUME PauseProtocol, handle' = 0, UNCHANGED fpc, Calm' => Calm,
           pauseEvt' => pauseEvt
    PROVE  PauseProtocol'
  BY DEF PauseProtocol

\* The worker side of the pause: it takes the event, acknowledges, waits.
LEMMA PauseOfWorker ==
    ASSUME TypeOK, Lifecycle, PauseProtocol, NEW g \in Gens,
           WorkerStep(g) \/ TimerFires(g)
    PROVE  PauseProtocol'
  <1>0. EngineTypes BY DEF Lifecycle
  <1>1. UNCHANGED <<handle, leaked, raced, fpc, wrun, freeze>>
    BY WorkerFrame DEF coord, hist
  <1>2. WorkerMove(g) BY <1>0, WorkerMoves
  <1>3. \A h \in Gens : h # g => w'[h] = w[h]
    BY <1>0, <1>2 DEF WorkerMove, EngineTypes
  <1>4. handle # 0 => handle \in Gens BY <1>0, SMT DEF EngineTypes, Gens
  <1>5. Alive(g) /\ handle # 0 => g = handle BY DEF Lifecycle
  <1>6. w[g] \in Workers /\ w'[g] = w'[g] BY <1>0 DEF EngineTypes
  <1>7. acks \in Nat BY DEF TypeOK
  <1>8. CASE handle = 0
    <2>1. pauseEvt' => pauseEvt
      <3>1. CASE \/ WorkerStart(g) \/ WorkerPause(g) \/ WorkerAck(g)
                 \/ WorkerUnpark(g)
        BY <3>1 DEF WorkerStart, WorkerPause, WorkerAck, WorkerUnpark, park
      <3> QED BY <1>0, <3>1, WorkingStep DEF park
    <2> QED BY <1>1, <1>8, <2>1, PauseWithoutHandle DEF Calm
  <1>9. CASE handle # 0
    <2>1. CASE WorkerStart(g)
      <3>1. w[g].pc = "start" /\ w'[g].pc = "poll"
        BY <1>0, <1>6, <2>1 DEF WorkerStart, EngineTypes, Workers
      <3>2. ~paused' /\ UNCHANGED <<pauseEvt, acks>> BY <2>1 DEF WorkerStart
      <3>3. g = handle BY <1>5, <1>9, <3>1 DEF Alive
      <3> QED
        BY <1>1, <3>1, <3>2, <3>3 DEF PauseProtocol, Calm, Told, Parking, Parked
    <2>2. CASE WorkerPause(g)
      <3>1. w[g].pc = "poll" /\ w'[g].pc = "ack"
        BY <1>0, <1>6, <2>2 DEF WorkerPause, EngineTypes, Workers
      <3>2. pauseEvt /\ ~pauseEvt' /\ paused' /\ UNCHANGED acks
        BY <2>2 DEF WorkerPause
      <3>3. g = handle BY <1>5, <1>9, <3>1 DEF Alive
      <3>4. Calm => fpc = "wait" /\ Told
        BY <1>9, <3>1, <3>2, <3>3
           DEF PauseProtocol, Told, Parking, Parked, TypeOK
      <3> QED
        BY <1>1, <1>9, <3>1, <3>2, <3>3, <3>4
           DEF PauseProtocol, Calm, Told, Parking
    <2>3. CASE WorkerAck(g)
      <3>1. w[g].pc = "ack" /\ w'[g].pc = "wait"
        BY <1>0, <1>6, <2>3 DEF WorkerAck, EngineTypes, Workers
      <3>2. acks' = acks + 1 /\ UNCHANGED <<pauseEvt, paused>>
        BY <2>3 DEF WorkerAck
      <3>3. g = handle BY <1>5, <1>9, <3>1 DEF Alive
      <3>4. Calm => fpc = "wait" /\ Parking
        BY <1>9, <3>1, <3>3 DEF PauseProtocol, Told, Parking, Parked, TypeOK
      <3> QED
        BY <1>1, <1>7, <1>9, <3>1, <3>2, <3>3, <3>4, SMT
           DEF PauseProtocol, Calm, Parking, Parked
    <2>4. CASE WorkerUnpark(g)
      <3>1. w[g].pc = "wait" /\ w'[g].pc = "poll"
        BY <1>0, <1>6, <2>4 DEF WorkerUnpark, EngineTypes, Workers
      <3>2. ~paused /\ UNCHANGED <<pauseEvt, paused, acks>>
        BY <2>4 DEF WorkerUnpark, park
      <3>3. g = handle BY <1>5, <1>9, <3>1 DEF Alive
      <3> QED
        BY <1>1, <3>1, <3>2, <3>3 DEF PauseProtocol, Calm, Told, Parking, Parked
    <2>5. CASE ~WorkerStart(g) /\ ~WorkerPause(g) /\ ~WorkerAck(g) /\ ~WorkerUnpark(g)
      <3>1. /\ UNCHANGED park
            /\ \/ w'[g].pc = w[g].pc
               \/ w[g].pc \in Working /\ w'[g].pc \in Working \cup {"exited"}
        BY <1>0, <2>5, WorkingStep
      <3>2. CASE w'[handle].pc = w[handle].pc
        <4>1. UNCHANGED coord BY WorkerFrame
        <4> QED BY <1>1, <3>1, <3>2, <4>1, PauseFrame
      <3>3. CASE w'[handle].pc # w[handle].pc
        <4>1. g = handle BY <1>3, <1>4, <1>9, <3>3
        <4>2. w[handle].pc \in Working /\ w'[handle].pc \in Working \cup {"exited"}
          BY <3>1, <3>3, <4>1
        <4>3. UNCHANGED <<paused, pauseEvt, acks>> BY <3>1 DEF park
        <4> QED
          BY <1>1, <1>9, <4>2, <4>3
             DEF PauseProtocol, Calm, Told, Parking, Parked, Working
      <3> QED BY <3>2, <3>3
    <2> QED BY <2>1, <2>2, <2>3, <2>4, <2>5
  <1> QED BY <1>8, <1>9

\* The coordinator side of the pause: it writes, waits, resumes.
LEMMA PauseOfCoordinator ==
    ASSUME TypeOK, Lifecycle, Owners, Handshake, PauseProtocol, FcSample \/ FreezeStep
    PROVE  PauseProtocol'
  <1> USE DEF engine, hist, park, vcpu, coord
  <1>0. EngineTypes BY DEF Lifecycle
  <1>1. handle # 0 => handle \in Gens BY <1>0, SMT DEF EngineTypes, Gens
  <1>2. UNCHANGED <<handle, w, leaked, vpc, vjoin>>
    BY DEF FcSample, FreezeStep, FcFreeze, FcPause, FcDump, FcGiveUp, FcThaw
  <1>3. CASE FcSample
    <2>1. /\ fpc = "idle" /\ fpc' = "freeze" /\ acks' = 0 /\ wrun' = ~paused
          /\ UNCHANGED <<paused, pauseEvt>>
      BY <1>3 DEF FcSample
    <2>3. raced' = (raced \/ \E g \in Gens : w[g].pc = "start")
      BY <1>3 DEF FcSample
    <2>4. ~raced' => ~raced /\ \A g \in Gens : w[g].pc # "start"
      BY <2>3
    <2>2. Calm' => Calm /\ \A g \in Gens : w[g].pc # "start"
      BY <1>2, <2>4 DEF Calm
    <2> QED BY <1>1, <1>2, <2>1, <2>2 DEF PauseProtocol
  <1>4. CASE FcFreeze
    <2>1. /\ fpc = "freeze" /\ fpc' = "pause"
          /\ UNCHANGED <<paused, pauseEvt, acks, wrun, raced>>
      BY <1>4 DEF FcFreeze
    <2> QED BY <1>2, <2>1 DEF PauseProtocol, Calm
  <1>5. CASE FcPause
    <2>1. /\ fpc = "pause" /\ fpc' = "wait" /\ UNCHANGED <<paused, acks, wrun, raced>>
          /\ handle # 0 => pauseEvt'
      BY <1>5 DEF FcPause
    <2> QED BY <1>2, <2>1 DEF PauseProtocol, Calm, Told
  <1>6. CASE FcDump
    <2>1. /\ fpc = "wait" /\ fpc' = "dump"
          /\ wrun => acks > 0
          /\ UNCHANGED <<paused, pauseEvt, acks, wrun, raced>>
      BY <1>6 DEF FcDump
    <2> QED BY <1>2, <2>1, SMT DEF PauseProtocol, Calm, Told, Parking, Parked
  <1>7. CASE FcGiveUp
    <2>1. fpc' = "thaw" BY <1>7 DEF FcGiveUp
    <2>2. Calm' => handle' = 0 BY <1>2, <1>7 DEF FcGiveUp, Calm
    <2> QED BY <2>1, <2>2 DEF PauseProtocol
  <1>8. CASE FcThaw
    <2>1. /\ fpc \in {"dump", "thaw"} /\ LockFree /\ fpc' = "idle"
          /\ paused' = (handle = 0) /\ UNCHANGED <<pauseEvt, raced>>
      BY <1>8 DEF FcThaw
    <2>2. vjoin = 0 BY <2>1 DEF Lifecycle, LockFree
    <2>3. handle = 0 /\ Calm => ~pauseEvt BY <2>2 DEF Handshake, Calm
    <2>4. handle # 0 /\ Calm => ~pauseEvt /\ w[handle].pc = "wait"
      BY <2>1 DEF PauseProtocol, Parked
    <2> QED BY <1>2, <2>1, <2>3, <2>4 DEF PauseProtocol, Calm
  <1> QED BY <1>3, <1>4, <1>5, <1>6, <1>7, <1>8 DEF FreezeStep

\* Every step keeps the three stages of the pause.
LEMMA PauseStep ==
    ASSUME TypeOK, Lifecycle, Owners, Handshake, PauseProtocol, [Next]_vars
    PROVE  PauseProtocol'
  <1> USE DEF engine, hist, vcpu
  <1>0. EngineTypes BY DEF Lifecycle
  <1>g. handle # 0 => handle \in Gens BY <1>0, SMT DEF EngineTypes, Gens
  <1>1. CASE UNCHANGED vars BY <1>1, PauseFrame DEF vars
  <1>2. CASE WriteStatus \/ QueueReady \/ Submit \/ BreakRing \/ Isr
    BY <1>2, PauseFrame DEF WriteStatus, QueueReady, Submit, BreakRing, Isr
  <1>3. CASE SetStatusLoad \/ SetStatusReject \/ SetStatusRetry
    BY <1>3, PauseFrame DEF SetStatusLoad, SetStatusReject, SetStatusRetry
  <1>4. CASE IsrRead \/ InterruptAck \/ Reap \/ VcpuPark \/ VcpuUnpark \/ Refill
    BY <1>4, PauseFrame
       DEF IsrRead, InterruptAck, Reap, VcpuPark, VcpuUnpark, Refill
  <1>5. CASE Notify
    <2>1. \A g \in Gens : w'[g].pc = w[g].pc BY <1>0, <1>5, NotifyWrites
    <2>2. UNCHANGED <<handle, leaked, raced, park, coord>> BY <1>5 DEF Notify
    <2> QED BY <1>g, <2>1, <2>2, PauseFrame
  <1>6. CASE Reset
    <2>1. /\ UNCHANGED <<leaked, raced, pauseEvt, coord>>
          /\ (pending /\ handle' = handle) \/ handle' = 0
      BY <1>6 DEF Reset
    <2>2. handle' = 0 BY <2>1 DEF Lifecycle
    <2> QED BY <2>1, <2>2, PauseWithoutHandle DEF Calm, coord
  <1>7. CASE ResetJoined \/ ResetTimedOut
    <2>1. /\ UNCHANGED <<raced, handle, coord>> /\ ~pauseEvt' /\ vpc = "join"
          /\ leaked' = leaked \/ leaked'
      BY <1>7 DEF ResetJoined, ResetTimedOut, ResetDevice
    <2>2. handle = 0 BY <2>1 DEF Owners
    <2>3. Calm' => Calm BY <2>1 DEF Calm
    <2> QED BY <2>1, <2>2, <2>3, PauseWithoutHandle DEF coord
  <1>8. CASE SetStatusStore
    <2>1. UNCHANGED <<leaked, park, coord>> /\ Respawn
      BY <1>8 DEF SetStatusStore
    <2>2. CASE Spawned
      <3>1. Calm' => Calm /\ fpc = "idle" BY <2>1, <2>2 DEF Spawned, Calm
      <3>2. w'[handle'].pc = "start" BY <2>2 DEF Spawned
      <3> QED BY <2>1, <3>1, <3>2 DEF PauseProtocol, park, coord
    <2> QED BY <1>0, <2>1, <2>2, RespawnSpawns, PauseFrame
  <1> QED
    BY <1>1, <1>2, <1>3, <1>4, <1>5, <1>6, <1>7, <1>8, PauseOfWorker,
       PauseOfCoordinator DEF Next, DriverStep, VcpuStep

\* Initially nothing is frozen or paused.
LEMMA InitPause == Init => Handshake /\ PauseProtocol
  BY DEF Init, Handshake, LockFree, PauseProtocol

(* While the coordinator reads guest memory the device's thread is parked, if
   no reset has left a thread behind and none was spawned, or given up, in the
   freeze: DumpIsQuiet. *)
THEOREM DumpAlwaysQuiet == Spec => []DumpIsQuiet
  <1> DEFINE IInv == Booked /\ Handshake /\ PauseProtocol
  <1>1. Init => IInv BY InitBooked, InitPause
  <1>2. IInv /\ [Next]_vars => IInv'
    BY BookedStep, HandshakeStep, PauseStep DEF Booked
  <1>3. IInv => DumpIsQuiet
    <2> SUFFICES ASSUME IInv, fpc = "dump", ~leaked, ~raced, NEW g \in Gens
                 PROVE  w[g].pc \in {"unborn", "exited", "ack", "wait"}
      BY DEF DumpIsQuiet
    <2>1. vjoin = 0 BY DEF Booked, Lifecycle, Handshake, LockFree
    <2>2. Alive(g) => handle = g BY <2>1, SMT DEF Booked, Owners, Gens
    <2>3. handle # 0 => w[handle].pc = "wait" BY DEF PauseProtocol, Calm, Parked
    <2> QED BY <2>2, <2>3, SMT DEF Alive, Gens
  <1> QED BY <1>1, <1>2, <1>3, PTL DEF Spec

---------------------------------------------------------------------------
(* No request and no completion is forgotten.                               *)

(* A thread that leaves its kicks alone has its retry timer set and is not in
   a drain; one that owes an interrupt is in a drain. *)
Fit(r) ==
    /\ r.blocked => r.timer # "off" /\ r.pc \in {"poll", "ack", "wait", "exited"}
    /\ r.completed => r.pc \in {"pop", "io", "enable", "recheck", "signal"}

AllFit == \A g \in Gens : Fit(w[g])

(* The driver has its worker, and requests in the ring, only after DRIVER_OK;
   a worker is spawned for a ring whose notifications are on. *)
Bound ==
    /\ handle # 0 => "DRIVER_OK" \in status
    /\ avail # 0 => "DRIVER_OK" \in status
    /\ pending => notifyOn

(* The thread will look at the ring without being told again. *)
Looks(r) ==
    \/ r.kick
    \/ r.pc \in {"drain", "pop", "io", "enable", "recheck"}
    \/ (r.pc = "signal" /\ r.outcome # "done")
    \/ (r.blocked /\ r.timer # "off")

(* Notifications are off only while the drain has still to look at the ring,
   and what is in the ring has been, or is about to be, notified. *)
Noticed ==
    handle # 0 /\ ready /\ ~poisoned =>
        /\ ~notifyOn => w[handle].pc \in {"pop", "io", "enable"}
        /\ avail # 0 /\ ~badRing => \/ (vpc = "submit" /\ notifyOn)
                                    \/ Looks(w[handle])

\* A thread's own step keeps its flags in order.
LEMMA FitOfWorker ==
    ASSUME EngineTypes, NEW g \in Gens, WorkerStep(g) \/ TimerFires(g), Fit(w[g])
    PROVE  Fit(w'[g])
  <1> USE DEF EngineTypes, Workers, WorkerPcs, Fit
  <1>0. w[g] \in Workers OBVIOUS
  <1>1. CASE WorkerStart(g) BY <1>0, <1>1 DEF WorkerStart
  <1>2. CASE WorkerStop(g) BY <1>0, <1>2 DEF WorkerStop
  <1>3. CASE WorkerKick(g) BY <1>0, <1>3 DEF WorkerKick
  <1>4. CASE WorkerTimer(g) BY <1>0, <1>4 DEF WorkerTimer
  <1>5. CASE WorkerPause(g) BY <1>0, <1>5 DEF WorkerPause
  <1>6. CASE WorkerAck(g) BY <1>0, <1>6 DEF WorkerAck
  <1>7. CASE WorkerUnpark(g) BY <1>0, <1>7 DEF WorkerUnpark
  <1>8. CASE DrainBegin(g) BY <1>0, <1>8 DEF DrainBegin
  <1>9. CASE DrainPoison(g) BY <1>0, <1>9 DEF DrainPoison
  <1>10. CASE DrainPop(g) BY <1>0, <1>10 DEF DrainPop
  <1>11. CASE DrainServe(g) BY <1>0, <1>11 DEF DrainServe
  <1>12. CASE DrainStall(g)
    <2>1. PICK o \in {"sleep", "zero"} :
             w' = [w EXCEPT ![g].pc = "signal", ![g].outcome = o]
      BY <1>12 DEF DrainStall
    <2>2. w[g].pc = "pop" BY <1>12 DEF DrainStall
    <2> QED BY <1>0, <2>1, <2>2
  <1>13. CASE DrainEmpty(g) BY <1>0, <1>13 DEF DrainEmpty
  <1>14. CASE DrainEnable(g) BY <1>0, <1>14 DEF DrainEnable
  <1>15. CASE DrainRecheck(g) BY <1>0, <1>15 DEF DrainRecheck
  <1>16. CASE DrainSignal(g) BY <1>0, <1>16 DEF DrainSignal
  <1>17. CASE TimerFires(g) BY <1>0, <1>17 DEF TimerFires
  <1> QED
    BY <1>1, <1>2, <1>3, <1>4, <1>5, <1>6, <1>7, <1>8, <1>9, <1>10, <1>11,
       <1>12, <1>13, <1>14, <1>15, <1>16, <1>17 DEF WorkerStep, DrainStep

\* The worker's step leaves the ring noticed.
LEMMA NoticedOfWorker ==
    ASSUME TypeOK, Lifecycle, AllFit, Noticed,
           NEW g \in Gens, WorkerStep(g) \/ TimerFires(g)
    PROVE  Noticed'
  <1> USE DEF Workers, WorkerPcs
  <1>0. EngineTypes BY DEF Lifecycle
  <1>a. w[g] \in Workers /\ Fit(w[g]) BY <1>0 DEF EngineTypes, AllFit
  <1>b. UNCHANGED <<gen, handle, pending, vpc>> BY <1>0, WorkerFrame DEF vcpu
  <1>c. avail \in Nat /\ notifyOn \in BOOLEAN /\ poisoned \in BOOLEAN /\ ready \in BOOLEAN
    BY LifecycleAssumption, SMT DEF TypeOK
  <1> SUFFICES ASSUME handle # 0, ready', ~poisoned'
               PROVE  /\ ~notifyOn' => w'[handle].pc \in {"pop", "io", "enable"}
                      /\ avail' # 0 /\ ~badRing' =>
                           \/ (vpc = "submit" /\ notifyOn')
                           \/ Looks(w'[handle])
    BY <1>b DEF Noticed
  <1>1. CASE g # handle
    <2>1. ~Alive(g) BY <1>1 DEF Lifecycle
    <2>2. TimerFires(g)
      BY <2>1 DEF Alive, WorkerStep, DrainStep, WorkerStart, WorkerStop,
         WorkerKick, WorkerTimer, WorkerPause, WorkerAck, WorkerUnpark,
         DrainBegin, DrainPoison, DrainPop, DrainServe, DrainStall, DrainEmpty,
         DrainEnable, DrainRecheck, DrainSignal
    <2>3. UNCHANGED <<rings, poisoned>> BY <2>2 DEF TimerFires
    <2>4. w'[handle] = w[handle]
      <3>1. handle \in Gens BY <1>0, SMT DEF EngineTypes, Gens
      <3> QED BY <1>0, <1>1, <2>2, <3>1 DEF TimerFires, EngineTypes
    <2> QED BY <2>3, <2>4 DEF Noticed, rings
  <1>2. CASE g = handle
    <2> USE DEF Looks
    <2>1. CASE WorkerStart(g) \/ WorkerStop(g) \/ WorkerPause(g)
               \/ WorkerAck(g) \/ WorkerUnpark(g) \/ TimerFires(g)
      <3>1. UNCHANGED <<rings, poisoned>>
        BY <2>1 DEF WorkerStart, WorkerStop, WorkerPause, WorkerAck,
                    WorkerUnpark, TimerFires
      <3> DEFINE Keeps == /\ w'[g].kick = w[g].kick /\ w'[g].blocked = w[g].blocked
                          /\ w'[g].outcome = w[g].outcome
                          /\ w[g].timer # "off" => w'[g].timer # "off"
      <3>a. WorkerStart(g) => Keeps BY <1>0, <1>a DEF EngineTypes, WorkerStart
      <3>b. WorkerStop(g) => Keeps BY <1>0, <1>a DEF EngineTypes, WorkerStop
      <3>c. WorkerPause(g) => Keeps BY <1>0, <1>a DEF EngineTypes, WorkerPause
      <3>d. WorkerAck(g) => Keeps BY <1>0, <1>a DEF EngineTypes, WorkerAck
      <3>e. WorkerUnpark(g) => Keeps BY <1>0, <1>a DEF EngineTypes, WorkerUnpark
      <3>f. TimerFires(g) => Keeps BY <1>0, <1>a DEF EngineTypes, TimerFires
      <3>2. Keeps BY <2>1, <3>a, <3>b, <3>c, <3>d, <3>e, <3>f
      <3>3. w'[g].pc = w[g].pc \/ w[g].pc \in {"start", "poll", "ack", "wait"}
        BY <1>0, <1>a, <2>1 DEF EngineTypes, WorkerStart, WorkerStop, WorkerPause,
                    WorkerAck, WorkerUnpark, TimerFires
      <3> QED BY <1>2, <3>1, <3>2, <3>3 DEF Noticed, rings
    <2>2. CASE WorkerKick(g)
      <3>1. UNCHANGED <<rings, poisoned>> /\ w[g].pc = "poll" BY <2>2 DEF WorkerKick
      <3>2. w[g].blocked => w'[g].blocked /\ w'[g].timer = w[g].timer
        BY <1>0, <1>a, <2>2 DEF EngineTypes, WorkerKick
      <3>3. ~w[g].blocked => w'[g].pc = "drain"
        BY <1>0, <1>a, <2>2 DEF EngineTypes, WorkerKick
      <3> QED BY <1>2, <1>a, <3>1, <3>2, <3>3 DEF Noticed, rings, Fit
    <2>3. CASE WorkerTimer(g)
      <3>1. UNCHANGED <<rings, poisoned>> /\ w[g].pc = "poll" BY <2>3 DEF WorkerTimer
      <3>2. w'[g].pc = "drain" BY <1>0, <1>a, <2>3 DEF EngineTypes, WorkerTimer
      <3> QED BY <1>2, <3>1, <3>2 DEF Noticed, rings
    <2>4. CASE DrainBegin(g)
      <3>1. ready /\ ~poisoned BY <2>4 DEF DrainBegin
      <3>2. w'[g].pc = "pop" BY <1>0, <1>a, <2>4, <3>1 DEF EngineTypes, DrainBegin
      <3> QED BY <1>2, <3>2
    <2>5. CASE DrainPoison(g) BY <2>5 DEF DrainPoison
    <2>6. CASE DrainPop(g)
      <3>1. w'[g].pc = "io" BY <1>0, <1>a, <2>6 DEF EngineTypes, DrainPop
      <3> QED BY <1>2, <3>1
    <2>7. CASE DrainServe(g)
      <3>1. w'[g].pc = "pop" BY <1>0, <1>a, <2>7 DEF EngineTypes, DrainServe
      <3> QED BY <1>2, <3>1
    <2>8. CASE DrainStall(g)
      <3>1. PICK o \in {"sleep", "zero"} :
               w' = [w EXCEPT ![g].pc = "signal", ![g].outcome = o]
        BY <2>8 DEF DrainStall
      <3>2. w'[g].pc = "signal" /\ w'[g].outcome = o
        BY <1>0, <1>a, <3>1 DEF EngineTypes
      <3>3. notifyOn' BY <2>8 DEF DrainStall
      <3> QED BY <1>2, <3>2, <3>3
    <2>9. CASE DrainEmpty(g)
      <3>1. w'[g].pc = "enable" BY <1>0, <1>a, <2>9 DEF EngineTypes, DrainEmpty
      <3> QED BY <1>2, <3>1
    <2>10. CASE DrainEnable(g)
      <3>1. notifyOn' /\ w'[g].pc = "recheck"
        BY <1>0, <1>a, <2>10 DEF EngineTypes, DrainEnable
      <3> QED BY <1>2, <3>1
    <2>11. CASE DrainRecheck(g)
      <3>1. avail' = avail /\ notifyOn' = (avail = 0) BY <2>11 DEF DrainRecheck
      <3>2. avail # 0 => avail > 0 BY <1>c, SMT
      <3>3. avail > 0 => w'[g].pc = "pop"
        BY <1>0, <1>a, <2>11 DEF EngineTypes, DrainRecheck
      <3> QED BY <1>2, <3>1, <3>2, <3>3
    <2>12. CASE DrainSignal(g)
      <3>1. UNCHANGED <<rings, poisoned>> /\ w[g].pc = "signal"
        BY <2>12 DEF DrainSignal
      <3>2. w'[g].kick = w[g].kick BY <1>0, <1>a, <2>12 DEF EngineTypes, DrainSignal
      <3>3. w[g].outcome # "done" =>
               w'[g].pc = "drain" \/ (w'[g].blocked /\ w'[g].timer = "armed")
        BY <1>0, <1>a, <2>12 DEF EngineTypes, DrainSignal
      <3> QED BY <1>2, <1>a, <3>1, <3>2, <3>3 DEF Noticed, rings, Fit
    <2> QED
      BY <2>1, <2>2, <2>3, <2>4, <2>5, <2>6, <2>7, <2>8, <2>9, <2>10, <2>11,
         <2>12 DEF WorkerStep, DrainStep
  <1> QED BY <1>1, <1>2

\* A spawned thread's record is as it was left by with_options.
LEMMA SpawnedRecord ==
    ASSUME EngineTypes, Respawn
    PROVE  \/ UNCHANGED <<gen, handle, w>>
           \/ /\ vval \ vcur = {"DRIVER_OK"} /\ pending
              /\ gen + 1 \in Gens /\ handle' = gen + 1
              /\ w' = [w EXCEPT ![gen + 1].pc = "start"]
  <1>1. CASE /\ vval \ vcur = {"DRIVER_OK"} /\ gen < MaxGen /\ pending
             /\ gen' = gen + 1 /\ handle' = gen + 1
             /\ w' = [w EXCEPT ![gen + 1].pc = "start"]
    <2>1. gen + 1 \in Gens BY <1>1, LifecycleAssumption, SMT DEF EngineTypes, Gens
    <2> QED BY <1>1, <2>1
  <1> QED BY <1>1 DEF Respawn, engine

\* Every step keeps the flags of every thread in order.
LEMMA FitStep ==
    ASSUME Lifecycle, AllFit, [Next]_vars
    PROVE  AllFit'
  <1> USE DEF vcpu, engine, coord, hist
  <1>0. EngineTypes BY DEF Lifecycle
  <1>a. (w' = w) => AllFit' BY DEF AllFit
  <1>1. CASE UNCHANGED vars BY <1>1, <1>a DEF vars
  <1>2. ASSUME NEW g \in Gens, WorkerStep(g) \/ TimerFires(g) PROVE AllFit'
    <2>1. WorkerMove(g) BY <1>0, <1>2, WorkerMoves
    <2>2. \A h \in Gens : h # g => w'[h] = w[h]
      BY <1>0, <2>1 DEF WorkerMove, EngineTypes
    <2>3. Fit(w'[g]) BY <1>0, <1>2, FitOfWorker DEF AllFit
    <2> QED BY <2>2, <2>3 DEF AllFit
  <1>3. CASE WriteStatus \/ QueueReady \/ Submit \/ BreakRing \/ Isr
    BY <1>3, <1>a DEF WriteStatus, QueueReady, Submit, BreakRing, Isr
  <1>4. CASE SetStatusLoad \/ SetStatusReject \/ SetStatusRetry
    BY <1>4, <1>a DEF SetStatusLoad, SetStatusReject, SetStatusRetry
  <1>5. CASE IsrRead \/ InterruptAck \/ Reap \/ VcpuPark \/ VcpuUnpark
    BY <1>5, <1>a DEF IsrRead, InterruptAck, Reap, VcpuPark, VcpuUnpark
  <1>6. CASE Refill \/ FcSample \/ FreezeStep
    BY <1>6, <1>a
       DEF Refill, FcSample, FreezeStep, FcFreeze, FcPause, FcDump, FcGiveUp, FcThaw
  <1>7. CASE Notify
    <2> SUFFICES ASSUME NEW g \in Gens PROVE Fit(w'[g]) BY DEF AllFit
    <2>1. w[g] \in Workers /\ Fit(w[g]) BY <1>0 DEF EngineTypes, AllFit
    <2>2. w'[g] = [w[g] EXCEPT !.kick = @ \/ (notifyOn /\ g = gen)] BY <1>7 DEF Notify
    <2> QED BY <2>1, <2>2 DEF Fit, Workers
  <1>8. CASE Reset
    <2> SUFFICES ASSUME NEW g \in Gens PROVE Fit(w'[g]) BY DEF AllFit
    <2>1. w[g] \in Workers /\ Fit(w[g]) BY <1>0 DEF EngineTypes, AllFit
    <2>2. CASE w' = w BY <2>1, <2>2
    <2>3. CASE w'[g] = [w[g] EXCEPT !.stop = @ \/ g = gen]
      BY <2>1, <2>3 DEF Fit, Workers
    <2> QED BY <1>8, <2>2, <2>3 DEF Reset
  <1>9. CASE ResetJoined \/ ResetTimedOut
    BY <1>9, <1>a DEF ResetJoined, ResetTimedOut, ResetDevice
  <1>10. CASE SetStatusStore
    <2>1. Respawn BY <1>10 DEF SetStatusStore
    <2>2. CASE /\ gen + 1 \in Gens
               /\ w' = [w EXCEPT ![gen + 1].pc = "start"]
      <3>1. gen + 1 > gen BY <1>0, SMT DEF EngineTypes
      <3>2. w[gen + 1] \in Workers /\ w[gen + 1].pc = "unborn" /\ Fit(w[gen + 1])
        BY <1>0, <2>2, <3>1 DEF EngineTypes, Lifecycle, AllFit
      <3>3. w'[gen + 1] = [w[gen + 1] EXCEPT !.pc = "start"]
        BY <1>0, <2>2 DEF EngineTypes
      <3>4. Fit(w'[gen + 1]) BY <3>2, <3>3 DEF Fit, Workers
      <3>5. \A g \in Gens : g # gen + 1 => w'[g] = w[g] BY <1>0, <2>2 DEF EngineTypes
      <3> QED BY <3>4, <3>5 DEF AllFit
    <2> QED BY <1>0, <1>a, <2>1, <2>2, SpawnedRecord
  <1> QED
    BY <1>1, <1>2, <1>3, <1>4, <1>5, <1>6, <1>7, <1>8, <1>9, <1>10
       DEF Next, DriverStep, VcpuStep

\* Bound reads the status register, the handle and the avail ring.
LEMMA BoundFrame ==
    ASSUME Bound, UNCHANGED <<handle, pending, avail, notifyOn>>,
           status \subseteq status'
    PROVE  Bound'
  BY DEF Bound

\* A thread whose state is pending cannot switch notifications off.
LEMMA PendingIsQuiet ==
    ASSUME Lifecycle, NEW g \in Gens, WorkerStep(g) \/ TimerFires(g), pending
    PROVE  notifyOn' = notifyOn
  <1>1. ~Alive(g) BY DEF Lifecycle
  <1>2. TimerFires(g)
    BY <1>1 DEF Alive, WorkerStep, DrainStep, WorkerStart, WorkerStop,
       WorkerKick, WorkerTimer, WorkerPause, WorkerAck, WorkerUnpark,
       DrainBegin, DrainPoison, DrainPop, DrainServe, DrainStall, DrainEmpty,
       DrainEnable, DrainRecheck, DrainSignal
  <1> QED BY <1>2 DEF TimerFires, rings

\* A thread only adds to the status register.
LEMMA StatusOfWorker ==
    ASSUME NEW g \in Gens, WorkerStep(g) \/ TimerFires(g)
    PROVE  status \subseteq status'
  <1>1. CASE DrainPoison(g) BY <1>1 DEF DrainPoison
  <1>2. CASE \/ WorkerStart(g) \/ WorkerStop(g) \/ WorkerKick(g)
             \/ WorkerTimer(g) \/ WorkerPause(g) \/ WorkerAck(g)
             \/ WorkerUnpark(g) \/ TimerFires(g)
    BY <1>2 DEF WorkerStart, WorkerStop, WorkerKick, WorkerTimer, WorkerPause,
                WorkerAck, WorkerUnpark, TimerFires
  <1>3. CASE \/ DrainBegin(g) \/ DrainPop(g) \/ DrainServe(g) \/ DrainStall(g)
             \/ DrainEmpty(g) \/ DrainEnable(g) \/ DrainRecheck(g)
             \/ DrainSignal(g)
    BY <1>3 DEF DrainBegin, DrainPop, DrainServe, DrainStall, DrainEmpty,
                DrainEnable, DrainRecheck, DrainSignal
  <1> QED BY <1>1, <1>2, <1>3 DEF WorkerStep, DrainStep

\* Every step keeps Bound: a reset has taken the handle before it clears.
LEMMA BoundStep ==
    ASSUME TypeOK, Lifecycle, Owners, Bound, [Next]_vars
    PROVE  Bound'
  <1> USE DEF vcpu, engine, coord, hist, rings
  <1>0. EngineTypes BY DEF Lifecycle
  <1>1. CASE UNCHANGED vars BY <1>1, BoundFrame DEF vars
  <1>2. ASSUME NEW g \in Gens, WorkerStep(g) \/ TimerFires(g) PROVE Bound'
    <2>1. UNCHANGED <<handle, pending>> BY <1>2, WorkerFrame
    <2>2. status \subseteq status' BY <1>2, StatusOfWorker
    <2>3. pending => notifyOn' = notifyOn BY <1>2, PendingIsQuiet
    <2>4. avail' # 0 => avail # 0
      <3>1. avail > 0 => avail # 0 BY SMT
      <3> QED BY <1>0, <1>2, <3>1, RequestStep
    <2> QED BY <2>1, <2>2, <2>3, <2>4 DEF Bound
  <1>3. CASE WriteStatus \/ QueueReady \/ BreakRing \/ Isr \/ Notify
    BY <1>3, BoundFrame DEF WriteStatus, QueueReady, BreakRing, Isr, Notify
  <1>4. CASE SetStatusLoad \/ SetStatusReject \/ SetStatusRetry
    BY <1>4, BoundFrame DEF SetStatusLoad, SetStatusReject, SetStatusRetry
  <1>5. CASE IsrRead \/ InterruptAck \/ Reap \/ VcpuPark \/ VcpuUnpark
    BY <1>5, BoundFrame DEF IsrRead, InterruptAck, Reap, VcpuPark, VcpuUnpark
  <1>6. CASE Refill \/ FcSample \/ FreezeStep
    BY <1>6, BoundFrame
       DEF Refill, FcSample, FreezeStep, FcFreeze, FcPause, FcDump, FcGiveUp, FcThaw
  <1>7. CASE Submit BY <1>7 DEF Submit, Bound
  <1>8. CASE Reset
    <2>1. /\ UNCHANGED <<pending, avail, notifyOn, status>>
          /\ handle' = handle \/ handle' = 0
      BY <1>8 DEF Reset
    <2> QED BY <2>1 DEF Bound
  <1>9. CASE ResetJoined \/ ResetTimedOut
    <2>1. vpc = "join" /\ handle' = handle /\ avail' = 0 /\ notifyOn'
      BY <1>9 DEF ResetJoined, ResetTimedOut, ResetDevice
    <2> QED BY <2>1 DEF Bound, Owners
  <1>10. CASE SetStatusStore
    <2>1. /\ Respawn /\ UNCHANGED <<avail, notifyOn>>
          /\ Accepted /\ status = vcur /\ status' = vval
      BY <1>10 DEF SetStatusStore
    <2>2. status \subseteq status' BY <2>1 DEF Accepted
    <2>3. pending' => pending BY <2>1 DEF Respawn
    <2>4. CASE UNCHANGED <<gen, handle, w>> BY <2>1, <2>2, <2>3, <2>4 DEF Bound
    <2>5. CASE vval \ vcur = {"DRIVER_OK"}
      <3>1. "DRIVER_OK" \in status' BY <2>1, <2>5
      <3> QED BY <2>1, <2>3, <3>1 DEF Bound
    <2> QED BY <1>0, <2>1, <2>4, <2>5, SpawnedRecord
  <1> QED
    BY <1>1, <1>2, <1>3, <1>4, <1>5, <1>6, <1>7, <1>8, <1>9, <1>10
       DEF Next, DriverStep, VcpuStep

\* Noticed reads the worker, the ring and whether a notification is due.
LEMMA NoticedFrame ==
    ASSUME Noticed, UNCHANGED <<handle, w, ready, poisoned, avail, notifyOn>>,
           badRing => badRing', vpc = "submit" => vpc' = "submit"
    PROVE  Noticed'
  BY DEF Noticed

\* Every step keeps Noticed: the driver's side of the notification.
LEMMA NoticedStep ==
    ASSUME TypeOK, Lifecycle, Owners, AllFit, Bound, Noticed, [Next]_vars
    PROVE  Noticed'
  <1> USE DEF vcpu, engine, coord, hist, rings
  <1>0. EngineTypes BY DEF Lifecycle
  <1>h. handle # 0 => handle \in Gens BY <1>0, SMT DEF EngineTypes, Gens
  <1> DEFINE Same == /\ UNCHANGED <<handle, w, ready, poisoned, avail, notifyOn>>
                     /\ (badRing' = badRing) \/ badRing'
                     /\ (vpc' = vpc) \/ vpc # "submit"
  <1>s. Same => Noticed'
    <2>1. badRing' = badRing => (badRing => badRing') BY SMT
    <2> QED BY <2>1, NoticedFrame
  <1>1. CASE UNCHANGED vars BY <1>1, NoticedFrame DEF vars
  <1>2. ASSUME NEW g \in Gens, WorkerStep(g) \/ TimerFires(g) PROVE Noticed'
    BY <1>2, NoticedOfWorker
  <1>3. CASE WriteStatus \/ BreakRing \/ Isr
    <2>1. Same BY <1>3 DEF WriteStatus, BreakRing, Isr, Running
    <2> QED BY <1>s, <2>1
  <1>4. CASE SetStatusLoad \/ SetStatusReject \/ SetStatusRetry
    <2>1. Same BY <1>4 DEF SetStatusLoad, SetStatusReject, SetStatusRetry
    <2> QED BY <1>s, <2>1
  <1>5. CASE IsrRead \/ InterruptAck \/ Reap \/ VcpuPark \/ VcpuUnpark
    <2>1. Same BY <1>5 DEF IsrRead, InterruptAck, Reap, VcpuPark, VcpuUnpark
    <2> QED BY <1>s, <2>1
  <1>6. CASE Refill \/ FcSample \/ FreezeStep
    <2>1. Same
      BY <1>6 DEF Refill, FcSample, FreezeStep, FcFreeze, FcPause, FcDump,
                  FcGiveUp, FcThaw
    <2> QED BY <1>s, <2>1
  <1>7. CASE QueueReady
    <2>1. handle' = 0 BY <1>7 DEF QueueReady, Bound
    <2> QED BY <2>1 DEF Noticed
  <1>8. CASE Submit
    <2>1. UNCHANGED <<handle, w, ready, poisoned, notifyOn>> /\ vpc' = "submit"
      BY <1>8 DEF Submit
    <2>2. ~notifyOn /\ handle # 0 /\ ready /\ ~poisoned => Looks(w[handle])
      BY DEF Noticed, Looks
    <2> QED BY <2>1, <2>2 DEF Noticed
  <1>9. CASE Notify
    <2>1. UNCHANGED <<handle, ready, poisoned, notifyOn, avail, badRing>>
      BY <1>9 DEF Notify
    <2> SUFFICES ASSUME handle # 0, ready, ~poisoned
                 PROVE  /\ ~notifyOn => w'[handle].pc \in {"pop", "io", "enable"}
                        /\ avail # 0 /\ ~badRing => Looks(w'[handle])
      BY <2>1 DEF Noticed
    <2>2. handle = gen /\ w[handle] \in Workers
      BY <1>0, <1>h DEF Lifecycle, EngineTypes
    <2>3. w'[handle] = [w[handle] EXCEPT !.kick = @ \/ (notifyOn /\ handle = gen)]
      BY <1>9, <1>h DEF Notify
    <2>4. /\ w'[handle].pc = w[handle].pc /\ w'[handle].outcome = w[handle].outcome
          /\ w'[handle].blocked = w[handle].blocked
          /\ w'[handle].timer = w[handle].timer
          /\ w'[handle].kick = (w[handle].kick \/ (notifyOn /\ handle = gen))
      BY <2>2, <2>3 DEF Workers
    <2> QED BY <2>2, <2>4 DEF Noticed, Looks
  <1>10. CASE Reset
    <2>1. handle' = 0 BY <1>10 DEF Reset, Lifecycle
    <2> QED BY <2>1 DEF Noticed
  <1>11. CASE ResetJoined \/ ResetTimedOut
    <2>1. ~ready' BY <1>11 DEF ResetJoined, ResetTimedOut, ResetDevice
    <2> QED BY <2>1 DEF Noticed
  <1>12. CASE SetStatusStore
    <2>1. /\ Respawn /\ UNCHANGED rings
          /\ status = vcur /\ vpc = "cas"
      BY <1>12 DEF SetStatusStore
    <2>2. CASE UNCHANGED <<gen, handle, w>>
      <3>1. CASE poisoned' = poisoned BY <2>1, <2>2, <3>1, NoticedFrame
      <3>2. CASE pending
        <4>1. handle' = 0 BY <2>2, <3>2 DEF Lifecycle
        <4> QED BY <4>1 DEF Noticed
      <3> QED BY <2>1, <3>1, <3>2 DEF Respawn
    <2>3. CASE vval \ vcur = {"DRIVER_OK"} /\ pending
      <3>1. "DRIVER_OK" \notin status BY <2>1, <2>3
      <3>2. avail = 0 /\ notifyOn BY <2>3, <3>1 DEF Bound
      <3> QED BY <2>1, <3>2 DEF Noticed
    <2> QED BY <1>0, <2>1, <2>2, <2>3, SpawnedRecord
  <1> QED
    BY <1>1, <1>2, <1>3, <1>4, <1>5, <1>6, <1>7, <1>8, <1>9, <1>10, <1>11, <1>12
       DEF Next, DriverStep, VcpuStep

\* Initially there is no thread and the rings are empty.
LEMMA InitNoticed == Init => AllFit /\ Bound /\ Noticed
  <1> SUFFICES ASSUME Init PROVE AllFit /\ Bound /\ Noticed OBVIOUS
  <1>1. \A g \in Gens : w[g] = Unborn BY DEF Init
  <1>2. ~Unborn.blocked /\ ~Unborn.completed BY DEF Unborn
  <1>3. AllFit BY <1>1, <1>2 DEF AllFit, Fit
  <1>4. Bound /\ Noticed BY DEF Init, Bound, Noticed
  <1> QED BY <1>3, <1>4

(* No request is forgotten in the avail ring while the device has a worker for
   it: WorkIsNoticed. *)
THEOREM WorkAlwaysNoticed == Spec => []WorkIsNoticed
  <1> DEFINE IInv == Booked /\ AllFit /\ Bound /\ Noticed
  <1>1. Init => IInv BY InitBooked, InitNoticed
  <1>2. IInv /\ [Next]_vars => IInv'
    BY BookedStep, FitStep, BoundStep, NoticedStep DEF Booked
  <1>3. IInv => WorkIsNoticed
    <2>1. avail > 0 => avail # 0 BY SMT
    <2> QED BY <2>1 DEF Noticed, WorkIsNoticed, Looks
  <1> QED BY <1>1, <1>2, <1>3, PTL DEF Spec

(* The ways a completion is known to the driver's side. *)
Announced ==
    \/ ("VRING" \in intr /\ (irq \/ vpc = "isr"))
    \/ (vpc = "isrAck" /\ "VRING" \in vint)
    \/ vpc = "reap"

Signalled == used # 0 => (\E g \in Gens : w[g].completed) \/ Announced

\* A step outside the interrupt handler leaves what is announced announced.
LEMMA AnnouncedFrame ==
    ASSUME Announced, "VRING" \in intr => "VRING" \in intr', irq => irq',
           vint' = vint, vpc \in {"isr", "isrAck", "reap"} => vpc' = vpc
    PROVE  Announced'
  BY DEF Announced

\* Signalled reads the used ring, the drains' flags and the interrupt.
LEMMA SignalledFrame ==
    ASSUME Signalled, used' = used, Announced => Announced',
           \A g \in Gens : w[g].completed => w'[g].completed
    PROVE  Signalled'
  BY DEF Signalled

\* A drain hands its completions over to the interrupt before it forgets them.
LEMMA SignalledOfWorker ==
    ASSUME Lifecycle, AllFit, Signalled,
           NEW g \in Gens, WorkerStep(g) \/ TimerFires(g)
    PROVE  Signalled'
  <1> USE DEF Workers, WorkerPcs, irqs, rings
  <1>0. EngineTypes BY DEF Lifecycle
  <1>a. w[g] \in Workers /\ Fit(w[g]) BY <1>0 DEF EngineTypes, AllFit
  <1>b. UNCHANGED <<vpc, vint>> BY <1>0, WorkerFrame DEF vcpu
  <1>c. \A h \in Gens : h # g => w'[h] = w[h]
    BY <1>0, WorkerMoves DEF WorkerMove, EngineTypes
  <1>1. CASE DrainServe(g)
    <2>1. w'[g].completed BY <1>0, <1>a, <1>1 DEF EngineTypes, DrainServe
    <2> QED BY <2>1 DEF Signalled
  <1>2. CASE DrainSignal(g)
    <2>1. /\ used' = used
          /\ "VRING" \in intr => "VRING" \in intr'
          /\ w[g].completed => "VRING" \in intr'
          /\ irq' = (irq \/ w[g].completed)
      BY <1>2 DEF DrainSignal
    <2>2. Announced => Announced' BY <1>b, <2>1 DEF Announced
    <2>3. CASE w[g].completed BY <2>1, <2>3 DEF Signalled, Announced
    <2>4. CASE ~w[g].completed
      <3>1. \A h \in Gens : w[h].completed => w'[h].completed BY <1>c, <2>4
      <3> QED BY <2>1, <2>2, <3>1, SignalledFrame
    <2> QED BY <2>3, <2>4
  <1>3. CASE DrainBegin(g)
    <2>1. UNCHANGED <<used, irqs>> /\ w[g].pc = "drain" BY <1>3 DEF DrainBegin
    <2>2. ~w[g].completed BY <1>a, <2>1 DEF Fit
    <2>3. \A h \in Gens : w[h].completed => w'[h].completed BY <1>c, <2>2
    <2> QED BY <1>b, <2>1, <2>3, SignalledFrame, AnnouncedFrame
  <1>4. CASE ~DrainServe(g) /\ ~DrainSignal(g) /\ ~DrainBegin(g)
    <2>1. /\ used' = used
          /\ "VRING" \in intr => "VRING" \in intr'
          /\ irq => irq'
      <3>1. CASE DrainPoison(g) BY <3>1 DEF DrainPoison
      <3>a. UNCHANGED <<used, irqs>> =>
               /\ used' = used
               /\ "VRING" \in intr => "VRING" \in intr'
               /\ irq => irq'
        BY SMT
      <3>2. CASE \/ WorkerStart(g) \/ WorkerStop(g) \/ WorkerKick(g)
                 \/ WorkerTimer(g) \/ WorkerPause(g) \/ WorkerAck(g)
                 \/ WorkerUnpark(g) \/ TimerFires(g)
        BY <3>2, <3>a DEF WorkerStart, WorkerStop, WorkerKick, WorkerTimer,
                    WorkerPause, WorkerAck, WorkerUnpark, TimerFires
      <3>3. CASE \/ DrainPop(g) \/ DrainStall(g) \/ DrainEmpty(g)
                 \/ DrainEnable(g) \/ DrainRecheck(g)
        BY <3>3, <3>a DEF DrainPop, DrainStall, DrainEmpty, DrainEnable, DrainRecheck
      <3> QED BY <1>4, <3>1, <3>2, <3>3 DEF WorkerStep, DrainStep
    <2>2. w'[g].completed = w[g].completed
      <3> USE DEF EngineTypes
      <3>1. CASE WorkerStart(g) BY <1>0, <1>a, <3>1 DEF WorkerStart
      <3>2. CASE WorkerStop(g) BY <1>0, <1>a, <3>2 DEF WorkerStop
      <3>3. CASE WorkerKick(g) BY <1>0, <1>a, <3>3 DEF WorkerKick
      <3>4. CASE WorkerTimer(g) BY <1>0, <1>a, <3>4 DEF WorkerTimer
      <3>5. CASE WorkerPause(g) BY <1>0, <1>a, <3>5 DEF WorkerPause
      <3>6. CASE WorkerAck(g) BY <1>0, <1>a, <3>6 DEF WorkerAck
      <3>7. CASE WorkerUnpark(g) BY <1>0, <1>a, <3>7 DEF WorkerUnpark
      <3>8. CASE TimerFires(g) BY <1>0, <1>a, <3>8 DEF TimerFires
      <3>9. CASE DrainPoison(g) BY <1>0, <1>a, <3>9 DEF DrainPoison
      <3>10. CASE DrainPop(g) BY <1>0, <1>a, <3>10 DEF DrainPop
      <3>11. CASE DrainStall(g)
        <4>1. PICK o \in {"sleep", "zero"} :
                 w' = [w EXCEPT ![g].pc = "signal", ![g].outcome = o]
          BY <3>11 DEF DrainStall
        <4> QED BY <1>0, <1>a, <4>1
      <3>12. CASE DrainEmpty(g) BY <1>0, <1>a, <3>12 DEF DrainEmpty
      <3>13. CASE DrainEnable(g) BY <1>0, <1>a, <3>13 DEF DrainEnable
      <3>14. CASE DrainRecheck(g) BY <1>0, <1>a, <3>14 DEF DrainRecheck
      <3> QED
        BY <1>4, <3>1, <3>2, <3>3, <3>4, <3>5, <3>6, <3>7, <3>8, <3>9, <3>10,
           <3>11, <3>12, <3>13, <3>14 DEF WorkerStep, DrainStep
    <2>3. \A h \in Gens : w[h].completed => w'[h].completed BY <1>c, <2>2
    <2> QED BY <1>b, <2>1, <2>3, SignalledFrame, AnnouncedFrame
  <1> QED BY <1>1, <1>2, <1>3, <1>4

\* Every step keeps Signalled: the interrupt handler's side.
LEMMA SignalledStep ==
    ASSUME Lifecycle, AllFit, Signalled, [Next]_vars
    PROVE  Signalled'
  <1> USE DEF vcpu, engine, coord, hist, rings, irqs
  <1>0. EngineTypes BY DEF Lifecycle
  <1>a. ASSUME UNCHANGED <<used, w>>, Announced => Announced' PROVE Signalled'
    BY <1>a, SignalledFrame
  <1> DEFINE Same == /\ UNCHANGED <<used, w, intr, irq, vint>>
                     /\ (vpc' = vpc) \/ vpc \notin {"isr", "isrAck", "reap"}
  <1>s. Same => Signalled'
    <2>1. irq' = irq => (irq => irq') BY SMT
    <2> QED BY <1>a, <2>1, AnnouncedFrame
  <1>1. CASE UNCHANGED vars BY <1>1, <1>s DEF vars
  <1>2. ASSUME NEW g \in Gens, WorkerStep(g) \/ TimerFires(g) PROVE Signalled'
    BY <1>2, SignalledOfWorker
  <1>3. CASE WriteStatus \/ QueueReady \/ Submit \/ BreakRing
    <2>1. Same BY <1>3 DEF WriteStatus, QueueReady, Submit, BreakRing, Running
    <2> QED BY <1>s, <2>1
  <1>4. CASE SetStatusLoad \/ SetStatusReject \/ SetStatusRetry
    <2>1. Same BY <1>4 DEF SetStatusLoad, SetStatusReject, SetStatusRetry
    <2> QED BY <1>s, <2>1
  <1>5. CASE Isr
    <2>1. UNCHANGED <<used, w, intr>> /\ vpc = "guest" /\ vpc' = "isr"
      BY <1>5 DEF Isr, Running
    <2> QED BY <1>a, <2>1 DEF Announced
  <1>6. CASE IsrRead
    <2>1. /\ UNCHANGED <<used, w, irqs>> /\ vpc = "isr"
          /\ vpc' = "isrAck" /\ vint' = intr
      BY <1>6 DEF IsrRead
    <2> QED BY <1>a, <2>1 DEF Announced
  <1>7. CASE InterruptAck
    <2>1. /\ UNCHANGED <<used, w, irq>> /\ vpc = "isrAck" /\ intr' = intr \ vint
          /\ "VRING" \in vint => vpc' = "reap"
      BY <1>7 DEF InterruptAck
    <2> QED BY <1>a, <2>1 DEF Announced
  <1>8. CASE Reap BY <1>8 DEF Reap, Signalled
  <1>9. CASE VcpuPark \/ VcpuUnpark
    <2>1. Same BY <1>9 DEF VcpuPark, VcpuUnpark
    <2> QED BY <1>s, <2>1
  <1>10. CASE Refill \/ FcSample \/ FreezeStep
    <2>1. Same
      BY <1>10 DEF Refill, FcSample, FreezeStep, FcFreeze, FcPause, FcDump,
                   FcGiveUp, FcThaw
    <2> QED BY <1>s, <2>1
  <1>11. CASE Notify
    <2>1. UNCHANGED <<used, irqs, vint>> /\ vpc = "submit" BY <1>11 DEF Notify
    <2>2. ASSUME NEW g \in Gens PROVE w'[g].completed = w[g].completed
      <3>1. w[g] \in Workers BY <1>0 DEF EngineTypes
      <3>2. w'[g] = [w[g] EXCEPT !.kick = @ \/ (notifyOn /\ g = gen)]
        BY <1>11 DEF Notify
      <3> QED BY <3>1, <3>2 DEF Workers
    <2> QED BY <2>1, <2>2, SignalledFrame, AnnouncedFrame
  <1>12. CASE Reset
    <2>1. UNCHANGED <<used, irqs, vint>> /\ vpc = "guest" BY <1>12 DEF Reset, Running
    <2>2. ASSUME NEW g \in Gens PROVE w'[g].completed = w[g].completed
      <3>1. w[g] \in Workers BY <1>0 DEF EngineTypes
      <3>2. CASE w' = w BY <3>2
      <3>3. CASE w'[g] = [w[g] EXCEPT !.stop = @ \/ g = gen]
        BY <3>1, <3>3 DEF Workers
      <3> QED BY <1>12, <2>2, <3>2, <3>3 DEF Reset
    <2> QED BY <2>1, <2>2, SignalledFrame, AnnouncedFrame
  <1>13. CASE ResetJoined \/ ResetTimedOut
    BY <1>13 DEF ResetJoined, ResetTimedOut, ResetDevice, Signalled
  <1>14. CASE SetStatusStore
    <2>1. Respawn /\ UNCHANGED <<used, irqs, vint>> /\ vpc = "cas"
      BY <1>14 DEF SetStatusStore
    <2>2. CASE w' = w BY <2>1, <2>2, <1>a, AnnouncedFrame
    <2>3. CASE gen + 1 \in Gens /\ w' = [w EXCEPT ![gen + 1].pc = "start"]
      <3>1. \A g \in Gens : w'[g].completed = w[g].completed
        BY <1>0, <2>3 DEF EngineTypes, Workers
      <3> QED BY <2>1, <3>1, SignalledFrame, AnnouncedFrame
    <2> QED BY <1>0, <2>1, <2>2, <2>3, SpawnedRecord
  <1> QED
    BY <1>1, <1>2, <1>3, <1>4, <1>5, <1>6, <1>7, <1>8, <1>9, <1>10, <1>11, <1>12,
       <1>13, <1>14 DEF Next, DriverStep, VcpuStep

(* No completion is forgotten in the used ring, whatever threads resets have
   left behind: CompletionIsSignalled. *)
THEOREM CompletionsAlwaysSignalled == Spec => []CompletionIsSignalled
  <1> DEFINE IInv == Booked /\ AllFit /\ Signalled
  <1>1. Init => IInv
    <2>1. Init => Signalled BY DEF Init, Signalled
    <2> QED BY <2>1, InitBooked, InitNoticed
  <1>2. IInv /\ [Next]_vars => IInv'
    BY BookedStep, FitStep, SignalledStep DEF Booked
  <1>3. IInv => CompletionIsSignalled
    <2>1. used > 0 => used # 0 BY SMT
    <2> QED BY <2>1 DEF Signalled, Announced, CompletionIsSignalled
  <1> QED BY <1>1, <1>2, <1>3, PTL DEF Spec
============================================================================
