--------------------------- MODULE UserWatchProofs ---------------------------
(***************************************************************************)
(* For any number of vCPUs, slots, symbols and requests: no published      *)
(* watch is missed, the capture gate is always given back, adoption        *)
(* strands no request, the drain keeps reports, types are kept, and every  *)
(* step of the coordinator brings a latched hit nearer to its report.      *)
(***************************************************************************)
EXTENDS UserWatch, FiniteSetTheorems, WellFoundedInduction, NaturalsInduction,
        TLAPS

Places ==
    {"top", "ioctl", "enter", "guest", "debug", "eintr", "parked", "gone"}
ByteDue(v) == cpc = "kick" /\ v \in toKick

(* The part of TypeOK the argument needs. *)
Shape ==
    /\ request \in [Slots -> Symbols \cup {Nil}]
    /\ vpc \in [Vcpus -> Places]
    /\ armed \in [Vcpus -> [Slots -> Symbols \cup {Nil}]]
    /\ want \in [Vcpus -> [Slots -> Symbols \cup {Nil}]]
    /\ dr \in [Vcpus -> [Slots -> Symbols \cup {Nil}]]
    /\ failures \in [Vcpus -> 0..FailCap]
    /\ ie \in [Vcpus -> BOOLEAN] /\ sig \in [Vcpus -> BOOLEAN]
    /\ missed \in [Vcpus -> BOOLEAN]
    /\ toKick \subseteq Vcpus
    /\ anyArmed \in BOOLEAN

(* Before the first publication there is nothing to arm. *)
GateCovers == ~anyArmed => request = NoKva

(* What a vCPU thinks is armed is in its registers, unless it was refused. *)
ArmedIsReal == \A v \in Vcpus : failures[v] = 0 => armed[v] = dr[v]

(* A vCPU that no kick will stop has, in its registers or in what it is about
   to program, every request that is published.  Before KVM_RUN it is the byte
   that stops a vCPU, there or still to come, and inside it the signal. *)
Armed(v) == failures[v] = 0 /\ ~missed[v]
ProgrammedAt(v, s) ==
    request[s] # Nil =>
        /\ vpc[v] = "ioctl" /\ ~ie[v] /\ ~ByteDue(v) => want[v][s] = request[s]
        /\ vpc[v] = "enter" /\ ~ie[v] /\ ~ByteDue(v) /\ Armed(v)
             => dr[v][s] = request[s]
        /\ vpc[v] = "guest" /\ ~sig[v] /\ ~KickDue(v) /\ Armed(v)
             => dr[v][s] = request[s]
Programmed == \A v \in Vcpus, s \in Slots : ProgrammedAt(v, s)

ArmInv == Shape /\ GateCovers /\ ArmedIsReal /\ Programmed

armVars ==
    <<request, anyArmed, vpc, armed, want, dr, failures, ie, sig, missed,
      toKick>>
Kicking == cpc \in {"kick", "signal"}

\* Every slot is free initially.
LEMMA ArmInit == Init => ArmInv
<1> SUFFICES ASSUME Init PROVE ArmInv
  OBVIOUS
<1>1. Shape
  <2>1. NoKva \in [Slots -> Symbols \cup {Nil}]
    BY DEF NoKva
  <2>2. failures \in [Vcpus -> 0..FailCap]
    BY WatchAssumption DEF Init
  <2>3. vpc \in [Vcpus -> Places] /\ toKick \subseteq Vcpus
    BY DEF Init, Places
  <2>4. /\ ie \in [Vcpus -> BOOLEAN] /\ sig \in [Vcpus -> BOOLEAN]
        /\ missed \in [Vcpus -> BOOLEAN] /\ anyArmed \in BOOLEAN
    BY Zenon DEF Init
  <2>5. /\ armed \in [Vcpus -> [Slots -> Symbols \cup {Nil}]]
        /\ want \in [Vcpus -> [Slots -> Symbols \cup {Nil}]]
        /\ dr \in [Vcpus -> [Slots -> Symbols \cup {Nil}]]
    BY <2>1 DEF Init
  <2> QED BY <2>1, <2>2, <2>3, <2>4, <2>5, Zenon DEF Init, Shape
<1>2. GateCovers
  BY Zenon DEF Init, GateCovers
<1>3. ArmedIsReal
  BY DEF Init, ArmedIsReal
<1>4. Programmed
  BY DEF Init, Programmed, ProgrammedAt, NoKva
<1> QED BY <1>1, <1>2, <1>3, <1>4 DEF ArmInv

\* ArmInv reads the arming state, and of cpc whether a kick is under way.
LEMMA ArmStutter ==
  ASSUME ArmInv, UNCHANGED armVars,
         (cpc' = cpc) \/ (~Kicking /\ ~Kicking')
  PROVE  ArmInv'
<1>1. Shape'
  BY DEF ArmInv, Shape, armVars
<1>2. GateCovers'
  BY Zenon DEF ArmInv, GateCovers, NoKva, armVars
<1>3. ArmedIsReal'
  BY Zenon DEF ArmInv, ArmedIsReal, armVars
<1>4. ASSUME NEW v \in Vcpus
      PROVE  (ByteDue(v)' <=> ByteDue(v)) /\ (KickDue(v)' <=> KickDue(v))
  BY Zenon DEF ByteDue, KickDue, Kicking, armVars
<1>5. Programmed'
  BY <1>4, Zenon DEF ArmInv, Programmed, ProgrammedAt, Armed, armVars
<1> QED BY <1>1, <1>2, <1>3, <1>5 DEF ArmInv

(* A step of vCPU v leaves what is asked of the others as it was. *)
LEMMA ProgrammedElsewhere ==
  ASSUME NEW v \in Vcpus, NEW u \in Vcpus \ {v}, NEW s \in Slots,
         ProgrammedAt(u, s), UNCHANGED <<request, toKick, cpc>>,
         vpc'[u] = vpc[u], ie'[u] = ie[u], sig'[u] = sig[u],
         want'[u] = want[u], dr'[u] = dr[u], failures'[u] = failures[u],
         missed'[u] = missed[u]
  PROVE  ProgrammedAt(u, s)'
<1>1. (ByteDue(u)' <=> ByteDue(u)) /\ (KickDue(u)' <=> KickDue(u))
  BY Zenon DEF ByteDue, KickDue
<1> QED  BY <1>1, SMT DEF ProgrammedAt, Armed

(* The head of the loop, and the ways out of KVM_RUN. *)
LEMMA ArmLoop ==
  ASSUME ArmInv, NEW v \in Vcpus,
         \/ LeaveLoop(v) \/ Park(v) \/ Unpark(v) \/ KickedOut(v)
         \/ ClearKick(v) \/ OtherExit(v) \/ LatchUserHit(v)
         \/ (\E x \in Symbols : TrappedWrite(v, x)) \/ (v = Bsp /\ Shutdown)
  PROVE  ArmInv'
<1>1. /\ vpc' \in [Vcpus -> Places] /\ ie' \in [Vcpus -> BOOLEAN]
      /\ sig' \in [Vcpus -> BOOLEAN]
      /\ vpc'[v] \notin {"ioctl", "enter", "guest"}
      /\ \A u \in Vcpus \ {v} : /\ vpc'[u] = vpc[u] /\ ie'[u] = ie[u]
                                /\ sig'[u] = sig[u]
      /\ UNCHANGED <<request, anyArmed, armed, want, dr, failures, missed,
                     toKick, cpc>>
  <2>1. UNCHANGED <<request, anyArmed, armed, want, dr, failures, missed,
                    toKick, cpc>>
    BY Zenon DEF LeaveLoop, Park, Unpark, KickedOut, ClearKick, OtherExit,
         LatchUserHit, TrappedWrite, Shutdown, slotVars, kickVars, coordVars
  <2>2. \/ ie' = ie
        \/ ie' = [ie EXCEPT ![v] = FALSE]
    BY Zenon DEF LeaveLoop, Park, Unpark, KickedOut, ClearKick, OtherExit,
         LatchUserHit, TrappedWrite, Shutdown, kickVars
  <2>3. \/ sig' = sig
        \/ sig' = [sig EXCEPT ![v] = FALSE]
    BY Zenon DEF LeaveLoop, Park, Unpark, KickedOut, ClearKick, OtherExit,
         LatchUserHit, TrappedWrite, Shutdown, Handled, kickVars
  <2>4. \/ vpc' = vpc /\ vpc[v] = "debug"
        \/ \E l \in {"gone", "parked", "top", "eintr", "debug"} :
              vpc' = [vpc EXCEPT ![v] = l]
    BY Zenon DEF LeaveLoop, Park, Unpark, KickedOut, ClearKick, OtherExit,
         LatchUserHit, TrappedWrite, Shutdown, Goto
  <2>5. ie' \in [Vcpus -> BOOLEAN] /\ \A u \in Vcpus \ {v} : ie'[u] = ie[u]
    BY <2>2, Zenon DEF ArmInv, Shape
  <2>6. sig' \in [Vcpus -> BOOLEAN] /\ \A u \in Vcpus \ {v} : sig'[u] = sig[u]
    BY <2>3, Zenon DEF ArmInv, Shape
  <2>7. /\ vpc' \in [Vcpus -> Places]
        /\ vpc'[v] \notin {"ioctl", "enter", "guest"}
        /\ \A u \in Vcpus \ {v} : vpc'[u] = vpc[u]
    BY <2>4 DEF ArmInv, Shape, Places
  <2> QED  BY <2>1, <2>5, <2>6, <2>7, Zenon
<1>2. Shape'
  BY <1>1, Zenon DEF ArmInv, Shape
<1>3. GateCovers' /\ ArmedIsReal'
  BY <1>1, Zenon DEF ArmInv, GateCovers, ArmedIsReal, NoKva
<1>4. Programmed'
  <2> SUFFICES ASSUME NEW u \in Vcpus, NEW s \in Slots PROVE ProgrammedAt(u, s)'
    BY Zenon DEF Programmed
  <2>1. CASE u = v
    BY <1>1, <2>1, Zenon DEF ProgrammedAt
  <2>2. CASE u # v
    <3>1. ProgrammedAt(u, s)
      BY Zenon DEF ArmInv, Programmed
    <3> QED  BY <1>1, <2>2, <3>1, ProgrammedElsewhere, Zenon
  <2> QED  BY <2>1, <2>2
<1> QED BY <1>2, <1>3, <1>4, Zenon DEF ArmInv

(* self_arm_watchpoint. *)
LEMMA ArmSelf ==
  ASSUME ArmInv, NEW v \in Vcpus,
         SelfArm(v) \/ ArmOk(v) \/ ArmEintr(v) \/ ArmFails(v) \/ EnterGuest(v)
  PROVE  ArmInv'
<1> USE DEF slotVars, kickVars, coordVars, Goto
<1>1. CASE SelfArm(v)
  <2>1. /\ UNCHANGED <<request, anyArmed, armed, dr, failures, ie, sig, toKick,
                       cpc>>
        /\ vpc' \in [Vcpus -> Places] /\ missed' \in [Vcpus -> BOOLEAN]
        /\ want' \in [Vcpus -> [Slots -> Symbols \cup {Nil}]]
        /\ \A u \in Vcpus \ {v} : /\ vpc'[u] = vpc[u] /\ want'[u] = want[u]
                                  /\ missed'[u] = missed[u]
    BY <1>1 DEF SelfArm, ArmInv, Shape, Places
  <2>2. Shape' /\ GateCovers' /\ ArmedIsReal'
    <3>1. Shape'
      BY <2>1 DEF ArmInv, Shape
    <3>2. GateCovers'
      BY <2>1, Zenon DEF ArmInv, GateCovers, NoKva
    <3>3. ArmedIsReal'
      BY <2>1, Zenon DEF ArmInv, ArmedIsReal
    <3> QED BY <3>1, <3>2, <3>3
  <2>3. CASE ~anyArmed
    <3>1. request' = NoKva
      BY <2>1, <2>3, Zenon DEF ArmInv, GateCovers
    <3>2. Programmed'
      BY <3>1 DEF Programmed, ProgrammedAt, NoKva
    <3> QED BY <2>2, <3>2 DEF ArmInv
  <2>4. CASE request = armed[v]
    <3>1. vpc'[v] = "enter"
      BY <1>1, <2>4 DEF SelfArm, ArmInv, Shape
    <3>2. Programmed'
      <4> SUFFICES ASSUME NEW u \in Vcpus, NEW s \in Slots
                   PROVE  ProgrammedAt(u, s)'
        BY Zenon DEF Programmed
      <4>1. CASE u = v
        <5>1. failures[v] = 0 => dr[v] = request
          BY <2>4, Zenon DEF ArmInv, ArmedIsReal
        <5> QED  BY <2>1, <3>1, <4>1, <5>1 DEF ProgrammedAt, Armed
      <4>2. CASE u # v
        <5>1. ProgrammedAt(u, s)
          BY Zenon DEF ArmInv, Programmed
        <5> QED  BY <2>1, <4>2, <5>1, ProgrammedElsewhere, Zenon
      <4> QED  BY <4>1, <4>2
    <3> QED BY <2>2, <3>2 DEF ArmInv
  <2>5. CASE anyArmed /\ request # armed[v]
    <3>1. vpc'[v] = "ioctl" /\ want'[v] = request
      BY <1>1, <2>5 DEF SelfArm, ArmInv, Shape
    <3>2. Programmed'
      BY <2>1, <3>1 DEF ArmInv, Shape, Programmed, ProgrammedAt, Armed, ByteDue,
           KickDue
    <3> QED BY <2>2, <3>2 DEF ArmInv
  <2> QED BY <2>3, <2>4, <2>5 DEF ArmInv, Shape
<1>2. CASE ArmOk(v)
  BY <1>2, WatchAssumption
     DEF ArmOk, Handled, ArmInv, Shape, GateCovers, ArmedIsReal, Programmed,
         ProgrammedAt, Armed, ByteDue, KickDue, NoKva, Places
<1>3. CASE ArmEintr(v)
  BY <1>3 DEF ArmEintr, Handled, ArmInv, Shape, GateCovers, ArmedIsReal,
              Programmed, ProgrammedAt, Armed, ByteDue, KickDue, NoKva, Places
<1>4. CASE ArmFails(v)
  BY <1>4, WatchAssumption
     DEF ArmFails, Handled, ArmInv, Shape, GateCovers, ArmedIsReal,
         Programmed, ProgrammedAt, Armed, ByteDue, KickDue, NoKva, Places
<1>5. CASE EnterGuest(v)
  BY <1>5 DEF EnterGuest, ArmInv, Shape, GateCovers, ArmedIsReal, Programmed,
              ProgrammedAt, Armed, ByteDue, KickDue, NoKva, Places
<1> QED BY <1>1, <1>2, <1>3, <1>4, <1>5

(* The coordinator's steps that change a request or a kick. *)
LEMMA ArmCoord ==
  ASSUME ArmInv,
         \/ Publish \/ (\E v \in Vcpus : KickOne(v)) \/ Fence
         \/ (\E v \in Vcpus : SignalOne(v)) \/ WatchReply \/ Freeze
         \/ ReleaseSlot
  PROVE  ArmInv'
<1> USE DEF vcpuVars, kickVars, slotVars, coordVars
<1>1. CASE Publish
  <2> DEFINE s == Min(FreeSlots)
             t == Head(pending).tag
  <2>1. t \in Symbols /\ request' = [request EXCEPT ![s] = t]
    BY <1>1 DEF Publish, CanArm
  <2>2. /\ request' \in [Slots -> Symbols \cup {Nil}]
        /\ anyArmed' = TRUE /\ toKick' = Vcpus /\ cpc' = "kick"
        /\ UNCHANGED <<vpc, armed, want, dr, failures, ie, sig, missed>>
    BY <1>1, <2>1 DEF Publish, ArmInv, Shape
  <2> QED
    BY <2>2 DEF ArmInv, Shape, GateCovers, ArmedIsReal, Programmed,
         ProgrammedAt, Armed, ByteDue, KickDue
<1>2. ASSUME NEW v \in Vcpus, KickOne(v) PROVE ArmInv'
  BY <1>2 DEF KickOne, ArmInv, Shape, GateCovers, ArmedIsReal, Programmed,
              ProgrammedAt, Armed, ByteDue, KickDue, Alive, NoKva
<1>3. CASE Fence
  BY <1>3 DEF Fence, ArmInv, Shape, GateCovers, ArmedIsReal, Programmed,
              ProgrammedAt, Armed, ByteDue, KickDue, NoKva
<1>4. ASSUME NEW v \in Vcpus, SignalOne(v) PROVE ArmInv'
  BY <1>4 DEF SignalOne, Interruptible, ArmInv, Shape, GateCovers,
              ArmedIsReal, Programmed, ProgrammedAt, Armed, ByteDue, KickDue, NoKva
<1>5. CASE WatchReply
  BY <1>5 DEF WatchReply, ArmInv, Shape, GateCovers, ArmedIsReal, Programmed,
              ProgrammedAt, Armed, ByteDue, KickDue, NoKva
<1>6. CASE Freeze
  BY <1>6 DEF Freeze, Interruptible, ArmInv, Shape, GateCovers, ArmedIsReal,
              Programmed, ProgrammedAt, Armed, ByteDue, KickDue, Alive, NoKva
<1>7. CASE ReleaseSlot
  BY <1>7 DEF ReleaseSlot, ArmInv, Shape, GateCovers, ArmedIsReal, Programmed,
              ProgrammedAt, Armed, ByteDue, KickDue, NoKva
<1> QED BY <1>1, <1>2, <1>3, <1>4, <1>5, <1>6, <1>7

\* The steps that leave the arming state alone.
LEMMA ArmFrame ==
  ASSUME \/ \E r \in Requests : SendRequest(r)
         \/ Kill \/ BspDone \/ Iterate \/ LeaveCoord \/ Defer \/ Refuse
         \/ BeginCapture \/ RequestsDone \/ QuietSlot \/ FiredSlot
         \/ EndIteration \/ (\E o \in {"real", "placeholder"} : Capture(o))
         \/ CaptureReply \/ DrainSlot \/ CoordExit \/ UNCHANGED vars
  PROVE  /\ UNCHANGED armVars
         /\ (cpc' = cpc) \/ (~Kicking /\ ~Kicking')
<1>1. UNCHANGED armVars
  BY Zenon
     DEF SendRequest, Kill, BspDone, Iterate, LeaveCoord, Defer, Refuse,
         BeginCapture, RequestsDone, QuietSlot, FiredSlot, EndIteration,
         Capture, CaptureReply, DrainSlot, CoordExit, vars, slotVars,
         vcpuVars, kickVars, queueVars, coordVars, bookVars, armVars
<1>2. (cpc' = cpc) \/ (~Kicking /\ ~Kicking')
  BY Zenon
     DEF SendRequest, Kill, BspDone, Iterate, LeaveCoord, Defer, Refuse,
         BeginCapture, RequestsDone, QuietSlot, FiredSlot, EndIteration,
         Capture, CaptureReply, DrainSlot, CoordExit, vars, coordVars, Kicking
<1> QED BY <1>1, <1>2

\* Every step keeps ArmInv.
LEMMA ArmStep == ArmInv /\ [Next]_vars => ArmInv'
<1> SUFFICES ASSUME ArmInv, [Next]_vars PROVE ArmInv'
  OBVIOUS
<1>1. CASE \E v \in Vcpus : VcpuStep(v) \/ GuestStep(v)
  BY <1>1, ArmLoop, ArmSelf DEF VcpuStep, GuestStep
<1>2. CASE \/ Publish \/ (\E v \in Vcpus : KickOne(v)) \/ Fence
           \/ (\E v \in Vcpus : SignalOne(v)) \/ WatchReply \/ Freeze
           \/ ReleaseSlot
  BY <1>2, ArmCoord
<1>3. CASE \/ \E r \in Requests : SendRequest(r)
           \/ Kill \/ BspDone \/ Iterate \/ LeaveCoord \/ Defer \/ Refuse
           \/ BeginCapture \/ RequestsDone \/ QuietSlot \/ FiredSlot
           \/ EndIteration \/ (\E o \in {"real", "placeholder"} : Capture(o))
           \/ CaptureReply \/ DrainSlot \/ CoordExit \/ UNCHANGED vars
  BY <1>3, ArmFrame, ArmStutter
<1>4. CASE Shutdown
  BY <1>4, ArmLoop, WatchAssumption
<1> QED BY <1>1, <1>2, <1>3, <1>4 DEF Next, CoordStep, Ended

(* arm_user_watchpoint publishes before it kicks, and sets every byte before
   it sends a signal: a vCPU that is in KVM_RUN or about to call it, and that
   no kick stops, has armed all that is published, however the two passes,
   the clearing of the byte and self_arm_watchpoint interleave; the refused
   ioctl, and the one a signal without its byte interrupts, excepted. *)
THEOREM NoWatchMissed == Spec => []WatchNotMissed
<1>1. ArmInv => WatchNotMissed
  BY DEF ArmInv, Programmed, ProgrammedAt, WatchNotMissed, Armed, ByteDue, KickDue
<1> QED BY <1>1, ArmInit, ArmStep, PTL DEF Spec

---------------------------------------------------------------------------
(* The gate is held exactly while one capture or watch is served. *)
GateInv ==
    /\ inFlight \in BOOLEAN
    /\ cpc \in {"idle", "req", "slots", "drain"} => ~inFlight

\* GateInv holds initially.
LEMMA GateInit == Init => GateInv
  BY DEF Init, GateInv

\* Every step keeps GateInv.
LEMMA GateStep == GateInv /\ [Next]_vars => GateInv'
<1> SUFFICES ASSUME GateInv, [Next]_vars PROVE GateInv'
  OBVIOUS
<1>1. CASE CoordStep
  <2>1. CASE \/ Iterate \/ LeaveCoord \/ RequestsDone \/ QuietSlot
             \/ EndIteration \/ DrainSlot \/ Defer \/ Refuse
    <3>1. /\ cpc \in {"idle", "req", "slots", "drain"}
          /\ inFlight' = inFlight
      BY <2>1 DEF Iterate, LeaveCoord, RequestsDone, QuietSlot,
           EndIteration, DrainSlot, Defer, Refuse, coordVars
    <3> QED BY <3>1, Zenon DEF GateInv
  <2>2. CASE WatchReply \/ CaptureReply \/ ReleaseSlot
    BY <2>2, Zenon DEF WatchReply, CaptureReply, ReleaseSlot, GateInv
  <2>3. CASE \/ Publish \/ (\E v \in Vcpus : KickOne(v)) \/ Fence
             \/ (\E v \in Vcpus : SignalOne(v)) \/ BeginCapture
             \/ Freeze \/ (\E o \in {"real", "placeholder"} : Capture(o))
             \/ CoordExit
    <3>1. cpc' \notin {"idle", "req", "slots", "drain"}
      BY <2>3 DEF Publish, KickOne, Fence, SignalOne, BeginCapture, Freeze,
           Capture, CoordExit
    <3>2. inFlight' \in BOOLEAN
      BY <2>3, Zenon DEF Publish, KickOne, Fence, SignalOne, BeginCapture,
           Freeze, Capture, CoordExit, GateInv
    <3> QED BY <3>1, <3>2, Zenon DEF GateInv
  <2>4. CASE FiredSlot
    <3>1. cpc = "slots" /\ ~inFlight
      BY <2>4 DEF FiredSlot, GateInv
    <3>2. inFlight' = TRUE /\ cpc' = "freeze"
      BY <2>4, <3>1, Zenon DEF FiredSlot
    <3>3. cpc' \notin {"idle", "req", "slots", "drain"}
      BY <3>2
    <3> QED BY <3>2, <3>3, Zenon DEF GateInv
  <2> QED BY <1>1, <2>1, <2>2, <2>3, <2>4 DEF CoordStep
<1>2. CASE UNCHANGED coordVars
  BY <1>2 DEF GateInv, coordVars
<1>3. CASE \E v \in Vcpus : VcpuStep(v) \/ GuestStep(v)
  BY <1>3, <1>2, Zenon DEF VcpuStep, GuestStep, LeaveLoop, Park, Unpark,
       SelfArm, ArmOk, ArmEintr, ArmFails, EnterGuest, KickedOut, ClearKick,
       OtherExit, LatchUserHit, TrappedWrite
<1>4. CASE (\E r \in Requests : SendRequest(r)) \/ Kill \/ Shutdown
           \/ BspDone \/ UNCHANGED vars
  BY <1>4, <1>2, Zenon DEF SendRequest, Kill, Shutdown, BspDone, vars
<1> QED BY <1>1, <1>3, <1>4 DEF Next, Ended

(* on_demand_in_flight is cleared on every path, so a request is never told
   that another capture is in flight. *)
THEOREM GateAlwaysCleared == Spec => []GateIsCleared
<1>1. GateInv => GateIsCleared
  BY DEF GateInv, GateIsCleared
<1> QED BY <1>1, GateInit, GateStep, PTL DEF Spec

(* Once the accessor is adopted nothing is left in the deferred queue. *)
THEOREM AdoptionStrandsNothing == Spec => []NoneStranded
<1>1. Init => NoneStranded
  BY DEF Init, NoneStranded
<1>2. NoneStranded /\ [Next]_vars => NoneStranded'
  <2> SUFFICES ASSUME NoneStranded, [Next]_vars PROVE NoneStranded'
    OBVIOUS
  <2>1. CASE Iterate \/ Defer
    BY <2>1 DEF Iterate, Defer, NoneStranded
  <2>2. CASE UNCHANGED <<deferred, ready>>
    BY <2>2 DEF NoneStranded
  <2>3. CASE \E v \in Vcpus : VcpuStep(v) \/ GuestStep(v)
    BY <2>3, <2>2, Zenon DEF VcpuStep, GuestStep, LeaveLoop, Park, Unpark,
         SelfArm, ArmOk, ArmEintr, ArmFails, EnterGuest, KickedOut, ClearKick,
         OtherExit, LatchUserHit, TrappedWrite, queueVars
  <2>4. CASE \/ (\E r \in Requests : SendRequest(r)) \/ Kill
             \/ Shutdown \/ BspDone \/ LeaveCoord \/ Refuse \/ Publish
             \/ WatchReply \/ BeginCapture
             \/ (\E v \in Vcpus : KickOne(v)) \/ Fence
             \/ (\E v \in Vcpus : SignalOne(v)) \/ RequestsDone \/ QuietSlot
             \/ FiredSlot \/ EndIteration \/ Freeze
             \/ (\E o \in {"real", "placeholder"} : Capture(o))
             \/ CaptureReply \/ ReleaseSlot \/ DrainSlot \/ CoordExit
             \/ UNCHANGED vars
    BY <2>4, <2>2, Zenon DEF SendRequest, Kill, Shutdown, BspDone, LeaveCoord,
         Refuse, Publish, WatchReply, BeginCapture, KickOne, Fence, SignalOne,
         RequestsDone, QuietSlot, FiredSlot, EndIteration, Freeze, Capture,
         CaptureReply, ReleaseSlot, DrainSlot, CoordExit, vars, queueVars
  <2> QED BY <2>1, <2>3, <2>4 DEF Next, CoordStep, Ended
<1> QED BY <1>1, <1>2, PTL DEF Spec

---------------------------------------------------------------------------
Held == {"none", "real", "placeholder"}
BridgeInv == bridge \in [Tags -> Held] /\ outcome \in Held

\* The steps that store no snapshot.
LEMMA BridgeFrame ==
  ASSUME \/ \E v \in Vcpus : VcpuStep(v) \/ GuestStep(v)
         \/ \E r \in Requests : SendRequest(r)
         \/ Kill \/ Shutdown \/ BspDone \/ Iterate \/ LeaveCoord \/ Defer
         \/ Refuse \/ Publish
         \/ (\E v \in Vcpus : KickOne(v)) \/ Fence
         \/ (\E v \in Vcpus : SignalOne(v)) \/ WatchReply \/ BeginCapture
         \/ RequestsDone \/ QuietSlot \/ FiredSlot \/ EndIteration \/ Freeze
         \/ CoordExit \/ UNCHANGED vars
  PROVE  UNCHANGED <<bridge, outcome>>
<1>1. CASE \E v \in Vcpus : VcpuStep(v) \/ GuestStep(v)
  BY <1>1, Zenon DEF VcpuStep, GuestStep, LeaveLoop, Park, Unpark, SelfArm,
       ArmOk, ArmEintr, ArmFails, EnterGuest, KickedOut, ClearKick, OtherExit,
       LatchUserHit, TrappedWrite, bookVars, coordVars
<1>2. CASE \/ \E r \in Requests : SendRequest(r)
           \/ Kill \/ Shutdown \/ BspDone \/ Iterate \/ LeaveCoord \/ Defer
         \/ Refuse \/ Publish
           \/ (\E v \in Vcpus : KickOne(v)) \/ Fence
           \/ (\E v \in Vcpus : SignalOne(v)) \/ WatchReply \/ BeginCapture
           \/ RequestsDone \/ QuietSlot \/ FiredSlot \/ EndIteration \/ Freeze
           \/ CoordExit \/ UNCHANGED vars
  BY <1>2, Zenon DEF SendRequest, Kill, Shutdown, BspDone, Iterate, LeaveCoord,
       Defer, Refuse, Publish, KickOne, Fence, SignalOne, WatchReply,
       BeginCapture, RequestsDone, QuietSlot, FiredSlot, EndIteration, Freeze,
       CoordExit, vars, bookVars, coordVars
<1> QED BY <1>1, <1>2

\* No snapshot is stored initially.
LEMMA BridgeInit == Init => BridgeInv
  BY DEF Init, BridgeInv, Held

\* Every step keeps BridgeInv.
LEMMA BridgeStep == BridgeInv /\ [Next]_vars => BridgeInv'
<1> SUFFICES ASSUME BridgeInv, [Next]_vars PROVE BridgeInv'
  OBVIOUS
<1>1. CASE UNCHANGED <<bridge, outcome>>
  BY <1>1 DEF BridgeInv
<1>2. CASE CaptureReply \/ ReleaseSlot
  BY <1>2 DEF CaptureReply, ReleaseSlot, StoreReport, BridgeInv, Held
<1>3. CASE \E o \in {"real", "placeholder"} : Capture(o)
  BY <1>3 DEF Capture, bookVars, BridgeInv, Held
<1>4. CASE DrainSlot
  BY <1>4 DEF DrainSlot, BridgeInv, Held
<1> QED
  BY <1>1, <1>2, <1>3, <1>4, BridgeFrame DEF Next, CoordStep, Ended

(* The coordinator's last walk over the slots, which runs while the vCPUs may
   still latch hits, never replaces a report by a placeholder. *)
THEOREM ReportsSurviveDrain == Spec => DrainKeepsReports
<1>1. BridgeInv /\ [Next]_vars =>
        [\A t \in Tags : cpc = "drain" /\ bridge[t] = "real"
                           => bridge'[t] = "real"]_vars
  <2> SUFFICES ASSUME BridgeInv, [Next]_vars, NEW t \in Tags,
                      cpc = "drain", bridge[t] = "real"
               PROVE  bridge'[t] = "real"
    OBVIOUS
  <2>1. CASE UNCHANGED <<bridge, outcome>>
    BY <2>1
  <2>2. CASE \/ CaptureReply \/ ReleaseSlot
             \/ (\E o \in {"real", "placeholder"} : Capture(o))
    BY <2>2 DEF CaptureReply, ReleaseSlot, Capture
  <2>3. CASE DrainSlot
    BY <2>3 DEF DrainSlot, BridgeInv
  <2> QED BY <2>1, <2>2, <2>3, BridgeFrame DEF Next, CoordStep, Ended
<1> QED BY <1>1, BridgeInit, BridgeStep, PTL DEF Spec, DrainKeepsReports
---------------------------------------------------------------------------
(* Types: what the invariants above leave open. *)
Kvas == Symbols \cup {Nil}
SlotTypes == /\ tag \in [Slots -> Kvas] /\ hit \in [Slots -> BOOLEAN]
             /\ cause \in [Slots -> Kvas]
TrapTypes == fired \in [Vcpus -> SUBSET Slots] /\ wrote \in [Vcpus -> Kvas]
FlagTypes ==
    /\ ready \in BOOLEAN /\ freeze \in BOOLEAN
    /\ kill \in BOOLEAN /\ bspDone \in BOOLEAN
    /\ bspFinal \in BOOLEAN /\ final \in BOOLEAN
Walk ==
    /\ cpc \in {"idle", "req", "kick", "signal", "freeze", "rendezvous",
                "store", "slots", "drain", "exited"}
    /\ slot \in 0..(UserSlots + 1)
BookTypes == job \in Tags /\ source \in Kvas /\ mislaid \in BOOLEAN
(* The queues hold requests, and the one that is served stays at the head of
   pending until its reply, so that no request is counted twice. *)
Serving == \/ cpc \in {"kick", "signal"}
           \/ cpc \in {"freeze", "rendezvous", "store"} /\ slot = 0
QueueInv ==
    /\ tx \in Seq(Requests) /\ pending \in Seq(Requests)
    /\ deferred \in Seq(Requests)
    /\ answered \in Nat /\ Sent <= MaxReq
    /\ Serving => pending # <<>>
RestTypes == SlotTypes /\ TrapTypes /\ FlagTypes /\ Walk /\ BookTypes /\ QueueInv

(* What no vCPU and no guest step changes. *)
coordOnly == <<tag, cpc, slot, job, source, mislaid, ready, freeze, bspFinal,
               final, tx, pending, deferred, answered>>

\* The types of what only the coordinator writes survive the other steps.
LEMMA CoordFrame ==
  ASSUME RestTypes, UNCHANGED coordOnly
  PROVE  /\ Walk' /\ BookTypes' /\ QueueInv'
         /\ UNCHANGED <<kill, bspDone>> => FlagTypes'
         /\ UNCHANGED <<hit, cause>> => SlotTypes'
<1> USE DEF RestTypes, coordOnly
<1>1. Walk' /\ BookTypes'
  BY Zenon DEF Walk, BookTypes
<1>2. QueueInv'
  BY Zenon DEF QueueInv, Sent, Serving
<1>3. UNCHANGED <<kill, bspDone>> => FlagTypes'
  BY Zenon DEF FlagTypes
<1>4. UNCHANGED <<hit, cause>> => SlotTypes'
  BY Zenon DEF SlotTypes
<1> QED  BY <1>1, <1>2, <1>3, <1>4, Zenon

\* Sequences of requests: head, tail, append and concatenation.
LEMMA Queues ==
  ASSUME NEW q \in Seq(Requests)
  PROVE  /\ Len(q) \in Nat
         /\ q # <<>> => /\ Head(q) \in Requests /\ Tail(q) \in Seq(Requests)
                        /\ Len(q) > 0 /\ Len(Tail(q)) = Len(q) - 1
         /\ \A r \in Requests : /\ Append(q, r) \in Seq(Requests)
                                /\ Len(Append(q, r)) = Len(q) + 1
         /\ \A p \in Seq(Requests) : /\ q \o p \in Seq(Requests)
                                     /\ Len(q \o p) = Len(q) + Len(p)
  BY SMT

\* The tag of a request is a tag.
LEMMA RequestTags ==
  ASSUME NEW r \in Requests
  PROVE  r.tag \in Tags
  BY SMT DEF Requests, Tags

\* The initial state has the declared types.
LEMMA RestInit == Init => RestTypes
<1> SUFFICES ASSUME Init PROVE RestTypes
  OBVIOUS
<1>1. NoKva \in [Slots -> Kvas]
  BY DEF NoKva, Kvas
<1>2. SlotTypes /\ TrapTypes
  BY <1>1, Zenon DEF Init, SlotTypes, TrapTypes, Kvas
<1>3. FlagTypes
  BY Zenon DEF Init, FlagTypes
<1>4. 0 \in 0..(UserSlots + 1)
  BY WatchAssumption, SMT
<1>5. Walk
  BY <1>4, Zenon DEF Init, Walk
<1>6. BookTypes
  BY Zenon DEF Init, BookTypes, Tags, Kvas
<1>7. QueueInv
  <2>1. <<>> \in Seq(Requests) /\ Len(<<>>) + Len(<<>>) + Len(<<>>) + 0 <= MaxReq
    BY WatchAssumption, SMT
  <2>2. ~Serving
    BY Zenon DEF Init, Serving
  <2>3. answered \in Nat
    BY SMT DEF Init
  <2> QED  BY <2>1, <2>2, <2>3, Zenon DEF Init, QueueInv, Sent
<1> QED  BY <1>2, <1>3, <1>5, <1>6, <1>7, Zenon DEF RestTypes

(* The vCPU threads and the guest: traps, hits and the end of the BSP. *)
LEMMA RestVcpu ==
  ASSUME RestTypes,
         \/ \E v \in Vcpus : VcpuStep(v) \/ GuestStep(v)
         \/ Shutdown \/ Kill \/ BspDone
  PROVE  RestTypes'
<1> USE DEF slotVars, queueVars, passVars, coordVars, bookVars, endVars, vcpuVars
<1>1. CASE \E v \in Vcpus : LatchUserHit(v)
  <2>1. PICK v \in Vcpus : LatchUserHit(v)
    BY <1>1, Zenon
  <2>2. SlotTypes'
    BY <2>1, Zenon DEF LatchUserHit, RestTypes, SlotTypes, TrapTypes
  <2>3. TrapTypes'
    BY <2>1, Zenon DEF LatchUserHit, RestTypes, TrapTypes, Kvas
  <2>4. UNCHANGED coordOnly /\ UNCHANGED <<kill, bspDone>>
    BY <2>1, Zenon DEF LatchUserHit, coordOnly
  <2> QED  BY <2>2, <2>3, <2>4, CoordFrame, Zenon DEF RestTypes
<1>2. CASE \E v \in Vcpus : \E x \in Symbols : TrappedWrite(v, x)
  <2>1. PICK v \in Vcpus, x \in Symbols : TrappedWrite(v, x)
    BY <1>2, Zenon
  <2>2. TrapTypes'
    BY <2>1, Zenon DEF TrappedWrite, RestTypes, TrapTypes, Kvas
  <2>3. UNCHANGED coordOnly /\ UNCHANGED <<kill, bspDone, hit, cause>>
    BY <2>1, Zenon DEF TrappedWrite, coordOnly
  <2> QED  BY <2>2, <2>3, CoordFrame, Zenon DEF RestTypes
<1>3. CASE UNCHANGED coordOnly /\ UNCHANGED <<hit, cause, fired, wrote>>
           /\ kill' \in BOOLEAN /\ bspDone' \in BOOLEAN
  BY <1>3, Zenon DEF RestTypes, SlotTypes, TrapTypes, FlagTypes, Walk,
                     BookTypes, QueueInv, Sent, Serving, coordOnly
<1>4. CASE Kill \/ BspDone \/ Shutdown
  BY <1>3, <1>4, Zenon DEF Kill, BspDone, Shutdown, RestTypes, FlagTypes, coordOnly
<1>5. CASE \E v \in Vcpus : \/ LeaveLoop(v) \/ Park(v) \/ Unpark(v) \/ SelfArm(v)
                            \/ ArmOk(v) \/ ArmEintr(v) \/ ArmFails(v)
                            \/ EnterGuest(v) \/ KickedOut(v) \/ ClearKick(v)
                            \/ OtherExit(v)
  <2>1. UNCHANGED coordOnly /\ UNCHANGED <<hit, cause, fired, wrote, kill, bspDone>>
    BY <1>5, Zenon DEF LeaveLoop, Park, Unpark, SelfArm, ArmOk, ArmEintr, ArmFails,
                       EnterGuest, KickedOut, ClearKick, OtherExit, coordOnly
  <2> QED  BY <1>3, <2>1, Zenon DEF RestTypes, FlagTypes
<1> QED  BY <1>1, <1>2, <1>4, <1>5, Zenon DEF VcpuStep, GuestStep

(* The queues. *)
LEMMA QueueStep ==
  ASSUME RestTypes, (\E r \in Requests : SendRequest(r)) \/ CoordStep
  PROVE  QueueInv'
<1> USE DEF queueVars, coordVars, passVars
<1>1. /\ tx \in Seq(Requests) /\ pending \in Seq(Requests)
      /\ deferred \in Seq(Requests) /\ answered \in Nat
      /\ Len(tx) + Len(pending) + Len(deferred) + answered <= MaxReq
      /\ Len(tx) \in Nat /\ Len(pending) \in Nat /\ Len(deferred) \in Nat
      /\ MaxReq \in Nat /\ (Serving => pending # <<>>)
      /\ slot \in 0..(UserSlots + 1) /\ UserSlots \in Nat
  BY Queues, WatchAssumption DEF RestTypes, QueueInv, Walk, Sent
<1>2. ASSUME NEW r \in Requests, SendRequest(r) PROVE QueueInv'
  <2>1. /\ tx' = Append(tx, r) /\ UNCHANGED <<pending, deferred, answered, cpc, slot>>
        /\ Len(tx) + Len(pending) + Len(deferred) + answered < MaxReq
    BY <1>2, Zenon DEF SendRequest, Sent
  <2>2. tx' \in Seq(Requests) /\ Len(tx') = Len(tx) + 1
    BY <1>1, <2>1, Queues, Zenon
  <2>3. Len(tx') + Len(pending) + Len(deferred) + answered <= MaxReq
    BY <1>1, <2>1, <2>2, SMT
  <2> QED  BY <1>1, <2>1, <2>2, <2>3, Zenon DEF QueueInv, Sent, Serving
<1>3. CASE Iterate
  <2>1. /\ tx' = <<>> /\ cpc' = "req" /\ answered' = answered
        /\ \/ pending' = tx \o deferred /\ deferred' = <<>>
           \/ pending' = tx \o <<>> /\ deferred' = deferred
    BY <1>3, Zenon DEF Iterate
  <2>2. <<>> \in Seq(Requests) /\ Len(<<>>) = 0
    BY SMT
  <2>3. /\ pending' \in Seq(Requests) /\ deferred' \in Seq(Requests)
        /\ Len(pending') + Len(deferred') = Len(tx) + Len(deferred)
    <3>1. CASE pending' = tx \o deferred /\ deferred' = <<>>
      <4>1. /\ pending' \in Seq(Requests) /\ deferred' \in Seq(Requests)
            /\ Len(pending') = Len(tx) + Len(deferred) /\ Len(deferred') = 0
        BY <1>1, <2>2, <3>1, Queues, Zenon
      <4> QED  BY <1>1, <4>1, SMT
    <3>2. CASE pending' = tx \o <<>> /\ deferred' = deferred
      <4>1. /\ pending' \in Seq(Requests) /\ deferred' \in Seq(Requests)
            /\ Len(pending') = Len(tx) + 0 /\ Len(deferred') = Len(deferred)
        BY <1>1, <2>2, <3>2, Queues, Zenon
      <4> QED  BY <1>1, <4>1, SMT
    <3> QED  BY <2>1, <3>1, <3>2, Zenon
  <2>4. Len(tx') + Len(pending') + Len(deferred') + answered' <= MaxReq
    <3>1. /\ Len(pending') \in Nat /\ Len(deferred') \in Nat
          /\ Len(tx') = 0 /\ answered' = answered
      BY <2>1, <2>2, <2>3, Queues, Zenon
    <3> QED  BY <1>1, <2>3, <3>1, SMT
  <2>5. ~Serving'
    BY <2>1, Zenon DEF Serving
  <2> QED  BY <1>1, <2>1, <2>2, <2>3, <2>4, <2>5, Zenon DEF QueueInv, Sent
<1>4. CASE Defer
  <2>1. /\ pending # <<>> /\ cpc = "req" /\ UNCHANGED <<tx, answered, cpc>>
        /\ deferred' = Append(deferred, Head(pending)) /\ pending' = Tail(pending)
    BY <1>4, Zenon DEF Defer
  <2>2. /\ pending' \in Seq(Requests) /\ deferred' \in Seq(Requests)
        /\ Len(pending') = Len(pending) - 1 /\ Len(deferred') = Len(deferred) + 1
    BY <1>1, <2>1, Queues, Zenon
  <2>3. Len(tx) + Len(pending') + Len(deferred') + answered <= MaxReq
    BY <1>1, <2>2, SMT
  <2>4. ~Serving'
    BY <2>1, Zenon DEF Serving
  <2> QED  BY <1>1, <2>1, <2>2, <2>3, <2>4, Zenon DEF QueueInv, Sent
<1>5. CASE Refuse \/ WatchReply \/ CaptureReply
  <2>1. /\ cpc' = "req" /\ UNCHANGED <<tx, deferred>>
        /\ pending' = Tail(pending) /\ answered' = answered + 1
        /\ pending # <<>>
    BY <1>1, <1>5, Zenon DEF Refuse, WatchReply, CaptureReply, Serving
  <2>2. pending' \in Seq(Requests) /\ Len(pending') = Len(pending) - 1
    BY <1>1, <2>1, Queues, Zenon
  <2>3. /\ Len(tx) + Len(pending') + Len(deferred) + answered' <= MaxReq
        /\ answered' \in Nat
    BY <1>1, <2>1, <2>2, SMT
  <2>4. ~Serving'
    BY <2>1, Zenon DEF Serving
  <2> QED  BY <1>1, <2>1, <2>2, <2>3, <2>4, Zenon DEF QueueInv, Sent
<1>6. CASE UNCHANGED <<tx, pending, deferred, answered>> /\ (Serving' => pending # <<>>)
  BY <1>1, <1>6, Zenon DEF QueueInv, Sent
<1>7. CASE LeaveCoord \/ RequestsDone \/ QuietSlot \/ EndIteration \/ ReleaseSlot
           \/ DrainSlot \/ CoordExit
  <2>1. /\ UNCHANGED <<tx, pending, deferred, answered>>
        /\ cpc' \in {"drain", "slots", "idle", "exited"}
    BY <1>7, Zenon DEF LeaveCoord, RequestsDone, QuietSlot, EndIteration,
                       ReleaseSlot, DrainSlot, CoordExit
  <2> QED  BY <1>6, <2>1, Zenon DEF Serving
<1>8. CASE Publish \/ BeginCapture
  BY <1>6, <1>8, Zenon DEF Publish, BeginCapture
<1>9. CASE FiredSlot
  <2>1. UNCHANGED <<tx, pending, deferred, answered>> /\ slot \in Slots
        /\ (cpc' = "slots" \/ slot' = slot)
        /\ cpc' \in {"slots", "freeze"}
    BY <1>9, Zenon DEF FiredSlot
  <2>2. slot # 0
    BY <1>1, <2>1, SMT DEF Slots
  <2> QED  BY <1>6, <2>1, <2>2, Zenon DEF Serving
<1>10. CASE \/ (\E v \in Vcpus : KickOne(v)) \/ Fence
            \/ (\E v \in Vcpus : SignalOne(v)) \/ Freeze
            \/ (\E o \in {"real", "placeholder"} : Capture(o))
  BY <1>1, <1>6, <1>10, Zenon DEF KickOne, Fence, SignalOne, Freeze, Capture,
       Serving
<1> QED  BY <1>2, <1>3, <1>4, <1>5, <1>7, <1>8, <1>9, <1>10, Zenon DEF CoordStep

(* The coordinator's own variables, and a request of the guest. *)
LEMMA RestCoord ==
  ASSUME RestTypes, (\E r \in Requests : SendRequest(r)) \/ CoordStep
  PROVE  RestTypes'
<1> USE DEF slotVars, vcpuVars, queueVars, passVars, coordVars, bookVars, endVars
<1>1. QueueInv'
  BY QueueStep
<1>2. /\ SlotTypes /\ TrapTypes /\ FlagTypes /\ Walk /\ BookTypes /\ QueueInv
  BY Zenon DEF RestTypes
<1>3. TrapTypes'
  BY <1>2, Zenon DEF TrapTypes, SendRequest, CoordStep, Iterate, LeaveCoord,
       Defer, Refuse, Publish, KickOne, Fence, SignalOne, WatchReply,
       BeginCapture, RequestsDone, QuietSlot, FiredSlot, EndIteration, Freeze,
       Capture, CaptureReply, ReleaseSlot, DrainSlot, CoordExit
<1>4. FlagTypes'
  <2>1. CASE Iterate
    BY <1>2, <2>1, Zenon DEF FlagTypes, Iterate, FinalPass
  <2>2. CASE Freeze \/ \E o \in {"real", "placeholder"} : Capture(o)
    BY <1>2, <2>2, Zenon DEF FlagTypes, Freeze, Capture
  <2>3. CASE \/ (\E r \in Requests : SendRequest(r)) \/ LeaveCoord \/ Defer
             \/ Refuse \/ Publish \/ (\E v \in Vcpus : KickOne(v)) \/ Fence
             \/ (\E v \in Vcpus : SignalOne(v)) \/ WatchReply
             \/ BeginCapture \/ RequestsDone \/ QuietSlot \/ FiredSlot
             \/ EndIteration \/ CaptureReply \/ ReleaseSlot \/ DrainSlot
             \/ CoordExit
    <3>1. UNCHANGED <<ready, freeze, kill, bspDone, bspFinal, final>>
      BY <2>3, Zenon DEF SendRequest, LeaveCoord, Defer, Refuse, Publish,
           KickOne, Fence, SignalOne, WatchReply, BeginCapture, RequestsDone,
           QuietSlot, FiredSlot, EndIteration, CaptureReply, ReleaseSlot,
           DrainSlot, CoordExit
    <3> QED  BY <1>2, <3>1, Zenon DEF FlagTypes
  <2> QED  BY <2>1, <2>2, <2>3, Zenon DEF CoordStep
<1>5. Walk'
  <2>1. /\ 0 \in 0..(UserSlots + 1) /\ 1 \in 0..(UserSlots + 1)
        /\ slot \in Slots => slot + 1 \in 0..(UserSlots + 1)
    BY WatchAssumption, SMT DEF Slots
  <2> QED
    BY <1>2, <2>1, Zenon DEF Walk, SendRequest, CoordStep, Iterate, LeaveCoord,
         Defer, Refuse, Publish, KickOne, Fence, SignalOne, WatchReply,
         BeginCapture, RequestsDone, QuietSlot, FiredSlot, EndIteration, Freeze,
         Capture, CaptureReply, ReleaseSlot, DrainSlot, CoordExit
<1>6. SlotTypes'
  <2>1. CASE Publish
    <3>1. Head(pending).tag \in Symbols
      BY <2>1, Zenon DEF Publish, CanArm
    <3> QED  BY <1>2, <2>1, <3>1, Zenon DEF Publish, SlotTypes, Kvas
  <2>2. CASE FiredSlot \/ ReleaseSlot \/ DrainSlot
    BY <1>2, <2>2, Zenon DEF FiredSlot, ReleaseSlot, DrainSlot, SlotTypes, Kvas
  <2>3. CASE \/ (\E r \in Requests : SendRequest(r)) \/ Iterate \/ LeaveCoord
             \/ Defer \/ Refuse \/ (\E v \in Vcpus : KickOne(v)) \/ Fence
             \/ (\E v \in Vcpus : SignalOne(v)) \/ WatchReply
             \/ BeginCapture \/ RequestsDone \/ QuietSlot \/ EndIteration
             \/ Freeze \/ (\E o \in {"real", "placeholder"} : Capture(o))
             \/ CaptureReply \/ CoordExit
    BY <1>2, <2>3, Zenon DEF SlotTypes, SendRequest, Iterate, LeaveCoord, Defer,
         Refuse, KickOne, Fence, SignalOne, WatchReply, BeginCapture,
         RequestsDone, QuietSlot, EndIteration, Freeze, Capture, CaptureReply,
         CoordExit
  <2> QED  BY <2>1, <2>2, <2>3, Zenon DEF CoordStep
<1>7. BookTypes'
  <2>1. CASE BeginCapture
    <3>1. Head(pending).tag \in Tags
      BY <1>2, <2>1, Queues, RequestTags, Zenon DEF BeginCapture, QueueInv
    <3> QED  BY <1>2, <2>1, <3>1, Zenon DEF BeginCapture, BookTypes, Kvas
  <2>2. CASE FiredSlot
    <3>1. tag[slot] \in Tags /\ cause[slot] \in Kvas
      BY <1>2, <2>2, Zenon DEF FiredSlot, SlotTypes, Tags, Kvas
    <3> QED  BY <1>2, <2>2, <3>1, Zenon DEF FiredSlot, BookTypes
  <2>3. CASE CaptureReply \/ ReleaseSlot
    BY <1>2, <2>3, Zenon DEF CaptureReply, ReleaseSlot, StoreReport, BookTypes,
                             Tags, Kvas
  <2>4. CASE \/ (\E r \in Requests : SendRequest(r)) \/ Iterate \/ LeaveCoord
             \/ Defer \/ Refuse \/ Publish \/ (\E v \in Vcpus : KickOne(v)) \/ Fence
             \/ (\E v \in Vcpus : SignalOne(v))
             \/ WatchReply \/ RequestsDone \/ QuietSlot \/ EndIteration
             \/ Freeze \/ (\E o \in {"real", "placeholder"} : Capture(o))
             \/ DrainSlot \/ CoordExit
    BY <1>2, <2>4, Zenon DEF BookTypes, SendRequest, Iterate, LeaveCoord, Defer,
         Refuse, Publish, KickOne, Fence, SignalOne, WatchReply, RequestsDone,
         QuietSlot, EndIteration, Freeze, Capture, DrainSlot, CoordExit
  <2> QED  BY <2>1, <2>2, <2>3, <2>4, Zenon DEF CoordStep
<1> QED  BY <1>1, <1>3, <1>4, <1>5, <1>6, <1>7, Zenon DEF RestTypes

\* Every step keeps the types outside the arming state.
LEMMA RestStep == RestTypes /\ [Next]_vars => RestTypes'
<1> SUFFICES ASSUME RestTypes, [Next]_vars PROVE RestTypes'
  OBVIOUS
<1>1. CASE UNCHANGED vars
  <2>1. UNCHANGED coordOnly /\ UNCHANGED <<hit, cause, fired, wrote, kill, bspDone>>
    BY <1>1, Zenon DEF coordOnly, vars, slotVars, vcpuVars, queueVars, passVars,
                       coordVars, bookVars, endVars
  <2> QED  BY <2>1, CoordFrame, Zenon DEF RestTypes, TrapTypes
<1> QED  BY <1>1, RestVcpu, RestCoord, Zenon DEF Next, Ended

(* Every variable has its type: in particular the coordinator answers no more
   requests than the guest has sent, because the request it serves stays in
   its queue until the reply. *)
THEOREM TypeCorrect == Spec => []TypeOK
<1>1. ArmInv => Shape
  BY Zenon DEF ArmInv
<1>2. RestTypes /\ Shape /\ GateInv /\ BridgeInv => TypeOK
  <2> SUFFICES ASSUME RestTypes, Shape, GateInv, BridgeInv PROVE TypeOK
    OBVIOUS
  <2>1. answered \in 0..MaxReq
    <3>1. /\ Len(tx) \in Nat /\ Len(pending) \in Nat /\ Len(deferred) \in Nat
          /\ answered \in Nat /\ MaxReq \in Nat
          /\ Len(tx) + Len(pending) + Len(deferred) + answered <= MaxReq
      BY Queues, WatchAssumption, Zenon DEF RestTypes, QueueInv, Sent
    <3> QED  BY <3>1, SMT
  <2> QED
    BY <2>1, Zenon DEF RestTypes, SlotTypes, TrapTypes, FlagTypes, Walk,
         BookTypes, QueueInv, Shape, GateInv, BridgeInv, Held, Places, Kvas, TypeOK
<1> QED
  BY <1>1, <1>2, ArmInit, ArmStep, GateInit, GateStep, BridgeInit, BridgeStep,
     RestInit, RestStep, PTL DEF Spec
---------------------------------------------------------------------------
(* The way of a latched hit to the bridge.                                 *)

Capturing == cpc \in {"freeze", "rendezvous", "store"}

(* Something under tag t is still to be stored for slot s: its hit is set and
   a walk of the coordinator comes past it, or its capture is under way. *)
Owes(s, t) ==
    /\ tag[s] = t
    /\ \/ hit[s] /\ cpc # "exited" /\ (cpc = "drain" => slot <= s)
       \/ Capturing /\ slot = s

(* How far the coordinator is from slot s: the part of the iteration, what is
   ahead in it, the stage of the request or slot, and the vCPUs to kick. *)
Phase(s) == IF cpc = "idle" THEN 3
            ELSE IF cpc = "drain" THEN 0
            ELSE IF slot = 0 THEN 2
            ELSE IF slot <= s THEN 1 ELSE 4
Ahead == IF slot = 0 THEN Len(pending) ELSE UserSlots + 1 - slot
Stage == CASE cpc = "kick" -> 5
           [] cpc = "signal" -> 4
           [] cpc = "freeze" -> 3
           [] cpc = "rendezvous" -> 2
           [] cpc = "store" -> 1
           [] OTHER -> 6
Kicks == Cardinality(toKick)

Nearer(s) ==
    \/ Phase(s)' < Phase(s)
    \/ /\ Phase(s)' = Phase(s)
       /\ \/ Ahead' < Ahead
          \/ /\ Ahead' = Ahead
             /\ Stage' < Stage \/ (Stage' = Stage /\ Kicks' < Kicks)
AsFar(s) == /\ Phase(s)' = Phase(s) /\ Ahead' = Ahead
            /\ Stage' = Stage /\ Kicks' = Kicks

(* The guards of CoordStep. *)
CoordGoesOn ==
    \/ cpc \in {"idle", "freeze", "rendezvous"}
    \/ cpc = "req" /\ pending = <<>>
    \/ /\ cpc = "req" /\ pending # <<>>
       /\ LET r == Head(pending) IN
          \/ ~ready /\ (r.kind = "watch" => ~inFlight)
          \/ inFlight /\ (r.kind = "capture" => ready)
          \/ ready /\ r.kind = "watch" /\ (~CanArm(r.tag) \/ ~inFlight)
          \/ ready /\ r.kind = "capture" /\ ~inFlight
    \/ cpc \in {"kick", "signal"} /\ (toKick = {} \/ \E v \in Vcpus : v \in toKick)
    \/ cpc = "store" /\ (slot = 0 \/ slot \in Slots)
    \/ cpc \in {"slots", "drain"} /\ (slot \in Slots \/ slot > UserSlots)

(* Where the walks over the slots are, and what a capture is of. *)
Visits ==
    /\ cpc \in {"idle", "req", "kick", "signal"} => slot = 0
    /\ cpc \in {"slots", "drain"} => slot # 0
    /\ Capturing => slot <= UserSlots
    /\ Capturing /\ slot # 0 => job = tag[slot]
    /\ cpc = "store" => outcome # "none"
    /\ tag = request

(* A latched hit is not lost, whatever the guest and the vCPUs do meanwhile:
   until a report or a placeholder is under its tag the hit or its capture is
   there, no step of another thread takes the coordinator further from it and
   each of its own takes it nearer, also while it serves requests, captures
   for other slots or drains; and what is under a tag stays. *)
FireIsServed ==
    [][\A s \in Slots, t \in Symbols :
         /\ bridge[t] # "none" => bridge'[t] # "none"
         /\ Owes(s, t) => \/ bridge'[t] # "none"
                          \/ /\ Owes(s, t)' /\ (Nearer(s) \/ AsFar(s))
                             /\ CoordStep => Nearer(s)]_vars

(* The coordinator is never blocked, and what is ahead of it is finite. *)
CoordIsLive ==
    /\ cpc # "exited" => CoordGoesOn
    /\ Ahead \in Nat /\ Kicks \in Nat

\* A set of slots that is not empty has a least member, which Min returns.
LEMMA FirstFree ==
  ASSUME NEW S, S \subseteq Nat, S # {}
  PROVE  Min(S) \in S
<1> DEFINE R == OpToRel(<, Nat)
<1>1. PICK x \in S : \A y \in S : <<y, x>> \notin R
  <2>1. IsWellFoundedOn(R, Nat)
    BY NatLessThanWellFounded
  <2> HIDE DEF R
  <2> QED  BY <2>1, WFMin
<1>2. ASSUME NEW y \in S PROVE x <= y
  <2>1. ~(y < x)
    BY <1>1 DEF OpToRel
  <2> QED  BY <2>1, SMT
<1> HIDE DEF R
<1> QED  BY <1>2, Zenon DEF Min

\* Initially no walk has begun and nothing is published.
LEMMA VisitsInit == Init => Visits
  BY Zenon DEF Init, Visits, Capturing

(* What Visits is about, and what only the coordinator's capture of a request
   and its walks change. *)
visitVars == <<cpc, slot, job, outcome, tag, request>>

\* The steps of the guest, the vCPUs and the run's end leave the walks alone.
LEMMA VisitFrame ==
  ASSUME [Next]_vars, ~CoordStep
  PROVE  UNCHANGED visitVars /\ UNCHANGED <<pending, toKick, bridge>>
<1> USE DEF visitVars, slotVars, vcpuVars, queueVars, passVars, coordVars,
            bookVars, endVars
<1>1. CASE \E v \in Vcpus : VcpuStep(v) \/ GuestStep(v)
  BY <1>1, Zenon DEF VcpuStep, GuestStep, LeaveLoop, Park, Unpark, SelfArm,
       ArmOk, ArmEintr, ArmFails, EnterGuest, KickedOut, ClearKick, OtherExit,
       LatchUserHit, TrappedWrite
<1>2. CASE (\E r \in Requests : SendRequest(r)) \/ Kill \/ Shutdown \/ BspDone
           \/ UNCHANGED vars
  BY <1>2, Zenon DEF SendRequest, Kill, Shutdown, BspDone, vars
<1> QED  BY <1>1, <1>2, Zenon DEF Next, Ended

\* Every step keeps Visits.
LEMMA VisitsStep == Shape /\ RestTypes /\ GateInv /\ Visits /\ [Next]_vars => Visits'
<1> SUFFICES ASSUME Shape, RestTypes, GateInv, Visits, [Next]_vars PROVE Visits'
  OBVIOUS
<1> USE DEF slotVars, vcpuVars, queueVars, passVars, coordVars, bookVars, endVars
<1>1. CASE UNCHANGED visitVars
  BY <1>1, Zenon DEF visitVars, Visits, Capturing
<1>2. CASE \/ Iterate \/ Defer \/ Refuse \/ (\E v \in Vcpus : KickOne(v))
           \/ Fence \/ (\E v \in Vcpus : SignalOne(v)) \/ WatchReply
  <2>1. /\ UNCHANGED <<slot, tag, request>> /\ slot = 0
        /\ cpc' \in {"idle", "req", "kick", "signal"}
    BY <1>2, Zenon DEF Iterate, Defer, Refuse, KickOne, Fence, SignalOne,
         WatchReply, Visits
  <2> QED  BY <2>1, Zenon DEF Visits, Capturing
<1>3. CASE Publish
  <2>1. /\ slot' = slot /\ slot = 0 /\ cpc' = "kick"
        /\ tag' = [tag EXCEPT ![Min(FreeSlots)] = Head(pending).tag]
        /\ request' = [request EXCEPT ![Min(FreeSlots)] = Head(pending).tag]
    BY <1>3, Zenon DEF Publish, Visits
  <2> QED  BY <2>1, Zenon DEF Visits, Capturing
<1>4. CASE BeginCapture \/ CaptureReply
  <2>1. /\ UNCHANGED <<tag, request>> /\ slot' = 0 /\ cpc' \in {"freeze", "req"}
    BY <1>4, Zenon DEF BeginCapture, CaptureReply
  <2>2. 0 <= UserSlots
    BY WatchAssumption, SMT
  <2> QED  BY <2>1, <2>2, Zenon DEF Visits, Capturing
<1>5. CASE LeaveCoord \/ RequestsDone \/ QuietSlot \/ ReleaseSlot \/ DrainSlot
  <2>1. /\ cpc' \in {"slots", "drain"}
        /\ slot' = 1 \/ (slot \in Slots /\ slot' = slot + 1)
    BY <1>5, Zenon DEF LeaveCoord, RequestsDone, QuietSlot, ReleaseSlot, DrainSlot
  <2>2. slot' # 0
    BY <2>1, WatchAssumption, SMT DEF Slots
  <2>3. \/ UNCHANGED <<tag, request>>
        \/ /\ tag' = [tag EXCEPT ![slot] = Nil]
           /\ request' = [request EXCEPT ![slot] = Nil]
    BY <1>5, Zenon DEF LeaveCoord, RequestsDone, QuietSlot, ReleaseSlot, DrainSlot
  <2> QED  BY <2>1, <2>2, <2>3, Zenon DEF Visits, Capturing
<1>6. CASE FiredSlot
  <2>1. /\ cpc' = "freeze" /\ slot' = slot /\ slot \in Slots /\ job' = tag[slot]
        /\ UNCHANGED <<tag, request>>
    BY <1>6, Zenon DEF FiredSlot, GateInv
  <2>2. slot <= UserSlots
    BY <2>1, WatchAssumption, SMT DEF Slots
  <2> QED  BY <2>1, <2>2, Zenon DEF Visits, Capturing
<1>7. CASE EndIteration \/ CoordExit
  <2>1. /\ UNCHANGED <<tag, request>>
        /\ (cpc' = "idle" /\ slot' = 0) \/ cpc' = "exited"
    BY <1>7, Zenon DEF EndIteration, CoordExit
  <2> QED  BY <2>1, Zenon DEF Visits, Capturing
<1>8. CASE Freeze \/ \E o \in {"real", "placeholder"} : Capture(o)
  <2>1. /\ UNCHANGED <<tag, request, slot, job>> /\ Capturing
        /\ cpc' = "rendezvous" \/ (cpc' = "store" /\ outcome' \in {"real", "placeholder"})
    BY <1>8, Zenon DEF Freeze, Capture, Capturing
  <2> QED  BY <2>1, Zenon DEF Visits, Capturing
<1> QED
  BY <1>1, <1>2, <1>3, <1>4, <1>5, <1>6, <1>7, <1>8, VisitFrame, Zenon DEF CoordStep

\* The coordinator is never blocked, and what is ahead of it is finite.
LEMMA CoordLive ==
  ASSUME Shape, RestTypes, GateInv, Visits
  PROVE  CoordIsLive
<1>1. Ahead \in Nat
  <2>1. Len(pending) \in Nat
    BY Queues, Zenon DEF RestTypes, QueueInv
  <2>2. slot \in 0..(UserSlots + 1) /\ UserSlots \in Nat
    BY WatchAssumption, Zenon DEF RestTypes, Walk
  <2> QED  BY <2>1, <2>2, SMT DEF Ahead
<1>2. Kicks \in Nat
  BY FS_Subset, FS_CardinalityType, WatchAssumption, Zenon DEF Kicks, Shape
<1>3. ASSUME cpc # "exited" PROVE CoordGoesOn
  <2>1. /\ cpc \in {"idle", "req", "kick", "signal", "freeze", "rendezvous",
                    "store", "slots", "drain"}
        /\ slot \in 0..(UserSlots + 1) /\ UserSlots \in Nat
    BY <1>3, WatchAssumption, Zenon DEF RestTypes, Walk
  <2>2. CASE cpc = "req" /\ pending # <<>>
    <3>1. Head(pending) \in Requests
      BY <2>2, Queues, Zenon DEF RestTypes, QueueInv
    <3>2. Head(pending).kind \in {"watch", "capture"}
      BY <3>1, SMT DEF Requests
    <3>3. ~inFlight
      BY <2>2, Zenon DEF GateInv
    <3> QED  BY <2>2, <3>2, <3>3, Zenon DEF CoordGoesOn
  <2>3. CASE cpc \in {"kick", "signal"}
    BY <2>3, Zenon DEF CoordGoesOn, Shape
  <2>4. CASE cpc = "store"
    <3>1. slot = 0 \/ slot \in Slots
      BY <2>1, <2>4, SMT DEF Visits, Capturing, Slots
    <3> QED  BY <2>4, <3>1, Zenon DEF CoordGoesOn
  <2>5. CASE cpc \in {"slots", "drain"}
    <3>1. slot # 0
      BY <2>5, Zenon DEF Visits
    <3>2. slot \in Slots \/ slot > UserSlots
      BY <2>1, <3>1, SMT DEF Slots
    <3> QED  BY <2>5, <3>2, Zenon DEF CoordGoesOn
  <2> QED  BY <2>1, <2>2, <2>3, <2>4, <2>5, Zenon DEF CoordGoesOn
<1> QED  BY <1>1, <1>2, <1>3, Zenon DEF CoordIsLive

\* What is under a tag stays: no step takes a report back.
LEMMA BridgeKeeps ==
  ASSUME BridgeInv, RestTypes, Visits, [Next]_vars,
         NEW t \in Symbols, bridge[t] # "none"
  PROVE  bridge'[t] # "none"
<1>1. CASE UNCHANGED bridge
  BY <1>1, Zenon
<1>2. CASE CaptureReply \/ ReleaseSlot
  <2>1. bridge' = [bridge EXCEPT ![job] = outcome] /\ outcome # "none"
    BY <1>2, Zenon DEF CaptureReply, ReleaseSlot, StoreReport, Visits
  <2>2. t \in Tags
    BY Zenon DEF Tags
  <2> QED  BY <2>1, <2>2, Zenon DEF BridgeInv
<1>3. CASE DrainSlot
  <2>1. \/ bridge' = bridge
        \/ bridge' = [bridge EXCEPT ![tag[slot]] = "placeholder"]
    BY <1>3, Zenon DEF DrainSlot
  <2>2. t \in Tags
    BY Zenon DEF Tags
  <2> QED  BY <2>1, <2>2, Zenon DEF BridgeInv
<1>4. CASE \E o \in {"real", "placeholder"} : Capture(o)
  BY <1>1, <1>4, Zenon DEF Capture, bookVars
<1> QED
  BY <1>1, <1>2, <1>3, <1>4, BridgeFrame, Zenon DEF Next, CoordStep, Ended

\* The other threads set hits and clear none, and leave the walks alone.
LEMMA OwedByRest ==
  ASSUME RestTypes, [Next]_vars, ~CoordStep,
         NEW s \in Slots, NEW t \in Symbols, Owes(s, t)
  PROVE  Owes(s, t)' /\ AsFar(s)
<1> USE DEF slotVars, vcpuVars, queueVars, passVars, coordVars, bookVars, endVars
<1>1. UNCHANGED <<cpc, slot, tag, pending, toKick>>
  BY VisitFrame, Zenon DEF visitVars
<1>2. hit[s] => hit'[s]
  <2>1. CASE \E v \in Vcpus : LatchUserHit(v)
    <3>1. PICK v \in Vcpus : LatchUserHit(v)
      BY <2>1, Zenon
    <3>2. hit' = [hit EXCEPT ![Min(fired[v])] = TRUE]
      BY <3>1, Zenon DEF LatchUserHit
    <3> QED  BY <3>2, Zenon DEF RestTypes, SlotTypes
  <2>2. CASE UNCHANGED hit
    BY <2>2, Zenon
  <2>3. CASE \E v \in Vcpus : \/ LeaveLoop(v) \/ Park(v) \/ Unpark(v) \/ SelfArm(v)
                              \/ ArmOk(v) \/ ArmEintr(v) \/ ArmFails(v)
                              \/ EnterGuest(v) \/ KickedOut(v) \/ ClearKick(v)
                              \/ GuestStep(v)
    BY <2>2, <2>3, Zenon DEF LeaveLoop, Park, Unpark, SelfArm, ArmOk, ArmEintr,
         ArmFails, EnterGuest, KickedOut, ClearKick, GuestStep, OtherExit,
         TrappedWrite
  <2>4. CASE (\E r \in Requests : SendRequest(r)) \/ Kill \/ Shutdown \/ BspDone
             \/ UNCHANGED vars
    BY <2>2, <2>4, Zenon DEF SendRequest, Kill, Shutdown, BspDone, vars
  <2> QED  BY <2>1, <2>3, <2>4, Zenon DEF Next, VcpuStep, Ended
<1>3. Owes(s, t)'
  BY <1>1, <1>2, Zenon DEF Owes, Capturing
<1>4. AsFar(s)
  BY <1>1, Zenon DEF AsFar, Phase, Ahead, Stage, Kicks
<1> QED  BY <1>3, <1>4

(* The coordinator: each of its steps stores for slot s or comes nearer. *)
LEMMA OwedByCoord ==
  ASSUME Shape, RestTypes, GateInv, BridgeInv, Visits, CoordStep,
         NEW s \in Slots, NEW t \in Symbols, Owes(s, t)
  PROVE  bridge'[t] # "none" \/ (Owes(s, t)' /\ Nearer(s))
<1> USE DEF slotVars, vcpuVars, queueVars, passVars, coordVars, bookVars, endVars
<1>types. /\ s \in Nat /\ 1 <= s /\ s <= UserSlots /\ UserSlots \in Nat
          /\ slot \in Nat /\ slot <= UserSlots + 1 /\ Len(pending) \in Nat
          /\ t \in Tags
  <2>1. slot \in 0..(UserSlots + 1) /\ UserSlots \in Nat
    BY WatchAssumption, Zenon DEF RestTypes, Walk
  <2>2. Len(pending) \in Nat
    BY Queues, Zenon DEF RestTypes, QueueInv
  <2>3. t \in Tags
    BY Zenon DEF Tags
  <2> QED  BY <2>1, <2>2, <2>3, SMT DEF Slots
<1>tail. pending # <<>> /\ pending' = Tail(pending)
         => Len(pending') \in Nat /\ Len(pending') < Len(pending)
  <2> SUFFICES ASSUME pending # <<>>, pending' = Tail(pending)
               PROVE  Len(pending') \in Nat /\ Len(pending') < Len(pending)
    OBVIOUS
  <2>1. /\ Len(pending') = Len(pending) - 1 /\ Len(pending) > 0
    BY Queues, Zenon DEF RestTypes, QueueInv
  <2> QED  BY <2>1, <1>types, SMT
<1>keep. (UNCHANGED <<hit, tag>> /\ ~Capturing /\ cpc # "drain"
          /\ cpc' # "exited" /\ (cpc' = "drain" => slot' <= s)) => Owes(s, t)'
  BY Zenon DEF Owes
<1>1. CASE Iterate \/ LeaveCoord
  <2>1. /\ cpc = "idle" /\ UNCHANGED <<hit, tag>>
        /\ (cpc' = "req" /\ slot' = slot) \/ (cpc' = "drain" /\ slot' = 1)
    BY <1>1, Zenon DEF Iterate, LeaveCoord
  <2>2. slot = 0
    BY <2>1, Zenon DEF Visits
  <2>3. Nearer(s)
    BY <2>1, <2>2, <1>types, SMT DEF Nearer, Phase
  <2> QED  BY <2>1, <2>3, <1>keep, <1>types, Zenon DEF Capturing
<1>2. CASE Defer \/ Refuse \/ WatchReply
  <2>1. /\ cpc \in {"req", "signal"} /\ cpc' = "req" /\ UNCHANGED <<hit, tag, slot>>
        /\ pending' = Tail(pending)
    BY <1>2, Zenon DEF Defer, Refuse, WatchReply
  <2>2. slot = 0 /\ pending # <<>>
    BY <1>2, <2>1, Zenon DEF Visits, RestTypes, QueueInv, Serving, Defer, Refuse,
                             WatchReply
  <2>3. Nearer(s)
    BY <2>1, <2>2, <1>types, <1>tail, SMT DEF Nearer, Phase, Ahead
  <2> QED  BY <2>1, <2>3, <1>keep, Zenon DEF Capturing
<1>3. CASE Publish
  <2>1. /\ cpc = "req" /\ cpc' = "kick" /\ UNCHANGED <<hit, slot, pending>>
        /\ tag' = [tag EXCEPT ![Min(FreeSlots)] = Head(pending).tag]
        /\ FreeSlots # {}
    BY <1>3, Zenon DEF Publish, CanArm
  <2>2. Min(FreeSlots) \in FreeSlots
    <3>1. FreeSlots \subseteq Nat
      BY SMT DEF FreeSlots, Slots
    <3> QED  BY <2>1, <3>1, FirstFree, Zenon
  <2>3. request[s] # Nil
    BY WatchAssumption, Zenon DEF Visits, Owes
  <2>4. Min(FreeSlots) # s
    BY <2>2, <2>3, Zenon DEF FreeSlots
  <2>5. tag'[s] = tag[s]
    BY <2>1, <2>4, Zenon DEF RestTypes, SlotTypes
  <2>6. Owes(s, t)'
    BY <2>1, <2>5, Zenon DEF Owes, Capturing
  <2>7. slot = 0
    BY <2>1, Zenon DEF Visits
  <2>8. Nearer(s)
    BY <2>1, <2>7, <1>types, SMT DEF Nearer, Phase, Ahead, Stage
  <2> QED  BY <2>6, <2>8
<1>4. ASSUME NEW v \in Vcpus, KickOne(v) \/ SignalOne(v)
      PROVE  Owes(s, t)' /\ Nearer(s)
  <2>1. /\ cpc \in {"kick", "signal"} /\ cpc' = cpc
        /\ UNCHANGED <<hit, tag, slot, pending>>
        /\ v \in toKick /\ toKick' = toKick \ {v}
    BY <1>4, Zenon DEF KickOne, SignalOne
  <2>2. IsFiniteSet(toKick)
    BY FS_Subset, WatchAssumption, Zenon DEF Shape
  <2>3. Cardinality(toKick') = Cardinality(toKick) - 1
    BY <2>1, <2>2, FS_RemoveElement, Zenon
  <2>4. Kicks' < Kicks
    BY <2>2, <2>3, FS_CardinalityType, SMT DEF Kicks
  <2>5. Phase(s)' = Phase(s) /\ Ahead' = Ahead /\ Stage' = Stage
    BY <2>1, Zenon DEF Phase, Ahead, Stage
  <2>6. Nearer(s)
    BY <2>4, <2>5, Zenon DEF Nearer
  <2> QED  BY <2>1, <2>6, <1>keep, Zenon DEF Capturing
<1>5. CASE BeginCapture
  <2>1. /\ cpc = "req" /\ cpc' = "freeze" /\ slot' = 0
        /\ UNCHANGED <<hit, tag, pending>>
    BY <1>5, Zenon DEF BeginCapture
  <2>2. slot = 0
    BY <2>1, Zenon DEF Visits
  <2>3. Nearer(s)
    BY <2>1, <2>2, <1>types, SMT DEF Nearer, Phase, Ahead, Stage
  <2> QED  BY <2>1, <2>3, <1>keep, Zenon DEF Capturing
<1>6. CASE RequestsDone
  <2>1. /\ cpc = "req" /\ cpc' = "slots" /\ slot' = 1 /\ UNCHANGED <<hit, tag>>
    BY <1>6, Zenon DEF RequestsDone
  <2>2. slot = 0
    BY <2>1, Zenon DEF Visits
  <2>3. Nearer(s)
    BY <2>1, <2>2, <1>types, SMT DEF Nearer, Phase
  <2> QED  BY <2>1, <2>3, <1>keep, Zenon DEF Capturing
<1>7. CASE QuietSlot
  <2>1. /\ cpc = "slots" /\ cpc' = "slots" /\ ~hit[slot] /\ slot \in Slots
        /\ slot' = slot + 1 /\ UNCHANGED <<hit, tag>>
    BY <1>7, Zenon DEF QuietSlot
  <2>2. slot # s
    BY <2>1, Zenon DEF Owes, Capturing
  <2>3. Nearer(s)
    BY <2>1, <2>2, <1>types, SMT DEF Nearer, Phase, Ahead, Slots
  <2> QED  BY <2>1, <2>3, <1>keep, Zenon DEF Capturing
<1>8. CASE FiredSlot
  <2>1. /\ cpc = "slots" /\ cpc' = "freeze" /\ slot \in Slots
        /\ hit' = [hit EXCEPT ![slot] = FALSE]
        /\ UNCHANGED <<tag, slot, pending>>
    BY <1>8, Zenon DEF FiredSlot, GateInv
  <2>2. Owes(s, t)'
    <3>1. CASE slot = s
      BY <2>1, <3>1, Zenon DEF Owes, Capturing
    <3>2. CASE slot # s
      <4>1. hit'[s] = hit[s]
        BY <2>1, <3>2, Zenon DEF RestTypes, SlotTypes
      <4>2. hit[s]
        BY <2>1, Zenon DEF Owes, Capturing
      <4> QED  BY <2>1, <4>1, <4>2, Zenon DEF Owes
    <3> QED  BY <3>1, <3>2
  <2>3. Nearer(s)
    BY <2>1, <1>types, SMT DEF Nearer, Phase, Ahead, Stage, Slots
  <2> QED  BY <2>2, <2>3
<1>9. CASE EndIteration
  <2>1. /\ cpc = "slots" /\ cpc' = "idle" /\ slot > UserSlots /\ UNCHANGED <<hit, tag>>
    BY <1>9, Zenon DEF EndIteration
  <2>2. Nearer(s)
    BY <2>1, <1>types, SMT DEF Nearer, Phase
  <2> QED  BY <2>1, <2>2, <1>keep, Zenon DEF Capturing
<1>10. CASE Freeze \/ \E o \in {"real", "placeholder"} : Capture(o)
  <2>1. /\ \/ cpc = "freeze" /\ cpc' = "rendezvous"
           \/ cpc = "rendezvous" /\ cpc' = "store"
        /\ UNCHANGED <<hit, tag, slot, pending>>
    BY <1>10, Zenon DEF Freeze, Capture
  <2>2. Owes(s, t)'
    BY <2>1, Zenon DEF Owes, Capturing
  <2>3. Nearer(s)
    BY <2>1, <1>types, SMT DEF Nearer, Phase, Ahead, Stage
  <2> QED  BY <2>2, <2>3
<1>11. CASE CaptureReply
  <2>1. /\ cpc = "store" /\ cpc' = "req" /\ slot = 0 /\ UNCHANGED <<hit, tag, slot>>
        /\ pending' = Tail(pending)
    BY <1>11, Zenon DEF CaptureReply
  <2>2. pending # <<>>
    BY <2>1, Zenon DEF RestTypes, QueueInv, Serving
  <2>3. slot # s
    BY <2>1, <1>types, SMT
  <2>4. Owes(s, t)'
    BY <2>1, <2>3, Zenon DEF Owes
  <2>5. Nearer(s)
    BY <2>1, <2>2, <1>types, <1>tail, SMT DEF Nearer, Phase, Ahead
  <2> QED  BY <2>4, <2>5
<1>12. CASE ReleaseSlot
  <2>1. /\ cpc = "store" /\ cpc' = "slots" /\ slot \in Slots /\ slot' = slot + 1
        /\ tag' = [tag EXCEPT ![slot] = Nil] /\ hit' = hit
        /\ bridge' = [bridge EXCEPT ![job] = outcome]
    BY <1>12, Zenon DEF ReleaseSlot, StoreReport
  <2>2. CASE slot = s
    <3>1. slot # 0
      BY <2>2, <1>types, SMT
    <3>2. job = t /\ outcome # "none"
      BY <2>1, <2>2, <3>1, Zenon DEF Visits, Capturing, Owes
    <3> QED  BY <2>1, <3>2, <1>types, Zenon DEF BridgeInv
  <2>3. CASE slot # s
    <3>1. tag'[s] = tag[s]
      BY <2>1, <2>3, Zenon DEF RestTypes, SlotTypes
    <3>2. Owes(s, t)'
      BY <2>1, <2>3, <3>1, Zenon DEF Owes
    <3>3. Nearer(s)
      BY <2>1, <2>3, <1>types, SMT DEF Nearer, Phase, Ahead, Slots
    <3> QED  BY <3>2, <3>3
  <2> QED  BY <2>2, <2>3
<1>13. CASE DrainSlot
  <2>1. /\ cpc = "drain" /\ cpc' = "drain" /\ slot \in Slots /\ slot' = slot + 1
        /\ tag' = tag /\ hit' = [hit EXCEPT ![slot] = FALSE]
        /\ bridge' = IF hit[slot] /\ bridge[tag[slot]] = "none"
                       THEN [bridge EXCEPT ![tag[slot]] = "placeholder"]
                       ELSE bridge
    BY <1>13, Zenon DEF DrainSlot
  <2>2. hit[s] /\ tag[s] = t /\ slot <= s
    BY <2>1, Zenon DEF Owes, Capturing
  <2>3. CASE slot = s
    BY <2>1, <2>2, <2>3, <1>types, Zenon DEF BridgeInv
  <2>4. CASE slot # s
    <3>1. hit'[s] = hit[s]
      BY <2>1, <2>4, Zenon DEF RestTypes, SlotTypes
    <3>2. slot' <= s /\ Nearer(s)
      BY <2>1, <2>2, <2>4, <1>types, SMT DEF Nearer, Phase, Ahead, Slots
    <3>3. Owes(s, t)'
      BY <2>1, <2>2, <3>1, <3>2, Zenon DEF Owes
    <3> QED  BY <3>2, <3>3
  <2> QED  BY <2>3, <2>4
<1>14. CASE Fence
  <2>1. /\ cpc = "kick" /\ cpc' = "signal"
        /\ UNCHANGED <<hit, tag, slot, pending>>
    BY <1>14, Zenon DEF Fence
  <2>2. Nearer(s)
    BY <2>1, <1>types, SMT DEF Nearer, Phase, Ahead, Stage
  <2> QED  BY <2>1, <2>2, <1>keep, Zenon DEF Capturing
<1>15. CASE CoordExit
  <2>1. cpc = "drain" /\ slot > UserSlots
    BY <1>15, Zenon DEF CoordExit
  <2>2. slot <= s
    BY <2>1, Zenon DEF Owes, Capturing
  <2> QED  BY <2>1, <2>2, <1>types, SMT
<1> QED
  BY <1>1, <1>2, <1>3, <1>4, <1>5, <1>6, <1>7, <1>8, <1>9, <1>10, <1>11, <1>12,
     <1>13, <1>14, <1>15, Zenon DEF CoordStep

(* The step-by-step half of FireIsRecorded, for every number of vCPUs, slots
   and requests: a hit that latch_user_hit has set is served or drained, with
   no step of any thread in between that could lose it or hold it up. *)
THEOREM FireAlwaysServed == Spec => FireIsServed
<1>1. ASSUME Shape, RestTypes, GateInv, BridgeInv, Visits, [Next]_vars
      PROVE  [\A s \in Slots, t \in Symbols :
                /\ bridge[t] # "none" => bridge'[t] # "none"
                /\ Owes(s, t) => \/ bridge'[t] # "none"
                                 \/ /\ Owes(s, t)' /\ (Nearer(s) \/ AsFar(s))
                                    /\ CoordStep => Nearer(s)]_vars
  <2> SUFFICES ASSUME NEW s \in Slots, NEW t \in Symbols
               PROVE  /\ bridge[t] # "none" => bridge'[t] # "none"
                      /\ Owes(s, t) => \/ bridge'[t] # "none"
                                       \/ /\ Owes(s, t)' /\ (Nearer(s) \/ AsFar(s))
                                          /\ CoordStep => Nearer(s)
    BY Zenon
  <2>1. bridge[t] # "none" => bridge'[t] # "none"
    BY <1>1, BridgeKeeps, Zenon
  <2>2. CASE CoordStep
    BY <1>1, <2>1, <2>2, OwedByCoord, Zenon
  <2>3. CASE ~CoordStep
    BY <1>1, <2>1, <2>3, OwedByRest, Zenon
  <2> QED  BY <2>2, <2>3
<1>2. ArmInv => Shape
  BY Zenon DEF ArmInv
<1> QED
  BY <1>1, <1>2, ArmInit, ArmStep, GateInit, GateStep, BridgeInit, BridgeStep,
     RestInit, RestStep, VisitsInit, VisitsStep, PTL DEF Spec, FireIsServed

(* The coordinator's loop has a step to take until it is left, whatever the
   requests, the gate and the hits are, so that the way of FireIsServed has an
   end: on_demand_in_flight never blocks a request and the walks stay in the
   slots. *)
THEOREM CoordAlwaysLive == Spec => []CoordIsLive
<1>1. Shape /\ RestTypes /\ GateInv /\ Visits => CoordIsLive
  BY CoordLive
<1>2. ArmInv => Shape
  BY Zenon DEF ArmInv
<1> QED
  BY <1>1, <1>2, ArmInit, ArmStep, GateInit, GateStep, RestInit, RestStep,
     VisitsInit, VisitsStep, PTL DEF Spec
=============================================================================
