-------------------------- MODULE ReservationProofs --------------------------
(***************************************************************************)
(* PerfIsAlone, PinnedOnce and TypeOK hold for any number of processes,    *)
(* any host and any requests, and PlanIsExact for the Regular ones.        *)
(***************************************************************************)
EXTENDS Reservation, FiniteSetTheorems, TLAPS

Holding == Locking \cup {"running"}
Pinners == {"perf", "default"}
AllCpus == UNION {CpusOf(l) : l \in Llc}

\* What a plan promises: it names LLCs of the host, its CPUs lie in them, and
\* the CPUs of a default VM are the ones whose locks it takes.
PlanOK(w, pl) ==
    /\ pl.llcs \subseteq Llc
    /\ \A c \in pl.cpus : \E l \in pl.llcs : c \in CpusOf(l)
    /\ w.mode = "default" =>
         /\ pl.pins \in Seq(AllCpus) /\ pl.service = <<>>
         /\ \A c \in pl.cpus : \E i \in 1..Len(pl.pins) : pl.pins[i] = c

Shape ==
    /\ DOMAIN pc = Procs /\ DOMAIN want = Procs /\ DOMAIN plan = Procs
    /\ DOMAIN llcs = Procs /\ DOMAIN ncpus = Procs
    /\ \A p \in Procs : ncpus[p] \in Nat

\* Where a process is tells what it was asked for; idle ones have no plan.
Control(p) ==
    /\ pc[p] = "idle" => plan[p] = NoPlan
    /\ pc[p] # "idle" => want[p] \in Wants
    /\ pc[p] = "slot" => Mode(p) \in Pinners
    /\ pc[p] = "discover" => Mode(p) \in Capped

\* Locks are held only while they are taken and while the VM runs; then all of
\* them are.
Holds(p) ==
    /\ pc[p] \notin Holding => llcs[p] = {} /\ ncpus[p] = 0
    /\ pc[p] = "running" => plan[p].llcs \subseteq llcs[p]
    /\ pc[p] = "running" /\ Mode(p) = "default" => ncpus[p] >= Len(Pins(p))

\* No two processes hold incompatible locks.
Compatible(p, q) ==
    p # q => /\ \A l \in llcs[p] \cap llcs[q] : Mode(p) # "perf" /\ Mode(q) # "perf"
             /\ CpusHeld(p) \cap CpusHeld(q) = {}

IInv ==
    /\ Shape
    /\ \A p \in Procs : Control(p) /\ Holds(p) /\ PlanOK(want[p], plan[p])
    /\ \A p, q \in Procs : Compatible(p, q)

-----------------------------------------------------------------------------
(* The plans *)

\* Most leaves are first-order; those that need more say so.
USE Zenon

\* Slot k of a * b vCPUs, b to an LLC, belongs to one of the a LLCs.
LEMMA Division ==
    ASSUME NEW a \in Nat \ {0}, NEW b \in Nat \ {0}, NEW k \in 1..(a * b)
    PROVE  /\ ((k - 1) \div b) + 1 \in 1..a
           /\ (k - 1) % b \in 0..(b - 1)
<1> DEFINE q == (k - 1) \div b
           r == (k - 1) % b
<1>1. q \in Int /\ r \in 0..(b - 1) /\ k - 1 = b * q + r
  BY SMT
<1>2. q >= 0
  <2>1. SUFFICES ASSUME q <= -1 PROVE FALSE
    BY <1>1, SMT
  <2>2. b * q <= b * (-1)
    BY <2>1, <1>1, SMT
  <2> QED BY <2>2, <1>1, SMT
<1>3. q <= a - 1
  <2>1. SUFFICES ASSUME q >= a PROVE FALSE
    BY <1>1, SMT
  <2>2. b * q >= b * a
    BY <2>1, <1>1, SMT
  <2>3. b * a = a * b
    BY SMT
  <2> QED BY <2>2, <2>3, <1>1, SMT
<1> QED BY <1>1, <1>2, <1>3, SMT

\* Before counts: compute_pinning's offset into an LLC group is a number.
LEMMA BeforeIsNat ==
    ASSUME NEW order, NEW v \in Nat
    PROVE  Before(order, v) \in Nat
<1>1. IsFiniteSet(1..(v - 1))
  BY FS_Interval, SMT
<1>2. IsFiniteSet({u \in 1..(v - 1) : order[u] = order[v]})
  BY <1>1, FS_Subset
<1> QED BY <1>2, FS_CardinalityType DEF Before

\* compute_pinning pins inside the LLCs it names.
LEMMA PinsInside ==
    ASSUME NEW w \in Wants, w.mode \in Pinners, NEW service, NEW order,
           Fits(w, service, order), NEW k \in 1..(w.llcs * w.width)
    PROVE  \E v \in 1..w.llcs : assignments(w, order)[k] \in CpusOf(order[v])
<1>1. w.llcs \in Nat \ {0} /\ w.width \in Nat \ {0}
  BY WantAssumption DEF Pinners
<1> DEFINE v == ((k - 1) \div w.width) + 1
           b == Before(order, v)
           i == b * w.width + ((k - 1) % w.width) + 1
<1>2. v \in 1..w.llcs /\ (k - 1) % w.width \in 0..(w.width - 1)
  BY <1>1, Division
<1>3. b \in Nat
  BY <1>2, BeforeIsNat, SMT
<1>4. order[v] \in Llc /\ Len(LlcGroups[order[v]]) >= (b + 1) * w.width
  BY <1>2 DEF Fits
<1>5. LlcGroups[order[v]] \in Seq(CpusOf(order[v]))
  BY <1>4, HostAssumption
<1>6. i \in 1..((b + 1) * w.width)
  <2>1. b * w.width \in Nat /\ (b + 1) * w.width = b * w.width + w.width
    BY <1>1, <1>3, SMT
  <2> QED BY <2>1, <1>1, <1>2, SMT
<1>7. i \in DOMAIN LlcGroups[order[v]]
  <2>1. Len(LlcGroups[order[v]]) \in Nat
        /\ DOMAIN LlcGroups[order[v]] = 1..Len(LlcGroups[order[v]])
    BY <1>5, SMT
  <2>2. (b + 1) * w.width \in Nat
    BY <1>1, <1>3, SMT
  <2> HIDE DEF i
  <2> QED BY <2>1, <2>2, <1>4, <1>6, SMT
<1>8. assignments(w, order)[k] = LlcGroups[order[v]][i]
  BY DEF assignments
<1> QED BY <1>2, <1>7, <1>8 DEF CpusOf

\* So the pins are a list of CPUs of the host, one to a vCPU.
LEMMA PinsTyped ==
    ASSUME NEW w \in Wants, w.mode \in Pinners, NEW service, NEW order,
           Fits(w, service, order)
    PROVE  /\ assignments(w, order) \in Seq(AllCpus)
           /\ Len(assignments(w, order)) = w.llcs * w.width
<1> DEFINE pins == assignments(w, order)
           n == w.llcs * w.width
<1>1. n \in Nat
  BY WantAssumption, SMT DEF Pinners
<1>2. \A k \in 1..n : pins[k] \in AllCpus
  <2>1. \A k \in 1..n : \E v \in 1..w.llcs : pins[k] \in CpusOf(order[v])
    BY PinsInside
  <2>2. \A v \in 1..w.llcs : order[v] \in Llc
    BY DEF Fits
  <2> HIDE DEF pins, n
  <2> QED BY <2>1, <2>2 DEF AllCpus
<1>3. pins = [k \in 1..n |-> pins[k]]
  BY DEF assignments
<1> HIDE DEF pins, n
<1>4. pins \in Seq(AllCpus) /\ Len(pins) = n
  BY <1>1, <1>2, <1>3, SMT
<1> QED BY <1>4 DEF pins, n

\* What compute_pinning returns keeps the promises of a plan.
LEMMA PinningOK ==
    ASSUME NEW w \in Wants, w.mode \in Pinners, NEW order,
           NEW service, service = IF w.mode = "perf" THEN 1 ELSE 0,
           Fits(w, service, order)
    PROVE  PlanOK(w, Pinning(w, service, order))
<1> DEFINE pl == Pinning(w, service, order)
           pins == assignments(w, order)
           n == w.llcs * w.width
<1>1. w.llcs \in Nat \ {0} /\ w.width \in Nat \ {0}
  BY WantAssumption DEF Pinners
<1>2. n \in Nat
  BY <1>1, SMT
<1>3. DOMAIN pins = 1..n
  BY DEF assignments
<1>4. pl.llcs = {order[v] : v \in 1..w.llcs} /\ pl.cpus = {pins[k] : k \in 1..n}
      /\ pl.pins = pins
      /\ pl.service = IF service = 1
           THEN <<OnlineCpus[Least({i \in DOMAIN OnlineCpus :
                    OnlineCpus[i] \notin {pins[k] : k \in DOMAIN pins}})]>>
           ELSE <<>>
  BY <1>3 DEF Pinning
<1>5. pl.llcs \subseteq Llc
  BY <1>4 DEF Fits
<1>6. \A k \in 1..n : \E v \in 1..w.llcs : pins[k] \in CpusOf(order[v])
  BY PinsInside
<1>7. \A c \in pl.cpus : \E l \in pl.llcs : c \in CpusOf(l)
  <2> HIDE DEF pins, n
  <2> QED BY <1>4, <1>6, SMT
<1>8. ASSUME w.mode = "default"
      PROVE  /\ pl.pins \in Seq(AllCpus) /\ pl.service = <<>>
             /\ \A c \in pl.cpus : \E i \in 1..Len(pl.pins) : pl.pins[i] = c
  <2>3. pins \in Seq(AllCpus) /\ Len(pins) = n
    BY PinsTyped
  <2>4. service = 0
    BY <1>8
  <2> HIDE DEF pins, n
  <2> QED BY <2>3, <2>4, <1>4, SMT
<1> QED BY <1>5, <1>7, <1>8 DEF PlanOK

\* acquire_llc_plan selects LLCs of the host, and CPUs in them.
LEMMA BudgetPlanOK ==
    ASSUME NEW w \in Wants, w.mode \in Capped, NEW sn, DOMAIN sn = Overlapping(w)
    PROVE  PlanOK(w, BudgetPlan(w, plan_from_snapshots(w, sn)))
<1> DEFINE sel == plan_from_snapshots(w, sn)
<1>1. sel \subseteq Llc
  <2>1. DOMAIN sn \subseteq Llc
    BY DEF Overlapping
  <2>2. Cardinality(DOMAIN sn) \in Nat /\ Cardinality(Llc) \in Nat
        /\ Cardinality(DOMAIN sn) <= Cardinality(Llc)
    BY <2>1, HostAssumption, FS_Subset, FS_CardinalityType
  <2>3. 0..(Cardinality(DOMAIN sn) - 1) \subseteq Llc
    BY <2>2, HostAssumption, SMT
  <2> QED BY <2>1, <2>3 DEF plan_from_snapshots, GreedyWalk
<1> HIDE DEF sel
<1>2. BudgetPlan(w, sel).llcs = sel /\ BudgetPlan(w, sel).cpus = FirstCpus(w, sel)
  BY DEF BudgetPlan
<1>3. \A c \in FirstCpus(w, sel) : \E l \in sel : c \in CpusOf(l)
  BY DEF FirstCpus, CpusOf
<1>4. w.mode # "default"
  BY DEF Capped
<1>5. PlanOK(w, BudgetPlan(w, sel))
  BY <1>1, <1>2, <1>3, <1>4 DEF PlanOK
<1> QED BY <1>5 DEF sel

-----------------------------------------------------------------------------
(* The steps *)

\* The request, the plan and the locks of q are as they were.
Keeps(q) ==
    /\ want'[q] = want[q] /\ plan'[q] = plan[q]
    /\ llcs'[q] = llcs[q] /\ ncpus'[q] = ncpus[q]

\* So is every process but p.
OthersKeep(p) == \A q \in Procs \ {p} : pc'[q] = pc[q] /\ Keeps(q)

\* Two processes that keep what they have stay compatible.
LEMMA SameLocks ==
    ASSUME NEW p \in Procs, NEW q \in Procs, Keeps(p), Keeps(q), Compatible(p, q)
    PROVE  Compatible(p, q)'
<1>1. CpusHeld(p)' = CpusHeld(p) /\ CpusHeld(q)' = CpusHeld(q)
  BY DEF Keeps, CpusHeld, Pins
<1>2. CASE p = q
  BY <1>2 DEF Compatible
<1>3. CASE p # q
  <2>1. CpusHeld(p)' \cap CpusHeld(q)' = {}
    BY <1>1, <1>3 DEF Compatible
  <2>2. \A l \in llcs'[p] \cap llcs'[q] : Mode(p)' # "perf" /\ Mode(q)' # "perf"
    BY <1>3 DEF Compatible, Keeps, Mode
  <2> QED BY <2>1, <2>2 DEF Compatible
<1> QED BY <1>2, <1>3

\* A step of p has to be looked at for p only.
LEMMA StepOfOne ==
    ASSUME IInv, NEW p \in Procs, Shape',
           OthersKeep(p), Control(p)', Holds(p)', PlanOK(want'[p], plan'[p]),
           \A q \in Procs \ {p} : Compatible(p, q)'
    PROVE  IInv'
<1>1. ASSUME NEW q \in Procs \ {p}
      PROVE  Control(q)' /\ Holds(q)' /\ PlanOK(want'[q], plan'[q])
  <2>1. /\ pc'[q] = pc[q] /\ Keeps(q)
        /\ Control(q) /\ Holds(q) /\ PlanOK(want[q], plan[q])
    BY DEF IInv, OthersKeep
  <2>2. Control(q)'
    BY <2>1 DEF Control, Keeps, Mode
  <2>3. Holds(q)'
    BY <2>1 DEF Holds, Keeps, Mode, Pins
  <2>4. PlanOK(want'[q], plan'[q])
    BY <2>1 DEF Keeps
  <2> QED BY <2>2, <2>3, <2>4
<1>2. ASSUME NEW q \in Procs \ {p} PROVE Compatible(q, p)'
  BY DEF Compatible
<1>3. ASSUME NEW q \in Procs \ {p}, NEW r \in Procs \ {p} PROVE Compatible(q, r)'
  <2>1. Keeps(q) /\ Keeps(r) /\ Compatible(q, r)
    BY DEF IInv, OthersKeep
  <2> QED BY <2>1, SameLocks
<1>4. Compatible(p, p)'
  BY DEF Compatible
<1>5. \A q \in Procs : Control(q)' /\ Holds(q)' /\ PlanOK(want'[q], plan'[q])
  BY <1>1
<1>6. \A q, r \in Procs : Compatible(q, r)'
  BY <1>2, <1>3, <1>4
<1> QED BY <1>5, <1>6 DEF IInv

\* A step of p after which it has no locks, and does not run.
LEMMA WithoutLocks ==
    ASSUME IInv, NEW p \in Procs, Shape', OthersKeep(p),
           Control(p)', PlanOK(want'[p], plan'[p]),
           llcs'[p] = {}, ncpus'[p] = 0, pc'[p] # "running"
    PROVE  IInv'
<1>1. Holds(p)'
  BY DEF Holds
<1>2. CpusHeld(p)' = {}
  BY SMT DEF CpusHeld
<1>3. \A q \in Procs \ {p} : Compatible(p, q)'
  BY <1>2 DEF Compatible
<1> QED BY <1>1, <1>3, StepOfOne

\* A process with nothing planned keeps the promises of a plan.
LEMMA NoPlanOK == \A w : PlanOK(w, NoPlan)
<1>1. <<>> \in Seq(AllCpus)
  BY SMT
<1> QED BY <1>1 DEF PlanOK, NoPlan

\* build() starts with nothing held.
LEMMA BuildStep ==
    ASSUME IInv, NEW p \in Procs, Build(p)
    PROVE  IInv'
<1>1. Shape /\ Control(p) /\ Holds(p)
  BY DEF IInv
<1>2. PICK w \in Wants : want' = [want EXCEPT ![p] = w]
  BY DEF Build
<1>3. /\ pc'[p] \in {"over", "slot", "discover", "built"}
      /\ pc'[p] = "slot" => w.mode = "perf"
      /\ pc'[p] = "discover" => w.mode \in Capped
  BY <1>1, <1>2, WantAssumption DEF Build, GoTo, Shape
<1>4. Shape' /\ OthersKeep(p)
  BY <1>1, <1>2 DEF Build, GoTo, Shape, OthersKeep, Keeps
<1>5. want'[p] = w /\ plan'[p] = NoPlan /\ llcs'[p] = {} /\ ncpus'[p] = 0
  BY <1>1, <1>2 DEF Build, Shape, Control, Holds, Holding, Locking
<1>6. Control(p)'
  BY <1>3, <1>5 DEF Control, Mode, Pinners
<1>7. PlanOK(want'[p], plan'[p])
  BY <1>5, NoPlanOK
<1> QED BY <1>3, <1>4, <1>5, <1>6, <1>7, WithoutLocks

\* discover_llc_snapshots only looks.
LEMMA DiscoverStep ==
    ASSUME IInv, NEW p \in Procs, Discover(p)
    PROVE  IInv'
<1>1. UNCHANGED <<pc, want, plan, llcs, ncpus>>
  BY DEF Discover
<1>2. Shape' /\ OthersKeep(p)
  BY <1>1 DEF IInv, Shape, OthersKeep, Keeps
<1>3. Control(p)' /\ Holds(p)' /\ PlanOK(want'[p], plan'[p])
  BY <1>1 DEF IInv, Control, Holds, Mode, Pins
<1>4. \A q \in Procs \ {p} : Compatible(p, q)'
  BY <1>1, SameLocks DEF IInv, Keeps
<1> QED BY <1>2, <1>3, <1>4, StepOfOne

\* plan_from_snapshots: a new plan, nothing locked.
LEMMA MakePlanStep ==
    ASSUME IInv, NEW p \in Procs, MakePlan(p)
    PROVE  IInv'
<1> DEFINE w == want[p]
           pl == BudgetPlan(w, plan_from_snapshots(w, snap[p]))
<1>1. /\ Shape /\ Holds(p) /\ Control(p) /\ PlanOK(w, plan[p])
      /\ pc[p] = "discover" /\ w \in Wants /\ w.mode \in Capped
  BY DEF IInv, MakePlan, Control, Mode
<1>2. PlanOK(w, pl)
  BY <1>1, BudgetPlanOK DEF MakePlan
<1> HIDE DEF w
<1>3. UNCHANGED <<want, llcs, ncpus>>
  BY DEF MakePlan
<1>4. \/ pc' = [pc EXCEPT ![p] = "no llc"] /\ plan' = plan
      \/ pc' = [pc EXCEPT ![p] = "lock"] /\ plan' = [plan EXCEPT ![p] = pl]
  BY DEF MakePlan, GoTo, w
<1> HIDE DEF pl
<1>5. Shape' /\ OthersKeep(p)
  BY <1>1, <1>3, <1>4 DEF Shape, OthersKeep, Keeps
<1>6. pc'[p] \in {"no llc", "lock"} /\ plan'[p] \in {plan[p], pl}
  BY <1>1, <1>4 DEF Shape
<1>7. PlanOK(want'[p], plan'[p])
  BY <1>1, <1>2, <1>3, <1>6 DEF w
<1>8. Control(p)' /\ llcs'[p] = {} /\ ncpus'[p] = 0
  BY <1>1, <1>3, <1>6 DEF Control, Holds, Holding, Locking, w
<1> QED BY <1>5, <1>6, <1>7, <1>8, WithoutLocks

\* A slot that fits becomes the plan, one that does not is passed over.
LEMMA TrySlotStep ==
    ASSUME IInv, NEW p \in Procs, TrySlot(p)
    PROVE  IInv'
<1> DEFINE w == want[p]
           service == IF w.mode = "perf" THEN 1 ELSE 0
           order == numa_aware_llc_order(w, slot[p] * w.llcs)
           pl == Pinning(w, service, order)
<1>1. /\ Shape /\ Holds(p) /\ Control(p) /\ PlanOK(w, plan[p])
      /\ pc[p] = "slot" /\ w \in Wants /\ w.mode \in Pinners
  BY DEF IInv, TrySlot, Control, Mode
<1>2. Fits(w, service, order) => PlanOK(w, pl)
  <2> HIDE DEF order
  <2> QED BY <1>1, PinningOK
<1>3. UNCHANGED <<want, llcs, ncpus>>
  BY DEF TrySlot
<1>4. \/ /\ pc' = [pc EXCEPT ![p] = "lock"]
         /\ plan' = [plan EXCEPT ![p] = pl]
         /\ Fits(w, service, order)
      \/ pc' = [pc EXCEPT ![p] = "over"] /\ plan' = plan
      \/ pc' = [pc EXCEPT ![p] = "slot"] /\ plan' = plan
  BY DEF TrySlot, GoTo, NextSlot
<1> HIDE DEF pl, order, w
<1>5. Shape' /\ OthersKeep(p)
  BY <1>1, <1>3, <1>4 DEF Shape, OthersKeep, Keeps
<1>6. /\ pc'[p] \in {"lock", "over", "slot"}
      /\ plan'[p] = plan[p] \/ (plan'[p] = pl /\ PlanOK(w, pl))
  BY <1>1, <1>2, <1>4 DEF Shape
<1>7. PlanOK(want'[p], plan'[p])
  BY <1>1, <1>3, <1>6 DEF w
<1>8. Control(p)' /\ llcs'[p] = {} /\ ncpus'[p] = 0
  BY <1>1, <1>3, <1>6 DEF Control, Holds, Holding, Locking, Mode, w
<1> QED BY <1>5, <1>6, <1>7, <1>8, WithoutLocks

\* A granted flock on an LLC conflicts with none that is held.
LEMMA LockLlcStep ==
    ASSUME IInv, NEW p \in Procs, LockLlc(p)
    PROVE  IInv'
<1> DEFINE l == Least(LlcsLeft(p))
<1>1. /\ Shape /\ Control(p) /\ Holds(p) /\ PlanOK(want[p], plan[p])
      /\ pc[p] \in Locking /\ ~LlcBusy(p, l)
      /\ UNCHANGED <<pc, want, plan, ncpus>>
      /\ llcs' = [llcs EXCEPT ![p] = @ \cup {l}]
  BY DEF IInv, LockLlc
<1> HIDE DEF l
<1>2. Shape' /\ OthersKeep(p)
  BY <1>1 DEF Shape, OthersKeep, Keeps
<1>3. Control(p)' /\ PlanOK(want'[p], plan'[p])
  BY <1>1 DEF Control, Mode
<1>4. Holds(p)'
  BY <1>1 DEF Holds, Holding, Locking
<1>5. ASSUME NEW q \in Procs \ {p} PROVE Compatible(p, q)'
  <2>1. CpusHeld(p)' = CpusHeld(p) /\ CpusHeld(q)' = CpusHeld(q)
    BY <1>1 DEF CpusHeld, Pins
  <2>2. Compatible(p, q)
    BY DEF IInv
  <2>3. CpusHeld(p)' \cap CpusHeld(q)' = {}
    BY <2>1, <2>2 DEF Compatible
  <2>4. llcs'[p] = llcs[p] \cup {l} /\ llcs'[q] = llcs[q]
    BY <1>1 DEF Shape
  <2>5. l \in llcs[q] => Mode(p) # "perf" /\ Mode(q) # "perf"
    BY <1>1 DEF LlcBusy
  <2>6. \A m \in llcs'[p] \cap llcs'[q] : Mode(p)' # "perf" /\ Mode(q)' # "perf"
    BY <2>2, <2>4, <2>5, <1>1 DEF Compatible, Mode
  <2> QED BY <2>3, <2>6 DEF Compatible
<1> QED BY <1>2, <1>3, <1>4, <1>5, StepOfOne

\* A granted flock on a CPU conflicts with none that is held.
LEMMA LockCpuStep ==
    ASSUME IInv, NEW p \in Procs, LockCpu(p)
    PROVE  IInv'
<1> DEFINE c == Pins(p)[ncpus[p] + 1]
<1>1. /\ Shape /\ Control(p) /\ Holds(p) /\ PlanOK(want[p], plan[p])
      /\ pc[p] \in Locking /\ ~CpuBusy(p, c)
      /\ UNCHANGED <<pc, want, plan, llcs>>
      /\ ncpus' = [ncpus EXCEPT ![p] = @ + 1]
  BY DEF IInv, LockCpu
<1>2. Shape' /\ OthersKeep(p)
  BY <1>1, SMT DEF Shape, OthersKeep, Keeps
<1>3. Control(p)' /\ PlanOK(want'[p], plan'[p])
  BY <1>1 DEF Control, Mode
<1>4. Holds(p)'
  BY <1>1 DEF Holds, Holding, Locking
<1>5. ASSUME NEW q \in Procs \ {p} PROVE Compatible(p, q)'
  <2>1. CpusHeld(q)' = CpusHeld(q)
    <3>1. ncpus'[q] = ncpus[q] /\ plan'[q] = plan[q]
      BY <1>1 DEF Shape
    <3> QED BY <3>1 DEF CpusHeld, Pins
  <2>2. CpusHeld(p)' \subseteq CpusHeld(p) \cup {c}
    <3>1. ncpus'[p] = ncpus[p] + 1 /\ ncpus[p] \in Nat
      BY <1>1 DEF Shape
    <3>2. Pins(p)' = Pins(p)
      BY <1>1 DEF Pins
    <3>3. 1..ncpus'[p] = 1..ncpus[p] \cup {ncpus[p] + 1}
      BY <3>1, SMT
    <3>4. CpusHeld(p)' = {Pins(p)[i] : i \in 1..ncpus'[p]}
      BY <3>2 DEF CpusHeld
    <3> QED BY <3>3, <3>4 DEF CpusHeld
  <2>3. Compatible(p, q) /\ c \notin CpusHeld(q)
    BY <1>1 DEF IInv, CpuBusy
  <2>4. CpusHeld(p)' \cap CpusHeld(q)' = {}
    <3> HIDE DEF c
    <3> QED BY <2>1, <2>2, <2>3 DEF Compatible
  <2>5. \A m \in llcs'[p] \cap llcs'[q] : Mode(p)' # "perf" /\ Mode(q)' # "perf"
    BY <2>3, <1>1 DEF Compatible, Mode
  <2> QED BY <2>4, <2>5 DEF Compatible
<1> QED BY <1>2, <1>3, <1>4, <1>5, StepOfOne

\* One busy lock: all are dropped.
LEMMA BusyStep ==
    ASSUME IInv, NEW p \in Procs, Busy(p)
    PROVE  IInv'
<1>1. /\ Shape /\ Control(p) /\ PlanOK(want[p], plan[p])
      /\ pc[p] \in Locking
      /\ UNCHANGED <<want, plan>>
      /\ llcs' = [llcs EXCEPT ![p] = {}] /\ ncpus' = [ncpus EXCEPT ![p] = 0]
  BY DEF IInv, Busy, DropLocks
<1>2. \/ pc' = [pc EXCEPT ![p] = "over"]
      \/ pc' = [pc EXCEPT ![p] = "discover"] /\ Mode(p) \in Capped
      \/ pc' = [pc EXCEPT ![p] = "slot"] /\ Mode(p) \notin Capped
  BY DEF Busy, TryElsewhere, NextSlot, GoTo
<1>3. Shape' /\ OthersKeep(p)
  BY <1>1, <1>2 DEF Shape, OthersKeep, Keeps
<1>4. want[p] \in Wants
  BY <1>1 DEF Control, Locking
<1>5. Mode(p) \notin Capped => Mode(p) \in Pinners
  BY <1>4, WantAssumption DEF Mode, Capped, Pinners
<1>6. /\ pc'[p] \in {"over", "discover", "slot"}
      /\ pc'[p] = "discover" => Mode(p) \in Capped
      /\ pc'[p] = "slot" => Mode(p) \in Pinners
  BY <1>1, <1>2, <1>5 DEF Shape
<1>7. Control(p)' /\ PlanOK(want'[p], plan'[p])
  BY <1>1, <1>4, <1>6 DEF Control, Mode
<1>8. llcs'[p] = {} /\ ncpus'[p] = 0
  BY <1>1 DEF Shape
<1> QED BY <1>3, <1>6, <1>7, <1>8, WithoutLocks

\* A default VM takes the locks of its pins and no others.
LEMMA DefaultPins ==
    ASSUME NEW p \in Procs, PlanOK(want[p], plan[p]), Mode(p) = "default"
    PROVE  Pins(p) = plan[p].pins /\ Pins(p) \in Seq(AllCpus)
<1>1. plan[p].pins \in Seq(AllCpus) /\ plan[p].service = <<>>
  BY DEF PlanOK, Mode
<1>2. \A s \in Seq(AllCpus) : s \o <<>> = s
  BY SMT
<1> QED BY <1>1, <1>2 DEF Pins

\* With all locks held a plan is stripped of them, or the VM runs with them.
LEMMA LockedStep ==
    ASSUME IInv, NEW p \in Procs, Locked(p)
    PROVE  IInv'
<1>1. /\ Shape /\ Control(p) /\ PlanOK(want[p], plan[p])
      /\ pc[p] \in Locking /\ LlcsLeft(p) = {} /\ ~CpusLeft(p)
      /\ UNCHANGED <<want, plan>>
  BY DEF IInv, Locked
<1>2. want[p] \in Wants
  BY <1>1 DEF Control, Locking
<1>3. CASE /\ pc' = [pc EXCEPT ![p] = "built"]
           /\ llcs' = [llcs EXCEPT ![p] = {}] /\ ncpus' = [ncpus EXCEPT ![p] = 0]
  <2>1. Shape' /\ OthersKeep(p)
    BY <1>1, <1>3 DEF Shape, OthersKeep, Keeps
  <2>2. pc'[p] = "built" /\ llcs'[p] = {} /\ ncpus'[p] = 0
    BY <1>1, <1>3 DEF Shape
  <2>3. Control(p)' /\ PlanOK(want'[p], plan'[p])
    BY <1>1, <1>2, <2>2 DEF Control
  <2> QED BY <2>1, <2>2, <2>3, WithoutLocks
<1>4. CASE pc' = [pc EXCEPT ![p] = "running"] /\ UNCHANGED <<llcs, ncpus>>
  <2>1. Shape' /\ OthersKeep(p)
    BY <1>1, <1>4 DEF Shape, OthersKeep, Keeps
  <2>2. pc'[p] = "running"
    BY <1>1, <1>4 DEF Shape
  <2>3. Control(p)' /\ PlanOK(want'[p], plan'[p])
    BY <1>1, <1>2, <2>2 DEF Control
  <2>4. plan[p].llcs \subseteq llcs[p]
    BY <1>1 DEF LlcsLeft
  <2>5. Mode(p) = "default" => ncpus[p] >= Len(Pins(p))
    <3>1. SUFFICES ASSUME Mode(p) = "default" PROVE ncpus[p] >= Len(Pins(p))
      OBVIOUS
    <3>2. Pins(p) \in Seq(AllCpus)
      BY <1>1, <3>1, DefaultPins
    <3>3. Len(Pins(p)) \in Nat /\ ncpus[p] \in Nat
      BY <3>2, <1>1, SMT DEF Shape
    <3>4. ~(ncpus[p] < Len(Pins(p)))
      BY <3>1, <1>1 DEF CpusLeft
    <3> QED BY <3>3, <3>4, SMT
  <2>6. Pins(p)' = Pins(p) /\ Mode(p)' = Mode(p)
    BY <1>1 DEF Pins, Mode
  <2>7. Holds(p)'
    BY <1>1, <1>4, <2>2, <2>4, <2>5, <2>6 DEF Holds, Holding
  <2>8. \A q \in Procs \ {p} : Compatible(p, q)'
    BY <1>1, <1>4, SameLocks DEF IInv, Keeps
  <2> QED BY <2>1, <2>3, <2>7, <2>8, StepOfOne
<1> QED BY <1>3, <1>4 DEF Locked, GoTo, DropLocks

\* run() starts from a plan without locks.
LEMMA RunStep ==
    ASSUME IInv, NEW p \in Procs, Run(p)
    PROVE  IInv'
<1>1. /\ Shape /\ Control(p) /\ Holds(p) /\ PlanOK(want[p], plan[p])
      /\ pc[p] = "built"
      /\ UNCHANGED <<want, plan, llcs, ncpus>>
  BY DEF IInv, Run
<1>2. \/ pc' = [pc EXCEPT ![p] = "slot"] /\ Mode(p) = "default"
      \/ pc' = [pc EXCEPT ![p] = "relock"]
  BY DEF Run, GoTo
<1>3. Shape' /\ OthersKeep(p)
  BY <1>1, <1>2 DEF Shape, OthersKeep, Keeps
<1>4. pc'[p] \in {"slot", "relock"} /\ (pc'[p] = "slot" => Mode(p) = "default")
  BY <1>1, <1>2 DEF Shape
<1>5. Control(p)' /\ PlanOK(want'[p], plan'[p])
  BY <1>1, <1>4 DEF Control, Mode, Pinners
<1>6. llcs'[p] = {} /\ ncpus'[p] = 0
  BY <1>1 DEF Holds, Holding, Locking
<1> QED BY <1>3, <1>4, <1>5, <1>6, WithoutLocks

\* The end of a run drops the locks.
LEMMA FinishStep ==
    ASSUME IInv, NEW p \in Procs, Finish(p)
    PROVE  IInv'
<1>1. /\ Shape /\ Control(p) /\ PlanOK(want[p], plan[p])
      /\ pc[p] = "running"
      /\ UNCHANGED <<want, plan>>
      /\ llcs' = [llcs EXCEPT ![p] = {}] /\ ncpus' = [ncpus EXCEPT ![p] = 0]
      /\ pc' = [pc EXCEPT ![p] = IF Mode(p) = "kbuild" THEN "over" ELSE "joining"]
  BY DEF IInv, Finish, DropLocks, GoTo
<1>2. Shape' /\ OthersKeep(p)
  BY <1>1 DEF Shape, OthersKeep, Keeps
<1>3. pc'[p] \in {"over", "joining"} /\ llcs'[p] = {} /\ ncpus'[p] = 0
  BY <1>1 DEF Shape
<1>4. Control(p)' /\ PlanOK(want'[p], plan'[p])
  BY <1>1, <1>3 DEF Control
<1> QED BY <1>2, <1>3, <1>4, WithoutLocks

\* A process that ends, or is killed, leaves nothing locked.
LEMMA ResetStep ==
    ASSUME IInv, NEW p \in Procs, Reset(p)
    PROVE  IInv'
<1>1. /\ Shape
      /\ pc' = [pc EXCEPT ![p] = "idle"] /\ want' = [want EXCEPT ![p] = NoWant]
      /\ plan' = [plan EXCEPT ![p] = NoPlan]
      /\ llcs' = [llcs EXCEPT ![p] = {}] /\ ncpus' = [ncpus EXCEPT ![p] = 0]
  BY DEF IInv, Reset, DropLocks, GoTo
<1>2. Shape' /\ OthersKeep(p)
  BY <1>1 DEF Shape, OthersKeep, Keeps
<1>3. pc'[p] = "idle" /\ plan'[p] = NoPlan /\ llcs'[p] = {} /\ ncpus'[p] = 0
  BY <1>1 DEF Shape
<1>4. Control(p)' /\ PlanOK(want'[p], plan'[p])
  BY <1>3, NoPlanOK DEF Control
<1> QED BY <1>2, <1>3, <1>4, WithoutLocks

-----------------------------------------------------------------------------
(* The invariant and what follows from it *)

\* The invariant of the reservations holds throughout.
THEOREM ReservationInvariant == Spec => []IInv
<1>1. Init => IInv
  <2>1. SUFFICES ASSUME Init PROVE IInv
    OBVIOUS
  <2>2. Shape
    BY <2>1 DEF Init, Shape
  <2>3. ASSUME NEW p \in Procs
        PROVE  Control(p) /\ Holds(p) /\ PlanOK(want[p], plan[p])
    <3>1. pc[p] = "idle" /\ plan[p] = NoPlan /\ llcs[p] = {} /\ ncpus[p] = 0
      BY <2>1 DEF Init
    <3> QED BY <3>1, NoPlanOK DEF Control, Holds
  <2>4. ASSUME NEW p \in Procs, NEW q \in Procs PROVE Compatible(p, q)
    <3>1. llcs[p] = {} /\ ncpus[p] = 0
      BY <2>1 DEF Init
    <3>2. CpusHeld(p) = {}
      BY <3>1, SMT DEF CpusHeld
    <3> QED BY <3>1, <3>2 DEF Compatible
  <2> QED BY <2>2, <2>3, <2>4 DEF IInv
<1>2. IInv /\ [Next]_vars => IInv'
  <2>1. ASSUME IInv, NEW p \in Procs, Build(p) \/ Step(p) \/ Crash(p)
        PROVE  IInv'
    <3>1. CASE Build(p)    BY <2>1, <3>1, BuildStep
    <3>2. CASE Discover(p) BY <2>1, <3>2, DiscoverStep
    <3>3. CASE MakePlan(p) BY <2>1, <3>3, MakePlanStep
    <3>4. CASE TrySlot(p)  BY <2>1, <3>4, TrySlotStep
    <3>5. CASE LockLlc(p)  BY <2>1, <3>5, LockLlcStep
    <3>6. CASE LockCpu(p)  BY <2>1, <3>6, LockCpuStep
    <3>7. CASE Busy(p)     BY <2>1, <3>7, BusyStep
    <3>8. CASE Locked(p)   BY <2>1, <3>8, LockedStep
    <3>9. CASE Run(p)      BY <2>1, <3>9, RunStep
    <3>10. CASE Finish(p)  BY <2>1, <3>10, FinishStep
    <3>11. CASE Exit(p)    BY <2>1, <3>11, ResetStep DEF Exit
    <3>12. CASE Crash(p)   BY <2>1, <3>12, ResetStep DEF Crash
    <3> QED BY <2>1, <3>1, <3>2, <3>3, <3>4, <3>5, <3>6, <3>7, <3>8, <3>9,
               <3>10, <3>11, <3>12 DEF Step
  <2>2. ASSUME IInv, UNCHANGED vars PROVE IInv'
    <3>1. UNCHANGED <<pc, want, plan, llcs, ncpus>>
      BY <2>2 DEF vars
    <3>2. Shape'
      BY <2>2, <3>1 DEF IInv, Shape
    <3>3. ASSUME NEW p \in Procs
          PROVE  Control(p)' /\ Holds(p)' /\ PlanOK(want'[p], plan'[p])
      BY <2>2, <3>1 DEF IInv, Control, Holds, Mode, Pins
    <3>4. ASSUME NEW p \in Procs, NEW q \in Procs PROVE Compatible(p, q)'
      BY <2>2, <3>1, SameLocks DEF IInv, Keeps
    <3> QED BY <3>2, <3>3, <3>4 DEF IInv
  <2> QED BY <2>1, <2>2 DEF Next
<1> QED BY <1>1, <1>2, PTL DEF Spec

\* While a performance_mode VM runs, no CPU of its LLCs carries a vCPU of
\* another VM or a job of a kernel build: for every host, every set of requests
\* and every number of processes (try_acquire_all, acquire_run_locks).
THEOREM PerfRunsAlone == Spec => []PerfIsAlone
<1>1. IInv => PerfIsAlone
  <2>1. SUFFICES ASSUME IInv, NEW p \in Procs, NEW q \in Procs,
                        p # q, pc[p] = "running", pc[q] = "running",
                        Mode(p) = "perf", NEW l \in plan[p].llcs,
                        NEW c \in CpusOf(l) \cap plan[q].cpus
                 PROVE  FALSE
    BY DEF PerfIsAlone
  <2>2. /\ plan[p].llcs \subseteq Llc /\ plan[q].llcs \subseteq Llc
        /\ plan[p].llcs \subseteq llcs[p] /\ plan[q].llcs \subseteq llcs[q]
    BY <2>1 DEF IInv, PlanOK, Holds
  <2>3. PICK m \in plan[q].llcs : c \in CpusOf(m)
    BY <2>1 DEF IInv, PlanOK
  <2>4. m = l
    BY <2>2, <2>3, HostAssumption
  <2>5. l \in llcs[p] \cap llcs[q]
    BY <2>2, <2>3, <2>4
  <2> QED BY <2>1, <2>5 DEF IInv, Compatible
<1> QED BY <1>1, ReservationInvariant, PTL

\* Two running VMs never pin the same CPU, whichever of the locks each relies
\* on: an exclusive LLC lock or the locks of its CPUs (try_acquire_all).
THEOREM CpuPinnedOnce == Spec => []PinnedOnce
<1>1. IInv => PinnedOnce
  <2>1. SUFFICES ASSUME IInv, NEW p \in Procs, NEW q \in Procs,
                        p # q, pc[p] = "running", pc[q] = "running",
                        Mode(p) \in Pinners, Mode(q) \in Pinners,
                        NEW c \in plan[p].cpus \cap plan[q].cpus
                 PROVE  FALSE
    BY DEF PinnedOnce, Pinners
  <2>2. Compatible(p, q)
    BY <2>1 DEF IInv
  <2>3. CASE Mode(p) = "perf" \/ Mode(q) = "perf"
    <3>1. /\ plan[p].llcs \subseteq Llc /\ plan[q].llcs \subseteq Llc
          /\ plan[p].llcs \subseteq llcs[p] /\ plan[q].llcs \subseteq llcs[q]
      BY <2>1 DEF IInv, PlanOK, Holds
    <3>2. PICK l \in plan[p].llcs : c \in CpusOf(l)
      BY <2>1 DEF IInv, PlanOK
    <3>3. PICK m \in plan[q].llcs : c \in CpusOf(m)
      BY <2>1 DEF IInv, PlanOK
    <3>4. m = l
      BY <3>1, <3>2, <3>3, HostAssumption
    <3>5. l \in llcs[p] \cap llcs[q]
      BY <3>1, <3>2, <3>3, <3>4
    <3> QED BY <2>1, <2>2, <2>3, <3>5 DEF Compatible
  <2>4. CASE Mode(p) = "default" /\ Mode(q) = "default"
    <3>1. ASSUME NEW r \in {p, q} PROVE c \in CpusHeld(r)
      <4>1. /\ r \in Procs /\ Mode(r) = "default" /\ pc[r] = "running"
            /\ Holds(r) /\ PlanOK(want[r], plan[r]) /\ ncpus[r] \in Nat
            /\ c \in plan[r].cpus
        BY <2>1, <2>4 DEF IInv, Shape
      <4>2. Pins(r) = plan[r].pins /\ Pins(r) \in Seq(AllCpus)
        BY <4>1, DefaultPins
      <4>3. PICK i \in 1..Len(Pins(r)) : Pins(r)[i] = c
        BY <4>1, <4>2 DEF PlanOK, Mode
      <4>4. i \in 1..ncpus[r]
        BY <4>1, <4>2, SMT DEF Holds
      <4> QED BY <4>3, <4>4 DEF CpusHeld
    <3> QED BY <2>1, <2>2, <3>1 DEF Compatible
  <2> QED BY <2>1, <2>3, <2>4 DEF Pinners
<1> QED BY <1>1, ReservationInvariant, PTL
-----------------------------------------------------------------------------
(* Counting *)

\* A set of naturals that is not empty has a least element.
LEMMA LeastIn ==
    ASSUME NEW S \in SUBSET Nat, S # {}
    PROVE  Least(S) \in S /\ \A y \in S : Least(S) <= y
<1> DEFINE R == OpToRel(<, Nat)
<1>1. PICK x \in S : \A y \in S : <<y, x>> \notin R
  <2>1. IsWellFoundedOn(R, Nat)
    BY NatLessThanWellFounded
  <2> HIDE DEF R
  <2> QED BY <2>1, WFMin
<1>2. ASSUME NEW y \in S PROVE x <= y
  <2>1. ~(y < x)
    BY <1>1 DEF OpToRel
  <2> QED BY <2>1, SMT
<1> HIDE DEF R
<1> QED BY <1>2 DEF Least

StrictOrder(R, D) ==
    /\ \A a \in D : <<a, a>> \notin R
    /\ \A a, b, c \in D : <<a, b>> \in R /\ <<b, c>> \in R => <<a, c>> \in R

\* Those before a in a finite set.
Preds(R, D, a) == {b \in D : <<b, a>> \in R}

\* Who comes before another has fewer before it.
LEMMA FewerBefore ==
    ASSUME NEW D, IsFiniteSet(D), NEW R, StrictOrder(R, D),
           NEW a \in D, NEW b \in D, <<a, b>> \in R
    PROVE  /\ Cardinality(Preds(R, D, a)) \in Nat
           /\ Cardinality(Preds(R, D, b)) \in Nat
           /\ Cardinality(Preds(R, D, a)) < Cardinality(Preds(R, D, b))
<1>1. Preds(R, D, a) \in SUBSET Preds(R, D, b)
  BY DEF Preds, StrictOrder
<1>2. a \in Preds(R, D, b) /\ a \notin Preds(R, D, a)
  BY DEF Preds, StrictOrder
<1>3. Preds(R, D, b) \in SUBSET D /\ Preds(R, D, a) \in SUBSET D
  BY DEF Preds
<1>4. IsFiniteSet(Preds(R, D, b)) /\ IsFiniteSet(Preds(R, D, a))
  BY <1>3, FS_Subset
<1>5. Cardinality(Preds(R, D, a)) <= Cardinality(Preds(R, D, b))
      /\ Cardinality(Preds(R, D, b)) # Cardinality(Preds(R, D, a))
  BY <1>1, <1>2, <1>4, FS_Subset
<1>6. Cardinality(Preds(R, D, a)) \in Nat /\ Cardinality(Preds(R, D, b)) \in Nat
  BY <1>4, FS_CardinalityType
<1> QED BY <1>5, <1>6, SMT

\* Among some elements of a finite order one has none of them before it.
LEMMA FirstOf ==
    ASSUME NEW D, IsFiniteSet(D), NEW R, StrictOrder(R, D),
           NEW T \in SUBSET D, T # {}
    PROVE  \E a \in T : \A b \in T : <<b, a>> \notin R
<1> DEFINE n(a) == Cardinality(Preds(R, D, a))
           S == {n(a) : a \in T}
<1>1. ASSUME NEW a \in T PROVE n(a) \in Nat
  <2>1. Preds(R, D, a) \in SUBSET D
    BY DEF Preds
  <2> QED BY <2>1, FS_Subset, FS_CardinalityType
<1>2. S \in SUBSET Nat /\ S # {}
  BY <1>1
<1>3. PICK x \in S : \A y \in S : x <= y
  <2> HIDE DEF S
  <2> QED BY <1>2, LeastIn
<1>4. PICK a \in T : x = n(a)
  OBVIOUS
<1>5. ASSUME NEW b \in T, <<b, a>> \in R PROVE FALSE
  <2>1. n(a) \in Nat /\ n(b) \in Nat /\ n(b) < n(a)
    BY <1>5, FewerBefore
  <2>2. n(a) <= n(b)
    BY <1>3, <1>4
  <2> HIDE DEF n
  <2> QED BY <2>1, <2>2, SMT
<1> QED BY <1>5

\* As many elements as one likes come before the rest of a finite total order.
LEMMA FirstMany ==
    ASSUME NEW D, IsFiniteSet(D), NEW R, StrictOrder(R, D),
           \A a, b \in D : a # b => <<a, b>> \in R \/ <<b, a>> \in R,
           NEW k \in Nat, k <= Cardinality(D)
    PROVE  Cardinality({a \in D : Cardinality(Preds(R, D, a)) < k}) = k
<1> DEFINE N == Cardinality(D)
           n == [a \in D |-> Cardinality(Preds(R, D, a))]
           F == {a \in D : n[a] < k}
           f == [a \in F |-> n[a]]
<1>1. N \in Nat
  BY FS_CardinalityType
<1>2. ASSUME NEW a \in D PROVE n[a] \in 0..(N - 1)
  <2>1. Preds(R, D, a) \in SUBSET D /\ a \notin Preds(R, D, a)
    BY DEF Preds, StrictOrder
  <2>2. IsFiniteSet(Preds(R, D, a)) /\ Cardinality(Preds(R, D, a)) <= N
        /\ N # Cardinality(Preds(R, D, a))
    BY <2>1, FS_Subset
  <2>3. Cardinality(Preds(R, D, a)) \in Nat
    BY <2>2, FS_CardinalityType
  <2> QED BY <2>2, <2>3, <1>1, SMT
<1>3. ASSUME NEW a \in D, NEW b \in D, a # b PROVE n[a] # n[b]
  <2>1. ASSUME NEW c \in D, NEW d \in D, <<c, d>> \in R PROVE n[c] # n[d]
    <3>1. n[c] \in Nat /\ n[d] \in Nat /\ n[c] < n[d]
      BY <2>1, FewerBefore
    <3> QED BY <3>1, SMT
  <2> QED BY <2>1, <1>3
<1>4. n \in Injection(D, 0..(N - 1))
  <2>1. n \in [D -> 0..(N - 1)]
    BY <1>2
  <2>2. IsInjective(n)
    BY <1>3 DEF IsInjective
  <2> HIDE DEF n, N
  <2> QED BY <2>1, <2>2 DEF Injection
<1>5. n \in Surjection(D, 0..(N - 1))
  <2>1. IsFiniteSet(0..(N - 1)) /\ Cardinality(0..(N - 1)) = N
    <3>1. 0 \in Int /\ N - 1 \in Int
      BY <1>1, SMT
    <3>2. IsFiniteSet(0..(N - 1))
          /\ Cardinality(0..(N - 1)) = IF 0 > N - 1 THEN 0 ELSE (N - 1) - 0 + 1
      BY <3>1, FS_Interval
    <3> HIDE DEF N
    <3> QED BY <3>2, <1>1, SMT
  <2> HIDE DEF n
  <2> QED BY <1>4, <2>1, FS_Injection
<1>6. f \in Bijection(F, 0..(k - 1))
  <2>1. f \in [F -> 0..(k - 1)]
    <3>1. ASSUME NEW a \in F PROVE n[a] \in 0..(k - 1)
      <4>1. n[a] \in 0..(N - 1) /\ n[a] < k
        BY <1>2
      <4> HIDE DEF n, N
      <4> QED BY <4>1, <1>1, SMT
    <3> HIDE DEF n
    <3> QED BY <3>1
  <2>2. IsInjective(f)
    <3> HIDE DEF n
    <3> QED BY <1>3 DEF IsInjective
  <2>3. ASSUME NEW t \in 0..(k - 1) PROVE \E a \in F : f[a] = t
    <3>1. t \in 0..(N - 1) /\ t < k
      BY <1>1, SMT
    <3>2. PICK a \in D : n[a] = t
      <4> HIDE DEF n
      <4> QED BY <3>1, <1>5 DEF Surjection
    <3> HIDE DEF n
    <3> QED BY <3>1, <3>2
  <2> HIDE DEF f, F
  <2> QED BY <2>1, <2>2, <2>3 DEF Bijection, Injection, Surjection
<1>7. IsFiniteSet(F)
  <2>1. F \in SUBSET D
    OBVIOUS
  <2> HIDE DEF F
  <2> QED BY <2>1, FS_Subset
<1>8. Cardinality(0..(k - 1)) = Cardinality(F)
  <2> HIDE DEF f, F
  <2> QED BY <1>6, <1>7, FS_Bijection DEF ExistsBijection
<1>9. Cardinality(0..(k - 1)) = k
  <2>1. 0 \in Int /\ k - 1 \in Int
    BY SMT
  <2>2. Cardinality(0..(k - 1)) = IF 0 > k - 1 THEN 0 ELSE (k - 1) - 0 + 1
    BY <2>1, FS_Interval
  <2> QED BY <2>2, SMT
<1>10. F = {a \in D : Cardinality(Preds(R, D, a)) < k}
  OBVIOUS
<1> HIDE DEF F
<1> QED BY <1>8, <1>9, <1>10

-----------------------------------------------------------------------------
(* Budget plans *)

AllowedIn(w, S) == UNION {AllowedOf(w, l) : l \in S}

\* The allowed CPUs of a set of LLCs are finitely many.
LEMMA AllowedInFinite ==
    ASSUME NEW w \in Wants, w.mode \in Capped, NEW S
    PROVE  /\ AllowedIn(w, S) \in SUBSET w.allowed
           /\ IsFiniteSet(AllowedIn(w, S)) /\ Cardinality(AllowedIn(w, S)) \in Nat
<1>1. IsFiniteSet(w.allowed)
  BY WantAssumption, SMT DEF Capped
<1>2. AllowedIn(w, S) \in SUBSET w.allowed
  BY DEF AllowedIn, AllowedOf
<1> QED BY <1>1, <1>2, FS_Subset, FS_CardinalityType

\* LLCs are numbers, and the places in their lists are.
LEMMA Places ==
    /\ Llc \in SUBSET Nat
    /\ \A l \in Llc : DOMAIN LlcGroups[l] \in SUBSET Nat
                      /\ DOMAIN LlcGroups[l] = 1..Len(LlcGroups[l])
                      /\ Len(LlcGroups[l]) \in Nat
<1>1. Llc \in SUBSET Nat
  <2>1. Cardinality(Llc) \in Nat /\ Llc = 0..(Cardinality(Llc) - 1)
    BY HostAssumption, FS_CardinalityType
  <2> QED BY <2>1, SMT
<1>2. ASSUME NEW l \in Llc
      PROVE  DOMAIN LlcGroups[l] = 1..Len(LlcGroups[l]) /\ Len(LlcGroups[l]) \in Nat
  <2>1. LlcGroups[l] \in Seq(CpusOf(l))
    BY HostAssumption
  <2> QED BY <2>1, SMT
<1>3. \A n : 1..n \in SUBSET Nat
  BY SMT
<1> QED BY <1>1, <1>2, <1>3

\* The materialised CPUs are the first of the selection, Budget(w) of them when
\* the selection has as many.
LEMMA FirstCpusExact ==
    ASSUME NEW w \in Wants, w.mode \in Capped, NEW sel \in SUBSET Llc,
           Budget(w) \in Nat, Budget(w) <= Cardinality(AllowedIn(w, sel))
    PROVE  /\ Cardinality(FirstCpus(w, sel)) = Budget(w)
           /\ FirstCpus(w, sel) \subseteq w.allowed
<1> DEFINE U == AllowedIn(w, sel)
           G == LlcGroups
           Home(c) == CHOOSE l \in sel : c \in CpusOf(l)
           Pos(c) == CHOOSE i \in DOMAIN G[Home(c)] : G[Home(c)][i] = c
           R == {cd \in U \X U : \/ Home(cd[1]) < Home(cd[2])
                                 \/ /\ Home(cd[1]) = Home(cd[2])
                                    /\ Pos(cd[1]) < Pos(cd[2])}
           Earlier(l, i) ==
               (UNION {AllowedOf(w, m) : m \in {k \in sel : k < l}})
                 \cup ({LlcGroups[l][j] : j \in 1..(i - 1)} \cap w.allowed)
<1>1. ASSUME NEW c \in U
      PROVE  /\ Home(c) \in sel /\ Pos(c) \in DOMAIN G[Home(c)]
             /\ G[Home(c)][Pos(c)] = c /\ c \in w.allowed
  <2>1. PICK l \in sel : c \in CpusOf(l) /\ c \in w.allowed
    BY DEF AllowedIn, AllowedOf
  <2>2. Home(c) \in sel /\ c \in CpusOf(Home(c))
    BY <2>1
  <2> HIDE DEF Home
  <2>3. Pos(c) \in DOMAIN G[Home(c)] /\ G[Home(c)][Pos(c)] = c
    BY <2>2 DEF CpusOf
  <2> QED BY <2>1, <2>2, <2>3
<1>2. ASSUME NEW l \in sel, NEW i \in DOMAIN G[l], G[l][i] \in w.allowed
      PROVE  G[l][i] \in U /\ Home(G[l][i]) = l /\ Pos(G[l][i]) = i
  <2> DEFINE c == G[l][i]
  <2>1. c \in CpusOf(l)
    BY DEF CpusOf
  <2>2. c \in U
    <3>1. c \in AllowedOf(w, l)
      BY <2>1, <1>2 DEF AllowedOf
    <3> HIDE DEF c
    <3> QED BY <3>1 DEF AllowedIn
  <2>3. Home(c) \in sel /\ Pos(c) \in DOMAIN G[Home(c)] /\ G[Home(c)][Pos(c)] = c
    BY <2>2, <1>1
  <2> HIDE DEF Home, Pos, c
  <2>4. Home(c) = l
    <3>1. c \in CpusOf(Home(c))
      BY <2>3 DEF CpusOf
    <3> QED BY <3>1, <2>1, <2>3, HostAssumption
  <2>5. IsInjective(G[l])
    BY TopologyAssumption
  <2>6. Pos(c) = i
    BY <2>3, <2>4, <2>5 DEF IsInjective, c
  <2> QED BY <2>2, <2>4, <2>6 DEF c
<1> HIDE DEF Home, Pos, U
<1>3. ASSUME NEW c \in U PROVE Home(c) \in Nat /\ Pos(c) \in Nat
  BY <1>1, Places
<1>4. ASSUME NEW c \in U, NEW d \in U
      PROVE  <<c, d>> \in R <=> \/ Home(c) < Home(d)
                                \/ Home(c) = Home(d) /\ Pos(c) < Pos(d)
  OBVIOUS
<1> HIDE DEF R
<1>5. StrictOrder(R, U)
  <2>1. ASSUME NEW c \in U PROVE <<c, c>> \notin R
    BY <1>3, <1>4, SMT
  <2>2. ASSUME NEW c \in U, NEW d \in U, NEW e \in U,
               <<c, d>> \in R, <<d, e>> \in R
        PROVE  <<c, e>> \in R
    <3>1. /\ Home(c) \in Nat /\ Home(d) \in Nat /\ Home(e) \in Nat
          /\ Pos(c) \in Nat /\ Pos(d) \in Nat /\ Pos(e) \in Nat
      BY <1>3
    <3>2. /\ \/ Home(c) < Home(d)
             \/ Home(c) = Home(d) /\ Pos(c) < Pos(d)
          /\ \/ Home(d) < Home(e)
             \/ Home(d) = Home(e) /\ Pos(d) < Pos(e)
      BY <2>2, <1>4
    <3>3. Home(c) < Home(e) \/ (Home(c) = Home(e) /\ Pos(c) < Pos(e))
      BY <3>1, <3>2, SMT
    <3> QED BY <3>3, <1>4
  <2> QED BY <2>1, <2>2 DEF StrictOrder
<1>6. ASSUME NEW c \in U, NEW d \in U, c # d PROVE <<c, d>> \in R \/ <<d, c>> \in R
  <2>1. Home(c) # Home(d) \/ Pos(c) # Pos(d)
    BY <1>1, <1>6
  <2>2. /\ Home(c) \in Nat /\ Home(d) \in Nat
        /\ Pos(c) \in Nat /\ Pos(d) \in Nat
    BY <1>3
  <2>3. \/ Home(c) < Home(d) \/ (Home(c) = Home(d) /\ Pos(c) < Pos(d))
        \/ Home(d) < Home(c) \/ (Home(d) = Home(c) /\ Pos(d) < Pos(c))
    BY <2>1, <2>2, SMT
  <2> QED BY <2>3, <1>4
<1>7. ASSUME NEW l \in sel, NEW i \in DOMAIN G[l], G[l][i] \in w.allowed
      PROVE  Earlier(l, i) = Preds(R, U, G[l][i])
  <2> DEFINE c == G[l][i]
  <2>1. c \in U /\ Home(c) = l /\ Pos(c) = i /\ l \in Llc /\ l \in Nat /\ i \in Nat
    BY <1>2, <1>7, Places
  <2>2. i \in 1..Len(G[l]) /\ Len(G[l]) \in Nat /\ DOMAIN G[l] = 1..Len(G[l])
    BY <2>1, Places
  <2>3. ASSUME NEW d \in Earlier(l, i) PROVE d \in Preds(R, U, c)
    <3>1. CASE \E m \in sel : m < l /\ d \in AllowedOf(w, m)
      <4>1. PICK m \in sel : m < l /\ d \in AllowedOf(w, m)
        BY <3>1
      <4>2. PICK j \in DOMAIN G[m] : d = G[m][j]
        BY <4>1 DEF AllowedOf, CpusOf
      <4>3. d \in w.allowed
        BY <4>1 DEF AllowedOf
      <4>4. d \in U /\ Home(d) = m
        BY <4>2, <4>3, <1>2
      <4> QED BY <4>1, <4>4, <2>1, <1>4 DEF Preds
    <3>2. CASE \E j \in 1..(i - 1) : d = G[l][j] /\ d \in w.allowed
      <4>1. PICK j \in 1..(i - 1) : d = G[l][j] /\ d \in w.allowed
        BY <3>2
      <4>2. j \in 1..Len(G[l]) /\ j < i
        BY <2>1, <2>2, SMT
      <4>3. d \in U /\ Home(d) = l /\ Pos(d) = j
        BY <4>1, <4>2, <2>2, <1>2
      <4> QED BY <4>2, <4>3, <2>1, <1>4 DEF Preds
    <3>3. d \in UNION {AllowedOf(w, m) : m \in {k \in sel : k < l}}
          \/ d \in {G[l][j] : j \in 1..(i - 1)} \cap w.allowed
      BY SMT
    <3> HIDE DEF Earlier
    <3> QED BY <3>1, <3>2, <3>3
  <2>4. ASSUME NEW d \in Preds(R, U, c) PROVE d \in Earlier(l, i)
    <3>1. d \in U /\ (Home(d) < l \/ (Home(d) = l /\ Pos(d) < i))
      <4>1. d \in U /\ <<d, c>> \in R
        BY DEF Preds
      <4>2. Home(d) < Home(c) \/ (Home(d) = Home(c) /\ Pos(d) < Pos(c))
        BY <4>1, <2>1, <1>4
      <4> HIDE DEF c
      <4> QED BY <4>1, <4>2, <2>1
    <3>2. /\ Home(d) \in sel /\ Pos(d) \in DOMAIN G[Home(d)]
          /\ G[Home(d)][Pos(d)] = d /\ d \in w.allowed
      BY <3>1, <1>1
    <3>3. CASE Home(d) < l
      <4>1. d \in AllowedOf(w, Home(d))
        BY <3>2 DEF AllowedOf, CpusOf
      <4> QED BY <4>1, <3>2, <3>3
    <3>4. CASE Home(d) = l /\ Pos(d) < i
      <4>1. Pos(d) \in 1..(i - 1)
        <5>1. Pos(d) \in 1..Len(G[l])
          BY <3>2, <3>4, <2>2
        <5> QED BY <5>1, <3>4, <2>1, <2>2, SMT
      <4>2. G[l][Pos(d)] = d
        BY <3>2, <3>4
      <4>3. d \in {G[l][j] : j \in 1..(i - 1)}
        BY <4>1, <4>2
      <4> QED BY <4>3, <3>2, SMT
    <3> QED BY <3>1, <3>3, <3>4
  <2> HIDE DEF Earlier
  <2> QED BY <2>3, <2>4 DEF Preds
<1>8. FirstCpus(w, sel) = {c \in U : Cardinality(Preds(R, U, c)) < Budget(w)}
  <2>1. FirstCpus(w, sel) =
          UNION {{G[l][i] : i \in {j \in DOMAIN G[l] :
                                     /\ G[l][j] \in w.allowed
                                     /\ Cardinality(Earlier(l, j)) < Budget(w)}} :
                   l \in sel}
    BY DEF FirstCpus
  <2> HIDE DEF Earlier
  <2>2. ASSUME NEW c \in FirstCpus(w, sel)
        PROVE  c \in U /\ Cardinality(Preds(R, U, c)) < Budget(w)
    <3>1. PICK l \in sel : \E i \in DOMAIN G[l] :
              c = G[l][i] /\ c \in w.allowed /\ Cardinality(Earlier(l, i)) < Budget(w)
      BY <2>1
    <3>2. PICK i \in DOMAIN G[l] :
              c = G[l][i] /\ c \in w.allowed /\ Cardinality(Earlier(l, i)) < Budget(w)
      BY <3>1
    <3> QED BY <3>2, <1>2, <1>7
  <2>3. ASSUME NEW c \in U, Cardinality(Preds(R, U, c)) < Budget(w)
        PROVE  c \in FirstCpus(w, sel)
    <3> DEFINE l == Home(c)
               i == Pos(c)
    <3>1. l \in sel /\ i \in DOMAIN G[l] /\ G[l][i] = c /\ c \in w.allowed
      BY <1>1
    <3> HIDE DEF l, i
    <3>2. Cardinality(Earlier(l, i)) < Budget(w)
      BY <3>1, <2>3, <1>7
    <3>3. c \in {G[l][k] : k \in {j \in DOMAIN G[l] :
                                     /\ G[l][j] \in w.allowed
                                     /\ Cardinality(Earlier(l, j)) < Budget(w)}}
      BY <3>1, <3>2
    <3> QED BY <3>1, <3>3, <2>1, SMT
  <2> QED BY <2>2, <2>3
<1>9. IsFiniteSet(U) /\ U \in SUBSET w.allowed
  BY AllowedInFinite DEF U
<1>10. Cardinality({c \in U : Cardinality(Preds(R, U, c)) < Budget(w)}) = Budget(w)
  <2>1. Budget(w) <= Cardinality(U)
    BY DEF U
  <2> QED BY <1>5, <1>6, <1>9, <2>1, FirstMany
<1> QED BY <1>8, <1>9, <1>10

\* What build() checks of a budget before anything else.
Admitted(w) == w.allowed # {} /\ w.cap <= Cardinality(w.allowed)

\* A budget is not zero, and no more than the allowed CPUs: also when it is the
\* 30 % of them that a request without a cap gets.
LEMMA BudgetBound ==
    ASSUME NEW w \in Wants, w.mode \in Capped, Admitted(w)
    PROVE  Budget(w) \in Nat /\ 1 <= Budget(w) /\ Budget(w) <= Cardinality(w.allowed)
<1> DEFINE n == Cardinality(w.allowed)
<1>1. w.cap \in Nat /\ IsFiniteSet(w.allowed)
  BY WantAssumption, SMT DEF Capped
<1>2. n \in Nat /\ n # 0 /\ w.cap <= n
  BY <1>1, FS_CardinalityType, FS_EmptySet DEF Admitted
<1>3. Budget(w) = IF w.cap > 0 THEN w.cap
                  ELSE IF (n * 30 + 99) \div 100 > 0 THEN (n * 30 + 99) \div 100 ELSE 1
  BY DEF Budget
<1> HIDE DEF n
<1>4. Budget(w) \in Nat /\ 1 <= Budget(w) /\ Budget(w) <= n
  BY <1>1, <1>2, <1>3, SMT
<1> QED BY <1>4 DEF n

\* The LLCs looked at, each with the number of its holders.
Seen(w, sn) ==
    DOMAIN sn = Overlapping(w) /\ \A l \in Overlapping(w) : sn[l] \in Nat

\* The LLCs that overlap the allowed CPUs are finitely many numbers.
LEMMA OverlappingFinite ==
    ASSUME NEW w
    PROVE  /\ Overlapping(w) \in SUBSET Llc /\ IsFiniteSet(Overlapping(w))
           /\ Overlapping(w) \in SUBSET Nat
<1>1. Overlapping(w) \in SUBSET Llc
  BY DEF Overlapping
<1> QED BY <1>1, HostAssumption, Places, FS_Subset

\* There is a best LLC: most holders, then the lowest index.
LEMMA SeedIn ==
    ASSUME NEW w, NEW sn, Seen(w, sn), Overlapping(w) # {}
    PROVE  Seed(sn) \in Overlapping(w)
<1> DEFINE D == Overlapping(w)
           R == {ab \in D \X D : Ranked(sn, ab[1], ab[2])}
<1>1. IsFiniteSet(D) /\ D \in SUBSET Nat /\ DOMAIN sn = D
  BY OverlappingFinite DEF Seen
<1>2. ASSUME NEW a \in D, NEW b \in D
      PROVE  /\ <<a, b>> \in R <=> sn[a] > sn[b] \/ (sn[a] = sn[b] /\ a < b)
             /\ Ranked(sn, a, b) <=> <<a, b>> \in R
  <2> HIDE DEF D
  <2> QED BY DEF Ranked
<1>3. ASSUME NEW a \in D PROVE a \in Nat /\ sn[a] \in Nat
  BY <1>1 DEF Seen
<1> HIDE DEF R, D
<1>4. StrictOrder(R, D)
  <2>1. ASSUME NEW a \in D PROVE <<a, a>> \notin R
    BY <1>2, <1>3, SMT
  <2>2. ASSUME NEW a \in D, NEW b \in D, NEW c \in D,
               <<a, b>> \in R, <<b, c>> \in R
        PROVE  <<a, c>> \in R
    BY <1>2, <1>3, <2>2, SMT
  <2> QED BY <2>1, <2>2 DEF StrictOrder
<1>5. PICK a \in D : \A b \in D : <<b, a>> \notin R
  <2>1. D # {} /\ D \in SUBSET D
    BY DEF D
  <2> QED BY <1>1, <1>4, <2>1, FirstOf
<1>6. ASSUME NEW b \in D \ {a} PROVE Ranked(sn, a, b)
  <2>1. /\ a \in Nat /\ b \in Nat /\ sn[a] \in Nat /\ sn[b] \in Nat /\ a # b
        /\ ~(sn[b] > sn[a] \/ (sn[b] = sn[a] /\ b < a))
    BY <1>2, <1>3, <1>5
  <2>2. sn[a] > sn[b] \/ (sn[a] = sn[b] /\ a < b)
    BY <2>1, SMT
  <2> QED BY <2>2, <1>2
<1>7. Seed(sn) \in D
  BY <1>1, <1>6 DEF Seed
<1> QED BY <1>7 DEF D

\* The walk is an order.
LEMMA WalkOrder ==
    ASSUME NEW w, NEW sn, Seen(w, sn)
    PROVE  StrictOrder({ab \in Overlapping(w) \X Overlapping(w) :
                          WalkedBefore(sn, ab[1], ab[2])}, Overlapping(w))
<1> DEFINE D == Overlapping(w)
           R == {ab \in D \X D : WalkedBefore(sn, ab[1], ab[2])}
           Far(l) == Distance[NodeOf(Seed(sn)), NodeOf(l)]
           N(l) == NodeOf(l)
<1>1. D \in SUBSET Nat /\ D \in SUBSET Llc
  BY OverlappingFinite
<1>2. ASSUME NEW l \in Llc PROVE NodeOf(l) \in DOMAIN NodeLlcs /\ NodeOf(l) \in Nat
  <2>1. PICK n \in DOMAIN NodeLlcs : l \in Range(NodeLlcs[n])
    BY TopologyAssumption
  <2>2. \E i \in DOMAIN NodeLlcs[n] : NodeLlcs[n][i] = l
    BY <2>1 DEF Range
  <2>3. NodeOf(l) \in DOMAIN NodeLlcs
    BY <2>2 DEF NodeOf
  <2>4. DOMAIN NodeLlcs \in SUBSET Nat
    <3>1. NodeLlcs \in Seq(Range(NodeLlcs))
      BY TopologyAssumption
    <3>2. DOMAIN NodeLlcs = 1..Len(NodeLlcs)
      BY <3>1, SMT
    <3> QED BY <3>2, SMT
  <2> QED BY <2>3, <2>4
<1>3. ASSUME NEW l \in D
      PROVE  l \in Nat /\ sn[l] \in Nat /\ N(l) \in Nat /\ Far(l) \in Nat
  <2>1. l \in Nat /\ sn[l] \in Nat /\ l \in Llc
    BY <1>1 DEF Seen
  <2>2. Seed(sn) \in Llc
    BY <1>1, SeedIn
  <2> QED BY <1>2, <2>1, <2>2, TopologyAssumption
<1>4. ASSUME NEW a \in D, NEW b \in D
      PROVE  <<a, b>> \in R <=>
               IF N(a) = N(b) THEN sn[a] > sn[b] \/ (sn[a] = sn[b] /\ a < b)
               ELSE Far(a) < Far(b) \/ (Far(a) = Far(b) /\ N(a) < N(b))
  <2> HIDE DEF D
  <2> QED BY DEF WalkedBefore, Ranked
<1>5. ASSUME NEW a \in D, NEW b \in D, N(a) = N(b) PROVE Far(a) = Far(b)
  BY <1>5
<1> HIDE DEF R, D, Far, N
<1>6. ASSUME NEW a \in D PROVE <<a, a>> \notin R
  BY <1>3, <1>4, SMT
<1>7. ASSUME NEW a \in D, NEW b \in D, NEW c \in D,
             <<a, b>> \in R, <<b, c>> \in R
      PROVE  <<a, c>> \in R
  BY <1>3, <1>4, <1>5, <1>7, SMT
<1>8. StrictOrder(R, D)
  BY <1>6, <1>7 DEF StrictOrder
<1> QED BY <1>8 DEF R, D

\* The greedy walk fills the budget when all the LLCs together can: those
\* before the first one it leaves out do.
LEMMA GreedyFills ==
    ASSUME NEW w \in Wants, w.mode \in Capped, NEW sn, Seen(w, sn), Budget(w) \in Nat,
           Budget(w) <= Cardinality(AllowedIn(w, Overlapping(w)))
    PROVE  Budget(w) <= Cardinality(AllowedIn(w, GreedyWalk(w, sn)))
<1> DEFINE D == Overlapping(w)
           W == GreedyWalk(w, sn)
           R == {ab \in D \X D : WalkedBefore(sn, ab[1], ab[2])}
           P(a) == Preds(R, D, a)
<1>1. IsFiniteSet(D) /\ DOMAIN sn = D
  BY OverlappingFinite DEF Seen
<1>2. W = {a \in D : Cardinality(AllowedIn(w, P(a))) < Budget(w)}
  <2>1. ASSUME NEW a \in D PROVE P(a) = {c \in D : WalkedBefore(sn, c, a)}
    <3> HIDE DEF D
    <3> QED BY DEF Preds
  <2>2. W = {a \in D : Cardinality(AllowedIn(w, {c \in D : WalkedBefore(sn, c, a)}))
                         < Budget(w)}
    <3> HIDE DEF D
    <3> QED BY <1>1 DEF GreedyWalk, AllowedIn
  <2> HIDE DEF P, D
  <2> QED BY <2>1, <2>2
<1>3. StrictOrder(R, D)
  BY WalkOrder
<1>4. CASE D \subseteq W
  <2>1. W = D
    BY <1>2, <1>4
  <2> HIDE DEF W
  <2> QED BY <2>1 DEF W
<1>5. CASE D \ W # {}
  <2>1. PICK a \in D \ W : \A b \in D \ W : <<b, a>> \notin R
    <3>1. D \ W \in SUBSET D
      OBVIOUS
    <3> HIDE DEF W, R, D
    <3> QED BY <1>1, <1>3, <1>5, <3>1, FirstOf
  <2>2. P(a) \subseteq W
    <3> HIDE DEF R, D, W
    <3> QED BY <2>1 DEF Preds
  <2>3. AllowedIn(w, P(a)) \in SUBSET AllowedIn(w, W)
    <3> HIDE DEF P, W
    <3> QED BY <2>2 DEF AllowedIn
  <2>4. ~(Cardinality(AllowedIn(w, P(a))) < Budget(w))
    <3> HIDE DEF P, W
    <3> QED BY <2>1, <1>2
  <2>5. /\ IsFiniteSet(AllowedIn(w, W)) /\ Cardinality(AllowedIn(w, W)) \in Nat
        /\ Cardinality(AllowedIn(w, P(a))) \in Nat
    BY AllowedInFinite
  <2>6. Cardinality(AllowedIn(w, P(a))) <= Cardinality(AllowedIn(w, W))
    <3> HIDE DEF P, W
    <3> QED BY <2>3, <2>5, FS_Subset
  <2> HIDE DEF P, W
  <2>7. Budget(w) <= Cardinality(AllowedIn(w, W))
    BY <2>4, <2>5, <2>6, SMT
  <2> QED BY <2>7 DEF W
<1> QED BY <1>4, <1>5

\* acquire_llc_plan reserves exactly the budget, and fails only where no LLC has
\* an allowed CPU.
LEMMA BudgetPlanExact ==
    ASSUME NEW w \in Wants, w.mode \in Capped, Admitted(w), Regular(w),
           NEW sn, Seen(w, sn), NEW sel, sel = plan_from_snapshots(w, sn)
    PROVE  /\ sel = {} => Overlapping(w) = {}
           /\ sel # {} => /\ Cardinality(FirstCpus(w, sel)) = Budget(w)
                          /\ FirstCpus(w, sel) \subseteq w.allowed
<1> DEFINE D == Overlapping(w)
           positions == 0..(Cardinality(D) - 1)
           total == Cardinality(AllowedIn(w, positions))
<1>1. /\ DOMAIN sn = D
      /\ sel = IF Budget(w) >= total THEN {i \in positions : AllowedOf(w, i) # {}}
               ELSE GreedyWalk(w, sn)
  BY DEF Seen, plan_from_snapshots, AllowedIn
<1>2. Budget(w) \in Nat /\ 1 <= Budget(w) /\ Budget(w) <= Cardinality(w.allowed)
  BY BudgetBound
<1>3. total \in Nat
  BY AllowedInFinite
<1>4. CASE D = {}
  <2>1. Cardinality(D) = 0
    BY <1>4, FS_EmptySet
  <2>2. positions = {}
    <3> HIDE DEF D
    <3> QED BY <2>1, SMT
  <2>3. GreedyWalk(w, sn) = {}
    BY <1>1, <1>4 DEF GreedyWalk
  <2>4. sel = {}
    <3> HIDE DEF positions, total
    <3> QED BY <1>1, <2>2, <2>3
  <2> QED BY <1>4, <2>4
<1>5. CASE D # {}
  <2>1. AllowedIn(w, D) = w.allowed
    <3>1. w.allowed \subseteq AllCpus
      <4>1. PICK l \in Llc : AllowedOf(w, l) # {}
        BY <1>5 DEF Overlapping
      <4>2. w.allowed \cap AllCpus # {}
        BY <4>1 DEF AllowedOf, AllCpus
      <4> QED BY <4>2 DEF Regular, AllCpus
    <3>2. ASSUME NEW c \in w.allowed PROVE c \in AllowedIn(w, D)
      <4>1. PICK l \in Llc : c \in CpusOf(l)
        BY <3>1 DEF AllCpus
      <4>2. c \in AllowedOf(w, l)
        BY <4>1 DEF AllowedOf
      <4>3. l \in D
        BY <4>2 DEF Overlapping
      <4> HIDE DEF D
      <4> QED BY <4>2, <4>3 DEF AllowedIn
    <3>3. AllowedIn(w, D) \subseteq w.allowed
      BY AllowedInFinite
    <3> QED BY <3>2, <3>3
  <2>2. sel \in SUBSET Llc /\ Budget(w) <= Cardinality(AllowedIn(w, sel))
    <3>1. CASE Budget(w) >= total
      <4>1. positions = D
        <5>1. ~(Budget(w) < total)
          <6> HIDE DEF total
          <6> QED BY <1>2, <1>3, <3>1, SMT
        <5> QED BY <5>1 DEF Regular, AllowedIn
      <4>2. sel = {i \in D : AllowedOf(w, i) # {}}
        <5> HIDE DEF positions, total, D
        <5> QED BY <1>1, <3>1, <4>1
      <4>3. sel = D
        BY <4>2 DEF Overlapping
      <4> HIDE DEF D
      <4> QED BY <4>3, <2>1, <1>2, OverlappingFinite DEF D
    <3>2. CASE ~(Budget(w) >= total)
      <4>1. sel = GreedyWalk(w, sn)
        <5> HIDE DEF total
        <5> QED BY <1>1, <3>2
      <4>2. sel \in SUBSET D
        BY <4>1, <1>1 DEF GreedyWalk
      <4> QED BY <4>1, <4>2, <2>1, <1>2, GreedyFills, OverlappingFinite
    <3> QED BY <3>1, <3>2
  <2>3. sel # {}
    <3>1. SUFFICES ASSUME sel = {} PROVE FALSE
      OBVIOUS
    <3>2. AllowedIn(w, sel) = {}
      BY <3>1 DEF AllowedIn
    <3>3. Cardinality(AllowedIn(w, sel)) = 0
      BY <3>2, FS_EmptySet
    <3> QED BY <3>3, <2>2, <1>2, SMT
  <2> QED BY <2>2, <2>3, <1>2, FirstCpusExact
<1> QED BY <1>4, <1>5
-----------------------------------------------------------------------------
(* Types *)

Online == {OnlineCpus[i] : i \in 1..Len(OnlineCpus)}

\* The online CPUs are as many as the list of them is long.
LEMMA OnlineCount ==
    /\ Len(OnlineCpus) \in Nat /\ DOMAIN OnlineCpus = 1..Len(OnlineCpus)
    /\ IsFiniteSet(Online) /\ Cardinality(Online) = Len(OnlineCpus)
<1> DEFINE n == Len(OnlineCpus)
<1>1. OnlineCpus \in Seq(Range(OnlineCpus)) /\ IsInjective(OnlineCpus)
  BY TopologyAssumption
<1>2. n \in Nat /\ DOMAIN OnlineCpus = 1..n /\ OnlineCpus = [i \in 1..n |-> OnlineCpus[i]]
  BY <1>1, SMT
<1>3. OnlineCpus \in Bijection(1..n, Online)
  <2>1. OnlineCpus \in [1..n -> Online]
    BY <1>2 DEF Online
  <2>2. \A c \in Online : \E i \in 1..n : OnlineCpus[i] = c
    BY DEF Online
  <2> QED BY <1>1, <2>1, <2>2 DEF Bijection, Injection, Surjection
<1>4. IsFiniteSet(1..n) /\ Cardinality(1..n) = n
  <2>1. 1 \in Int /\ n \in Int
    BY <1>2, SMT
  <2>2. IsFiniteSet(1..n) /\ Cardinality(1..n) = IF 1 > n THEN 0 ELSE n - 1 + 1
    BY <2>1, FS_Interval
  <2> HIDE DEF n
  <2> QED BY <1>2, <2>2, SMT
<1> HIDE DEF n
<1>5. IsFiniteSet(Online) /\ Cardinality(Online) = Cardinality(1..n)
  BY <1>3, <1>4, FS_Bijection DEF ExistsBijection
<1> QED BY <1>2, <1>4, <1>5 DEF n

\* compute_pinning's last check never fails: with as many online CPUs as its
\* first one asks for, some CPU is left for the service threads, and the one
\* taken carries no vCPU.
THEOREM ServiceCpuFound ==
    ASSUME NEW w \in Wants, w.mode = "perf", NEW order, Fits(w, 1, order)
    PROVE  \E c \in Online : /\ Pinning(w, 1, order).service = <<c>>
                             /\ c \notin Pinning(w, 1, order).cpus
<1> DEFINE pins == assignments(w, order)
           n == w.llcs * w.width
           used == {pins[k] : k \in DOMAIN pins}
           free == {i \in DOMAIN OnlineCpus : OnlineCpus[i] \notin used}
<1>1. w.llcs \in Nat \ {0} /\ w.width \in Nat \ {0}
  BY WantAssumption, SMT
<1>2. n \in Nat
  BY <1>1, SMT
<1>3. DOMAIN pins = 1..n
  BY DEF assignments
<1>4. /\ Pinning(w, 1, order).cpus = used
      /\ Pinning(w, 1, order).service = <<OnlineCpus[Least(free)]>>
  BY DEF Pinning
<1>5. IsFiniteSet(used) /\ Cardinality(used) \in Nat /\ Cardinality(used) <= n
  <2>1. pins \in Surjection(1..n, used)
    <3>1. pins = [k \in DOMAIN pins |-> pins[k]]
      BY DEF assignments
    <3> HIDE DEF pins
    <3>2. pins \in [1..n -> used]
      BY <1>3, <3>1
    <3> QED BY <1>3, <3>2 DEF Surjection
  <2>2. IsFiniteSet(1..n) /\ Cardinality(1..n) = n
    <3>1. 1 \in Int /\ n \in Int
      BY <1>2, SMT
    <3>2. IsFiniteSet(1..n) /\ Cardinality(1..n) = IF 1 > n THEN 0 ELSE n - 1 + 1
      BY <3>1, FS_Interval
    <3> HIDE DEF n
    <3> QED BY <1>2, <3>2, SMT
  <2> HIDE DEF pins, used, n
  <2>3. IsFiniteSet(used) /\ Cardinality(used) <= Cardinality(1..n)
    BY <2>1, <2>2, FS_Surjection
  <2> QED BY <2>2, <2>3, FS_CardinalityType
<1>6. n + 1 <= Len(OnlineCpus)
  BY DEF Fits
<1> HIDE DEF pins, n, used
<1>7. free # {}
  <2>1. SUFFICES ASSUME free = {} PROVE FALSE
    OBVIOUS
  <2>2. Online \in SUBSET used
    BY <2>1, OnlineCount DEF Online
  <2>3. Cardinality(Online) <= Cardinality(used)
    BY <2>2, <1>5, FS_Subset
  <2> QED BY <2>3, <1>2, <1>5, <1>6, OnlineCount, SMT
<1>8. free \in SUBSET Nat
  <2>1. DOMAIN OnlineCpus \in SUBSET Nat
    BY OnlineCount, SMT
  <2> QED BY <2>1
<1>9. Least(free) \in free
  <2> HIDE DEF free
  <2> QED BY <1>7, <1>8, LeastIn
<1>10. OnlineCpus[Least(free)] \in Online /\ OnlineCpus[Least(free)] \notin used
  <2> DEFINE i == Least(free)
  <2>1. i \in DOMAIN OnlineCpus /\ OnlineCpus[i] \notin used
    BY <1>9
  <2> HIDE DEF i
  <2>2. OnlineCpus[i] \in Online
    BY <2>1, OnlineCount DEF Online
  <2> QED BY <2>1, <2>2 DEF i
<1> HIDE DEF free
<1> QED BY <1>4, <1>10

\* What compute_pinning returns has the type of a plan.
LEMMA PinningTyped ==
    ASSUME NEW w \in Wants, w.mode \in Pinners, NEW order,
           NEW service, service = IF w.mode = "perf" THEN 1 ELSE 0,
           Fits(w, service, order)
    PROVE  Pinning(w, service, order) \in Plans
<1> DEFINE pl == Pinning(w, service, order)
<1>1. PlanOK(w, pl)
  BY PinningOK
<1>2. pl.llcs \in SUBSET Llc /\ pl.cpus \in SUBSET AllCpus
  <2> HIDE DEF pl
  <2> QED BY <1>1 DEF PlanOK, AllCpus
<1>3. pl.pins \in Seq(AllCpus)
  <2>1. pl.pins = assignments(w, order)
    BY DEF Pinning
  <2> QED BY <2>1, PinsTyped
<1>4. pl.service \in Seq(Online)
  <2>1. CASE w.mode = "perf"
    <3>1. PICK c \in Online : pl.service = <<c>>
      BY <2>1, ServiceCpuFound
    <3> HIDE DEF pl
    <3> QED BY <3>1, SMT
  <2>2. CASE w.mode # "perf"
    <3>1. service # 1
      BY <2>2, SMT
    <3>2. pl.service = <<>>
      BY <3>1 DEF Pinning
    <3> HIDE DEF pl
    <3> QED BY <3>2, SMT
  <2> QED BY <2>1, <2>2
<1>5. pl = [llcs |-> pl.llcs, cpus |-> pl.cpus, pins |-> pl.pins, service |-> pl.service]
  BY DEF Pinning
<1>6. Plans = [llcs : SUBSET Llc, cpus : SUBSET AllCpus,
               pins : Seq(AllCpus), service : Seq(Online)]
  BY DEF Plans, AllCpus, Online
<1> HIDE DEF pl
<1>7. pl \in Plans
  BY <1>2, <1>3, <1>4, <1>5, <1>6, SMT
<1> QED BY <1>7 DEF pl

\* A plan made for a CPU budget has the type of a plan.
LEMMA BudgetPlanTyped ==
    ASSUME NEW w \in Wants, w.mode \in Capped, NEW sn, DOMAIN sn = Overlapping(w)
    PROVE  BudgetPlan(w, plan_from_snapshots(w, sn)) \in Plans
<1> DEFINE pl == BudgetPlan(w, plan_from_snapshots(w, sn))
<1>1. PlanOK(w, pl)
  BY BudgetPlanOK
<1>2. pl.llcs \in SUBSET Llc /\ pl.cpus \in SUBSET AllCpus
  <2> HIDE DEF pl
  <2> QED BY <1>1 DEF PlanOK, AllCpus
<1>3. pl.pins = <<>> /\ pl.service = <<>>
  BY DEF BudgetPlan
<1>8. pl = [llcs |-> pl.llcs, cpus |-> pl.cpus, pins |-> pl.pins, service |-> pl.service]
  BY DEF BudgetPlan
<1>4. <<>> \in Seq(AllCpus) /\ <<>> \in Seq(Online)
  BY SMT
<1>5. Plans = [llcs : SUBSET Llc, cpus : SUBSET AllCpus,
               pins : Seq(AllCpus), service : Seq(Online)]
  BY DEF Plans, AllCpus, Online
<1> HIDE DEF pl
<1>6. pl.pins \in Seq(AllCpus) /\ pl.service \in Seq(Online)
  BY <1>3, <1>4
<1>7. pl \in Plans
  BY <1>2, <1>5, <1>6, <1>8, SMT
<1> QED BY <1>7 DEF pl

\* The plan of a process that has none has the type of a plan.
LEMMA NoPlanTyped == NoPlan \in Plans
BY SMT DEF NoPlan, Plans

\* The locks of a plan are a sequence, and a number of them is held.
LEMMA PinsAreSeq ==
    ASSUME NEW pl \in Plans
    PROVE  Len(pl.pins \o pl.service) \in Nat
<1>1. pl.pins \in Seq(AllCpus \cup Online) /\ pl.service \in Seq(AllCpus \cup Online)
  <2>1. pl.pins \in Seq(AllCpus) /\ pl.service \in Seq(Online)
    BY SMT DEF Plans, AllCpus, Online
  <2> QED BY <2>1, SMT
<1>2. ASSUME NEW X, NEW s \in Seq(X), NEW t \in Seq(X) PROVE Len(s \o t) \in Nat
  <2>1. s \o t \in Seq(X)
    BY SMT
  <2> QED BY <2>1, SMT
<1> QED BY <1>1, <1>2

\* What TypeOK says of one process.
Owned(p) ==
    /\ DOMAIN snap[p] \subseteq Llc
    /\ plan[p] \in Plans
    /\ llcs[p] \subseteq plan[p].llcs
    /\ ncpus[p] \in 0..Len(Pins(p))

PCs == {"idle", "slot", "discover", "lock", "built", "relock",
        "running", "joining", "over", "no llc"}

Walks ==
    /\ pc \in [Procs -> PCs]
    /\ want \in [Procs -> Wants \cup {NoWant}]
    /\ slot \in [Procs -> Nat] /\ start \in [Procs -> Nat]
    /\ tries \in [Procs -> 0..AcquireMaxToctouRetries]

\* TypeOK, as the lock table and what each process owns.
LEMMA TypeOKParts == TypeOK <=> Walks /\ \A p \in Procs : Owned(p)
BY DEF TypeOK, Walks, Owned, PCs

\* A process that keeps its plan, its locks and what it has seen.
Same(q) == Keeps(q) /\ snap'[q] = snap[q]

\* A process none of whose variables changed owns what it did.
LEMMA OwnedFrame ==
    ASSUME NEW q \in Procs, Owned(q), Same(q)
    PROVE  Owned(q)'
BY DEF Owned, Same, Keeps, Pins

\* A process without locks owns what its plan names.
LEMMA OwnedWithout ==
    ASSUME NEW q \in Procs, DOMAIN snap'[q] \subseteq Llc, plan'[q] \in Plans,
           llcs'[q] = {}, ncpus'[q] = 0
    PROVE  Owned(q)'
<1>1. Len(Pins(q)') \in Nat
  BY PinsAreSeq DEF Pins
<1>2. ncpus'[q] \in 0..Len(Pins(q)')
  BY <1>1, SMT
<1> QED BY <1>2 DEF Owned

\* A step of p leaves what the others own alone.
LEMMA TypesOfOne ==
    ASSUME NEW p \in Procs, TypeOK, Walks', Owned(p)',
           \A q \in Procs \ {p} : Same(q)
    PROVE  TypeOK'
<1>1. \A q \in Procs : Owned(q)
  BY TypeOKParts
<1>2. \A q \in Procs : Owned(q)'
  BY <1>1, OwnedFrame
<1>3. TypeOK' <=> Walks' /\ \A q \in Procs : Owned(q)'
  BY DEF TypeOK, Walks, Owned, PCs
<1> QED BY <1>2, <1>3

\* A walk has at least one slot.
LEMMA SlotsThere ==
    ASSUME NEW w \in Wants, w.mode \in Pinners
    PROVE  MaxSlots(w) \in Nat \ {0}
<1>1. w.llcs \in Nat \ {0}
  BY WantAssumption, SMT DEF Pinners
<1>2. NumLlcs \in Nat
  BY HostAssumption, FS_CardinalityType DEF NumLlcs
<1>3. NumLlcs \div w.llcs \in Int
  BY <1>1, <1>2, SMT
<1> DEFINE n == NumLlcs \div w.llcs
<1>4. MaxSlots(w) = IF n > 0 THEN n ELSE 1
  BY DEF MaxSlots
<1> HIDE DEF n
<1>5. n \in Int
  BY <1>3 DEF n
<1> QED BY <1>4, <1>5, SMT

\* Moving on to the next slot of a pinned request keeps the types.
LEMMA NextSlotTypes ==
    ASSUME NEW p \in Procs, Walks, want[p] \in Wants, Mode(p) \in Pinners, NextSlot(p)
    PROVE  pc' \in [Procs -> PCs] /\ slot' \in [Procs -> Nat]
<1> DEFINE next == (slot[p] + 1) % MaxSlots(want[p])
<1>1. MaxSlots(want[p]) \in Nat \ {0}
  BY SlotsThere DEF Mode
<1>2. slot[p] \in Nat
  BY DEF Walks
<1>3. next \in Nat
  <2>1. \A a \in Nat, b \in Nat \ {0} : (a + 1) % b \in Nat
    BY SMT
  <2> QED BY <1>1, <1>2, <2>1
<1>4. \/ pc' = [pc EXCEPT ![p] = "over"] /\ UNCHANGED slot
      \/ pc' = [pc EXCEPT ![p] = "slot"] /\ slot' = [slot EXCEPT ![p] = next]
  BY DEF NextSlot, GoTo
<1> HIDE DEF next
<1>5. pc' \in [Procs -> PCs]
  BY <1>4 DEF Walks, PCs
<1>6. slot' \in [Procs -> Nat]
  BY <1>3, <1>4 DEF Walks
<1> QED BY <1>5, <1>6

\* TypeOK is kept by every step that leaves plan, locks and snapshots alone.
LEMMA TypesNoData ==
    ASSUME NEW p \in Procs, TypeOK, UNCHANGED <<snap, plan, llcs, ncpus>>, Walks'
    PROVE  TypeOK'
<1>1. \A q \in Procs : Owned(q)
  BY TypeOKParts
<1>2. \A q \in Procs : Owned(q)'
  BY <1>1 DEF Owned, Pins
<1>3. TypeOK' <=> Walks' /\ \A q \in Procs : Owned(q)'
  BY DEF TypeOK, Walks, Owned, PCs
<1> QED BY <1>2, <1>3

\* ... and by every step that ends with p holding nothing.
LEMMA TypesWithout ==
    ASSUME NEW p \in Procs, TypeOK, Walks', DOMAIN snap'[p] \subseteq Llc,
           plan'[p] \in Plans, llcs'[p] = {}, ncpus'[p] = 0,
           \A q \in Procs \ {p} : Same(q)
    PROVE  TypeOK'
BY OwnedWithout, TypesOfOne

\* discover_llc_snapshots looks at LLCs of the host.
LEMMA DiscoverLooks ==
    ASSUME NEW p \in Procs, Discover(p), DOMAIN snap[p] \subseteq Llc, DOMAIN snap = Procs
    PROVE  \E l \in Overlapping(want[p]) :
             /\ DOMAIN snap'[p] = DOMAIN snap[p] \cup {l}
             /\ \A m \in DOMAIN snap'[p] :
                  snap'[p][m] = IF m = l THEN Cardinality({q \in Procs : l \in llcs[q]})
                                ELSE snap[p][m]
             /\ \A q \in Procs \ {p} : snap'[q] = snap[q]
<1> DEFINE left == Overlapping(want[p]) \ DOMAIN snap[p]
           l == Least(left)
           sn == [m \in DOMAIN snap[p] \cup {l} |->
                     IF m = l THEN Cardinality({q \in Procs : l \in llcs[q]})
                     ELSE snap[p][m]]
<1>1. left # {} /\ snap' = [snap EXCEPT ![p] = sn]
  BY DEF Discover
<1>2. left \in SUBSET Nat
  BY OverlappingFinite
<1>3. l \in left
  <2> HIDE DEF left
  <2> QED BY <1>1, <1>2, LeastIn
<1>4. l \in Overlapping(want[p])
  BY <1>3
<1> HIDE DEF l, left
<1>5. snap'[p] = sn /\ \A q \in Procs \ {p} : snap'[q] = snap[q]
  BY <1>1
<1>6. DOMAIN snap'[p] = DOMAIN snap[p] \cup {l}
      /\ \A m \in DOMAIN snap[p] \cup {l} :
           snap'[p][m] = IF m = l THEN Cardinality({q \in Procs : l \in llcs[q]})
                         ELSE snap[p][m]
  BY <1>5
<1> QED BY <1>4, <1>5, <1>6

Typed == TypeOK /\ DOMAIN snap = Procs

\* Every step of a process keeps Typed.
LEMMA TypesStep ==
    ASSUME IInv, Typed, NEW p \in Procs, Build(p) \/ Step(p) \/ Crash(p)
    PROVE  Typed'
<1>1. /\ Shape /\ Control(p) /\ Holds(p) /\ PlanOK(want[p], plan[p])
      /\ TypeOK /\ Walks /\ Owned(p) /\ DOMAIN snap = Procs
  BY TypeOKParts DEF IInv, Typed
<1>2. want[p] \in Wants /\ Mode(p) \notin Capped => Mode(p) \in Pinners
  BY WantAssumption, SMT DEF Mode, Capped, Pinners
<1>3. CASE Build(p)
  <2>1. PICK w \in Wants :
          /\ want' = [want EXCEPT ![p] = w]
          /\ \E s \in PCs : pc' = [pc EXCEPT ![p] = s]
    BY <1>3 DEF Build, GoTo, PCs
  <2>2. UNCHANGED <<slot, start, snap, tries, plan, llcs, ncpus>>
    BY <1>3 DEF Build
  <2>3. Walks'
    BY <1>1, <2>1, <2>2 DEF Walks
  <2> QED BY <1>1, <2>2, <2>3, TypesNoData DEF Typed
<1>4. CASE Discover(p)
  <2>1. UNCHANGED <<pc, want, slot, start, tries, plan, llcs, ncpus>>
    BY <1>4 DEF Discover
  <2>2. PICK l \in Overlapping(want[p]) :
          /\ DOMAIN snap'[p] = DOMAIN snap[p] \cup {l}
          /\ \A q \in Procs \ {p} : snap'[q] = snap[q]
    BY <1>1, <1>4, DiscoverLooks DEF Owned
  <2>3. DOMAIN snap'[p] \subseteq Llc
    BY <1>1, <2>2, OverlappingFinite DEF Owned
  <2>4. Walks' /\ \A q \in Procs \ {p} : Same(q)
    BY <1>1, <2>1, <2>2 DEF Walks, Same, Keeps
  <2>5. Owned(p)'
    BY <1>1, <2>1, <2>3 DEF Owned, Pins
  <2>6. DOMAIN snap' = Procs
    BY <1>1, <1>4 DEF Discover
  <2> QED BY <1>1, <2>4, <2>5, <2>6, TypesOfOne DEF Typed
<1>5. CASE MakePlan(p)
  <2> DEFINE pl == BudgetPlan(want[p], plan_from_snapshots(want[p], snap[p]))
  <2>1. UNCHANGED <<want, slot, start, tries, llcs, ncpus>>
        /\ snap' = [snap EXCEPT ![p] = NoSnap]
        /\ pc[p] = "discover" /\ DOMAIN snap[p] = Overlapping(want[p])
    BY <1>5 DEF MakePlan
  <2>2. \/ pc' = [pc EXCEPT ![p] = "no llc"] /\ plan' = plan
        \/ pc' = [pc EXCEPT ![p] = "lock"] /\ plan' = [plan EXCEPT ![p] = pl]
    BY <1>5 DEF MakePlan, GoTo
  <2>3. want[p] \in Wants /\ want[p].mode \in Capped
    BY <1>1, <2>1 DEF Control, Mode
  <2>4. pl \in Plans
    BY <2>1, <2>3, BudgetPlanTyped
  <2> HIDE DEF pl
  <2>5. Walks'
    BY <1>1, <2>1, <2>2 DEF Walks, PCs
  <2>6. plan'[p] \in Plans /\ \A q \in Procs \ {p} : plan'[q] = plan[q]
    BY <1>1, <2>2, <2>4 DEF Shape, Owned
  <2>7. /\ DOMAIN snap'[p] \subseteq Llc /\ DOMAIN snap' = Procs
        /\ \A q \in Procs \ {p} : snap'[q] = snap[q]
    BY <1>1, <2>1 DEF NoSnap
  <2>8. llcs'[p] = {} /\ ncpus'[p] = 0
    <3>1. pc[p] \notin Holding
      BY <2>1 DEF Holding, Locking
    <3> QED BY <1>1, <2>1, <3>1 DEF Holds
  <2>9. \A q \in Procs \ {p} : Same(q)
    BY <2>1, <2>6, <2>7 DEF Same, Keeps
  <2> QED BY <1>1, <2>5, <2>6, <2>7, <2>8, <2>9, TypesWithout DEF Typed
<1>6. CASE TrySlot(p)
  <2> DEFINE w == want[p]
             service == IF w.mode = "perf" THEN 1 ELSE 0
             order == numa_aware_llc_order(w, slot[p] * w.llcs)
             pl == Pinning(w, service, order)
  <2>1. UNCHANGED <<want, start, snap, tries, llcs, ncpus>> /\ pc[p] = "slot"
    BY <1>6 DEF TrySlot
  <2>2. want[p] \in Wants /\ Mode(p) \in Pinners
    BY <1>1, <2>1 DEF Control
  <2>3. \/ /\ pc' = [pc EXCEPT ![p] = "lock"] /\ plan' = [plan EXCEPT ![p] = pl]
           /\ Fits(w, service, order) /\ UNCHANGED slot
        \/ pc' = [pc EXCEPT ![p] = "over"] /\ UNCHANGED <<slot, plan>>
        \/ NextSlot(p) /\ plan' = plan
    BY <1>6 DEF TrySlot, GoTo
  <2>4. Fits(w, service, order) => pl \in Plans
    <3> HIDE DEF order
    <3> QED BY <2>2, PinningTyped DEF Mode
  <2> HIDE DEF pl, order, service
  <2>5. pc' \in [Procs -> PCs] /\ slot' \in [Procs -> Nat]
    <3>1. CASE pc' = [pc EXCEPT ![p] = "lock"] /\ UNCHANGED slot
      BY <1>1, <3>1 DEF Walks, PCs
    <3>2. CASE pc' = [pc EXCEPT ![p] = "over"] /\ UNCHANGED slot
      BY <1>1, <3>2 DEF Walks, PCs
    <3>3. CASE NextSlot(p)
      BY <1>1, <2>2, <3>3, NextSlotTypes
    <3> QED BY <2>3, <3>1, <3>2, <3>3
  <2>6. Walks'
    BY <1>1, <2>1, <2>5 DEF Walks
  <2>7. plan'[p] \in Plans /\ \A q \in Procs \ {p} : plan'[q] = plan[q]
    BY <1>1, <2>3, <2>4 DEF Shape, Owned
  <2>8. llcs'[p] = {} /\ ncpus'[p] = 0
    <3>1. pc[p] \notin Holding
      BY <2>1 DEF Holding, Locking
    <3> QED BY <1>1, <2>1, <3>1 DEF Holds
  <2>9. DOMAIN snap'[p] \subseteq Llc /\ DOMAIN snap' = Procs
        /\ \A q \in Procs \ {p} : Same(q)
    BY <1>1, <2>1, <2>7 DEF Owned, Same, Keeps
  <2> QED BY <1>1, <2>6, <2>7, <2>8, <2>9, TypesWithout DEF Typed
<1>7. CASE LockLlc(p)
  <2> DEFINE l == Least(LlcsLeft(p))
  <2>1. UNCHANGED <<pc, want, slot, start, snap, tries, plan, ncpus>>
        /\ llcs' = [llcs EXCEPT ![p] = @ \cup {l}] /\ LlcsLeft(p) # {}
    BY <1>7 DEF LockLlc
  <2>2. l \in plan[p].llcs
    <3>1. LlcsLeft(p) \in SUBSET Nat
      BY <1>1, Places DEF LlcsLeft, PlanOK
    <3>2. l \in LlcsLeft(p)
      BY <2>1, <3>1, LeastIn
    <3> QED BY <3>2 DEF LlcsLeft
  <2> HIDE DEF l
  <2>3. llcs'[p] = llcs[p] \cup {l} /\ \A q \in Procs \ {p} : llcs'[q] = llcs[q]
    BY <1>1, <2>1 DEF Shape
  <2>4. Owned(p)'
    BY <1>1, <2>1, <2>2, <2>3 DEF Owned, Pins
  <2>5. Walks' /\ DOMAIN snap' = Procs /\ \A q \in Procs \ {p} : Same(q)
    BY <1>1, <2>1, <2>3 DEF Walks, Same, Keeps
  <2> QED BY <1>1, <2>4, <2>5, TypesOfOne DEF Typed
<1>8. CASE LockCpu(p)
  <2>1. UNCHANGED <<pc, want, slot, start, snap, tries, plan, llcs>>
        /\ ncpus' = [ncpus EXCEPT ![p] = @ + 1] /\ ncpus[p] < Len(Pins(p))
    BY <1>8 DEF LockCpu, CpusLeft
  <2>2. ncpus'[p] = ncpus[p] + 1 /\ \A q \in Procs \ {p} : ncpus'[q] = ncpus[q]
    BY <1>1, <2>1 DEF Shape
  <2>3. ncpus'[p] \in 0..Len(Pins(p)')
    <3>1. Len(Pins(p)) \in Nat /\ ncpus[p] \in Nat
      BY <1>1, PinsAreSeq DEF Owned, Pins, Shape
    <3>2. Pins(p)' = Pins(p)
      BY <2>1 DEF Pins
    <3> QED BY <2>1, <2>2, <3>1, <3>2, SMT
  <2>4. Owned(p)'
    BY <1>1, <2>1, <2>3 DEF Owned
  <2>5. Walks' /\ DOMAIN snap' = Procs /\ \A q \in Procs \ {p} : Same(q)
    BY <1>1, <2>1, <2>2 DEF Walks, Same, Keeps
  <2> QED BY <1>1, <2>4, <2>5, TypesOfOne DEF Typed
<1>9. CASE Busy(p)
  <2>1. /\ UNCHANGED <<want, start, snap, plan>> /\ pc[p] \in Locking
        /\ llcs' = [llcs EXCEPT ![p] = {}] /\ ncpus' = [ncpus EXCEPT ![p] = 0]
    BY <1>9 DEF Busy, DropLocks
  <2>2. want[p] \in Wants
    BY <1>1, <2>1, SMT DEF Control, Locking
  <2>3. \/ pc' = [pc EXCEPT ![p] = "over"] /\ UNCHANGED <<slot, tries>>
        \/ /\ pc' = [pc EXCEPT ![p] = "discover"] /\ UNCHANGED slot
           /\ tries[p] < AcquireMaxToctouRetries /\ tries' = [tries EXCEPT ![p] = @ + 1]
        \/ Mode(p) \notin Capped /\ NextSlot(p) /\ UNCHANGED tries
    BY <1>9 DEF Busy, TryElsewhere, GoTo
  <2>4. pc' \in [Procs -> PCs] /\ slot' \in [Procs -> Nat]
    <3>1. CASE pc' = [pc EXCEPT ![p] = "over"] /\ UNCHANGED slot
      BY <1>1, <3>1 DEF Walks, PCs
    <3>2. CASE pc' = [pc EXCEPT ![p] = "discover"] /\ UNCHANGED slot
      BY <1>1, <3>2 DEF Walks, PCs
    <3>3. CASE Mode(p) \notin Capped /\ NextSlot(p)
      BY <1>1, <1>2, <2>2, <3>3, NextSlotTypes
    <3> QED BY <2>3, <3>1, <3>2, <3>3
  <2>5. tries' \in [Procs -> 0..AcquireMaxToctouRetries]
    <3>1. tries \in [Procs -> 0..AcquireMaxToctouRetries]
      BY <1>1 DEF Walks
    <3>2. CASE tries[p] < AcquireMaxToctouRetries /\ tries' = [tries EXCEPT ![p] = @ + 1]
      <4>1. tries[p] + 1 \in 0..AcquireMaxToctouRetries
        BY <3>1, <3>2, SMT DEF AcquireMaxToctouRetries
      <4> QED BY <3>1, <3>2, <4>1
    <3> QED BY <2>3, <3>1, <3>2
  <2>6. Walks'
    BY <1>1, <2>1, <2>4, <2>5 DEF Walks
  <2>7. llcs'[p] = {} /\ ncpus'[p] = 0 /\ \A q \in Procs \ {p} : Same(q)
    BY <1>1, <2>1 DEF Shape, Same, Keeps
  <2>8. DOMAIN snap'[p] \subseteq Llc /\ plan'[p] \in Plans /\ DOMAIN snap' = Procs
    BY <1>1, <2>1 DEF Owned
  <2> QED BY <1>1, <2>6, <2>7, <2>8, TypesWithout DEF Typed
<1>10. CASE Locked(p)
  <2>1. UNCHANGED <<want, slot, start, snap, tries, plan>>
    BY <1>10 DEF Locked
  <2>2. CASE /\ pc' = [pc EXCEPT ![p] = "built"]
             /\ llcs' = [llcs EXCEPT ![p] = {}] /\ ncpus' = [ncpus EXCEPT ![p] = 0]
    <3>1. Walks'
      BY <1>1, <2>1, <2>2 DEF Walks, PCs
    <3>2. llcs'[p] = {} /\ ncpus'[p] = 0 /\ \A q \in Procs \ {p} : Same(q)
      BY <1>1, <2>1, <2>2 DEF Shape, Same, Keeps
    <3>3. DOMAIN snap'[p] \subseteq Llc /\ plan'[p] \in Plans /\ DOMAIN snap' = Procs
      BY <1>1, <2>1 DEF Owned
    <3> QED BY <1>1, <3>1, <3>2, <3>3, TypesWithout DEF Typed
  <2>3. CASE pc' = [pc EXCEPT ![p] = "running"] /\ UNCHANGED <<llcs, ncpus>>
    <3>1. Walks'
      BY <1>1, <2>1, <2>3 DEF Walks, PCs
    <3> QED BY <1>1, <2>1, <2>3, <3>1, TypesNoData DEF Typed
  <2> QED BY <1>10, <2>2, <2>3 DEF Locked, GoTo, DropLocks
<1>11. CASE Run(p)
  <2>1. UNCHANGED <<want, snap, tries, plan, llcs, ncpus>> /\ pc[p] = "built"
    BY <1>11 DEF Run
  <2>2. want[p] \in Wants
    BY <1>1, <2>1, SMT DEF Control
  <2>3. CASE pc' = [pc EXCEPT ![p] = "relock"] /\ UNCHANGED <<slot, start>>
    <3>1. Walks'
      BY <1>1, <2>1, <2>3 DEF Walks, PCs
    <3> QED BY <1>1, <2>1, <3>1, TypesNoData DEF Typed
  <2>4. CASE /\ Mode(p) = "default" /\ pc' = [pc EXCEPT ![p] = "slot"]
             /\ \E s \in 0..(MaxSlots(want[p]) - 1) :
                   slot' = [slot EXCEPT ![p] = s] /\ start' = [start EXCEPT ![p] = s]
    <3>1. PICK s \in 0..(MaxSlots(want[p]) - 1) :
             slot' = [slot EXCEPT ![p] = s] /\ start' = [start EXCEPT ![p] = s]
      BY <2>4
    <3>2. s \in Nat
      BY SMT
    <3>3. Walks'
      BY <1>1, <2>1, <2>4, <3>1, <3>2 DEF Walks, PCs
    <3> QED BY <1>1, <2>1, <3>3, TypesNoData DEF Typed
  <2> QED BY <1>11, <2>3, <2>4 DEF Run, GoTo
<1>12. CASE Finish(p)
  <2>1. /\ UNCHANGED <<want, slot, start, snap, tries, plan>>
        /\ llcs' = [llcs EXCEPT ![p] = {}] /\ ncpus' = [ncpus EXCEPT ![p] = 0]
        /\ \E s \in PCs : pc' = [pc EXCEPT ![p] = s]
    BY <1>12 DEF Finish, DropLocks, GoTo, PCs
  <2>2. Walks'
    BY <1>1, <2>1 DEF Walks
  <2>3. llcs'[p] = {} /\ ncpus'[p] = 0 /\ \A q \in Procs \ {p} : Same(q)
    BY <1>1, <2>1 DEF Shape, Same, Keeps
  <2>4. DOMAIN snap'[p] \subseteq Llc /\ plan'[p] \in Plans /\ DOMAIN snap' = Procs
    BY <1>1, <2>1 DEF Owned
  <2> QED BY <1>1, <2>2, <2>3, <2>4, TypesWithout DEF Typed
<1>13. CASE Reset(p)
  <2>1. /\ pc' = [pc EXCEPT ![p] = "idle"] /\ want' = [want EXCEPT ![p] = NoWant]
        /\ slot' = [slot EXCEPT ![p] = 0] /\ start' = [start EXCEPT ![p] = 0]
        /\ snap' = [snap EXCEPT ![p] = NoSnap] /\ tries' = [tries EXCEPT ![p] = 0]
        /\ plan' = [plan EXCEPT ![p] = NoPlan]
        /\ llcs' = [llcs EXCEPT ![p] = {}] /\ ncpus' = [ncpus EXCEPT ![p] = 0]
    BY <1>13 DEF Reset, GoTo, DropLocks
  <2>2. 0 \in Nat /\ 0 \in 0..AcquireMaxToctouRetries
    BY SMT DEF AcquireMaxToctouRetries
  <2>3. Walks'
    BY <1>1, <2>1, <2>2 DEF Walks, PCs
  <2>4. llcs'[p] = {} /\ ncpus'[p] = 0 /\ \A q \in Procs \ {p} : Same(q)
    BY <1>1, <2>1 DEF Shape, Same, Keeps
  <2>5. DOMAIN snap'[p] \subseteq Llc /\ plan'[p] \in Plans /\ DOMAIN snap' = Procs
    BY <1>1, <2>1, NoPlanTyped DEF Shape, NoSnap
  <2> QED BY <1>1, <2>3, <2>4, <2>5, TypesWithout DEF Typed
<1> QED BY <1>3, <1>4, <1>5, <1>6, <1>7, <1>8, <1>9, <1>10, <1>11, <1>12, <1>13
        DEF Step, Exit, Crash

\* Typed holds throughout.
LEMMA TypesInvariant == Spec => []Typed
<1>1. Init => Typed
  <2>1. SUFFICES ASSUME Init PROVE Typed
    OBVIOUS
  <2>2. 0 \in Nat /\ 0 \in 0..AcquireMaxToctouRetries
    BY SMT DEF AcquireMaxToctouRetries
  <2>3. Walks
    BY <2>1, <2>2 DEF Init, Walks, PCs
  <2>4. ASSUME NEW p \in Procs PROVE Owned(p)
    <3>1. snap[p] = NoSnap /\ plan[p] = NoPlan /\ llcs[p] = {} /\ ncpus[p] = 0
      BY <2>1 DEF Init
    <3>2. Len(Pins(p)) \in Nat
      BY <3>1, NoPlanTyped, PinsAreSeq DEF Pins
    <3>3. ncpus[p] \in 0..Len(Pins(p))
      BY <3>1, <3>2, SMT
    <3>4. DOMAIN snap[p] \subseteq Llc
      BY <3>1 DEF NoSnap
    <3> QED BY <3>1, <3>3, <3>4, NoPlanTyped DEF Owned
  <2>5. DOMAIN snap = Procs
    BY <2>1 DEF Init
  <2> QED BY <2>3, <2>4, <2>5, TypeOKParts DEF Typed
<1>2. IInv /\ Typed /\ [Next]_vars => Typed'
  <2>1. ASSUME IInv, Typed, UNCHANGED vars PROVE Typed'
    BY <2>1 DEF Typed, TypeOK, Pins, vars
  <2> QED BY <2>1, TypesStep DEF Next
<1> QED BY <1>1, <1>2, ReservationInvariant, PTL DEF Spec

\* The variables keep their types whatever the host, the requests and the
\* interleaving: a walk over slots stays on slots, the retries stay within
\* ACQUIRE_MAX_TOCTOU_RETRIES, every plan names LLCs and CPUs of the host, its
\* service CPU exists, and no process holds a lock that its plan does not name
\* (try_acquire_all, try_acquire_llc_plan_locks).
THEOREM TypeCorrect == Spec => []TypeOK
<1>1. Typed => TypeOK
  BY DEF Typed
<1> QED BY <1>1, TypesInvariant, PTL
-----------------------------------------------------------------------------
(* Exact plans *)

Planned == {"lock", "built", "relock", "running", "joining"}

\* What PlanIsExact says of one process, the check that let its request in, and
\* the holders it counted.
Exact(p) ==
    /\ Mode(p) \in Capped /\ pc[p] \notin {"idle", "over"} => Admitted(want[p])
    /\ \A l \in DOMAIN snap[p] : snap[p][l] \in Nat
    /\ Mode(p) \in Capped =>
         /\ pc[p] \in Planned => /\ Cardinality(plan[p].cpus) = Budget(want[p])
                                 /\ plan[p].cpus \subseteq want[p].allowed
         /\ pc[p] = "no llc" => Overlapping(want[p]) = {}

\* A step that gives p neither a request nor a plan.
LEMMA ExactKept ==
    ASSUME NEW p \in Procs, Exact(p),
           want'[p] = want[p], plan'[p] = plan[p], snap'[p] = snap[p],
           pc[p] \notin {"idle", "over"} \/ pc'[p] \in {"idle", "over"} \/ pc'[p] = pc[p],
           pc'[p] \in Planned => pc[p] \in Planned,
           pc'[p] = "no llc" => pc[p] = "no llc"
    PROVE  Exact(p)'
BY DEF Exact, Mode

\* Every step of a process keeps Exact for it.
LEMMA ExactStep ==
    ASSUME IInv, Typed, \A w \in Wants : w.mode \in Capped => Regular(w),
           NEW p \in Procs, Exact(p), Build(p) \/ Step(p) \/ Crash(p)
    PROVE  Exact(p)'
<1>1. /\ Shape /\ Control(p) /\ Walks /\ DOMAIN snap = Procs /\ DOMAIN snap[p] \subseteq Llc
  BY TypeOKParts DEF IInv, Typed, Owned
<1>2. pc \in [Procs -> PCs] /\ DOMAIN pc = Procs /\ DOMAIN want = Procs /\ DOMAIN plan = Procs
  BY <1>1 DEF Walks, Shape
<1>3. CASE Build(p)
  <2>1. PICK w \in Wants :
          /\ want' = [want EXCEPT ![p] = w]
          /\ pc' = [pc EXCEPT ![p] =
                CASE w.mode = "perf" ->
                       IF PerfNeeds(w) > Len(OnlineCpus) THEN "over" ELSE "slot"
                  [] w.mode \in Capped ->
                       IF w.allowed = {} \/ w.cap > Cardinality(w.allowed)
                       THEN "over" ELSE "discover"
                  [] OTHER -> "built"]
    BY <1>3 DEF Build, GoTo
  <2>2. want'[p] = w /\ snap'[p] = snap[p]
    BY <1>2, <1>3, <2>1 DEF Build
  <2>3. ASSUME w.mode \in Capped
        PROVE  \/ pc'[p] = "over"
               \/ pc'[p] = "discover" /\ Admitted(w)
    <3>1. w.mode # "perf"
      BY <2>3, SMT DEF Capped
    <3>2. pc'[p] = IF w.allowed = {} \/ w.cap > Cardinality(w.allowed)
                   THEN "over" ELSE "discover"
      BY <1>2, <2>1, <2>3, <3>1
    <3>3. w.cap \in Nat /\ Cardinality(w.allowed) \in Nat
      <4>1. w.cap \in Nat /\ IsFiniteSet(w.allowed)
        BY <2>3, WantAssumption, SMT DEF Capped
      <4> QED BY <4>1, FS_CardinalityType
    <3>4. ~(w.cap > Cardinality(w.allowed)) => w.cap <= Cardinality(w.allowed)
      BY <3>3, SMT
    <3> QED BY <3>2, <3>4 DEF Admitted
  <2>4. w.mode \in Capped => pc'[p] \notin Planned /\ pc'[p] # "no llc"
    BY <2>3 DEF Planned
  <2> QED BY <2>2, <2>3, <2>4 DEF Exact, Mode
<1>4. CASE Discover(p)
  <2>1. UNCHANGED <<pc, want, plan>>
    BY <1>4 DEF Discover
  <2>2. PICK l \in Overlapping(want[p]) :
          /\ DOMAIN snap'[p] = DOMAIN snap[p] \cup {l}
          /\ \A m \in DOMAIN snap'[p] :
               snap'[p][m] = IF m = l THEN Cardinality({q \in Procs : l \in llcs[q]})
                             ELSE snap[p][m]
    BY <1>1, <1>4, DiscoverLooks
  <2>3. Cardinality({q \in Procs : l \in llcs[q]}) \in Nat
    <3>1. {q \in Procs : l \in llcs[q]} \in SUBSET Procs
      OBVIOUS
    <3>2. IsFiniteSet({q \in Procs : l \in llcs[q]})
      BY <3>1, TopologyAssumption, FS_Subset
    <3> QED BY <3>2, FS_CardinalityType
  <2>4. \A m \in DOMAIN snap'[p] : snap'[p][m] \in Nat
    BY <2>2, <2>3 DEF Exact
  <2> QED BY <2>1, <2>4 DEF Exact, Mode
<1>5. CASE MakePlan(p)
  <2> DEFINE w == want[p]
             sel == plan_from_snapshots(w, snap[p])
  <2>1. /\ UNCHANGED want /\ snap' = [snap EXCEPT ![p] = NoSnap]
        /\ pc[p] = "discover" /\ DOMAIN snap[p] = Overlapping(w)
    BY <1>5 DEF MakePlan
  <2>2. w \in Wants /\ w.mode \in Capped /\ Admitted(w) /\ Regular(w)
    <3>1. w \in Wants /\ w.mode \in Capped
      BY <1>1, <2>1 DEF Control, Mode
    <3>2. pc[p] \notin {"idle", "over"}
      BY <2>1
    <3> QED BY <3>1, <3>2 DEF Exact, Mode
  <2>3. Seen(w, snap[p])
    BY <2>1 DEF Seen, Exact
  <2>4. /\ sel = {} => Overlapping(w) = {}
        /\ sel # {} => /\ Cardinality(FirstCpus(w, sel)) = Budget(w)
                       /\ FirstCpus(w, sel) \subseteq w.allowed
    <3> HIDE DEF w
    <3> QED BY <2>2, <2>3, BudgetPlanExact
  <2>5. \/ sel = {} /\ pc' = [pc EXCEPT ![p] = "no llc"]
        \/ /\ sel # {} /\ pc' = [pc EXCEPT ![p] = "lock"]
           /\ plan' = [plan EXCEPT ![p] = BudgetPlan(w, sel)]
    BY <1>5 DEF MakePlan, GoTo
  <2> HIDE DEF sel, w
  <2>6. \/ sel = {} /\ pc'[p] = "no llc"
        \/ sel # {} /\ pc'[p] = "lock" /\ plan'[p].cpus = FirstCpus(w, sel)
    <3>1. BudgetPlan(w, sel).cpus = FirstCpus(w, sel)
      BY DEF BudgetPlan
    <3> QED BY <1>2, <2>5, <3>1
  <2>7. want'[p] = w /\ \A l \in DOMAIN snap'[p] : snap'[p][l] \in Nat
    BY <1>1, <2>1 DEF NoSnap, w
  <2> QED BY <2>2, <2>4, <2>6, <2>7 DEF Exact, Mode, Planned
<1>6. CASE TrySlot(p)
  <2>1. UNCHANGED <<want, snap>> /\ pc[p] = "slot"
    BY <1>6 DEF TrySlot
  <2>2. Mode(p)' \notin Capped
    BY <1>1, <2>1, SMT DEF Control, Mode, Pinners, Capped
  <2> QED BY <2>1, <2>2 DEF Exact
<1>7. CASE LockLlc(p) \/ LockCpu(p)
  <2>1. UNCHANGED <<pc, want, snap, plan>>
    BY <1>7 DEF LockLlc, LockCpu
  <2> QED BY <2>1, ExactKept
<1>8. CASE Busy(p)
  <2>1. UNCHANGED <<want, snap, plan>> /\ pc[p] \in Locking
    BY <1>8 DEF Busy
  <2>2. \E s \in {"over", "discover", "slot"} : pc' = [pc EXCEPT ![p] = s]
    BY <1>8 DEF Busy, TryElsewhere, NextSlot, GoTo
  <2>3. pc'[p] \in {"over", "discover", "slot"}
    BY <1>2, <2>2
  <2>4. pc'[p] \notin Planned /\ pc'[p] # "no llc" /\ pc[p] \notin {"idle", "over"}
    BY <2>1, <2>3 DEF Planned, Locking
  <2> QED BY <2>1, <2>4, ExactKept
<1>9. CASE Locked(p)
  <2>1. UNCHANGED <<want, snap, plan>> /\ pc[p] \in Locking
    BY <1>9 DEF Locked
  <2>2. \E s \in {"built", "running"} : pc' = [pc EXCEPT ![p] = s]
    BY <1>9 DEF Locked, GoTo
  <2>3. pc'[p] \in {"built", "running"}
    BY <1>2, <2>2
  <2>4. pc[p] \in Planned /\ pc'[p] # "no llc" /\ pc[p] \notin {"idle", "over"}
    BY <2>1, <2>3 DEF Planned, Locking
  <2> QED BY <2>1, <2>4, ExactKept
<1>10. CASE Run(p)
  <2>1. UNCHANGED <<want, snap, plan>> /\ pc[p] = "built"
    BY <1>10 DEF Run
  <2>2. \E s \in {"slot", "relock"} : pc' = [pc EXCEPT ![p] = s]
    BY <1>10 DEF Run, GoTo
  <2>3. pc'[p] \in {"slot", "relock"}
    BY <1>2, <2>2
  <2>4. pc[p] \in Planned /\ pc'[p] # "no llc" /\ pc[p] \notin {"idle", "over"}
    BY <2>1, <2>3 DEF Planned
  <2> QED BY <2>1, <2>4, ExactKept
<1>11. CASE Finish(p)
  <2>1. UNCHANGED <<want, snap, plan>> /\ pc[p] = "running"
    BY <1>11 DEF Finish
  <2>2. \E s \in {"over", "joining"} : pc' = [pc EXCEPT ![p] = s]
    BY <1>11 DEF Finish, GoTo
  <2>3. pc'[p] \in {"over", "joining"}
    BY <1>2, <2>2
  <2>4. pc[p] \in Planned /\ pc'[p] # "no llc" /\ pc[p] \notin {"idle", "over"}
    BY <2>1, <2>3 DEF Planned
  <2> QED BY <2>1, <2>4, ExactKept
<1>12. CASE Reset(p)
  <2>1. want'[p] = NoWant /\ snap'[p] = NoSnap
    BY <1>1, <1>2, <1>12 DEF Reset
  <2>2. Mode(p)' \notin Capped
    BY <2>1, SMT DEF Mode, NoWant, Capped
  <2>3. \A l \in DOMAIN snap'[p] : snap'[p][l] \in Nat
    BY <2>1 DEF NoSnap
  <2> QED BY <2>2, <2>3 DEF Exact
<1> QED BY <1>3, <1>4, <1>5, <1>6, <1>7, <1>8, <1>9, <1>10, <1>11, <1>12
        DEF Step, Exit, Crash

\* A step of p is none of another process.
LEMMA StepIsLocal ==
    ASSUME Shape, Walks, DOMAIN snap = Procs,
           NEW p \in Procs, Build(p) \/ Step(p) \/ Crash(p), NEW q \in Procs \ {p}
    PROVE  pc'[q] = pc[q] /\ want'[q] = want[q] /\ plan'[q] = plan[q] /\ snap'[q] = snap[q]
<1>1. DOMAIN pc = Procs /\ DOMAIN want = Procs /\ DOMAIN plan = Procs
  BY DEF Shape
<1>2. \E s : pc' = [pc EXCEPT ![p] = s] \/ pc' = pc
  BY DEF Build, Step, Crash, Discover, MakePlan, TrySlot, LockLlc, LockCpu, Busy,
         Locked, Run, Finish, Exit, Reset, TryElsewhere, NextSlot, GoTo
<1>3. \E s : want' = [want EXCEPT ![p] = s] \/ want' = want
  BY DEF Build, Step, Crash, Discover, MakePlan, TrySlot, LockLlc, LockCpu, Busy,
         Locked, Run, Finish, Exit, Reset
<1>4. \E s : plan' = [plan EXCEPT ![p] = s] \/ plan' = plan
  BY DEF Build, Step, Crash, Discover, MakePlan, TrySlot, LockLlc, LockCpu, Busy,
         Locked, Run, Finish, Exit, Reset
<1>5. \E s : snap' = [snap EXCEPT ![p] = s] \/ snap' = snap
  BY DEF Build, Step, Crash, Discover, MakePlan, TrySlot, LockLlc, LockCpu, Busy,
         Locked, Run, Finish, Exit, Reset
<1>6. pc'[q] = pc[q]
  BY <1>1, <1>2
<1>7. want'[q] = want[q] /\ plan'[q] = plan[q] /\ snap'[q] = snap[q]
  BY <1>1, <1>3, <1>4, <1>5
<1> QED BY <1>6, <1>7

\* A budget plan has exactly as many CPUs as were asked for, all of them
\* allowed, and is refused only where no LLC has an allowed CPU, whatever the
\* host, the holders seen and the processes around: for all requests on which
\* the short cut of plan_from_snapshots does not take positions for LLC
\* indices.  The run reservation_sparse shows that the others fail.
THEOREM PlansAreExact ==
    ASSUME \A w \in Wants : w.mode \in Capped => Regular(w)
    PROVE  Spec => []PlanIsExact
<1> DEFINE E == \A p \in Procs : Exact(p)
<1>1. Init => E
  <2>1. SUFFICES ASSUME Init, NEW p \in Procs PROVE Exact(p)
    OBVIOUS
  <2>2. want[p] = NoWant /\ snap[p] = NoSnap
    BY <2>1 DEF Init
  <2>3. Mode(p) \notin Capped
    BY <2>2, SMT DEF Mode, NoWant, Capped
  <2> QED BY <2>2, <2>3 DEF Exact, NoSnap
<1>2. IInv /\ Typed /\ E /\ [Next]_vars => E'
  <2>1. ASSUME IInv, Typed, E, NEW p \in Procs, Build(p) \/ Step(p) \/ Crash(p),
               NEW q \in Procs
        PROVE  Exact(q)'
    <3>1. CASE q = p
      BY <2>1, <3>1, ExactStep
    <3>2. CASE q # p
      <4>1. Shape /\ Walks /\ DOMAIN snap = Procs
        BY <2>1, TypeOKParts DEF IInv, Typed
      <4>2. pc'[q] = pc[q] /\ want'[q] = want[q] /\ plan'[q] = plan[q] /\ snap'[q] = snap[q]
        BY <2>1, <3>2, <4>1, StepIsLocal
      <4> QED BY <2>1, <4>2 DEF Exact, Mode
    <3> QED BY <3>1, <3>2
  <2>2. ASSUME E, UNCHANGED vars PROVE E'
    BY <2>2 DEF Exact, Mode, vars
  <2> QED BY <2>1, <2>2 DEF Next
<1>3. E => PlanIsExact
  BY DEF Exact, PlanIsExact, Planned
<1> HIDE DEF E
<1> QED BY <1>1, <1>2, <1>3, ReservationInvariant, TypesInvariant, PTL DEF Spec

-----------------------------------------------------------------------------
(***************************************************************************)
(* Attempts end.  What a process has left to do is counted by the stage it *)
(* is in, the slots or discoveries it may still try, the plan it has to    *)
(* make, the LLCs to look at and the locks to take, in this order.         *)
(***************************************************************************)
Attempting == {"slot", "discover", "lock"}
StageOf(where, mode) ==
    CASE where = "idle" -> 0
      [] where \in {"over", "no llc", "joining"} -> 1
      [] where = "running" -> 2
      [] where = "relock" -> 3
      [] where = "built" /\ mode # "default" -> 4
      [] where \in Attempting -> 5
      [] OTHER -> 6
StageLeft(p) == StageOf(pc[p], Mode(p))

\* Slots ahead of slot s, of m in a circle, until the walk is back at b.
SlotsAhead(m, s, b) == IF s < b THEN b - s - 1 ELSE m - 1 - s + b
TurnsLeft(p) ==
    IF pc[p] \notin Attempting THEN 0
    ELSE IF Mode(p) \in Capped THEN AcquireMaxToctouRetries - tries[p]
    ELSE SlotsAhead(MaxSlots(want[p]), slot[p], start[p])
PlanLeft(p) == IF pc[p] \in {"slot", "discover"} THEN 1 ELSE 0
LooksLeft(p) ==
    IF pc[p] = "discover" THEN Cardinality(Overlapping(want[p]) \ DOMAIN snap[p]) ELSE 0
LlcLocksLeft(p) == Cardinality(LlcsLeft(p))
CpuLocksLeft(p) == Len(Pins(p)) - ncpus[p]

Falls(a, b, rest) == a < b \/ (a = b /\ rest)
LessLeft(p) ==
    Falls(StageLeft(p)', StageLeft(p), Falls(TurnsLeft(p)', TurnsLeft(p),
    Falls(PlanLeft(p)', PlanLeft(p), Falls(LooksLeft(p)', LooksLeft(p),
    Falls(LlcLocksLeft(p)', LlcLocksLeft(p), CpuLocksLeft(p)' < CpuLocksLeft(p))))))

\* All of it are natural numbers: the order is well-founded.
LeftIsNatural(p) ==
    /\ {StageLeft(p), TurnsLeft(p), PlanLeft(p), LooksLeft(p)} \subseteq Nat
    /\ {LlcLocksLeft(p), CpuLocksLeft(p)} \subseteq Nat

\* The guards of Step(p): a lock that is busy is not waited for.
GoesOn(p) ==
    \/ pc[p] \in {"slot", "running", "joining", "over", "no llc"}
    \/ /\ pc[p] = "discover"
       /\ \/ Overlapping(want[p]) \ DOMAIN snap[p] # {}
          \/ DOMAIN snap[p] = Overlapping(want[p])
    \/ pc[p] = "built" /\ (Mode(p) = "default" => 0..(MaxSlots(want[p]) - 1) # {})
    \/ /\ pc[p] \in Locking
       /\ \/ LlcsLeft(p) # {} /\ ~LlcBusy(p, Least(LlcsLeft(p)))
          \/ LlcsLeft(p) = {} /\ CpusLeft(p) /\ ~CpuBusy(p, Pins(p)[ncpus[p] + 1])
          \/ NextIsBusy(p)
          \/ LlcsLeft(p) = {} /\ ~CpusLeft(p)

\* A walk over slots stays on the slots there are, and a discovery looks at
\* LLCs with an allowed CPU only, from none.
OnTrack(p) ==
    /\ pc[p] = "idle" => slot[p] = 0 /\ start[p] = 0
    /\ pc[p] \in {"slot", "lock"} /\ Mode(p) \in Pinners =>
         {slot[p], start[p]} \subseteq 0..(MaxSlots(want[p]) - 1)
    /\ pc[p] = "discover" => DOMAIN snap[p] \subseteq Overlapping(want[p])
    /\ pc[p] # "discover" => DOMAIN snap[p] = {}

Tracks == \A p \in Procs : OnTrack(p)

\* The slot after slot s of m in a circle.
LEMMA NextInCircle ==
    ASSUME NEW m \in Nat \ {0}, NEW s \in 0..(m - 1)
    PROVE  (s + 1) % m = IF s + 1 = m THEN 0 ELSE s + 1
<1>1. CASE s + 1 = m
  BY <1>1, SMT
<1>2. CASE s + 1 # m
  <2>1. s + 1 \in 0..(m - 1)
    BY <1>2, SMT
  <2>2. \A r \in 0..(m - 1) : r % m = r
    BY SMT
  <2> QED BY <1>2, <2>1, <2>2
<1> QED BY <1>1, <1>2

\* Going on to the next slot, the walk comes closer to where it began.
LEMMA WalkComesRound ==
    ASSUME NEW m \in Nat \ {0}, NEW s \in 0..(m - 1), NEW b \in 0..(m - 1),
           (s + 1) % m # b
    PROVE  /\ (s + 1) % m \in 0..(m - 1)
           /\ SlotsAhead(m, (s + 1) % m, b) < SlotsAhead(m, s, b)
<1> DEFINE n == (s + 1) % m
<1>1. n = IF s + 1 = m THEN 0 ELSE s + 1
  BY NextInCircle
<1>2. n # b
  OBVIOUS
<1> HIDE DEF n
<1>3. n \in 0..(m - 1) /\ SlotsAhead(m, n, b) < SlotsAhead(m, s, b)
  BY <1>1, <1>2, SMT DEF SlotsAhead
<1> QED BY <1>3 DEF n

\* The slots ahead are a natural number of them.
LEMMA SlotsAheadNatural ==
    ASSUME NEW m \in Nat \ {0}, NEW s \in 0..(m - 1), NEW b \in 0..(m - 1)
    PROVE  SlotsAhead(m, s, b) \in Nat
BY SMT DEF SlotsAhead

\* A request is pinned or budgeted.
LEMMA ModeIsKnown ==
    ASSUME NEW w \in Wants
    PROVE  /\ w.mode \in Pinners \/ w.mode \in Capped
           /\ ~(w.mode \in Pinners /\ w.mode \in Capped)
BY WantAssumption, SMT DEF Pinners, Capped

\* What a step of p may change is p's alone.
LEMMA OthersKeepTheirOwn ==
    ASSUME IInv, Typed, NEW p \in Procs, Build(p) \/ Step(p) \/ Crash(p),
           NEW q \in Procs \ {p}
    PROVE  Own(q)' = Own(q)
<1>1. Shape /\ Walks /\ DOMAIN snap = Procs
  BY TypeOKParts DEF IInv, Typed
<1>2. /\ DOMAIN slot = Procs /\ DOMAIN start = Procs /\ DOMAIN tries = Procs
      /\ DOMAIN llcs = Procs /\ DOMAIN ncpus = Procs
  BY <1>1 DEF Shape, Walks
<1>3. \E s : slot' = [slot EXCEPT ![p] = s] \/ slot' = slot
  BY DEF Build, Step, Crash, Discover, MakePlan, TrySlot, LockLlc, LockCpu, Busy,
         Locked, Run, Finish, Exit, Reset, TryElsewhere, NextSlot
<1>4. \E s : start' = [start EXCEPT ![p] = s] \/ start' = start
  BY DEF Build, Step, Crash, Discover, MakePlan, TrySlot, LockLlc, LockCpu, Busy,
         Locked, Run, Finish, Exit, Reset
<1>5. \E s : tries' = [tries EXCEPT ![p] = s] \/ tries' = tries
  BY DEF Build, Step, Crash, Discover, MakePlan, TrySlot, LockLlc, LockCpu, Busy,
         Locked, Run, Finish, Exit, Reset, TryElsewhere
<1>6. \E s : llcs' = [llcs EXCEPT ![p] = s] \/ llcs' = llcs
  BY DEF Build, Step, Crash, Discover, MakePlan, TrySlot, LockLlc, LockCpu, Busy,
         Locked, Run, Finish, Exit, Reset, DropLocks
<1>7. \E s : ncpus' = [ncpus EXCEPT ![p] = s] \/ ncpus' = ncpus
  BY DEF Build, Step, Crash, Discover, MakePlan, TrySlot, LockLlc, LockCpu, Busy,
         Locked, Run, Finish, Exit, Reset, DropLocks
<1>8. slot'[q] = slot[q] /\ start'[q] = start[q] /\ tries'[q] = tries[q]
  BY <1>2, <1>3, <1>4, <1>5
<1>9. llcs'[q] = llcs[q] /\ ncpus'[q] = ncpus[q]
  BY <1>2, <1>6, <1>7
<1>10. pc'[q] = pc[q] /\ want'[q] = want[q] /\ plan'[q] = plan[q] /\ snap'[q] = snap[q]
  BY <1>1, StepIsLocal
<1> QED BY <1>8, <1>9, <1>10 DEF Own

\* A step to the next slot, or to the end of the walk.
LEMMA NextSlotTracks ==
    ASSUME Typed, Shape, NEW p \in Procs, want[p] \in Wants, Mode(p) \in Pinners,
           pc[p] \in {"slot", "lock"}, OnTrack(p), NextSlot(p), UNCHANGED <<want, start>>
    PROVE  \/ pc'[p] = "over"
           \/ /\ pc'[p] = "slot"
              /\ slot'[p] \in 0..(MaxSlots(want[p]) - 1)
              /\ start[p] \in 0..(MaxSlots(want[p]) - 1)
              /\ SlotsAhead(MaxSlots(want[p]), slot'[p], start[p])
                   < SlotsAhead(MaxSlots(want[p]), slot[p], start[p])
<1> DEFINE m == MaxSlots(want[p])
           next == (slot[p] + 1) % m
<1>1. m \in Nat \ {0}
  BY SlotsThere DEF Mode
<1>2. slot[p] \in 0..(m - 1) /\ start[p] \in 0..(m - 1)
  BY DEF OnTrack
<1>3. DOMAIN pc = Procs /\ DOMAIN slot = Procs
  BY TypeOKParts DEF Shape, Typed, Walks
<1>4. \/ pc' = [pc EXCEPT ![p] = "over"]
      \/ /\ pc' = [pc EXCEPT ![p] = "slot"] /\ slot' = [slot EXCEPT ![p] = next]
         /\ next # start[p]
  BY DEF NextSlot, GoTo
<1>5. next # start[p] => /\ next \in 0..(m - 1)
                         /\ SlotsAhead(m, next, start[p]) < SlotsAhead(m, slot[p], start[p])
  <2> HIDE DEF m
  <2> QED BY <1>1, <1>2, WalkComesRound
<1> HIDE DEF m, next
<1>6. \/ pc'[p] = "over"
      \/ pc'[p] = "slot" /\ slot'[p] = next /\ next # start[p]
  BY <1>3, <1>4
<1> QED BY <1>2, <1>5, <1>6 DEF m

\* The stages in their order.
LEMMA StagesInOrder ==
    ASSUME NEW m
    PROVE  /\ StageOf("idle", m) = 0
           /\ \A s \in {"over", "no llc", "joining"} : StageOf(s, m) = 1
           /\ StageOf("running", m) = 2 /\ StageOf("relock", m) = 3
           /\ m # "default" => StageOf("built", m) = 4
           /\ \A s \in Attempting : StageOf(s, m) = 5
           /\ m = "default" => StageOf("built", m) = 6
BY SMT DEF StageOf, Attempting

\* A process that reaches a lower stage has less left.
LEMMA LowerStage ==
    ASSUME NEW p \in Procs, StageOf(pc'[p], want'[p].mode) < StageOf(pc[p], want[p].mode)
    PROVE  LessLeft(p)
BY DEF LessLeft, Falls, StageLeft, Mode

\* A process that goes on trying has less left when it has fewer turns.
LEMMA FewerTurns ==
    ASSUME NEW p \in Procs, want'[p] = want[p], pc[p] \in Attempting, pc'[p] \in Attempting,
           TurnsLeft(p)' < TurnsLeft(p)
    PROVE  LessLeft(p)
<1>1. StageLeft(p)' = StageLeft(p)
  BY StagesInOrder DEF StageLeft, Mode
<1> QED BY <1>1 DEF LessLeft, Falls

\* The turns that are left to a process depend on these.
LEMMA SameTurns ==
    ASSUME NEW p \in Procs, want'[p] = want[p], slot'[p] = slot[p], start'[p] = start[p],
           tries'[p] = tries[p], pc[p] \in Attempting <=> pc'[p] \in Attempting
    PROVE  TurnsLeft(p)' = TurnsLeft(p)
BY DEF TurnsLeft, Mode

\* ... and less left when its plan is made.
LEMMA PlanMade ==
    ASSUME NEW p \in Procs, want'[p] = want[p], slot'[p] = slot[p], start'[p] = start[p],
           tries'[p] = tries[p], pc[p] \in {"slot", "discover"}, pc'[p] = "lock"
    PROVE  LessLeft(p)
<1>1. pc[p] \in Attempting /\ pc'[p] \in Attempting
  BY DEF Attempting
<1>2. StageLeft(p)' = StageLeft(p) /\ TurnsLeft(p)' = TurnsLeft(p)
  BY <1>1, StagesInOrder, SameTurns DEF StageLeft, Mode
<1>3. PlanLeft(p)' = 0 /\ PlanLeft(p) = 1
  BY SMT DEF PlanLeft
<1>4. PlanLeft(p)' < PlanLeft(p)
  BY <1>3, SMT
<1> QED BY <1>2, <1>4 DEF LessLeft, Falls

\* Looking at one more LLC leaves fewer to look at.
LEMMA LookShrinks ==
    ASSUME IInv, Typed, NEW p \in Procs, OnTrack(p), Discover(p)
    PROVE  OnTrack(p)' /\ LessLeft(p)
<1>1. UNCHANGED <<pc, want, slot, start, tries, plan, llcs, ncpus>> /\ pc[p] = "discover"
  BY DEF Discover
<1>2. DOMAIN snap[p] \subseteq Llc /\ DOMAIN snap = Procs
  BY TypeOKParts DEF Typed, Owned
<1> DEFINE left == Overlapping(want[p]) \ DOMAIN snap[p]
           l == Least(left)
<1>3. left # {} /\ DOMAIN snap'[p] = DOMAIN snap[p] \cup {l}
  BY <1>2 DEF Discover
<1>4. left \in SUBSET Nat /\ IsFiniteSet(left)
  <2>1. left \in SUBSET Overlapping(want[p])
    OBVIOUS
  <2> QED BY <2>1, OverlappingFinite, FS_Subset
<1>5. l \in left
  <2> HIDE DEF left
  <2> QED BY <1>3, <1>4, LeastIn
<1>6. (Overlapping(want[p]) \ DOMAIN snap[p])' = left \ {l}
  <2> HIDE DEF l
  <2> QED BY <1>1, <1>3
<1>7. DOMAIN snap'[p] \subseteq Overlapping(want[p])
  <2>1. DOMAIN snap[p] \subseteq Overlapping(want[p]) /\ l \in Overlapping(want[p])
    BY <1>1, <1>5 DEF OnTrack
  <2> HIDE DEF l, left
  <2> QED BY <1>3, <2>1
<1> HIDE DEF l, left
<1>8. Cardinality(left \ {l}) < Cardinality(left)
  <2>1. Cardinality(left \ {l}) = Cardinality(left) - 1 /\ Cardinality(left) \in Nat
    BY <1>4, <1>5, FS_RemoveElement, FS_CardinalityType
  <2> QED BY <2>1, SMT
<1>9. LooksLeft(p)' < LooksLeft(p)
  <2>1. LooksLeft(p)' = Cardinality(left \ {l})
    BY <1>1, <1>6 DEF LooksLeft
  <2>2. LooksLeft(p) = Cardinality(left)
    BY <1>1 DEF LooksLeft, left
  <2> QED BY <1>8, <2>1, <2>2
<1>10. StageLeft(p)' = StageLeft(p) /\ PlanLeft(p)' = PlanLeft(p)
  BY <1>1 DEF StageLeft, PlanLeft, Mode
<1>11. TurnsLeft(p)' = TurnsLeft(p)
  BY <1>1, SameTurns
<1>12. OnTrack(p)'
  BY <1>1, <1>7 DEF OnTrack, Mode
<1> QED BY <1>9, <1>10, <1>11, <1>12 DEF LessLeft, Falls

\* A plan, or the end.
LEMMA PlanShrinks ==
    ASSUME IInv, Typed, NEW p \in Procs, OnTrack(p), MakePlan(p)
    PROVE  OnTrack(p)' /\ LessLeft(p)
<1>1. /\ UNCHANGED <<want, slot, start, tries>> /\ pc[p] = "discover"
      /\ snap' = [snap EXCEPT ![p] = NoSnap]
  BY DEF MakePlan
<1>2. \E s \in {"no llc", "lock"} : pc' = [pc EXCEPT ![p] = s]
  BY DEF MakePlan, GoTo
<1>3. DOMAIN pc = Procs /\ DOMAIN snap = Procs /\ Control(p)
  BY DEF IInv, Shape, Typed
<1>4. pc'[p] \in {"no llc", "lock"} /\ DOMAIN snap'[p] = {}
  BY <1>1, <1>2, <1>3 DEF NoSnap
<1>5. want[p] \in Wants /\ Mode(p) \in Capped
  BY <1>1, <1>3 DEF Control
<1>6. Mode(p)' \notin Pinners
  BY <1>1, <1>5, ModeIsKnown DEF Mode
<1>7. OnTrack(p)'
  BY <1>4, <1>6 DEF OnTrack
<1>8. CASE pc'[p] = "lock"
  BY <1>1, <1>7, <1>8, PlanMade
<1>9. CASE pc'[p] = "no llc"
  <2>1. StageOf(pc'[p], want'[p].mode) = 1 /\ StageOf(pc[p], want[p].mode) = 5
    BY <1>1, <1>9, StagesInOrder DEF Attempting
  <2>2. StageOf(pc'[p], want'[p].mode) < StageOf(pc[p], want[p].mode)
    BY <2>1, SMT
  <2> QED BY <1>7, <2>2, LowerStage
<1> QED BY <1>4, <1>8, <1>9

\* The end of the walk, from wherever the process tries.
LEMMA GivesUp ==
    ASSUME NEW p \in Procs, OnTrack(p), pc[p] # "discover",
           pc[p] \in Attempting \cup {"relock"}, pc'[p] = "over", snap'[p] = snap[p]
    PROVE  OnTrack(p)' /\ LessLeft(p)
<1>1. OnTrack(p)'
  BY DEF OnTrack
<1>2. StageOf(pc'[p], want'[p].mode) = 1 /\ StageOf(pc[p], want[p].mode) \in {3, 5}
  BY StagesInOrder
<1>3. StageOf(pc'[p], want'[p].mode) < StageOf(pc[p], want[p].mode)
  BY <1>2, SMT
<1> QED BY <1>1, <1>3, LowerStage

\* The next slot of a walk, or its end.
LEMMA WalkShrinks ==
    ASSUME IInv, Typed, NEW p \in Procs, OnTrack(p), pc[p] \in {"slot", "lock"},
           Mode(p) \in Pinners, NextSlot(p), UNCHANGED <<want, start, snap, tries>>
    PROVE  OnTrack(p)' /\ LessLeft(p)
<1>1. Shape /\ Control(p)
  BY DEF IInv
<1>2. want[p] \in Wants
  BY <1>1 DEF Control
<1>3. \/ pc'[p] = "over"
      \/ /\ pc'[p] = "slot"
         /\ slot'[p] \in 0..(MaxSlots(want[p]) - 1)
         /\ start[p] \in 0..(MaxSlots(want[p]) - 1)
         /\ SlotsAhead(MaxSlots(want[p]), slot'[p], start[p])
              < SlotsAhead(MaxSlots(want[p]), slot[p], start[p])
  BY <1>1, <1>2, NextSlotTracks
<1>4. CASE pc'[p] = "over"
  BY <1>4, GivesUp DEF Attempting
<1>5. CASE pc'[p] = "slot"
  <2>1. pc[p] \in Attempting /\ pc'[p] \in Attempting
    BY <1>5 DEF Attempting
  <2>2. Mode(p) \notin Capped
    BY <1>2, ModeIsKnown DEF Mode
  <2>3. /\ TurnsLeft(p)' = SlotsAhead(MaxSlots(want[p]), slot'[p], start[p])
        /\ TurnsLeft(p) = SlotsAhead(MaxSlots(want[p]), slot[p], start[p])
    BY <2>1, <2>2 DEF TurnsLeft, Mode
  <2>4. TurnsLeft(p)' < TurnsLeft(p)
    BY <1>3, <1>5, <2>3
  <2>5. DOMAIN snap'[p] = {}
    BY DEF OnTrack
  <2>6. OnTrack(p)'
    BY <1>3, <1>5, <2>5 DEF OnTrack
  <2> QED BY <2>1, <2>4, <2>6, FewerTurns
<1> QED BY <1>3, <1>4, <1>5

\* A slot that fits is locked, one that does not is passed over.
LEMMA SlotShrinks ==
    ASSUME IInv, Typed, NEW p \in Procs, OnTrack(p), TrySlot(p)
    PROVE  OnTrack(p)' /\ LessLeft(p)
<1>1. UNCHANGED <<want, start, snap, tries, llcs, ncpus>> /\ pc[p] = "slot"
  BY DEF TrySlot
<1>2. DOMAIN pc = Procs /\ Control(p)
  BY DEF IInv, Shape
<1>3. Mode(p) \in Pinners
  BY <1>1, <1>2 DEF Control
<1>4. \/ pc' = [pc EXCEPT ![p] = "lock"] /\ UNCHANGED slot
      \/ pc' = [pc EXCEPT ![p] = "over"]
      \/ NextSlot(p)
  BY DEF TrySlot, GoTo
<1>5. CASE pc' = [pc EXCEPT ![p] = "lock"] /\ UNCHANGED slot
  <2>1. pc'[p] = "lock"
    BY <1>2, <1>5
  <2>2. OnTrack(p)'
    BY <1>1, <1>5, <2>1 DEF OnTrack, Mode
  <2> QED BY <1>1, <1>5, <2>1, <2>2, PlanMade
<1>6. CASE pc' = [pc EXCEPT ![p] = "over"]
  <2>1. pc'[p] = "over"
    BY <1>2, <1>6
  <2> QED BY <1>1, <2>1, GivesUp DEF Attempting
<1>7. CASE NextSlot(p)
  BY <1>1, <1>3, <1>7, WalkShrinks
<1> QED BY <1>4, <1>5, <1>6, <1>7

\* The first four counts while locks are taken.
LEMMA SameWhileLocking ==
    ASSUME NEW p \in Procs, OnTrack(p), UNCHANGED <<pc, want, slot, start, snap, tries>>
    PROVE  /\ OnTrack(p)'
           /\ StageLeft(p)' = StageLeft(p) /\ TurnsLeft(p)' = TurnsLeft(p)
           /\ PlanLeft(p)' = PlanLeft(p) /\ LooksLeft(p)' = LooksLeft(p)
<1>1. OnTrack(p)'
  BY DEF OnTrack, Mode
<1>2. StageLeft(p)' = StageLeft(p) /\ PlanLeft(p)' = PlanLeft(p)
  BY DEF StageLeft, PlanLeft, Mode
<1>3. LooksLeft(p)' = LooksLeft(p)
  BY DEF LooksLeft
<1> QED BY <1>1, <1>2, <1>3, SameTurns

\* The LLCs a plan names are finitely many numbers.
LEMMA LlcsLeftFinite ==
    ASSUME IInv, NEW p \in Procs
    PROVE  LlcsLeft(p) \in SUBSET Nat /\ IsFiniteSet(LlcsLeft(p))
<1>1. LlcsLeft(p) \in SUBSET Llc
  BY DEF IInv, PlanOK, LlcsLeft
<1> QED BY <1>1, HostAssumption, Places, FS_Subset

\* One LLC lock more leaves one less to take.
LEMMA LlcShrinks ==
    ASSUME IInv, Typed, NEW p \in Procs, OnTrack(p), LockLlc(p)
    PROVE  OnTrack(p)' /\ LessLeft(p)
<1> DEFINE l == Least(LlcsLeft(p))
<1>1. /\ UNCHANGED <<pc, want, slot, start, snap, tries, plan, ncpus>>
      /\ llcs' = [llcs EXCEPT ![p] = @ \cup {l}] /\ LlcsLeft(p) # {}
  BY DEF LockLlc
<1>2. l \in LlcsLeft(p)
  BY <1>1, LlcsLeftFinite, LeastIn
<1> HIDE DEF l
<1>3. llcs'[p] = llcs[p] \cup {l}
  BY <1>1 DEF IInv, Shape
<1>4. LlcsLeft(p)' = LlcsLeft(p) \ {l}
  BY <1>1, <1>3 DEF LlcsLeft
<1>5. /\ Cardinality(LlcsLeft(p) \ {l}) = Cardinality(LlcsLeft(p)) - 1
      /\ Cardinality(LlcsLeft(p)) \in Nat
  BY <1>2, LlcsLeftFinite, FS_RemoveElement, FS_CardinalityType
<1>6. Cardinality(LlcsLeft(p) \ {l}) < Cardinality(LlcsLeft(p))
  BY <1>5, SMT
<1>7. LlcLocksLeft(p)' < LlcLocksLeft(p)
  BY <1>4, <1>6 DEF LlcLocksLeft
<1> QED BY <1>1, <1>7, SameWhileLocking DEF LessLeft, Falls

\* ... and so does one CPU lock.
LEMMA CpuShrinks ==
    ASSUME IInv, Typed, NEW p \in Procs, OnTrack(p), LockCpu(p)
    PROVE  OnTrack(p)' /\ LessLeft(p)
<1>1. /\ UNCHANGED <<pc, want, slot, start, snap, tries, plan, llcs>>
      /\ ncpus' = [ncpus EXCEPT ![p] = @ + 1]
  BY DEF LockCpu
<1>2. ncpus'[p] = ncpus[p] + 1 /\ ncpus[p] \in Nat
  BY <1>1 DEF IInv, Shape
<1>3. Pins(p)' = Pins(p) /\ LlcLocksLeft(p)' = LlcLocksLeft(p)
  BY <1>1 DEF Pins, LlcLocksLeft, LlcsLeft
<1>4. Len(Pins(p)) \in Nat
  BY TypeOKParts, PinsAreSeq DEF Typed, Owned, Pins
<1>5. Len(Pins(p)) - (ncpus[p] + 1) < Len(Pins(p)) - ncpus[p]
  BY <1>2, <1>4, SMT
<1>6. CpuLocksLeft(p)' < CpuLocksLeft(p)
  BY <1>2, <1>3, <1>5 DEF CpuLocksLeft
<1> QED BY <1>1, <1>3, <1>6, SameWhileLocking DEF LessLeft, Falls

\* A busy lock: another slot, another discovery, or the end.
LEMMA BusyShrinks ==
    ASSUME IInv, Typed, NEW p \in Procs, OnTrack(p), Busy(p)
    PROVE  OnTrack(p)' /\ LessLeft(p)
<1>1. UNCHANGED <<want, start, snap, plan>> /\ pc[p] \in Locking
  BY DEF Busy
<1>2. /\ DOMAIN pc = Procs /\ Control(p) /\ DOMAIN tries = Procs
      /\ tries[p] \in 0..AcquireMaxToctouRetries
  BY TypeOKParts DEF IInv, Shape, Typed, Walks
<1>3. want[p] \in Wants
  BY <1>1, <1>2, SMT DEF Control, Locking
<1>4. \/ pc' = [pc EXCEPT ![p] = "over"]
      \/ /\ pc[p] = "lock" /\ Mode(p) \in Capped /\ pc' = [pc EXCEPT ![p] = "discover"]
         /\ tries' = [tries EXCEPT ![p] = @ + 1] /\ UNCHANGED slot
      \/ pc[p] = "lock" /\ Mode(p) \notin Capped /\ NextSlot(p) /\ UNCHANGED tries
  BY DEF Busy, TryElsewhere, GoTo
<1>5. CASE pc' = [pc EXCEPT ![p] = "over"]
  <2>1. pc'[p] = "over"
    BY <1>2, <1>5
  <2>2. pc[p] # "discover" /\ pc[p] \in Attempting \cup {"relock"}
    BY <1>1 DEF Attempting, Locking
  <2> QED BY <1>1, <2>1, <2>2, GivesUp
<1>6. CASE /\ pc[p] = "lock" /\ Mode(p) \in Capped /\ pc' = [pc EXCEPT ![p] = "discover"]
           /\ tries' = [tries EXCEPT ![p] = @ + 1]
  <2>1. pc'[p] = "discover" /\ tries'[p] = tries[p] + 1
    BY <1>2, <1>6
  <2>2. pc[p] \in Attempting /\ pc'[p] \in Attempting
    BY <1>6, <2>1 DEF Attempting
  <2>3. /\ TurnsLeft(p)' = AcquireMaxToctouRetries - (tries[p] + 1)
        /\ TurnsLeft(p) = AcquireMaxToctouRetries - tries[p]
    BY <1>1, <1>6, <2>1, <2>2 DEF TurnsLeft, Mode
  <2>4. TurnsLeft(p)' < TurnsLeft(p)
    BY <1>2, <2>3, SMT DEF AcquireMaxToctouRetries
  <2>5. DOMAIN snap'[p] = {}
    BY <1>1, <1>6 DEF OnTrack
  <2>6. OnTrack(p)'
    BY <2>1, <2>5 DEF OnTrack
  <2> QED BY <1>1, <2>2, <2>4, <2>6, FewerTurns
<1>7. CASE pc[p] = "lock" /\ Mode(p) \notin Capped /\ NextSlot(p) /\ UNCHANGED tries
  <2>1. Mode(p) \in Pinners
    BY <1>3, <1>7, ModeIsKnown DEF Mode
  <2> QED BY <1>1, <1>7, <2>1, WalkShrinks
<1> QED BY <1>4, <1>5, <1>6, <1>7

\* The steps after the locks, each to a lower stage.
LEMMA StageShrinks ==
    ASSUME IInv, Typed, NEW p \in Procs, OnTrack(p), Locked(p) \/ Run(p) \/ Finish(p)
    PROVE  OnTrack(p)' /\ LessLeft(p)
<1>1. /\ DOMAIN pc = Procs /\ DOMAIN slot = Procs /\ DOMAIN start = Procs /\ Control(p)
  BY TypeOKParts DEF IInv, Shape, Typed, Walks
<1>2. UNCHANGED <<want, snap>> /\ pc[p] # "discover" /\ pc[p] # "idle"
  BY SMT DEF Locked, Run, Finish, Locking
<1>3. DOMAIN snap'[p] = {}
  BY <1>2 DEF OnTrack
<1>4. CASE Locked(p)
  <2>1. \/ pc[p] = "lock" /\ Mode(p) \in {"perf", "noperf"} /\ pc'[p] = "built"
        \/ pc[p] \in Locking /\ pc'[p] = "running"
    BY <1>1, <1>4 DEF Locked, GoTo
  <2>2. OnTrack(p)'
    BY <1>3, <2>1 DEF OnTrack
  <2>3. \/ /\ StageOf(pc[p], want[p].mode) = 5 /\ StageOf(pc'[p], want'[p].mode) \in {2, 4}
        \/ /\ StageOf(pc[p], want[p].mode) = 3 /\ StageOf(pc'[p], want'[p].mode) = 2
    BY <1>2, <2>1, StagesInOrder DEF Attempting, Locking, Mode
  <2>4. StageOf(pc'[p], want'[p].mode) < StageOf(pc[p], want[p].mode)
    BY <2>3, SMT
  <2> QED BY <2>2, <2>4, LowerStage
<1>5. CASE Run(p)
  <2>1. \/ /\ Mode(p) = "default" /\ pc'[p] = "slot"
           /\ \E s \in 0..(MaxSlots(want[p]) - 1) : slot'[p] = s /\ start'[p] = s
        \/ Mode(p) # "default" /\ pc'[p] = "relock"
    BY <1>1, <1>5 DEF Run, GoTo
  <2>2. OnTrack(p)'
    BY <1>2, <1>3, <2>1 DEF OnTrack
  <2>3. \/ /\ StageOf(pc[p], want[p].mode) = 6 /\ StageOf(pc'[p], want'[p].mode) = 5
        \/ /\ StageOf(pc[p], want[p].mode) = 4 /\ StageOf(pc'[p], want'[p].mode) = 3
    <3>1. pc[p] = "built"
      BY <1>5 DEF Run
    <3> QED BY <1>2, <2>1, <3>1, StagesInOrder DEF Attempting, Mode
  <2>4. StageOf(pc'[p], want'[p].mode) < StageOf(pc[p], want[p].mode)
    BY <2>3, SMT
  <2> QED BY <2>2, <2>4, LowerStage
<1>6. CASE Finish(p)
  <2>1. pc[p] = "running" /\ pc'[p] \in {"over", "joining"}
    BY <1>1, <1>6 DEF Finish, GoTo
  <2>2. OnTrack(p)'
    BY <1>3, <2>1 DEF OnTrack
  <2>3. StageOf(pc[p], want[p].mode) = 2 /\ StageOf(pc'[p], want'[p].mode) = 1
    BY <2>1, StagesInOrder
  <2>4. StageOf(pc'[p], want'[p].mode) < StageOf(pc[p], want[p].mode)
    BY <2>3, SMT
  <2> QED BY <2>2, <2>4, LowerStage
<1> QED BY <1>4, <1>5, <1>6

\* A process that exits or is killed starts from nothing.
LEMMA ResetTracks ==
    ASSUME IInv, Typed, NEW p \in Procs, Reset(p)
    PROVE  OnTrack(p)' /\ pc'[p] = "idle"
<1>1. /\ DOMAIN pc = Procs /\ DOMAIN slot = Procs /\ DOMAIN start = Procs /\ DOMAIN snap = Procs
  BY TypeOKParts DEF IInv, Shape, Typed, Walks
<1>2. pc'[p] = "idle" /\ slot'[p] = 0 /\ start'[p] = 0 /\ snap'[p] = NoSnap
  BY <1>1 DEF Reset, GoTo
<1>3. DOMAIN snap'[p] = {}
  BY <1>2 DEF NoSnap
<1> QED BY <1>2, <1>3 DEF OnTrack

\* Every step of a process stays on track and leaves less to do.
LEMMA StepShrinks ==
    ASSUME IInv, Typed, NEW p \in Procs, OnTrack(p), Step(p)
    PROVE  OnTrack(p)' /\ LessLeft(p)
<1>1. CASE Exit(p)
  <2>1. OnTrack(p)' /\ pc'[p] = "idle"
    BY <1>1, ResetTracks DEF Exit
  <2>2. StageOf(pc[p], want[p].mode) = 1 /\ StageOf(pc'[p], want'[p].mode) = 0
    BY <1>1, <2>1, StagesInOrder DEF Exit
  <2>3. StageOf(pc'[p], want'[p].mode) < StageOf(pc[p], want[p].mode)
    BY <2>2, SMT
  <2> QED BY <2>1, <2>3, LowerStage
<1> QED BY <1>1, LookShrinks, PlanShrinks, SlotShrinks, LlcShrinks, CpuShrinks,
           BusyShrinks, StageShrinks DEF Step

\* A request starts a walk at slot 0, or a discovery with nothing seen.
LEMMA BuildTracks ==
    ASSUME IInv, Typed, NEW p \in Procs, OnTrack(p), Build(p)
    PROVE  OnTrack(p)'
<1>1. UNCHANGED <<slot, start, snap>> /\ pc[p] = "idle"
  BY DEF Build
<1>2. DOMAIN pc = Procs /\ DOMAIN want = Procs
  BY DEF IInv, Shape
<1>3. want'[p] \in Wants /\ pc'[p] \in {"over", "slot", "discover", "built"}
  BY <1>2 DEF Build, GoTo
<1>4. slot'[p] = 0 /\ start'[p] = 0 /\ DOMAIN snap'[p] = {}
  BY <1>1 DEF OnTrack
<1>5. Mode(p)' \in Pinners => 0 \in 0..(MaxSlots(want'[p]) - 1)
  <2>1. Mode(p)' \in Pinners => MaxSlots(want'[p]) \in Nat \ {0}
    BY <1>3, SlotsThere DEF Mode
  <2> QED BY <2>1, SMT
<1> QED BY <1>3, <1>4, <1>5 DEF OnTrack

\* Walks and discoveries stay on track.
LEMMA AlwaysOnTrack == Spec => []Tracks
<1>1. Init => Tracks
  BY DEF Init, Tracks, OnTrack, NoSnap
<1>2. IInv /\ Typed /\ Tracks /\ [Next]_vars => Tracks'
  <2>1. ASSUME IInv, Typed, Tracks, NEW p \in Procs, Build(p) \/ Step(p) \/ Crash(p),
               NEW q \in Procs
        PROVE  OnTrack(q)'
    <3>1. CASE q = p
      BY <2>1, <3>1, BuildTracks, StepShrinks, ResetTracks DEF Tracks, Crash
    <3>2. CASE q # p
      <4>1. Own(q)' = Own(q)
        BY <2>1, <3>2, OthersKeepTheirOwn
      <4> QED BY <2>1, <4>1 DEF Tracks, OnTrack, Own, Mode
    <3> QED BY <3>1, <3>2
  <2>2. ASSUME Tracks, UNCHANGED vars PROVE Tracks'
    BY <2>2 DEF Tracks, OnTrack, Mode, vars
  <2> QED BY <2>1, <2>2 DEF Next, Tracks
<1> QED BY <1>1, <1>2, ReservationInvariant, TypesInvariant, PTL DEF Spec

\* What is left to a process are natural numbers.
LEMMA LeftOverIsNatural ==
    ASSUME IInv, Typed, NEW p \in Procs, OnTrack(p)
    PROVE  LeftIsNatural(p)
<1>1. /\ Control(p) /\ Owned(p) /\ pc[p] \in PCs
      /\ tries[p] \in 0..AcquireMaxToctouRetries
  BY TypeOKParts DEF IInv, Typed, Walks
<1>2. StageLeft(p) \in Nat
  <2>1. StageLeft(p) \in 0..6
    BY SMT DEF StageLeft, StageOf
  <2> QED BY <2>1, SMT
<1>3. TurnsLeft(p) \in Nat
  <2>1. CASE pc[p] \notin Attempting
    BY <2>1, SMT DEF TurnsLeft
  <2>2. CASE pc[p] \in Attempting /\ Mode(p) \in Capped
    <3>1. TurnsLeft(p) = AcquireMaxToctouRetries - tries[p]
      BY <2>2 DEF TurnsLeft
    <3> QED BY <1>1, <3>1, SMT DEF AcquireMaxToctouRetries
  <2>3. CASE pc[p] \in Attempting /\ Mode(p) \notin Capped
    <3>1. pc[p] \in {"slot", "lock"} /\ want[p] \in Wants
      BY <1>1, <2>3 DEF Attempting, Control
    <3>2. Mode(p) \in Pinners
      BY <2>3, <3>1, ModeIsKnown DEF Mode
    <3>3. MaxSlots(want[p]) \in Nat \ {0}
      BY <3>1, <3>2, SlotsThere DEF Mode
    <3>4. /\ slot[p] \in 0..(MaxSlots(want[p]) - 1)
          /\ start[p] \in 0..(MaxSlots(want[p]) - 1)
      BY <3>1, <3>2 DEF OnTrack
    <3>5. SlotsAhead(MaxSlots(want[p]), slot[p], start[p]) \in Nat
      BY <3>3, <3>4, SlotsAheadNatural
    <3> QED BY <2>3, <3>5 DEF TurnsLeft
  <2> QED BY <2>1, <2>2, <2>3
<1>4. PlanLeft(p) \in Nat
  BY SMT DEF PlanLeft
<1>5. LooksLeft(p) \in Nat
  <2>1. Overlapping(want[p]) \ DOMAIN snap[p] \in SUBSET Overlapping(want[p])
    OBVIOUS
  <2>2. Cardinality(Overlapping(want[p]) \ DOMAIN snap[p]) \in Nat
    BY <2>1, OverlappingFinite, FS_Subset, FS_CardinalityType
  <2> QED BY <2>2, SMT DEF LooksLeft
<1>6. LlcLocksLeft(p) \in Nat
  BY LlcsLeftFinite, FS_CardinalityType DEF LlcLocksLeft
<1>7. CpuLocksLeft(p) \in Nat
  <2>1. ncpus[p] \in 0..Len(Pins(p)) /\ Len(Pins(p)) \in Nat
    BY <1>1, PinsAreSeq DEF Owned, Pins
  <2>2. Len(Pins(p)) - ncpus[p] \in Nat
    BY <2>1, SMT
  <2> QED BY <2>2 DEF CpuLocksLeft
<1> QED BY <1>2, <1>3, <1>4, <1>5, <1>6, <1>7 DEF LeftIsNatural

\* A process that is not idle meets the guard of one of its steps.
LEMMA BusyGoesOn ==
    ASSUME IInv, Typed, NEW p \in Procs, OnTrack(p), pc[p] # "idle"
    PROVE  GoesOn(p)
<1>1. Control(p) /\ pc[p] \in PCs
  BY TypeOKParts DEF IInv, Typed, Walks
<1>2. CASE pc[p] \in {"slot", "running", "joining", "over", "no llc"}
  BY <1>2 DEF GoesOn
<1>3. CASE pc[p] = "discover"
  <2>1. DOMAIN snap[p] \subseteq Overlapping(want[p])
    BY <1>3 DEF OnTrack
  <2>2. \/ Overlapping(want[p]) \ DOMAIN snap[p] # {}
        \/ DOMAIN snap[p] = Overlapping(want[p])
    BY <2>1
  <2> QED BY <1>3, <2>2 DEF GoesOn
<1>4. CASE pc[p] = "built"
  <2>1. ASSUME Mode(p) = "default" PROVE 0..(MaxSlots(want[p]) - 1) # {}
    <3>1. want[p] \in Wants /\ want[p].mode \in Pinners
      BY <1>1, <2>1 DEF Control, Mode, Pinners
    <3>2. MaxSlots(want[p]) \in Nat \ {0}
      BY <3>1, SlotsThere
    <3>3. 0 \in 0..(MaxSlots(want[p]) - 1)
      BY <3>2, SMT
    <3> QED BY <3>3
  <2> QED BY <1>4, <2>1 DEF GoesOn
<1>5. CASE pc[p] \in Locking
  BY <1>5 DEF GoesOn, NextIsBusy
<1> QED BY <1>1, <1>2, <1>3, <1>4, <1>5 DEF PCs, Locking

\* Whatever the other processes hold, take and drop meanwhile, every step of an
\* attempt leaves less to do of what only this process changes: a walk over
\* slots passes each slot once, a lost race costs one of the retries of
\* acquire_llc_plan, and the locks of a plan are taken one after the other
\* (acquire_slot_with_locks, acquire_run_locks, try_acquire_all).  Only a kill
\* or a new request of the process itself sets this back.
AttemptsShrink ==
    [][\A p \in Procs : /\ Step(p) => LessLeft(p)
                        /\ Own(p)' # Own(p) => Build(p) \/ Step(p) \/ Crash(p)]_vars

\* AttemptsShrink holds for every host, all requests and any number of
\* processes: with AttemptsGoOn, the safety half of AttemptEnds.
THEOREM AttemptsAlwaysShrink == Spec => AttemptsShrink
<1> DEFINE A == \A p \in Procs :
                   /\ Step(p) => LessLeft(p)
                   /\ Own(p)' # Own(p) => Build(p) \/ Step(p) \/ Crash(p)
<1>1. ASSUME IInv, Typed, Tracks, [Next]_vars PROVE [A]_vars
  <2>1. ASSUME NEW p \in Procs, Step(p) PROVE LessLeft(p)
    BY <1>1, <2>1, StepShrinks DEF Tracks
  <2>2. ASSUME NEW q \in Procs, Build(q) \/ Step(q) \/ Crash(q),
               NEW p \in Procs, Own(p)' # Own(p)
        PROVE  Build(p) \/ Step(p) \/ Crash(p)
    BY <1>1, <2>2, OthersKeepTheirOwn
  <2>3. Next => A
    BY <2>1, <2>2 DEF Next
  <2> HIDE DEF A
  <2> QED BY <1>1, <2>3
<1>2. AttemptsShrink <=> [][A]_vars
  BY DEF AttemptsShrink
<1> HIDE DEF A
<1> QED BY <1>1, <1>2, ReservationInvariant, TypesInvariant, AlwaysOnTrack, PTL DEF Spec

\* A process in an attempt is never stuck, whoever holds the locks it wants: a
\* busy lock is a step too (flock with LOCK_NB).  And what AttemptsShrink counts
\* down are natural numbers, so an attempt has finitely many steps.
THEOREM AttemptsGoOn ==
    Spec => [](\A p \in Procs : LeftIsNatural(p) /\ (pc[p] # "idle" => GoesOn(p)))
<1>1. IInv /\ Typed /\ Tracks =>
        \A p \in Procs : LeftIsNatural(p) /\ (pc[p] # "idle" => GoesOn(p))
  BY LeftOverIsNatural, BusyGoesOn DEF Tracks
<1> QED BY <1>1, ReservationInvariant, TypesInvariant, AlwaysOnTrack, PTL
=============================================================================
