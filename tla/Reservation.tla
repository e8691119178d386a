----------------------------- MODULE Reservation -----------------------------
(***************************************************************************)
(* How concurrent ktstr processes reserve the host: advisory locks on the  *)
(* last-level caches (LLCs) and the CPUs, taken one at a time and never    *)
(* waited for.  A process builds a VM (or a kernel), runs it and ends.     *)
(*                                                                         *)
(*   perf     performance_mode: pinned, whole LLCs held exclusively        *)
(*   default  pinned, LLCs shared, every pinned CPU held exclusively       *)
(*   noperf   no_perf_mode: LLCs shared, planned under a CPU budget        *)
(*   kbuild   a kernel build: planned like noperf, the locks of the plan   *)
(*            kept until the build is over                                 *)
(*                                                                         *)
(* The plans of perf and noperf are made at build time under locks that    *)
(* are dropped at once; run() takes the same locks again.                  *)
(***************************************************************************)
EXTENDS Integers, FiniteSets, Sequences, Functions

CONSTANTS
    Procs,      \* processes
    LlcGroups,  \* [0..n-1 -> Seq(CPU)]: HostTopology::llc_groups
    OnlineCpus, \* Seq(CPU): HostTopology::online_cpus
    NodeLlcs,   \* the LLCs of the NUMA nodes 1, 2, ..., each a sequence in
                \* ascending order: HostTopology::host_node_llcs
    Distance,   \* [node \X node -> 10..255]: TestTopology::numa_distance
    Wants       \* what a process may be asked for

Llc == DOMAIN LlcGroups
CpusOf(l) == {LlcGroups[l][i] : i \in DOMAIN LlcGroups[l]}
NodeOf(l) ==
    CHOOSE n \in DOMAIN NodeLlcs : \E i \in DOMAIN NodeLlcs[n] : NodeLlcs[n][i] = l

\* LLCs are numbered from 0, and no CPU belongs to two of them.
ASSUME HostAssumption ==
    /\ IsFiniteSet(Llc) /\ Llc # {} /\ Llc = 0..(Cardinality(Llc) - 1)
    /\ \A l \in Llc : LlcGroups[l] \in Seq(CpusOf(l))
    /\ \A l, m \in Llc : l # m => CpusOf(l) \cap CpusOf(m) = {}

\* A host has its CPUs listed once (from_system reads them into a set), every
\* LLC on a NUMA node, and a distance between any two nodes.
ASSUME TopologyAssumption ==
    /\ IsFiniteSet(Procs)
    /\ \A l \in Llc : IsInjective(LlcGroups[l])
    /\ OnlineCpus \in Seq(Range(OnlineCpus)) /\ IsInjective(OnlineCpus)
    /\ NodeLlcs \in Seq(Range(NodeLlcs))
    /\ \A l \in Llc : \E n \in DOMAIN NodeLlcs : l \in Range(NodeLlcs[n])
    /\ \A m, n \in DOMAIN NodeLlcs : Distance[m, n] \in Nat

\* A pinned request names its LLCs, the vCPUs of each and the NUMA nodes; a
\* budgeted one its cap (0: none given) and the CPUs it is allowed on.
ASSUME WantAssumption ==
    \A w \in Wants :
        \/ /\ w.mode \in {"perf", "default"}
           /\ w.llcs \in Nat \ {0} /\ w.width \in Nat \ {0} /\ w.nodes \in Nat
        \/ /\ w.mode \in {"noperf", "kbuild"}
           /\ w.cap \in Nat /\ IsFiniteSet(w.allowed)

NumLlcs == Cardinality(Llc)
Least(S) == CHOOSE x \in S : \A y \in S : x <= y

Capped == {"noperf", "kbuild"}
AcquireMaxToctouRetries == 3

-----------------------------------------------------------------------------
(* compute_pinning: virtual LLC v of a request to a host LLC, its CPUs to   *)
(* the first ones of that LLC.                                              *)

numa_aware_llc_order(w, offset) ==
    LET base     == w.llcs \div w.nodes
        rest     == w.llcs % w.nodes
        most     == base + IF rest > 0 THEN 1 ELSE 0
        Enough(s) == Len(s) >= most
        eligible == SelectSeq(NodeLlcs, Enough)
        \* guest node of the v-th virtual LLC, and its place there
        Guest(v) == IF v <= rest * (base + 1)
                    THEN (v - 1) \div (base + 1)
                    ELSE rest + ((v - 1 - rest * (base + 1)) \div base)
        Place(v) == v - 1 - Guest(v) * base
                          - IF Guest(v) < rest THEN Guest(v) ELSE rest
        Host(v)  == eligible[((Guest(v) + (offset \div most)) % Len(eligible)) + 1]
    IN  IF w.nodes <= 1 \/ w.llcs < w.nodes \/ Len(eligible) < w.nodes
        THEN [v \in 1..w.llcs |-> (v - 1 + offset) % NumLlcs]
        ELSE [v \in 1..w.llcs |->
                Host(v)[((Place(v) + (offset % Len(Host(v)))) % Len(Host(v))) + 1]]

\* How many virtual LLCs before v sit on the same host LLC: their CPUs are used.
Before(order, v) == Cardinality({u \in 1..(v - 1) : order[u] = order[v]})

assignments(w, order) ==
    [k \in 1..(w.llcs * w.width) |->
        LET v == ((k - 1) \div w.width) + 1
        IN  LlcGroups[order[v]][Before(order, v) * w.width
                                  + ((k - 1) % w.width) + 1]]

\* The error returns of compute_pinning, but for the service CPU.
Fits(w, service, order) ==
    /\ w.llcs * w.width + service <= Len(OnlineCpus)
    /\ w.llcs <= NumLlcs
    /\ \A v \in 1..w.llcs :
         /\ order[v] \in Llc
         /\ Len(LlcGroups[order[v]]) >= (Before(order, v) + 1) * w.width

\* The service CPU is the first online one that no vCPU is pinned to.
Pinning(w, service, order) ==
    LET pins == assignments(w, order)
        used == {pins[k] : k \in DOMAIN pins}
        free == {i \in DOMAIN OnlineCpus : OnlineCpus[i] \notin used}
    IN  [llcs    |-> {order[v] : v \in 1..w.llcs},
         cpus    |-> used,
         pins    |-> pins,
         service |-> IF service = 1 THEN <<OnlineCpus[Least(free)]>> ELSE <<>>]

-----------------------------------------------------------------------------
(* acquire_llc_plan: LLCs under a CPU budget, from the holders seen.  snap  *)
(* maps the LLCs with an allowed CPU to the number of their holders.        *)

Budget(w) ==
    IF w.cap > 0 THEN w.cap
    ELSE LET third == (Cardinality(w.allowed) * 30 + 99) \div 100
         IN  IF third > 0 THEN third ELSE 1

AllowedOf(w, l) == CpusOf(l) \cap w.allowed
Overlapping(w) == {l \in Llc : AllowedOf(w, l) # {}}

\* The order of the greedy walk: nodes by distance from the node of the best
\* LLC, on a node the LLC with most holders first, then the lower index.
Ranked(snap, a, b) == snap[a] > snap[b] \/ (snap[a] = snap[b] /\ a < b)
Seed(snap) ==
    CHOOSE s \in DOMAIN snap : \A b \in DOMAIN snap \ {s} : Ranked(snap, s, b)
WalkedBefore(snap, a, b) ==
    LET Far(l) == Distance[NodeOf(Seed(snap)), NodeOf(l)]
    IN  IF NodeOf(a) = NodeOf(b) THEN Ranked(snap, a, b)
        ELSE Far(a) < Far(b) \/ (Far(a) = Far(b) /\ NodeOf(a) < NodeOf(b))

\* Mutant: whole LLCs are counted, CPUs that are not allowed included.
GreedyWalkWholeLlcs(w, snap) ==
    {a \in DOMAIN snap :
        Cardinality(UNION {CpusOf(b) :
                        b \in {c \in DOMAIN snap : WalkedBefore(snap, c, a)}})
          < Budget(w)}

\* LLCs are taken while those before them do not fill the budget.
GreedyWalk(w, snap) ==
    {a \in DOMAIN snap :
        Cardinality(UNION {AllowedOf(w, b) :
                        b \in {c \in DOMAIN snap : WalkedBefore(snap, c, a)}})
          < Budget(w)}

\* The short cut for a budget that takes everything runs over the positions
\* 0..len-1 of the snapshot vector and reads them as LLC indices.
plan_from_snapshots(w, snap) ==
    LET positions == 0..(Cardinality(DOMAIN snap) - 1)
        total     == Cardinality(UNION {AllowedOf(w, i) : i \in positions})
    IN  IF Budget(w) >= total
        THEN {i \in positions : AllowedOf(w, i) # {}}
        ELSE GreedyWalk(w, snap)

\* The first Budget(w) allowed CPUs of the selected LLCs, by index.
FirstCpus(w, selected) ==
    LET Earlier(l, i) ==
            (UNION {AllowedOf(w, m) : m \in {k \in selected : k < l}})
              \cup ({LlcGroups[l][j] : j \in 1..(i - 1)} \cap w.allowed)
    IN  UNION {{LlcGroups[l][i] :
                    i \in {j \in DOMAIN LlcGroups[l] :
                             /\ LlcGroups[l][j] \in w.allowed
                             /\ Cardinality(Earlier(l, j)) < Budget(w)}} :
                l \in selected}

BudgetPlan(w, selected) ==
    [llcs |-> selected, cpus |-> FirstCpus(w, selected),
     pins |-> <<>>, service |-> <<>>]

-----------------------------------------------------------------------------
VARIABLES
    pc,      \* where each process is
    want,    \* its request
    slot,    \* the LLC slot it tries, of a walk that began at start
    start,
    snap,    \* holders seen by discover_llc_snapshots so far
    tries,   \* attempts of acquire_llc_plan that lost a race
    plan,    \* PinningPlan or LlcPlan
    llcs,    \* LLC locks held: the fds in `locks`, exclusive for perf
    ncpus    \* CPU locks held: the first ncpus of plan.pins and plan.service

vars == <<pc, want, slot, start, snap, tries, plan, llcs, ncpus>>

NoWant == [mode |-> "none"]
NoPlan == [llcs |-> {}, cpus |-> {}, pins |-> <<>>, service |-> <<>>]
NoSnap == [l \in {} |-> 0]

Init ==
    /\ pc = [p \in Procs |-> "idle"]
    /\ want = [p \in Procs |-> NoWant]
    /\ slot = [p \in Procs |-> 0]
    /\ start = [p \in Procs |-> 0]
    /\ snap = [p \in Procs |-> NoSnap]
    /\ tries = [p \in Procs |-> 0]
    /\ plan = [p \in Procs |-> NoPlan]
    /\ llcs = [p \in Procs |-> {}]
    /\ ncpus = [p \in Procs |-> 0]

Mode(p) == want[p].mode
GoTo(p, where) == pc' = [pc EXCEPT ![p] = where]
DropLocks(p) ==
    /\ llcs' = [llcs EXCEPT ![p] = {}]
    /\ ncpus' = [ncpus EXCEPT ![p] = 0]

-----------------------------------------------------------------------------
(* build() *)

MaxSlots(w) == IF NumLlcs \div w.llcs > 0 THEN NumLlcs \div w.llcs ELSE 1
PerfNeeds(w) ==
    Cardinality(UNION {CpusOf(l) : l \in {m \in Llc : m < w.llcs}}) + 1

\* The first checks of each mode; default leaves everything to run().
Build(p) ==
    /\ pc[p] = "idle"
    /\ \E w \in Wants :
        /\ want' = [want EXCEPT ![p] = w]
        /\ GoTo(p, CASE w.mode = "perf" ->
                          IF PerfNeeds(w) > Len(OnlineCpus) THEN "over" ELSE "slot"
                     [] w.mode \in Capped ->
                          IF w.allowed = {} \/ w.cap > Cardinality(w.allowed)
                          THEN "over" ELSE "discover"
                     [] OTHER -> "built")
    /\ UNCHANGED <<slot, start, snap, tries, plan, llcs, ncpus>>

\* One LLC of discover_llc_snapshots: who holds its lock is read from
\* /proc/locks, one lock file after the other and without a lock.
Discover(p) ==
    /\ pc[p] = "discover"
    /\ LET left == Overlapping(want[p]) \ DOMAIN snap[p]
           l    == Least(left)
           seen == Cardinality({q \in Procs : l \in llcs[q]})
       IN  /\ left # {}
           /\ snap' = [snap EXCEPT ![p] =
                [m \in DOMAIN snap[p] \cup {l} |->
                    IF m = l THEN seen ELSE snap[p][m]]]
    /\ UNCHANGED <<pc, want, slot, start, tries, plan, llcs, ncpus>>

\* plan_from_snapshots, and the error when it selects nothing.
MakePlan(p) ==
    /\ pc[p] = "discover"
    /\ DOMAIN snap[p] = Overlapping(want[p])
    /\ LET selected == plan_from_snapshots(want[p], snap[p])
       IN  IF selected = {}
           THEN GoTo(p, "no llc") /\ UNCHANGED plan
           ELSE /\ GoTo(p, "lock")
                /\ plan' = [plan EXCEPT ![p] = BudgetPlan(want[p], selected)]
    /\ snap' = [snap EXCEPT ![p] = NoSnap]
    /\ UNCHANGED <<want, slot, start, tries, llcs, ncpus>>

-----------------------------------------------------------------------------
(* The walk over LLC slots: acquire_slot_with_locks for perf, when building, *)
(* the last branch of acquire_run_locks for default.                         *)

NextSlot(p) ==
    LET next == (slot[p] + 1) % MaxSlots(want[p])
    IN  IF next = start[p]
        THEN GoTo(p, "over") /\ UNCHANGED slot
        ELSE GoTo(p, "slot") /\ slot' = [slot EXCEPT ![p] = next]

TrySlot(p) ==
    /\ pc[p] = "slot"
    /\ LET w       == want[p]
           service == IF w.mode = "perf" THEN 1 ELSE 0
           order   == numa_aware_llc_order(w, slot[p] * w.llcs)
       IN  IF Fits(w, service, order)
           THEN /\ plan' = [plan EXCEPT ![p] = Pinning(w, service, order)]
                /\ GoTo(p, "lock")
                /\ UNCHANGED slot
           ELSE /\ IF w.mode = "perf" THEN GoTo(p, "over") /\ UNCHANGED slot
                                      ELSE NextSlot(p)
                /\ UNCHANGED plan
    /\ UNCHANGED <<want, start, snap, tries, llcs, ncpus>>

-----------------------------------------------------------------------------
(* Taking the locks of a plan: try_acquire_all, try_acquire_llc_plan_locks.  *)

Locking == {"lock", "relock"}
Pins(p) == plan[p].pins \o plan[p].service
LlcsLeft(p) == plan[p].llcs \ llcs[p]
CpusLeft(p) == Mode(p) # "perf" /\ ncpus[p] < Len(Pins(p))
CpusHeld(p) == {Pins(p)[i] : i \in 1..ncpus[p]}

\* Mutant: an exclusive request does not see shared holders.
LlcBusyExclusiveOnly(p, l) ==
    \E q \in Procs \ {p} : l \in llcs[q] /\ Mode(q) = "perf"

\* Mutant: CPU locks are taken shared.
CpuBusyShared(p, c) == FALSE

\* flock(LOCK_NB): exclusive against any holder, shared against an exclusive one.
LlcBusy(p, l) ==
    \E q \in Procs \ {p} :
        l \in llcs[q] /\ (Mode(p) = "perf" \/ Mode(q) = "perf")
CpuBusy(p, c) == \E q \in Procs \ {p} : c \in CpusHeld(q)

LockLlc(p) ==
    /\ pc[p] \in Locking /\ LlcsLeft(p) # {}
    /\ ~LlcBusy(p, Least(LlcsLeft(p)))
    /\ llcs' = [llcs EXCEPT ![p] = @ \cup {Least(LlcsLeft(p))}]
    /\ UNCHANGED <<pc, want, slot, start, snap, tries, plan, ncpus>>

LockCpu(p) ==
    /\ pc[p] \in Locking /\ LlcsLeft(p) = {} /\ CpusLeft(p)
    /\ ~CpuBusy(p, Pins(p)[ncpus[p] + 1])
    /\ ncpus' = [ncpus EXCEPT ![p] = @ + 1]
    /\ UNCHANGED <<pc, want, slot, start, snap, tries, plan, llcs>>

NextIsBusy(p) ==
    \/ LlcsLeft(p) # {} /\ LlcBusy(p, Least(LlcsLeft(p)))
    \/ LlcsLeft(p) = {} /\ CpusLeft(p) /\ CpuBusy(p, Pins(p)[ncpus[p] + 1])

\* Mutant: a lost race is not counted.
TryElsewhereUncounted(p) ==
    \/ pc[p] = "relock" /\ GoTo(p, "over") /\ UNCHANGED <<slot, tries>>
    \/ /\ pc[p] = "lock" /\ Mode(p) \in Capped
       /\ GoTo(p, "discover") /\ UNCHANGED <<slot, tries>>
    \/ pc[p] = "lock" /\ Mode(p) \notin Capped /\ NextSlot(p) /\ UNCHANGED tries

\* Slots go on to the next one, a budget plan to a new discovery; the second
\* taking, at run(), gives up.
TryElsewhere(p) ==
    \/ pc[p] = "relock" /\ GoTo(p, "over") /\ UNCHANGED <<slot, tries>>
    \/ /\ pc[p] = "lock" /\ Mode(p) \in Capped
       /\ IF tries[p] < AcquireMaxToctouRetries
          THEN GoTo(p, "discover") /\ tries' = [tries EXCEPT ![p] = @ + 1]
          ELSE GoTo(p, "over") /\ UNCHANGED tries
       /\ UNCHANGED slot
    \/ pc[p] = "lock" /\ Mode(p) \notin Capped /\ NextSlot(p) /\ UNCHANGED tries

\* Mutant: the locks taken before the busy one stay held.
BusyKeepsLocks(p) ==
    /\ pc[p] \in Locking /\ NextIsBusy(p)
    /\ TryElsewhere(p)
    /\ UNCHANGED <<want, start, snap, plan, llcs, ncpus>>

\* One busy lock drops all that are held.
Busy(p) ==
    /\ pc[p] \in Locking /\ NextIsBusy(p)
    /\ DropLocks(p)
    /\ TryElsewhere(p)
    /\ UNCHANGED <<want, start, snap, plan>>

\* All are held.  build() strips the locks from the plan of perf and noperf.
Locked(p) ==
    /\ pc[p] \in Locking /\ LlcsLeft(p) = {} /\ ~CpusLeft(p)
    /\ IF pc[p] = "lock" /\ Mode(p) \in {"perf", "noperf"}
       THEN GoTo(p, "built") /\ DropLocks(p)
       ELSE GoTo(p, "running") /\ UNCHANGED <<llcs, ncpus>>
    /\ UNCHANGED <<want, slot, start, snap, tries, plan>>

-----------------------------------------------------------------------------
(* run() *)

\* acquire_run_locks: the stored plan again, or a walk from a slot that
\* depends on the pid.
Run(p) ==
    /\ pc[p] = "built"
    /\ IF Mode(p) = "default"
       THEN \E s \in 0..(MaxSlots(want[p]) - 1) :
                /\ slot' = [slot EXCEPT ![p] = s]
                /\ start' = [start EXCEPT ![p] = s]
                /\ GoTo(p, "slot")
       ELSE GoTo(p, "relock") /\ UNCHANGED <<slot, start>>
    /\ UNCHANGED <<want, snap, tries, plan, llcs, ncpus>>

\* run_vm returns and the locks are dropped; collect_results has yet to join
\* the vCPU threads.  A kernel build drops them when it is over.
Finish(p) ==
    /\ pc[p] = "running"
    /\ DropLocks(p)
    /\ GoTo(p, IF Mode(p) = "kbuild" THEN "over" ELSE "joining")
    /\ UNCHANGED <<want, slot, start, snap, tries, plan>>

Reset(p) ==
    /\ GoTo(p, "idle")
    /\ want' = [want EXCEPT ![p] = NoWant]
    /\ slot' = [slot EXCEPT ![p] = 0]
    /\ start' = [start EXCEPT ![p] = 0]
    /\ snap' = [snap EXCEPT ![p] = NoSnap]
    /\ tries' = [tries EXCEPT ![p] = 0]
    /\ plan' = [plan EXCEPT ![p] = NoPlan]
    /\ DropLocks(p)

\* The process is through: threads joined, or contention reported.  The test
\* runner starts it again as it sees fit.
Exit(p) == pc[p] \in {"joining", "over", "no llc"} /\ Reset(p)

\* The process is killed; the kernel closes its lock files.
Crash(p) == pc[p] # "idle" /\ Reset(p)

Step(p) ==
    \/ Discover(p) \/ MakePlan(p) \/ TrySlot(p)
    \/ LockLlc(p) \/ LockCpu(p) \/ Busy(p) \/ Locked(p)
    \/ Run(p) \/ Finish(p) \/ Exit(p)

Next == \E p \in Procs : Build(p) \/ Step(p) \/ Crash(p)

Spec == Init /\ [][Next]_vars

\* Every process is scheduled, every VM ends (its watchdog sees to that) and
\* every kernel build ends; nobody need start one.  Step(p) is enabled exactly
\* when p is not idle, and only p changes what is p's: this is weak fairness of
\* Step(p), in a form that does not evaluate the plans once more.
Own(p) == <<pc[p], want[p], slot[p], start[p], snap[p], tries[p], plan[p],
            llcs[p], ncpus[p]>>
Scheduled(p) == []<>(pc[p] = "idle") \/ []<><<Own(p)' # Own(p)>>_vars
FairSpec == Spec /\ \A p \in Procs : Scheduled(p)

-----------------------------------------------------------------------------
(* Properties *)

Plans == [llcs : SUBSET Llc, cpus : SUBSET UNION {CpusOf(l) : l \in Llc},
          pins : Seq(UNION {CpusOf(l) : l \in Llc}),
          service : Seq({OnlineCpus[i] : i \in 1..Len(OnlineCpus)})]

\* The variables have their types, and no process holds a lock that its plan
\* does not name.
TypeOK ==
    /\ pc \in [Procs -> {"idle", "slot", "discover", "lock", "built", "relock",
                         "running", "joining", "over", "no llc"}]
    /\ want \in [Procs -> Wants \cup {NoWant}]
    /\ slot \in [Procs -> Nat] /\ start \in [Procs -> Nat]
    /\ tries \in [Procs -> 0..AcquireMaxToctouRetries]
    /\ \A p \in Procs : /\ DOMAIN snap[p] \subseteq Llc
                        /\ plan[p] \in Plans
                        /\ llcs[p] \subseteq plan[p].llcs
                        /\ ncpus[p] \in 0..Len(Pins(p))

\* While a performance_mode VM runs, no CPU of its LLCs carries a vCPU of
\* another running VM or a job of a kernel build, although every one of them
\* made its plan without the locks it runs under (acquire_run_locks,
\* try_acquire_all: the exclusive LLC lock stands in for the CPU locks).
PerfIsAlone ==
    \A p, q \in Procs :
        /\ p # q /\ pc[p] = "running" /\ pc[q] = "running"
        /\ Mode(p) = "perf"
        => \A l \in plan[p].llcs : CpusOf(l) \cap plan[q].cpus = {}

\* A CPU is pinned by one running VM at most, whichever locks, LLC or CPU,
\* the two VMs rely on (try_acquire_all).
PinnedOnce ==
    \A p, q \in Procs :
        /\ p # q /\ pc[p] = "running" /\ pc[q] = "running"
        /\ Mode(p) \in {"perf", "default"} /\ Mode(q) \in {"perf", "default"}
        => plan[p].cpus \cap plan[q].cpus = {}

\* A budget plan has exactly as many CPUs as were asked for, all of them
\* allowed, whatever the holders seen, and is not refused while some LLC has
\* an allowed CPU (acquire_llc_plan_with_acquire_fn, LlcPlan::cpus).
PlanIsExact ==
    \A p \in Procs :
        Mode(p) \in Capped =>
            /\ pc[p] \in {"lock", "built", "relock", "running", "joining"}
                 => /\ Cardinality(plan[p].cpus) = Budget(want[p])
                    /\ plan[p].cpus \subseteq want[p].allowed
            /\ pc[p] = "no llc" => Overlapping(want[p]) = {}

\* The requests it can be promised for.  The allowed CPUs are CPUs of some LLC,
\* or none is; and where the budget takes the short cut of plan_from_snapshots,
\* the LLCs with an allowed CPU are the first of the host.
Regular(w) ==
    LET cpus      == UNION {CpusOf(l) : l \in Llc}
        positions == 0..(Cardinality(Overlapping(w)) - 1)
    IN  /\ w.allowed \subseteq cpus \/ w.allowed \cap cpus = {}
        /\ \/ positions = Overlapping(w)
           \/ Budget(w) < Cardinality(UNION {AllowedOf(w, i) : i \in positions})

\* Whatever the other processes hold, take and drop meanwhile, an attempt
\* comes to an end: the walks over slots and the repeated discoveries are
\* bounded and nobody waits for a lock.
AttemptEnds == \A p \in Procs : pc[p] # "idle" ~> pc[p] = "idle"
=============================================================================
