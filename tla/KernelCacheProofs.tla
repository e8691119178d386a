-------------------------- MODULE KernelCacheProofs --------------------------
(***************************************************************************)
(* Theorems about KernelCache, for any set of processes, keys, builds and  *)
(* directories and any number of calls.                                    *)
(*                                                                         *)
(* Two facts carry the argument.  Directories do not alias: no two names   *)
(* hold the same one, a directory without a name is empty, and the one a   *)
(* store fills is held open by nobody.  And each name has one writer: a    *)
(* staging name belongs to its pid for as long as that lives, an entry to  *)
(* the holder of the exclusive lock, but for the removal by a clean.       *)
(***************************************************************************)
EXTENDS KernelCache, TLAPS

StagePcs == {"image", "vmlinux", "metadata", "rename", "swap"}
HoldPcs  == {"recheck", "recheckimg", "clear", "sweep", "drop"} \cup StagePcs
StorePcs == HoldPcs \cup {"lockex"}
TestPcs  == {"look", "lookimg", "locksh", "boot", "syms", "unlock", "reboot", "resyms", "over"}

JobOK(p) ==
    /\ pc[p] \in StorePcs => job[p] \in Stores
    /\ pc[p] \in TestPcs => job[p] \in Tests

\* A store past StoreLock is alone on its key; a test holds LOCK_SH while its
\* first VM runs.
LockOK(p) ==
    /\ pc[p] \in HoldPcs => ex[job[p].key] = {p}
    /\ pc[p] \in {"boot", "syms", "unlock"} => p \in sh[job[p].key]
Exclusive == \A k \in Keys : ex[k] # {} => sh[k] = {}

\* A sweep visits staging names and removes those of dead pids; a clean
\* visits entries.
VisitOK(p) ==
    /\ target[p] # NoName => pc[p] \in {"sweep", "clean", "unlink"}
    /\ pc[p] = "sweep" =>
         /\ todo[p] \subseteq Staging
         /\ target[p] # NoName => target[p] \in Staging /\ Dead(target[p][2])
    /\ pc[p] \in {"clean", "unlink"} => \A n \in todo[p] : n[2] = Final
    /\ pc[p] = "unlink" => target[p] \in Names /\ target[p][2] = Final

TreeOK ==
    /\ \A m, n \in Names : at[m] = at[n] /\ at[m] # NoDir => m = n
    /\ \A d \in Dirs : (\A n \in Names : at[n] # d) => dir[d] = Empty
OpenOK(q) == open[q] # NoDir => \A n \in Names : at[n] = open[q] => open[q] \in opened

\* What the staging directory holds at each step, and that it is p's alone.
Staged(p) ==
    LET d == at[Tmp(p)] j == job[p]
    IN  /\ d # NoDir
        /\ dir[d].img = IF pc[p] = "image" THEN NoFile ELSE j.build
        /\ dir[d].vml = IF j.vml /\ pc[p] \notin {"image", "vmlinux"}
                        THEN j.build ELSE NoFile
        /\ dir[d].meta = IF pc[p] \in {"rename", "swap"}
                         THEN [build |-> j.build, vml |-> j.vml] ELSE NoMeta
        /\ \A q \in Procs : open[q] # d
StageOK(p) ==
    /\ pc[p] = "sweep" => at[Tmp(p)] = NoDir
    /\ pc[p] \in StagePcs => Staged(p)

\* An entry is of one build, even one that is being removed.
EntryOK(k) ==
    LET d == at[Entry(k)]
    IN  d # NoDir => /\ Whole(d) \/ d \in opened
                     /\ dir[d].img # NoFile /\ dir[d].vml # NoFile => dir[d].img = dir[d].vml

\* A process reads symbols once, and those of the entry it has booted.
Warm == {"unlock", "reboot", "resyms", "over", "done"}
VmOK(p) ==
    /\ pc[p] \notin Warm => \A k \in Keys : cache[p][k] = NoFile
    /\ pc[p] = "syms" =>
         /\ vm[p].vml = NoFile
         /\ LET d == at[Entry(job[p].key)]
            IN  d # NoDir /\ dir[d].vml # NoFile => dir[d].vml = vm[p].img
    /\ pc[p] = "unlock" /\ vm[p].vml # NoFile => vm[p].vml = vm[p].img

Jobs     == \A p \in Procs : JobOK(p)
Locks    == Exclusive /\ \A p \in Procs : LockOK(p)
Visits   == \A p \in Procs : VisitOK(p)
Opens    == \A p \in Procs : OpenOK(p)
Stages   == \A p \in Procs : StageOK(p)
Entries  == \A k \in Keys : EntryOK(k)
Vms      == \A p \in Procs : VmOK(p)

Inv == TypeOK /\ Jobs /\ Locks /\ Visits /\ TreeOK /\ Opens /\ Stages /\ Entries /\ Vms

-----------------------------------------------------------------------------
\* Most leaves are first-order; those that need more say so.
USE Zenon

\* The cache is empty and every process idle initially.
LEMMA InitInv == Init => Inv
<1> SUFFICES ASSUME Init PROVE Inv
  OBVIOUS
<1>1. TypeOK
  BY NamesAssumption DEF Init, TypeOK, Empty, NoMeta, NoVm, Metas
<1>2. Jobs
  BY DEF Init, Jobs, JobOK, StorePcs, HoldPcs, StagePcs, TestPcs
<1>3. Locks
  BY DEF Init, Locks, LockOK, Exclusive, HoldPcs, StagePcs
<1>4. Visits
  BY DEF Init, Visits, VisitOK
<1>5. TreeOK /\ Opens
  BY DEF Init, TreeOK, Opens, OpenOK
<1>6. Stages
  BY DEF Init, Stages, StageOK, StagePcs
<1>7. Entries
  <2>1. \A k \in Keys : Entry(k) \in Names
    BY DEF Entry, Names
  <2> QED
    BY <2>1 DEF Init, Entries, EntryOK
<1>8. Vms
  BY DEF Init, Vms, VmOK
<1> QED
  BY <1>1, <1>2, <1>3, <1>4, <1>5, <1>6, <1>7, <1>8 DEF Inv

\* A step of p leaves the other processes where they are.
Others(p) == \A q \in Procs \ {p} :
    /\ pc'[q] = pc[q] /\ job'[q] = job[q] /\ todo'[q] = todo[q] /\ target'[q] = target[q]
    /\ open'[q] = open[q] /\ vm'[q] = vm[q] /\ cache'[q] = cache[q]

Step(p) == Store(p) \/ Test(p) \/ Clean(p) \/ Exit(p) \/ Spawn(p)

\* A step of p changes no local state of another process.
LEMMA StepOfOne ==
    ASSUME TypeOK, NEW p \in Procs, Step(p)
    PROVE  Others(p)
<1> USE DEF TypeOK, Others, Goto, Return, local, kept, tree, locks
<1>1. CASE StoreCall(p) \/ StoreLock(p) \/ StoreRecheckMeta(p) \/ StoreRecheckImage(p)
  BY <1>1, SMT DEF StoreCall, StoreLock, StoreRecheckMeta, StoreRecheckImage, LookupMeta
<1>2. CASE StoreClear(p) \/ SweepProbe(p) \/ SweepRemove(p) \/ StoreStage(p)
  BY <1>2, SMT DEF StoreClear, SweepProbe, SweepRemove, StoreStage
<1>3. CASE StoreImage(p) \/ StoreVmlinux(p) \/ StoreMetadata(p)
  BY <1>3, SMT DEF StoreImage, StoreVmlinux, StoreMetadata
<1>4. CASE StoreRename(p) \/ StoreSwap(p) \/ StoreFails(p) \/ StoreDrop(p)
  BY <1>4, SMT DEF StoreRename, StoreSwap, StoreFails, StoreDrop
<1>5. CASE TestCall(p) \/ TestLookMeta(p) \/ TestLookImage(p) \/ TestLock(p)
  BY <1>5, SMT DEF TestCall, TestLookMeta, TestLookImage, TestLock, LookupMeta
<1>6. CASE TestBoot(p) \/ TestSymbols(p) \/ TestUnlock(p)
  BY <1>6, SMT DEF TestBoot, TestSymbols, TestUnlock
<1>7. CASE Clean(p)
  BY <1>7, SMT DEF Clean, CleanCall, CleanOpen, CleanUnlink, CleanRmdir, CleanOver
<1>8. CASE Exit(p) \/ Spawn(p)
  BY <1>8, SMT DEF Exit, Spawn
<1> QED
  BY <1>1, <1>2, <1>3, <1>4, <1>5, <1>6, <1>7, <1>8 DEF Step, Store, Test

-----------------------------------------------------------------------------
(* Names and types *)

\* Entry names and staging names are disjoint.
LEMMA NameFacts ==
    ASSUME NEW k \in Keys, NEW p \in Procs
    PROVE  /\ Entry(k) \in Names /\ <<k, p>> \in Names /\ <<k, p>> \in Staging
           /\ Entry(k)[2] = Final /\ <<k, p>>[2] = p /\ Entry(k) # <<k, p>>
           /\ \A n \in Staging : n \in Names /\ n[2] \in Procs
           /\ \A n \in Staging, l \in Keys : n # Entry(l)
  BY NamesAssumption, SMT DEF Entry, Names, Staging

\* The staging name of a store is its own pid under its key.
LEMMA TmpName ==
    ASSUME Jobs, NEW p \in Procs, pc[p] \in StorePcs
    PROVE  /\ job[p] \in Stores /\ job[p].key \in Keys
           /\ Tmp(p) = <<job[p].key, p>> /\ Tmp(p) \in Names /\ Tmp(p) \in Staging /\ Tmp(p)[2] = p
           /\ Entry(job[p].key) \in Names /\ Tmp(p) # Entry(job[p].key)
<1>1. job[p] \in Stores /\ job[p].key \in Keys
  BY DEF Jobs, JobOK, Stores
<1> QED
  BY <1>1, NameFacts DEF Tmp

EntryType == [img : Builds \cup {NoFile}, vml : Builds \cup {NoFile}, meta : Metas \cup {NoMeta}]

\* Removing a tree keeps the types of the tree.
LEMMA RemoveType ==
    ASSUME TypeOK, NEW n \in Names, RemoveTree(n)
    PROVE  /\ at' \in [Names -> Dirs \cup {NoDir}] /\ dir' \in [Dirs -> EntryType]
           /\ opened' \subseteq Dirs
  BY DEF TypeOK, RemoveTree, EntryType, Empty, NoMeta

\* The types, variable by variable.
PcType   == {"idle", "dead", "lockex", "recheck", "recheckimg", "clear", "sweep",
             "image", "vmlinux", "metadata", "rename", "swap", "drop",
             "look", "lookimg", "locksh", "boot", "syms", "unlock", "reboot",
             "resyms", "over", "done", "clean", "unlink"}
JobType  == Stores \cup Tests \cup {NoJob}
MetaType == Metas \cup {NoMeta}
FileType == Builds \cup {NoFile}
VmType   == [img : FileType, vml : FileType]
TreeTypes == at \in [Names -> Dirs \cup {NoDir}] /\ dir \in [Dirs -> EntryType] /\ opened \subseteq Dirs
PcTypes   == pc \in [Procs -> PcType]
CallTypes == job \in [Procs -> JobType] /\ seen \in [Procs -> MetaType] /\ calls \in Nat
LockTypes == ex \in [Keys -> SUBSET Procs] /\ sh \in [Keys -> SUBSET Procs]
VmTypes   == vm \in [Procs -> VmType] /\ cache \in [Procs -> [Keys -> FileType]]
VisitTypes ==
    /\ todo \in [Procs -> SUBSET Names]
    /\ target \in [Procs -> Names \cup {NoName}]
    /\ open \in [Procs -> Dirs \cup {NoDir}]
OpenTypes == \A p \in Procs : (pc[p] = "unlink") <=> (open[p] # NoDir)

\* TypeOK, part by part.
LEMMA Types ==
    TypeOK <=> TreeTypes /\ PcTypes /\ CallTypes /\ LockTypes /\ VmTypes /\ VisitTypes /\ OpenTypes
  BY DEF TypeOK, TreeTypes, PcTypes, CallTypes, LockTypes, VmTypes, VisitTypes, OpenTypes,
     PcType, JobType, MetaType, VmType, FileType, EntryType

\* Types: program counters.
LEMMA PcStep ==
    ASSUME Inv, NEW p \in Procs, Step(p)
    PROVE  PcTypes'
<1>0. PcTypes
  BY Types DEF Inv
<1> USE DEF PcTypes, PcType, Goto, Return, local
<1>1. CASE StoreCall(p) \/ StoreLock(p) \/ StoreRecheckMeta(p) \/ StoreRecheckImage(p)
  BY <1>0, <1>1, SMT DEF StoreCall, StoreLock, StoreRecheckMeta, StoreRecheckImage, LookupMeta
<1>2. CASE StoreClear(p) \/ SweepProbe(p) \/ SweepRemove(p) \/ StoreStage(p)
  BY <1>0, <1>2, SMT DEF StoreClear, SweepProbe, SweepRemove, StoreStage
<1>3. CASE StoreImage(p) \/ StoreVmlinux(p) \/ StoreMetadata(p)
  BY <1>0, <1>3, SMT DEF StoreImage, StoreVmlinux, StoreMetadata
<1>4. CASE StoreRename(p) \/ StoreSwap(p) \/ StoreFails(p) \/ StoreDrop(p)
  BY <1>0, <1>4, SMT DEF StoreRename, StoreSwap, StoreFails, StoreDrop
<1>5. CASE TestCall(p) \/ TestLookMeta(p) \/ TestLookImage(p) \/ TestLock(p)
  BY <1>0, <1>5, SMT DEF TestCall, TestLookMeta, TestLookImage, TestLock, LookupMeta
<1>6. CASE TestBoot(p) \/ TestSymbols(p) \/ TestUnlock(p)
  BY <1>0, <1>6, SMT DEF TestBoot, TestSymbols, TestUnlock
<1>7. CASE Clean(p)
  BY <1>0, <1>7, SMT DEF Clean, CleanCall, CleanOpen, CleanUnlink, CleanRmdir, CleanOver
<1>8. CASE Exit(p) \/ Spawn(p)
  BY <1>0, <1>8, SMT DEF Exit, Spawn
<1> QED
  BY <1>1, <1>2, <1>3, <1>4, <1>5, <1>6, <1>7, <1>8 DEF Step, Store, Test

\* Types: lock holders.
LEMMA LockTypesStep ==
    ASSUME Inv, NEW p \in Procs, Step(p)
    PROVE  LockTypes'
<1>0. LockTypes
  BY Types DEF Inv
<1> USE DEF LockTypes, locks
<1>1. CASE StoreCall(p) \/ StoreLock(p) \/ StoreRecheckMeta(p) \/ StoreRecheckImage(p)
  BY <1>0, <1>1, SMT DEF StoreCall, StoreLock, StoreRecheckMeta, StoreRecheckImage, LookupMeta
<1>2. CASE StoreClear(p) \/ SweepProbe(p) \/ SweepRemove(p) \/ StoreStage(p)
  BY <1>0, <1>2, SMT DEF StoreClear, SweepProbe, SweepRemove, StoreStage
<1>3. CASE StoreImage(p) \/ StoreVmlinux(p) \/ StoreMetadata(p)
  BY <1>0, <1>3, SMT DEF StoreImage, StoreVmlinux, StoreMetadata
<1>4. CASE StoreRename(p) \/ StoreSwap(p) \/ StoreFails(p) \/ StoreDrop(p)
  BY <1>0, <1>4, SMT DEF StoreRename, StoreSwap, StoreFails, StoreDrop
<1>5. CASE TestCall(p) \/ TestLookMeta(p) \/ TestLookImage(p) \/ TestLock(p)
  BY <1>0, <1>5, SMT DEF TestCall, TestLookMeta, TestLookImage, TestLock, LookupMeta
<1>6. CASE TestBoot(p) \/ TestSymbols(p) \/ TestUnlock(p)
  BY <1>0, <1>6, SMT DEF TestBoot, TestSymbols, TestUnlock, Unlock
<1>7. CASE Clean(p)
  BY <1>0, <1>7, SMT DEF Clean, CleanCall, CleanOpen, CleanUnlink, CleanRmdir, CleanOver
<1>8. CASE Exit(p) \/ Spawn(p)
  BY <1>0, <1>8, SMT DEF Exit, Spawn
<1> QED
  BY <1>1, <1>2, <1>3, <1>4, <1>5, <1>6, <1>7, <1>8 DEF Step, Store, Test

\* What a lookup has read.
LEMMA MetaRead ==
    ASSUME Inv, NEW p \in Procs, pc[p] \in {"recheck", "look"}
    PROVE  at[Entry(job[p].key)] # NoDir => dir[at[Entry(job[p].key)]].meta \in MetaType
<1>1. job[p].key \in Keys
  BY DEF Inv, Jobs, JobOK, StorePcs, HoldPcs, TestPcs, Stores, Tests
<1>2. Entry(job[p].key) \in Names
  BY <1>1 DEF Names, Entry
<1>3. at[Entry(job[p].key)] \in Dirs \cup {NoDir} /\ dir \in [Dirs -> EntryType]
  BY <1>2, Types DEF Inv, TreeTypes
<1> QED
  BY <1>3 DEF EntryType, MetaType

\* Types: jobs, what a lookup has seen, and the number of calls.
LEMMA CallTypesStep ==
    ASSUME Inv, NEW p \in Procs, Step(p)
    PROVE  CallTypes'
<1>0. CallTypes /\ NoJob \in JobType /\ NoMeta \in MetaType /\ Stores \subseteq JobType /\ Tests \subseteq JobType
  BY Types DEF Inv, JobType, MetaType
<1> USE DEF CallTypes, Return, local, kept
<1>1. CASE StoreCall(p) \/ TestCall(p)
  BY <1>0, <1>1, SMT DEF StoreCall, TestCall, Call
<1>2. CASE StoreLock(p) \/ StoreRecheckImage(p)
  BY <1>0, <1>2 DEF StoreLock, StoreRecheckImage
<1>3. CASE StoreRecheckMeta(p) \/ TestLookMeta(p)
  <2>1. at[Entry(job[p].key)] # NoDir => dir[at[Entry(job[p].key)]].meta \in MetaType
    BY <1>3, MetaRead DEF StoreRecheckMeta, TestLookMeta
  <2> QED
    BY <1>0, <1>3, <2>1 DEF StoreRecheckMeta, TestLookMeta, LookupMeta
<1>4. CASE StoreClear(p) \/ SweepProbe(p) \/ SweepRemove(p) \/ StoreStage(p)
  BY <1>0, <1>4 DEF StoreClear, SweepProbe, SweepRemove, StoreStage
<1>5. CASE StoreImage(p) \/ StoreVmlinux(p) \/ StoreMetadata(p)
  BY <1>0, <1>5 DEF StoreImage, StoreVmlinux, StoreMetadata
<1>6. CASE StoreRename(p) \/ StoreSwap(p) \/ StoreFails(p) \/ StoreDrop(p)
  BY <1>0, <1>6 DEF StoreRename, StoreSwap, StoreFails, StoreDrop
<1>7. CASE TestLookImage(p) \/ TestLock(p)
  BY <1>0, <1>7 DEF TestLookImage, TestLock
<1>8. CASE TestBoot(p) \/ TestSymbols(p) \/ TestUnlock(p)
  BY <1>0, <1>8 DEF TestBoot, TestSymbols, TestUnlock
<1>9. CASE Clean(p)
  BY <1>0, <1>9, SMT DEF Clean, CleanCall, CleanOpen, CleanUnlink, CleanRmdir, CleanOver, Call
<1>10. CASE Exit(p) \/ Spawn(p)
  BY <1>0, <1>10 DEF Exit, Spawn
<1> QED
  BY <1>1, <1>2, <1>3, <1>4, <1>5, <1>6, <1>7, <1>8, <1>9, <1>10 DEF Step, Store, Test

\* Types: the VMs and the symbol caches.
LEMMA VmTypesStep ==
    ASSUME Inv, NEW p \in Procs, Step(p)
    PROVE  VmTypes'
<1>0. VmTypes /\ NoVm \in VmType /\ NoFile \in FileType
  BY Types DEF Inv, VmType, FileType, NoVm
<1> USE DEF VmTypes, Return, local, kept
<1>1. CASE StoreCall(p) \/ StoreLock(p) \/ StoreRecheckMeta(p) \/ StoreRecheckImage(p)
  BY <1>0, <1>1 DEF StoreCall, StoreLock, StoreRecheckMeta, StoreRecheckImage, LookupMeta
<1>2. CASE StoreClear(p) \/ SweepProbe(p) \/ SweepRemove(p) \/ StoreStage(p)
  BY <1>0, <1>2 DEF StoreClear, SweepProbe, SweepRemove, StoreStage
<1>3. CASE StoreImage(p) \/ StoreVmlinux(p) \/ StoreMetadata(p)
  BY <1>0, <1>3 DEF StoreImage, StoreVmlinux, StoreMetadata
<1>4. CASE StoreRename(p) \/ StoreSwap(p) \/ StoreFails(p) \/ StoreDrop(p)
  BY <1>0, <1>4 DEF StoreRename, StoreSwap, StoreFails, StoreDrop
<1>5. CASE TestCall(p) \/ TestLookMeta(p) \/ TestLookImage(p) \/ TestLock(p)
  BY <1>0, <1>5 DEF TestCall, TestLookMeta, TestLookImage, TestLock, LookupMeta
<1>6. CASE TestUnlock(p)
  BY <1>0, <1>6 DEF TestUnlock
<1>7. CASE TestBoot(p) \/ TestSymbols(p)
  <2> DEFINE k == job[p].key
             d == at[Entry(k)]
  <2>1. k \in Keys /\ Entry(k) \in Names
    BY <1>7 DEF Inv, Jobs, JobOK, TestPcs, Tests, TestBoot, TestSymbols, Entry, Names
  <2>2. d # NoDir => d \in Dirs /\ dir[d] \in EntryType
    BY <2>1, Types DEF Inv, TreeTypes
  <2>3. d # NoDir => dir[d].img \in FileType /\ dir[d].vml \in FileType
    BY <2>2 DEF EntryType, FileType
  <2>4. CASE TestBoot(p)
    <3>1. d # NoDir => [NoVm EXCEPT !.img = dir[d].img] \in VmType
      BY <2>3, <1>0 DEF VmType, NoVm
    <3> QED
      BY <1>0, <2>4, <3>1 DEF TestBoot, ImageExists
  <2>5. CASE TestSymbols(p)
    <3> DEFINE bytes == IF cache[p][k] # NoFile THEN cache[p][k] ELSE dir[d].vml
    <3>1. d # NoDir => bytes \in FileType
      BY <1>0, <2>1, <2>3
    <3>2. d # NoDir => [vm[p] EXCEPT !.vml = bytes] \in VmType
      BY <1>0, <3>1 DEF VmType
    <3>3. d # NoDir => [cache[p] EXCEPT ![k] = bytes] \in [Keys -> FileType]
      BY <1>0, <2>1, <3>1
    <3>4. vm' = vm \/ (d # NoDir /\ vm' = [vm EXCEPT ![p] = [vm[p] EXCEPT !.vml = bytes]])
      BY <1>0, <2>5 DEF TestSymbols
    <3>5. cache' = cache \/ (d # NoDir /\ cache' = [cache EXCEPT ![p] = [cache[p] EXCEPT ![k] = bytes]])
      BY <1>0, <2>5 DEF TestSymbols
    <3> HIDE DEF k, d, bytes
    <3> QED
      BY <1>0, <3>2, <3>3, <3>4, <3>5
  <2> QED
    BY <1>7, <2>4, <2>5
<1>8. CASE Clean(p)
  BY <1>0, <1>8 DEF Clean, CleanCall, CleanOpen, CleanUnlink, CleanRmdir, CleanOver
<1>9. CASE Exit(p)
  <2>1. [k \in Keys |-> NoFile] \in [Keys -> FileType]
    BY <1>0
  <2>2. vm' = [vm EXCEPT ![p] = NoVm] /\ cache' = [cache EXCEPT ![p] = [k \in Keys |-> NoFile]]
    BY <1>9 DEF Exit
  <2> QED
    BY <1>0, <2>1, <2>2
<1>10. CASE Spawn(p)
  BY <1>0, <1>10 DEF Spawn
<1> QED
  BY <1>1, <1>2, <1>3, <1>4, <1>5, <1>6, <1>7, <1>8, <1>9, <1>10 DEF Step, Store, Test

\* Types: the directories a sweep or a clean visits.
LEMMA VisitTypesStep ==
    ASSUME Inv, NEW p \in Procs, Step(p)
    PROVE  VisitTypes' /\ OpenTypes'
<1>0. VisitTypes /\ OpenTypes /\ PcTypes
  BY Types DEF Inv
<1> USE DEF VisitTypes, OpenTypes, PcTypes, Goto, Return, local, kept
<1>1. CASE StoreCall(p) \/ StoreLock(p) \/ StoreRecheckMeta(p) \/ StoreRecheckImage(p)
  BY <1>0, <1>1, SMT DEF StoreCall, StoreLock, StoreRecheckMeta, StoreRecheckImage, LookupMeta
<1>2. CASE StoreClear(p)
  BY <1>0, <1>2, SMT DEF StoreClear, Staging, Names
<1>3. CASE SweepProbe(p)
  BY <1>0, <1>3, SMT DEF SweepProbe
<1>4. CASE SweepRemove(p) \/ StoreStage(p)
  BY <1>0, <1>4, SMT DEF SweepRemove, StoreStage
<1>5. CASE StoreImage(p) \/ StoreVmlinux(p) \/ StoreMetadata(p)
  BY <1>0, <1>5, SMT DEF StoreImage, StoreVmlinux, StoreMetadata
<1>6. CASE StoreRename(p) \/ StoreSwap(p) \/ StoreFails(p) \/ StoreDrop(p)
  BY <1>0, <1>6, SMT DEF StoreRename, StoreSwap, StoreFails, StoreDrop
<1>7. CASE TestCall(p) \/ TestLookMeta(p) \/ TestLookImage(p) \/ TestLock(p)
  BY <1>0, <1>7, SMT DEF TestCall, TestLookMeta, TestLookImage, TestLock, LookupMeta
<1>8. CASE TestBoot(p) \/ TestSymbols(p) \/ TestUnlock(p)
  BY <1>0, <1>8, SMT DEF TestBoot, TestSymbols, TestUnlock
<1>9. CASE CleanCall(p)
  <2>1. PICK t \in SUBSET Names : todo' = [todo EXCEPT ![p] = t]
    <3>1. PICK keep \in SUBSET {k \in Listed : Valid(k)} :
            todo' = [todo EXCEPT ![p] = {Entry(k) : k \in Listed \ keep}]
      BY <1>9 DEF CleanCall
    <3>2. {Entry(k) : k \in Listed \ keep} \subseteq Names
      <4>1. Listed \subseteq Keys /\ \A k \in Keys : Entry(k) \in Names
        BY DEF Listed, Entry, Names
      <4> QED
        BY <4>1
    <3> QED
      BY <3>1, <3>2
  <2> QED
    BY <1>0, <1>9, <2>1 DEF CleanCall
<1>10. CASE CleanOpen(p)
  BY <1>0, <1>10, Types, SMT DEF CleanOpen, Inv, TreeTypes
<1>11. CASE CleanUnlink(p) \/ CleanRmdir(p) \/ CleanOver(p)
  BY <1>0, <1>11, SMT DEF CleanUnlink, CleanRmdir, CleanOver
<1>12. CASE Exit(p) \/ Spawn(p)
  BY <1>0, <1>12, SMT DEF Exit, Spawn, Dead
<1> QED
  BY <1>1, <1>2, <1>3, <1>4, <1>5, <1>6, <1>7, <1>8, <1>9, <1>10, <1>11, <1>12 DEF Step,
     Store, Test, Clean

-----------------------------------------------------------------------------
(* Jobs, locks and visits *)

\* Every step keeps Jobs: a process at a step of a call has its arguments.
LEMMA JobsStep ==
    ASSUME Inv, NEW p \in Procs, Step(p)
    PROVE  Jobs'
<1>0. Jobs /\ PcTypes /\ CallTypes /\ Others(p)
  BY StepOfOne, Types DEF Inv
<1>1. SUFFICES JobOK(p)'
  BY <1>0 DEF Jobs, JobOK, Others
<1> USE DEF Jobs, JobOK, PcTypes, CallTypes, Goto, Return, local, kept,
            StorePcs, HoldPcs, StagePcs, TestPcs
<1>2. CASE StoreCall(p) \/ StoreLock(p) \/ StoreRecheckMeta(p) \/ StoreRecheckImage(p)
  BY <1>0, <1>2 DEF StoreCall, StoreLock, StoreRecheckMeta, StoreRecheckImage, LookupMeta
<1>3. CASE StoreClear(p) \/ SweepProbe(p) \/ SweepRemove(p) \/ StoreStage(p)
  BY <1>0, <1>3 DEF StoreClear, SweepProbe, SweepRemove, StoreStage
<1>4. CASE StoreImage(p) \/ StoreVmlinux(p) \/ StoreMetadata(p)
  BY <1>0, <1>4 DEF StoreImage, StoreVmlinux, StoreMetadata
<1>5. CASE StoreRename(p) \/ StoreSwap(p) \/ StoreFails(p) \/ StoreDrop(p)
  BY <1>0, <1>5 DEF StoreRename, StoreSwap, StoreFails, StoreDrop
<1>6. CASE TestCall(p) \/ TestLookMeta(p) \/ TestLookImage(p) \/ TestLock(p)
  BY <1>0, <1>6 DEF TestCall, TestLookMeta, TestLookImage, TestLock, LookupMeta
<1>7. CASE TestBoot(p) \/ TestSymbols(p) \/ TestUnlock(p)
  BY <1>0, <1>7 DEF TestBoot, TestSymbols, TestUnlock
<1>8. CASE Clean(p)
  BY <1>0, <1>8 DEF Clean, CleanCall, CleanOpen, CleanUnlink, CleanRmdir, CleanOver
<1>9. CASE Exit(p) \/ Spawn(p)
  BY <1>0, <1>9 DEF Exit, Spawn
<1> QED
  BY <1>2, <1>3, <1>4, <1>5, <1>6, <1>7, <1>8, <1>9 DEF Step, Store, Test

\* The key of a process at a step of a call is a key.
LEMMA HolderKey ==
    ASSUME Inv, NEW p \in Procs
    PROVE  pc[p] \in StorePcs \cup TestPcs => job[p].key \in Keys
  BY DEF Inv, Jobs, JobOK, Stores, Tests

\* Every step keeps Locks: flock grants LOCK_EX alone and LOCK_SH without it.
LEMMA LocksStep ==
    ASSUME Inv, NEW p \in Procs, Step(p)
    PROVE  Locks'
<1>0. /\ Locks /\ PcTypes /\ CallTypes /\ LockTypes /\ Others(p)
      /\ pc[p] \in StorePcs \cup TestPcs => job[p].key \in Keys
      /\ \A q \in Procs : pc[q] \in StorePcs \cup TestPcs => job[q].key \in Keys
  BY StepOfOne, Types, HolderKey DEF Inv
<1> USE DEF Locks, LockOK, Exclusive, PcTypes, CallTypes, LockTypes, Others, Goto, Return, local, kept, locks,
            StorePcs, HoldPcs, StagePcs, TestPcs
<1>1. CASE StoreCall(p) \/ TestCall(p)
  BY <1>0, <1>1, SMT DEF StoreCall, TestCall
<1>2. CASE StoreLock(p)
  BY <1>0, <1>2, SMT DEF StoreLock
<1>3. CASE StoreRecheckMeta(p) \/ TestLookMeta(p)
  BY <1>0, <1>3, SMT DEF StoreRecheckMeta, TestLookMeta, LookupMeta
<1>4. CASE StoreRecheckImage(p)
  BY <1>0, <1>4, SMT DEF StoreRecheckImage
<1>5. CASE StoreClear(p) \/ SweepProbe(p) \/ SweepRemove(p) \/ StoreStage(p)
  BY <1>0, <1>5, SMT DEF StoreClear, SweepProbe, SweepRemove, StoreStage
<1>6. CASE StoreImage(p) \/ StoreVmlinux(p) \/ StoreMetadata(p)
  BY <1>0, <1>6, SMT DEF StoreImage, StoreVmlinux, StoreMetadata
<1>7. CASE StoreRename(p) \/ StoreSwap(p)
  BY <1>0, <1>7, SMT DEF StoreRename, StoreSwap
<1>r. ASSUME pc[p] \in HoldPcs, ex' = [ex EXCEPT ![job[p].key] = {}], sh' = sh, pc'[p] = "idle"
      PROVE  Locks'
  <2>1. Exclusive'
    BY <1>0, <1>r
  <2>2. \A q \in Procs : LockOK(q)'
    <3> SUFFICES ASSUME NEW q \in Procs PROVE LockOK(q)'
      OBVIOUS
    <3>1. CASE q = p
      BY <1>r, <3>1
    <3>2. CASE q # p
      <4>1. pc'[q] = pc[q] /\ job'[q] = job[q] /\ ex[job[p].key] = {p}
        BY <1>0, <1>r, <3>2
      <4>2. pc[q] \in HoldPcs => ex[job[q].key] = {q}
        BY <1>0
      <4>3. pc[q] \in HoldPcs => job[q].key # job[p].key
        BY <3>2, <4>1, <4>2
      <4> QED
        BY <1>0, <1>r, <4>1, <4>2, <4>3, SMT
    <3> QED
      BY <3>1, <3>2
  <2> QED
    BY <2>1, <2>2
<1>8. CASE StoreFails(p)
  <2>1. CASE UNCHANGED <<ex, sh, job>> /\ pc[p] \in HoldPcs /\ pc' = [pc EXCEPT ![p] = "drop"]
    BY <1>0, <2>1, SMT
  <2>2. CASE pc[p] \in HoldPcs /\ ex' = [ex EXCEPT ![job[p].key] = {}] /\ sh' = sh /\ pc'[p] = "idle"
    BY <1>r, <2>2
  <2> QED
    BY <1>0, <1>8, <2>1, <2>2, SMT DEF StoreFails
<1>9. CASE StoreDrop(p)
  <2>1. pc[p] \in HoldPcs /\ ex' = [ex EXCEPT ![job[p].key] = {}] /\ sh' = sh /\ pc'[p] = "idle"
    BY <1>0, <1>9, SMT DEF StoreDrop
  <2> QED
    BY <1>r, <2>1
<1>10. CASE TestLookImage(p)
  BY <1>0, <1>10, SMT DEF TestLookImage
<1>11. CASE TestLock(p)
  BY <1>0, <1>11, SMT DEF TestLock
<1>12. CASE TestBoot(p)
  BY <1>0, <1>12, SMT DEF TestBoot, Unlock
<1>13. CASE TestSymbols(p)
  BY <1>0, <1>13, SMT DEF TestSymbols
<1>14. CASE TestUnlock(p)
  BY <1>0, <1>14, SMT DEF TestUnlock, Unlock
<1>15. CASE Clean(p)
  BY <1>0, <1>15, SMT DEF Clean, CleanCall, CleanOpen, CleanUnlink, CleanRmdir, CleanOver
<1>16. CASE Exit(p)
  BY <1>0, <1>16, SMT DEF Exit
<1>17. CASE Spawn(p)
  BY <1>0, <1>17, SMT DEF Spawn
<1> QED
  BY <1>1, <1>2, <1>3, <1>4, <1>5, <1>6, <1>7, <1>8, <1>9, <1>10, <1>11, <1>12, <1>13, <1>14,
     <1>15, <1>16, <1>17 DEF Step, Store, Test

\* Every step keeps Visits: sweeps remove staging of dead pids, cleans entries.
LEMMA VisitsStep ==
    ASSUME Inv, NEW p \in Procs, Step(p)
    PROVE  Visits'
<1>0. Visits /\ PcTypes /\ VisitTypes /\ Others(p)
  BY StepOfOne, Types DEF Inv
<1>1. ASSUME \A q \in Procs : Dead(q) /\ (\E r \in Procs : target[r] # NoName /\ target[r][2] = q) => Dead(q)',
             VisitOK(p)'
      PROVE  Visits'
  <2> SUFFICES ASSUME NEW q \in Procs \ {p} PROVE VisitOK(q)'
    BY <1>1 DEF Visits
  <2>1. pc'[q] = pc[q] /\ todo'[q] = todo[q] /\ target'[q] = target[q] /\ VisitOK(q)
    BY <1>0 DEF Others, Visits
  <2>2. pc[q] = "sweep" /\ target[q] # NoName => target[q] \in Staging /\ target[q][2] \in Procs
    BY <2>1 DEF VisitOK, Staging
  <2> QED
    BY <1>1, <2>1, <2>2 DEF VisitOK
<1>2. ~Dead(p) => \A q \in Procs : Dead(q) => Dead(q)'
  BY <1>0 DEF Others, Dead
<1> USE DEF PcTypes, VisitTypes, Goto, Return, local, kept
<1>3. CASE StoreCall(p) \/ StoreLock(p) \/ StoreRecheckMeta(p) \/ StoreRecheckImage(p)
  <2>1. ~Dead(p)
    BY <1>3 DEF StoreCall, StoreLock, StoreRecheckMeta, StoreRecheckImage, Dead
  <2>2. VisitOK(p)'
    BY <1>0, <1>3 DEF StoreCall, StoreLock, StoreRecheckMeta, StoreRecheckImage,
       LookupMeta, Visits, VisitOK
  <2> QED
    BY <1>1, <1>2, <2>1, <2>2
<1>4. CASE StoreClear(p)
  <2>1. ~Dead(p)
    BY <1>4 DEF StoreClear, Dead
  <2>2. VisitOK(p)'
    BY <1>0, <1>4 DEF StoreClear, Visits, VisitOK
  <2> QED
    BY <1>1, <1>2, <2>1, <2>2
<1>5. CASE SweepProbe(p)
  <2>1. ~Dead(p)
    BY <1>5 DEF SweepProbe, Dead
  <2>2. VisitOK(p)'
    BY <1>0, <1>5, SMT DEF SweepProbe, Visits, VisitOK, Dead
  <2> QED
    BY <1>1, <1>2, <2>1, <2>2
<1>6. CASE SweepRemove(p) \/ StoreStage(p)
  <2>1. ~Dead(p)
    BY <1>6 DEF SweepRemove, StoreStage, Dead
  <2>2. VisitOK(p)'
    BY <1>0, <1>6 DEF SweepRemove, StoreStage, Visits, VisitOK
  <2> QED
    BY <1>1, <1>2, <2>1, <2>2
<1>7. CASE StoreImage(p) \/ StoreVmlinux(p) \/ StoreMetadata(p) \/ StoreRename(p) \/ StoreSwap(p) \/ StoreDrop(p)
  <2>1. ~Dead(p)
    BY <1>7 DEF StoreImage, StoreVmlinux, StoreMetadata, StoreRename, StoreSwap,
       StoreDrop, Dead
  <2>2. VisitOK(p)'
    BY <1>0, <1>7 DEF StoreImage, StoreVmlinux, StoreMetadata, StoreRename, StoreSwap,
       StoreDrop, Visits, VisitOK
  <2> QED
    BY <1>1, <1>2, <2>1, <2>2
<1>8. CASE StoreFails(p)
  <2>1. ~Dead(p)
    BY <1>8 DEF StoreFails, Dead
  <2>2. VisitOK(p)'
    BY <1>0, <1>8 DEF StoreFails, Visits, VisitOK
  <2> QED
    BY <1>1, <1>2, <2>1, <2>2
<1>9. CASE Test(p)
  <2>1. ~Dead(p)
    BY <1>9 DEF Test, TestCall, TestLookMeta, TestLookImage, TestLock, TestBoot,
       TestSymbols, TestUnlock, Dead
  <2>2. VisitOK(p)'
    BY <1>0, <1>9 DEF Test, TestCall, TestLookMeta, TestLookImage, TestLock, TestBoot,
       TestSymbols, TestUnlock,
       LookupMeta, Visits, VisitOK
  <2> QED
    BY <1>1, <1>2, <2>1, <2>2
<1>10. CASE Clean(p)
  <2>1. ~Dead(p)
    BY <1>10 DEF Clean, CleanCall, CleanOpen, CleanUnlink, CleanRmdir, CleanOver, Dead
  <2>2. CASE CleanCall(p)
    <3>1. \A n \in todo'[p] : n[2] = Final
      BY <1>0, <2>2, SMT DEF CleanCall, Entry
    <3>2. pc'[p] = "clean" /\ target'[p] = target[p] /\ pc[p] = "idle"
      BY <1>0, <2>2 DEF CleanCall
    <3>3. VisitOK(p)'
      BY <1>0, <3>1, <3>2 DEF Visits, VisitOK
    <3> QED
      BY <1>1, <1>2, <2>1, <3>3
  <2>3. CASE CleanOpen(p)
    <3>1. VisitOK(p)'
      BY <1>0, <2>3, SMT DEF CleanOpen, Visits, VisitOK
    <3> QED
      BY <1>1, <1>2, <2>1, <3>1
  <2>4. CASE CleanUnlink(p) \/ CleanRmdir(p) \/ CleanOver(p)
    <3>1. VisitOK(p)'
      BY <1>0, <2>4 DEF CleanUnlink, CleanRmdir, CleanOver, Visits, VisitOK
    <3> QED
      BY <1>1, <1>2, <2>1, <3>1
  <2> QED
    BY <1>10, <2>2, <2>3, <2>4 DEF Clean
<1>11. CASE Exit(p)
  <2>1. \A q \in Procs : Dead(q) => Dead(q)'
    BY <1>0, <1>2, <1>11 DEF Exit, Dead
  <2>2. VisitOK(p)'
    BY <1>0, <1>11 DEF Exit, VisitOK
  <2> QED
    BY <1>1, <2>1, <2>2
<1>12. CASE Spawn(p)
  <2>1. \A q \in Procs : Dead(q) /\ (\E r \in Procs : target[r] # NoName /\ target[r][2] = q) => Dead(q)'
    BY <1>0, <1>12 DEF Spawn, Dead
  <2>2. VisitOK(p)'
    BY <1>0, <1>12 DEF Spawn, VisitOK, Visits, Dead
  <2> QED
    BY <1>1, <2>1, <2>2
<1> QED
  BY <1>3, <1>4, <1>5, <1>6, <1>7, <1>8, <1>9, <1>10, <1>11, <1>12 DEF Step, Store

-----------------------------------------------------------------------------
(* The directory tree.  A step touches few names, and those of others are    *)
(* kept: the same directory, with the same files.                            *)

TreeInv == TreeTypes /\ TreeOK /\ Opens /\ Stages /\ Entries /\ Vms

Kept(m) ==
    /\ at'[m] = at[m]
    /\ at[m] # NoDir => /\ dir'[at[m]] = dir[at[m]]
                        /\ at[m] \in opened => at[m] \in opened'
\* The directory may also go, or lose its vmlinux.
Shrunk(m) ==
    at'[m] # NoDir => at'[m] = at[m] /\ dir'[at[m]].vml \in {dir[at[m]].vml, NoFile}
\* A directory is newly opened only under the name of an entry.
OpenMoves ==
    \A r \in Procs : \/ open'[r] = open[r] \/ open'[r] = NoDir
                     \/ \E n \in Names \ Staging : open'[r] = at[n]

\* A staging directory that a step keeps is still as its store left it.
LEMMA KeptStage ==
    ASSUME Inv, NEW p \in Procs, Others(p), OpenMoves, NEW q \in Procs \ {p},
           pc[q] = "sweep" => at'[Tmp(q)] = NoDir,
           pc[q] \in StagePcs => Kept(Tmp(q))
    PROVE  StageOK(q)'
<1>1. pc'[q] = pc[q] /\ job'[q] = job[q] /\ Tmp(q)' = Tmp(q)
  BY DEF Others, Tmp
<1>2. StageOK(q) /\ TreeOK /\ Jobs
  BY DEF Inv, Stages
<1>3. CASE pc[q] = "sweep"
  BY <1>1, <1>3 DEF StageOK, StagePcs
<1>4. CASE pc[q] \in StagePcs
  <2> DEFINE d == at[Tmp(q)]
  <2>1. Staged(q) /\ Kept(Tmp(q)) /\ d # NoDir
    BY <1>2, <1>4 DEF StageOK, Staged
  <2>2. Tmp(q) \in Names /\ Tmp(q) \in Staging
    BY <1>2, <1>4, TmpName DEF StorePcs, HoldPcs
  <2>3. at'[Tmp(q)] = d /\ dir'[d] = dir[d]
    BY <2>1 DEF Kept
  <2>4. \A r \in Procs : open'[r] # d
    <3> SUFFICES ASSUME NEW r \in Procs PROVE open'[r] # d
      OBVIOUS
    <3>1. open[r] # d
      BY <2>1 DEF Staged
    <3>2. ASSUME NEW n \in Names \ Staging PROVE at[n] # d
      BY <1>2, <2>1, <2>2, <3>2 DEF TreeOK
    <3> QED
      BY <2>1, <3>1, <3>2 DEF OpenMoves
  <2>5. Staged(q)'
    BY <1>1, <2>1, <2>3, <2>4 DEF Staged
  <2> QED
    BY <1>1, <1>4, <2>5 DEF StageOK, StagePcs
<1> QED
  BY <1>1, <1>3, <1>4 DEF StageOK

\* An entry that a step keeps is still of one build.
LEMMA KeptEntry ==
    ASSUME Inv, NEW k \in Keys, Kept(Entry(k))
    PROVE  EntryOK(k)'
<1>1. EntryOK(k) /\ Entry(k)' = Entry(k)
  BY DEF Inv, Entries, Entry
<1> QED
  BY <1>1 DEF Kept, EntryOK, Whole

\* A process about to read symbols still finds those of its build, or none.
LEMMA KeptVm ==
    ASSUME Inv, NEW p \in Procs, Others(p), NEW q \in Procs \ {p},
           pc[q] = "syms" => Shrunk(Entry(job[q].key))
    PROVE  VmOK(q)'
<1>1. pc'[q] = pc[q] /\ job'[q] = job[q] /\ vm'[q] = vm[q] /\ cache'[q] = cache[q] /\ VmOK(q)
  BY DEF Others, Inv, Vms
<1>2. pc[q] = "syms" => Entry(job[q].key)' = Entry(job[q].key)
  BY <1>1 DEF Entry
<1> QED
  BY <1>1, <1>2 DEF VmOK, Shrunk

\* A directory that is kept has lost nothing.
LEMMA KeptShrunk ==
    ASSUME NEW m, Kept(m)
    PROVE  Shrunk(m)
  BY DEF Kept, Shrunk

\* Outside a test that reads the entry, the bytes cached are of no concern.
LEMMA VmCold ==
    ASSUME Inv, NEW p \in Procs, pc[p] \notin Warm \/ pc'[p] \in Warm, pc'[p] \notin {"syms", "unlock"},
           cache'[p] = cache[p]
    PROVE  VmOK(p)'
  BY DEF Inv, Vms, VmOK

\* A process outside a store has no staging directory to speak of.
LEMMA StageOut ==
    ASSUME NEW p \in Procs, pc'[p] \notin StagePcs \cup {"sweep"}
    PROVE  StageOK(p)'
  BY DEF StageOK, StagePcs

\* A step that leaves the tree as it is.
LEMMA Quiet ==
    ASSUME Inv, NEW p \in Procs, Others(p), UNCHANGED tree, open'[p] \in {open[p], NoDir},
           StageOK(p)', VmOK(p)'
    PROVE  TreeInv'
<1>1. TreeTypes' /\ TreeOK'
  BY Types DEF Inv, TreeTypes, TreeOK, tree
<1>2. OpenMoves
  BY DEF Others, OpenMoves
<1>3. Opens'
  BY DEF Inv, Opens, OpenOK, Others, tree
<1>4. \A m : Kept(m)
  BY DEF Kept, tree
<1>5. Stages'
  <2> SUFFICES ASSUME NEW q \in Procs \ {p} PROVE StageOK(q)'
    BY DEF Stages
  <2>1. pc[q] = "sweep" => at'[Tmp(q)] = NoDir
    BY DEF Inv, Stages, StageOK, tree
  <2> QED
    BY <1>2, <1>4, <2>1, KeptStage
<1>6. Entries'
  BY <1>4, KeptEntry DEF Entries
<1>7. Vms'
  BY <1>4, KeptShrunk, KeptVm DEF Vms
<1> QED
  BY <1>1, <1>3, <1>5, <1>6, <1>7 DEF TreeInv

\* remove_dir_all of a staging name that is not in use, or of an entry.
LEMMA RemoveStep ==
    ASSUME Inv, NEW p \in Procs, Others(p), NEW n \in Names, RemoveTree(n),
           open'[p] \in {open[p], NoDir},
           \A q \in Procs \ {p} : pc[q] \in StagePcs => Tmp(q) # n,
           StageOK(p)', VmOK(p)'
    PROVE  TreeInv'
<1>0. TreeTypes /\ TreeOK /\ TypeOK /\ Jobs
  BY Types DEF Inv
<1>1. TreeTypes'
  BY <1>0, RemoveType DEF TreeTypes
<1>2. \A m \in Names : at'[m] = IF m = n THEN NoDir ELSE at[m]
  BY <1>0 DEF RemoveTree, TreeTypes
<1>3. TreeOK'
  <2>1. \A a, b \in Names : at'[a] = at'[b] /\ at'[a] # NoDir => a = b
    BY <1>0, <1>2 DEF TreeOK
  <2>2. ASSUME NEW d \in Dirs, \A a \in Names : at'[a] # d PROVE dir'[d] = Empty
    <3>1. CASE d = at[n]
      BY <3>1 DEF RemoveTree
    <3>2. CASE d # at[n]
      <4>1. \A a \in Names : at[a] # d
        BY <1>2, <2>2, <3>2
      <4> QED
        BY <1>0, <3>2, <4>1 DEF RemoveTree, TreeOK
    <3> QED
      BY <3>1, <3>2
  <2> QED
    BY <2>1, <2>2 DEF TreeOK
<1>4. \A m \in Names \ {n} : Kept(m)
  <2> SUFFICES ASSUME NEW m \in Names \ {n} PROVE Kept(m)
    OBVIOUS
  <2>1. at[m] # NoDir => at[m] \in Dirs /\ at[m] # at[n]
    BY <1>0 DEF TreeOK, TreeTypes
  <2> QED
    BY <1>2, <2>1 DEF RemoveTree, Kept
<1>5. Opens'
  <2> SUFFICES ASSUME NEW q \in Procs, open'[q] # NoDir, NEW m \in Names, at'[m] = open'[q]
               PROVE  open'[q] \in opened'
    BY DEF Opens, OpenOK
  <2>1. open'[q] = open[q]
    BY DEF Others
  <2>2. m # n /\ at[m] = open[q]
    BY <1>2, <2>1
  <2>3. open[q] \in opened
    BY <2>1, <2>2 DEF Inv, Opens, OpenOK
  <2> QED
    BY <1>4, <2>1, <2>2, <2>3 DEF Kept
<1>6. OpenMoves
  BY DEF Others, OpenMoves
<1>7. Stages'
  <2> SUFFICES ASSUME NEW q \in Procs \ {p} PROVE StageOK(q)'
    BY DEF Stages
  <2>1. pc[q] \in StorePcs => Tmp(q) \in Names
    BY <1>0, TmpName
  <2>2. pc[q] = "sweep" => at'[Tmp(q)] = NoDir
    BY <1>2, <2>1 DEF Inv, Stages, StageOK, StorePcs, HoldPcs
  <2>3. pc[q] \in StagePcs => Kept(Tmp(q))
    BY <1>4, <2>1 DEF StorePcs, HoldPcs
  <2> QED
    BY <1>6, <2>2, <2>3, KeptStage
<1>8. Entries'
  <2> SUFFICES ASSUME NEW k \in Keys PROVE EntryOK(k)'
    BY DEF Entries
  <2>1. Entry(k) \in Names /\ Entry(k)' = Entry(k)
    BY DEF Entry, Names
  <2>2. CASE Entry(k) = n
    BY <1>2, <2>1, <2>2 DEF EntryOK
  <2>3. CASE Entry(k) # n
    BY <1>4, <2>1, <2>3, KeptEntry
  <2> QED
    BY <2>2, <2>3
<1>9. Vms'
  <2> SUFFICES ASSUME NEW q \in Procs \ {p} PROVE VmOK(q)'
    BY DEF Vms
  <2>1. pc[q] = "syms" => Entry(job[q].key) \in Names
    BY HolderKey DEF TestPcs, Entry, Names
  <2>2. \A m \in Names : Shrunk(m)
    BY <1>2, <1>4, KeptShrunk DEF Shrunk
  <2> QED
    BY <2>1, <2>2, KeptVm
<1> QED
  BY <1>1, <1>3, <1>5, <1>7, <1>8, <1>9 DEF TreeInv

\* A store writes one file of its staging directory, which no other name and
\* no open handle reaches.
LEMMA WriteStep ==
    ASSUME Inv, NEW p \in Procs, Others(p), pc[p] \in StagePcs, NEW v \in EntryType,
           UNCHANGED <<at, opened, open>>, dir' = [dir EXCEPT ![at[Tmp(p)]] = v],
           StageOK(p)', VmOK(p)'
    PROVE  TreeInv'
<1> DEFINE t == at[Tmp(p)]
<1>0. TreeTypes /\ TreeOK /\ Jobs /\ Tmp(p) \in Names /\ Tmp(p)[2] = p /\ Tmp(p) \in Staging
  BY Types, TmpName DEF Inv, StorePcs, HoldPcs
<1>1. t \in Dirs /\ dir'[t] = v /\ \A d \in Dirs \ {t} : dir'[d] = dir[d]
  BY <1>0 DEF Inv, Stages, StageOK, Staged, TreeTypes
<1>2. TreeTypes'
  BY <1>0, <1>1 DEF TreeTypes
<1>3. TreeOK'
  BY <1>0, <1>1 DEF TreeOK
<1>4. Opens'
  BY DEF Inv, Opens, OpenOK
<1>5. \A m \in Names \ {Tmp(p)} : Kept(m)
  BY <1>0, <1>1 DEF TreeOK, TreeTypes, Kept
<1>6. OpenMoves
  BY DEF OpenMoves
<1>7. Stages'
  <2> SUFFICES ASSUME NEW q \in Procs \ {p} PROVE StageOK(q)'
    BY DEF Stages
  <2>1. pc[q] \in StorePcs => Tmp(q) \in Names /\ Tmp(q)[2] = q
    BY <1>0, TmpName
  <2>2. pc[q] = "sweep" => at'[Tmp(q)] = NoDir
    BY DEF Inv, Stages, StageOK
  <2>3. pc[q] \in StagePcs => Kept(Tmp(q))
    BY <1>0, <1>5, <2>1 DEF StorePcs, HoldPcs
  <2> QED
    BY <1>6, <2>2, <2>3, KeptStage
<1>8. \A k \in Keys : Kept(Entry(k))
  BY <1>0, <1>5, NameFacts
<1>9. Entries'
  BY <1>8, KeptEntry DEF Entries
<1>10. Vms'
  <2> SUFFICES ASSUME NEW q \in Procs \ {p} PROVE VmOK(q)'
    BY DEF Vms
  <2>1. pc[q] = "syms" => job[q].key \in Keys
    BY HolderKey DEF TestPcs
  <2> QED
    BY <1>8, <2>1, KeptShrunk, KeptVm
<1> QED
  BY <1>2, <1>3, <1>4, <1>7, <1>9, <1>10 DEF TreeInv

\* create_dir_all gives the store a directory nobody has.
LEMMA StageStep ==
    ASSUME Inv, NEW p \in Procs, StoreStage(p)
    PROVE  TreeInv'
<1>0. /\ TreeTypes /\ TreeOK /\ Jobs /\ PcTypes /\ Tmp(p) \in Names /\ Tmp(p)[2] = p /\ Tmp(p) \in Staging
      /\ job[p] \in Stores /\ at[Tmp(p)] = NoDir
  BY Types, TmpName DEF Inv, StorePcs, HoldPcs, StoreStage, Stages, StageOK
<1>1. PICK d \in FreeDirs : at' = [at EXCEPT ![Tmp(p)] = d]
  BY <1>0 DEF StoreStage
<1>2. d \in Dirs /\ (\A n \in Names : at[n] # d) /\ (\A q \in Procs : open[q] # d)
  BY DEF FreeDirs
<1>3. dir' = dir /\ opened' = opened /\ open' = open /\ job' = job /\ cache' = cache /\ pc' = [pc EXCEPT ![p] = "image"]
  BY DEF StoreStage, local, Goto
<1>4. \A m \in Names : at'[m] = IF m = Tmp(p) THEN d ELSE at[m]
  BY <1>0, <1>1 DEF TreeTypes
<1>5. Others(p)
  BY StepOfOne DEF Inv, Step, Store
<1>6. TreeTypes'
  BY <1>0, <1>1, <1>2, <1>3 DEF TreeTypes
<1>7. TreeOK'
  <2>1. \A a, b \in Names : at'[a] = at'[b] /\ at'[a] # NoDir => a = b
    BY <1>0, <1>2, <1>4 DEF TreeOK
  <2>2. ASSUME NEW c \in Dirs, \A n \in Names : at'[n] # c PROVE dir'[c] = Empty
    <3>1. \A n \in Names : at[n] # c
      BY <1>0, <1>4, <2>2, NamesAssumption
    <3> QED
      BY <1>0, <1>3, <3>1 DEF TreeOK
  <2> QED
    BY <2>1, <2>2 DEF TreeOK
<1>8. Opens'
  BY <1>2, <1>3, <1>4 DEF Inv, Opens, OpenOK
<1>9. \A m \in Names \ {Tmp(p)} : Kept(m)
  BY <1>3, <1>4 DEF Kept
<1>10. OpenMoves
  BY <1>3 DEF OpenMoves
<1>11. StageOK(p)'
  <2>1. dir[d] = Empty
    BY <1>0, <1>2 DEF TreeOK
  <2>2. pc'[p] = "image" /\ Tmp(p)' = Tmp(p) /\ at'[Tmp(p)] = d /\ d # NoDir
    BY <1>0, <1>2, <1>3, <1>4, NamesAssumption DEF PcTypes, Tmp
  <2> QED
    BY <1>2, <1>3, <2>1, <2>2, SMT DEF StageOK, Staged, StagePcs, Empty
<1>12. Stages'
  <2> SUFFICES ASSUME NEW q \in Procs \ {p} PROVE StageOK(q)'
    BY <1>11 DEF Stages
  <2>1. pc[q] \in StorePcs => Tmp(q) \in Names /\ Tmp(q)[2] = q
    BY <1>0, TmpName
  <2>2. pc[q] = "sweep" => at'[Tmp(q)] = NoDir
    BY <1>0, <1>4, <2>1 DEF Inv, Stages, StageOK, StorePcs, HoldPcs
  <2>3. pc[q] \in StagePcs => Kept(Tmp(q))
    BY <1>0, <1>9, <2>1 DEF StorePcs, HoldPcs
  <2> QED
    BY <1>5, <1>10, <2>2, <2>3, KeptStage
<1>13. \A k \in Keys : Kept(Entry(k))
  BY <1>0, <1>9, NameFacts
<1>14. Entries'
  BY <1>13, KeptEntry DEF Entries
<1>15. VmOK(p)'
  <2>1. pc[p] \notin Warm /\ pc'[p] \notin {"syms", "unlock"} /\ cache'[p] = cache[p]
    BY <1>0, <1>3 DEF StoreStage, Warm, PcTypes
  <2> QED
    BY <2>1, VmCold
<1>16. Vms'
  <2> SUFFICES ASSUME NEW q \in Procs \ {p} PROVE VmOK(q)'
    BY <1>15 DEF Vms
  <2>1. pc[q] = "syms" => job[q].key \in Keys
    BY HolderKey DEF TestPcs
  <2> QED
    BY <1>5, <1>13, <2>1, KeptShrunk, KeptVm
<1> QED
  BY <1>6, <1>7, <1>8, <1>12, <1>14, <1>16 DEF TreeInv

\* What a store publishes is whole.
LEMMA StagedIsWhole ==
    ASSUME Inv, NEW p \in Procs, pc[p] \in {"rename", "swap"}
    PROVE  LET t == at[Tmp(p)]
           IN  /\ t \in Dirs /\ Whole(t) /\ \A q \in Procs : open[q] # t
               /\ dir[t].img # NoFile /\ dir[t].vml # NoFile => dir[t].img = dir[t].vml
<1>1. Staged(p)
  BY DEF Inv, Stages, StageOK, StagePcs
<1>2. job[p] \in Stores /\ Tmp(p) \in Names
  BY TmpName DEF Inv, StorePcs, HoldPcs, StagePcs
<1>3. job[p].build \in Builds /\ job[p].build # NoFile /\ job[p].vml \in BOOLEAN
  BY <1>2, NamesAssumption DEF Stores
<1> DEFINE t == at[Tmp(p)]
<1>4. t \in Dirs /\ \A q \in Procs : open[q] # t
  BY <1>1, <1>2, Types DEF Inv, TreeTypes, Staged
<1>5. /\ dir[t].img = job[p].build
      /\ dir[t].vml = IF job[p].vml THEN job[p].build ELSE NoFile
      /\ dir[t].meta = [build |-> job[p].build, vml |-> job[p].vml]
  BY <1>1 DEF Staged
<1>6. dir[t].meta # NoMeta /\ dir[t].meta.build = job[p].build /\ dir[t].meta.vml = job[p].vml
  BY <1>3, <1>5, SMT DEF NoMeta
<1> QED
  BY <1>3, <1>4, <1>5, <1>6 DEF Whole

\* The rename over nothing or over an empty directory, and the exchange with
\* what the entry holds.
Renamed(p) ==
    LET e == Entry(job[p].key)
    IN  /\ at[e] = NoDir \/ IsEmpty(at[e])
        /\ at' = [at EXCEPT ![e] = at[Tmp(p)], ![Tmp(p)] = NoDir]
        /\ opened' = opened \ {at[e]}
Exchanged(p) ==
    LET e == Entry(job[p].key)
    IN  /\ at[e] # NoDir
        /\ at' = [at EXCEPT ![e] = at[Tmp(p)], ![Tmp(p)] = at[e]]
        /\ opened' = opened

\* Publishing moves the whole staged directory into the entry.
LEMMA PublishStep ==
    ASSUME Inv, NEW p \in Procs, Others(p), pc[p] \in {"rename", "swap"}, pc'[p] = "drop",
           Renamed(p) \/ Exchanged(p), UNCHANGED <<dir, open, cache>>
    PROVE  TreeInv'
<1> DEFINE key == job[p].key
           e   == Entry(key)
           t   == at[Tmp(p)]
<1>0. /\ TreeTypes /\ TreeOK /\ Jobs /\ key \in Keys /\ e \in Names
      /\ Tmp(p) \in Names /\ Tmp(p)[2] = p /\ Tmp(p) # e /\ Tmp(p) \in Staging
  BY Types, TmpName DEF Inv, StorePcs, HoldPcs, StagePcs
<1>1. /\ t \in Dirs /\ t # NoDir /\ Whole(t) /\ (\A q \in Procs : open[q] # t)
      /\ dir[t].img # NoFile /\ dir[t].vml # NoFile => dir[t].img = dir[t].vml
  BY StagedIsWhole, NamesAssumption
<1>2. t # at[e]
  BY <1>0, <1>1 DEF TreeOK
<1>3. /\ at'[e] = t
      /\ \A m \in Names \ {e, Tmp(p)} : at'[m] = at[m]
      /\ at' \in [Names -> Dirs \cup {NoDir}]
      /\ \/ at'[Tmp(p)] = NoDir /\ (at[e] = NoDir \/ IsEmpty(at[e])) /\ opened' = opened \ {at[e]}
         \/ at'[Tmp(p)] = at[e] /\ at[e] # NoDir /\ opened' = opened
  BY <1>0, <1>1 DEF TreeTypes, Renamed, Exchanged
<1> HIDE DEF e, t, key
<1>4. TreeTypes'
  BY <1>0, <1>3 DEF TreeTypes
<1>5. TreeOK'
  <2>1. ASSUME NEW a \in Names, NEW b \in Names, at'[a] = at'[b], at'[a] # NoDir PROVE a = b
    <3>1. \A m \in Names \ {e, Tmp(p)} : at[m] # NoDir => at[m] # t /\ at[m] # at[e]
      BY <1>0 DEF TreeOK, t
    <3> QED
      BY <1>0, <1>1, <1>2, <1>3, <2>1, <3>1, SMT DEF TreeOK
  <2>2. ASSUME NEW c \in Dirs, \A n \in Names : at'[n] # c PROVE dir'[c] = Empty
    <3>1. \A n \in Names : at[n] = c => n = e
      BY <1>0, <1>3, <2>2 DEF t
    <3>2. CASE at[e] = c
      <4>1. at'[Tmp(p)] # at[e]
        BY <1>0, <2>2, <3>2
      <4>2. IsEmpty(at[e])
        BY <1>3, <4>1, <3>2, NamesAssumption
      <4> QED
        BY <3>2, <4>2 DEF IsEmpty
    <3>3. CASE at[e] # c
      <4>1. \A n \in Names : at[n] # c
        BY <3>1, <3>3
      <4> QED
        BY <1>0, <4>1 DEF TreeOK
    <3> QED
      BY <3>2, <3>3
  <2> QED
    BY <2>1, <2>2 DEF TreeOK
<1>6. \A m \in Names \ {e, Tmp(p)} : Kept(m)
  <2> SUFFICES ASSUME NEW m \in Names \ {e, Tmp(p)} PROVE Kept(m)
    OBVIOUS
  <2>1. at[m] # NoDir => at[m] # at[e]
    BY <1>0 DEF TreeOK
  <2> QED
    BY <1>3, <2>1 DEF Kept
<1>7. Opens'
  <2> SUFFICES ASSUME NEW q \in Procs, open[q] # NoDir, NEW m \in Names, at'[m] = open[q]
               PROVE  open[q] \in opened'
    BY DEF Opens, OpenOK
  <2>1. m # e
    BY <1>1, <1>3
  <2>2. CASE m = Tmp(p)
    BY <1>0, <1>3, <2>2 DEF Inv, Opens, OpenOK
  <2>3. CASE m # Tmp(p)
    <3>1. Kept(m) /\ at[m] = open[q]
      BY <1>3, <1>6, <2>1, <2>3
    <3> QED
      BY <3>1 DEF Inv, Opens, OpenOK, Kept
  <2> QED
    BY <2>2, <2>3
<1>8. OpenMoves
  BY DEF OpenMoves
<1>9. Stages'
  <2>0. StageOK(p)'
    BY StageOut DEF StagePcs
  <2> SUFFICES ASSUME NEW q \in Procs \ {p} PROVE StageOK(q)'
    BY <2>0 DEF Stages
  <2>1. pc[q] \in StorePcs => Tmp(q) \in Names /\ Tmp(q)[2] = q
    BY <1>0, TmpName
  <2>2. pc[q] \in StorePcs => Tmp(q) # Tmp(p) /\ Tmp(q) # e
    <3>1. e[2] = Final
      BY DEF e, Entry
    <3> QED
      BY <1>0, <2>1, <3>1, NamesAssumption
  <2>3. pc[q] = "sweep" => at'[Tmp(q)] = NoDir
    BY <1>3, <2>1, <2>2 DEF Inv, Stages, StageOK, StorePcs, HoldPcs
  <2>4. pc[q] \in StagePcs => Kept(Tmp(q))
    BY <1>6, <2>1, <2>2 DEF StorePcs, HoldPcs
  <2> QED
    BY <1>8, <2>3, <2>4, KeptStage
<1>10. ASSUME NEW k \in Keys, k # key PROVE Kept(Entry(k))
  <2>1. Entry(k) \in Names /\ Entry(k) # e /\ Entry(k) # Tmp(p)
    BY <1>0, <1>10, NameFacts DEF e, Entry
  <2> QED
    BY <1>6, <2>1
<1>11. Entries'
  <2> SUFFICES ASSUME NEW k \in Keys PROVE EntryOK(k)'
    BY DEF Entries
  <2>1. CASE k = key
    <3>1. Entry(k)' = e
      BY <2>1 DEF e, Entry
    <3> QED
      BY <1>1, <1>3, <3>1 DEF EntryOK, Whole
  <2>2. CASE k # key
    BY <1>10, <2>2, KeptEntry
  <2> QED
    BY <2>1, <2>2
<1>12. VmOK(p)'
  BY VmCold DEF Warm
<1>13. Vms'
  <2> SUFFICES ASSUME NEW q \in Procs \ {p} PROVE VmOK(q)'
    BY <1>12 DEF Vms
  <2>1. ASSUME pc[q] = "syms" PROVE job[q].key \in Keys /\ job[q].key # key
    <3>1. job[q].key \in Keys /\ q \in sh[job[q].key]
      BY <2>1, HolderKey DEF TestPcs, Inv, Locks, LockOK
    <3>2. ex[key] = {p} /\ sh[key] = {}
      BY <1>0 DEF Inv, Locks, LockOK, Exclusive, HoldPcs, StagePcs, key
    <3> QED
      BY <3>1, <3>2
  <2> QED
    BY <1>10, <2>1, KeptShrunk, KeptVm
<1> QED
  BY <1>4, <1>5, <1>7, <1>9, <1>11, <1>13 DEF TreeInv

\* A clean opens the directory of an entry, which is then on record.
LEMMA OpenStep ==
    ASSUME Inv, NEW p \in Procs, CleanOpen(p)
    PROVE  TreeInv'
<1>0. TreeTypes /\ TreeOK /\ PcTypes /\ VisitTypes /\ Others(p) /\ pc[p] = "clean"
  BY Types, StepOfOne DEF Inv, Step, Clean, CleanOpen
<1>1. PICK n \in todo[p] :
        /\ open' = [open EXCEPT ![p] = at[n]]
        /\ opened' = opened \cup ({at[n]} \ {NoDir})
        /\ pc' = [pc EXCEPT ![p] = IF at[n] = NoDir THEN "clean" ELSE "unlink"]
  BY DEF CleanOpen, Goto
<1>2. n \in Names \ Staging
  BY <1>0, <1>1, NamesAssumption DEF Inv, Visits, VisitOK, VisitTypes, Staging
<1>3. at' = at /\ dir' = dir /\ cache' = cache /\ at[n] \in Dirs \cup {NoDir}
  BY <1>0, <1>2 DEF CleanOpen, TreeTypes
<1>4. open'[p] = at[n] /\ pc'[p] \in {"clean", "unlink"} /\ \A q \in Procs \ {p} : open'[q] = open[q]
  BY <1>0, <1>1 DEF VisitTypes, PcTypes
<1>5. TreeTypes' /\ TreeOK'
  BY <1>0, <1>1, <1>3 DEF TreeTypes, TreeOK
<1>6. Opens'
  BY <1>1, <1>3, <1>4, SMT DEF Inv, Opens, OpenOK
<1>7. \A m : Kept(m)
  BY <1>1, <1>3 DEF Kept
<1>8. OpenMoves
  BY <1>2, <1>4 DEF OpenMoves
<1>9. Stages'
  <2>0. StageOK(p)'
    BY <1>4, StageOut DEF StagePcs
  <2> SUFFICES ASSUME NEW q \in Procs \ {p} PROVE StageOK(q)'
    BY <2>0 DEF Stages
  <2>1. pc[q] = "sweep" => at'[Tmp(q)] = NoDir
    BY <1>3 DEF Inv, Stages, StageOK
  <2> QED
    BY <1>0, <1>7, <1>8, <2>1, KeptStage
<1>10. Entries'
  BY <1>7, KeptEntry DEF Entries
<1>11. VmOK(p)'
  BY <1>0, <1>3, <1>4, VmCold DEF Warm
<1>12. Vms'
  BY <1>0, <1>7, <1>11, KeptShrunk, KeptVm DEF Vms
<1> QED
  BY <1>5, <1>6, <1>9, <1>10, <1>12 DEF TreeInv

\* It takes files of that directory only, and takes them away.
LEMMA UnlinkStep ==
    ASSUME Inv, NEW p \in Procs, CleanUnlink(p)
    PROVE  TreeInv'
<1> DEFINE o == open[p]
<1>0. TreeTypes /\ TreeOK /\ VisitTypes /\ OpenTypes /\ Others(p) /\ pc[p] = "unlink"
  BY Types, StepOfOne DEF Inv, Step, Clean, CleanUnlink
<1>1. o \in Dirs /\ o # NoDir
  BY <1>0 DEF VisitTypes, OpenTypes
<1>2. PICK f \in Files : Has(o, f) /\ dir' = [dir EXCEPT ![o][f] = Empty[f]]
  BY DEF CleanUnlink
<1>3. UNCHANGED <<at, opened, pc, job, open, vm, cache>>
  BY DEF CleanUnlink, local
<1>4. \A d \in Dirs \ {o} : dir'[d] = dir[d]
  BY <1>0, <1>2 DEF TreeTypes
<1>5. /\ dir'[o] \in EntryType
      /\ dir'[o].img \in {dir[o].img, NoFile} /\ dir'[o].vml \in {dir[o].vml, NoFile}
  <2>1. dir[o] \in EntryType /\ dir'[o] = [dir[o] EXCEPT ![f] = Empty[f]]
    BY <1>0, <1>1, <1>2 DEF TreeTypes
  <2>2. CASE f = "img"
    BY <2>1, <2>2 DEF EntryType, Empty
  <2>3. CASE f = "vml"
    BY <2>1, <2>3 DEF EntryType, Empty
  <2>4. CASE f = "meta"
    BY <2>1, <2>4 DEF EntryType, Empty
  <2> QED
    BY <1>2, <2>2, <2>3, <2>4 DEF Files
<1>6. TreeTypes'
  BY <1>0, <1>2, <1>3, <1>4, <1>5 DEF TreeTypes
<1>7. TreeOK'
  <2>1. ASSUME NEW c \in Dirs, \A n \in Names : at[n] # c PROVE dir'[c] = Empty
    <3>1. dir[c] = Empty
      BY <1>0, <2>1 DEF TreeOK
    <3>2. c # o
      BY <1>2, <3>1 DEF Has
    <3> QED
      BY <1>4, <3>1, <3>2
  <2> QED
    BY <1>0, <1>3, <2>1 DEF TreeOK
<1>8. Opens'
  BY <1>3 DEF Inv, Opens, OpenOK
<1>9. \A m \in Names : at[m] # o => Kept(m)
  BY <1>0, <1>3, <1>4 DEF Kept, TreeTypes
<1>10. OpenMoves
  BY <1>3 DEF OpenMoves
<1>11. Stages'
  <2>0. StageOK(p)'
    BY <1>0, <1>3, StageOut DEF StagePcs
  <2> SUFFICES ASSUME NEW q \in Procs \ {p} PROVE StageOK(q)'
    BY <2>0 DEF Stages
  <2>1. pc[q] = "sweep" => at'[Tmp(q)] = NoDir
    BY <1>3 DEF Inv, Stages, StageOK
  <2>2. pc[q] \in StagePcs => Tmp(q) \in Names /\ at[Tmp(q)] # o
    BY TmpName DEF Inv, Stages, StageOK, Staged, StorePcs, HoldPcs
  <2> QED
    BY <1>0, <1>9, <1>10, <2>1, <2>2, KeptStage
<1>12. Entries'
  <2> SUFFICES ASSUME NEW k \in Keys PROVE EntryOK(k)'
    BY DEF Entries
  <2>1. Entry(k) \in Names /\ Entry(k)' = Entry(k) /\ EntryOK(k)
    BY DEF Entry, Names, Inv, Entries
  <2>2. CASE at[Entry(k)] = o
    <3>1. o \in opened
      BY <1>1, <2>1, <2>2 DEF Inv, Opens, OpenOK
    <3>2. dir[o].img # NoFile /\ dir[o].vml # NoFile => dir[o].img = dir[o].vml
      BY <1>1, <2>1, <2>2 DEF EntryOK
    <3> QED
      BY <1>3, <1>5, <2>1, <2>2, <3>1, <3>2 DEF EntryOK
  <2>3. CASE at[Entry(k)] # o
    BY <1>9, <2>1, <2>3, KeptEntry
  <2> QED
    BY <2>2, <2>3
<1>13. VmOK(p)'
  BY <1>0, <1>3, VmCold DEF Warm
<1>14. Vms'
  <2> SUFFICES ASSUME NEW q \in Procs \ {p} PROVE VmOK(q)'
    BY <1>13 DEF Vms
  <2>1. pc[q] = "syms" => Entry(job[q].key) \in Names
    BY HolderKey DEF TestPcs, Entry, Names
  <2>2. \A m \in Names : Shrunk(m)
    BY <1>3, <1>5, <1>9, KeptShrunk DEF Shrunk
  <2> QED
    BY <1>0, <2>1, <2>2, KeptVm
<1> QED
  BY <1>6, <1>7, <1>8, <1>11, <1>12, <1>14 DEF TreeInv

\* The files of a store, one by one.
LEMMA StagingStep ==
    ASSUME Inv, NEW p \in Procs, StoreImage(p) \/ StoreVmlinux(p) \/ StoreMetadata(p)
    PROVE  TreeInv'
<1> DEFINE t == at[Tmp(p)]
<1>0. TreeTypes /\ PcTypes /\ Jobs /\ Others(p) /\ pc[p] \in {"image", "vmlinux", "metadata"}
  BY Types, StepOfOne DEF Inv, Step, Store, StoreImage, StoreVmlinux, StoreMetadata
<1>1. Staged(p) /\ t # NoDir /\ job[p] \in Stores /\ Tmp(p) \in Names
  BY <1>0, TmpName DEF Inv, Stages, StageOK, Staged, StagePcs, StorePcs, HoldPcs
<1>2. t \in Dirs /\ dir[t] \in EntryType
  BY <1>0, <1>1 DEF TreeTypes
<1>3. job[p].build \in Builds /\ job[p].vml \in BOOLEAN
  BY <1>1 DEF Stores
<1>4. UNCHANGED <<at, opened, job, open, cache>> /\ Tmp(p)' = Tmp(p)
  BY DEF StoreImage, StoreVmlinux, StoreMetadata, local, Tmp
<1>5. /\ dir[t].img = IF pc[p] = "image" THEN NoFile ELSE job[p].build
      /\ dir[t].vml = IF job[p].vml /\ pc[p] \notin {"image", "vmlinux"} THEN job[p].build ELSE NoFile
      /\ dir[t].meta = NoMeta
      /\ \A q \in Procs : open[q] # t
  BY <1>0, <1>1 DEF Staged
<1>6. ASSUME NEW v \in EntryType, dir' = [dir EXCEPT ![t] = v], pc'[p] \in StagePcs,
             v.img = IF pc'[p] = "image" THEN NoFile ELSE job[p].build,
             v.vml = IF job[p].vml /\ pc'[p] \notin {"image", "vmlinux"} THEN job[p].build ELSE NoFile,
             v.meta = IF pc'[p] \in {"rename", "swap"}
                      THEN [build |-> job[p].build, vml |-> job[p].vml] ELSE NoMeta
      PROVE  TreeInv'
  <2>1. dir'[t] = v
    BY <1>0, <1>2, <1>6 DEF TreeTypes
  <2>2. Staged(p)'
    BY <1>1, <1>4, <1>5, <1>6, <2>1 DEF Staged
  <2>3. StageOK(p)'
    BY <1>6, <2>2 DEF StageOK, StagePcs
  <2>4. VmOK(p)'
    BY <1>0, <1>4, <1>6, VmCold DEF Warm, StagePcs
  <2> QED
    BY <1>0, <1>4, <1>6, <2>3, <2>4, WriteStep DEF StagePcs
<1>7. CASE StoreImage(p)
  <2> DEFINE v == [dir[t] EXCEPT !.img = job[p].build]
  <2>1. dir' = [dir EXCEPT ![t] = v] /\ pc'[p] = "vmlinux" /\ pc[p] = "image"
    BY <1>0, <1>1, <1>2, <1>7 DEF StoreImage, WriteFile, Goto, PcTypes, TreeTypes
  <2>2. v \in EntryType /\ v.img = job[p].build /\ v.vml = dir[t].vml /\ v.meta = dir[t].meta
    BY <1>2, <1>3 DEF EntryType
  <2> HIDE DEF v, t
  <2> QED
    BY <1>5, <1>6, <2>1, <2>2 DEF StagePcs
<1>8. CASE StoreVmlinux(p)
  <2> DEFINE v == IF job[p].vml THEN [dir[t] EXCEPT !.vml = job[p].build] ELSE dir[t]
  <2>1. pc'[p] = "metadata" /\ pc[p] = "vmlinux"
    BY <1>0, <1>1, <1>8 DEF StoreVmlinux, Goto, PcTypes
  <2>2. dir' = [dir EXCEPT ![t] = v]
    BY <1>0, <1>1, <1>2, <1>8 DEF StoreVmlinux, WriteFile, TreeTypes
  <2>3. /\ v \in EntryType /\ v.img = dir[t].img /\ v.meta = dir[t].meta
        /\ v.vml = IF job[p].vml THEN job[p].build ELSE dir[t].vml
    BY <1>2, <1>3 DEF EntryType
  <2> HIDE DEF v, t
  <2> QED
    BY <1>5, <1>6, <2>1, <2>2, <2>3 DEF StagePcs
<1>9. CASE StoreMetadata(p)
  <2> DEFINE m == [build |-> job[p].build, vml |-> job[p].vml]
             v == [dir[t] EXCEPT !.meta = m]
  <2>1. pc'[p] = "rename" /\ pc[p] = "metadata"
    BY <1>0, <1>1, <1>9 DEF StoreMetadata, Goto, PcTypes
  <2>2. dir' = [dir EXCEPT ![t] = v]
    BY <1>0, <1>1, <1>2, <1>9 DEF StoreMetadata, WriteFile, TreeTypes
  <2>3. m \in Metas
    BY <1>3 DEF Metas
  <2>4. v \in EntryType /\ v.img = dir[t].img /\ v.vml = dir[t].vml /\ v.meta = m
    BY <1>2, <2>3 DEF EntryType
  <2> HIDE DEF v, t
  <2> QED
    BY <1>5, <1>6, <2>1, <2>2, <2>4 DEF StagePcs
<1> QED
  BY <1>7, <1>8, <1>9

\* The steps of a store that remove a staging directory, or nothing.
LEMMA StoreTree ==
    ASSUME Inv, NEW p \in Procs, Store(p)
    PROVE  TreeInv'
<1>0. /\ TreeTypes /\ PcTypes /\ VisitTypes /\ CallTypes /\ Jobs /\ Others(p)
      /\ pc[p] \in StorePcs => Tmp(p) \in Names /\ Tmp(p)[2] = p
  BY Types, StepOfOne, TmpName DEF Inv, Step
<1>1. pc[p] \notin Warm
  BY DEF Store, StoreCall, StoreLock, StoreRecheckMeta, StoreRecheckImage, StoreClear,
     SweepProbe, SweepRemove,
     StoreStage, StoreImage, StoreVmlinux, StoreMetadata, StoreRename, StoreSwap, StoreFails, StoreDrop, Warm
<1>2. CASE StoreCall(p) \/ StoreLock(p) \/ StoreRecheckMeta(p) \/ StoreRecheckImage(p) \/ StoreFails(p)
  <2>1. UNCHANGED <<tree, open, cache>>
    BY <1>2 DEF StoreCall, StoreLock, StoreRecheckMeta, StoreRecheckImage, LookupMeta,
       StoreFails, local, kept
  <2>2. pc'[p] \in {"lockex", "recheck", "idle", "recheckimg", "clear", "drop"}
    BY <1>0, <1>2 DEF StoreCall, StoreLock, StoreRecheckMeta, StoreRecheckImage,
       LookupMeta, StoreFails, Goto,
       Return, PcTypes
  <2>3. StageOK(p)' /\ VmOK(p)'
    BY <1>1, <2>1, <2>2, StageOut, VmCold DEF StagePcs
  <2> QED
    BY <1>0, <2>1, <2>3, Quiet
<1>3. CASE StoreClear(p)
  <2>1. RemoveTree(Tmp(p)) /\ UNCHANGED <<open, cache, job>> /\ pc'[p] = "sweep" /\ pc[p] = "clear"
    BY <1>0, <1>3 DEF StoreClear, Goto, PcTypes
  <2>2. Tmp(p) \in Names /\ Tmp(p)[2] = p /\ Tmp(p)' = Tmp(p)
    BY <1>0, <2>1 DEF StorePcs, HoldPcs, Tmp
  <2>3. StageOK(p)'
    BY <1>0, <2>1, <2>2 DEF StageOK, StagePcs, RemoveTree, TreeTypes
  <2>4. VmOK(p)'
    BY <1>1, <2>1, VmCold DEF Warm
  <2>5. \A q \in Procs \ {p} : pc[q] \in StagePcs => Tmp(q) # Tmp(p)
    BY <1>0, <2>2, TmpName DEF StorePcs, HoldPcs
  <2> QED
    BY <1>0, <2>1, <2>2, <2>3, <2>4, <2>5, RemoveStep
<1>4. CASE SweepProbe(p)
  <2>1. UNCHANGED <<tree, open, cache, pc, job>> /\ pc[p] = "sweep"
    BY <1>4 DEF SweepProbe
  <2>2. StageOK(p)'
    BY <2>1 DEF Inv, Stages, StageOK, StagePcs, Tmp, tree
  <2>3. VmOK(p)'
    BY <1>1, <2>1, VmCold DEF Warm
  <2> QED
    BY <1>0, <2>1, <2>2, <2>3, Quiet
<1>5. CASE SweepRemove(p)
  <2> DEFINE n == target[p]
  <2>1. RemoveTree(n) /\ UNCHANGED <<open, cache, pc, job>> /\ pc[p] = "sweep" /\ n # NoName
    BY <1>5 DEF SweepRemove
  <2>2. n \in Names /\ n \in Staging /\ pc[n[2]] = "dead"
    BY <1>0, <2>1, SMT DEF Inv, Visits, VisitOK, Dead, VisitTypes
  <2>3. Tmp(p) \in Names /\ Tmp(p)' = Tmp(p) /\ at[Tmp(p)] = NoDir
    BY <1>0, <2>1 DEF StorePcs, HoldPcs, Tmp, Inv, Stages, StageOK
  <2>4. StageOK(p)'
    BY <1>0, <2>1, <2>2, <2>3 DEF StageOK, StagePcs, RemoveTree, TreeTypes
  <2>5. VmOK(p)'
    BY <1>1, <2>1, VmCold DEF Warm
  <2>6. \A q \in Procs \ {p} : pc[q] \in StagePcs => Tmp(q) # n
    BY <1>0, <2>2, TmpName DEF StorePcs, HoldPcs, StagePcs
  <2> HIDE DEF n
  <2> QED
    BY <1>0, <2>1, <2>2, <2>4, <2>5, <2>6, RemoveStep
<1>6. CASE StoreStage(p)
  BY <1>6, StageStep
<1>7. CASE StoreImage(p) \/ StoreVmlinux(p) \/ StoreMetadata(p)
  BY <1>7, StagingStep
<1>8. CASE StoreRename(p)
  <2>1. UNCHANGED <<dir, open, cache, job>> /\ pc[p] = "rename" /\ Tmp(p)' = Tmp(p)
    BY <1>8 DEF StoreRename, local, Tmp
  <2>2. \/ Renamed(p) /\ pc'[p] = "drop"
        \/ at' = at /\ opened' = opened /\ pc'[p] = "swap"
    BY <1>0, <1>8 DEF StoreRename, Renamed, Goto, PcTypes
  <2>3. CASE Renamed(p) /\ pc'[p] = "drop"
    BY <1>0, <2>1, <2>3, PublishStep
  <2>4. CASE at' = at /\ opened' = opened /\ pc'[p] = "swap"
    <3>1. StageOK(p)'
      BY <2>1, <2>4 DEF Inv, Stages, StageOK, StagePcs, Staged
    <3>2. VmOK(p)'
      BY <1>1, <2>1, <2>4, VmCold DEF Warm
    <3> QED
      BY <1>0, <2>1, <2>4, <3>1, <3>2, Quiet DEF tree
  <2> QED
    BY <2>2, <2>3, <2>4
<1>9. CASE StoreSwap(p)
  <2>1. UNCHANGED <<dir, open, cache, opened>> /\ pc[p] = "swap" /\ pc'[p] = "drop"
    BY <1>0, <1>9 DEF StoreSwap, local, Goto, PcTypes
  <2>2. Exchanged(p) \/ at' = at
    BY <1>9 DEF StoreSwap, Exchanged
  <2>3. StageOK(p)' /\ VmOK(p)'
    BY <1>1, <2>1, StageOut, VmCold DEF StagePcs
  <2>4. CASE Exchanged(p)
    BY <1>0, <2>1, <2>4, PublishStep
  <2>5. CASE at' = at
    BY <1>0, <2>1, <2>3, <2>5, Quiet DEF tree
  <2> QED
    BY <2>2, <2>4, <2>5
<1>10. CASE StoreDrop(p)
  <2>1. UNCHANGED <<open, cache>> /\ pc[p] = "drop" /\ pc'[p] = "idle" /\ (RemoveTree(Tmp(p)) \/ UNCHANGED tree)
    BY <1>0, <1>10 DEF StoreDrop, Return, Goto, kept, PcTypes
  <2>2. StageOK(p)' /\ VmOK(p)'
    BY <1>1, <2>1, StageOut, VmCold DEF StagePcs
  <2>3. Tmp(p) \in Names /\ \A q \in Procs \ {p} : pc[q] \in StagePcs => Tmp(q) # Tmp(p)
    BY <1>0, <2>1, TmpName DEF StorePcs, HoldPcs
  <2>4. CASE RemoveTree(Tmp(p))
    BY <1>0, <2>1, <2>2, <2>3, <2>4, RemoveStep
  <2>5. CASE UNCHANGED tree
    BY <1>0, <2>1, <2>2, <2>5, Quiet
  <2> QED
    BY <2>1, <2>4, <2>5
<1> QED
  BY <1>2, <1>3, <1>4, <1>5, <1>6, <1>7, <1>8, <1>9, <1>10 DEF Store

\* A test changes nothing; what it reads under its lock is of one build.
LEMMA TestTree ==
    ASSUME Inv, NEW p \in Procs, Test(p)
    PROVE  TreeInv'
<1>0. PcTypes /\ VmTypes /\ CallTypes /\ Others(p) /\ (pc[p] \in TestPcs => job[p].key \in Keys)
  BY Types, StepOfOne, HolderKey DEF Inv, Step
<1>1. UNCHANGED <<tree, open>>
  BY DEF Test, TestCall, TestLookMeta, LookupMeta, TestLookImage, TestLock, TestBoot,
     TestSymbols, TestUnlock, kept
<1>2. pc'[p] \in TestPcs \cup {"done"}
  BY <1>0 DEF Test, TestCall, TestLookMeta, LookupMeta, TestLookImage, TestLock, TestBoot,
     TestSymbols, TestUnlock,
     PcTypes, Goto, Return, TestPcs
<1>3. StageOK(p)'
  BY <1>2, StageOut DEF StagePcs, TestPcs
<1>4. VmOK(p)'
  <2>1. CASE TestCall(p) \/ TestLookMeta(p) \/ TestLookImage(p) \/ TestLock(p)
    <3>1. cache' = cache /\ pc[p] \notin Warm /\ pc'[p] \notin {"syms", "unlock"}
      BY <1>0, <2>1 DEF TestCall, TestLookMeta, LookupMeta, TestLookImage, TestLock, kept,
         Warm, PcTypes, Goto, Return
    <3> QED
      BY <3>1, VmCold
  <2>2. CASE TestUnlock(p)
    <3>1. cache' = cache /\ pc'[p] \in {"done", "reboot"}
      BY <1>0, <2>2 DEF TestUnlock, kept, PcTypes, Goto, Return
    <3> QED
      BY <3>1, VmCold DEF Warm
  <2>3. CASE TestBoot(p)
    <3> DEFINE e == Entry(job[p].key)
               d == at[e]
    <3>0. cache' = cache /\ pc[p] \in {"boot", "reboot"}
      BY <2>3 DEF TestBoot, kept
    <3>1. CASE pc[p] = "boot" /\ ImageExists(p)
      <4>1. pc'[p] = "syms" /\ job' = job /\ vm' = [vm EXCEPT ![p] = [NoVm EXCEPT !.img = dir[d].img]]
        BY <1>0, <2>3, <3>1 DEF TestBoot, PcTypes, Goto
      <4>2. vm'[p].img = dir[d].img /\ vm'[p].vml = NoFile
        BY <1>0, <4>1 DEF VmTypes, NoVm
      <4>3. d # NoDir /\ dir[d].img # NoFile
        BY <3>1 DEF ImageExists, Has, Empty
      <4>4. dir[d].vml # NoFile => dir[d].vml = dir[d].img
        BY <1>0, <3>0, <4>3 DEF Inv, Entries, EntryOK, TestPcs
      <4>5. \A k \in Keys : cache[p][k] = NoFile
        BY <3>1 DEF Inv, Vms, VmOK, Warm
      <4>6. Entry(job[p].key)' = e /\ at' = at /\ dir' = dir
        BY <1>1, <4>1 DEF Entry, tree
      <4> QED
        BY <3>0, <4>1, <4>2, <4>4, <4>5, <4>6 DEF VmOK
    <3>2. CASE pc[p] # "boot" \/ ~ImageExists(p)
      <4>1. pc'[p] \in {"done", "resyms"}
        BY <1>0, <2>3, <3>2 DEF TestBoot, PcTypes, Goto, Return
      <4> QED
        BY <3>0, <4>1, VmCold DEF Warm
    <3> QED
      BY <3>1, <3>2
  <2>4. CASE TestSymbols(p)
    <3> DEFINE k == job[p].key
               d == at[Entry(k)]
    <3>1. CASE pc[p] = "syms"
      <4>1. pc'[p] = "unlock" /\ k \in Keys
        BY <1>0, <2>4, <3>1 DEF TestSymbols, PcTypes, Goto, TestPcs
      <4>2. cache[p][k] = NoFile /\ vm[p].vml = NoFile
        BY <3>1, <4>1 DEF Inv, Vms, VmOK, Warm
      <4>3. d # NoDir /\ dir[d].vml # NoFile => dir[d].vml = vm[p].img
        BY <3>1 DEF Inv, Vms, VmOK
      <4>4. CASE d # NoDir /\ Has(d, "vml")
        <5>1. vm' = [vm EXCEPT ![p].vml = dir[d].vml]
          BY <2>4, <4>2, <4>4 DEF TestSymbols
        <5>2. vm'[p].vml = dir[d].vml /\ vm'[p].img = vm[p].img
          BY <1>0, <5>1 DEF VmTypes, VmType
        <5> QED
          BY <4>1, <4>3, <4>4, <5>2 DEF VmOK, Warm
      <4>5. CASE ~(d # NoDir /\ Has(d, "vml"))
        <5>1. vm' = vm
          BY <2>4, <4>5 DEF TestSymbols
        <5> QED
          BY <4>1, <4>2, <5>1 DEF VmOK, Warm
      <4> QED
        BY <4>4, <4>5
    <3>2. CASE pc[p] # "syms"
      <4>1. pc'[p] = "over"
        BY <1>0, <2>4, <3>2 DEF TestSymbols, PcTypes, Goto
      <4> QED
        BY <4>1 DEF VmOK, Warm
    <3> QED
      BY <3>1, <3>2
  <2> QED
    BY <2>1, <2>2, <2>3, <2>4 DEF Test
<1> QED
  BY <1>0, <1>1, <1>3, <1>4, Quiet

\* A clean, and a process that ends or begins.
LEMMA OtherTree ==
    ASSUME Inv, NEW p \in Procs, Clean(p) \/ Exit(p) \/ Spawn(p)
    PROVE  TreeInv'
<1>0. PcTypes /\ VisitTypes /\ VmTypes /\ Jobs /\ Others(p)
  BY Types, StepOfOne DEF Inv, Step
<1>1. CASE CleanCall(p) \/ CleanOver(p) \/ Spawn(p)
  <2>1. UNCHANGED <<tree, open, cache>> /\ pc[p] \notin Warm /\ pc'[p] \in {"clean", "idle"}
    BY <1>0, <1>1 DEF CleanCall, CleanOver, Spawn, local, Goto, PcTypes, Warm, Dead
  <2>2. StageOK(p)' /\ VmOK(p)'
    BY <2>1, StageOut, VmCold DEF StagePcs
  <2> QED
    BY <1>0, <2>1, <2>2, Quiet
<1>2. CASE CleanOpen(p)
  BY <1>2, OpenStep
<1>3. CASE CleanUnlink(p)
  BY <1>3, UnlinkStep
<1>4. CASE CleanRmdir(p)
  <2>1. cache' = cache /\ pc[p] = "unlink" /\ pc'[p] = "clean" /\ open'[p] = NoDir
    BY <1>0, <1>4 DEF CleanRmdir, Goto, PcTypes, VisitTypes
  <2>2. RemoveTree(target[p]) \/ UNCHANGED tree
    BY <1>4 DEF CleanRmdir
  <2>3. StageOK(p)' /\ VmOK(p)'
    BY <2>1, StageOut, VmCold DEF StagePcs, Warm
  <2>4. target[p] \in Names /\ target[p][2] = Final
    BY <2>1 DEF Inv, Visits, VisitOK
  <2>5. \A q \in Procs \ {p} : pc[q] \in StagePcs => Tmp(q) # target[p]
    BY <1>0, <2>4, TmpName, NamesAssumption DEF StorePcs, HoldPcs
  <2>6. CASE RemoveTree(target[p])
    BY <1>0, <2>1, <2>3, <2>4, <2>5, <2>6, RemoveStep
  <2>7. CASE UNCHANGED tree
    BY <1>0, <2>1, <2>3, <2>7, Quiet
  <2> QED
    BY <2>2, <2>6, <2>7
<1>5. CASE Exit(p)
  <2>1. UNCHANGED tree /\ pc'[p] = "dead" /\ open'[p] = NoDir /\ \A k \in Keys : cache'[p][k] = NoFile
    BY <1>0, <1>5 DEF Exit, Goto, PcTypes, VisitTypes, VmTypes
  <2>2. StageOK(p)' /\ VmOK(p)'
    BY <2>1, StageOut DEF StagePcs, VmOK
  <2> QED
    BY <1>0, <2>1, <2>2, Quiet
<1> QED
  BY <1>1, <1>2, <1>3, <1>4, <1>5 DEF Clean

-----------------------------------------------------------------------------

\* Every step keeps the inductive invariant.
LEMMA InvStep ==
    ASSUME Inv, [Next]_vars
    PROVE  Inv'
<1>1. ASSUME NEW p \in Procs, Step(p) PROVE Inv'
  <2>1. TreeInv'
    BY <1>1, StoreTree, TestTree, OtherTree DEF Step
  <2>2. TypeOK'
    <3>1. /\ TreeTypes' /\ PcTypes' /\ CallTypes' /\ LockTypes' /\ VmTypes' /\ VisitTypes' /\ OpenTypes'
      BY <1>1, <2>1, PcStep, CallTypesStep, LockTypesStep, VmTypesStep,
         VisitTypesStep DEF TreeInv
    <3> QED
      BY <3>1, Types, PTL
  <2>3. Jobs' /\ Locks' /\ Visits'
    BY <1>1, JobsStep, LocksStep, VisitsStep
  <2> QED
    BY <2>1, <2>2, <2>3 DEF Inv, TreeInv
<1>2. CASE UNCHANGED vars
  <2>1. TypeOK'
    BY <1>2 DEF vars, Inv, TypeOK
  <2>2. Jobs' /\ Locks'
    BY <1>2 DEF vars, Inv, Jobs, JobOK, Locks, LockOK, Exclusive
  <2>3. Visits'
    BY <1>2 DEF vars, Inv, Visits, VisitOK, Dead
  <2>4. TreeOK' /\ Opens'
    BY <1>2 DEF vars, Inv, TreeOK, Opens, OpenOK
  <2>5. Stages'
    BY <1>2 DEF vars, Inv, Stages, StageOK, Staged, Tmp
  <2>6. Entries'
    BY <1>2 DEF vars, Inv, Entries, EntryOK, Whole
  <2>7. Vms'
    BY <1>2 DEF vars, Inv, Vms, VmOK
  <2> QED
    BY <2>1, <2>2, <2>3, <2>4, <2>5, <2>6, <2>7 DEF Inv
<1> QED
  BY <1>1, <1>2 DEF Next, Step

\* The inductive invariant holds throughout.
LEMMA Invariance == Spec => []Inv
  BY InitInv, InvStep, PTL DEF Spec

\* The directory tree, the locks and the state of every process keep their
\* types, whatever is stored, tested, cleaned or killed; in particular a
\* process holds a directory open exactly while remove_dir_all empties it.
THEOREM TypeCorrect == Spec => []TypeOK
<1>1. Inv => TypeOK
  BY DEF Inv
<1> QED
  BY <1>1, Invariance, PTL

\* Whatever stands under a key is the complete output of one CacheDir::store,
\* or being emptied by a clean: no interleaving of stores, sweeps and cleans,
\* and no crash at any step of one, publishes a partial entry.
THEOREM PublishedAlwaysWhole == Spec => []PublishedIsWhole
<1>1. Inv => PublishedIsWhole
  BY DEF Inv, Entries, EntryOK, PublishedIsWhole
<1> QED
  BY <1>1, Invariance, PTL

\* From create_dir_all to the publishing rename the staging directory of a
\* store stands and holds exactly what the store has written, whoever sweeps
\* (clean_orphaned_tmp_dirs), cleans or crashes meanwhile.
THEOREM StagingAlwaysKept == Spec => []StagingIsKept
<1>1. ASSUME Inv PROVE StagingIsKept
  <2> SUFFICES ASSUME NEW p \in Procs, pc[p] \in StagePcs
               PROVE  LET d == at[Tmp(p)] j == job[p]
                      IN  /\ d # NoDir
                          /\ dir[d].img = IF pc[p] = "image" THEN NoFile ELSE j.build
                          /\ dir[d].vml = IF j.vml /\ pc[p] \notin {"image", "vmlinux"}
                                          THEN j.build ELSE NoFile
                          /\ Has(d, "meta") <=> pc[p] \in {"rename", "swap"}
    BY DEF StagingIsKept, StagePcs
  <2>1. Staged(p) /\ job[p].build # NoFile
    BY <1>1, TmpName, NamesAssumption DEF Inv, Stages, StageOK, StorePcs, HoldPcs, Stores
  <2>2. [build |-> job[p].build, vml |-> job[p].vml] # NoMeta
    BY <2>1 DEF NoMeta
  <2> QED
    BY <2>1, <2>2 DEF Staged, Has, Empty
<1> QED
  BY <1>1, Invariance, PTL

\* While a test holds LOCK_SH, the vmlinux it has read is of the build its VM
\* booted (acquire_test_kernel_lock_if_cached).
THEOREM LockedVmAlwaysConsistent == Spec => []LockedVmIsConsistent
<1>1. Inv => LockedVmIsConsistent
  BY DEF Inv, Vms, VmOK, LockedVmIsConsistent
<1> QED
  BY <1>1, Invariance, PTL

ChangesHands(k) ==
    at'[Entry(k)] # at[Entry(k)] =>
        \/ /\ at'[Entry(k)] # NoDir
           /\ Whole(at'[Entry(k)]) /\ sh[k] = {}
           /\ \E p \in ex[k] : at[<<k, p>>] = at'[Entry(k)]
        \/ /\ at'[Entry(k)] = NoDir /\ IsEmpty(at[Entry(k)])
           /\ at[Entry(k)] \in opened

\* Every step changes what an entry names only as ChangesHands allows.
LEMMA HandsStep ==
    ASSUME Inv, NEW k \in Keys, NEW p \in Procs, Step(p)
    PROVE  ChangesHands(k)
<1>0. TreeTypes /\ Jobs /\ Entry(k) \in Names
  BY Types DEF Inv, Entry, Names
<1>1. ASSUME NEW n \in Names, n # Entry(k), NEW v, at' = [at EXCEPT ![n] = v] PROVE ChangesHands(k)
  BY <1>0, <1>1 DEF TreeTypes, ChangesHands
<1>2. ASSUME at' = at PROVE ChangesHands(k)
  BY <1>2 DEF ChangesHands
<1>3. ASSUME pc[p] \in StorePcs PROVE Tmp(p) \in Names /\ Tmp(p) # Entry(k)
  BY <1>0, <1>3, TmpName, NameFacts
<1>4. CASE StoreClear(p)
  BY <1>1, <1>3, <1>4 DEF StoreClear, RemoveTree, StorePcs, HoldPcs
<1>5. CASE SweepRemove(p)
  <2>1. target[p] \in Staging /\ at' = [at EXCEPT ![target[p]] = NoDir]
    BY <1>5 DEF SweepRemove, RemoveTree, Inv, Visits, VisitOK
  <2>2. target[p] \in Names /\ target[p] # Entry(k)
    BY <2>1, NameFacts
  <2> QED
    BY <1>1, <2>1, <2>2
<1>6. CASE StoreStage(p)
  <2>1. Tmp(p) \in Names /\ Tmp(p) # Entry(k)
    BY <1>3, <1>6 DEF StoreStage, StorePcs, HoldPcs
  <2> QED
    BY <1>1, <1>2, <1>6, <2>1 DEF StoreStage
<1>7. CASE StoreDrop(p)
  <2>1. Tmp(p) \in Names /\ Tmp(p) # Entry(k)
    BY <1>3, <1>7 DEF StoreDrop, StorePcs, HoldPcs
  <2> QED
    BY <1>1, <1>2, <1>7, <2>1 DEF StoreDrop, RemoveTree, tree
<1>8. CASE StoreRename(p) \/ StoreSwap(p)
  <2> DEFINE key == job[p].key
             e   == Entry(key)
             t   == at[Tmp(p)]
  <2>1. pc[p] \in {"rename", "swap"}
    BY <1>8 DEF StoreRename, StoreSwap
  <2>2. t \in Dirs /\ t # NoDir /\ Whole(t)
    BY <2>1, StagedIsWhole, NamesAssumption
  <2>3. key \in Keys /\ Tmp(p) = <<key, p>> /\ e \in Names /\ Tmp(p) \in Names /\ Tmp(p) # e /\ Tmp(p) # Entry(k)
    BY <1>0, <1>3, <2>1, TmpName DEF StorePcs, HoldPcs, StagePcs
  <2>4. ex[key] = {p} /\ sh[key] = {}
    BY <2>1, <2>3 DEF Inv, Locks, LockOK, Exclusive, HoldPcs, StagePcs
  <2>5. at' = at \/ (at'[e] = t /\ \A m \in Names \ {e, Tmp(p)} : at'[m] = at[m])
    BY <1>0, <1>8, <2>3 DEF StoreRename, StoreSwap, TreeTypes
  <2>6. CASE k = key /\ at'[e] = t
    BY <2>2, <2>3, <2>4, <2>6 DEF ChangesHands
  <2>7. CASE k # key /\ \A m \in Names \ {e, Tmp(p)} : at'[m] = at[m]
    <3>1. Entry(k) # e
      BY <2>7 DEF Entry
    <3> QED
      BY <1>0, <2>3, <2>7, <3>1 DEF ChangesHands
  <2> QED
    BY <1>2, <2>5, <2>6, <2>7
<1>9. CASE CleanRmdir(p)
  <2> DEFINE n == target[p]
  <2>1. n \in Names
    BY <1>9 DEF CleanRmdir, Inv, Visits, VisitOK
  <2>2. CASE at[n] # NoDir /\ IsEmpty(at[n]) /\ RemoveTree(n) /\ n = Entry(k)
    <3>1. at'[Entry(k)] = NoDir /\ IsEmpty(at[Entry(k)])
      BY <1>0, <2>2 DEF RemoveTree, TreeTypes
    <3>2. ~Whole(at[Entry(k)])
      BY <3>1, SMT DEF IsEmpty, Whole, Empty
    <3>3. at[Entry(k)] \in opened
      BY <2>2, <3>2 DEF Inv, Entries, EntryOK
    <3> QED
      BY <3>1, <3>3 DEF ChangesHands
  <2>3. CASE RemoveTree(n) /\ n # Entry(k)
    BY <1>1, <2>1, <2>3 DEF RemoveTree
  <2>4. CASE at' = at
    BY <1>2, <2>4
  <2> QED
    BY <1>9, <2>2, <2>3, <2>4 DEF CleanRmdir, tree
<1>10. CASE \/ StoreCall(p) \/ StoreLock(p) \/ StoreRecheckMeta(p) \/ StoreRecheckImage(p) \/ SweepProbe(p)
            \/ StoreImage(p) \/ StoreVmlinux(p) \/ StoreMetadata(p) \/ StoreFails(p) \/ Test(p)
            \/ CleanCall(p) \/ CleanOpen(p) \/ CleanUnlink(p) \/ CleanOver(p) \/ Exit(p) \/ Spawn(p)
  <2>1. at' = at
    BY <1>10 DEF StoreCall, StoreLock, StoreRecheckMeta, StoreRecheckImage, LookupMeta,
       SweepProbe, StoreImage,
       StoreVmlinux, StoreMetadata, StoreFails, Test, TestCall, TestLookMeta, TestLookImage, TestLock, TestBoot,
       TestSymbols, TestUnlock, CleanCall, CleanOpen, CleanUnlink, CleanOver, Exit, Spawn, tree
  <2> QED
    BY <1>2, <2>1
<1> QED
  BY <1>4, <1>5, <1>6, <1>7, <1>8, <1>9, <1>10 DEF Step, Store, Clean

\* The directory of a key changes hands only under its exclusive lock, to a
\* whole entry, while nobody reads it under LOCK_SH; else a clean removes it,
\* emptied (the rename and RENAME_EXCHANGE of CacheDir::store, the rmdir of
\* kernel clean).
THEOREM EntryAlwaysChangesHands == Spec => EntryChangesHands
<1>1. ASSUME Inv, [Next]_vars PROVE [\A k \in Keys : ChangesHands(k)]_vars
  BY <1>1, HandsStep DEF Next, Step
<1>2. Spec => [][\A k \in Keys : ChangesHands(k)]_vars
  BY <1>1, Invariance, PTL DEF Spec
<1> QED
  BY <1>2 DEF EntryChangesHands, ChangesHands

-----------------------------------------------------------------------------
(* The cache implements AtomicCache.  A step changes what is stored under a  *)
(* key, who reads it, or what a process has still to store, as one action of *)
(* AtomicCache does; most steps change none of these.                        *)

Shelf  == [k \in Keys |-> Stored(k)]
Orders == [p \in Procs |-> Pending(p)]

\* Only its own step changes what a process has still to store.
LEMMA OrdersMove ==
    ASSUME NEW p \in Procs, Others(p)
    PROVE  Orders' = [Orders EXCEPT ![p] = Pending(p)']
<1>1. \A q \in Procs \ {p} : Pending(q)' = Pending(q)
  BY DEF Others, Pending
<1> QED
  BY <1>1 DEF Orders

\* A directory is not mistaken for its absence.
LEMMA ContentsAreThere ==
    ASSUME NEW v \in EntryType
    PROVE  v # NoDir
<1>1. v \in [img : Builds \cup {NoFile}, vml : Builds \cup {NoFile},
             meta : [build : Builds \cup {NoFile}, vml : BOOLEAN]]
  <2>1. Metas \cup {NoMeta} \subseteq [build : Builds \cup {NoFile}, vml : BOOLEAN]
    <3>1. NoMeta \in [build : Builds \cup {NoFile}, vml : BOOLEAN]
      BY DEF NoMeta
    <3>2. ASSUME NEW m \in Metas PROVE m \in [build : Builds \cup {NoFile}, vml : BOOLEAN]
      BY SMT DEF Metas
    <3> QED
      BY <3>1, <3>2
  <2> QED
    BY <2>1, SMT DEF EntryType
<1> QED
  BY <1>1, NamesAssumption

\* An entry whose directory and files stay is stored as before.
LEMMA StoredKept ==
    ASSUME NEW k \in Keys, at'[Entry(k)] = at[Entry(k)],
           at[Entry(k)] # NoDir => dir'[at[Entry(k)]] = dir[at[Entry(k)]]
    PROVE  Stored(k)' = Stored(k)
  BY DEF Stored, Entry

\* So is the whole cache, when that goes for every entry.
LEMMA ShelfKept ==
    ASSUME \A k \in Keys : /\ at'[Entry(k)] = at[Entry(k)]
                           /\ at[Entry(k)] # NoDir => dir'[at[Entry(k)]] = dir[at[Entry(k)]]
    PROVE  Shelf' = Shelf
<1>1. \A k \in Keys : Stored(k)' = Stored(k)
  BY DEF Stored, Entry
<1> QED
  BY <1>1 DEF Shelf

\* One entry changes, and the others are stored as before.
LEMMA OneStored ==
    ASSUME NEW l \in Keys, NEW v, Stored(l)' = v, \A k \in Keys \ {l} : Stored(k)' = Stored(k)
    PROVE  Shelf' = [Shelf EXCEPT ![l] = v]
<1>1. Shelf' = [k \in Keys |-> IF k = l THEN v ELSE Stored(k)]
  BY DEF Shelf
<1> QED
  BY <1>1 DEF Shelf

\* Removing a staging directory leaves all entries alone.
LEMMA RemoveKeepsShelf ==
    ASSUME Inv, NEW n \in Staging, RemoveTree(n)
    PROVE  Shelf' = Shelf
<1>1. TreeTypes /\ TreeOK
  BY Types DEF Inv
<1> SUFFICES ASSUME NEW k \in Keys
             PROVE  /\ at'[Entry(k)] = at[Entry(k)]
                    /\ at[Entry(k)] # NoDir => dir'[at[Entry(k)]] = dir[at[Entry(k)]]
  BY ShelfKept
<1>2. Entry(k) \in Names /\ n \in Names /\ Entry(k) # n
  <2>1. n \in Names /\ n[2] \in Procs
    BY SMT DEF Names, Staging
  <2>2. Entry(k) \in Names /\ Entry(k)[2] = Final
    BY SMT DEF Entry, Names
  <2> QED
    BY <2>1, <2>2, NamesAssumption
<1>3. at'[Entry(k)] = at[Entry(k)]
  BY <1>1, <1>2 DEF RemoveTree, TreeTypes
<1>4. at[Entry(k)] # NoDir => at[Entry(k)] \in Dirs /\ at[Entry(k)] # at[n]
  BY <1>1, <1>2 DEF TreeTypes, TreeOK
<1> QED
  BY <1>3, <1>4 DEF RemoveTree

\* Writing to a staging directory leaves all entries alone.
LEMMA WriteKeepsShelf ==
    ASSUME Inv, NEW p \in Procs, pc[p] \in StagePcs, NEW f, NEW v, at' = at,
           dir' = [dir EXCEPT ![at[Tmp(p)]][f] = v]
    PROVE  Shelf' = Shelf
<1>1. TreeTypes /\ TreeOK /\ Jobs
  BY Types DEF Inv
<1> SUFFICES ASSUME NEW k \in Keys, at[Entry(k)] # NoDir
             PROVE  dir'[at[Entry(k)]] = dir[at[Entry(k)]]
  BY ShelfKept
<1>2. Entry(k) \in Names /\ Tmp(p) \in Names /\ Entry(k) # Tmp(p)
  BY <1>1, TmpName, NameFacts DEF StorePcs, HoldPcs
<1>3. at[Entry(k)] \in Dirs /\ at[Entry(k)] # at[Tmp(p)]
  BY <1>1, <1>2 DEF TreeTypes, TreeOK
<1> QED
  BY <1>1, <1>3 DEF TreeTypes

\* A store that has no effect yet, or never will.
LEMMA StoreIdles ==
    ASSUME NEW p \in Procs, Others(p), Shelf' = Shelf, sh' = sh, Pending(p)' \in {Pending(p), NoJob}
    PROVE  Atomic!Next \/ UNCHANGED Atomic!state
<1>1. CASE Pending(p)' = Pending(p)
  <2>1. Orders' = Orders
    BY <1>1, OrdersMove DEF Orders
  <2> QED
    BY <2>1 DEF Atomic!state, Shelf, Orders
<1>2. CASE Pending(p)' = NoJob
  <2>1. Orders' = [Orders EXCEPT ![p] = NoJob]
    BY <1>2, OrdersMove
  <2>2. Atomic!Abandon(p)
    BY <2>1 DEF Atomic!Abandon, Shelf, Orders
  <2> QED
    BY <2>2 DEF Atomic!Next
<1> QED
  BY <1>1, <1>2

\* The steps of a store that stay in its staging directory, or before it.
LEMMA StagingIsUnseen ==
    ASSUME Inv, NEW p \in Procs, Store(p), ~StoreCall(p), ~StoreRename(p), ~StoreSwap(p)
    PROVE  Atomic!Next \/ UNCHANGED Atomic!state
<1> USE DEF tree, locks, local, kept
<1>0. Others(p) /\ PcTypes /\ CallTypes /\ Jobs /\ (pc[p] \in StorePcs => Tmp(p) \in Staging)
  BY StepOfOne, Types, TmpName DEF Inv, Step
<1>1. ASSUME UNCHANGED <<at, dir>> PROVE Shelf' = Shelf
  BY <1>1, ShelfKept
<1>2. CASE StoreLock(p) \/ StoreRecheckMeta(p) \/ StoreRecheckImage(p) \/ StoreFails(p)
  <2>1. UNCHANGED <<at, dir, sh>>
    BY <1>2 DEF StoreLock, StoreRecheckMeta, StoreRecheckImage, StoreFails, LookupMeta
  <2>2. pc'[p] = "idle" \/ pc'[p] = "drop" \/ (job'[p] = job[p] /\ pc'[p] \in StorePcs /\ pc[p] \in StorePcs)
    BY <1>0, <1>2 DEF StoreLock, StoreRecheckMeta, StoreRecheckImage, StoreFails, LookupMeta,
       Goto, Return, PcTypes, CallTypes, StorePcs, HoldPcs, StagePcs
  <2>3. pc[p] \in StorePcs \ {"drop"}
    BY <1>2 DEF StoreLock, StoreRecheckMeta, StoreRecheckImage, StoreFails, StorePcs, HoldPcs, StagePcs
  <2>4. Pending(p)' \in {Pending(p), NoJob}
    BY <2>2, <2>3 DEF Pending, StorePcs, HoldPcs, StagePcs
  <2> QED
    BY <1>0, <1>1, <2>1, <2>4, StoreIdles
<1>3. CASE StoreClear(p)
  <2>1. Shelf' = Shelf
    BY <1>0, <1>3, RemoveKeepsShelf DEF StoreClear, StorePcs, HoldPcs
  <2>2. Pending(p)' = Pending(p) /\ sh' = sh
    BY <1>0, <1>3 DEF StoreClear, Goto, PcTypes, Pending
  <2> QED
    BY <1>0, <2>1, <2>2, StoreIdles
<1>4. CASE SweepProbe(p) \/ SweepRemove(p)
  <2>1. Shelf' = Shelf
    <3>1. CASE SweepProbe(p)
      BY <1>1, <3>1 DEF SweepProbe
    <3>2. CASE SweepRemove(p)
      <4>1. target[p] \in Staging
        BY <3>2 DEF SweepRemove, Inv, Visits, VisitOK
      <4> QED
        BY <3>2, <4>1, RemoveKeepsShelf DEF SweepRemove
    <3> QED
      BY <1>4, <3>1, <3>2
  <2>2. Pending(p)' = Pending(p) /\ sh' = sh
    BY <1>4 DEF SweepProbe, SweepRemove, Pending
  <2> QED
    BY <1>0, <2>1, <2>2, StoreIdles
<1>5. CASE StoreStage(p)
  <2>1. \A k \in Keys : at'[Entry(k)] = at[Entry(k)]
    <3> SUFFICES ASSUME NEW k \in Keys PROVE at'[Entry(k)] = at[Entry(k)]
      OBVIOUS
    <3>1. TreeTypes /\ Tmp(p) \in Names /\ Entry(k) \in Names /\ Entry(k) # Tmp(p)
      BY <1>0, <1>5, Types, TmpName, NameFacts DEF Inv, StoreStage, StorePcs, HoldPcs
    <3> QED
      BY <1>5, <3>1 DEF StoreStage, TreeTypes
  <2>2. Shelf' = Shelf
    BY <1>5, <2>1, ShelfKept DEF StoreStage
  <2>3. Pending(p)' = Pending(p) /\ sh' = sh
    BY <1>0, <1>5 DEF StoreStage, Goto, PcTypes, Pending
  <2> QED
    BY <1>0, <2>2, <2>3, StoreIdles
<1>6. CASE StoreImage(p) \/ StoreVmlinux(p) \/ StoreMetadata(p)
  <2>1. at' = at /\ sh' = sh /\ job' = job /\ pc[p] \in StagePcs
    BY <1>6 DEF StoreImage, StoreVmlinux, StoreMetadata, StagePcs
  <2>2. dir' = dir \/ \E f, v : dir' = [dir EXCEPT ![at[Tmp(p)]][f] = v]
    BY <1>6 DEF StoreImage, StoreVmlinux, StoreMetadata, WriteFile
  <2>3. Shelf' = Shelf
    BY <1>1, <2>1, <2>2, WriteKeepsShelf
  <2>4. pc[p] \in StagePcs /\ pc'[p] \in {"vmlinux", "metadata", "rename", "drop"}
    BY <1>0, <1>6, <2>1 DEF StoreImage, StoreVmlinux, StoreMetadata, Goto, PcTypes
  <2>5. Pending(p)' \in {Pending(p), NoJob}
    BY <2>1, <2>4 DEF Pending, StagePcs
  <2> QED
    BY <1>0, <2>1, <2>3, <2>5, StoreIdles
<1>7. CASE StoreDrop(p)
  <2>1. Shelf' = Shelf
    BY <1>0, <1>1, <1>7, RemoveKeepsShelf DEF StoreDrop, StorePcs, HoldPcs
  <2>2. pc'[p] = "idle" /\ sh' = sh
    BY <1>0, <1>7 DEF StoreDrop, Return, Goto, PcTypes
  <2>3. Pending(p)' = NoJob
    BY <2>2 DEF Pending
  <2> QED
    BY <1>0, <2>1, <2>2, <2>3, StoreIdles
<1> QED
  BY <1>2, <1>3, <1>4, <1>5, <1>6, <1>7 DEF Store

\* A call to store asks, and the rename or the exchange publishes: all at once,
\* what was asked for, under a key nobody reads.
LEMMA StorePublishes ==
    ASSUME Inv, NEW p \in Procs, StoreCall(p) \/ StoreRename(p) \/ StoreSwap(p)
    PROVE  Atomic!Next \/ UNCHANGED Atomic!state
<1> USE DEF tree, locks, local, kept
<1>0. Others(p) /\ PcTypes /\ CallTypes /\ TreeTypes /\ Jobs
  BY StepOfOne, Types DEF Inv, Step, Store
<1>1. Orders' = [Orders EXCEPT ![p] = Pending(p)'] /\ Orders[p] = Pending(p)
  BY <1>0, OrdersMove DEF Orders
<1>2. CASE StoreCall(p)
  <2>1. PICK j \in Stores : job' = [job EXCEPT ![p] = j]
    BY <1>2 DEF StoreCall
  <2>2. Pending(p) = NoJob /\ Pending(p)' = j
    BY <1>0, <1>2, <2>1 DEF StoreCall, Goto, PcTypes, CallTypes, Pending
  <2>3. Shelf' = Shelf /\ sh' = sh
    BY <1>2, ShelfKept DEF StoreCall
  <2>4. j \in Atomic!Calls
    BY DEF Stores, Atomic!Calls
  <2>5. Atomic!Ask(p)
    BY <1>1, <2>2, <2>3, <2>4 DEF Atomic!Ask, Shelf, Orders
  <2> QED
    BY <2>5 DEF Atomic!Next
<1>3. CASE StoreRename(p) \/ StoreSwap(p)
  <2> DEFINE j == job[p]
             e == Entry(j.key)
             t == at[Tmp(p)]
  <2>0. pc[p] \in {"rename", "swap"} /\ UNCHANGED <<dir, sh, job>>
    BY <1>3 DEF StoreRename, StoreSwap
  <2>1. /\ j \in Stores /\ j.key \in Keys /\ e \in Names /\ Tmp(p) \in Names /\ Tmp(p) # e
        /\ \A k \in Keys : Entry(k) \in Names /\ Entry(k) # Tmp(p)
    BY <1>0, <2>0, TmpName, NameFacts DEF StorePcs, HoldPcs, StagePcs
  <2>2. sh[j.key] = {}
    BY <2>0, <2>1 DEF Inv, Locks, LockOK, Exclusive, HoldPcs, StagePcs
  <2>3. CASE at' = at
    <3>1. Shelf' = Shelf
      BY <2>0, <2>3, ShelfKept
    <3>2. pc'[p] \in {"drop", "swap"}
      BY <1>0, <1>3 DEF StoreRename, StoreSwap, Goto, PcTypes
    <3>3. Pending(p)' \in {Pending(p), NoJob}
      BY <2>0, <3>2 DEF Pending
    <3> QED
      BY <1>0, <2>0, <3>1, <3>3, StoreIdles
  <2>4. CASE at'[e] = t /\ pc'[p] = "drop" /\ \A m \in Names \ {e, Tmp(p)} : at'[m] = at[m]
    <3>1. Staged(p)
      BY <2>0 DEF Inv, Stages, StageOK, StagePcs
    <3>2. t \in Dirs /\ t # NoDir
      BY <1>0, <2>1, <3>1 DEF Staged, TreeTypes
    <3>3. dir[t] = Atomic!Output(j)
      <4>1. /\ dir[t].img = j.build
            /\ dir[t].vml = IF j.vml THEN j.build ELSE NoFile
            /\ dir[t].meta = [build |-> j.build, vml |-> j.vml]
        BY <2>0, <3>1 DEF Staged
      <4>2. dir[t] \in EntryType
        BY <1>0, <3>2 DEF TreeTypes
      <4>3. dir[t] = [img |-> dir[t].img, vml |-> dir[t].vml, meta |-> dir[t].meta]
        BY <4>2, SMT DEF EntryType
      <4> QED
        BY <4>1, <4>3 DEF Atomic!Output
    <3>4. \A l \in Keys : l = j.key => Stored(l)' = Atomic!Output(j)
      <4> SUFFICES ASSUME NEW l \in Keys, l = j.key PROVE Stored(l)' = Atomic!Output(j)
        OBVIOUS
      <4>1. at'[Entry(l)] = t /\ dir'[t] = Atomic!Output(j) /\ t # NoDir
        BY <2>0, <2>4, <3>2, <3>3
      <4>2. Stored(l)' = IF at'[Entry(l)] = NoDir THEN NoDir ELSE dir'[at'[Entry(l)]]
        BY DEF Stored, Entry
      <4> QED
        BY <4>1, <4>2
    <3>5. \A k \in Keys \ {j.key} : Stored(k)' = Stored(k)
      <4> SUFFICES ASSUME NEW k \in Keys \ {j.key} PROVE Stored(k)' = Stored(k)
        OBVIOUS
      <4>1. Entry(k) # e
        BY SMT DEF Entry
      <4>2. at'[Entry(k)] = at[Entry(k)]
        BY <2>1, <2>4, <4>1
      <4> QED
        BY <2>0, <4>2 DEF Stored, Entry
    <3>6. Shelf' = [Shelf EXCEPT ![j.key] = Atomic!Output(j)]
      <4>1. PICK l \in Keys : l = j.key
        BY <2>1
      <4>2. Stored(l)' = Atomic!Output(j)
        BY <3>4, <4>1
      <4>3. \A k \in Keys \ {l} : Stored(k)' = Stored(k)
        BY <3>5, <4>1
      <4>4. Shelf' = [Shelf EXCEPT ![l] = Atomic!Output(j)]
        BY <4>2, <4>3, OneStored
      <4> QED
        BY <4>1, <4>4
    <3>7. Pending(p) = j /\ Pending(p)' = NoJob
      BY <2>0, <2>4 DEF Pending
    <3>8. j \in Atomic!Calls
      BY <2>1 DEF Stores, Atomic!Calls
    <3>9. Atomic!Publish(p)
      BY <1>1, <2>0, <2>2, <3>6, <3>7, <3>8 DEF Atomic!Publish, Shelf, Orders
    <3> QED
      BY <3>9 DEF Atomic!Next
  <2>5. \/ at' = at
        \/ at'[e] = t /\ pc'[p] = "drop" /\ \A m \in Names \ {e, Tmp(p)} : at'[m] = at[m]
    BY <1>0, <1>3, <2>1 DEF StoreRename, StoreSwap, TreeTypes, Goto, PcTypes
  <2> QED
    BY <2>3, <2>4, <2>5
<1> QED
  BY <1>2, <1>3

\* A test takes and drops its lock; nothing else of it is seen.
LEMMA TestReads ==
    ASSUME Inv, NEW p \in Procs, Test(p)
    PROVE  Atomic!Next \/ UNCHANGED Atomic!state
<1> USE DEF tree, locks, local, kept
<1>0. Others(p) /\ PcTypes /\ CallTypes /\ LockTypes
  BY StepOfOne, Types DEF Inv, Step
<1>1. UNCHANGED <<at, dir>>
  BY DEF Test, TestCall, TestLookMeta, TestLookImage, TestLock, TestBoot, TestSymbols, TestUnlock, LookupMeta
<1>2. Shelf' = Shelf
  BY <1>1, ShelfKept
<1>3. pc[p] \in TestPcs \cup {"idle"} /\ pc'[p] \in TestPcs \cup {"done"}
  <2>1. CASE TestCall(p) \/ TestLookMeta(p) \/ TestLookImage(p) \/ TestLock(p)
    BY <1>0, <2>1 DEF TestCall, TestLookMeta, TestLookImage, TestLock, LookupMeta, Return, Goto,
       PcTypes, TestPcs
  <2>2. CASE TestBoot(p) \/ TestSymbols(p) \/ TestUnlock(p)
    BY <1>0, <2>2 DEF TestBoot, TestSymbols, TestUnlock, Return, Goto, PcTypes, TestPcs
  <2> QED
    BY <2>1, <2>2 DEF Test
<1>4. Pending(p) = NoJob /\ Pending(p)' = NoJob
  BY <1>3 DEF Pending, TestPcs
<1>5. Orders' = Orders
  BY <1>0, <1>4, OrdersMove DEF Orders
<1> DEFINE key == job[p].key
<1>6. \/ sh' = sh \/ sh' = [sh EXCEPT ![key] = @ \cup {p}]
      \/ sh' = [sh EXCEPT ![key] = @ \ {p}]
  BY DEF Test, TestCall, TestLookMeta, TestLookImage, TestLock, TestBoot, TestSymbols, TestUnlock,
     LookupMeta, Unlock
<1>7. CASE sh' = sh
  BY <1>2, <1>5, <1>7 DEF Atomic!state, Shelf, Orders
<1>8. CASE sh' # sh
  <2>1. key \in Keys
    <3>1. pc[p] \in TestPcs
      BY <1>8 DEF Test, TestCall, TestLookMeta, TestLookImage, TestLock, TestBoot, TestSymbols,
         TestUnlock, LookupMeta, TestPcs
    <3> QED
      BY <3>1, HolderKey
  <2>2. Atomic!Read(p, key) \/ Atomic!Leave(p, key)
    BY <1>2, <1>5, <1>6, <1>8 DEF Atomic!Read, Atomic!Leave, Shelf, Orders
  <2> QED
    BY <2>1, <2>2 DEF Atomic!Next
<1> QED
  BY <1>7, <1>8

\* A clean takes a file from the entry it has open, if that is still one, and
\* removes an entry that is empty.
LEMMA CleanTakes ==
    ASSUME Inv, NEW p \in Procs, Clean(p)
    PROVE  Atomic!Next \/ UNCHANGED Atomic!state
<1> USE DEF tree, locks, local, kept
<1>0. Others(p) /\ PcTypes /\ TreeTypes /\ TreeOK /\ sh' = sh
  BY StepOfOne, Types DEF Inv, Step, Clean, CleanCall, CleanOpen, CleanUnlink, CleanRmdir, CleanOver
<1>1. pc[p] \in {"idle", "clean", "unlink"} /\ pc'[p] \in {"idle", "clean", "unlink"}
  BY <1>0 DEF Clean, CleanCall, CleanOpen, CleanUnlink, CleanRmdir, CleanOver, Goto, PcTypes
<1>2. Pending(p) = NoJob /\ Pending(p)' = NoJob
  BY <1>1 DEF Pending
<1>3. Orders' = Orders
  BY <1>0, <1>2, OrdersMove DEF Orders
<1>4. CASE Shelf' = Shelf
  BY <1>0, <1>3, <1>4 DEF Atomic!state, Shelf, Orders
<1>5. ASSUME NEW k \in Keys, Stored(k) # NoDir, \A l \in Keys \ {k} : Stored(l)' = Stored(l),
             \/ \E f \in Files : Stored(k)' = [Stored(k) EXCEPT ![f] = Empty[f]]
             \/ Stored(k) = Empty /\ Stored(k)' = NoDir
      PROVE  Atomic!Next
  <2>1. Atomic!Nothing = Empty /\ DOMAIN Atomic!Nothing = Files
    BY SMT DEF Atomic!Nothing, Empty, NoMeta, Files
  <2>2. Shelf[k] = Stored(k) /\ Shelf' = [Shelf EXCEPT ![k] = Stored(k)']
    BY <1>5, OneStored DEF Shelf
  <2>3. Atomic!Take(k)
    BY <1>0, <1>3, <1>5, <2>1, <2>2 DEF Atomic!Take, Shelf, Orders
  <2> QED
    BY <2>3 DEF Atomic!Next
<1>6. CASE CleanCall(p) \/ CleanOpen(p) \/ CleanOver(p)
  BY <1>4, <1>6, ShelfKept DEF CleanCall, CleanOpen, CleanOver
<1>7. CASE CleanUnlink(p)
  <2> DEFINE o == open[p]
  <2>1. o \in Dirs
    BY <1>7, Types DEF CleanUnlink, Inv, OpenTypes, VisitTypes
  <2>2. PICK f \in Files : at' = at /\ dir' = [dir EXCEPT ![o][f] = Empty[f]]
    BY <1>7 DEF CleanUnlink
  <2>3. dir'[o] = [dir[o] EXCEPT ![f] = Empty[f]] /\ \A d \in Dirs \ {o} : dir'[d] = dir[d]
    BY <1>0, <2>1, <2>2 DEF TreeTypes
  <2>4. \A l \in Keys : at[Entry(l)] # o => Stored(l)' = Stored(l)
    <3> SUFFICES ASSUME NEW l \in Keys, at[Entry(l)] # o PROVE Stored(l)' = Stored(l)
      OBVIOUS
    <3>1. at[Entry(l)] # NoDir => at[Entry(l)] \in Dirs
      BY <1>0, NameFacts DEF TreeTypes
    <3> QED
      BY <2>2, <2>3, <3>1 DEF Stored, Entry
  <2>5. CASE \E k \in Keys : at[Entry(k)] = o
    <3>1. PICK k \in Keys : at[Entry(k)] = o
      BY <2>5
    <3>2. \A l \in Keys \ {k} : at[Entry(l)] # o
      <4> SUFFICES ASSUME NEW l \in Keys \ {k} PROVE at[Entry(l)] # o
        OBVIOUS
      <4>1. Entry(l) # Entry(k)
        BY SMT DEF Entry
      <4>2. Entry(l) \in Names /\ Entry(k) \in Names
        BY NameFacts
      <4> QED
        BY <1>0, <2>1, <3>1, <4>1, <4>2, NamesAssumption DEF TreeOK
    <3>3. Stored(k) = dir[o] /\ Stored(k)' = dir'[o]
      BY <2>1, <2>2, <3>1, NamesAssumption DEF Stored, Entry
    <3>4. Stored(k) # NoDir
      BY <1>0, <2>1, <3>3, ContentsAreThere DEF TreeTypes
    <3> QED
      BY <1>5, <2>3, <2>4, <3>2, <3>3, <3>4
  <2>6. CASE \A k \in Keys : at[Entry(k)] # o
    <3>1. Shelf' = Shelf
      BY <2>4, <2>6 DEF Shelf
    <3> QED
      BY <1>4, <3>1
  <2> QED
    BY <2>5, <2>6
<1>8. CASE CleanRmdir(p)
  <2> DEFINE n == target[p]
  <2>1. n \in Names /\ n[2] = Final
    BY <1>8 DEF CleanRmdir, Inv, Visits, VisitOK
  <2>2. CASE UNCHANGED tree
    BY <1>4, <2>2, ShelfKept
  <2>3. CASE at[n] # NoDir /\ IsEmpty(at[n]) /\ RemoveTree(n)
    <3>1. PICK k \in Keys : n = Entry(k)
      BY <2>1, SMT DEF Names, Entry
    <3>2. at[n] \in Dirs /\ at'[n] = NoDir
      BY <1>0, <2>1, <2>3 DEF TreeTypes, RemoveTree
    <3>3. Stored(k) = Empty /\ Stored(k)' = NoDir
      BY <2>3, <3>1, <3>2 DEF Stored, IsEmpty, Entry
    <3>5. Stored(k) # NoDir
      <4>1. dir[at[n]] = Empty /\ dir[at[n]] \in EntryType
        BY <1>0, <2>3, <3>2 DEF TreeTypes, IsEmpty
      <4> QED
        BY <3>3, <4>1, ContentsAreThere
    <3>4. ASSUME NEW l \in Keys \ {k} PROVE Stored(l)' = Stored(l)
      <4>1. Entry(l) # n /\ Entry(l) \in Names
        BY <3>1, SMT DEF Entry, Names
      <4>2. at'[Entry(l)] = at[Entry(l)]
        BY <1>0, <2>1, <2>3, <4>1 DEF RemoveTree, TreeTypes
      <4>3. at[Entry(l)] # NoDir => at[Entry(l)] \in Dirs /\ at[Entry(l)] # at[n]
        BY <1>0, <2>1, <4>1 DEF TreeTypes, TreeOK
      <4> QED
        BY <2>3, <4>2, <4>3, StoredKept DEF RemoveTree
    <3> QED
      BY <1>5, <3>3, <3>4, <3>5
  <2> QED
    BY <1>8, <2>2, <2>3 DEF CleanRmdir
<1> QED
  BY <1>6, <1>7, <1>8 DEF Clean

\* A process that ends drops its locks and what it had still to store; one that
\* is born has neither.
LEMMA ProcessEnds ==
    ASSUME Inv, NEW p \in Procs, Exit(p) \/ Spawn(p)
    PROVE  Atomic!Next \/ UNCHANGED Atomic!state
<1> USE DEF tree, locks, local, kept
<1>0. Others(p) /\ PcTypes
  BY StepOfOne, Types DEF Inv, Step
<1>1. Shelf' = Shelf
  BY ShelfKept DEF Exit, Spawn
<1>2. pc'[p] \in {"dead", "idle"}
  BY <1>0 DEF Exit, Spawn, Goto, PcTypes
<1>3. Orders' = [Orders EXCEPT ![p] = NoJob]
  BY <1>0, <1>2, OrdersMove DEF Pending
<1>4. CASE Exit(p)
  <2>1. Atomic!Die(p)
    BY <1>1, <1>3, <1>4 DEF Exit, Atomic!Die, Shelf, Orders
  <2> QED
    BY <2>1 DEF Atomic!Next
<1>5. CASE Spawn(p)
  <2>1. Atomic!Abandon(p)
    BY <1>1, <1>3, <1>5 DEF Spawn, Atomic!Abandon, Shelf, Orders
  <2> QED
    BY <2>1 DEF Atomic!Next
<1> QED
  BY <1>4, <1>5

\* CacheDir::store, the tests that read what it stores and kernel clean
\* implement AtomicCache, for any set of processes, keys, builds and
\* directories, with kills and reuse of pids at any step: every store takes
\* effect once, whole and under no reader, or not at all.
THEOREM StoresAlwaysAtomic == Spec => StoresAreAtomic
<1>1. Init => Atomic!Init
  <2> SUFFICES ASSUME Init PROVE Atomic!Init
    OBVIOUS
  <2>1. \A k \in Keys : Stored(k) = NoDir
    BY NameFacts DEF Init, Stored, Names, Entry
  <2>2. \A p \in Procs : Pending(p) = NoJob
    BY DEF Init, Pending
  <2> QED
    BY <2>1, <2>2 DEF Init, Atomic!Init
<1>2. ASSUME Inv, [Next]_vars PROVE [Atomic!Next]_(Atomic!state)
  <2>1. CASE UNCHANGED vars
    <3>1. Shelf' = Shelf /\ Orders' = Orders /\ sh' = sh
      BY <2>1 DEF vars, Shelf, Orders, Stored, Pending, Entry
    <3> QED
      BY <3>1 DEF Atomic!state, Shelf, Orders
  <2>2. CASE Next
    BY <1>2, <2>2, StagingIsUnseen, StorePublishes, TestReads, CleanTakes, ProcessEnds DEF Next
  <2> QED
    BY <1>2, <2>1, <2>2
<1>3. Spec => [][Atomic!Next]_(Atomic!state)
  BY <1>2, Invariance, PTL DEF Spec
<1> QED
  BY <1>1, <1>3, PTL DEF Spec, StoresAreAtomic, Atomic!Spec
=============================================================================
