----------------------------- MODULE KernelCache -----------------------------
(***************************************************************************)
(* The kernel image cache: processes that store a build under a key, test  *)
(* processes that boot a VM from an entry, and `kernel clean`, all on one  *)
(* directory tree, any of them killed at any step.                         *)
(*                                                                         *)
(* A directory is an inode (Dirs) reached through a name: <<k, Final>> is  *)
(* the entry of key k, <<k, p>> the staging directory .tmp-k-p of pid p.   *)
(* A file is represented by the build it came from.                        *)
(***************************************************************************)
EXTENDS Naturals, FiniteSets

CONSTANTS
    Procs,  \* processes, named by their pid
    Keys,   \* cache keys
    Builds, \* what cache_content_matches tells apart: the hashes of a build
    Dirs,   \* directory inodes
    Final,  \* the entry's own name, as opposed to a pid
    NoDir, NoName, NoFile, NoJob,
    MayStore, MayTest, MayClean,  \* which processes do what
    MaxCalls   \* bound: calls made in all

ASSUME NamesAssumption ==
    /\ Final \notin Procs /\ NoDir \notin Dirs /\ NoFile \notin Builds
    /\ NoName \notin Keys \X (Procs \cup {Final})
    /\ NoDir \notin [img : Builds \cup {NoFile}, vml : Builds \cup {NoFile},
                     meta : [build : Builds \cup {NoFile}, vml : BOOLEAN]]

VARIABLES
    at,     \* [Names -> Dirs or NoDir]
    dir,    \* [Dirs -> [img, vml, meta]]
    ex,     \* [Keys -> SUBSET Procs]: LOCK_EX on .locks/<key>.lock
    sh,     \* [Keys -> SUBSET Procs]: LOCK_SH
    pc,
    job,    \* the arguments of the process's call
    seen,   \* the metadata lookup has read
    todo,   \* the names a sweep or a clean has still to visit
    target, \* the name it is about to remove
    open,   \* the directory remove_dir_all holds open
    vm,     \* [img, vml]: what the VM of a test process has read
    cache,  \* VMLINUX_BYTES_CACHE, per process
    opened, \* history: directories some clean has begun to empty
    calls   \* how many calls have been made

vars == <<at, dir, ex, sh, pc, job, seen, todo, target, open, vm, cache, opened, calls>>

Names   == Keys \X (Procs \cup {Final})
Staging == Keys \X Procs
Entry(k) == <<k, Final>>

\* metadata.json: the hashes, and whether a vmlinux was stored along.
Metas   == [build : Builds, vml : BOOLEAN]
NoMeta  == [build |-> NoFile, vml |-> FALSE]
Empty   == [img |-> NoFile, vml |-> NoFile, meta |-> NoMeta]
Files   == {"img", "vml", "meta"}
Has(d, f) == dir[d][f] # Empty[f]
IsEmpty(d) == dir[d] = Empty

\* The arguments of a call; a test only has a key.
Stores  == [key : Keys, build : Builds, vml : BOOLEAN]
Tests   == [key : Keys, build : {NoFile}, vml : {FALSE}]
NoVm    == [img |-> NoFile, vml |-> NoFile]

Tmp(p)     == <<job[p].key, p>>
Goto(p, l) == pc' = [pc EXCEPT ![p] = l]
\* Goto, with the locals of the call gone when it returns.
Return(p, l) ==
    /\ Goto(p, l)
    /\ IF l \in {"idle", "done"}
       THEN /\ job'  = [job EXCEPT ![p] = NoJob]
            /\ seen' = [seen EXCEPT ![p] = NoMeta]
            /\ vm'   = [vm EXCEPT ![p] = NoVm]
       ELSE UNCHANGED <<job, seen, vm>>
Dead(p)    == pc[p] = "dead"

Init ==
    /\ at = [n \in Names |-> NoDir]
    /\ dir = [d \in Dirs |-> Empty]
    /\ ex = [k \in Keys |-> {}] /\ sh = [k \in Keys |-> {}]
    /\ pc = [p \in Procs |-> "idle"]
    /\ job = [p \in Procs |-> NoJob]
    /\ seen = [p \in Procs |-> NoMeta]
    /\ todo = [p \in Procs |-> {}]
    /\ target = [p \in Procs |-> NoName]
    /\ open = [p \in Procs |-> NoDir]
    /\ vm = [p \in Procs |-> NoVm]
    /\ cache = [p \in Procs |-> [k \in Keys |-> NoFile]]
    /\ opened = {}
    /\ calls = 0

Call == calls < MaxCalls /\ calls' = calls + 1

tree  == <<at, dir, opened>>
locks == <<ex, sh>>
local == <<job, seen, todo, target, open, vm, cache, calls>>
kept  == <<todo, target, open, cache, calls>>

-----------------------------------------------------------------------------
(* lookup_silent: the metadata, then the image, each through the entry's    *)
(* path and without a lock of its own.  A process that ends a lookup goes   *)
(* to hit or to miss.                                                       *)

LookupMeta(p, next, miss) ==
    LET d == at[Entry(job[p].key)]
        m == IF d = NoDir THEN NoMeta ELSE dir[d].meta
    IN  /\ IF m = NoMeta
           THEN Return(p, miss)
           ELSE /\ Goto(p, next)
                /\ seen' = [seen EXCEPT ![p] = m]
                /\ UNCHANGED <<job, vm>>
        /\ UNCHANGED <<tree, locks, kept>>

ImageExists(p) ==
    LET d == at[Entry(job[p].key)] IN d # NoDir /\ Has(d, "img")

\* remove_dir_all of a name nobody else removes.
RemoveTree(n) ==
    /\ at' = [at EXCEPT ![n] = NoDir]
    /\ dir' = [d \in Dirs |-> IF d = at[n] THEN Empty ELSE dir[d]]
    /\ opened' = opened \ {at[n]}

-----------------------------------------------------------------------------
(* store: under LOCK_EX, look again, stage, publish.                        *)

StoreCall(p) ==
    /\ pc[p] = "idle" /\ p \in MayStore /\ Call
    /\ \E j \in Stores : job' = [job EXCEPT ![p] = j]
    /\ Goto(p, "lockex")
    /\ UNCHANGED <<tree, locks, seen, todo, target, open, vm, cache>>

StoreLock(p) ==
    LET k == job[p].key
    IN  /\ pc[p] = "lockex"
        /\ \/ /\ ex[k] = {} /\ sh[k] = {}
              /\ ex' = [ex EXCEPT ![k] = {p}]
              /\ Return(p, "recheck")
           \/ \* acquire_flock_with_timeout gives up
              /\ ~(ex[k] = {} /\ sh[k] = {})
              /\ ex' = ex
              /\ Return(p, "idle")
        /\ UNCHANGED <<tree, sh, kept>>

StoreRecheckMeta(p) ==
    /\ pc[p] = "recheck"
    /\ LookupMeta(p, "recheckimg", "clear")

cache_content_matches(m, j) == m.build = j.build /\ m.vml = j.vml

StoreRecheckImage(p) ==
    LET hit == ImageExists(p) /\ cache_content_matches(seen[p], job[p])
    IN  /\ pc[p] = "recheckimg"
        /\ ex' = IF hit THEN [ex EXCEPT ![job[p].key] = {}] ELSE ex
        /\ Goto(p, IF hit THEN "idle" ELSE "clear")
        /\ job' = IF hit THEN [job EXCEPT ![p] = NoJob] ELSE job
        /\ seen' = [seen EXCEPT ![p] = NoMeta]
        /\ UNCHANGED <<tree, sh, vm, kept>>

\* What this pid left under the same name goes, then the root is listed.
StoreClear(p) ==
    /\ pc[p] = "clear"
    /\ RemoveTree(Tmp(p))
    /\ todo' = [todo EXCEPT ![p] = {n \in Staging : at'[n] # NoDir}]
    /\ Goto(p, "sweep")
    /\ UNCHANGED <<locks, job, seen, target, open, vm, cache, calls>>

SweepProbeSkipsKill(p) ==
    /\ pc[p] = "sweep" /\ target[p] = NoName
    /\ \E n \in todo[p] :
        /\ todo' = [todo EXCEPT ![p] = @ \ {n}]
        /\ target' = [target EXCEPT ![p] = n]
    /\ UNCHANGED <<tree, locks, pc, job, seen, open, vm, cache, calls>>

\* clean_orphaned_tmp_dirs: kill(pid, 0) decides, remove_dir_all follows.
SweepProbe(p) ==
    /\ pc[p] = "sweep" /\ target[p] = NoName
    /\ \E n \in todo[p] :
        /\ todo' = [todo EXCEPT ![p] = @ \ {n}]
        /\ target' = [target EXCEPT ![p] = IF Dead(n[2]) THEN n ELSE NoName]
    /\ UNCHANGED <<tree, locks, pc, job, seen, open, vm, cache, calls>>

SweepRemove(p) ==
    /\ pc[p] = "sweep" /\ target[p] # NoName
    /\ RemoveTree(target[p])
    /\ target' = [target EXCEPT ![p] = NoName]
    /\ UNCHANGED <<locks, pc, job, seen, todo, open, vm, cache, calls>>

FreeDirs == {d \in Dirs : (\A n \in Names : at[n] # d) /\ (\A q \in Procs : open[q] # d)}

\* create_dir_all takes a directory that is already there.
StoreStage(p) ==
    /\ pc[p] = "sweep" /\ target[p] = NoName /\ todo[p] = {}
    /\ IF at[Tmp(p)] # NoDir THEN at' = at
       ELSE \E d \in FreeDirs : at' = [at EXCEPT ![Tmp(p)] = d]
    /\ UNCHANGED <<dir, opened>>
    /\ Goto(p, "image")
    /\ UNCHANGED <<locks, local>>

\* The files of the staging directory, in the order store writes them.
WriteFile(p, f, v) ==
    IF at[Tmp(p)] = NoDir THEN dir' = dir
    ELSE dir' = [dir EXCEPT ![at[Tmp(p)]][f] = v]

StoreImage(p) ==
    /\ pc[p] = "image"
    /\ WriteFile(p, "img", job[p].build)
    /\ Goto(p, IF at[Tmp(p)] = NoDir THEN "drop" ELSE "vmlinux")
    /\ UNCHANGED <<at, opened, locks, local>>

\* Variant for mutation: a vmlinux that cannot be stripped is left out.
StoreVmlinuxLeftOut(p) ==
    /\ pc[p] = "vmlinux"
    /\ job' = [job EXCEPT ![p].vml = FALSE]
    /\ Goto(p, "metadata")
    /\ UNCHANGED <<tree, locks, seen, vm, kept>>

StoreVmlinux(p) ==
    /\ pc[p] = "vmlinux"
    /\ IF job[p].vml THEN WriteFile(p, "vml", job[p].build) ELSE dir' = dir
    /\ Goto(p, IF at[Tmp(p)] = NoDir THEN "drop" ELSE "metadata")
    /\ UNCHANGED <<at, opened, locks, local>>

StorePublishesFirst(p) ==
    /\ pc[p] = "metadata"
    /\ at' = [at EXCEPT ![Entry(job[p].key)] = at[Tmp(p)], ![Tmp(p)] = NoDir]
    /\ Goto(p, "drop")
    /\ UNCHANGED <<dir, opened, locks, local>>

StoreMetadata(p) ==
    /\ pc[p] = "metadata"
    /\ WriteFile(p, "meta", [build |-> job[p].build, vml |-> job[p].vml])
    /\ Goto(p, IF at[Tmp(p)] = NoDir THEN "drop" ELSE "rename")
    /\ UNCHANGED <<at, opened, locks, local>>

\* rename(2) replaces nothing or an empty directory; anything else is left
\* to the exchange.
StoreRename(p) ==
    LET e == Entry(job[p].key)
        fits == at[e] = NoDir \/ IsEmpty(at[e])
    IN  /\ pc[p] = "rename"
        /\ at' = IF fits THEN [at EXCEPT ![e] = at[Tmp(p)], ![Tmp(p)] = NoDir] ELSE at
        /\ opened' = IF fits THEN opened \ {at[e]} ELSE opened
        /\ Goto(p, IF fits THEN "drop" ELSE "swap")
        /\ UNCHANGED <<dir, locks, local>>

\* atomic_swap_dirs fails when the entry has gone meanwhile.
StoreSwap(p) ==
    LET e == Entry(job[p].key)
    IN  /\ pc[p] = "swap"
        /\ at' = IF at[e] = NoDir THEN at
                 ELSE [at EXCEPT ![e] = at[Tmp(p)], ![Tmp(p)] = at[e]]
        /\ Goto(p, "drop")
        /\ UNCHANGED <<dir, opened, locks, local>>

\* An I/O error: past create_dir_all the guard still runs, before it not.
StoreFails(p) ==
    \/ /\ pc[p] \in {"image", "vmlinux", "metadata", "rename", "swap"}
       /\ Goto(p, "drop")
       /\ UNCHANGED <<tree, locks, local>>
    \/ /\ pc[p] = "clear" \/ (pc[p] = "sweep" /\ target[p] = NoName /\ todo[p] = {})
       /\ ex' = [ex EXCEPT ![job[p].key] = {}]
       /\ Return(p, "idle")
       /\ UNCHANGED <<tree, sh, kept>>

\* TmpDirGuard, which does not report a failure, and then the lock.
StoreDrop(p) ==
    /\ pc[p] = "drop"
    /\ RemoveTree(Tmp(p)) \/ UNCHANGED tree
    /\ ex' = [ex EXCEPT ![job[p].key] = {}]
    /\ Return(p, "idle")
    /\ UNCHANGED <<sh, kept>>

Store(p) ==
    \/ StoreCall(p) \/ StoreLock(p) \/ StoreRecheckMeta(p) \/ StoreRecheckImage(p)
    \/ StoreClear(p) \/ SweepProbe(p) \/ SweepRemove(p) \/ StoreStage(p)
    \/ StoreImage(p) \/ StoreVmlinux(p) \/ StoreMetadata(p)
    \/ StoreRename(p) \/ StoreSwap(p) \/ StoreFails(p) \/ StoreDrop(p)

-----------------------------------------------------------------------------
(* A test: resolve the kernel, hold LOCK_SH while its VM runs, and boot the *)
(* auto-repro VM, if any, from the same path once the lock is dropped.  A   *)
(* test has a process of its own, which ends with it.                       *)

TestCall(p) ==
    /\ pc[p] = "idle" /\ p \in MayTest /\ Call
    /\ \E j \in Tests : job' = [job EXCEPT ![p] = j]
    /\ Goto(p, "look")
    /\ UNCHANGED <<tree, locks, seen, vm, todo, target, open, cache>>

TestLookMeta(p) ==
    /\ pc[p] = "look"
    /\ LookupMeta(p, "lookimg", "done")

TestLookImage(p) ==
    /\ pc[p] = "lookimg"
    /\ Return(p, IF ImageExists(p) THEN "locksh" ELSE "done")
    /\ UNCHANGED <<tree, locks, kept>>

TestLockNotHeld(p) ==
    /\ pc[p] = "locksh" /\ ex[job[p].key] = {}
    /\ Return(p, "boot")
    /\ UNCHANGED <<tree, locks, kept>>

\* Only a build holds LOCK_EX; past the timeout the test is skipped.
TestLock(p) ==
    LET k == job[p].key
    IN  /\ pc[p] = "locksh"
        /\ \/ /\ ex[k] = {}
              /\ sh' = [sh EXCEPT ![k] = @ \cup {p}]
              /\ Return(p, "boot")
           \/ /\ ex[k] # {}
              /\ sh' = sh
              /\ Return(p, "done")
        /\ UNCHANGED <<tree, ex, kept>>

Unlock(p) == sh' = [sh EXCEPT ![job[p].key] = @ \ {p}]

\* The VM loads the image; without one the test fails.
TestBoot(p) ==
    LET d == at[Entry(job[p].key)]
    IN  /\ pc[p] \in {"boot", "reboot"}
        /\ IF ImageExists(p)
           THEN /\ vm' = [vm EXCEPT ![p] = [NoVm EXCEPT !.img = dir[d].img]]
                /\ Goto(p, IF pc[p] = "boot" THEN "syms" ELSE "resyms")
                /\ UNCHANGED <<sh, job, seen>>
           ELSE /\ Return(p, "done")
                /\ Unlock(p)
        /\ UNCHANGED <<tree, ex, kept>>

\* find_vmlinux and cached_vmlinux_bytes: the file beside the image, read
\* from disk once in the life of the process.
TestSymbols(p) ==
    LET k == job[p].key
        d == at[Entry(k)]
        exists == d # NoDir /\ Has(d, "vml")
        bytes  == IF cache[p][k] # NoFile THEN cache[p][k] ELSE dir[d].vml
    IN  /\ pc[p] \in {"syms", "resyms"}
        /\ IF exists
           THEN /\ vm' = [vm EXCEPT ![p].vml = bytes]
                /\ cache' = [cache EXCEPT ![p][k] = bytes]
           ELSE UNCHANGED <<vm, cache>>
        /\ Goto(p, IF pc[p] = "syms" THEN "unlock" ELSE "over")
        /\ UNCHANGED <<tree, locks, job, seen, todo, target, open, calls>>

\* drop(kernel_lock), then attempt_auto_repro when the test failed.
TestUnlock(p) ==
    /\ pc[p] = "unlock"
    /\ Unlock(p)
    /\ \E l \in {"done", "reboot"} : Return(p, l)
    /\ UNCHANGED <<tree, ex, kept>>

Test(p) ==
    \/ TestCall(p) \/ TestLookMeta(p) \/ TestLookImage(p) \/ TestLock(p)
    \/ TestBoot(p) \/ TestSymbols(p) \/ TestUnlock(p)

-----------------------------------------------------------------------------
(* kernel clean: list, choose, and remove each choice by name, without any  *)
(* lock.  All corrupt entries are chosen; of the valid ones those that are  *)
(* not kept (--corrupt-only keeps them all, --keep the newest).             *)

Listed == {k \in Keys : at[Entry(k)] # NoDir}
Valid(k) == LET d == at[Entry(k)] IN Has(d, "meta") /\ Has(d, "img")

CleanCall(p) ==
    /\ pc[p] = "idle" /\ p \in MayClean /\ Call
    /\ \E keep \in SUBSET {k \in Listed : Valid(k)} :
        todo' = [todo EXCEPT ![p] = {Entry(k) : k \in Listed \ keep}]
    /\ todo'[p] # {}
    /\ Goto(p, "clean")
    /\ UNCHANGED <<tree, locks, job, seen, target, open, vm, cache>>

\* remove_dir_all opens what the name holds now: NotFound counts as removed.
CleanOpen(p) ==
    /\ pc[p] = "clean"
    /\ \E n \in todo[p] :
        /\ todo' = [todo EXCEPT ![p] = @ \ {n}]
        /\ target' = [target EXCEPT ![p] = n]
        /\ open' = [open EXCEPT ![p] = at[n]]
        /\ opened' = opened \cup ({at[n]} \ {NoDir})
        /\ Goto(p, IF at[n] = NoDir THEN "clean" ELSE "unlink")
    /\ UNCHANGED <<at, dir, locks, job, seen, vm, cache, calls>>

\* The files go one by one, through the open directory.
CleanUnlink(p) ==
    /\ pc[p] = "unlink"
    /\ \E f \in Files :
        /\ Has(open[p], f)
        /\ dir' = [dir EXCEPT ![open[p]][f] = Empty[f]]
    /\ UNCHANGED <<at, opened, locks, pc, local>>

CleanRmdirKeepsOpen(p) ==
    /\ pc[p] = "unlink" /\ IsEmpty(open[p])
    /\ IF at[target[p]] # NoDir /\ IsEmpty(at[target[p]])
       THEN RemoveTree(target[p]) ELSE UNCHANGED tree
    /\ Goto(p, "clean")
    /\ UNCHANGED <<locks, local>>

\* The directory itself goes by name, and only when it is empty.
CleanRmdir(p) ==
    /\ pc[p] = "unlink" /\ IsEmpty(open[p])
    /\ IF at[target[p]] # NoDir /\ IsEmpty(at[target[p]])
       THEN RemoveTree(target[p]) ELSE UNCHANGED tree
    /\ open' = [open EXCEPT ![p] = NoDir]
    /\ target' = [target EXCEPT ![p] = NoName]
    /\ Goto(p, "clean")
    /\ UNCHANGED <<locks, job, seen, todo, vm, cache, calls>>

CleanOver(p) ==
    /\ pc[p] = "clean" /\ todo[p] = {}
    /\ target' = [target EXCEPT ![p] = NoName]
    /\ Goto(p, "idle")
    /\ UNCHANGED <<tree, locks, job, seen, todo, open, vm, cache, calls>>

Clean(p) ==
    CleanCall(p) \/ CleanOpen(p) \/ CleanUnlink(p) \/ CleanRmdir(p) \/ CleanOver(p)

-----------------------------------------------------------------------------
(* A process ends, of its own or by a signal: its locks and its memory go,  *)
(* its files stay.  A later process may get its pid, though not between a   *)
(* sweep's kill(pid, 0) and the removal that follows at once.               *)

Exit(p) ==
    /\ ~Dead(p)
    /\ Goto(p, "dead")
    /\ ex' = [k \in Keys |-> ex[k] \ {p}]
    /\ sh' = [k \in Keys |-> sh[k] \ {p}]
    /\ todo' = [todo EXCEPT ![p] = {}]
    /\ target' = [target EXCEPT ![p] = NoName]
    /\ open' = [open EXCEPT ![p] = NoDir]
    /\ job' = [job EXCEPT ![p] = NoJob]
    /\ seen' = [seen EXCEPT ![p] = NoMeta]
    /\ vm' = [vm EXCEPT ![p] = NoVm]
    /\ cache' = [cache EXCEPT ![p] = [k \in Keys |-> NoFile]]
    /\ UNCHANGED <<tree, calls>>

Spawn(p) ==
    /\ Dead(p)
    /\ \A q \in Procs : target[q] # NoName => target[q][2] # p
    /\ Goto(p, "idle")
    /\ UNCHANGED <<tree, locks, local>>

Next ==
    \E p \in Procs : Store(p) \/ Test(p) \/ Clean(p) \/ Exit(p) \/ Spawn(p)

Spec == Init /\ [][Next]_vars

-----------------------------------------------------------------------------

TypeOK ==
    /\ at \in [Names -> Dirs \cup {NoDir}]
    /\ dir \in [Dirs -> [img : Builds \cup {NoFile}, vml : Builds \cup {NoFile},
                         meta : Metas \cup {NoMeta}]]
    /\ ex \in [Keys -> SUBSET Procs] /\ sh \in [Keys -> SUBSET Procs]
    /\ pc \in [Procs ->
         {"idle", "dead", "lockex", "recheck", "recheckimg", "clear", "sweep",
          "image", "vmlinux", "metadata", "rename", "swap", "drop",
          "look", "lookimg", "locksh", "boot", "syms", "unlock", "reboot",
          "resyms", "over", "done", "clean", "unlink"}]
    /\ job \in [Procs -> Stores \cup Tests \cup {NoJob}]
    /\ seen \in [Procs -> Metas \cup {NoMeta}]
    /\ todo \in [Procs -> SUBSET Names]
    /\ target \in [Procs -> Names \cup {NoName}]
    /\ open \in [Procs -> Dirs \cup {NoDir}]
    /\ vm \in [Procs -> [img : Builds \cup {NoFile}, vml : Builds \cup {NoFile}]]
    /\ cache \in [Procs -> [Keys -> Builds \cup {NoFile}]]
    /\ opened \subseteq Dirs
    /\ calls \in Nat
    /\ \A p \in Procs : (pc[p] = "unlink") <=> (open[p] # NoDir)

Whole(d) ==
    /\ dir[d].meta # NoMeta
    /\ dir[d].img = dir[d].meta.build
    /\ dir[d].vml = IF dir[d].meta.vml THEN dir[d].meta.build ELSE NoFile

\* Whatever stands under a key is the complete output of one store - image,
\* metadata and the vmlinux the metadata names, all of the same build -
\* unless a clean has begun to empty it: no interleaving of stores, and no
\* crash at any step of one, publishes a partial entry (the staging and the
\* rename/RENAME_EXCHANGE of CacheDir::store).
PublishedIsWhole ==
    \A k \in Keys :
        LET d == at[Entry(k)] IN d # NoDir => Whole(d) \/ d \in opened

\* A sweep by pid never takes the staging directory of a store in progress:
\* from create_dir_all to the publishing rename it stands under its name and
\* holds exactly the files written so far, whoever sweeps, cleans or crashes
\* meanwhile (clean_orphaned_tmp_dirs).
StagingIsKept ==
    \A p \in Procs :
        pc[p] \in {"image", "vmlinux", "metadata", "rename", "swap"} =>
            LET d == at[Tmp(p)] j == job[p]
            IN  /\ d # NoDir
                /\ dir[d].img = IF pc[p] = "image" THEN NoFile ELSE j.build
                /\ dir[d].vml = IF j.vml /\ pc[p] \notin {"image", "vmlinux"}
                                THEN j.build ELSE NoFile
                /\ Has(d, "meta") <=> pc[p] \in {"rename", "swap"}

\* While a test holds LOCK_SH on its entry, the kernel its VM booted and the
\* vmlinux read from disk for it belong to the same build: no store swaps the
\* directory in between, and a clean can only take the file away
\* (acquire_test_kernel_lock_if_cached).
LockedVmIsConsistent ==
    \A p \in Procs :
        pc[p] = "unlock" /\ vm[p].vml # NoFile => vm[p].vml = vm[p].img

\* The directory of a key only changes hands under its exclusive lock, to a
\* whole entry, while nobody reads it under LOCK_SH; the only other change is
\* the rmdir of a directory a clean has emptied.
EntryChangesHands ==
    [][\A k \in Keys :
        at'[Entry(k)] # at[Entry(k)] =>
            \/ /\ at'[Entry(k)] # NoDir
               /\ Whole(at'[Entry(k)]) /\ sh[k] = {}
               /\ \E p \in ex[k] : at[<<k, p>>] = at'[Entry(k)]
            \/ /\ at'[Entry(k)] = NoDir /\ IsEmpty(at[Entry(k)])
               /\ at[Entry(k)] \in opened]_vars

(***************************************************************************)
(* The same promise as a cache of its own: what the directory of an entry  *)
(* holds, who holds LOCK_SH, and the store each process has not yet         *)
(* published or given up.                                                  *)
(***************************************************************************)
Stored(k) == LET d == at[Entry(k)] IN IF d = NoDir THEN NoDir ELSE dir[d]
Pending(p) ==
    IF pc[p] \in {"lockex", "recheck", "recheckimg", "clear", "sweep", "image", "vmlinux",
                  "metadata", "rename", "swap"}
    THEN job[p] ELSE NoJob
Atomic == INSTANCE AtomicCache
            WITH Absent <- NoDir, readers <- sh,
                 entry <- [k \in Keys |-> Stored(k)], asked <- [p \in Procs |-> Pending(p)]

\* With all its staging, renames, sweeps, cleans and crashes, CacheDir is a
\* cache in which every store takes effect in one step: an entry goes from
\* what it was to the whole output of one store that was asked for, once,
\* with no test reading it, and no other step writes to it in place.
StoresAreAtomic == Atomic!Spec
=============================================================================
