------------------------- MODULE CompilationService -------------------------
(***************************************************************************)
(* CompilationService.compile_path of service.py for one compilation unit: *)
(* threads of several processes plan a build from the dependency lock,     *)
(* take the unit's lock and then the entry's, run Cargo, publish the       *)
(* artifact in two writes, load it and retain a lease; or they replan      *)
(* because the dependency lock moved under them.                           *)
(*                                                                         *)
(* Each thread t walks the labels of pc[t], one action per label.          *)
(***************************************************************************)
EXTENDS ArtifactCache, Naturals

CONSTANTS
    ProcOf,     \* ProcOf[t]: the process thread t runs in
    Calls,      \* the calls callers make: [mode, locked]
    Resolved    \* dependency locks that satisfy the unit's Cargo.toml

Mode == {"expand", "check", "build", "load"}

ASSUME ServiceAssumption ==
    /\ ProcOf \in [Threads -> Procs]
    /\ Policies # {} /\ Calls # {}
    /\ Calls \subseteq [mode : Mode, locked : Policies]
    /\ Resolved \subseteq Versions

VARIABLES
    pc,         \* where each thread stands
    call,       \* the call it serves
    attempt,    \* which plan of compile_path's loop it is at
    plan,       \* the fingerprint of that plan
    hit,        \* cache_hit: the entry verified when the thread inspected it
    fresh,      \* artifact_fresh: Cargo rebuilt nothing
    digest,     \* outcome_hash: the bytes the manifest is about to name
    unitLock,   \* holder of locks/dependency-unit-<unit>.lock
    depLock,    \* crabwalk-locks/<unit>.Cargo.lock
    bootLock,   \* what a bootstrap under way has resolved (an old file is
                \* written anew before anybody reads it)
    genLock,    \* genLock[f]: Cargo.lock of the project generated for f
    target,     \* target[f]: the library in Cargo's target directory
    world,      \* the state of the inputs no fingerprint covers
    memo        \* memo[p]: keys of p's _loaded_results

threadVars == <<pc, call, attempt, plan, hit, fresh, digest>>
fileVars == <<depLock, bootLock, genLock, target, world>>
serviceVars == <<threadVars, fileVars, unitLock, memo>>

MAX_LOCK_REPLANS == 3

Ended == {"idle", "done", "failed"}
UnderEntryLock ==
    {"locked", "copy", "cargo", "persist", "verify", "publish", "manifest",
     "touch", "loading", "retain"}
UnderUnitLock == {"boot", "bootPersist", "entryLock"} \cup UnderEntryLock
Label == Ended \cup {"start", "bootLock", "hash", "unitLock"} \cup UnderUnitLock

NoPlan == [lock |-> Missing, locked |-> CHOOSE b \in Policies : TRUE]
NoCall == CHOOSE c \in Calls : TRUE

ServiceTypeOK ==
    /\ pc \in [Threads -> Label]
    /\ call \in [Threads -> Calls]
    /\ attempt \in [Threads -> 1 .. MAX_LOCK_REPLANS]
    /\ plan \in [Threads -> Fingerprint]
    /\ hit \in [Threads -> BOOLEAN]
    /\ fresh \in [Threads -> BOOLEAN]
    /\ digest \in [Threads -> Binary \cup {Missing, Damaged}]
    /\ unitLock \in Threads \cup {Free}
    /\ depLock \in Versions \cup {Missing}
    /\ bootLock \in Versions \cup {Missing}
    /\ genLock \in [Fingerprint -> Versions \cup {Missing}]
    /\ target \in [Fingerprint -> Binary \cup {Missing}]
    /\ world \in Worlds
    /\ memo \in [Procs -> SUBSET Fingerprint]

ServiceInit ==
    /\ pc = [t \in Threads |-> "idle"]
    /\ call = [t \in Threads |-> NoCall]
    /\ attempt = [t \in Threads |-> 1]
    /\ plan = [t \in Threads |-> NoPlan]
    /\ hit = [t \in Threads |-> FALSE]
    /\ fresh = [t \in Threads |-> FALSE]
    /\ digest = [t \in Threads |-> Missing]
    /\ unitLock = Free
    /\ depLock \in Versions \cup {Missing}
    /\ bootLock = Missing
    /\ genLock = [f \in Fingerprint |-> Missing]
    /\ target = [f \in Fingerprint |-> Missing]
    /\ world \in Worlds
    /\ memo = [p \in Procs |-> {}]

-----------------------------------------------------------------------------
Goto(t, label) == pc' = [pc EXCEPT ![t] = label]

\* compile_path leaves the with block: both file locks are released.
Unlock(t) ==
    /\ unitLock' = IF unitLock = t THEN Free ELSE unitLock
    /\ entryLock' = [f \in Fingerprint |->
                        IF entryLock[f] = t THEN Free ELSE entryLock[f]]

\* The call ends; the locals of _compile_path_once are gone.
Return(t, label) ==
    /\ Goto(t, label)
    /\ hit' = [hit EXCEPT ![t] = FALSE]
    /\ fresh' = [fresh EXCEPT ![t] = FALSE]
    /\ digest' = [digest EXCEPT ![t] = Missing]
    /\ attempt' = [attempt EXCEPT ![t] = 1]
    /\ plan' = [plan EXCEPT ![t] = NoPlan]
    /\ call' = [call EXCEPT ![t] = NoCall]

Loads(t) == call[t].mode = "load"
Builds(t) == call[t].mode \in {"build", "load"}

\* Mutants: the comparison is forgotten; the loop runs once more.
NeverChanged(f) == FALSE
OneMoreReplan(n) == n < MAX_LOCK_REPLANS + 1

\* _lock_hash_changed: a lock file that is gone counts as unchanged.
LockHashChanged(f) == depLock # Missing /\ depLock # f.lock

\* The for loop over attempts of compile_path.
MayReplan(n) == n < MAX_LOCK_REPLANS

\* _DependencyLockReplan reaches compile_path after the locks are released;
\* the third one becomes CRAB308.
Replan(t) ==
    \/ /\ MayReplan(attempt[t])
       /\ Goto(t, "start")
       /\ attempt' = [attempt EXCEPT ![t] = @ + 1]
       /\ plan' = [plan EXCEPT ![t] = NoPlan]
       /\ hit' = [hit EXCEPT ![t] = FALSE]
       /\ fresh' = [fresh EXCEPT ![t] = FALSE]
       /\ UNCHANGED <<call, digest>>
    \/ /\ ~MayReplan(attempt[t])
       /\ Return(t, "failed")

-----------------------------------------------------------------------------
(* Planning: the dependency lock, its bootstrap, the fingerprint.          *)

\* A caller enters compile_path.
Begin(t, c) ==
    /\ pc[t] \in Ended
    /\ Goto(t, "start")
    /\ call' = [call EXCEPT ![t] = c]
    /\ UNCHANGED <<attempt, plan, hit, fresh, digest, unitLock, fileVars, memo,
                   cacheVars>>

\* "if locked and not dependency_lock.is_file()" (CRAB304), else bootstrap.
Start(t) ==
    /\ pc[t] = "start"
    /\ \/ /\ depLock # Missing
          /\ Goto(t, "hash")
          /\ UNCHANGED <<call, attempt, plan, hit, fresh, digest>>
       \/ /\ depLock = Missing
          /\ ~call[t].locked
          /\ Goto(t, "bootLock")
          /\ UNCHANGED <<call, attempt, plan, hit, fresh, digest>>
       \/ /\ depLock = Missing
          /\ call[t].locked
          /\ Return(t, "failed")
    /\ UNCHANGED <<unitLock, fileVars, memo, cacheVars>>

\* Mutant: the bootstrap trusts the look it took before it waited.
NeedsBootstrapAnyway == TRUE

\* "if destination.is_file(): return", under the unit's lock.
NeedsBootstrap == depLock = Missing

BootstrapLock(t) ==
    /\ pc[t] = "bootLock"
    /\ unitLock = Free
    /\ \/ /\ NeedsBootstrap
          /\ unitLock' = t
          /\ Goto(t, "boot")
       \/ /\ ~NeedsBootstrap
          /\ Goto(t, "hash")
          /\ UNCHANGED unitLock
    /\ UNCHANGED <<call, attempt, plan, hit, fresh, digest, fileVars, memo,
                   cacheVars>>

\* cargo generate-lockfile resolves the declared dependencies afresh.
BootstrapGenerate(t) ==
    /\ pc[t] = "boot"
    /\ bootLock' \in Resolved
    /\ Goto(t, "bootPersist")
    /\ UNCHANGED <<call, attempt, plan, hit, fresh, digest, unitLock, depLock,
                   genLock, target, world, memo, cacheVars>>

\* It fails (CRAB302) or is cancelled (CRAB309).
BootstrapFails(t) ==
    /\ pc[t] = "boot"
    /\ Unlock(t)
    /\ Return(t, "failed")
    /\ UNCHANGED <<fileVars, memo, artifact, manifest, mapped, lease, snapshot>>

\* _persist_dependency_lock of the bootstrap project, then the lock is let go.
BootstrapPersist(t) ==
    /\ pc[t] = "bootPersist"
    /\ depLock' = bootLock
    /\ bootLock' = Missing
    /\ unitLock' = Free
    /\ Goto(t, "hash")
    /\ UNCHANGED <<call, attempt, plan, hit, fresh, digest, genLock, target,
                   world, memo, cacheVars>>

\* Hash the lock, compute the fingerprint, try the in-process result.
Plan(t) ==
    /\ pc[t] = "hash"
    /\ LET f == [lock |-> depLock, locked |-> call[t].locked] IN
       \/ /\ Loads(t)
          /\ f \in memo[ProcOf[t]]
          /\ Return(t, "done")
       \/ /\ ~(Loads(t) /\ f \in memo[ProcOf[t]])
          /\ plan' = [plan EXCEPT ![t] = f]
          /\ Goto(t, "unitLock")
          /\ UNCHANGED <<call, attempt, hit, fresh, digest>>
    /\ UNCHANGED <<unitLock, fileVars, memo, cacheVars>>

-----------------------------------------------------------------------------
(* Under the locks: with FileLock(unit), FileLock(fingerprint).            *)

AcquireUnit(t) ==
    /\ pc[t] = "unitLock"
    /\ unitLock = Free
    /\ unitLock' = t
    /\ Goto(t, "entryLock")
    /\ UNCHANGED <<call, attempt, plan, hit, fresh, digest, fileVars, memo,
                   cacheVars>>

AcquireEntry(t) ==
    /\ pc[t] = "entryLock"
    /\ entryLock[plan[t]] = Free
    /\ entryLock' = [entryLock EXCEPT ![plan[t]] = t]
    /\ Goto(t, "locked")
    /\ UNCHANGED <<call, attempt, plan, hit, fresh, digest, unitLock, fileVars,
                   memo, artifact, manifest, mapped, lease, snapshot>>

\* Mutant: the wait for a lock never expires.
WaitsForever(t) == FALSE

\* FileLock polls until its deadline and then raises TimeoutError.
LockBusy(t) ==
    \/ pc[t] \in {"bootLock", "unitLock"} /\ unitLock # Free
    \/ pc[t] = "entryLock" /\ entryLock[plan[t]] # Free

LockTimeout(t) ==
    /\ LockBusy(t)
    /\ Unlock(t)
    /\ Return(t, "failed")
    /\ UNCHANGED <<fileVars, memo, artifact, manifest, mapped, lease, snapshot>>

\* The recheck under the locks: a stale plan is dropped, a result another
\* thread of the process left in the meantime is used, else the project is
\* generated and the cache entry inspected.
Recheck(t) ==
    /\ pc[t] = "locked"
    /\ \/ /\ LockHashChanged(plan[t])
          /\ Unlock(t)
          /\ Replan(t)
       \/ /\ ~LockHashChanged(plan[t])
          /\ Loads(t) /\ plan[t] \in memo[ProcOf[t]]
          /\ Unlock(t)
          /\ Return(t, "done")
       \/ /\ ~LockHashChanged(plan[t])
          /\ ~(Loads(t) /\ plan[t] \in memo[ProcOf[t]])
          /\ hit' = [hit EXCEPT ![t] = Hit(plan[t])]
          /\ Goto(t, "copy")
          /\ UNCHANGED <<call, attempt, plan, fresh, digest, unitLock, entryLock>>
    /\ UNCHANGED <<fileVars, memo, artifact, manifest, mapped, lease, snapshot>>

\* shutil.copy2(dependency_lock, generated_dir / "Cargo.lock"); an expand
\* call is done after it.
CopyLock(t) ==
    /\ pc[t] = "copy"
    /\ genLock' = IF depLock = Missing THEN genLock
                  ELSE [genLock EXCEPT ![plan[t]] = depLock]
    /\ \/ /\ call[t].mode = "expand"
          /\ Unlock(t)
          /\ Return(t, "done")
       \/ /\ call[t].mode # "expand"
          /\ Goto(t, "cargo")
          /\ UNCHANGED <<call, attempt, plan, hit, fresh, digest, unitLock,
                         entryLock>>
    /\ UNCHANGED <<depLock, bootLock, target, world, memo, artifact, manifest,
                   mapped, lease, snapshot>>

\* What Cargo may leave as the project's Cargo.lock: one that satisfies
\* Cargo.toml stays, another is re-resolved unless --locked forbids it.
CargoLocks(locked, l) ==
    IF l \in Resolved THEN {l} ELSE IF locked THEN {} ELSE Resolved

\* cargo check, or cargo build: it rebuilds only when what it tracks (the
\* lock and the inputs build scripts declare to it) has changed.
RunCargo(t) ==
    /\ pc[t] = "cargo"
    /\ \E l \in CargoLocks(call[t].locked, genLock[plan[t]]) :
          LET built == [lock |-> l, world |-> world] IN
          /\ genLock' = [genLock EXCEPT ![plan[t]] = l]
          /\ \/ /\ Builds(t)
                /\ fresh' = [fresh EXCEPT ![t] = target[plan[t]] = built]
                /\ target' = [target EXCEPT ![plan[t]] = built]
             \/ /\ ~Builds(t)
                /\ UNCHANGED <<fresh, target>>
    /\ Goto(t, "persist")
    /\ UNCHANGED <<call, attempt, plan, hit, digest, unitLock, depLock, bootLock,
                   world, memo, cacheVars>>

\* rustc rejects the code (CRAB300, CRAB301), --locked is refused, Cargo
\* runs out of its ten minutes, or the caller cancels (CRAB309).  The lock
\* may have been re-resolved before that.
CargoFails(t) ==
    /\ pc[t] = "cargo"
    /\ \E l \in CargoLocks(call[t].locked, genLock[plan[t]]) \cup {genLock[plan[t]]} :
          genLock' = [genLock EXCEPT ![plan[t]] = l]
    /\ Unlock(t)
    /\ Return(t, "failed")
    /\ UNCHANGED <<depLock, bootLock, target, world, memo, artifact, manifest,
                   mapped, lease, snapshot>>

\* _persist_dependency_lock: the project's Cargo.lock replaces the unit's,
\* whatever the unit's holds by now.
PersistLock(t) ==
    /\ pc[t] = "persist"
    /\ depLock' = genLock[plan[t]]
    /\ Goto(t, "verify")
    /\ UNCHANGED <<call, attempt, plan, hit, fresh, digest, unitLock, bootLock,
                   genLock, target, world, memo, cacheVars>>

\* dependency_lock_changed: nothing is published, and the call replans.
VerifyLock(t) ==
    /\ pc[t] = "verify"
    /\ \/ /\ LockHashChanged(plan[t])
          /\ Unlock(t)
          /\ Replan(t)
       \/ /\ ~LockHashChanged(plan[t])
          /\ ~Builds(t)
          /\ Unlock(t)
          /\ Return(t, "done")
       \/ /\ ~LockHashChanged(plan[t])
          /\ Builds(t)
          /\ Goto(t, "publish")
          /\ UNCHANGED <<call, attempt, plan, hit, fresh, digest, unitLock, entryLock>>
    /\ UNCHANGED <<fileVars, memo, artifact, manifest, mapped, lease, snapshot>>

-----------------------------------------------------------------------------
(* _publish_cargo_artifact, load_extension, retain_cache_load_lease.       *)

\* Mutant: a hit whose bytes Cargo rebuilt differently is just replaced.
ReplacesAlways(t) == FALSE

\* cache_hit and current_hash != outcome_hash
HitDiffers(t) == hit[t] /\ artifact[plan[t]] # target[plan[t]]

Outdated(t) == ~HitDiffers(t) /\ artifact[plan[t]] # target[plan[t]]

\* The rejections: CRAB306, CRAB307 and the assertion on current_hash.
PublishFails(t) ==
    /\ pc[t] = "publish"
    /\ \/ HitDiffers(t) /\ (~fresh[t] \/ artifact[plan[t]] = Missing)
       \/ Outdated(t) /\ LeaseActive(plan[t])
    /\ Unlock(t)
    /\ Return(t, "failed")
    /\ UNCHANGED <<fileVars, memo, artifact, manifest, mapped, lease, snapshot>>

\* The verified entry stays, or already holds Cargo's bytes.
KeepArtifact(t) ==
    /\ pc[t] = "publish"
    /\ ~Outdated(t)
    /\ HitDiffers(t) => fresh[t] /\ artifact[plan[t]] # Missing
    /\ digest' = [digest EXCEPT ![t] = artifact[plan[t]]]
    /\ Goto(t, "manifest")
    /\ UNCHANGED <<call, attempt, plan, hit, fresh, unitLock, fileVars, memo,
                   cacheVars>>

\* Copy to a temporary and os.replace, with no lease on the entry.
ReplaceArtifact(t) ==
    /\ pc[t] = "publish"
    /\ Outdated(t)
    /\ ~LeaseActive(plan[t])
    /\ artifact' = [artifact EXCEPT ![plan[t]] = target[plan[t]]]
    /\ digest' = [digest EXCEPT ![t] = target[plan[t]]]
    /\ Disturb(plan[t])
    /\ Goto(t, "manifest")
    /\ UNCHANGED <<call, attempt, plan, hit, fresh, unitLock, fileVars, memo,
                   manifest, entryLock, mapped, lease>>

\* write_text leaves a file alone that holds the text already.
WriteManifest(t) ==
    /\ pc[t] = "manifest"
    /\ manifest' = [manifest EXCEPT ![plan[t]] = digest[t]]
    /\ IF manifest[plan[t]] = digest[t] THEN UNCHANGED snapshot ELSE Disturb(plan[t])
    /\ Goto(t, "touch")
    /\ UNCHANGED <<call, attempt, plan, hit, fresh, digest, unitLock, fileVars,
                   memo, artifact, entryLock, mapped, lease>>

\* touch_cache_access; a call that does not load is done.
Touch(t) ==
    /\ pc[t] = "touch"
    /\ Disturb(plan[t])
    /\ \/ /\ Loads(t)
          /\ Goto(t, "loading")
          /\ UNCHANGED <<call, attempt, plan, hit, fresh, digest, unitLock, entryLock>>
       \/ /\ ~Loads(t)
          /\ Unlock(t)
          /\ Return(t, "done")
    /\ UNCHANGED <<fileVars, memo, artifact, manifest, mapped, lease>>

\* load_extension maps the library, or finds it in sys.modules.
LoadExtension(t) ==
    /\ pc[t] = "loading"
    /\ mapped' = [mapped EXCEPT ![ProcOf[t]] = @ \cup {plan[t]}]
    /\ Goto(t, "retain")
    /\ UNCHANGED <<call, attempt, plan, hit, fresh, digest, unitLock, fileVars,
                   memo, artifact, manifest, entryLock, lease, snapshot>>

\* CRAB401; a module already in sys.modules cannot fail to load.
LoadFails(t) ==
    /\ pc[t] = "loading"
    /\ plan[t] \notin mapped[ProcOf[t]]
    /\ Unlock(t)
    /\ Return(t, "failed")
    /\ UNCHANGED <<fileVars, memo, artifact, manifest, mapped, lease, snapshot>>

\* Mutant: nothing keeps the lease's file handle, so its lock is dropped.
LeaseDropped(held, f) == held \ {f}

\* _load_leases: one lease per fingerprint, kept until the process ends.
Retained(held, f) == held \cup {f}

\* touch_cache_access, retain_cache_load_lease and _remember_loaded_result;
\* a lease file that is busy raises TimeoutError at once (timeout 0).
RetainLease(t) ==
    LET p == ProcOf[t]
        f == plan[t] IN
    /\ pc[t] = "retain"
    /\ Disturb(f)
    /\ Unlock(t)
    /\ \/ /\ f \in lease[p] \/ ~LeaseFileBusy(p, f)
          /\ lease' = [lease EXCEPT ![p] = Retained(@, f)]
          /\ memo' = [memo EXCEPT ![p] = @ \cup {f}]
          /\ Return(t, "done")
       \/ /\ f \notin lease[p]
          /\ LeaseFileBusy(p, f)
          /\ Return(t, "failed")
          /\ UNCHANGED <<lease, memo>>
    /\ UNCHANGED <<fileVars, artifact, manifest, mapped>>

-----------------------------------------------------------------------------
\* Everything thread t does between entering compile_path and leaving it.
CallStep(t) ==
    \/ Start(t) \/ BootstrapLock(t) \/ BootstrapGenerate(t) \/ BootstrapFails(t)
    \/ BootstrapPersist(t) \/ Plan(t) \/ AcquireUnit(t) \/ AcquireEntry(t)
    \/ LockTimeout(t) \/ Recheck(t) \/ CopyLock(t) \/ RunCargo(t) \/ CargoFails(t)
    \/ PersistLock(t) \/ VerifyLock(t) \/ PublishFails(t) \/ KeepArtifact(t)
    \/ ReplaceArtifact(t) \/ WriteManifest(t) \/ Touch(t) \/ LoadExtension(t)
    \/ LoadFails(t) \/ RetainLease(t)

=============================================================================
