# Crabwalk in TLA+

Crabwalk compiles decorated Python functions to Rust, builds them with Cargo and
loads the native extension. This directory holds TLA+ models of its parts, the
TLC configurations that check them on small instances, and TLAPS proofs that
hold for every instance. Paths below are relative to `src/src/crabwalk`.

## The system

| component | state it keeps | operations | hard behaviour | what makes it correct |
|---|---|---|---|---|
| artifact cache, `build/cache.py` | entries (library, manifest, access time) by fingerprint, lock files, load leases | inspect, publish, touch, retain a lease, prune | processes share it, die at any step, map its files | a mapped library is never replaced or removed; a verified entry is what its fingerprint says |
| compilation service, `service.py` | the dependency lock of each unit, generated projects, results per process | `compile_path`: plan, lock, Cargo, publish, load, replan | plans made before the locks, locks moving, threads and processes | bytes never published under another lock's fingerprint; calls end |
| Cargo driver, `build/cargo.py` | a process group | run, poll, cancel, terminate | cancellation against completion and timeout | no orphan, no lost cancellation |
| extension loader, `build/loader.py` | `sys.modules` | load | failure while loading | loaded once, nothing left after a failure |
| fingerprint, `build/fingerprint.py` | - | hash all inputs | inputs change between hash and build | equal fingerprints mean equal inputs |
| ownership handles, `runtime.py`, `compiler/codegen.py` | the native slot of each handle, its active borrows | construct, borrow, take, share, drop | reentrant calls, several arguments, failing conversions, threads | one owner; no use after a move; borrows exclude each other |
| decorator runtime, `runtime.py` | compile lock, binding sessions, registered types | bind, reload, find a prebuilt artifact, translate errors | reload, import order, threads | a binding belongs to the source it was compiled from |
| generated thread pool, `compiler/codegen.py` | channel, workers, failure slot | build, execute, finish, drop | panics, jobs that wait for jobs, shutdown, half-built pools | every job runs once; every shutdown ends |
| generated executor, `compiler/codegen.py` | the futures being polled | block_on, join2, select2, recv_async | order in which futures return | a finished future is not polled again; no result is lost |
| generated wrappers, GIL policy, `compiler/codegen.py`, `compiler/validation.py` | - | preflight, extract, call, write back; release the GIL | partial failure between arguments; calls that reach Python through others | nothing is taken from the caller by a call that fails; no Python without the GIL |
| effect analysis, `compiler/effects.py` | effects per function | fixpoint | recursion in the call graph | least fixpoint |
| package graph, `compiler/package_graph.py` | modules, what their names mean | follow imports, sweep until nothing changes | cycles, re-exports, star imports, shadowing | a name means what importing the package makes of it |
| moves and borrows, `compiler/ownership.py`, `compiler/frontend.py` | the local states: names in scope, those consumed | lower a statement, enter, merge and leave branches | loops and early exits | no path uses a moved value |
| frontend and IR, the rest of `compiler/` | - | lower, validate, name, render | size; what two of its parts say of one type or name | accepted source becomes Rust of the type it was given that means the same |
| embedding, `embedding.py` | snapshot files named by the hash of the source | look, write aside, move, retry, analyze, cancel | callers with equal sources share the files; files that somebody has open | a call compiles the source it was given |
| watch and LSP, `cli.py`, `lsp.py` | stamps of the watched files, open documents | compile, snapshot, poll | edits during a check | the last edit is checked |
| wheels, `wheel.py`, `build_backend.py` | wheel contents, remembered analyses | analyze, build, collect, verify on import | sources edited and artifacts pruned meanwhile | a prebuilt library is bound only to the sources it was built from |
| configuration, diagnostics, tooling | - | parse, report | - | - |

They meet in the file system: `compile_path` reads and writes the dependency
lock (`crabwalk-locks/`), takes the unit's and the entry's lock files, publishes
into the cache and loads from it; a prune walks the same entries under the same
entry locks and asks the leases. The decorator runtime, the command line, wheels and
embedding all call `compile_path`; the loaded module is what handles, wrappers,
pool and executor live in.

## Modules

Of the build system:

| module | what it is | models |
|---|---|---|
| `ArtifactCache` | state of the cache and its predicates | `build/cache.py`: inspection, entry locks, leases, prune snapshots |
| `CompilationService` | one action per step of `compile_path` | `service.py`, and `build/loader.py`, with Cargo as an external program |
| `BuildSystem` | the service composed with prunes, process ends and the outside world; the properties | `build/cache.py` (`prune_artifact_cache`) |
| `MappedStore` | abstract: a store whose entries are not replaced or removed while read | what the cache promises |
| `MCBuildSystem` | constants for TLC | - |
| `BuildSystemProofs` | types; what the file locks guarantee; lease coverage and refinement of `MappedStore` | - |
| `CacheIntegrityProofs` | verified entries and resolved locks | - |

Around it and in the loaded module:

| module | what it is | models |
|---|---|---|
| `LeaseFiles` | the lock files behind `lease` of `ArtifactCache`: names, open files, locks | `build/cache.py`: `retain_cache_load_lease`, `cache_load_lease_active` |
| `CachePrune` | one pass with sizes, ages and the account it returns | `build/cache.py`: `prune_artifact_cache` |
| `CargoProcess` | the driver and the process tree | `build/cargo.py`: `_run_command`, `_terminate_process_tree` |
| `BindingSessions` | decorators that bind while Python imports | `runtime.py`: `_compilation_for` |
| `WheelBuilds` | analysis, archive, manifest, first import | `wheel.py`, `analyze_project_path`, `_load_prebuilt_compilation` |
| `WatchLoop` | compile, snapshot, poll | `cli.py`: `_watch_check` |
| `ThreadPool` | owner and workers of the generated pool | `compiler/codegen.py`, `_write_thread_pool` |
| `JobPool` | abstract: what the pool promises its owner | the contract of `finish()` and of dropping the pool |
| `BlockOnExecutor` | the polls of a tree of futures | `compiler/codegen.py`, `_write_block_on_executor` |
| `OwnershipHandles` | handles, calls within calls, threads | `runtime.py` (`_RustOwnedValue`, `_invoke`), the generated wrappers' prologue |
| `BorrowDiscipline` | abstract: values are moved, borrowed and dropped by Rust's rules | what the handles promise |
| `MCHost`, `MCOwnership` | instances for TLC | - |
| `HostProofs` | leases, Cargo's processes, sessions, wheels, prunes | - |
| `RuntimeProofs` | pool and executor; refinement of `JobPool` | - |
| `OwnershipProofs` | the invariants of handles and calls; refinement of `BorrowDiscipline` | - |

Of the compiler:

| module | what it is | models |
|---|---|---|
| `EffectPropagation` | the sweeps of effects | `compiler/effects.py`: `propagate_effects` |
| `ExpressionEffects` | what one expression introduces and dispatches to | `compiler/effects.py` |
| `NativePolicy` | validation, GIL decision, and the native call that judges them | `compiler/validation.py`, `compiler/codegen.py` |
| `LocalMoves` | a body lowered statement by statement with the states of its locals, and a path through its Rust | `compiler/frontend.py`, `compiler/ownership.py`, `compiler/lowering/statements.py` |
| `SemanticTypes` | types | `compiler/types.py` |
| `MatchPatterns` | patterns, and which values they match in Python and in Rust | `compiler/lowering/patterns.py` |
| `BuiltinMethods` | methods of builtin types with their closures, types and refusals | `_lower_method_call` of `compiler/frontend.py` |
| `MethodChains` | the Rust operations they become and what those do; one call after the other, on both sides | `compiler/rust_emission.py` |
| `TypedExpressions` | expressions with their types and refusals | `_lower_expression` of `compiler/frontend.py` |
| `RenderedExpressions` | their Rust text by type and meaning | `_render_expression` of `compiler/rust_emission.py` |
| `Gensym`, `NameBinding` | emitted names | `compiler/symbols.py`, `compiler/bindings.py`, `compiler/validation.py` |
| `PackageImports` | names of a package without running it | `compiler/package_graph.py`, `_fixed_point_crate_bindings` and what it calls |
| `SourceSnapshots` | callers that store and analyze snapshots | `embedding.py`: `compile_source` |
| `MCMoves`, `MCPatterns`, `MCExpressions`, `MCNames` | catalogs of inputs, and the properties of the last three passes | - |
| `MCImports` | a catalog of packages, and the same modules as CPython runs them | (external) |
| `MCCompiler` | all of them, one per behaviour, with a catalog of packages for `NativePolicy` | - |
| `CompilerProofs` | snapshots, effects, native calls, names | - |
| `MovesProofs` | moves and returns on every path | - |
| `ChainProofs` | chains of builtin methods: receivers and types | - |

A module with proofs EXTENDS the modules it proves about. So do `MCHost` and `MCCompiler`, whose runs
evaluate the ASSUMEs; they INSTANCE only `WatchLoop` and the passes that have no theorem.

**How the state corresponds.** A fingerprint is a record of what distinguishes
plans here: the hash of the dependency lock (or that there is none) and the locked
policy. A native library is a record of what Cargo built it from: the Cargo.lock
and `world`, all the inputs that no fingerprint covers (undeclared build-script
inputs). A file's bytes stand for their hash. `artifact[f]` and `manifest[f]` are the
two files of an entry, the manifest reduced to the bytes it names; a
fingerprint's other manifest fields never differ. `entryLock`, `unitLock` and
`pruneLock` are the lock files, `lease[p]` the lease files locked by process p under
the name `LeaseId[p]`. `snapshot[r]` are the entries whose size and access time are
still those of pruner r's inventory, so that "current != snapshot" is
`f \notin snapshot[r]`. `target` and `genLock` are Cargo's output and the generated
project's Cargo.lock per fingerprint (the extension name contains the fingerprint, so
the shared target directory has one library for each); `memo[p]` is
`_loaded_results`.

**How the actions correspond.** A thread walks through the labels of `pc[t]`.
Each action covers the code between two points where others may look: taking a lock
file, running Cargo, replacing a file. `Plan` includes hash, fingerprint
and the early in-process result; `Recheck` everything under the locks up to the
inspection; `RunCargo` success of Cargo, `CargoFails` every other outcome (rejected
code, refused `--locked`, timeout, cancellation); `PublishFails` the rejections
CRAB306 and CRAB307; `ReplaceArtifact` and `WriteManifest` are apart because a process can
die between them; `LoadExtension` and `RetainLease` because a prune can look
between them. `Replan` ends in CRAB308 at the third plan. `LockTimeout` is the bare
TimeoutError of a file lock whose holder outlasts the wait. The wait's length is not
modelled: a busy lock may time out at any moment.

Cargo is external. It keeps a Cargo.lock that satisfies Cargo.toml (`Resolved`) and
re-resolves another one, unless `--locked` forbids it. It rebuilds exactly when the
lock or the world changed, and says `fresh` otherwise.

**The thread pool.** Its code is Rust text that Python writes; the actions follow that text.
A worker's loop is cut where the others can notice: at the mutex, at `recv`
(`Receive`, `Disconnected`), at the end of the job (`RunJob`) and at the failure slot (`Record`).
The guard of the mutex is a temporary of the `let` statement, so `Receive`
releases it. A job is atomic, but it may have to wait for messages of other jobs
(`Needs`; workers cannot touch Python, CRAB206, so they wait for nothing else of the process). `Close` is the start of
`finish()` or of a drop; `shutdown` after `finish` finds no sender and no workers and is not a step. The
branch for a failed join is never taken, since the loop catches every panic. `Close`
leaves out owners that keep a sender which their jobs still wait for.

**The executor.** `stage[n]` is how far the state machine of future n is, `path` the stack of
`poll` calls in progress, each with the children it has polled. A step is one poll that starts, answers
or goes to the next child (`PolledNext`). `Awaits[n]` are the children of n, left before right; futures are values, so the
nodes are a tree (`TreeAssumption`, with `Below[n]` for all that n awaits, directly or not). A body
awaits its children in order; `join2` polls left, then right, unless they are ready;
`select2` polls left first and drops the other future when one is ready. `recv_async` is
`try_recv`; a disconnected channel ends the program with a panic. The clock, and threads that
send and hang up, step at any moment.

**Handles and calls.** `handle[h]` is the Python object: its class, the thread it belongs to, the
value in its native slot, how many borrow contexts of either kind `runtime.py` keeps, and whether a move
site is recorded. `stack[t]` are the calls in progress of a thread, each with its arguments,
its phase, whether it holds the guards of its preflight (`guarded`), and how many arguments it has extracted (`got`): `Enter` is `_invoke` up to the native call; `Acquire`, `CheckBuffers` and
`Extract` are the wrapper's prologue (preflight of all ownership arguments, buffers, extraction, and
what an extraction that fails puts back); `Return` the ways to end, with contexts and move
sites as `_invoke`'s `finally` leaves them. Python code runs in a call where the function prints
or a buffer's class exports it, and may use every handle again. Threads switch where Python
code runs and where a call has released the GIL.

**Leases, prunes, Cargo.** In `LeaseFiles` a lock belongs to an open file and not to its name
(`linked`, `locked`); `place[p]` is how far a process is with making, opening and
locking its file, `check` the prune's look at the directory. In `CachePrune` an entry is its size and its
last use; `seen` is the inventory, which other processes make stale by using and publishing, `selected` what the pass
has chosen by age and by size, `tried` how far the removal is.
In `CargoProcess` the driver polls (`Look`, `NothingYet`, `Completed`), stops the tree (`Stop`:
SIGTERM to the group, then a wait for Cargo and a SIGKILL), and then waits for the pipes, which stay open while any
process that inherited them lives.

**Bindings and wheels.** `_compile_lock` is held from the lookup of a session to its update, so
`BindFromSession` and `BindFromBuild` are one step each. `importing[m]` is the version of module m that
Python runs and how many declarations it has bound; an import may start another one
between two declarations, break off (`ImportBreaks`) and start again. In `WheelBuilds` a step is one reading or hashing of the
sources: `HashKeyNative` and `HashKeyAll` make the key of the remembered analysis, `HashNative`,
`HashAll` and `ReadSources` the analysis, `Remember` its `setdefault`; `Compile` gets the library of a
fingerprint, `Collect...` read what goes into the archive, `Import` is the check on the
installation.

**Passes of the compiler.** A pass without state of its own is a function of its input: its
question is one program of the catalog, its answer the IR with the code of a refusal, and a
behaviour has one step. What is compared with it is a second definition which follows
Python's or Rust's rules and not the compiler's (`Python` and `Rust` of `MatchPatterns`, `Said`/`Done` and `Steps`/`Ran`
of `RenderedExpressions`, the Rust types in
`MethodChains`, scopes in `NameBinding`, CPython's imports in `MCImports`). Passes that iterate have a
step per sweep (`EffectPropagation`, `PackageImports`) or per call (`MethodChains`), and
`NativePolicy` follows a native call through the package, expression by expression, on the
thread it begins on and those it starts. Its packages are made of the expressions in `Nodes`; `WellFormed` is what
the frontend guarantees of them. A package with several problems is refused for any one of them: which of
them `validate_package_ir` reports first is left out.

`LocalMoves` has a step per statement. `block` is the block `_lower_block` is at, `stack` the blocks around it (the
recursion of `_lower_statement`), `locals` the local states. A statement's expression is reduced to the locals it reads, consumes and
mutates. `OpenCompound` lowers the condition of an `if` or a loop or the subject of a match and copies the states (`base`);
`NextBranch` restores the copy for the next branch, and `CloseCompound` merges what the branches left (`done`). `Refuse`
ends with the first error, `Finish` with CRAB109 unless the body returns. Beside it goes the judge, one path through the Rust that the
statements make: what each name is bound to, and how the path ends (`route`). It chooses its branch where a compound statement opens
(`way`), executes a statement when that is lowered, and waits while the other branches are. A path that goes round
each loop at most once meets the statements in their order, so the two go in lockstep.

**Snapshots.** `stored[p]` is what the file of part p holds: the source its name stands for, another,
or nothing. A call looks, opens, checks; writes a temporary of its own, moves it, and when the move is
denied opens what is there and compares, up to its attempts; then reads all parts. Windows
denies a move while anybody has the target open. Outsiders hold files open, spoil and
remove them and fill the disk.

## Properties and runs

The runs of the build system use two threads, one unit and at most one prune; a third thread would
only wait where the second does. Deadlock is checked in the runs of the build system and of
`ownership`, and in `host` for the pool; there is none. The behaviours of `compiler` and `worker_prefix` end
with their input.

| run | instance | checks | result |
|---|---|---|---|
| `repair` | two processes; faults: prune, crash at any step, 2 damages or changes of the world; modes load, build, expand; two resolvable locks | `PublishedEntryStays`, `VerifiedIsImmutable`, `ResolvedLockIsStable` | hold |
| `two_entries` | two processes; locked and unlocked entry of a unit; prune, exit and restart, one damage | `MappedIsLeased`, `StoreSpec` | hold |
| `replan_loop` | two threads of one process; one edit of the lock to any content or none; modes load and check; fairness | `TypeOK`, `VerifiedMatchesLock`, `EveryCallReturns` | hold |
| `host` | the components of `MCHost`, below; fairness | the properties of each, below | hold |
| `ownership` | three handles, two values, two threads, five signatures (two owned and a buffer; mutable and printing; two shared and printing; owned, detached and returning; `Shared`), calls within calls | `TypeOK`, `ContextsAreBorrows`, `MovedHasSite`, `DisciplineSpec`, `RefusedCallTakesNothing` | hold |
| `compiler` | the components of `MCCompiler`, below | the properties of each, below | hold |
| `forked_lease` | two processes that share a lease id, no faults | `MappedIsLeased` | violated: a defect |
| `locked_build` | two locked builds and one edit | `LockedKeepsLock` | violated: README and code differ |
| `lock_race` | as `replan_loop`, with the edit also between persist and compare | `VerifiedMatchesLock` | violated: comment and code differ |
| `overlap_reported` | functions that print while they hold an argument | `OverlapIsBorrowError` | violated: documentation and code differ |
| `worker_prefix` | the packages of `compiler` | `WorkersNeverReachPython` | violated: documentation and code differ |
| `stale_binding` | the sessions of `host` | `EditsAreSeen` | violated: a defect |

The components of `host` and `compiler` share nothing but files whose protocols `BuildSystem`
has, so a behaviour follows one of them (`component`) and the others rest. In `host` the pool must
not get stuck; the others may come to an end (`Settled`).

| component of `host` | instance | properties |
|---|---|---|
| pool | two workers, three jobs, of which one waits for a later one and two panic | `ReceiverAlive`, `PromiseSpec`, `EveryShutdownEnds`, `EveryWorkerEnds` |
| executor | fourteen futures: a join of two bodies, with two selects, a sleep, sends and three receives on one channel, to which a thread sends up to three times | `MessagesKept`, `NoPollAfterReady`, `BlockOnEnds` |
| sessions | two modules with three declarations; one edit of each source, one change of other inputs | `NeverStale` |
| watch | two files, two saves of each, the second of which does not compile | `SavesWhilePolling` |
| builds | Cargo with a compiler, a build script, and a server that ignores SIGTERM and keeps no pipe | `QuietWhenDone`, `CancelledBuildsEnd` |
| leases | two processes, a check | `LeasesAreFound` |
| cache | three entries, ages and sizes so that one is too old and the limit cuts among the others | `PruneIsExact` |
| wheels | two builds of a package with a native and a plain source; two edits or prunes | `BoundIsInstalled`, `RefusalMeansChange` |

| component of `compiler` | instance | properties |
|---|---|---|
| policy | packages of an exported function, a helper and an inner function, every combination of bodies that reaches a check, recursion included | `EffectsAreReachable`, `DetachedCallsStayNative`, `WorkersStayNative` |
| moves | bodies of up to three statements around one branch, loop or match, some with another branch inside; every path | `MovesAreCaught`, `ReturnsOnEveryPath` |
| patterns | matches of two arms over integers, characters, options, results, tuples, an enum and a struct, on every value the patterns tell apart | `ArmsAgree` |
| chains | every chain of builtin methods from some thirty locals, until a type has more than five constructors | `TypesAgree`, `ReceiversAreGiven` |
| expressions | each form of expression over locals, literals and calls, in several annotated contexts | `ExpressionsAgree` |
| names | functions of one type parameter, one parameter and up to three statements, their names keywords, constructors or lookalikes of made names | `NamesResolve` |
| imports | a root and modules a, b, c: chains, cycles, star imports with and without `__all__`, renames, shadows, submodules | `ImportsAgree` |
| snapshots | two callers with one source of two files, two attempts each, two disturbances | `SnapshotsHold` |

The bounds and why they suffice. `MaxMishaps = 2` lets an entry be damaged while
the world has changed as well, which is what CRAB306 and CRAB307 are about. `MaxEdits = 1`
is enough to reach a replan of both threads, because Cargo re-resolves the edited lock
back, which changes it again; the third plan and CRAB308 are reached that way
(without the bound of the loop `TypeOK` fails). Two lock contents tell the planned lock from
any other. Symmetry (`Swap`) exchanges both processes with their threads,
and the two states of the world; it is used for safety runs only. In `ownership` three
handles let two arguments of a call and one more be used by Python code inside it, and `MaxDepth = 2`
is a call within a call, after which a third would only repeat what the second may do to the first. `MaxChanges = 2`
of the wheels and `MaxMeddling = 2` of the snapshots let something change and
change back. For a pass of the compiler the catalog is the bound: its inputs were chosen form by form
and refusal by refusal, and every mutant in `PROJECT.json` breaks its property on it.

What each property is for:

- `MappedIsLeased`: load comes before lease, so a mapping is for a moment covered by
  the entry lock alone.
- `StoreSpec`: the refinement of `MappedStore`, the cache's promise to a process that
  maps a library.
- `PublishedEntryStays`: publish, manifest, touch and load see the same bytes.
- `VerifiedMatchesLock`: nothing verifies under the fingerprint of another
  dependency lock, whatever replans and repairs came before.
- `VerifiedIsImmutable`: CRAB306 instead of silently changed bytes.
- `ResolvedLockIsStable`: a second bootstrap or a stale plan does not rewrite a good lock.
- `EveryCallReturns`: waits expire, replans are bounded.
- `ReceiverAlive`: `execute` unwraps the result of `send`.
- `PromiseSpec`: the refinement of `JobPool`: no job lost or run twice, none left when
  `finish` returns, a failure reported exactly when a job panicked.
- `EveryShutdownEnds`, `EveryWorkerEnds`: a shutdown waits for no one who waits for it,
  and a constructor that failed leaves no worker behind.
- `MessagesKept`, `NoPollAfterReady`, `BlockOnEnds`: a select drops a future that may have received;
  a join goes on polling one side while the other is done; nobody wakes anybody, and still
  futures that wait for each other end.
- `NeverStale`: sessions outlive the imports that opened them, sources change between.
- `SavesWhilePolling`: the loop compares with what it last saw, not with what it compiled.
- `QuietWhenDone`, `CancelledBuildsEnd`: no compiler of a command that is over still writes when
  the next one starts; a cancellation ends.
- `LeasesAreFound`: a clean-up that unlinks files by name never takes one whose owner is
  about to lock it. This is what justifies `lease` in `ArtifactCache`.
- `PruneIsExact`: the account is computed from an inventory that is stale when the removal ends.
- `BoundIsInstalled`, `RefusalMeansChange`: a wheel's library fits its sources, and CRAB405 is
  no false alarm, whatever is edited between the many readings of the same files.
- `DisciplineSpec`: the refinement of `BorrowDiscipline`. `ContextsAreBorrows`: the Python
  side decides by its own books, which calls that fail half-way must restore.
  `RefusedCallTakesNothing`: extraction fails after something was taken.
  `MovedHasSite`: an error message about a move has a place to name.
- `EffectsAreReachable`: the sweeps stop when one changes nothing, in declaration order.
- `DetachedCallsStayNative`, `WorkersStayNative`: the checks look at effects, closures and signatures,
  the call at what really runs.
- `MovesAreCaught`, `ReturnsOnEveryPath`: states merge after branches, loops and arms; no path of the
  emitted Rust does what the merge forgot. Paths that go round a loop twice are left out; from the first of the two, those that jump, or
  in a block rebind a local from outside of it (`astray`; see below why they must be).
- `ArmsAgree`: two languages choose one arm and bind the same parts, with fields renamed and reordered.
- `TypesAgree`, `ReceiversAreGiven`: frontend and emitter each know every method on their own.
  Emissions that miss a method behind a reference or take a borrowed value, which rustc refuses,
  and `find` over owned items that are no copies are left out (see below).
- `ExpressionsAgree`: the same for every other expression, with the order of evaluation. Excepted
  are the forms of `LeftToRustc`, `CutsOff`, and the order when keyword arguments do not
  stand in the order of the parameters.
- `NamesResolve`: a made name never captures or is captured.
- `ImportsAgree`: nobody runs the package, and still a name is what Python would find; for packages
  whose import reads no name of a module still running.
- `SnapshotsHold`: callers share files and race to write them; readers, watchers and the dead
  do them no harm.

**Fairness.** `FairSpec` has weak fairness of `CallStep(t)` for every thread: a thread
inside `compile_path` is scheduled again and again by Python and the operating system,
Cargo ends (its timeout is ten minutes), and waiting for a lock is itself a step,
since the wait expires. Nothing is assumed about prunes, crashes or editors, nor that
anybody calls again. `HostFairness` is weak as well. In the pool every worker that can go on does, the owner goes through a
shutdown it has begun, and jobs end once they have their messages; the mutex need not be fair.
The executor spins, so it is always about to poll; deadlines pass and threads
end. The watch loop and Cargo's driver are loops of one thread that sleep between their
looks; a process that has been sent a signal it does not ignore dies. Nothing is assumed of editors, of
the user who cancels, nor of Cargo's children.

**Two windows.** The flags `editRacesVerify` and `damageRacesBuild` of `Faults` are off in
the passing runs. With the first, an editor may restore the planned dependency lock
between `_persist_dependency_lock` and `_lock_hash_changed`, two adjacent statements, and
`VerifiedMatchesLock` fails (`lock_race`). With the second, the disk damages a
library after `artifact_cache_info` said hit and while Cargo runs; if Cargo is fresh, the
damaged bytes are kept and signed. The passing runs show these properties
outside the two windows, and the theorems name the windows as
hypotheses (`EditExcluded`, `DamageExcluded`).

## Disagreements with the documentation

- *Forked processes* (`forked_lease`). `_PROCESS_LEASE_ID` (`build/cache.py:132`)
  is fixed at import. Processes forked afterwards open the same lease file; the second
  gets TimeoutError from `retain_cache_load_lease` after it has mapped the library, and
  the mapping is covered by no lease of its own. When the first exits, a prune may
  remove a mapped library. The proofs state the missing condition as `OwnLeaseFiles`.
- *Locked builds* (`locked_build`). README line 169 promises that with `--locked` the
  lock stays byte for byte. The persist step runs for locked builds too and
  replaces an edit made while Cargo ran by the copy taken before it.
- *Lock restored in time* (`lock_race`). `service.py:399` says that bytes are never
  published under the fingerprint of the previous dependency lock. The comparison before it
  reads the unit's lock file again and not the lock Cargo used, so an editor or
  checkout that restores the planned lock just then goes unnoticed.
- *Overlapping access* (`overlap_reported`). `Docs/Crabwalk Ownership and Domain Types.md:124` (at the root of the repository)
  promises `CrabwalkBorrowError`. `_invoke` asks only for shared access (`value.moved`) and records no
  context for owned arguments, so some overlaps end in PyO3's RuntimeError.
- *Prefix of a worker's closure* (`worker_prefix`). `Docs/Crabwalk Language Reference.md:546`
  says that a worker closure which reaches Python is rejected. `_python_runtime_offender`
  never walks `closure.prefix`.
- *Modules that come late to a session* (`stale_binding`). `runtime.py:1742` validates a
  module once, when its first declaration binds. If that happens in the middle of an import, the
  earlier declarations stay in the session unseen and are served after an edit.

Smaller ones have no run of their own. Where a property leaves them out, it says so.

- *Watch* (`EverySaveIsChecked` of `WatchLoop`): a save during the compilation is absorbed by the
  snapshot taken after it; after an error only the argument is watched; Cargo
  configuration never is.
- *Reloads* (`ReloadsReenter` of `BindingSessions`): a session opened by the reload of one module
  serves the reload of another, although other inputs have changed.
- *Imports* (`ImportsSettle` of `MCImports`): `a: from .c import f; from .b import f` with
  `b: from .d import f; from .a import f` never settles and stops at the bound. An import of something that is not native
  leaves a native definition of that name in place.
- *Moves*. CRAB227 misses consumed locals, which rustc then refuses, in three ways. A local
  consumed in a loop may be used again in the next round. After `if d: take(x); break`, an `x = fresh` in the same loop makes the merged
  states say that x is there after the loop, whatever became of the path that left it. A `rust.shadow(x)` in a branch
  revives the name in the states, also after the branch, where the Rust name is the outer binding again. Guards of
  arms, whose moves are not carried to the next arm, and arguments of `zip` and `push`, which are not tracked, are not in the model.
- *Methods* (`ReceiversAreMutable` of `MethodChains`): `reserve` is missing in
  `_mutated_receiver_names`, so its receiver is emitted without `mut`. Emission looks at a
  receiver's own type, not behind its reference; `.sum()` of integers is not marked as one that may panic.
- *Expressions*: positional arguments of a struct beyond its fields are dropped (CRAB152 exists for
  calls); keyword arguments are evaluated in the order of the parameters; `y: rust.i64 = [1, 2]` ends in
  ValueError; `-128` is refused for an `i8`. *Patterns*: `-129` is accepted for an `i8`, and `rust.Range(5, 1)`.
- *Wheels*: `analyze_project_path` hashes the sources for its key, `_analyze_regular_package` hashes and
  reads them again; an edit in between makes the process remember the new analysis under the old hash
  (`torn`). `setdefault` in `_remember_analysis` can give a thread the other's older analysis, and its wheel
  is refused wherever it is installed. `.py` files in hidden directories are shipped and
  not hashed; one below a source directory `_crabwalk_native` is hashed and not shipped.
- *Cargo*: a child that ignores SIGTERM survives a cancellation that is reported as done. Without a
  callback a timeout kills Cargo alone. If Cargo dies first while children hold the pipes, a
  cancellation kills nobody and waits.
- *Snapshots*: only the move is retried; a file that is locked or removed between the two looks at the beginning
  fails the call.
- *Prune*: `bytes_remaining` counts nothing that was published after the inventory.
- *Buffers*: CRAB229 looks for names whose own type is Buffer. `wrapped: rust.Option[rust.Buffer[rust.i64]] = rust.Some(values)`
  and then `rust.spawn(lambda: size(wrapped.unwrap()))` pass analysis and validation, and rustc refuses the package.
  `WellFormed` leaves such packages out: a call that takes a buffer names one.

## What is proved

Each for every value of the constants: any number of processes, threads, prunes, fingerprints and lock
contents, any faults and any bounds on them; any number of workers and jobs, any tree of futures; any
handles, values and signatures and any depth of calls; packages of any size; bodies of any length and nesting; chains
of methods of any length.

| theorem | states | hypotheses |
|---|---|---|
| `TypeCorrect` (`BuildSystemProofs`) | `[]TypeOK`, with the bound of the replan loop | - |
| `PublishedEntriesStay` (`BuildSystemProofs`) | `[]PublishedEntryStays` | - |
| `MappedLibrariesAreLeased` (`BuildSystemProofs`) | `[]MappedIsLeased` | `OwnLeaseFiles` |
| `ImplementsMappedStore` (`BuildSystemProofs`) | `StoreSpec` | `OwnLeaseFiles` |
| `ResolvedLocksAreStable` (`CacheIntegrityProofs`) | `ResolvedLockIsStable` | - |
| `VerifiedEntriesAreImmutable` (`CacheIntegrityProofs`) | `VerifiedIsImmutable` | `DamageExcluded` |
| `VerifiedEntriesMatchLock` (`CacheIntegrityProofs`) | `[]VerifiedMatchesLock` | `DamageExcluded`, `EditExcluded` |
| `SendNeverFails` (`RuntimeProofs`) | `[]ReceiverAlive` | - |
| `ImplementsJobPool` (`RuntimeProofs`) | `PromiseSpec` | - |
| `FuturesArePolledWhileLive` (`RuntimeProofs`) | `NoPollAfterReady` | - |
| `NoMessageIsLost` (`RuntimeProofs`) | `[]MessagesKept` | - |
| `HandlesTypeCorrect` (`OwnershipProofs`) | `[]TypeOK` of handles and calls | - |
| `HandlesInvariant` (`OwnershipProofs`) | `[]HandlesInv`, see below | - |
| `RefusalsTakeNothing` (`OwnershipProofs`) | `RefusedCallTakesNothing` | - |
| `MovesAreRecorded` (`OwnershipProofs`) | `[]MovedHasSite` | - |
| `ContextsAreExact` (`OwnershipProofs`) | `[]ContextsAreBorrows` | - |
| `HandlesImplementDiscipline` (`OwnershipProofs`) | `DisciplineSpec` | - |
| `LeasesStayFound` (`HostProofs`) | `[]LeasesAreFound` | - |
| `CommandsEndQuietly` (`HostProofs`) | `[]QuietWhenDone` | - |
| `BindingsAreNeverStale` (`HostProofs`) | `NeverStale` | - |
| `BoundLibrariesMatch` (`HostProofs`) | `[]BoundIsInstalled` | - |
| `OnlyChangesAreRefused` (`HostProofs`) | `[]RefusalMeansChange` | - |
| `PrunesAreExact` (`HostProofs`) | `[]PruneIsExact` | - |
| `SharedSnapshotsHold` (`CompilerProofs`) | `[]SnapshotsHold` | - |
| `EffectsAreTheLeastClosed` (`CompilerProofs`) | the swept table is closed under dispatch, and the least that is | direct effects are effects |
| `EffectsAreExact` (`CompilerProofs`) | `[]EffectsAreReachable` | the same |
| `DetachedCallsNeverReachPython` (`CompilerProofs`) | `[]DetachedCallsStayNative` | packages are `WellFormed` |
| `WorkersAreKeptFromPython` (`CompilerProofs`) | `[]WorkersStayNative` | the same |
| `NamesAreFresh` (`CompilerProofs`) | what `Gensym` gives out is avoided by nobody and given to nobody else, and is no keyword | avoided names are finitely many, keywords and builtin names are no made names |
| `LoweredReturns` (`MovesProofs`) | `[]ReturnsOnEveryPath` | bodies are made of `Statements` |
| `LoweredMovesAreCaught` (`MovesProofs`) | `[]MovesAreCaught` | the same |
| `ReceiversStayGiven` (`ChainProofs`) | `[]ReceiversAreGiven` | - |
| `TypesStayAgreed` (`ChainProofs`) | `[]TypesAgree` | the types a chain starts from, and its closures give, are `Sound` |

`OwnLeaseFiles` says that no two processes share a lease file name; it is false after a
fork. Each hypothesis about the build system is needed: without it the runs `forked_lease` and `lock_race`
are counterexamples, and with the flag `damageRacesBuild` the instance of `repair` violates both
properties that assume `DamageExcluded`.

**The build system.** One invariant carries all others. `LockInv` says that whoever works on
an entry holds its lock (`EntryLockHeld`), whoever works on the unit's files holds the unit's
lock (`UnitLockHeld`), a removal holds the lock of its victim (`RemovalLocked`), and Cargo's output
is there when it is published (`LibraryBuilt`); from these `PublishedEntryStays` is
inductive. Three invariants stand on it:

- `LibraryInv` adds `MappedIsLeased` and `RemovalUnread` (nobody maps what a prune
  removes): the code asks the leases, the promise is about mappings.
- `SignedInv` adds `InspectionStands` (from its inspection to its publication a call
  knows whether its entry verifies, because it holds the entry's lock) and
  `NothingDamagedSigned`. A publication replaces an entry only when the inspection
  said no hit, which gives immutability. `MatchInv` adds `BuiltFromLock` (Cargo's
  output, the project's lock and the unit's lock agree step by step until `VerifyLock`
  compares with the plan) and `EntriesMatchLock`.
- `HandInv` adds `LockInHand`: a missing lock stays missing while a bootstrap holds the
  unit's lock, and the lock Cargo gets is the unit's.

Frame lemmas (`OthersKeepLocals`, `OthersKeepLocks`, `OneWriterEach`, `StaysLocked`,
`StaysPublished`, `StaysBuilt`, `CameBy`, `UnitExclusion`, `EntryExclusion`, `OthersStay`) say once what
a step leaves alone; then each conjunct has a lemma with a case for the steps of a call
and one for the rest (`OtherStep`). `CallImplementsStore` and `OtherImplementsStore` map every
step to a step of `MappedStore` or a stutter.

**Pool and executor.** `PoolInv` follows each job: in the channel it has not run and is there once
(`Queued`), at a worker it is nowhere else (`Taken`), and no job is lost (`Accounted`); a worker ends
only when the channel is empty without a sender (`EndedDrained`), so that all workers
joined means all jobs run; a panic is in the slot or about to be recorded (`FailureKept`).
The waiting between jobs does not matter to these proofs, only to `EveryShutdownEnds`.

`ExecutorInv` has four parts. The polls in progress are of live futures, each awaited by the one before
(`PathInv`); who was dropped was awaited by somebody who is over (`DropInv`), so nothing on the path is dropped, whose owners
are all live; of a select one branch has returned, and while the select has not, that branch was polled just now
(`SelectInv`); a message is in its channel or with a receiver that has returned (`MessageInv`). The tree enters where two polls
could be of one future: `Below` has no cycle, and everybody is awaited by one.

**Handles.** `HandlesInv`: the phase of a call says what its wrapper holds (`CallsInOrder`); arguments stay
handles of their kind and thread (`ArgumentsStay`); a handle taken by value or mutably has no second use in its
call and no second guard in any (`GuardsExclude`); a guarded slot stays full until its own call takes the
value (`SlotsKept`); a value is in one slot or with one call (`ValuesApart`). `GuardsExclude` is what the
preflight is for: Python code may run between the phases and begin other calls with the same handles, and only a
guard held all the while makes the later phases safe. With it, a refused call has taken nothing, and `MovedHasSite` follows step by
step. For `ContextsAreBorrows` the contexts a call will restore must be known as well: `PriorsAreBorrows` says they are
the borrows of the calls below it on its stack; then counting is a matter of finite sets of uses. The
refinement maps a value to its place (in a handle, in an Arc, with a call, gone), the number of its readers and
whether it is being written; the proof has one lemma per step of the discipline, stated for sets of borrows, and one per
action of the handles.

**The host.** `LeaseInv`: whoever is in the middle of making or checking leases holds the entry's lock; a locked file is in the
folder; what the check has looked at is unlocked. `CargoInv`: a stopped command has its result before the driver waits for the
pipes, and the end of that wait is what leaves nobody behind, whatever the signals missed. `SessionInv`: a module that came to the session with its
first declaration has had that declaration, so an import that is further on runs the source the session was compared
with. `WheelInv`: an analysis found under a key has the key's hash and code, but for sources that were
seen to change while they were read (`torn`, in `IRFits`); what an undisturbed build has read is still there (`Calm`), so that what it
collects verifies where it is installed (`SiteFits`). `PruneInv` says of the inventory that it is right where it is
certain, and of the choice that it takes the least recently used (`SelectedByUse`). Its sums of sizes are folds with CHOOSE; that a
fold is a sum (adding an element adds its weight, in whatever order it was chosen) cannot be shown with the induction theorems, so
the lemmas argue by the least size of a set that would be a counterexample (`LeastExists`).

**The compiler.** `SnapshotInv` ties each call to the files it has passed (`Passed`): they hold its source unless an outsider
disturbed it, since callers move only whole files. `SweepInv`: until a sweep changes something, the functions before `place` are
closed; every effect in the table is in every closed table. The least closed table is shown to be the one of `ReachedEffects`, in which
`Reached` is the least set closed under calls, so no induction is needed.

`NativeInv` is about the walk of a native call. What the call has come to is an expression of some function whose effects and buffers
the entry has too (`Covers`); on a worker's thread, and outside of a closure's prefix, nothing that runs of it enters Python or reads a
buffer (`RunsClean`). The walk goes into parts, where `RunsClean` is inherited; to a closure handed to another thread,
which validation has looked through; or into a called function, whose effects say it stays clean. `Walk` is a recursive function on
expressions: that it is the set of all parts, at any depth, follows from a function that unfolds in the same way
(`ContainedUnfolds`), not from an induction.

The two theorems about moves have no induction over programs, because the lowering is a machine: its stack is what the recursion was, and the
invariants speak of all blocks on it at once. `Shapes` says how the blocks nest (names in scope grow inwards, a finished branch
knows all names from before the statement). `Placed` says where the path is: it is in a block only through the one
around it (`Together`); where something returned on it, it has ended, and a statement all of whose branches return has
ended it whichever it took (`Returning`); a jump is still in its loop (`JumpsStay`). At the end of the function's own block, which is
no loop, only a return is left. `Followed` says what the states promise as long as the path goes on unstrayed: in the
block that is being lowered, if the path is there, every name in scope that they do not hold consumed is live; of a statement with
branches, the same holds for the states at the end of the branch it took or, before that or if it took none, for the copy from before the
statement (`Reached`); and what the branch has hidden is as it was (`Restores`). A merge keeps this since the branch taken, or the copy in
a loop's case, is among what is merged. Neither the kinds of `Refusal` nor the fields of a statement matter to these proofs beyond this: an
accepted expression reads nothing that the states hold consumed (`AcceptedReads`).

`NamesAreFresh` is what `NamesResolve` rests on: `NameBinding` names every declaration by one call of the allocator, and the emitter
adds its temporaries by more. The loops of `Gensym` look for the first free number; that there is one is
the pigeonhole principle (`OneIsFree`), and a call takes the name it issues and no other (`CallTakesItsName`), so that names stay
taken. Calls come in any number and order, which needs no induction: the first call at which the invariant would fail cannot be.
What stays with TLC is that a use finds its declaration, which goes by recursion over the function.

The two theorems about chains of methods are facts about one call. A call is judged only while both sides still agree (guard of `CallMethod`),
so a chain needs no more than a fact about any one call on any type: for each table of methods there is a lemma
about the receivers (`TextAvoids` to `TakersGiven`), about results and about closures
(`VecsLend` to `ConsumersLend`), and the dispatch of `MethodsOf` puts them together. That results stay well formed from
call to call is the invariant: `Sound(t)` says that t is in some set of types that holds the parts of all
its members, in which every constructor has its number of arguments, and iterators have the modes and
indexing the frontend gives them. A set, and not a recursion, says this without an induction. `CheckedTypesSound` shows
that all types the run starts from, or its closures give, are of this kind. Results of closures may be any sound type, deeper
or of other constructors than those the run asks for. The predicates a method's guard uses (`IsCopy`, `IsClone` and their like)
are recursive functions on `AllTypes`, the types nested no deeper than `MaxNesting` = 16: TLC would report a type beyond
that, and the proofs use nothing of these predicates, so that they hold for types of any depth.

The assumptions are the modules' ASSUMEs, which TLC evaluates in every run: names are distinct, bounds are numbers, futures
form a tree with two branches under each join and select (`TreeAssumption`), an entry has some size
(`PruneAssumption`), declarations are finite lists (`BindsAssumption`), every function is in the order of the
sweeps (`OrderAssumption`), methods have receivers and closures results (`NodesAssumption`), and calls are resolved
within the package (`PackageAssumption`), and compound statements are made of statements (`StatementsAssumption`).

**Model-checked only.** All liveness (`EveryCallReturns`, `EveryShutdownEnds`, `EveryWorkerEnds`,
`BlockOnEnds`, `SavesWhilePolling`, `CancelledBuildsEnd`): fairness is beyond the prover. The passes of the compiler that go
through their input by recursion (`ArmsAgree`, `ExpressionsAgree`, `NamesResolve`, `ImportsAgree`): what a recursive definition computes for every
program is an induction over data, which the prover cannot do either.

## Not modelled

Of the build system: diagnostics, wording, progress; path choice (Windows roots); other units of a
project (their locks and entries are disjoint, but for the bootstrap directory of
equally named modules); the failure of single writes (disk full); invalid combinations
of `mode` and `load`, which raise ValueError; what exactly a fingerprint hashes; the text of the Cargo project.

Of the compiler: generics, traits, lifetimes, crates and typed adapters, closures
outside of methods, the declarations themselves and their text (signatures, PyO3 classes,
capabilities), conversions between Python objects and Rust values; floating point and the arithmetic of
values (operators are compared by what they are applied to, and in which order).

Of the rest: the language server (one text per document, one request at a time, no state
that outlives an answer), the PEP 517 hooks and the wheel's format, the translation of native
exceptions, reports, configuration and the command line.

## Plan

Every component with state of its own is modelled, and every safety property of one is proved. What is left:

1. One package with several native calls at once: `walk` follows one call, and the theorems speak of it alone.
2. Properties that are stated and not run: `EverySaveIsChecked`, `ReloadsReenter`, `ImportsSettle`,
   `ReceiversAreMutable` each fail on the code as it is (see above).
