---------------------------- MODULE BuildSystem ----------------------------
(***************************************************************************)
(* The compilation service of several processes together with what runs    *)
(* beside it: "crabwalk cache prune", processes that die at any step, and  *)
(* the outside world, which edits the dependency lock, changes inputs no   *)
(* fingerprint covers and damages cache files.                             *)
(***************************************************************************)
EXTENDS CompilationService

CONSTANTS
    Faults,     \* which of the outside events happen, see Fault
    MaxEdits,   \* how often somebody else writes the dependency lock
    MaxMishaps  \* how often in all the disk damages an entry or the inputs
                \* outside the fingerprint change

Fault == {"edit", "editRacesVerify", "world", "damage", "damageRacesBuild",
          "crash", "exit", "prune"}

ASSUME SystemAssumption ==
    /\ Faults \subseteq Fault
    /\ {MaxEdits, MaxMishaps} \subseteq Nat

VARIABLES
    prunePc,    \* prunePc[r]: where pruner r stands
    todo,       \* todo[r]: entries it has still to visit in its phase
    victim,     \* victim[r]: the entry it is removing
    pruneLock,  \* holder of locks/cache-prune.lock
    edits,      \* writes of the dependency lock by anyone but crabwalk
    mishaps     \* damages and input changes so far

outsideVars == <<edits, mishaps>>

pruneVars == <<prunePc, todo, victim, pruneLock>>
vars == <<cacheVars, serviceVars, pruneVars, outsideVars>>

NoVictim == NoPlan
PruneLabel == {"idle", "inventory", "remove", "removing"}

TypeOK ==
    /\ CacheTypeOK
    /\ ServiceTypeOK
    /\ prunePc \in [Pruners -> PruneLabel]
    /\ todo \in [Pruners -> SUBSET Fingerprint]
    /\ victim \in [Pruners -> Fingerprint]
    /\ pruneLock \in Pruners \cup {Free}
    /\ edits \in 0 .. MaxEdits
    /\ mishaps \in 0 .. MaxMishaps

Init ==
    /\ CacheInit
    /\ ServiceInit
    /\ prunePc = [r \in Pruners |-> "idle"]
    /\ todo = [r \in Pruners |-> {}]
    /\ victim = [r \in Pruners |-> NoVictim]
    /\ pruneLock = Free
    /\ edits = 0
    /\ mishaps = 0

-----------------------------------------------------------------------------
(* prune_artifact_cache: an inventory of the entries nobody is busy with,  *)
(* a selection by age and size (any subset here), and removals under each  *)
(* entry's lock, tried once.                                               *)

PruneGoto(r, label) == prunePc' = [prunePc EXCEPT ![r] = label]

PruneBegin(r) ==
    /\ "prune" \in Faults
    /\ prunePc[r] = "idle"
    /\ pruneLock = Free
    /\ pruneLock' = r
    /\ todo' = [todo EXCEPT ![r] = {f \in Fingerprint : Exists(f)}]
    /\ snapshot' = [snapshot EXCEPT ![r] = {}]
    /\ PruneGoto(r, "inventory")
    /\ UNCHANGED <<victim, outsideVars, serviceVars, artifact, manifest, entryLock,
                   mapped, lease>>

\* Phase one measures an entry under its lock, or counts it as uncertain.
PruneInventory(r, f) ==
    /\ prunePc[r] = "inventory"
    /\ f \in todo[r]
    /\ todo' = [todo EXCEPT ![r] = @ \ {f}]
    /\ snapshot' = IF entryLock[f] = Free
                   THEN [snapshot EXCEPT ![r] = @ \cup {f}]
                   ELSE snapshot
    /\ UNCHANGED <<prunePc, victim, pruneLock, outsideVars, serviceVars, artifact,
                   manifest, entryLock, mapped, lease>>

PruneSelect(r) ==
    /\ prunePc[r] = "inventory"
    /\ todo[r] = {}
    /\ \E S \in SUBSET snapshot[r] : todo' = [todo EXCEPT ![r] = S]
    /\ PruneGoto(r, "remove")
    /\ UNCHANGED <<victim, pruneLock, outsideVars, serviceVars, cacheVars>>

\* Mutant: phase two removes what phase one selected, whoever maps it.
TrustsSelection(r, f) == entryLock[f] = Free /\ f \in snapshot[r]

\* Mutant: phase two does not wait for the entry's lock.
IgnoresEntryLock(r, f) == ~LeaseActive(f)

\* Under its lock: the same size and access time, and no process maps it.
Removable(r, f) ==
    entryLock[f] = Free /\ f \in snapshot[r] /\ ~LeaseActive(f)

PruneTake(r, f) ==
    /\ prunePc[r] = "remove"
    /\ f \in todo[r]
    /\ todo' = [todo EXCEPT ![r] = @ \ {f}]
    /\ \/ /\ Removable(r, f)
          /\ entryLock' = [entryLock EXCEPT ![f] = r]
          /\ victim' = [victim EXCEPT ![r] = f]
          /\ PruneGoto(r, "removing")
       \/ /\ ~Removable(r, f)
          /\ UNCHANGED <<entryLock, victim, prunePc>>
    /\ UNCHANGED <<pruneLock, outsideVars, serviceVars, artifact, manifest, mapped,
                   lease, snapshot>>

\* shutil.rmtree deletes the entry's files one by one.
PruneUnlink(r) ==
    LET f == victim[r] IN
    /\ prunePc[r] = "removing"
    /\ \/ artifact[f] # Missing
          /\ artifact' = [artifact EXCEPT ![f] = Missing]
          /\ UNCHANGED manifest
       \/ manifest[f] # Missing
          /\ manifest' = [manifest EXCEPT ![f] = Missing]
          /\ UNCHANGED artifact
    /\ UNCHANGED <<pruneVars, outsideVars, serviceVars, entryLock, mapped, lease, snapshot>>

PruneRemoved(r) ==
    /\ prunePc[r] = "removing"
    /\ ~Exists(victim[r])
    /\ entryLock' = [entryLock EXCEPT ![victim[r]] = Free]
    /\ victim' = [victim EXCEPT ![r] = NoVictim]
    /\ Disturb(victim[r])
    /\ PruneGoto(r, "remove")
    /\ UNCHANGED <<todo, pruneLock, outsideVars, serviceVars, artifact, manifest,
                   mapped, lease>>

PruneEnd(r) ==
    /\ prunePc[r] = "remove"
    /\ todo[r] = {}
    /\ pruneLock' = Free
    /\ snapshot' = [snapshot EXCEPT ![r] = {}]
    /\ PruneGoto(r, "idle")
    /\ UNCHANGED <<todo, victim, outsideVars, serviceVars, artifact, manifest,
                   entryLock, mapped, lease>>

PruneStep(r) ==
    \/ PruneBegin(r) \/ PruneSelect(r) \/ PruneUnlink(r) \/ PruneRemoved(r)
    \/ PruneEnd(r)
    \/ \E f \in Fingerprint : PruneInventory(r, f) \/ PruneTake(r, f)

-----------------------------------------------------------------------------
(* The end of a process, at any step when it is killed: the operating      *)
(* system drops its file locks and its mappings; what it wrote stays.      *)

ThreadsOf(p) == {t \in Threads : ProcOf[t] = p}

ProcessEnds(p) ==
    LET dead == ThreadsOf(p) IN
    /\ \/ "crash" \in Faults
       \/ "exit" \in Faults /\ \A t \in dead : pc[t] \in Ended
    /\ pc' = [t \in Threads |-> IF t \in dead THEN "idle" ELSE pc[t]]
    /\ call' = [t \in Threads |-> IF t \in dead THEN NoCall ELSE call[t]]
    /\ attempt' = [t \in Threads |-> IF t \in dead THEN 1 ELSE attempt[t]]
    /\ plan' = [t \in Threads |-> IF t \in dead THEN NoPlan ELSE plan[t]]
    /\ hit' = [t \in Threads |-> IF t \in dead THEN FALSE ELSE hit[t]]
    /\ fresh' = [t \in Threads |-> IF t \in dead THEN FALSE ELSE fresh[t]]
    /\ digest' = [t \in Threads |-> IF t \in dead THEN Missing ELSE digest[t]]
    /\ unitLock' = IF unitLock \in dead THEN Free ELSE unitLock
    /\ entryLock' = [f \in Fingerprint |->
                        IF entryLock[f] \in dead THEN Free ELSE entryLock[f]]
    /\ mapped' = [mapped EXCEPT ![p] = {}]
    /\ lease' = [lease EXCEPT ![p] = {}]
    /\ memo' = [memo EXCEPT ![p] = {}]
    /\ UNCHANGED <<fileVars, artifact, manifest, snapshot, pruneVars, outsideVars>>

PrunerCrash(r) ==
    /\ "crash" \in Faults
    /\ prunePc[r] # "idle"
    /\ PruneGoto(r, "idle")
    /\ todo' = [todo EXCEPT ![r] = {}]
    /\ snapshot' = [snapshot EXCEPT ![r] = {}]
    /\ victim' = [victim EXCEPT ![r] = NoVictim]
    /\ pruneLock' = Free
    /\ entryLock' = [f \in Fingerprint |->
                        IF entryLock[f] = r THEN Free ELSE entryLock[f]]
    /\ UNCHANGED <<outsideVars, serviceVars, artifact, manifest, mapped, lease>>

-----------------------------------------------------------------------------
(* The world outside crabwalk.                                             *)

\* A user, an editor or a checkout writes or deletes the dependency lock.
EditLock(v) ==
    /\ "edit" \in Faults
    /\ v # depLock
    /\ "editRacesVerify" \in Faults \/ \A t \in Threads : pc[t] # "verify"
    /\ depLock' = v
    /\ edits < MaxEdits
    /\ edits' = edits + 1
    /\ UNCHANGED <<mishaps, bootLock, genLock, target, world, threadVars, unitLock, memo,
                   cacheVars, pruneVars>>

ChangeWorld(w) ==
    /\ "world" \in Faults
    /\ w # world
    /\ world' = w
    /\ mishaps < MaxMishaps
    /\ mishaps' = mishaps + 1
    /\ UNCHANGED <<depLock, bootLock, genLock, target, threadVars, unitLock, memo,
                   cacheVars, pruneVars, edits>>

\* Between an inspection that said "hit" and the publication that trusts it.
TrustsInspection(f) ==
    \E t \in Threads :
        /\ hit[t] /\ plan[t] = f
        /\ pc[t] \in {"copy", "cargo", "persist", "verify", "publish"}

DamageEntry(f) ==
    /\ "damage" \in Faults
    /\ "damageRacesBuild" \in Faults \/ ~TrustsInspection(f)
    /\ \/ /\ artifact[f] \notin {Missing, Damaged}
          /\ artifact' = [artifact EXCEPT ![f] = Damaged]
          /\ UNCHANGED manifest
       \/ /\ manifest[f] # Missing
          /\ manifest' = [manifest EXCEPT ![f] = Missing]
          /\ UNCHANGED artifact
    /\ mishaps < MaxMishaps
    /\ mishaps' = mishaps + 1
    /\ Disturb(f)
    /\ UNCHANGED <<entryLock, mapped, lease, serviceVars, pruneVars, edits>>

Outside ==
    \/ \E v \in Versions \cup {Missing} : EditLock(v)
    \/ \E w \in Worlds : ChangeWorld(w)
    \/ \E f \in Fingerprint : DamageEntry(f)

-----------------------------------------------------------------------------
ThreadStep(t) ==
    /\ UNCHANGED <<pruneVars, outsideVars>>
    /\ CallStep(t) \/ \E c \in Calls : Begin(t, c)

Next ==
    \/ \E t \in Threads : ThreadStep(t)
    \/ \E r \in Pruners : PruneStep(r) \/ PrunerCrash(r)
    \/ \E p \in Procs : ProcessEnds(p)
    \/ Outside

Spec == Init /\ [][Next]_vars

\* A thread inside compile_path is scheduled again and again; waiting for a
\* lock is one of its steps, because the wait expires.
Fairness == \A t \in Threads : WF_vars(CallStep(t) /\ UNCHANGED <<pruneVars, outsideVars>>)

FairSpec == Spec /\ Fairness

-----------------------------------------------------------------------------
(* What makes the composition correct.                                     *)

\* A process that has mapped an entry's library holds its own load lease on
\* that entry, or is about to take it under the entry's lock (load_extension
\* comes before retain_cache_load_lease).  Without it a prune or a repair
\* would not know of the mapping.
MappedIsLeased ==
    \A p \in Procs : \A f \in mapped[p] :
        \/ f \in lease[p]
        \/ \E t \in ThreadsOf(p) : pc[t] = "retain" /\ plan[t] = f

\* From the moment a call has published (or kept) the library until it
\* returns, the entry holds exactly the bytes its manifest will name: no
\* prune and no other call gets in between, unless the disk damages them.
PublishedEntryStays ==
    \A t \in Threads :
        pc[t] \in {"manifest", "touch", "loading", "retain"} =>
            digest[t] # Missing /\ artifact[plan[t]] \in {digest[t], Damaged}

\* An entry that verifies was built from the dependency lock its fingerprint
\* names ("Never publish bytes under the fingerprint of the previous
\* dependency lock"), whatever crashes, replans and repairs came before.
VerifiedMatchesLock ==
    \A f \in Fingerprint :
        Hit(f) => artifact[f] \in Binary /\ artifact[f].lock = f.lock

\* The bytes of a verified entry never change under its fingerprint: a build
\* that gets other bytes keeps the entry or fails with CRAB306.  Only a
\* prune removes and only the disk damages them.
VerifiedIsImmutable ==
    [][\A f \in Fingerprint :
          Hit(f) => artifact'[f] \in {artifact[f], Missing, Damaged}]_vars

\* As long as nobody else writes it, a dependency lock that satisfies
\* Cargo.toml is never rewritten: not by a second bootstrap that waited for
\* the first, not by a build that planned with an older lock.
ResolvedLockIsStable ==
    [][edits' = 0 /\ depLock \in Resolved => depLock' = depLock]_vars

\* "Pass --locked when the lock must remain byte-for-byte unchanged": the
\* persist step of a locked call leaves the dependency lock as it finds it.
LockedKeepsLock ==
    [][\A t \in Threads :
          call[t].locked /\ PersistLock(t) => depLock' = depLock]_vars

\* Every call of compile_path returns or raises, however often the lock is
\* edited and whoever dies holding what: waits expire and replans are
\* bounded.
EveryCallReturns ==
    \A t \in Threads : pc[t] \notin Ended ~> pc[t] \in Ended

\* The system implements the store of mapped libraries: no step replaces or
\* removes a library while some process maps it.
Store == INSTANCE MappedStore WITH
            Entries <- Fingerprint, Readers <- Procs, Contents <- Binary,
            content <- artifact, reads <- mapped

StoreSpec == Store!Spec

=============================================================================
