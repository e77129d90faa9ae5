--------------------------- MODULE ArtifactCache ---------------------------
(***************************************************************************)
(* The content-addressed artifact cache of build/cache.py: one entry per   *)
(* complete fingerprint (a native artifact and a manifest with its hash),  *)
(* the per-entry file lock, the load leases of the processes that mapped   *)
(* an entry, and what a running prune still knows about an entry.          *)
(*                                                                         *)
(* A file's bytes stand for its hash.  Stamps (size, access time) are      *)
(* abstracted to "unchanged since the prune's inventory".                  *)
(***************************************************************************)

CONSTANTS
    Procs,      \* operating-system processes that run crabwalk
    Threads,    \* threads that call the compilation service
    Pruners,    \* processes that run "crabwalk cache prune"
    LeaseId,    \* LeaseId[p]: the _PROCESS_LEASE_ID that process p uses
    Versions,   \* contents of the dependency lock (Cargo.lock)
    Policies,   \* effective --locked policies in use, a subset of BOOLEAN
    Worlds,     \* states of the build inputs no fingerprint covers
    Missing,    \* no such file
    Damaged,    \* bytes nobody built, as a torn or corrupted file holds
    Free        \* the owner of a lock nobody holds

ASSUME CacheAssumption ==
    /\ Policies \subseteq BOOLEAN
    /\ Free \notin Threads \cup Pruners
    /\ Threads \cap Pruners = {}
    /\ Missing \notin Versions
    /\ Missing # Damaged

Fingerprint == [lock : Versions \cup {Missing}, locked : Policies]
Binary == [lock : Versions, world : Worlds]

ASSUME BinaryAssumption ==
    /\ Missing \notin Binary
    /\ Damaged \notin Binary

VARIABLES
    artifact,   \* artifact[f]: the entry's native library
    manifest,   \* manifest[f]: the bytes whose hash the entry's manifest holds
    entryLock,  \* entryLock[f]: holder of locks/<f>.lock
    mapped,     \* mapped[p]: fingerprints whose library process p has mapped
    lease,      \* lease[p]: fingerprints p holds a load-lease file lock on
    snapshot    \* snapshot[r]: entries unchanged since pruner r took stock

cacheVars == <<artifact, manifest, entryLock, mapped, lease, snapshot>>

CacheTypeOK ==
    /\ artifact \in [Fingerprint -> Binary \cup {Missing, Damaged}]
    /\ manifest \in [Fingerprint -> Binary \cup {Missing, Damaged}]
    /\ entryLock \in [Fingerprint -> Threads \cup Pruners \cup {Free}]
    /\ mapped \in [Procs -> SUBSET Fingerprint]
    /\ lease \in [Procs -> SUBSET Fingerprint]
    /\ snapshot \in [Pruners -> SUBSET Fingerprint]

CacheInit ==
    /\ artifact = [f \in Fingerprint |-> Missing]
    /\ manifest = [f \in Fingerprint |-> Missing]
    /\ entryLock = [f \in Fingerprint |-> Free]
    /\ mapped = [p \in Procs |-> {}]
    /\ lease = [p \in Procs |-> {}]
    /\ snapshot = [r \in Pruners |-> {}]

-----------------------------------------------------------------------------
(* artifact_cache_info: the service tells "hit" from everything else; a    *)
(* miss and the corrupt states are rebuilt alike.                          *)
Hit(f) == artifact[f] # Missing /\ manifest[f] = artifact[f]

Exists(f) == artifact[f] # Missing \/ manifest[f] # Missing

\* What the lease check would say if it took every lease file for stale.
NoLeaseCheck(f) == FALSE

\* cache_load_lease_active: some lease file of the entry is locked, by
\* whichever process, the caller's own included.
LeaseActive(f) == \E p \in Procs : f \in lease[p]

\* The lease file p would lock is held through another process's handle.
LeaseFileBusy(p, f) ==
    \E q \in Procs \ {p} : LeaseId[q] = LeaseId[p] /\ f \in lease[q]

\* A write below the entry: no earlier inventory describes it any more.
Disturb(f) == snapshot' = [r \in Pruners |-> snapshot[r] \ {f}]

=============================================================================
