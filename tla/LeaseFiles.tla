------------------------------ MODULE LeaseFiles ------------------------------
(* The files behind the load leases of one cache entry (build/cache.py,        *)
(* retain_cache_load_lease and cache_load_lease_active): a process keeps a     *)
(* lock on a file of its own, a prune takes a file it can lock for stale and   *)
(* unlinks it.  A lock belongs to the open file and not to its name.  Both     *)
(* sides hold the lock of the cache entry, and only that keeps them apart.     *)
EXTENDS FiniteSets

CONSTANT Processes  \* processes that map the artifact; each has a name of its own

Pruner == "prune"

ASSUME LeaseAssumption == Processes \cap {"nobody", Pruner} = {}

VARIABLES entryLock,  \* who holds the lock of the entry, "nobody" if none
          folder,     \* whether the directory of the leases exists
          linked,     \* the processes whose file is in it
          locked,     \* the processes that hold the lock of their file
          place,      \* place[p]: "out", "making", "opening", "locking", "retained", "dead"
          unseen,     \* the names the check has yet to look at
          stale,      \* the names it found unlocked
          check       \* "idle", "looking", "unlinking", "active" or "inactive"

leaseVars == <<entryLock, folder, linked, locked, place, unseen, stale, check>>
checker == <<unseen, stale, check>>

LeaseInit ==
  /\ entryLock = "nobody" /\ folder = FALSE
  /\ linked = {} /\ locked = {}
  /\ place = [p \in Processes |-> "out"]
  /\ unseen = {} /\ stale = {} /\ check = "idle"

Goes(p, next) == place' = [place EXCEPT ![p] = next]
Released(who) == entryLock' = IF entryLock = who THEN "nobody" ELSE entryLock

\* Mutant: the lease is taken without the lock of the entry.
AlwaysFree == TRUE

EntryFree == entryLock = "nobody"

\* compile_path holds the entry lock when it retains the lease.
Enter(p) ==
  /\ place[p] = "out" /\ EntryFree
  /\ entryLock' = p /\ Goes(p, "making")
  /\ UNCHANGED <<folder, linked, locked, checker>>

\* mkdir(parents=True)
Make(p) ==
  /\ place[p] = "making"
  /\ folder' = TRUE /\ Goes(p, "opening")
  /\ UNCHANGED <<entryLock, linked, locked, checker>>

\* open("a+b") makes the file.
OpenFile(p) ==
  /\ place[p] = "opening" /\ folder
  /\ linked' = linked \union {p} /\ Goes(p, "locking")
  /\ UNCHANGED <<entryLock, folder, locked, checker>>

\* flock with a timeout of zero, then compile_path returns.
Retain(p) ==
  /\ place[p] = "locking"
  /\ locked' = locked \union {p} /\ Goes(p, "retained")
  /\ Released(p)
  /\ UNCHANGED <<folder, linked, checker>>

\* A process ends, at any point: the system drops its locks and not its file.
Die(p) ==
  /\ place[p] # "dead" /\ Goes(p, "dead")
  /\ locked' = locked \ {p}
  /\ Released(p)
  /\ UNCHANGED <<folder, linked, checker>>

------------------------------------------------------------------------------
BeginCheck ==
  /\ check = "idle" /\ EntryFree
  /\ entryLock' = Pruner
  /\ check' = IF folder THEN "looking" ELSE "inactive"
  /\ unseen' = linked /\ stale' = {}
  /\ UNCHANGED <<folder, linked, locked, place>>

\* The checker opens a file and tries its lock; as nobody else uses this file
\* but its process, which never waits for it, the attempt is one step.
LookAt(p) ==
  /\ check = "looking" /\ p \in unseen
  /\ unseen' = unseen \ {p}
  /\ IF p \in locked
     THEN check' = "active" /\ UNCHANGED stale
     ELSE stale' = stale \union {p} /\ UNCHANGED check
  /\ UNCHANGED <<entryLock, folder, linked, locked, place>>

Looked ==
  /\ check = "looking" /\ unseen = {} /\ check' = "unlinking"
  /\ UNCHANGED <<entryLock, folder, linked, locked, place, unseen, stale>>

Unlink(p) ==
  /\ check = "unlinking" /\ p \in stale
  /\ linked' = linked \ {p}
  /\ stale' = stale \ {p}
  /\ UNCHANGED <<entryLock, folder, locked, place, unseen, check>>

\* rmdir fails while there are files in it.
RemoveFolder ==
  /\ check = "unlinking" /\ stale = {}
  /\ folder' = (linked # {})
  /\ check' = "inactive"
  /\ UNCHANGED <<entryLock, linked, locked, place, unseen, stale>>

\* The prune keeps an active entry and removes another; the lock is free again.
EndCheck ==
  /\ check \in {"active", "inactive"} /\ check' = "idle"
  /\ Released(Pruner)
  /\ UNCHANGED <<folder, linked, locked, place, unseen, stale>>

\* The checking process ends half way.
CheckDies ==
  /\ check # "idle" /\ check' = "idle"
  /\ Released(Pruner)
  /\ UNCHANGED <<folder, linked, locked, place, unseen, stale>>

LeaseNext ==
  \/ \E p \in Processes :
       \/ Enter(p) \/ Make(p) \/ OpenFile(p) \/ Retain(p) \/ Die(p)
       \/ LookAt(p) \/ Unlink(p)
  \/ BeginCheck \/ Looked \/ RemoveFolder \/ EndCheck \/ CheckDies

LeaseSpec == LeaseInit /\ [][LeaseNext]_leaseVars

------------------------------------------------------------------------------
(* A lease that a process holds is on the file under its name, so every later  *)
(* check finds it; and an entry that a check calls inactive has no lease: a    *)
(* lease file is never unlinked between its owner's open and its lock.         *)
LeasesAreFound ==
  /\ locked \subseteq linked
  /\ check = "inactive" => locked = {}
==============================================================================
