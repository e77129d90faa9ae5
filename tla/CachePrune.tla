------------------------------ MODULE CachePrune ------------------------------
(* One pass of prune_artifact_cache (build/cache.py): the inventory of the     *)
(* entries, each under its own lock, the choice of what to remove by age and   *)
(* least recent use, the removal, each entry again under its lock and compared *)
(* with the inventory, and the account the caller gets.  Other processes       *)
(* touch, publish and hold entries meanwhile.                                  *)
EXTENDS Naturals, FiniteSets, FiniteSetsExt, SequencesExt

CONSTANTS Entries,   \* the entries there may be
          Sizes,     \* what they may measure
          Horizon,   \* an entry last used before this is too old
          Now,       \* the time of the touches that come while the pass runs
          MaxBytes   \* the limit on the bytes kept

ASSUME PruneAssumption ==
  /\ IsFiniteSet(Entries)
  /\ Sizes \subseteq Nat \ {0}
  /\ Horizon \in Nat /\ Now \in Nat /\ MaxBytes \in Nat

Absent == [size |-> 0, used |-> 0]
EntryType == [size : Sizes, used : 0 .. Now] \union {Absent}

VARIABLES entry,      \* entry[e]: its size and last use on disk, or Absent
          leased,     \* entries that a process has mapped
          pass,      \* "inventory", "removal" or "done"
          seen,       \* seen[e]: what the inventory says of e, Absent if nothing
          looked,     \* the entries the inventory has come to
          uncertain,  \* entries it could not lock, or that changed since
          selected,   \* what to remove
          tried,      \* the selected entries the removal has come to
          removed,    \* what is removed
          published   \* an entry appeared or grew since the inventory began

pruneVars == <<entry, leased, pass, seen, looked, uncertain, selected, tried, removed, published>>
onDisk == <<entry, leased, published>>

PruneInit(entries) ==
  /\ entry = entries /\ leased = {} /\ published = FALSE
  /\ pass = "inventory" /\ seen = [e \in Entries |-> Absent] /\ looked = {}
  /\ uncertain = {} /\ selected = {} /\ tried = {} /\ removed = {}

Bytes(es, of) == MapThenSumSet(LAMBDA e : of[e].size, es)
Known == {e \in Entries : seen[e] # Absent}
Older(es, e) == {d \in es : seen[d].used < seen[e].used}

\* Under the entry's lock; a lock that is busy makes the entry uncertain.
Inventory(e) ==
  /\ pass = "inventory" /\ e \notin looked
  /\ looked' = looked \union {e}
  /\ \/ entry[e] # Absent /\ uncertain' = uncertain \union {e} /\ UNCHANGED seen
     \/ seen' = [seen EXCEPT ![e] = entry[e]] /\ UNCHANGED uncertain
  /\ UNCHANGED <<onDisk, pass, selected, tried, removed>>

Expired == {e \in Known : seen[e].used < Horizon}

\* The entries from place k on that the age limit leaves.
Rest(order, k) == {order[i] : i \in k .. Cardinality(Known)} \ Expired

\* Mutant: it goes on until less than the limit is left.
SurplusToBelow(order) ==
  {order[k] : k \in {i \in DOMAIN order : Bytes(Rest(order, i), seen) >= MaxBytes}} \ Expired

\* The least recently used of the others, as long as more than the limit is left.
Surplus(order) ==
  {order[k] : k \in {i \in DOMAIN order : Bytes(Rest(order, i), seen) > MaxBytes}} \ Expired

\* Entries of one time are in any order.
Select ==
  /\ pass = "inventory" /\ looked = Entries
  /\ \E order \in SetToSeqs(Known) :
       /\ \A i, j \in DOMAIN order : i < j => seen[order[i]].used <= seen[order[j]].used
       /\ selected' = Expired \union Surplus(order)
  /\ pass' = "removal"
  /\ UNCHANGED <<onDisk, seen, looked, uncertain, tried, removed>>

Unchanged(e) == entry[e] = seen[e]

\* One of the least recently used that are left.
RemoveNext(e) ==
  /\ pass = "removal" /\ e \in selected \ tried
  /\ Older(selected \ tried, e) = {}
  /\ \/ uncertain' = uncertain \union {e}   \* busy, or changed
        /\ UNCHANGED <<entry, removed>>
     \/ /\ Unchanged(e) /\ e \in leased
        /\ UNCHANGED <<entry, removed, uncertain>>
     \/ /\ Unchanged(e) /\ e \notin leased
        /\ entry' = [entry EXCEPT ![e] = Absent]
        /\ removed' = removed \union {e}
        /\ UNCHANGED uncertain
  /\ tried' = tried \union {e}
  /\ UNCHANGED <<leased, published, pass, seen, looked, selected>>

Report ==
  /\ pass = "removal" /\ selected = tried /\ pass' = "done"
  /\ UNCHANGED <<onDisk, seen, looked, uncertain, selected, tried, removed>>

\* The CachePruneResult.
Remaining == Bytes(Known \ uncertain, seen) - Bytes(removed, seen)
EntriesRemaining == Cardinality(Known \union uncertain) - Cardinality(removed)
LimitSatisfied == uncertain = {} /\ Remaining <= MaxBytes

\* A verified hit touches an entry and may lease it.
Use(e) ==
  /\ pass # "done" /\ entry[e] # Absent
  /\ entry' = [entry EXCEPT ![e].used = Now]
  /\ leased' \in {leased, leased \union {e}}
  /\ UNCHANGED <<pass, seen, looked, uncertain, selected, tried, removed, published>>

Publish(e) ==
  /\ pass # "done"
  /\ \E size \in Sizes :
       /\ size # entry[e].size
       /\ entry' = [entry EXCEPT ![e] = [size |-> size, used |-> Now]]
  /\ published' = TRUE
  /\ UNCHANGED <<leased, pass, seen, looked, uncertain, selected, tried, removed>>

PruneNext ==
  \/ \E e \in Entries : Inventory(e) \/ RemoveNext(e) \/ Use(e) \/ Publish(e)
  \/ Select \/ Report

PruneSpec ==
  /\ \E entries \in [Entries -> EntryType] : PruneInit(entries)
  /\ [][PruneNext]_pruneVars

------------------------------------------------------------------------------
Present == {e \in Entries : entry[e] # Absent}

(* The account of a pass without uncertain entries is exact when nothing was   *)
(* published meanwhile, whatever was used and leased: the bytes and entries    *)
(* left and whether the limit is met.  And recency is respected: what is       *)
(* removed within the age limit would not have fitted beside the more recent   *)
(* entries, and nothing older than it is kept without being in use.            *)
PruneIsExact ==
  pass = "done" =>
    /\ uncertain = {} /\ ~published =>
         /\ Remaining = Bytes(Present, entry)
         /\ EntriesRemaining = Cardinality(Present)
         /\ LimitSatisfied <=> Bytes(Present, entry) <= MaxBytes
    /\ \A e \in removed \ Expired :
         /\ Bytes({d \in Known : seen[d].used >= seen[e].used}, seen) > MaxBytes
         /\ Older(Known, e) \subseteq removed \union uncertain \union leased
==============================================================================
