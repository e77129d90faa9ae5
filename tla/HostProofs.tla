------------------------------ MODULE HostProofs ------------------------------
(* Theorems about the parts of the host: lease files, Cargo's processes,       *)
(* binding sessions, wheels and prunes, each for any number of those who take  *)
(* part.                                                                       *)
EXTENDS BindingSessions, CachePrune, CargoProcess, LeaseFiles, WheelBuilds,
        FiniteSetTheorems, WellFoundedInduction, TLAPS

------------------------------------------------------------------------------
(* Lease files.                                                                *)

Places == {"out", "making", "opening", "locking", "retained", "dead"}
Checks == {"idle", "looking", "unlinking", "active", "inactive"}

LeaseTypeOK ==
  /\ linked \subseteq Processes /\ locked \subseteq Processes
  /\ place \in [Processes -> Places]
  /\ stale \subseteq Processes
  /\ check \in Checks

(* Whoever is in the middle of making or checking leases holds the entry lock; *)
(* a locked file is in the folder; what the check has looked at is unlocked.   *)
LeaseInv ==
  /\ LeaseTypeOK
  /\ \A p \in Processes : place[p] \in {"making", "opening", "locking"} => entryLock = p
  /\ check # "idle" => entryLock = Pruner
  /\ \A p \in Processes : place[p] = "locking" => p \in linked
  /\ locked \subseteq linked
  /\ linked # {} => folder
  /\ check \in {"looking", "unlinking"} => stale \cap locked = {}
  /\ check = "looking" => locked \subseteq unseen
  /\ check \in {"unlinking", "inactive"} => locked = {}

(* A prune finds every lease that is held, for any number of processes: a file *)
(* that its owner has locked is never unlinked, and an entry that a check      *)
(* calls inactive is mapped by nobody.                                         *)
THEOREM LeasesStayFound == LeaseSpec => []LeasesAreFound
<1> USE LeaseAssumption DEF LeaseInv, LeaseTypeOK, Places, Checks, Pruner
<1>1. LeaseInit => LeaseInv
  BY DEF LeaseInit
<1>2. LeaseInv /\ [LeaseNext]_leaseVars => LeaseInv'
  <2> SUFFICES ASSUME LeaseInv, [LeaseNext]_leaseVars PROVE LeaseInv'
    OBVIOUS
  <2>1. CASE UNCHANGED leaseVars
    BY <2>1 DEF leaseVars
  <2>2. ASSUME NEW p \in Processes, Enter(p) PROVE LeaseInv'
    BY <2>2 DEF Enter, EntryFree, Goes, checker
  <2>3. ASSUME NEW p \in Processes, Make(p) PROVE LeaseInv'
    BY <2>3 DEF Make, Goes, checker
  <2>4. ASSUME NEW p \in Processes, OpenFile(p) PROVE LeaseInv'
    BY <2>4 DEF OpenFile, Goes, checker
  <2>5. ASSUME NEW p \in Processes, Retain(p) PROVE LeaseInv'
    BY <2>5 DEF Retain, Released, Goes, checker
  <2>6. ASSUME NEW p \in Processes, Die(p) PROVE LeaseInv'
    BY <2>6 DEF Die, Released, Goes, checker
  <2>7. CASE BeginCheck
    BY <2>7 DEF BeginCheck, EntryFree
  <2>8. ASSUME NEW p \in Processes, LookAt(p) PROVE LeaseInv'
    BY <2>8 DEF LookAt
  <2>9. CASE Looked
    BY <2>9 DEF Looked
  <2>10. ASSUME NEW p \in Processes, Unlink(p) PROVE LeaseInv'
    BY <2>10 DEF Unlink
  <2>11. CASE RemoveFolder
    BY <2>11 DEF RemoveFolder
  <2>12. CASE EndCheck \/ CheckDies
    BY <2>12 DEF EndCheck, CheckDies, Released
  <2>13. QED
    BY <2>1, <2>2, <2>3, <2>4, <2>5, <2>6, <2>7, <2>8, <2>9, <2>10, <2>11, <2>12 DEF LeaseNext
<1>3. LeaseInv => LeasesAreFound
  BY DEF LeasesAreFound
<1>4. QED
  BY <1>1, <1>2, <1>3, PTL DEF LeaseSpec

------------------------------------------------------------------------------
(* Cargo's processes.                                                          *)

(* Once a command is stopped it has its result, and when it is done nobody     *)
(* holds its pipes, nor can anybody start.                                     *)
CargoInv ==
  /\ callback \in BOOLEAN
  /\ driver \in {"new", "poll", "communicate", "wait", "drain", "done"}
  /\ driver \in {"new", "poll", "communicate"} => result = "none"
  /\ driver \in {"wait", "drain"} => result \in {"cancelled", "timeout"}
  /\ QuietWhenDone

(* When a command has a result nobody who writes to its pipes is left, for any *)
(* tree of processes and whenever they end, are signalled or ignore it.        *)
THEOREM CommandsEndQuietly == CargoSpec => []QuietWhenDone
<1> USE DEF CargoInv, QuietWhenDone
<1>1. CargoInit => CargoInv
  BY DEF CargoInit
<1>2. CargoInv /\ [CargoNext]_cargoVars => CargoInv'
  <2> SUFFICES ASSUME CargoInv, [CargoNext]_cargoVars PROVE CargoInv'
    OBVIOUS
  <2>1. CASE UNCHANGED cargoVars
    BY <2>1 DEF cargoVars, PipesClosed
  <2>2. CASE Popen
    BY <2>2 DEF Popen
  <2>3. CASE Look \/ NothingYet
    BY <2>3 DEF Look, NothingYet, world
  <2>4. CASE Completed
    BY <2>4 DEF Completed, Finish, PipesClosed, world
  <2>5. CASE Stop
    BY <2>5 DEF Stop, world
  <2>6. CASE Waited
    BY <2>6 DEF Waited, world
  <2>7. CASE Drain
    BY <2>7 DEF Drain, Finish, PipesClosed, world
  <2>8. CASE Cancel \/ TimePasses
    BY <2>8 DEF Cancel, TimePasses, PipesClosed
  <2>9. ASSUME NEW p \in Tree, Exit(p) PROVE CargoInv'
    BY <2>9 DEF Exit, PipesClosed, world
  <2>10. QED
    BY <2>1, <2>2, <2>3, <2>4, <2>5, <2>6, <2>7, <2>8, <2>9 DEF CargoNext, DriverStep
<1>3. QED
  BY <1>1, <1>2, PTL DEF CargoSpec

------------------------------------------------------------------------------
(* Binding sessions.                                                           *)

SessionTypeOK ==
  /\ source \in [Modules -> Nat]
  /\ importing \in [Modules -> [version : Nat, next : Nat]]
  /\ \A m \in Modules :
       importing[m] = NotImporting \/ importing[m].next \in 1 .. Len(Binds[m])
  /\ session.open \in BOOLEAN
  /\ DOMAIN bound = Keys /\ bound = [k \in Keys |-> bound[k]]

FirstKey(m) == <<m, Binds[m][1]>>

(* A module that came to the open session with its first declaration has had   *)
(* that declaration, so an import of it that is further on is the one whose    *)
(* source the session was compared with.                                       *)
SessionInv ==
  /\ SessionTypeOK
  /\ \A m \in Modules : importing[m].version <= source[m]
  /\ session.open =>
       \A m \in (session.validated \cap Modules) \ split :
         /\ FirstKey(m) \in session.seen
         /\ importing[m].next > 1 => importing[m].version <= session.result.sources[m]

\* A declaration in progress is one of the package.
LEMMA CurrentIsKey ==
  ASSUME SessionTypeOK, NEW m \in Modules, importing[m] # NotImporting
  PROVE  /\ Current(m) \in Keys
         /\ importing[m].next \in Nat /\ importing[m].next >= 1
         /\ importing[m].next = 1 => Current(m) = FirstKey(m)
<1>1. Binds[m] \in Seq(Names) /\ importing[m].next \in 1 .. Len(Binds[m])
  BY BindsAssumption DEF SessionTypeOK
<1>2. Binds[m][importing[m].next] \in ToSet(Binds[m])
  BY <1>1 DEF ToSet
<1>3. QED
  BY <1>1, <1>2 DEF Current, Keys, FirstKey

\* The next declaration, or the end of the import.
LEMMA Advanced ==
  ASSUME SessionTypeOK, NEW m \in Modules, importing[m] # NotImporting, Advance(m)
  PROVE  /\ importing' \in [Modules -> [version : Nat, next : Nat]]
         /\ \A n \in Modules : n # m => importing'[n] = importing[n]
         /\ importing'[m] = NotImporting
            \/ /\ importing'[m].version = importing[m].version
               /\ importing'[m].next \in 1 .. Len(Binds[m])
<1>1. Binds[m] \in Seq(Names) /\ importing[m].next \in 1 .. Len(Binds[m])
  BY BindsAssumption DEF SessionTypeOK
<1>2. importing[m] \in [version : Nat, next : Nat] /\ NotImporting \in [version : Nat, next : Nat]
  BY DEF SessionTypeOK, NotImporting
<1>3. CASE importing[m].next = Len(Binds[m])
  BY <1>2, <1>3 DEF Advance, SessionTypeOK
<1>4. CASE importing[m].next # Len(Binds[m])
  <2>1. importing' = [importing EXCEPT ![m] = [importing[m] EXCEPT !.next = @ + 1]]
    BY <1>4 DEF Advance
  <2>2. /\ [importing[m] EXCEPT !.next = @ + 1] \in [version : Nat, next : Nat]
        /\ [importing[m] EXCEPT !.next = @ + 1].version = importing[m].version
        /\ [importing[m] EXCEPT !.next = @ + 1].next = importing[m].next + 1
    BY <1>2
  <2>3. importing[m].next + 1 \in 1 .. Len(Binds[m])
    BY <1>1, <1>4
  <2>4. QED
    BY <2>1, <2>2, <2>3 DEF SessionTypeOK
<1>5. QED
  BY <1>3, <1>4

\* A module that is not being imported is at no declaration.
LEMMA NotImportingIsZero == NotImporting.version = 0 /\ NotImporting.next = 0
  BY DEF NotImporting

LEMMA SessionsStayValid ==
  ASSUME SessionInv, SessionNext
  PROVE  SessionInv'
<1> USE DEF SessionInv
<1>1. ASSUME NEW m \in Modules, StartImport(m) PROVE SessionInv'
  <2>1. /\ importing'[m] = [version |-> source[m], next |-> 1]
        /\ \A n \in Modules : n # m => importing'[n] = importing[n]
        /\ importing' \in [Modules -> [version : Nat, next : Nat]]
    BY <1>1 DEF StartImport, SessionTypeOK
  <2>2. 1 \in 1 .. Len(Binds[m])
    BY BindsAssumption
  <2>3. QED
    BY <1>1, <2>1, <2>2 DEF StartImport, SessionTypeOK
<1>2. ASSUME NEW m \in Modules, BindFromSession(m) PROVE SessionInv'
  <2>1. importing[m] # NotImporting /\ Reusable(m) /\ Advance(m)
    BY <1>2 DEF BindFromSession
  <2>2. SessionTypeOK'
    BY <1>2, <2>1, Advanced DEF BindFromSession, SessionTypeOK, Session, NoSession
  <2>3. \A n \in Modules : importing'[n].version <= source'[n]
    <3>1. source' = source /\ \A n \in Modules : source[n] \in Nat
      BY <1>2 DEF BindFromSession, SessionTypeOK
    <3>2. \A n \in Modules : n # m => importing'[n] = importing[n]
      BY <2>1, Advanced
    <3>3. importing'[m].version = 0 \/ importing'[m].version = importing[m].version
      BY <2>1, Advanced, NotImportingIsZero
    <3>4. importing'[m].version <= source'[m]
      BY <3>1, <3>3
    <3>5. QED
      BY <3>1, <3>2, <3>4
  <2>4. ASSUME session'.open, NEW n \in (session'.validated \cap Modules) \ split'
        PROVE  /\ FirstKey(n) \in session'.seen
               /\ importing'[n].next > 1 => importing'[n].version <= session'.result.sources[n]
    <3>1. /\ session.open /\ Current(m) \notin session.seen
          /\ session'.result = session.result
          /\ session'.seen = session.seen \cup {Current(m)}
          /\ session'.validated = session.validated \cup {m}
      BY <1>2, <2>4 DEF BindFromSession, Session, NoSession, Reusable
    <3>2. n \notin split
      BY <1>2, <2>4 DEF BindFromSession
    <3>3. CASE n # m
      BY <2>1, <2>4, <3>1, <3>2, <3>3, Advanced
    <3>4. CASE n = m /\ m \in session.validated
      <4>1. importing[m].next > 1
        BY <2>1, <3>1, <3>2, <3>4, CurrentIsKey
      <4>2. QED
        BY <2>1, <3>1, <3>2, <3>4, <4>1, Advanced DEF NotImporting
    <3>5. CASE n = m /\ m \notin session.validated
      <4>1. source = session.result.sources
        BY <2>1, <3>5 DEF Reusable
      <4>2. ~(importing[m].next > 1)
        BY <1>2, <2>4, <3>5 DEF BindFromSession, Midway
      <4>3. Current(m) = FirstKey(m)
        BY <2>1, <4>2, CurrentIsKey
      <4>4. QED
        BY <2>1, <3>1, <3>5, <4>1, <4>3, Advanced DEF NotImporting
    <3>6. QED
      BY <3>3, <3>4, <3>5
  <2>5. QED
    BY <2>2, <2>3, <2>4
<1>3. ASSUME NEW m \in Modules, BindFromBuild(m) PROVE SessionInv'
  <2>1. importing[m] # NotImporting /\ Advance(m)
    BY <1>3 DEF BindFromBuild
  <2>2. SessionTypeOK'
    BY <1>3, <2>1, Advanced DEF BindFromBuild, SessionTypeOK, Session, NoSession
  <2>3. \A n \in Modules : importing'[n].version <= source'[n]
    <3>1. source' = source /\ \A n \in Modules : source[n] \in Nat
      BY <1>3 DEF BindFromBuild, SessionTypeOK
    <3>2. \A n \in Modules : n # m => importing'[n] = importing[n]
      BY <2>1, Advanced
    <3>3. importing'[m].version = 0 \/ importing'[m].version = importing[m].version
      BY <2>1, Advanced, NotImportingIsZero
    <3>4. importing'[m].version <= source'[m]
      BY <3>1, <3>3
    <3>5. QED
      BY <3>1, <3>2, <3>4
  <2>4. ASSUME session'.open, NEW n \in (session'.validated \cap Modules) \ split'
        PROVE  /\ FirstKey(n) \in session'.seen
               /\ importing'[n].next > 1 => importing'[n].version <= session'.result.sources[n]
    <3>1. /\ session'.result.sources = source
          /\ session'.seen = {Current(m)} /\ session'.validated = {m} /\ n = m
      BY <1>3, <2>4 DEF BindFromBuild, Session, NoSession, Compiled
    <3>2. ~(importing[m].next > 1)
      BY <1>3, <2>4, <3>1 DEF BindFromBuild, Midway
    <3>3. Current(m) = FirstKey(m)
      BY <2>1, <3>2, CurrentIsKey
    <3>4. QED
      BY <2>1, <3>1, <3>3, Advanced DEF NotImporting
  <2>5. QED
    BY <2>2, <2>3, <2>4
<1>4. ASSUME NEW m \in Modules, BuildFails(m) \/ ImportBreaks(m) PROVE SessionInv'
  <2>1. /\ importing'[m] = NotImporting
        /\ \A n \in Modules : n # m => importing'[n] = importing[n]
        /\ importing' \in [Modules -> [version : Nat, next : Nat]]
    <3>1. importing' = [importing EXCEPT ![m] = NotImporting]
      BY <1>4 DEF BuildFails, ImportBreaks
    <3>2. NotImporting \in [version : Nat, next : Nat]
      BY DEF NotImporting
    <3>3. QED
      BY <3>1, <3>2 DEF SessionTypeOK
  <2>2. CASE BuildFails(m)
    BY <2>1, <2>2 DEF BuildFails, SessionTypeOK, NoSession, NotImporting
  <2>3. CASE ImportBreaks(m)
    BY <2>1, <2>3 DEF ImportBreaks, SessionTypeOK, NotImporting
  <2>4. QED
    BY <1>4, <2>2, <2>3
<1>5. ASSUME NEW m \in Modules, EditSource(m) PROVE SessionInv'
  <2>1. \A n \in Modules : source'[n] \in Nat /\ source[n] <= source'[n]
    BY <1>5 DEF EditSource, SessionTypeOK
  <2>2. QED
    BY <1>5, <2>1 DEF EditSource, SessionTypeOK
<1>6. CASE ChangeInputs
  BY <1>6 DEF ChangeInputs, SessionTypeOK
<1>7. QED
  BY <1>1, <1>2, <1>3, <1>4, <1>5, <1>6 DEF SessionNext

\* A step binds at most the current declaration of one module.
LEMMA BindingsAreCurrent ==
  ASSUME SessionInv, SessionNext, NEW m \in Modules \ split
  PROVE  BindsWhatRuns(m)
<1> USE DEF SessionInv
<1>1. SUFFICES ASSUME importing[m] # NotImporting, bound'[Current(m)] # bound[Current(m)]
               PROVE  bound'[Current(m)].sources[m] >= importing[m].version
  BY DEF BindsWhatRuns
<1>2. Current(m) \in Keys
  BY <1>1, CurrentIsKey
<1>3. \A n \in Modules : n # m => Current(n) # Current(m)
  BY DEF Current
<1>4. CASE BindFromSession(m)
  <2>1. bound'[Current(m)] = session.result /\ Reusable(m)
    BY <1>2, <1>4 DEF BindFromSession, SessionTypeOK
  <2>2. CASE m \in session.validated
    <3>1. importing[m].next > 1
      BY <1>1, <2>1, <2>2, CurrentIsKey DEF Reusable
    <3>2. QED
      BY <2>1, <2>2, <3>1 DEF Reusable, SessionTypeOK
  <2>3. CASE m \notin session.validated
    BY <2>1, <2>3 DEF Reusable, SessionTypeOK
  <2>4. QED
    BY <2>2, <2>3
<1>5. CASE BindFromBuild(m)
  BY <1>2, <1>5 DEF BindFromBuild, SessionTypeOK, Compiled
<1>6. ASSUME NEW n \in Modules, n # m, BindFromSession(n) \/ BindFromBuild(n) PROVE FALSE
  BY <1>1, <1>2, <1>3, <1>6 DEF BindFromSession, BindFromBuild, SessionTypeOK
<1>7. CASE UNCHANGED bound
  BY <1>1, <1>7
<1>8. QED
  BY <1>4, <1>5, <1>6, <1>7
     DEF SessionNext, StartImport, BuildFails, ImportBreaks, EditSource, ChangeInputs

(* A declaration is never bound to code of an older source than the one being  *)
(* imported, for packages of any size and any nesting of imports, unless its   *)
(* module came to the session in the middle of an import.                      *)
THEOREM BindingsAreNeverStale == BindingSpec => NeverStale
<1>1. SessionInit => SessionInv
  BY DEF SessionInit, SessionInv, SessionTypeOK, NotImporting, NoSession
<1>2. SessionInv /\ [SessionNext]_sessionVars => SessionInv'
  <2>1. SessionInv /\ UNCHANGED sessionVars => SessionInv'
    BY DEF SessionInv, SessionTypeOK, sessionVars
  <2>2. QED
    BY <2>1, SessionsStayValid
<1>3. SessionInv /\ [SessionNext]_sessionVars =>
        [\A m \in Modules \ split : BindsWhatRuns(m)]_sessionVars
  BY BindingsAreCurrent
<1>4. QED
  BY <1>1, <1>2, <1>3, PTL DEF BindingSpec, NeverStale

------------------------------------------------------------------------------
(* Wheels.                                                                     *)

Hash == Versions \union {None}
FilesType == [native : Hash, plain : Hash]
GraphType == [native : Hash, all : FilesType]
IRType == [native : Hash, all : FilesType, code : Hash]
Flags == BOOLEAN

Analyzing == {"graph all", "read"}
Packing == {"compile", "check", "native", "plain", "library", "manifest"}
Stages == {"idle", "ended", "key", "lookup", "graph", "remember"} \union Analyzing \union Packing

BuildType == [at : Stages, key : GraphType, ir : IRType, files : FilesType,
              library : Hash, disturbed : Flags]
SiteType == [installed : Flags, files : FilesType, library : Hash, native : Hash,
             all : FilesType, sha256 : Hash, disturbed : Flags]

WheelTypeOK ==
  /\ tree \in FilesType /\ tree.native \in Versions
  /\ analyses \in [Versions -> IRType]
  /\ natives \in [Versions -> Hash]
  /\ build \in [Builders -> BuildType]
  /\ site = NoSite \/ site \in SiteType

\* An analysis found for a key has the key's hash, and its code its own hash, but
\* for hashes of sources that were seen to change.
IRFits(ir, key, torns) ==
  /\ ir.native \in Versions
  /\ ir.native = key \/ key \in torns
  /\ ir.code = ir.native \/ ir.native \in torns

Fits(s, torns) ==
  /\ s.at \notin {"idle", "ended"} => s.key.native \in Versions
  /\ s.at \in Analyzing =>
       s.ir.native \in Versions /\ (s.ir.native = s.key.native \/ s.key.native \in torns)
  /\ s.at \in Packing \union {"remember"} => IRFits(s.ir, s.key.native, torns)

\* A build that nothing disturbed has read what is still there.
Calm(s, disk, cache) ==
  s.at \notin {"idle", "ended"} /\ ~s.disturbed =>
    /\ s.key.native = disk.native
    /\ s.at # "key" => s.key.all = disk
    /\ s.at \in Packing \union {"read", "remember"} => s.ir.all = disk
    /\ s.at = "plain" => s.files.native = disk.native
    /\ s.at \in {"library", "manifest"} => s.files = disk
    /\ s.at = "manifest" => s.library = cache[s.ir.native] /\ s.library # None

SiteFits(s, torns) ==
  s.installed =>
    /\ s.sha256 = s.native \/ s.native \in torns
    /\ ~s.disturbed =>
         /\ s.native = s.files.native \/ s.files.native \in torns
         /\ s.all = s.files /\ s.sha256 = s.library

WheelInv ==
  /\ WheelTypeOK
  /\ \A v \in Versions : analyses[v] # NoIR => IRFits(analyses[v], v, torn)
  /\ \A v \in Versions : natives[v] \in {None, v} \/ v \in torn
  /\ \A b \in Builders : Fits(build[b], torn) /\ Calm(build[b], tree, natives)
  /\ SiteFits(site, torn)
  /\ imported = "bound" => site.installed /\ Verified(site)
  /\ imported = "refused" => site.installed /\ ~Verified(site)

LEMMA EmptyTyped ==
  /\ None \in Hash /\ NoFiles \in FilesType /\ NoGraph \in GraphType /\ NoIR \in IRType
  /\ NotBuilding \in BuildType /\ Over \in BuildType
  /\ NotBuilding.at = "idle" /\ Over.at = "ended"
<1>1. None \in Hash /\ NoFiles \in FilesType
  BY DEF Hash, FilesType, NoFiles
<1>2. NoGraph \in GraphType /\ NoIR \in IRType
  BY <1>1 DEF NoGraph, NoIR, GraphType, IRType
<1>3. "idle" \in Stages /\ "ended" \in Stages /\ FALSE \in Flags
  BY DEF Stages, Flags
<1>4. NotBuilding \in BuildType /\ NotBuilding.at = "idle"
  BY <1>1, <1>2, <1>3 DEF NotBuilding, BuildType
<1>5. Over \in BuildType /\ Over.at = "ended"
  BY <1>3, <1>4 DEF Over, BuildType
<1>6. QED
  BY <1>1, <1>2, <1>4, <1>5

\* What To writes.
LEMMA PutTyped ==
  ASSUME NEW r \in BuildType, NEW p \in Stages
  PROVE  /\ \A x \in GraphType : [r EXCEPT !.at = p, !["key"] = x] \in BuildType
         /\ \A x \in IRType : [r EXCEPT !.at = p, !["ir"] = x] \in BuildType
         /\ \A x \in FilesType : [r EXCEPT !.at = p, !["files"] = x] \in BuildType
         /\ \A x \in Hash : [r EXCEPT !.at = p, !["library"] = x] \in BuildType
  BY DEF BuildType

LEMMA PutKey ==
  ASSUME NEW r \in BuildType, NEW p, NEW x
  PROVE  LET s == [r EXCEPT !.at = p, !["key"] = x] IN
         /\ s.at = p /\ s.key = x /\ s.ir = r.ir /\ s.files = r.files
         /\ s.library = r.library /\ s.disturbed = r.disturbed
  BY DEF BuildType

LEMMA PutIR ==
  ASSUME NEW r \in BuildType, NEW p, NEW x
  PROVE  LET s == [r EXCEPT !.at = p, !["ir"] = x] IN
         /\ s.at = p /\ s.ir = x /\ s.key = r.key /\ s.files = r.files
         /\ s.library = r.library /\ s.disturbed = r.disturbed
  BY DEF BuildType

LEMMA PutFiles ==
  ASSUME NEW r \in BuildType, NEW p, NEW x
  PROVE  LET s == [r EXCEPT !.at = p, !["files"] = x] IN
         /\ s.at = p /\ s.files = x /\ s.key = r.key /\ s.ir = r.ir
         /\ s.library = r.library /\ s.disturbed = r.disturbed
  BY DEF BuildType

LEMMA PutLibrary ==
  ASSUME NEW r \in BuildType, NEW p, NEW x
  PROVE  LET s == [r EXCEPT !.at = p, !["library"] = x] IN
         /\ s.at = p /\ s.library = x /\ s.key = r.key /\ s.ir = r.ir
         /\ s.files = r.files /\ s.disturbed = r.disturbed
  BY DEF BuildType

LEMMA FieldsTyped ==
  /\ \A f \in FilesType : f.native \in Hash /\ f.plain \in Hash
  /\ \A f \in FilesType : \A v \in Hash :
       /\ [f EXCEPT !.native = v] \in FilesType /\ [f EXCEPT !.native = v].native = v
       /\ [f EXCEPT !.plain = v] \in FilesType
       /\ [f EXCEPT !.plain = v].plain = v /\ [f EXCEPT !.plain = v].native = f.native
  /\ \A f, g \in FilesType : f.native = g.native /\ f.plain = g.plain => f = g
  /\ \A g \in GraphType : g.native \in Hash /\ g.all \in FilesType
  /\ \A g \in GraphType : \A v \in Hash :
       [g EXCEPT !.native = v] \in GraphType /\ [g EXCEPT !.native = v].native = v
  /\ \A g \in GraphType : \A f \in FilesType :
       /\ [g EXCEPT !.all = f] \in GraphType
       /\ [g EXCEPT !.all = f].all = f /\ [g EXCEPT !.all = f].native = g.native
  /\ \A i \in IRType : i.native \in Hash /\ i.all \in FilesType /\ i.code \in Hash
  /\ \A i \in IRType : \A v \in Hash :
       /\ [i EXCEPT !.native = v] \in IRType /\ [i EXCEPT !.native = v].native = v
       /\ [i EXCEPT !.code = v] \in IRType /\ [i EXCEPT !.code = v].code = v
       /\ [i EXCEPT !.code = v].native = i.native /\ [i EXCEPT !.code = v].all = i.all
  /\ \A i \in IRType : \A f \in FilesType :
       /\ [i EXCEPT !.all = f] \in IRType /\ [i EXCEPT !.all = f].all = f
       /\ [i EXCEPT !.all = f].native = i.native /\ [i EXCEPT !.all = f].code = i.code
<1>1. /\ \A f \in FilesType : f.native \in Hash /\ f.plain \in Hash
      /\ \A f, g \in FilesType : f.native = g.native /\ f.plain = g.plain => f = g
  BY DEF FilesType
<1>2. \A f \in FilesType : \A v \in Hash :
        /\ [f EXCEPT !.native = v] \in FilesType /\ [f EXCEPT !.native = v].native = v
        /\ [f EXCEPT !.plain = v] \in FilesType
        /\ [f EXCEPT !.plain = v].plain = v /\ [f EXCEPT !.plain = v].native = f.native
  BY DEF FilesType
<1>3. /\ \A g \in GraphType : g.native \in Hash /\ g.all \in FilesType
      /\ \A g \in GraphType : \A v \in Hash :
           [g EXCEPT !.native = v] \in GraphType /\ [g EXCEPT !.native = v].native = v
      /\ \A g \in GraphType : \A f \in FilesType :
           /\ [g EXCEPT !.all = f] \in GraphType
           /\ [g EXCEPT !.all = f].all = f /\ [g EXCEPT !.all = f].native = g.native
  BY DEF GraphType
<1>4. \A i \in IRType : i.native \in Hash /\ i.all \in FilesType /\ i.code \in Hash
  BY DEF IRType
<1>5. \A i \in IRType : \A v \in Hash :
        /\ [i EXCEPT !.native = v] \in IRType /\ [i EXCEPT !.native = v].native = v
        /\ [i EXCEPT !.code = v] \in IRType /\ [i EXCEPT !.code = v].code = v
        /\ [i EXCEPT !.code = v].native = i.native /\ [i EXCEPT !.code = v].all = i.all
  BY DEF IRType
<1>6. \A i \in IRType : \A f \in FilesType :
        /\ [i EXCEPT !.all = f] \in IRType /\ [i EXCEPT !.all = f].all = f
        /\ [i EXCEPT !.all = f].native = i.native /\ [i EXCEPT !.all = f].code = i.code
  BY DEF IRType
<1>7. QED
  BY <1>1, <1>2, <1>3, <1>4, <1>5, <1>6

LEMMA FitsMonotone ==
  ASSUME NEW torns, NEW more, torns \subseteq more
  PROVE  /\ \A ir, key : IRFits(ir, key, torns) => IRFits(ir, key, more)
         /\ \A s : Fits(s, torns) => Fits(s, more)
         /\ \A s : SiteFits(s, torns) => SiteFits(s, more)
<1>1. \A ir, key : IRFits(ir, key, torns) => IRFits(ir, key, more)
  BY DEF IRFits
<1>2. \A s : Fits(s, torns) => Fits(s, more)
  BY <1>1 DEF Fits
<1>3. \A s : SiteFits(s, torns) => SiteFits(s, more)
  BY DEF SiteFits
<1>4. QED
  BY <1>1, <1>2, <1>3

\* A step of one build, which may remember an analysis or publish a library.
LEMMA BuilderKeeps ==
  ASSUME WheelInv, NEW b \in Builders, NEW s \in BuildType, build' = [build EXCEPT ![b] = s],
         UNCHANGED <<tree, site, imported>>, torn \subseteq torn',
         analyses' \in [Versions -> IRType], natives' \in [Versions -> Hash],
         \A v \in Versions : analyses'[v] = analyses[v] \/ IRFits(analyses'[v], v, torn'),
         \A v \in Versions : natives'[v] = natives[v]
                             \/ (natives[v] = None /\ (natives'[v] \in {None, v} \/ v \in torn')),
         Fits(s, torn'), Calm(s, tree, natives')
  PROVE  WheelInv'
<1>1. WheelTypeOK'
  BY DEF WheelInv, WheelTypeOK
<1>2. \A v \in Versions : analyses'[v] # NoIR => IRFits(analyses'[v], v, torn')
  BY FitsMonotone DEF WheelInv
<1>3. \A v \in Versions : natives'[v] \in {None, v} \/ v \in torn'
  BY DEF WheelInv
<1>4. ASSUME NEW c \in Builders PROVE Fits(build'[c], torn') /\ Calm(build'[c], tree', natives')
  <2>1. CASE c = b
    BY <2>1 DEF WheelInv, WheelTypeOK
  <2>2. CASE c # b
    <3>1. build'[c] = build[c] /\ Fits(build[c], torn) /\ Calm(build[c], tree, natives)
      BY <2>2 DEF WheelInv, WheelTypeOK
    <3>2. build[c].at = "manifest" => build[c].ir.native \in Versions
      BY <3>1 DEF Fits, IRFits, Packing
    <3>3. build[c].at = "manifest" /\ build[c].library = natives[build[c].ir.native]
            /\ build[c].library # None => build[c].library = natives'[build[c].ir.native]
      BY <3>2
    <3>4. Calm(build[c], tree, natives')
      BY <3>1, <3>3 DEF Calm
    <3>5. QED
      BY <3>1, <3>4, FitsMonotone
  <2>3. QED
    BY <2>1, <2>2
<1>5. SiteFits(site', torn') /\ (imported' = "bound" => site'.installed /\ Verified(site'))
      /\ (imported' = "refused" => site'.installed /\ ~Verified(site'))
  BY FitsMonotone DEF WheelInv
<1>6. QED
  BY <1>1, <1>2, <1>3, <1>4, <1>5 DEF WheelInv

\* A step that leaves the remembered analyses and the cached libraries alone.
LEMMA ReaderKeeps ==
  ASSUME WheelInv, NEW b \in Builders, NEW s \in BuildType, build' = [build EXCEPT ![b] = s],
         UNCHANGED <<tree, site, imported, analyses, natives>>, torn \subseteq torn',
         Fits(s, torn'), Calm(s, tree, natives)
  PROVE  WheelInv'
<1>1. analyses' \in [Versions -> IRType] /\ natives' \in [Versions -> Hash]
  BY DEF WheelInv, WheelTypeOK
<1>2. \A v \in Versions : analyses'[v] = analyses[v] /\ natives'[v] = natives[v]
  OBVIOUS
<1>3. Calm(s, tree, natives')
  OBVIOUS
<1>4. UNCHANGED <<tree, site, imported>> /\ Fits(s, torn')
  OBVIOUS
<1>5. \A v \in Versions : analyses'[v] = analyses[v] \/ IRFits(analyses'[v], v, torn')
  BY <1>2
<1>6. \A v \in Versions : natives'[v] = natives[v]
                          \/ (natives[v] = None /\ (natives'[v] \in {None, v} \/ v \in torn'))
  BY <1>2
<1>7. QED
  BY <1>1, <1>3, <1>4, <1>5, <1>6, BuilderKeeps

\* What the invariant says of one build.
LEMMA BuildFits ==
  ASSUME WheelInv, NEW b \in Builders
  PROVE  /\ build[b] \in BuildType /\ Fits(build[b], torn) /\ Calm(build[b], tree, natives)
         /\ build[b].key \in GraphType /\ build[b].ir \in IRType /\ build[b].files \in FilesType
         /\ tree \in FilesType /\ tree.native \in Versions /\ tree.native \in Hash
         /\ tree.plain \in Hash
<1>1. build[b] \in BuildType /\ tree \in FilesType /\ tree.native \in Versions
  BY DEF WheelInv, WheelTypeOK
<1>2. build[b].key \in GraphType /\ build[b].ir \in IRType /\ build[b].files \in FilesType
  BY <1>1 DEF BuildType
<1>3. QED
  BY <1>1, <1>2, FieldsTyped DEF WheelInv

LEMMA AnalysisKeeps ==
  ASSUME WheelInv, NEW b \in Builders,
         HashKeyNative(b) \/ HashKeyAll(b) \/ LookUp(b) \/ HashNative(b) \/ HashAll(b)
           \/ ReadSources(b)
  PROVE  WheelInv'
<1> DEFINE r == build[b]
<1>1. /\ r \in BuildType /\ Fits(r, torn) /\ Calm(r, tree, natives)
      /\ r.key \in GraphType /\ r.ir \in IRType
      /\ tree \in FilesType /\ tree.native \in Versions /\ tree.native \in Hash
  BY BuildFits
<1>2. "key" \in Stages /\ "lookup" \in Stages /\ "graph" \in Stages /\ "remember" \in Stages
      /\ "graph all" \in Stages /\ "read" \in Stages /\ "compile" \in Stages
  BY DEF Stages, Analyzing, Packing
<1> HIDE DEF r
<1>3. CASE HashKeyNative(b)
  <2> DEFINE x == [NoGraph EXCEPT !.native = tree.native]
             s == [r EXCEPT !.at = "key", !["key"] = x]
  <2>1. x \in GraphType /\ x.native = tree.native
    BY <1>1, EmptyTyped, FieldsTyped
  <2> HIDE DEF x
  <2>2. s \in BuildType
    BY <1>1, <1>2, <2>1, PutTyped
  <2>3. s.at = "key" /\ s.key = x
    BY <1>1 DEF BuildType
  <2>4. build' = [build EXCEPT ![b] = s]
    BY <1>3 DEF HashKeyNative, To, r, x
  <2> HIDE DEF s
  <2>5. Fits(s, torn) /\ Calm(s, tree, natives)
    BY <1>1, <2>1, <2>3 DEF Fits, Calm, Analyzing, Packing
  <2>6. UNCHANGED <<tree, site, imported, analyses, natives, torn>>
    BY <1>3 DEF HashKeyNative, outside
  <2>7. QED
    BY <2>2, <2>4, <2>5, <2>6, ReaderKeeps
<1>4. CASE HashKeyAll(b)
  <2> DEFINE x == [r.key EXCEPT !.all = tree]
             s == [r EXCEPT !.at = "lookup", !["key"] = x]
  <2>1. x \in GraphType /\ x.native = r.key.native /\ x.all = tree
    BY <1>1, FieldsTyped
  <2> HIDE DEF x
  <2>2. s \in BuildType
    BY <1>1, <1>2, <2>1, PutTyped
  <2>3. s.at = "lookup" /\ s.key = x /\ s.disturbed = r.disturbed
    BY <1>1 DEF BuildType
  <2>4. build' = [build EXCEPT ![b] = s]
    BY <1>4 DEF HashKeyAll, To, r, x
  <2> HIDE DEF s
  <2>5. r.at = "key"
    BY <1>4 DEF HashKeyAll, At, r
  <2>6. Fits(s, torn) /\ Calm(s, tree, natives)
    BY <1>1, <2>1, <2>3, <2>5 DEF Fits, Calm, Analyzing, Packing
  <2>7. UNCHANGED <<tree, site, imported, analyses, natives, torn>>
    BY <1>4 DEF HashKeyAll, outside
  <2>8. QED
    BY <2>2, <2>4, <2>6, <2>7, ReaderKeeps
<1>5. CASE LookUp(b)
  <2>1. r.at = "lookup" /\ r.key.native \in Versions
    BY <1>1, <1>5 DEF LookUp, At, r, Fits
  <2>2. UNCHANGED <<tree, site, imported, analyses, natives, torn>>
    BY <1>5 DEF LookUp, outside
  <2>3. CASE analyses[r.key.native] # NoIR
    <3> DEFINE x == [analyses[r.key.native] EXCEPT !.all = r.key.all]
               s == [r EXCEPT !.at = "compile", !["ir"] = x]
    <3>1. IRFits(analyses[r.key.native], r.key.native, torn) /\ analyses[r.key.native] \in IRType
      BY <2>1, <2>3 DEF WheelInv, WheelTypeOK
    <3>2. x \in IRType /\ x.all = r.key.all /\ x.native = analyses[r.key.native].native
          /\ x.code = analyses[r.key.native].code
      BY <1>1, <3>1, FieldsTyped
    <3> HIDE DEF x
    <3>3. s \in BuildType
      BY <1>1, <1>2, <3>2, PutTyped
    <3>4. s.at = "compile" /\ s.ir = x /\ s.key = r.key /\ s.disturbed = r.disturbed
      BY <1>1 DEF BuildType
    <3>5. build' = [build EXCEPT ![b] = s]
      BY <1>5, <2>3 DEF LookUp, Remembered, To, r, x
    <3> HIDE DEF s
    <3>6. IRFits(s.ir, s.key.native, torn)
      BY <3>1, <3>2, <3>4 DEF IRFits
    <3>7. Fits(s, torn) /\ Calm(s, tree, natives)
      BY <1>1, <2>1, <3>2, <3>4, <3>6 DEF Fits, Calm, Analyzing, Packing
    <3>8. QED
      BY <2>2, <3>3, <3>5, <3>7, ReaderKeeps
  <2>4. CASE analyses[r.key.native] = NoIR
    <3> DEFINE s == [r EXCEPT !.at = "graph", !["ir"] = NoIR]
    <3>1. s \in BuildType
      BY <1>1, <1>2, EmptyTyped, PutTyped
    <3>2. s.at = "graph" /\ s.key = r.key /\ s.disturbed = r.disturbed
      BY <1>1 DEF BuildType
    <3>3. build' = [build EXCEPT ![b] = s]
      BY <1>5, <2>4 DEF LookUp, To, r
    <3> HIDE DEF s
    <3>4. Fits(s, torn) /\ Calm(s, tree, natives)
      BY <1>1, <2>1, <3>2 DEF Fits, Calm, Analyzing, Packing
    <3>5. QED
      BY <2>2, <3>1, <3>3, <3>4, ReaderKeeps
  <2>5. QED
    BY <2>3, <2>4
<1>6. CASE HashNative(b)
  <2> DEFINE x == [NoIR EXCEPT !.native = tree.native]
             s == [r EXCEPT !.at = "graph all", !["ir"] = x]
  <2>1. x \in IRType /\ x.native = tree.native
    BY ZenonT(60), <1>1, EmptyTyped, FieldsTyped
  <2> HIDE DEF x
  <2>2. s \in BuildType
    BY <1>1, <1>2, <2>1, PutTyped
  <2>3. s.at = "graph all" /\ s.ir = x /\ s.key = r.key /\ s.disturbed = r.disturbed
    BY <1>1 DEF BuildType
  <2>4. build' = [build EXCEPT ![b] = s]
    BY <1>6 DEF HashNative, To, r, x
  <2> HIDE DEF s
  <2>5. r.at = "graph" /\ torn \subseteq torn' /\ (r.key.native = tree.native \/ r.key.native \in torn')
    BY <1>6 DEF HashNative, At, Tear, r
  <2>6. Fits(s, torn') /\ Calm(s, tree, natives)
    BY <1>1, <2>1, <2>3, <2>5 DEF Fits, Calm, Analyzing, Packing
  <2>7. UNCHANGED <<tree, site, imported, analyses, natives>>
    BY <1>6 DEF HashNative, outside
  <2>8. QED
    BY <2>2, <2>4, <2>5, <2>6, <2>7, ReaderKeeps
<1>7. CASE HashAll(b)
  <2> DEFINE x == [r.ir EXCEPT !.all = tree]
             s == [r EXCEPT !.at = "read", !["ir"] = x]
  <2>1. x \in IRType /\ x.native = r.ir.native /\ x.all = tree
    BY <1>1, FieldsTyped
  <2> HIDE DEF x
  <2>2. s \in BuildType
    BY <1>1, <1>2, <2>1, PutTyped
  <2>3. s.at = "read" /\ s.ir = x /\ s.key = r.key /\ s.disturbed = r.disturbed
    BY <1>1 DEF BuildType
  <2>4. build' = [build EXCEPT ![b] = s]
    BY <1>7 DEF HashAll, To, r, x
  <2> HIDE DEF s
  <2>5. r.at = "graph all"
    BY <1>7 DEF HashAll, At, r
  <2>6. Fits(s, torn) /\ Calm(s, tree, natives)
    BY <1>1, <2>1, <2>3, <2>5 DEF Fits, Calm, Analyzing, Packing
  <2>7. UNCHANGED <<tree, site, imported, analyses, natives, torn>>
    BY <1>7 DEF HashAll, outside
  <2>8. QED
    BY <2>2, <2>4, <2>6, <2>7, ReaderKeeps
<1>8. CASE ReadSources(b)
  <2> DEFINE x == [r.ir EXCEPT !.code = tree.native]
             s == [r EXCEPT !.at = "remember", !["ir"] = x]
  <2>1. x \in IRType /\ x.native = r.ir.native /\ x.all = r.ir.all /\ x.code = tree.native
    BY ZenonT(60), <1>1, FieldsTyped
  <2> HIDE DEF x
  <2>2. s \in BuildType
    BY <1>1, <1>2, <2>1, PutTyped
  <2>3. s.at = "remember" /\ s.ir = x /\ s.key = r.key /\ s.disturbed = r.disturbed
    BY <1>1 DEF BuildType
  <2>4. build' = [build EXCEPT ![b] = s]
    BY <1>8 DEF ReadSources, To, r, x
  <2> HIDE DEF s
  <2>5. r.at = "read" /\ torn \subseteq torn' /\ (r.ir.native = tree.native \/ r.ir.native \in torn')
    BY <1>8 DEF ReadSources, At, Tear, r
  <2>6. Fits(s, torn') /\ Calm(s, tree, natives)
    BY <1>1, <2>1, <2>3, <2>5 DEF Fits, IRFits, Calm, Analyzing, Packing
  <2>7. UNCHANGED <<tree, site, imported, analyses, natives>>
    BY <1>8 DEF ReadSources, outside
  <2>8. QED
    BY <2>2, <2>4, <2>5, <2>6, <2>7, ReaderKeeps
<1>9. QED
  BY <1>3, <1>4, <1>5, <1>6, <1>7, <1>8

LEMMA RememberKeeps == ASSUME WheelInv, NEW b \in Builders, Remember(b) PROVE WheelInv'
<1> DEFINE r == build[b]
           other == analyses[r.key.native]
           x == IF other = NoIR THEN r.ir ELSE other
           d == r.disturbed \/ x # r.ir
           s == [r EXCEPT !.at = "compile", !.ir = x, !.disturbed = d]
<1>1. /\ r \in BuildType /\ Fits(r, torn) /\ Calm(r, tree, natives) /\ r.ir \in IRType
      /\ r.at = "remember"
  BY BuildFits DEF Remember, At
<1>2. r.key.native \in Versions /\ IRFits(r.ir, r.key.native, torn)
  BY <1>1 DEF Fits
<1>3. other # NoIR => IRFits(other, r.key.native, torn)
  BY <1>2 DEF WheelInv
<1>4. x \in IRType /\ IRFits(x, r.key.native, torn)
  BY <1>1, <1>2, <1>3 DEF WheelInv, WheelTypeOK
<1>5. /\ analyses' = [analyses EXCEPT ![r.key.native] = x]
      /\ UNCHANGED <<tree, site, imported, natives, torn>>
  BY DEF Remember, outside
<1>6. build' = [build EXCEPT ![b] = s]
  BY DEF Remember
<1>7. d \in Flags /\ "compile" \in Stages
  BY DEF Flags, Stages, Packing
<1>8. ~d => ~r.disturbed /\ x = r.ir
  OBVIOUS
<1> HIDE DEF r, x, d
<1>9. s \in BuildType
  BY <1>1, <1>4, <1>7 DEF BuildType
<1>10. s.at = "compile" /\ s.key = r.key /\ s.ir = x /\ s.disturbed = d
  BY <1>1 DEF BuildType
<1> HIDE DEF s
<1>11. Fits(s, torn) /\ Calm(s, tree, natives)
  BY <1>1, <1>2, <1>4, <1>8, <1>10 DEF Fits, Calm, Analyzing, Packing
<1>12. analyses' \in [Versions -> IRType] /\ natives' \in [Versions -> Hash]
  BY <1>2, <1>4, <1>5 DEF WheelInv, WheelTypeOK
<1>13. \A v \in Versions : analyses'[v] = analyses[v] \/ IRFits(analyses'[v], v, torn)
  BY <1>2, <1>4, <1>5 DEF WheelInv, WheelTypeOK
<1>14. QED
  BY <1>5, <1>6, <1>9, <1>11, <1>12, <1>13, BuilderKeeps

LEMMA CompileKeeps == ASSUME WheelInv, NEW b \in Builders, Compile(b) PROVE WheelInv'
<1> DEFINE r == build[b]
           s == [r EXCEPT !.at = "check", !["library"] = None]
<1>1. /\ r \in BuildType /\ Fits(r, torn) /\ Calm(r, tree, natives) /\ r.ir \in IRType
      /\ r.at = "compile"
  BY BuildFits DEF Compile, At
<1>2. r.key.native \in Versions /\ IRFits(r.ir, r.key.native, torn)
  BY <1>1 DEF Fits, Packing
<1>3. /\ natives' = [natives EXCEPT ![r.ir.native] = IF @ = None THEN r.ir.code ELSE @]
      /\ UNCHANGED <<tree, site, imported, analyses, torn>>
      /\ build' = [build EXCEPT ![b] = s]
  BY DEF Compile, outside, To
<1>4. r.ir.code \in Hash /\ r.ir.native \in Versions
  BY <1>1, <1>2, FieldsTyped DEF IRFits
<1>5. analyses' \in [Versions -> IRType] /\ natives' \in [Versions -> Hash]
  BY <1>3, <1>4 DEF WheelInv, WheelTypeOK
<1>6. \A v \in Versions : natives'[v] = natives[v]
                          \/ (natives[v] = None /\ (natives'[v] \in {None, v} \/ v \in torn))
  BY <1>2, <1>3, <1>4 DEF WheelInv, WheelTypeOK, IRFits
<1>7. "check" \in Stages
  BY DEF Stages, Packing
<1> HIDE DEF r
<1>8. s \in BuildType
  BY <1>1, <1>7, EmptyTyped, PutTyped
<1>9. s.at = "check" /\ s.key = r.key /\ s.ir = r.ir /\ s.disturbed = r.disturbed
  BY <1>1 DEF BuildType
<1> HIDE DEF s
<1>10. Fits(s, torn) /\ Calm(s, tree, natives')
  BY <1>1, <1>2, <1>9 DEF Fits, Calm, Analyzing, Packing
<1>11. QED
  BY <1>3, <1>5, <1>6, <1>8, <1>10, BuilderKeeps

LEMMA OverFits ==
  \A torns, disk, cache : Fits(Over, torns) /\ Calm(Over, disk, cache)
  BY EmptyTyped DEF Fits, Calm, Analyzing, Packing

LEMMA PackingKeeps ==
  ASSUME WheelInv, NEW b \in Builders,
         LibraryGone(b) \/ CheckLibrary(b) \/ CollectNative(b) \/ CollectPlain(b)
           \/ CollectLibrary(b)
  PROVE  WheelInv'
<1> DEFINE r == build[b]
<1>1. /\ r \in BuildType /\ Fits(r, torn) /\ Calm(r, tree, natives)
      /\ r.files \in FilesType /\ r.ir \in IRType
      /\ tree \in FilesType /\ tree.native \in Hash /\ tree.plain \in Hash
  BY BuildFits
<1>2. "native" \in Stages /\ "plain" \in Stages /\ "library" \in Stages /\ "manifest" \in Stages
  BY DEF Stages, Packing
<1>3. UNCHANGED <<tree, site, imported, analyses, natives, torn>>
  BY DEF LibraryGone, CheckLibrary, CollectNative, CollectPlain, CollectLibrary, outside
<1>4. r.at \in Packing => r.key.native \in Versions /\ IRFits(r.ir, r.key.native, torn)
  BY <1>1 DEF Fits, Packing
<1>5. CASE LibraryGone(b)
  <2>1. build' = [build EXCEPT ![b] = Over]
    BY <1>5 DEF LibraryGone
  <2>2. QED
    BY <1>3, <2>1, EmptyTyped, OverFits, ReaderKeeps
<1>6. CASE CheckLibrary(b)
  <2> DEFINE s == [r EXCEPT !.at = "native", !["library"] = None]
  <2>1. r.at = "check" /\ build' = [build EXCEPT ![b] = s]
    BY <1>6 DEF CheckLibrary, At, To
  <2> HIDE DEF r
  <2>2. s \in BuildType
    BY <1>1, <1>2, EmptyTyped, PutTyped
  <2>3. s.at = "native" /\ s.key = r.key /\ s.ir = r.ir /\ s.disturbed = r.disturbed
    BY <1>1 DEF BuildType
  <2> HIDE DEF s
  <2>4. Fits(s, torn) /\ Calm(s, tree, natives)
    BY <1>1, <1>4, <2>1, <2>3 DEF Fits, Calm, Analyzing, Packing
  <2>5. QED
    BY <1>3, <2>1, <2>2, <2>4, ReaderKeeps
<1>7. CASE CollectNative(b)
  <2> DEFINE x == [NoFiles EXCEPT !.native = tree.native]
             s == [r EXCEPT !.at = "plain", !["files"] = x]
  <2>1. r.at = "native" /\ build' = [build EXCEPT ![b] = s]
    BY <1>7 DEF CollectNative, At, To
  <2>2. x \in FilesType /\ x.native = tree.native
    BY <1>1, EmptyTyped DEF FilesType
  <2> HIDE DEF r, x
  <2>3. s \in BuildType
    BY <1>1, <1>2, <2>2, PutTyped
  <2>4. s.at = "plain" /\ s.files = x /\ s.key = r.key /\ s.ir = r.ir /\ s.disturbed = r.disturbed
    BY <1>1 DEF BuildType
  <2> HIDE DEF s
  <2>5. Fits(s, torn) /\ Calm(s, tree, natives)
    BY <1>1, <1>4, <2>1, <2>2, <2>4 DEF Fits, Calm, Analyzing, Packing
  <2>6. QED
    BY <1>3, <2>1, <2>3, <2>5, ReaderKeeps
<1>8. CASE CollectPlain(b)
  <2> DEFINE x == [r.files EXCEPT !.plain = tree.plain]
             s == [r EXCEPT !.at = "library", !["files"] = x]
  <2>1. r.at = "plain" /\ build' = [build EXCEPT ![b] = s]
    BY <1>8 DEF CollectPlain, At, To
  <2>2. x \in FilesType /\ x.native = r.files.native /\ x.plain = tree.plain
    BY ZenonT(60), <1>1, FieldsTyped
  <2> HIDE DEF r, x
  <2>3. r.files.native = tree.native => x = tree
    BY <1>1, <2>2, FieldsTyped
  <2>4. s \in BuildType
    BY <1>1, <1>2, <2>2, PutTyped
  <2>5. s.at = "library" /\ s.files = x /\ s.key = r.key /\ s.ir = r.ir /\ s.disturbed = r.disturbed
    BY <1>1 DEF BuildType
  <2> HIDE DEF s
  <2>6. Fits(s, torn) /\ Calm(s, tree, natives)
    BY <1>1, <1>4, <2>1, <2>3, <2>5 DEF Fits, Calm, Analyzing, Packing
  <2>7. QED
    BY <1>3, <2>1, <2>4, <2>6, ReaderKeeps
<1>9. CASE CollectLibrary(b)
  <2> DEFINE x == natives[r.ir.native]
             s == [r EXCEPT !.at = "manifest", !["library"] = x]
  <2>1. r.at = "library" /\ x # None /\ build' = [build EXCEPT ![b] = s]
    BY <1>9 DEF CollectLibrary, Library, At, To
  <2>2. x \in Hash
    BY <1>4, <2>1 DEF WheelInv, WheelTypeOK, IRFits, Packing
  <2> HIDE DEF r
  <2>3. s \in BuildType
    BY <1>1, <1>2, <2>2, PutTyped
  <2>4. s.at = "manifest" /\ s.library = x /\ s.files = r.files
    BY <1>1 DEF BuildType
  <2>5. s.key = r.key /\ s.ir = r.ir /\ s.disturbed = r.disturbed
    BY <1>1 DEF BuildType
  <2> HIDE DEF s
  <2>6. Fits(s, torn) /\ Calm(s, tree, natives)
    BY <1>1, <1>4, <2>1, <2>4, <2>5 DEF Fits, Calm, Analyzing, Packing
  <2>7. QED
    BY <1>3, <2>1, <2>3, <2>6, ReaderKeeps
<1>10. QED
  BY <1>5, <1>6, <1>7, <1>8, <1>9

\* What is installed verifies, if nothing disturbed its build.
LEMMA WriteManifestKeeps == ASSUME WheelInv, NEW b \in Builders, WriteManifest(b) PROVE WheelInv'
<1> DEFINE r == build[b]
<1>1. /\ r \in BuildType /\ Fits(r, torn) /\ Calm(r, tree, natives)
      /\ r.files \in FilesType /\ r.ir \in IRType /\ r.at = "manifest"
  BY BuildFits DEF WriteManifest, At
<1>2. IRFits(r.ir, r.key.native, torn)
  BY <1>1 DEF Fits, Packing
<1>3. /\ build' = [build EXCEPT ![b] = Over] /\ natives[r.ir.native] # None
      /\ UNCHANGED <<tree, imported, analyses, natives, torn>>
  BY DEF WriteManifest, Library
<1>4. CASE UNCHANGED site
  BY <1>3, <1>4, EmptyTyped, OverFits, ReaderKeeps
<1>5. CASE ~site.installed /\ site' = [installed |-> TRUE, files |-> r.files, library |-> r.library,
              native |-> r.ir.native, all |-> r.ir.all, sha256 |-> natives[r.ir.native],
              disturbed |-> r.disturbed]
  <2>1. natives[r.ir.native] \in Hash /\ r.ir.native \in Hash /\ r.ir.all \in FilesType
    BY <1>1, <1>2, FieldsTyped DEF WheelInv, WheelTypeOK, IRFits
  <2>2. r.library \in Hash /\ r.disturbed \in Flags /\ TRUE \in Flags
    BY <1>1 DEF BuildType, Flags
  <2>3. site' \in SiteType
    BY <1>1, <1>5, <2>1, <2>2 DEF SiteType
  <2>4. natives[r.ir.native] = r.ir.native \/ r.ir.native \in torn
    BY <1>2, <1>3 DEF WheelInv, IRFits
  <2>5. ~r.disturbed => /\ r.ir.native = r.files.native \/ r.files.native \in torn
                        /\ r.ir.all = r.files /\ natives[r.ir.native] = r.library
    BY <1>1, <1>2 DEF Calm, IRFits, Packing
  <2>6. SiteFits(site', torn)
    BY <1>5, <2>4, <2>5 DEF SiteFits
  <2>7. imported # "bound" /\ imported # "refused"
    BY <1>5 DEF WheelInv
  <2>8. WheelTypeOK'
    BY <1>3, <2>3, EmptyTyped DEF WheelInv, WheelTypeOK
  <2>9. ASSUME NEW c \in Builders PROVE Fits(build'[c], torn) /\ Calm(build'[c], tree, natives)
    BY <1>3, OverFits DEF WheelInv, WheelTypeOK
  <2>10. QED
    BY <1>3, <2>6, <2>7, <2>8, <2>9 DEF WheelInv
<1>6. QED
  BY <1>4, <1>5 DEF WriteManifest, Library

\* What is running when a file changes is disturbed by it.
LEMMA DisturbKeeps ==
  ASSUME WheelInv, Disturb
  PROVE  /\ build' \in [Builders -> BuildType]
         /\ \A b \in Builders : \A disk, cache :
              Fits(build'[b], torn) /\ Calm(build'[b], disk, cache)
<1>1. ASSUME NEW b \in Builders
      PROVE  /\ build'[b] \in BuildType
             /\ \A disk, cache : Fits(build'[b], torn) /\ Calm(build'[b], disk, cache)
  <2> DEFINE r == build[b]
             d == r.at \notin {"idle", "ended"}
             s == [r EXCEPT !.disturbed = d]
  <2>1. r \in BuildType /\ Fits(r, torn)
    BY BuildFits
  <2>2. build'[b] = s
    BY DEF Disturb
  <2>3. d \in Flags /\ (r.at \in {"idle", "ended"} \/ d)
    BY DEF Flags
  <2> HIDE DEF d, r
  <2>4. s \in BuildType /\ s.at = r.at /\ s.key = r.key /\ s.ir = r.ir /\ s.disturbed = d
    BY <2>1, <2>3 DEF BuildType
  <2> HIDE DEF s
  <2>5. Fits(s, torn)
    BY <2>1, <2>4 DEF Fits
  <2>6. \A disk, cache : Calm(s, disk, cache)
    BY <2>3, <2>4 DEF Calm
  <2>7. QED
    BY <2>2, <2>4, <2>5, <2>6
<1>2. build' \in [Builders -> BuildType]
  <2>1. DOMAIN build' = Builders /\ build' = [b \in Builders |-> build'[b]]
    BY DEF Disturb
  <2>2. QED
    BY <1>1, <2>1
<1>3. QED
  BY <1>1, <1>2

LEMMA EditKeeps ==
  ASSUME WheelInv, NEW f \in {"native", "plain"}, Edit(f)
  PROVE  WheelInv'
<1>1. Disturb /\ UNCHANGED <<analyses, natives, torn, site, imported>>
  BY DEF Edit
<1>2. PICK v \in Versions : tree' = [tree EXCEPT ![f] = v]
  BY DEF Edit
<1>3. tree' \in FilesType /\ tree'.native \in Versions
  <2>1. tree \in FilesType /\ tree.native \in Versions /\ v \in Hash
    BY DEF WheelInv, WheelTypeOK, Hash
  <2>2. CASE f = "native"
    BY <1>2, <2>1, <2>2 DEF FilesType
  <2>3. CASE f = "plain"
    BY <1>2, <2>1, <2>3 DEF FilesType
  <2>4. QED
    BY <2>2, <2>3
<1>4. WheelTypeOK'
  BY <1>1, <1>3, DisturbKeeps DEF WheelInv, WheelTypeOK
<1>5. QED
  BY <1>1, <1>4, DisturbKeeps DEF WheelInv

LEMMA PruneKeeps == ASSUME WheelInv, NEW v \in Versions, Prune(v) PROVE WheelInv'
<1>1. /\ Disturb /\ UNCHANGED <<tree, analyses, torn, site, imported>>
      /\ natives' = [natives EXCEPT ![v] = None]
  BY DEF Prune
<1>2. natives' \in [Versions -> Hash] /\ \A w \in Versions : natives'[w] \in {None, natives[w]}
  BY <1>1, EmptyTyped DEF WheelInv, WheelTypeOK
<1>3. WheelTypeOK'
  BY <1>1, <1>2, DisturbKeeps DEF WheelInv, WheelTypeOK
<1>4. QED
  BY <1>1, <1>2, <1>3, DisturbKeeps DEF WheelInv

LEMMA InstallationKeeps == ASSUME WheelInv, Import \/ Touch PROVE WheelInv'
<1>1. CASE Import
  BY <1>1 DEF Import, WheelInv, WheelTypeOK
<1>2. CASE Touch
  <2>1. /\ site.installed /\ imported = "none"
        /\ UNCHANGED <<tree, analyses, natives, build, torn, imported>>
    BY <1>2 DEF Touch
  <2>2. site \in SiteType
    BY <2>1 DEF WheelInv, WheelTypeOK, NoSite
  <2>3. /\ site' \in SiteType /\ site'.disturbed
        /\ site'.sha256 = site.sha256 /\ site'.native = site.native
    <3>1. PICK v \in Versions :
            \/ site' = [site EXCEPT !.files.native = v, !.disturbed = TRUE]
            \/ site' = [site EXCEPT !.files.plain = v, !.disturbed = TRUE]
            \/ site' = [site EXCEPT !.library = v, !.disturbed = TRUE]
      BY <1>2 DEF Touch
    <3>2. v \in Hash /\ TRUE \in Flags /\ site.files \in FilesType
      BY <2>2 DEF Hash, Flags, SiteType
    <3>3. /\ [site.files EXCEPT !.native = v] \in FilesType
          /\ [site.files EXCEPT !.plain = v] \in FilesType
      BY <3>2, FieldsTyped
    <3>4. ASSUME NEW g \in FilesType
          PROVE  LET s == [site EXCEPT !.files = g, !.disturbed = TRUE] IN
                 s \in SiteType /\ s.disturbed /\ s.sha256 = site.sha256 /\ s.native = site.native
      BY <2>2, <3>2 DEF SiteType
    <3>5. CASE site' = [site EXCEPT !.files.native = v, !.disturbed = TRUE]
      <4>1. site' = [site EXCEPT !.files = [site.files EXCEPT !.native = v], !.disturbed = TRUE]
        BY <3>5
      <4>2. QED
        BY <3>3, <3>4, <4>1
    <3>6. CASE site' = [site EXCEPT !.files.plain = v, !.disturbed = TRUE]
      <4>1. site' = [site EXCEPT !.files = [site.files EXCEPT !.plain = v], !.disturbed = TRUE]
        BY <3>6
      <4>2. QED
        BY <3>3, <3>4, <4>1
    <3>7. CASE site' = [site EXCEPT !.library = v, !.disturbed = TRUE]
      BY <2>2, <3>2, <3>7 DEF SiteType
    <3>8. QED
      BY <3>1, <3>5, <3>6, <3>7
  <2>4. SiteFits(site', torn)
    BY <2>1, <2>3 DEF WheelInv, SiteFits
  <2>5. WheelTypeOK'
    BY <2>1, <2>3 DEF WheelInv, WheelTypeOK
  <2>6. QED
    BY <2>1, <2>4, <2>5 DEF WheelInv
<1>3. QED
  BY <1>1, <1>2

LEMMA WheelsStaySound == ASSUME WheelInv, [WheelNext]_wheelVars PROVE WheelInv'
<1>1. ASSUME UNCHANGED wheelVars PROVE WheelInv'
  BY <1>1 DEF WheelInv, WheelTypeOK, wheelVars
<1>2. QED
  BY <1>1, AnalysisKeeps, RememberKeeps, CompileKeeps, PackingKeeps, WriteManifestKeeps,
     EditKeeps, PruneKeeps, InstallationKeeps DEF WheelNext

LEMMA WheelInitInv == WheelInit => WheelInv
<1> SUFFICES ASSUME WheelInit PROVE WheelInv
  OBVIOUS
<1>1. tree \in FilesType /\ tree.native \in Versions
  BY VersionAssumption DEF WheelInit, FilesType, Hash
<1>2. \A b \in Builders : Fits(build[b], torn) /\ Calm(build[b], tree, natives)
  <2>1. \A b \in Builders : build[b].at = "idle"
    BY EmptyTyped DEF WheelInit
  <2>2. QED
    BY <2>1 DEF Fits, Calm, Analyzing, Packing
<1>3. SiteFits(site, torn) /\ imported = "none"
  BY DEF WheelInit, SiteFits, NoSite
<1>4. WheelTypeOK
  BY <1>1, EmptyTyped DEF WheelInit, WheelTypeOK
<1>5. QED
  BY <1>2, <1>3, <1>4 DEF WheelInv, WheelInit

LEMMA WheelsAreSound == WheelSpec => []WheelInv
  BY WheelInitInv, WheelsStaySound, PTL DEF WheelSpec

(* A library is bound only to the sources it was built from, for any number of *)
(* builds at once and of edits, prunes and changes of the installation, but    *)
(* for sources that an analysis saw change between hashing and reading them.   *)
THEOREM BoundLibrariesMatch == WheelSpec => []BoundIsInstalled
<1>1. WheelInv => BoundIsInstalled
  BY DEF WheelInv, BoundIsInstalled, SiteFits, Verified
<1>2. QED
  BY <1>1, WheelsAreSound, PTL

(* An installed wheel is refused only if something changed while it was built  *)
(* or after it was installed, with the same exception.                         *)
THEOREM OnlyChangesAreRefused == WheelSpec => []RefusalMeansChange
<1>1. WheelInv => RefusalMeansChange
  BY DEF WheelInv, RefusalMeansChange, SiteFits, Verified
<1>2. QED
  BY <1>1, WheelsAreSound, PTL

------------------------------------------------------------------------------
(* Sums over finite sets, as MapThenSumSet folds them.                         *)

(* A nonempty set of natural numbers has a least element.                      *)
LEMMA LeastExists ==
  ASSUME NEW S \in SUBSET Nat, S # {}
  PROVE  \E i \in S : \A j \in S : i <= j
<1>1. PICK x \in S : \A y \in S : ~(<<y, x>> \in OpToRel(<, Nat))
  BY NatLessThanWellFounded, WFMin
<1>2. \A y \in S : ~(y < x)
  BY <1>1 DEF OpToRel
<1>3. QED
  BY <1>2

(* f is the sum of the weights w over each subset of S.                        *)
Additive(f, w, S) ==
  /\ f \in [SUBSET S -> Nat]
  /\ f[{}] = 0
  /\ \A U \in SUBSET S : \A x \in U : f[U] = w[x] + f[U \ {x}]

LEMMA AdditiveExists ==
  ASSUME NEW S, IsFiniteSet(S), NEW w \in [S -> Nat]
  PROVE  \E f : Additive(f, w, S)
<1> DEFINE Bad == {T \in SUBSET S : ~\E f : Additive(f, w, T)}
           sizes == {Cardinality(T) : T \in Bad}
<1>1. SUFFICES ASSUME S \in Bad PROVE FALSE
  OBVIOUS
<1>2. \A T \in SUBSET S : IsFiniteSet(T) /\ Cardinality(T) \in Nat
  BY FS_Subset, FS_CardinalityType
<1>3. sizes \in SUBSET Nat /\ sizes # {}
  BY <1>1, <1>2
<1>4. PICK n \in sizes : \A m \in sizes : n <= m
  BY <1>3, LeastExists
<1>5. PICK T \in Bad : \A U \in Bad : Cardinality(T) <= Cardinality(U)
  <2> HIDE DEF Bad
  <2>1. QED
    BY <1>4
<1>6. CASE T = {}
  <2> DEFINE f == [U \in SUBSET {} |-> 0]
  <2>1. Additive(f, w, {})
    BY DEF Additive
  <2>2. QED
    BY <2>1, <1>5, <1>6
<1>7. CASE T # {}
  <2>1. PICK x \in T : TRUE
    BY <1>7
  <2>2. Cardinality(T \ {x}) = Cardinality(T) - 1 /\ Cardinality(T) \in Nat
    BY <1>2, <1>5, <2>1, FS_RemoveElement
  <2>3. T \ {x} \notin Bad
    BY <1>5, <2>2
  <2>4. PICK f : Additive(f, w, T \ {x})
    BY <2>3
  <2> DEFINE g == [U \in SUBSET T |-> IF x \in U THEN w[x] + f[U \ {x}] ELSE f[U]]
  <2>5. \A U \in SUBSET T : U \ {x} \in SUBSET (T \ {x}) /\ f[U \ {x}] \in Nat
    BY <2>4 DEF Additive
  <2>6. \A y \in T : w[y] \in Nat
    BY <1>5
  <2>7. g \in [SUBSET T -> Nat] /\ g[{}] = 0
    <3>1. \A U \in SUBSET T : (IF x \in U THEN w[x] + f[U \ {x}] ELSE f[U]) \in Nat
      <4> SUFFICES ASSUME NEW U \in SUBSET T
                   PROVE  (IF x \in U THEN w[x] + f[U \ {x}] ELSE f[U]) \in Nat
        OBVIOUS
      <4>1. x \notin U => U \ {x} = U
        OBVIOUS
      <4>2. f[U \ {x}] \in Nat /\ w[x] \in Nat
        BY <2>1, <2>5, <2>6
      <4>3. x \notin U => f[U] \in Nat
        BY <4>1, <4>2
      <4>4. w[x] + f[U \ {x}] \in Nat
        BY <4>2
      <4>5. QED
        BY <4>3, <4>4
    <3>2. QED
      BY <3>1, <2>4 DEF Additive
  <2>8. ASSUME NEW U \in SUBSET T, NEW y \in U PROVE g[U] = w[y] + g[U \ {y}]
    <3>1. CASE x = y
      BY <3>1
    <3>2. CASE x # y /\ x \notin U
      <4>1. U \in SUBSET (T \ {x}) /\ U \ {y} \in SUBSET T
        BY <3>2
      <4>2. g[U] = f[U] /\ g[U \ {y}] = f[U \ {y}]
        BY <4>1, <3>2
      <4>3. QED
        BY <4>1, <4>2, <2>4 DEF Additive
    <3>3. CASE x # y /\ x \in U
      <4>1. U \ {x} \in SUBSET (T \ {x}) /\ y \in U \ {x}
        BY <3>3
      <4>2. f[U \ {x}] = w[y] + f[(U \ {x}) \ {y}]
        BY <4>1, <2>4 DEF Additive
      <4>3. (U \ {x}) \ {y} = (U \ {y}) \ {x}
        OBVIOUS
      <4>4. g[U] = w[x] + f[U \ {x}] /\ g[U \ {y}] = w[x] + f[(U \ {y}) \ {x}]
        BY <3>2, <3>3
      <4> HIDE DEF g
      <4>5. f[(U \ {y}) \ {x}] \in Nat /\ w[x] \in Nat /\ w[y] \in Nat
        BY <2>1, <2>5, <2>6
      <4> DEFINE rest == f[(U \ {y}) \ {x}]
      <4>6. g[U] = w[x] + (w[y] + rest) /\ g[U \ {y}] = w[x] + rest
        BY <4>2, <4>3, <4>4
      <4>7. rest \in Nat
        BY <4>5
      <4> HIDE DEF rest
      <4>8. QED
        BY <4>5, <4>6, <4>7
    <3>4. QED
      BY <3>1, <3>2, <3>3
  <2>9. Additive(g, w, T)
    <3> HIDE DEF g
    <3>1. QED
      BY <2>7, <2>8 DEF Additive
  <2>10. QED
    BY <2>9, <1>5
<1>8. QED
  BY <1>6, <1>7

LEMMA AdditiveOverUnion ==
  ASSUME NEW S, IsFiniteSet(S), NEW w \in [S -> Nat], NEW f, Additive(f, w, S),
         NEW A \in SUBSET S, NEW B \in SUBSET S, A \cap B = {}
  PROVE  f[A \cup B] = f[A] + f[B]
<1> DEFINE Bad == {T \in SUBSET S : A \cap T = {} /\ f[A \cup T] # f[A] + f[T]}
           sizes == {Cardinality(T) : T \in Bad}
<1>1. SUFFICES ASSUME B \in Bad PROVE FALSE
  OBVIOUS
<1>2. \A T \in SUBSET S : IsFiniteSet(T) /\ Cardinality(T) \in Nat
  BY FS_Subset, FS_CardinalityType
<1>3. sizes \in SUBSET Nat /\ sizes # {}
  BY <1>1, <1>2
<1>4. PICK n \in sizes : \A m \in sizes : n <= m
  BY <1>3, LeastExists
<1>5. PICK T \in Bad : \A U \in Bad : Cardinality(T) <= Cardinality(U)
  <2> HIDE DEF Bad
  <2>1. QED
    BY <1>4
<1>6. \A U \in SUBSET S : f[U] \in Nat
  BY DEF Additive
<1>7. T # {}
  <2>1. A \cup {} = A /\ f[{}] = 0 /\ f[A] \in Nat
    BY <1>6 DEF Additive
  <2>2. f[A \cup {}] = f[A] + f[{}]
    BY <2>1
  <2>3. {} \notin Bad
    BY <2>2
  <2>4. QED
    BY <2>3, <1>5
<1>8. PICK x \in T : TRUE
  BY <1>7
<1>9. Cardinality(T \ {x}) = Cardinality(T) - 1 /\ Cardinality(T) \in Nat
  BY <1>2, <1>5, <1>8, FS_RemoveElement
<1>10. T \ {x} \notin Bad
  BY <1>5, <1>9
<1>11. f[A \cup (T \ {x})] = f[A] + f[T \ {x}]
  BY <1>5, <1>10
<1>12. (A \cup T) \ {x} = A \cup (T \ {x})
  BY <1>5, <1>8
<1>13. f[T] = w[x] + f[T \ {x}]
  BY <1>5, <1>8 DEF Additive
<1>14. f[A \cup T] = w[x] + f[A \cup (T \ {x})]
  <2>1. A \cup T \in SUBSET S /\ x \in A \cup T
    BY <1>5, <1>8
  <2>2. f[A \cup T] = w[x] + f[(A \cup T) \ {x}]
    BY <2>1 DEF Additive
  <2>3. QED
    BY <2>2, <1>12
<1>15. w[x] \in Nat /\ f[A] \in Nat /\ f[T \ {x}] \in Nat
  BY <1>5, <1>6, <1>8
<1>16. QED
  BY <1>5, <1>11, <1>13, <1>14, <1>15

Chosen(s) == CHOOSE x \in s : TRUE

(* h is what a fold that chooses its elements computes.                        *)
Folded(h, w, S) ==
  \A s \in SUBSET S : h[s] = IF s = {} THEN 0 ELSE w[Chosen(s)] + h[s \ {Chosen(s)}]

LEMMA AdditiveUnique ==
  ASSUME NEW S, IsFiniteSet(S), NEW w \in [S -> Nat], NEW f, Additive(f, w, S), NEW h, Folded(h, w, S)
  PROVE  \A s \in SUBSET S : h[s] = f[s]
<1> DEFINE Bad == {T \in SUBSET S : h[T] # f[T]}
           sizes == {Cardinality(T) : T \in Bad}
<1>1. SUFFICES ASSUME Bad # {} PROVE FALSE
  OBVIOUS
<1>2. \A T \in SUBSET S : IsFiniteSet(T) /\ Cardinality(T) \in Nat
  BY FS_Subset, FS_CardinalityType
<1>3. sizes \in SUBSET Nat /\ sizes # {}
  BY <1>1, <1>2
<1>4. PICK n \in sizes : \A m \in sizes : n <= m
  BY <1>3, LeastExists
<1>5. PICK T \in Bad : \A U \in Bad : Cardinality(T) <= Cardinality(U)
  <2> HIDE DEF Bad
  <2>1. QED
    BY <1>4
<1> DEFINE x == Chosen(T)
<1>6. T # {}
  BY <1>5 DEF Additive, Folded
<1>7. x \in T
  BY <1>6 DEF Chosen
<1>8. h[T] = w[x] + h[T \ {x}]
  BY <1>5, <1>6 DEF Folded
<1> HIDE DEF x
<1>9. Cardinality(T \ {x}) = Cardinality(T) - 1 /\ Cardinality(T) \in Nat
  BY <1>2, <1>5, <1>7, FS_RemoveElement
<1>10. T \ {x} \notin Bad
  BY <1>5, <1>9
<1>11. f[T] = w[x] + f[T \ {x}]
  BY <1>5, <1>7 DEF Additive
<1>12. QED
  BY <1>5, <1>8, <1>10, <1>11

Weighed(of, w, S) == \A e \in S : of[e].size = w[e]

(* What Bytes folds is the sum.                                                *)
LEMMA BytesAre ==
  ASSUME NEW S, IsFiniteSet(S), NEW of, NEW w \in [S -> Nat],
         Weighed(of, w, S), NEW f, Additive(f, w, S)
  PROVE  Bytes(S, of) = f[S]
<1> DEFINE Folds(i) == i = [s \in SUBSET S |-> IF s = {} THEN 0
                             ELSE LET x == CHOOSE x \in s : TRUE
                                  IN  of[x].size + i[s \ {x}]]
           sum == CHOOSE i : Folds(i)
<1>1. Bytes(S, of) = sum[S]
  BY DEF Bytes, MapThenSumSet, MapThenFoldSet
<1>2. ASSUME NEW s \in SUBSET S, s # {}
      PROVE  LET x == CHOOSE x \in s : TRUE IN x \in s /\ of[x].size = w[x]
  BY <1>2 DEF Weighed
<1>3. Folds(f)
  <2>1. f = [s \in SUBSET S |-> f[s]]
    BY DEF Additive
  <2>2. ASSUME NEW s \in SUBSET S
        PROVE  f[s] = IF s = {} THEN 0
                      ELSE LET x == CHOOSE x \in s : TRUE IN of[x].size + f[s \ {x}]
    <3>1. CASE s = {}
      BY <3>1 DEF Additive
    <3>2. CASE s # {}
      <4> DEFINE x == CHOOSE x \in s : TRUE
      <4>1. x \in s /\ of[x].size = w[x]
        BY <3>2 DEF Weighed
      <4> HIDE DEF x
      <4>2. f[s] = w[x] + f[s \ {x}]
        BY <4>1 DEF Additive
      <4>3. f[s] = of[x].size + f[s \ {x}]
        BY <4>1, <4>2
      <4> USE DEF x
      <4>4. QED
        BY <3>2, <4>3
    <3>3. QED
      BY <3>1, <3>2
  <2>3. QED
    BY <2>1, <2>2, Zenon
<1>4. Folds(sum)
  <2> HIDE DEF Folds
  <2>1. QED
    BY <1>3
<1> HIDE DEF sum
<1>5. Folded(sum, w, S)
  BY <1>2, <1>4 DEF Chosen, Folded
<1>6. \A s \in SUBSET S : sum[s] = f[s]
  <2> HIDE DEF Folds
  <2>1. QED
    BY <1>5, AdditiveUnique
<1>7. QED
  BY <1>1, <1>6
(* All sizes of entries in S are known.                                        *)
Sized(of, S) == \A e \in S : of[e].size \in Nat

LEMMA BytesOfSubsets ==
  ASSUME NEW S, IsFiniteSet(S), NEW of, Sized(of, S)
  PROVE  \E f : /\ Additive(f, [e \in S |-> of[e].size], S)
                /\ \A T \in SUBSET S : Bytes(T, of) = f[T]
<1> DEFINE w == [e \in S |-> of[e].size]
<1>1. w \in [S -> Nat]
  BY DEF Sized
<1>2. PICK f : Additive(f, w, S)
  BY <1>1, AdditiveExists
<1>3. ASSUME NEW T \in SUBSET S PROVE Bytes(T, of) = f[T]
  <2> DEFINE v == [e \in T |-> of[e].size]
             g == [U \in SUBSET T |-> f[U]]
  <2>1. v \in [T -> Nat] /\ Weighed(of, v, T)
    BY DEF Sized, Weighed
  <2>2. g \in [SUBSET T -> Nat] /\ g[{}] = 0
    BY <1>2 DEF Additive
  <2>3. ASSUME NEW U \in SUBSET T, NEW x \in U PROVE g[U] = v[x] + g[U \ {x}]
    <3>1. f[U] = w[x] + f[U \ {x}]
      BY <1>2 DEF Additive
    <3>2. w[x] = v[x]
      OBVIOUS
    <3>3. g[U] = f[U] /\ g[U \ {x}] = f[U \ {x}]
      OBVIOUS
    <3>4. QED
      BY <3>1, <3>2, <3>3
  <2>4. Additive(g, v, T)
    <3> HIDE DEF g, v
    <3>1. QED
      BY <2>2, <2>3 DEF Additive
  <2>5. IsFiniteSet(T)
    BY FS_Subset
  <2>6. Bytes(T, of) = g[T]
    <3> HIDE DEF g, v
    <3>1. QED
      BY <2>1, <2>4, <2>5, BytesAre
  <2>7. QED
    BY <2>6
<1>4. QED
  BY <1>2, <1>3

LEMMA BytesAdd ==
  ASSUME NEW S, IsFiniteSet(S), NEW of, Sized(of, S), NEW T \in SUBSET S
  PROVE  /\ Bytes(T, of) \in Nat /\ Bytes(S, of) \in Nat /\ Bytes(S \ T, of) \in Nat
         /\ Bytes(S, of) = Bytes(T, of) + Bytes(S \ T, of)
<1> DEFINE w == [e \in S |-> of[e].size]
<1>1. w \in [S -> Nat]
  BY DEF Sized
<1>2. PICK f : Additive(f, w, S) /\ \A U \in SUBSET S : Bytes(U, of) = f[U]
  BY BytesOfSubsets
<1> HIDE DEF w
<1>3. T \cap (S \ T) = {} /\ T \cup (S \ T) = S /\ S \ T \in SUBSET S /\ S \in SUBSET S
  OBVIOUS
<1>4. f[T \cup (S \ T)] = f[T] + f[S \ T]
  BY <1>1, <1>2, <1>3, AdditiveOverUnion
<1>5. \A U \in SUBSET S : f[U] \in Nat
  BY <1>2 DEF Additive
<1>6. QED
  BY <1>2, <1>3, <1>4, <1>5

LEMMA BytesSame ==
  ASSUME NEW S, IsFiniteSet(S), NEW of, Sized(of, S), NEW as,
         \A e \in S : as[e].size = of[e].size
  PROVE  Bytes(S, as) = Bytes(S, of)
<1> DEFINE w == [e \in S |-> of[e].size]
<1>1. w \in [S -> Nat] /\ Weighed(of, w, S) /\ Weighed(as, w, S)
  BY DEF Sized, Weighed
<1> HIDE DEF w
<1>2. PICK f : Additive(f, w, S)
  BY <1>1, AdditiveExists
<1>3. QED
  BY ZenonT(60), <1>1, <1>2, BytesAre

------------------------------------------------------------------------------
(* The prune.                                                                  *)

PruneTypeOK ==
  /\ entry \in [Entries -> EntryType]
  /\ leased \subseteq Entries
  /\ pass \in {"inventory", "removal", "done"}
  /\ seen \in [Entries -> EntryType]
  /\ looked \subseteq Entries
  /\ uncertain \subseteq Entries
  /\ selected \subseteq Known
  /\ tried \subseteq selected
  /\ removed \subseteq tried
  /\ published \in BOOLEAN

(* What is removed to meet the limit is among the least recently used, and its *)
(* bytes with those of more recent use are above it.                           *)
SelectedByUse ==
  \A e \in selected \ Expired :
     /\ Bytes({d \in Known : seen[d].used >= seen[e].used}, seen) > MaxBytes
     /\ Older(Known, e) \subseteq selected

(* The inventory is right about the size of what it is certain of.             *)
Accounted(e) ==
  IF e \in removed THEN entry[e] = Absent
  ELSE /\ entry[e].size = seen[e].size
       /\ entry[e] = Absent <=> seen[e] = Absent

PruneInv ==
  /\ PruneTypeOK
  /\ pass = "inventory" => selected = {}
  /\ pass # "inventory" => looked = Entries
  /\ pass = "done" => tried = selected
  /\ tried \subseteq removed \union uncertain \union leased
  /\ SelectedByUse
  /\ ~published => \A e \in looked \ uncertain : Accounted(e)

LEMMA EntryFacts ==
  /\ Absent \in EntryType
  /\ \A x \in EntryType : x.size \in Nat /\ x.used \in Nat
  /\ \A x \in EntryType \ {Absent} : [x EXCEPT !.used = Now] \in EntryType \ {Absent}
  /\ \A size \in Sizes : [size |-> size, used |-> Now] \in EntryType \ {Absent}
  BY PruneAssumption DEF EntryType, Absent

(* What Select takes.                                                          *)
LEMMA SelectionByUse ==
  ASSUME PruneTypeOK, NEW order \in SetToSeqs(Known),
         \A i, j \in DOMAIN order : i < j => seen[order[i]].used <= seen[order[j]].used
  PROVE  /\ Expired \union Surplus(order) \subseteq Known
         /\ \A e \in Surplus(order) :
               /\ Bytes({d \in Known : seen[d].used >= seen[e].used}, seen) > MaxBytes
               /\ Older(Known, e) \subseteq Expired \union Surplus(order)
<1> DEFINE n == Cardinality(Known)
<1>1. IsFiniteSet(Known) /\ n \in Nat
  BY PruneAssumption, FS_Subset, FS_CardinalityType DEF Known
<1>2. order \in [1 .. n -> Known] /\ \A i, j \in 1 .. n : i # j => order[i] # order[j]
  BY DEF SetToSeqs
<1>3. \A e \in Known : \E i \in 1 .. n : order[i] = e
  <2>1. order \in Injection(1 .. n, Known)
    BY <1>2 DEF Injection, IsInjective
  <2>2. Cardinality(1 .. n) = n
    BY <1>1, FS_Interval
  <2>3. order \in Surjection(1 .. n, Known)
    BY <1>1, <2>1, <2>2, FS_Injection
  <2>4. QED
    BY <2>3 DEF Surjection
<1>4. \A e \in Known : seen[e].used \in Nat
  BY EntryFacts DEF PruneTypeOK, Known
<1>5. Sized(seen, Known)
  BY EntryFacts DEF Sized, PruneTypeOK, Known
<1>6. ASSUME NEW A \in SUBSET Known, NEW B \in SUBSET A, Bytes(B, seen) > MaxBytes
      PROVE  Bytes(A, seen) > MaxBytes
  <2>1. IsFiniteSet(A) /\ Sized(seen, A)
    BY <1>1, <1>5, FS_Subset DEF Sized
  <2>2. /\ Bytes(B, seen) \in Nat /\ Bytes(A \ B, seen) \in Nat
        /\ Bytes(A, seen) = Bytes(B, seen) + Bytes(A \ B, seen)
    BY <2>1, BytesAdd
  <2>3. QED
    BY <1>6, <2>2, PruneAssumption
<1>7. ASSUME NEW e \in Surplus(order)
      PROVE  /\ Bytes({d \in Known : seen[d].used >= seen[e].used}, seen) > MaxBytes
             /\ Older(Known, e) \subseteq Expired \union Surplus(order)
  <2>1. PICK k \in 1 .. n : order[k] = e /\ Bytes(Rest(order, k), seen) > MaxBytes
    BY <1>2 DEF Surplus
  <2>2. Rest(order, k) \subseteq {d \in Known : seen[d].used >= seen[e].used}
    <3> SUFFICES ASSUME NEW i \in k .. n
                 PROVE  order[i] \in Known /\ seen[order[i]].used >= seen[e].used
      BY DEF Rest
    <3>1. i \in 1 .. n
      BY <1>1
    <3>2. CASE i = k
      BY <1>2, <1>4, <2>1, <3>2
    <3>3. CASE k < i
      <4>1. seen[order[k]].used <= seen[order[i]].used
        BY <1>2, <3>1, <3>3
      <4>2. QED
        BY <1>2, <1>4, <2>1, <3>1, <4>1
    <3>4. QED
      BY <1>1, <3>2, <3>3
  <2>3. Bytes({d \in Known : seen[d].used >= seen[e].used}, seen) > MaxBytes
    BY <1>6, <2>1, <2>2
  <2>4. ASSUME NEW d \in Older(Known, e), d \notin Expired PROVE d \in Surplus(order)
    <3>1. d \in Known /\ seen[d].used < seen[e].used
      BY DEF Older
    <3>2. PICK l \in 1 .. n : order[l] = d
      BY <1>3, <3>1
    <3>3. l < k
      <4>1. e \in Known
        BY <1>2, <2>1
      <4>2. ~(seen[e].used <= seen[d].used)
        BY <1>4, <3>1, <4>1
      <4>3. l # k
        BY <1>4, <2>1, <3>1, <3>2, <4>1
      <4>4. ~(k < l)
        BY <1>2, <2>1, <3>2, <4>2
      <4>5. QED
        BY <4>3, <4>4, <1>1
    <3>4. Rest(order, k) \subseteq Rest(order, l) /\ Rest(order, l) \subseteq Known
      <4>1. k .. n \subseteq l .. n /\ l .. n \subseteq 1 .. n
        BY <1>1, <3>3
      <4>2. QED
        BY <1>2, <4>1 DEF Rest
    <3>5. Bytes(Rest(order, l), seen) > MaxBytes
      BY <1>6, <2>1, <3>4
    <3>6. QED
      BY <1>2, <2>4, <3>2, <3>5 DEF Surplus
  <2>5. QED
    BY <2>3, <2>4
<1>8. Expired \union Surplus(order) \subseteq Known
  BY <1>2 DEF Expired, Surplus
<1>9. QED
  BY <1>7, <1>8

LEMMA PruneInitInv ==
  ASSUME NEW entries \in [Entries -> EntryType], PruneInit(entries)
  PROVE  PruneInv
  BY EntryFacts DEF PruneInit, PruneInv, PruneTypeOK, SelectedByUse, Known

\* What the removal goes by does not change once it has begun.
LEMMA SelectionStands ==
  ASSUME SelectedByUse, UNCHANGED <<seen, selected>>
  PROVE  SelectedByUse'
  BY DEF SelectedByUse, Known, Older, Expired

LEMMA InventoryKeeps ==
  ASSUME PruneInv, NEW e \in Entries, Inventory(e)
  PROVE  PruneInv'
<1> USE DEF PruneInv, PruneTypeOK, Inventory, onDisk
<1>1. PruneTypeOK'
  BY EntryFacts DEF Known
<1>2. SelectedByUse'
  BY DEF SelectedByUse
<1>3. ASSUME NEW d \in looked' \ uncertain', ~published' PROVE Accounted(d)'
  <2>1. CASE d = e /\ e \notin looked
    BY <1>3, <2>1 DEF Accounted
  <2>2. CASE d # e
    BY <1>3, <2>2 DEF Accounted
  <2>3. QED
    BY <2>1, <2>2
<1>4. QED
  BY <1>1, <1>2, <1>3

LEMMA SelectKeeps ==
  ASSUME PruneInv, Select
  PROVE  PruneInv'
<1> USE DEF PruneInv, onDisk
<1>1. PICK order \in SetToSeqs(Known) :
         /\ \A i, j \in DOMAIN order : i < j => seen[order[i]].used <= seen[order[j]].used
         /\ selected' = Expired \union Surplus(order)
  BY DEF Select
<1>2. /\ pass = "inventory" /\ looked = Entries /\ pass' = "removal"
      /\ UNCHANGED <<onDisk, seen, looked, uncertain, tried, removed>>
  BY DEF Select
<1>3. /\ selected' \subseteq Known
      /\ \A e \in Surplus(order) :
            /\ Bytes({d \in Known : seen[d].used >= seen[e].used}, seen) > MaxBytes
            /\ Older(Known, e) \subseteq selected'
  BY <1>1, SelectionByUse
<1>4. Known' = Known /\ Expired' = Expired
  BY <1>2 DEF Known, Expired
<1>5. PruneTypeOK'
  BY <1>2, <1>3, <1>4 DEF PruneTypeOK
<1>6. SelectedByUse'
  <2> SUFFICES ASSUME NEW e \in selected' \ Expired
               PROVE  /\ Bytes({d \in Known : seen[d].used >= seen[e].used}, seen) > MaxBytes
                      /\ Older(Known, e) \subseteq selected'
    BY <1>2, <1>4 DEF SelectedByUse, Older
  <2>1. QED
    BY <1>1, <1>3
<1>7. ~published' => \A e \in looked' \ uncertain' : Accounted(e)'
  BY <1>2 DEF Accounted
<1>8. QED
  BY <1>2, <1>5, <1>6, <1>7 DEF PruneTypeOK

LEMMA RemoveKeeps ==
  ASSUME PruneInv, NEW e \in Entries, RemoveNext(e)
  PROVE  PruneInv'
<1> USE DEF PruneInv, RemoveNext
<1>1. PruneTypeOK'
  BY EntryFacts DEF PruneTypeOK, Known
<1>2. SelectedByUse'
  BY SelectionStands
<1>3. e \notin removed /\ e \in Known
  BY DEF PruneTypeOK
<1>4. ASSUME NEW d \in looked' \ uncertain', ~published' PROVE Accounted(d)'
  <2>1. d \in Entries /\ Accounted(d)
    BY <1>4 DEF PruneTypeOK
  <2>2. CASE entry' = [entry EXCEPT ![e] = Absent] /\ removed' = removed \union {e}
    BY <2>1, <2>2 DEF Accounted, PruneTypeOK
  <2>3. CASE UNCHANGED <<entry, removed>>
    BY <2>1, <2>3 DEF Accounted
  <2>4. QED
    BY <2>2, <2>3
<1>5. tried' \subseteq removed' \union uncertain' \union leased'
  OBVIOUS
<1>6. QED
  BY <1>1, <1>2, <1>4, <1>5

LEMMA ReportKeeps ==
  ASSUME PruneInv, Report
  PROVE  PruneInv'
<1> USE DEF PruneInv, Report, onDisk
<1>1. PruneTypeOK'
  BY DEF PruneTypeOK, Known
<1>2. SelectedByUse'
  BY SelectionStands
<1>3. ~published' => \A e \in looked' \ uncertain' : Accounted(e)'
  BY DEF Accounted
<1>4. QED
  BY <1>1, <1>2, <1>3

LEMMA UseKeeps ==
  ASSUME PruneInv, NEW e \in Entries, Use(e)
  PROVE  PruneInv'
<1> USE DEF PruneInv, Use
<1>1. entry' = [entry EXCEPT ![e] = [entry[e] EXCEPT !.used = Now]]
  OBVIOUS
<1>2. entry[e] \in EntryType \ {Absent}
  BY DEF PruneTypeOK
<1>3. entry'[e] \in EntryType \ {Absent} /\ entry'[e].size = entry[e].size
  BY <1>1, <1>2, EntryFacts DEF PruneTypeOK, EntryType
<1>4. PruneTypeOK'
  BY <1>1, <1>3 DEF PruneTypeOK, Known
<1>5. SelectedByUse'
  BY SelectionStands
<1>6. ASSUME NEW d \in looked' \ uncertain', ~published' PROVE Accounted(d)'
  <2>1. d \in Entries /\ Accounted(d)
    BY <1>6 DEF PruneTypeOK
  <2>2. CASE d = e
    BY <1>2, <1>3, <2>1, <2>2 DEF Accounted
  <2>3. CASE d # e
    BY <1>1, <2>1, <2>3 DEF Accounted, PruneTypeOK
  <2>4. QED
    BY <2>2, <2>3
<1>7. QED
  BY <1>4, <1>5, <1>6 DEF PruneTypeOK

LEMMA PublishKeeps ==
  ASSUME PruneInv, NEW e \in Entries, Publish(e)
  PROVE  PruneInv'
<1> USE DEF PruneInv, Publish
<1>1. PruneTypeOK'
  BY EntryFacts DEF PruneTypeOK, Known
<1>2. SelectedByUse'
  BY SelectionStands
<1>3. QED
  BY <1>1, <1>2

LEMMA ExactWhenDone ==
  ASSUME PruneInv
  PROVE  PruneIsExact
<1> USE DEF PruneInv
<1> SUFFICES ASSUME pass = "done" PROVE PruneIsExact
  BY DEF PruneIsExact
<1>1. removed \subseteq Known /\ IsFiniteSet(Known)
  BY PruneAssumption, FS_Subset DEF PruneTypeOK, Known
<1>2. Sized(seen, Known)
  BY EntryFacts DEF Sized, PruneTypeOK, Known
<1>3. ASSUME uncertain = {}, ~published
      PROVE  /\ Remaining = Bytes(Present, entry)
             /\ EntriesRemaining = Cardinality(Present)
             /\ LimitSatisfied <=> Bytes(Present, entry) <= MaxBytes
  <2>1. \A e \in Entries : Accounted(e)
    BY <1>3 DEF PruneTypeOK
  <2>2. Present = Known \ removed
    BY <1>1, <2>1 DEF Accounted, Present, Known
  <2>3. IsFiniteSet(Present) /\ Sized(seen, Present)
    BY <1>1, <1>2, <2>2, FS_Subset DEF Sized
  <2>4. \A e \in Present : entry[e].size = seen[e].size
    BY <2>1, <2>2 DEF Accounted, Known
  <2>5. Bytes(Present, entry) = Bytes(Present, seen)
    BY <2>3, <2>4, BytesSame
  <2>6. /\ Bytes(Known, seen) = Bytes(removed, seen) + Bytes(Present, seen)
        /\ Bytes(removed, seen) \in Nat /\ Bytes(Present, seen) \in Nat
    BY <1>1, <1>2, <2>2, BytesAdd
  <2>7. Remaining = Bytes(Present, entry)
    <3>1. Known \ uncertain = Known
      BY <1>3
    <3>2. Remaining = Bytes(Known, seen) - Bytes(removed, seen)
      BY <3>1 DEF Remaining
    <3>3. QED
      BY <2>5, <2>6, <3>2
  <2>8. EntriesRemaining = Cardinality(Present)
    <3>1. Known \union uncertain = Known /\ Known \intersect removed = removed
      BY <1>1, <1>3
    <3>2. QED
      BY ZenonT(60), <1>1, <2>2, <3>1, FS_Difference DEF EntriesRemaining
  <2>9. QED
    BY <1>3, <2>7, <2>8 DEF LimitSatisfied
<1>4. ASSUME NEW e \in removed \ Expired
      PROVE  /\ Bytes({d \in Known : seen[d].used >= seen[e].used}, seen) > MaxBytes
             /\ Older(Known, e) \subseteq removed \union uncertain \union leased
  BY DEF SelectedByUse, PruneTypeOK
<1>5. QED
  BY <1>3, <1>4 DEF PruneIsExact

(* The account of a pass is exact, and it removes nothing that is more recent  *)
(* than what it keeps and could have, for any entries, sizes, times and limit. *)
THEOREM PrunesAreExact == PruneSpec => []PruneIsExact
<1>1. (\E entries \in [Entries -> EntryType] : PruneInit(entries)) => PruneInv
  BY PruneInitInv
<1>2. PruneInv /\ [PruneNext]_pruneVars => PruneInv'
  <2> SUFFICES ASSUME PruneInv, [PruneNext]_pruneVars PROVE PruneInv'
    OBVIOUS
  <2>1. CASE UNCHANGED pruneVars
    <3>1. SelectedByUse'
      BY <2>1, SelectionStands DEF PruneInv, pruneVars
    <3>2. QED
      BY <2>1, <3>1 DEF PruneInv, PruneTypeOK, Accounted, Known, pruneVars
  <2>2. QED
    BY <2>1, InventoryKeeps, SelectKeeps, RemoveKeeps, ReportKeeps, UseKeeps, PublishKeeps
       DEF PruneNext
<1>3. QED
  BY <1>1, <1>2, ExactWhenDone, PTL DEF PruneSpec

===============================================================================
