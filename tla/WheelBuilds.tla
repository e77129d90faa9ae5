------------------------------ MODULE WheelBuilds ------------------------------
(* Wheels with a native library: build_wheel (wheel.py) analyzes the sources   *)
(* of a package (analyze_project_path of compiler/frontend.py, with the        *)
(* process's cache of analyses), compiles them, reads sources and library into *)
(* the archive, and adds a manifest of hashes.  Where the wheel is installed   *)
(* the first decorator compares them (_load_prebuilt_compilation, runtime.py). *)
(* Editors and prunes work meanwhile.  A file's version stands for its hash.   *)
EXTENDS Naturals

CONSTANTS Builders,   \* threads of one process, each of which builds the wheel once
          Versions,   \* of the native sources, and of the other Python files
          MaxChanges  \* bound on edits and on prunes

ASSUME VersionAssumption == 1 \in Versions

VARIABLES tree,       \* the sources on disk: those the compiler reads, and the others
          analyses,   \* analyses[v]: the IR remembered for native sources of hash v
          natives,    \* natives[v]: the sources that the library cached for v was built from
          build,      \* build[b]: how far build b is, and what it has read
          changes,    \* how many edits and prunes there were
          torn,       \* hashes that an analysis gave to sources it found changed
          site,       \* the installation
          imported    \* what its first import came to

wheelVars == <<tree, analyses, natives, build, changes, torn, site, imported>>
outside == <<tree, changes, site, imported>>

None == 0
NoFiles == [native |-> None, plain |-> None]
NoGraph == [native |-> None, all |-> NoFiles]     \* the hashes of a source graph
NoIR == [native |-> None, all |-> NoFiles, code |-> None]
NoSite == [installed |-> FALSE]
NotBuilding == [at |-> "idle", key |-> NoGraph, ir |-> NoIR, files |-> NoFiles,
         library |-> None, disturbed |-> FALSE]
Over == [NotBuilding EXCEPT !.at = "ended"]

WheelInit ==
  /\ tree = [native |-> 1, plain |-> 1] /\ changes = 0 /\ torn = {}
  /\ analyses = [v \in Versions |-> NoIR]
  /\ natives = [v \in Versions |-> None]
  /\ build = [b \in Builders |-> NotBuilding]
  /\ site = NoSite /\ imported = "none"

To(b, next, field, value) == build' = [build EXCEPT ![b] = [@ EXCEPT !.at = next, ![field] = value]]
At(b, place) == build[b].at = place

------------------------------------------------------------------------------
(* analyze_project_path                                                        *)

\* discover_package_source_graph hashes what the compiler reads, then all files.
HashKeyNative(b) ==
  /\ At(b, "idle") /\ To(b, "key", "key", [NoGraph EXCEPT !.native = tree.native])
  /\ UNCHANGED <<outside, analyses, natives, torn>>
HashKeyAll(b) ==
  /\ At(b, "key") /\ To(b, "lookup", "key", [build[b].key EXCEPT !.all = tree])
  /\ UNCHANGED <<outside, analyses, natives, torn>>

\* Mutant: a remembered analysis keeps its own hash of all files.
AsRemembered(key) == analyses[key.native]

\* A remembered analysis, with the hash of all files as it is now.
Remembered(key) == [analyses[key.native] EXCEPT !.all = key.all]

LookUp(b) ==
  /\ At(b, "lookup")
  /\ IF analyses[build[b].key.native] # NoIR
     THEN To(b, "compile", "ir", Remembered(build[b].key))
     ELSE To(b, "graph", "ir", NoIR)
  /\ UNCHANGED <<outside, analyses, natives, torn>>

Tear(hash) == torn' = IF tree.native = hash THEN torn ELSE torn \union {hash}

\* _analyze_regular_package hashes again, then reads.
HashNative(b) ==
  /\ At(b, "graph") /\ To(b, "graph all", "ir", [NoIR EXCEPT !.native = tree.native])
  /\ Tear(build[b].key.native)
  /\ UNCHANGED <<outside, analyses, natives>>
HashAll(b) ==
  /\ At(b, "graph all") /\ To(b, "read", "ir", [build[b].ir EXCEPT !.all = tree])
  /\ UNCHANGED <<outside, analyses, natives, torn>>
ReadSources(b) ==
  /\ At(b, "read") /\ To(b, "remember", "ir", [build[b].ir EXCEPT !.code = tree.native])
  /\ Tear(build[b].ir.native)
  /\ UNCHANGED <<outside, analyses, natives>>

\* setdefault: an analysis that another thread has remembered meanwhile wins.
Remember(b) ==
  LET other == analyses[build[b].key.native]
      ir == IF other = NoIR THEN build[b].ir ELSE other
  IN /\ At(b, "remember")
     /\ analyses' = [analyses EXCEPT ![build[b].key.native] = ir]
     /\ build' = [build EXCEPT ![b].at = "compile", ![b].ir = ir,
                               ![b].disturbed = @ \/ ir # build[b].ir]
     /\ UNCHANGED <<outside, natives, torn>>

------------------------------------------------------------------------------
(* build_wheel                                                                 *)

\* compile_path without load: the library is found in the cache or published.
Compile(b) ==
  /\ At(b, "compile") /\ To(b, "check", "library", None)
  /\ natives' = [natives EXCEPT ![build[b].ir.native] = IF @ = None THEN build[b].ir.code ELSE @]
  /\ UNCHANGED <<outside, analyses, torn>>

Library(b) == natives[build[b].ir.native]
\* CRAB502, or no file to read: nothing is leased.
LibraryGone(b) ==
  /\ \E place \in {"check", "library", "manifest"} : At(b, place)
  /\ Library(b) = None /\ build' = [build EXCEPT ![b] = Over]
  /\ UNCHANGED <<outside, analyses, natives, torn>>

CheckLibrary(b) ==
  /\ At(b, "check") /\ Library(b) # None /\ To(b, "native", "library", None)
  /\ UNCHANGED <<outside, analyses, natives, torn>>
CollectNative(b) ==
  /\ At(b, "native") /\ To(b, "plain", "files", [NoFiles EXCEPT !.native = tree.native])
  /\ UNCHANGED <<outside, analyses, natives, torn>>
CollectPlain(b) ==
  /\ At(b, "plain") /\ To(b, "library", "files", [build[b].files EXCEPT !.plain = tree.plain])
  /\ UNCHANGED <<outside, analyses, natives, torn>>
CollectLibrary(b) ==
  /\ At(b, "library") /\ Library(b) # None /\ To(b, "manifest", "library", Library(b))
  /\ UNCHANGED <<outside, analyses, natives, torn>>

\* The manifest hashes the library once more; the wheel is installed, or another is.
WriteManifest(b) ==
  /\ At(b, "manifest") /\ Library(b) # None
  /\ build' = [build EXCEPT ![b] = Over]
  /\ \/ UNCHANGED site
     \/ /\ ~site.installed
        /\ site' = [installed |-> TRUE, files |-> build[b].files, library |-> build[b].library,
                    native |-> build[b].ir.native, all |-> build[b].ir.all, sha256 |-> Library(b),
                    disturbed |-> build[b].disturbed]
  /\ UNCHANGED <<tree, changes, imported, analyses, natives, torn>>

------------------------------------------------------------------------------
(* The installation, and others                                                *)

\* Mutant: the library is not hashed.
SourcesVerified(s) == s.native = s.files.native /\ s.all = s.files

\* What _load_prebuilt_compilation verifies of the manifest.
Verified(s) == s.native = s.files.native /\ s.all = s.files /\ s.sha256 = s.library

Import ==
  /\ site.installed /\ imported = "none"
  /\ imported' = IF Verified(site) THEN "bound" ELSE "refused"
  /\ UNCHANGED <<tree, analyses, natives, build, changes, torn, site>>

Change == changes < MaxChanges /\ changes' = changes + 1
Disturb ==
  build' = [b \in Builders |-> [build[b] EXCEPT !.disturbed = build[b].at \notin {"idle", "ended"}]]

\* Edits go back and forth.
Edit(f) ==
  /\ Change /\ Disturb
  /\ \E v \in Versions \ {tree[f]} : tree' = [tree EXCEPT ![f] = v]
  /\ UNCHANGED <<analyses, natives, torn, site, imported>>

\* A prune, after which other processes may build again.
Prune(v) ==
  /\ natives[v] # None /\ Change /\ Disturb
  /\ natives' = [natives EXCEPT ![v] = None]
  /\ UNCHANGED <<tree, analyses, torn, site, imported>>

\* Somebody edits an installed file, or the library is damaged or exchanged.
Touch ==
  /\ site.installed /\ imported = "none" /\ Change
  /\ \E v \in Versions :
       \/ site' = [site EXCEPT !.files.native = v, !.disturbed = TRUE]
       \/ site' = [site EXCEPT !.files.plain = v, !.disturbed = TRUE]
       \/ site' = [site EXCEPT !.library = v, !.disturbed = TRUE]
  /\ UNCHANGED <<tree, analyses, natives, build, torn, imported>>

WheelNext ==
  \/ \E b \in Builders :
       \/ HashKeyNative(b) \/ HashKeyAll(b) \/ LookUp(b)
       \/ HashNative(b) \/ HashAll(b) \/ ReadSources(b) \/ Remember(b)
       \/ Compile(b) \/ LibraryGone(b) \/ CheckLibrary(b)
       \/ CollectNative(b) \/ CollectPlain(b) \/ CollectLibrary(b) \/ WriteManifest(b)
  \/ Import \/ Touch
  \/ \E f \in {"native", "plain"} : Edit(f)
  \/ \E v \in Versions : Prune(v)

WheelSpec == WheelInit /\ [][WheelNext]_wheelVars

------------------------------------------------------------------------------
(* A library is bound only to the sources it was built from, whatever changed  *)
(* while the wheel was built and after it was installed: but for sources that  *)
(* an analysis saw change between hashing and reading them.                    *)
BoundIsInstalled ==
  imported = "bound" /\ site.files.native \notin torn => site.library = site.files.native

(* CRAB405 means that something changed: a wheel from sources that stayed the  *)
(* same during its build, installed and left alone, binds its library, but for *)
(* such sources and for a build that was given another thread's analysis.      *)
RefusalMeansChange ==
  imported = "refused" /\ site.files.native \notin torn => site.disturbed
==============================================================================
