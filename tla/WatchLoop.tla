------------------------------ MODULE WatchLoop ------------------------------
(* crabwalk check --watch (cli.py, _watch_check): compile, remember what the   *)
(* watched files look like, poll until that changes, and again.  An editor     *)
(* saves files at any moment.                                                  *)
EXTENDS Naturals

CONSTANTS Files,     \* the sources the argument reaches
          Argument,  \* the file named on the command line
          Broken,    \* versions that do not compile
          MaxSaves   \* bound on the saves of one file

VARIABLES disk,   \* disk[f]: its version, mtime and size included
          phase,  \* "compile", "report", "snapshot" or "poll"
          read,   \* read[f]: the version the compiler last read
          paths,  \* the watched files
          known   \* known[f]: what the snapshot says of a watched file

watchVars == <<disk, phase, read, paths, known>>

WatchInit ==
  /\ disk = [f \in Files |-> 1]
  /\ phase = "compile" /\ read = [f \in Files |-> 0]
  /\ paths = {} /\ known = [f \in Files |-> 0]

\* compile_path reads the sources at its start and goes on for a while.
Compile ==
  /\ phase = "compile"
  /\ read' = disk /\ phase' = "report"
  /\ UNCHANGED <<disk, paths, known>>

\* An error leaves only the argument to be watched.
Report ==
  /\ phase = "report"
  /\ paths' = IF \E f \in Files : read[f] \in Broken THEN {Argument} ELSE Files
  /\ phase' = "snapshot"
  /\ UNCHANGED <<disk, read, known>>

\* _watch_snapshot
Stamps == [f \in Files |-> IF f \in paths THEN disk[f] ELSE 0]

Snapshot ==
  /\ phase = "snapshot"
  /\ known' = Stamps /\ phase' = "poll"
  /\ UNCHANGED <<disk, read, paths>>

\* Mutant: only the argument is compared.
ArgumentChanged == disk[Argument] # known[Argument]

Changed == Stamps # known

Poll ==
  /\ phase = "poll" /\ Changed
  /\ phase' = "compile"
  /\ UNCHANGED <<disk, read, paths, known>>

Save(f) ==
  /\ disk[f] <= MaxSaves
  /\ disk' = [disk EXCEPT ![f] = @ + 1]
  /\ UNCHANGED <<phase, read, paths, known>>

LoopStep == Compile \/ Report \/ Snapshot \/ Poll
WatchNext == LoopStep \/ \E f \in Files : Save(f)

------------------------------------------------------------------------------
(* A watched file saved after the snapshot is compiled, whatever is saved to   *)
(* which file meanwhile.                                                       *)
SavesWhilePolling ==
  \A f \in Files, n \in 2 .. MaxSaves + 1 :
    phase = "poll" /\ f \in paths /\ disk[f] = n /\ known[f] # n ~> read[f] >= n

(* check --watch reruns after changes to the reachable sources, says the       *)
(* tooling document: in the end what is on disk has been compiled.             *)
EverySaveIsChecked == <>[](read = disk)
==============================================================================
