----------------------------- MODULE CargoProcess -----------------------------
(* A Cargo command and the tree of processes it starts (build/cargo.py,        *)
(* _run_command and _terminate_process_tree): the driver polls a cancellation  *)
(* callback and a clock, kills the process group and then waits until nobody   *)
(* holds the pipes any more; without a callback subprocess.run kills only      *)
(* Cargo itself when the time is up.                                           *)
EXTENDS FiniteSets

CONSTANTS Cargo,     \* the leader of the group
          Children,  \* rustc and build scripts
          Writers,   \* those of the children that hold the driver's pipes
          Deaf       \* those that ignore SIGTERM

Tree == {Cargo} \union Children

VARIABLES alive,      \* the processes that run
          signalled,  \* those that have been sent a signal they do not ignore
          callback,   \* whether the driver polls a cancellation callback
          cancelled,  \* what the callback says
          late,       \* the ten minutes are over
          driver,     \* "new", "poll", "communicate", "wait", "drain" or "done"
          result     \* how the command ends, "none" while it runs

cargoVars == <<alive, signalled, callback, cancelled, late, driver, result>>
world == <<callback, cancelled, late>>

CargoInit ==
  /\ alive = {} /\ signalled = {}
  /\ callback = FALSE /\ cancelled = FALSE /\ late = FALSE
  /\ driver = "new" /\ result = "none"

Popen ==
  /\ driver = "new" /\ driver' = "poll"
  /\ callback' \in BOOLEAN
  /\ alive' = Tree
  /\ UNCHANGED <<signalled, cancelled, late, result>>

\* Cargo waits for its children; a signal ends it at once, as anybody.
Exit(p) ==
  /\ p \in alive /\ (p = Cargo => p \in signalled \/ alive = {Cargo})
  /\ alive' = alive \ {p}
  /\ UNCHANGED <<signalled, world, driver, result>>

Cancel ==
  /\ driver # "new" /\ callback /\ ~cancelled /\ cancelled' = TRUE
  /\ UNCHANGED <<alive, signalled, callback, late, driver, result>>

TimePasses ==
  /\ driver # "new" /\ ~late /\ late' = TRUE
  /\ UNCHANGED <<alive, signalled, callback, cancelled, driver, result>>

Finish(how) == driver' = "done" /\ result' = how

\* What the pipes wait for: communicate returns at their end and then reaps.
PipesClosed == alive \intersect ({Cargo} \union Writers) = {}

Stopping == (callback /\ cancelled) \/ late

\* The callback and the clock are looked at before every tenth of a second of
\* communicate, and not while it lasts.
Look ==
  /\ driver = "poll" /\ (callback => ~Stopping)
  /\ driver' = "communicate"
  /\ UNCHANGED <<alive, signalled, world, result>>

NothingYet ==
  /\ driver = "communicate" /\ callback
  /\ driver' = "poll"
  /\ UNCHANGED <<alive, signalled, world, result>>

Completed ==
  /\ driver = "communicate" /\ PipesClosed
  /\ Finish("completed")
  /\ UNCHANGED <<alive, signalled, world>>

\* Mutant: the signal goes to Cargo and not to its group.
TerminatedLeader == {Cargo}

Terminated == IF callback THEN Tree \ Deaf ELSE {Cargo}

\* _terminate_process_tree as far as SIGTERM, nothing when Cargo has ended; or
\* the kill of subprocess.run.
Stop ==
  /\ driver = (IF callback THEN "poll" ELSE "communicate") /\ Stopping
  /\ result' = IF callback /\ cancelled THEN "cancelled" ELSE "timeout"
  /\ signalled' = signalled \union (IF Cargo \in alive THEN alive \intersect Terminated ELSE {})
  /\ driver' = IF Cargo \in alive /\ callback THEN "wait" ELSE "drain"
  /\ UNCHANGED <<alive, world>>

\* wait(timeout=2) returns when Cargo has ended; or it is over, and SIGKILL
\* goes to the group.
Waited ==
  /\ driver = "wait" /\ driver' = "drain"
  /\ signalled' = IF Cargo \in alive THEN signalled \union alive ELSE signalled
  /\ UNCHANGED <<alive, world, result>>

\* Mutant: the exception is raised without another communicate().
DrainNothing ==
  /\ driver = "drain"
  /\ Finish(result)
  /\ UNCHANGED <<alive, signalled, world>>

\* communicate() after the kill, then the exception; subprocess.run waits for
\* Cargo alone.
Drain ==
  /\ driver = "drain"
  /\ IF callback THEN PipesClosed ELSE Cargo \notin alive
  /\ Finish(result)
  /\ UNCHANGED <<alive, signalled, world>>

DriverStep == Popen \/ Look \/ NothingYet \/ Completed \/ Stop \/ Waited \/ Drain
CargoNext == DriverStep \/ Cancel \/ TimePasses \/ \E p \in Tree : Exit(p)

CargoSpec == CargoInit /\ [][CargoNext]_cargoVars

------------------------------------------------------------------------------
(* When the command has a result, Cargo and everybody who writes to its pipes  *)
(* are gone, so that nothing of it still writes while the next one starts; a   *)
(* timeout without a callback aside, which leaves Cargo's children behind.     *)
QuietWhenDone ==
  driver = "done" /\ (callback \/ result = "completed") => PipesClosed

(* A command with a callback that is cancelled or late comes to an end, though *)
(* nothing of it would end by itself, and leaves nobody behind but children    *)
(* that ignore SIGTERM.                                                        *)
CancelledBuildsEnd ==
  driver # "new" /\ callback /\ Stopping ~> driver = "done" /\ alive \subseteq Deaf
==============================================================================
