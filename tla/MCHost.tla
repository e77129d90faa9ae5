-------------------------------- MODULE MCHost --------------------------------
(* The machinery around the compiler, its parts side by side on small          *)
(* instances.  A behaviour follows one of them, the component; the others      *)
(* rest.                                                                       *)
EXTENDS ThreadPool, BlockOnExecutor, BindingSessions, CachePrune, CargoProcess, LeaseFiles,
        WheelBuilds, TLC

CONSTANTS a, b, c  \* jobs

VARIABLES component, disk, phase, read, paths, known

\* Job a waits for a message of b; b and c panic.
AWaitsForB == (a :> {b}) @@ (b :> {}) @@ (c :> {})

\* join(left, right); left awaits select(sleep, recv), then a second receive;
\* right yields, sends, and races a body that receives and yields against one
\* that yields.
SomeNodes == {"root", "left", "race", "first", "nap", "second",
              "right", "yield", "send", "race2", "slow", "third", "pause", "fast"}

SomeKinds ==
    [n \in SomeNodes |->
        CASE n = "root" -> "join"
          [] n \in {"left", "right", "slow"} -> "body"
          [] n \in {"race", "race2"} -> "select"
          [] n \in {"first", "second", "third"} -> "recv"
          [] n = "nap" -> "sleep"
          [] n = "send" -> "send"
          [] OTHER -> "yield"]

SomeChildren ==
    [n \in SomeNodes |->
        CASE n = "root" -> <<"left", "right">>
          [] n = "left" -> <<"race", "second">>
          [] n = "race" -> <<"nap", "first">>
          [] n = "right" -> <<"yield", "send", "race2">>
          [] n = "race2" -> <<"slow", "fast">>
          [] n = "slow" -> <<"third", "pause">>
          [] OTHER -> <<>>]

OneChannel == [n \in SomeNodes |-> "c"]
RightSends == [n \in SomeNodes |-> IF n = "right" THEN {"c"} ELSE {}]

SomeBinds == [m \in {"p.a", "p.b"} |-> IF m = "p.a" THEN <<"f", "g">> ELSE <<"h">>]

Watch == INSTANCE WatchLoop WITH
  Files <- {"main", "helper"}, Argument <- "main", Broken <- {2}, MaxSaves <- 2

\* An entry that is too old, and two more.
SomeEntries ==
  [x \in {"e", "f", "g"} |->
     [size |-> IF x = "g" THEN 2 ELSE 1,
      used |-> CASE x = "e" -> 1 [] x = "f" -> 2 [] x = "g" -> 3]]

NoEntries == [x \in {"e", "f", "g"} |-> Absent]

watchVars == <<disk, phase, read, paths, known>>

hostVars == <<vars, component, executorVars, sessionVars, watchVars, cargoVars,
              leaseVars, pruneVars, wheelVars>>

HostInit ==
  /\ component \in {"pool", "executor", "sessions", "watch", "builds", "leases", "cache", "wheels"}
  /\ Init /\ ExecutorInit /\ SessionInit /\ Watch!WatchInit
  /\ CargoInit /\ LeaseInit /\ WheelInit
  /\ PruneInit(IF component = "cache" THEN SomeEntries ELSE NoEntries)

OthersRest ==
  /\ UNCHANGED component
  /\ component # "pool" => UNCHANGED vars
  /\ component # "executor" => UNCHANGED executorVars
  /\ component # "sessions" => UNCHANGED sessionVars
  /\ component # "watch" => UNCHANGED watchVars
  /\ component # "builds" => UNCHANGED cargoVars
  /\ component # "leases" => UNCHANGED leaseVars
  /\ component # "cache" => UNCHANGED pruneVars
  /\ component # "wheels" => UNCHANGED wheelVars

\* A pool that is stuck is a deadlock; the others may come to their end.
Settled == component # "pool" /\ UNCHANGED hostVars

HostNext ==
  \/ component = "pool" /\ Next /\ OthersRest
  \/ component = "executor" /\ ExecutorNext /\ OthersRest
  \/ component = "sessions" /\ SessionNext /\ OthersRest
  \/ component = "watch" /\ Watch!WatchNext /\ OthersRest
  \/ component = "builds" /\ CargoNext /\ OthersRest
  \/ component = "leases" /\ LeaseNext /\ OthersRest
  \/ component = "cache" /\ PruneNext /\ OthersRest
  \/ component = "wheels" /\ WheelNext /\ OthersRest
  \/ Settled

\* Threads are scheduled and jobs end; the executor spins, time passes and
\* threads end; the watch loop and the driver of Cargo go on, and a process that
\* is killed dies.
HostFairness ==
  /\ \A w \in Workers : WF_hostVars(component = "pool" /\ WorkerStep(w) /\ OthersRest)
  /\ WF_hostVars(component = "pool" /\ (Join \/ Finished) /\ OthersRest)
  /\ WF_hostVars(component = "executor" /\ PollStep /\ OthersRest)
  /\ \A n \in Nodes : WF_hostVars(component = "executor" /\ Elapse(n) /\ OthersRest)
  /\ WF_hostVars(component = "executor" /\ ThreadEnds("c") /\ OthersRest)
  /\ WF_hostVars(component = "watch" /\ Watch!LoopStep /\ OthersRest)
  /\ WF_hostVars(component = "builds" /\ DriverStep /\ OthersRest)
  /\ \A p \in Tree :
       WF_hostVars(component = "builds" /\ p \in signalled /\ Exit(p) /\ OthersRest)

HostSpec == HostInit /\ [][HostNext]_hostVars /\ HostFairness
SessionSpec == HostInit /\ component = "sessions" /\ [][HostNext]_hostVars

------------------------------------------------------------------------------
(* See WatchLoop: a watched file saved while polling is compiled.              *)
SavesWhilePolling == Watch!SavesWhilePolling
===============================================================================
