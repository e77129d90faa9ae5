------------------------------ MODULE JobPool ------------------------------
(***************************************************************************)
(* What rust.ThreadPool promises its owner: each job it accepted runs at   *)
(* most once, and by the time finish() returns or the pool is dropped      *)
(* every accepted job has run; finish() names a job that panicked exactly  *)
(* when one did.                                                           *)
(***************************************************************************)
EXTENDS Naturals

CONSTANTS
    Jobs,       \* the closures the owner may hand over
    Panics,     \* those that panic
    Nobody      \* no job

VARIABLES
    accepted,   \* jobs handed over
    runs,       \* runs[j]: how often job j was run
    outcome     \* "open", then what the owner gets

vars == <<accepted, runs, outcome>>

Failed == {j \in accepted : runs[j] > 0 /\ j \in Panics}

Init ==
    /\ accepted = {}
    /\ runs = [j \in Jobs |-> 0]
    /\ outcome = [state |-> "open", failure |-> Nobody]

Accept(j) ==
    /\ outcome.state = "open"
    /\ j \notin accepted
    /\ accepted' = accepted \cup {j}
    /\ UNCHANGED <<runs, outcome>>

Run(j) ==
    /\ outcome.state = "open"
    /\ j \in accepted /\ runs[j] = 0
    /\ runs' = [runs EXCEPT ![j] = 1]
    /\ UNCHANGED <<accepted, outcome>>

AllRun == \A j \in accepted : runs[j] = 1

Finish ==
    /\ outcome.state = "open"
    /\ AllRun
    /\ \E f \in IF Failed = {} THEN {Nobody} ELSE Failed :
          outcome' = [state |-> "finished", failure |-> f]
    /\ UNCHANGED <<accepted, runs>>

Drop ==
    /\ outcome.state = "open"
    /\ AllRun
    /\ outcome' = [state |-> "dropped", failure |-> Nobody]
    /\ UNCHANGED <<accepted, runs>>

Next ==
    \/ \E j \in Jobs : Accept(j) \/ Run(j)
    \/ Finish
    \/ Drop

Spec == Init /\ [][Next]_vars

=============================================================================
