--------------------------- MODULE MCBuildSystem ---------------------------
(* Small instances of BuildSystem. *)
EXTENDS BuildSystem, TLC

CONSTANTS p1, p2, t1, t2, v1, v2, w1, w2

\* One thread in each of two processes, or both threads in one.
OneThreadEach == (t1 :> p1) @@ (t2 :> p2)
BothInOne == (t1 :> p1) @@ (t2 :> p1)

\* Lease files named for their process, or for a common parent of both.
OwnLeaseId == [p \in Procs |-> p]
ParentLeaseId == [p \in Procs |-> p1]

LoadBuildExpand ==
    {[mode |-> m, locked |-> FALSE] : m \in {"load", "build", "expand"}}
LoadAndCheck == {[mode |-> m, locked |-> FALSE] : m \in {"load", "check"}}
LoadEither == {[mode |-> "load", locked |-> b] : b \in BOOLEAN}
LockedBuild == {[mode |-> "build", locked |-> TRUE]}

\* The two processes, each with its thread, may change places, and so may
\* the states of the uncovered inputs.
Swap == Permutations(Worlds) \cup
        {(p1 :> p2) @@ (p2 :> p1) @@ (t1 :> t2) @@ (t2 :> t1)}

ResolvedV1 == {v1}
ResolvedV2 == {v2}
ResolvedBoth == {v1, v2}

=============================================================================
