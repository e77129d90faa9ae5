-------------------------- MODULE BorrowDiscipline --------------------------
(***************************************************************************)
(* What Rust's ownership rules promise for values that Python handles and  *)
(* native calls share: a value is in one place; it is moved or dropped     *)
(* only while nobody borrows it; a mutable borrow excludes every other.    *)
(*                                                                         *)
(* Values step independently, because the end of a call ends its borrows   *)
(* and drops what it owns at once.                                         *)
(***************************************************************************)
EXTENDS Naturals

CONSTANT Values

VARIABLE value  \* value[v]: its place, its shared borrows, whether it is
                \* mutably borrowed

Places == {"none", "handle", "call", "arc"}

ValueType == [place : Places, readers : Nat, writer : BOOLEAN]

Absent == [place |-> "none", readers |-> 0, writer |-> FALSE]

Init == value = [v \in Values |-> Absent]

Unborrowed(val) == val.readers = 0 /\ ~val.writer

\* Made by a constructor or a native function, taken by a call, given back in
\* a new handle, frozen, dropped.
Move(old, new) ==
    /\ Unborrowed(old)
    /\ <<old.place, new.place>> \in
         ({"none"} \X {"handle", "call"}) \cup ({"handle"} \X {"call", "arc", "none"})
           \cup ({"call"} \X {"handle", "none"})
    /\ Unborrowed(new)

Borrow(old, new) ==
    /\ old.place \in {"handle", "arc"} /\ new.place = old.place
    /\ ~old.writer /\ ~new.writer
    /\ new.readers = old.readers + 1

BorrowMutably(old, new) ==
    /\ old.place = "handle" /\ new.place = "handle"
    /\ Unborrowed(old)
    /\ new.writer /\ new.readers = 0

EndBorrows(old, new) ==
    /\ new.place = old.place
    /\ new.readers \in 0 .. old.readers
    /\ new.writer => old.writer

\* The last clone of an Arc drops the payload.
EndArc(old, new) ==
    /\ old.place = "arc"
    /\ new = Absent

Step(old, new) ==
    \/ new = old
    \/ Move(old, new)
    \/ Borrow(old, new)
    \/ BorrowMutably(old, new)
    \/ EndBorrows(old, new)
    \/ EndArc(old, new)

Next ==
    /\ value' \in [Values -> ValueType]
    /\ \A v \in Values : Step(value[v], value'[v])

Spec == Init /\ [][Next]_value

=============================================================================
