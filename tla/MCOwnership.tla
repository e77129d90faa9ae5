---------------------------- MODULE MCOwnership ----------------------------
(* Small instances of OwnershipHandles. *)
EXTENDS OwnershipHandles, TLC

CONSTANTS h1, h2, h3, v1, v2, t1, t2

Signature(params, buffer, python, release, returns) ==
    [params |-> params, buffer |-> buffer, python |-> python,
     release |-> release, returns |-> returns]

\* consume_two(Owned, Owned, Buffer); a call that prints while it borrows
\* mutably, and one with two shared borrows; a detached call of each kind.
SomeFunctions ==
    {Signature(<<"Owned", "Owned">>, TRUE, FALSE, FALSE, FALSE),
     Signature(<<"Mut">>, FALSE, TRUE, FALSE, FALSE),
     Signature(<<"Ref", "Ref">>, FALSE, TRUE, FALSE, FALSE),
     Signature(<<"Owned">>, FALSE, FALSE, TRUE, TRUE),
     Signature(<<"Shared">>, FALSE, FALSE, FALSE, FALSE)}

\* Functions that print while they hold an argument.
PrintingFunctions ==
    {Signature(<<own>>, FALSE, TRUE, FALSE, FALSE) : own \in {"Owned", "Ref", "Mut"}}

SomeClasses == (h1 :> "struct") @@ (h2 :> "struct") @@ (h3 :> "struct")

Symmetric ==
    Permutations({v1, v2}) \cup Permutations({h1, h2, h3}) \cup Permutations({t1, t2})

=============================================================================
