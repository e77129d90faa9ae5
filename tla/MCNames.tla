-------------------------------- MODULE MCNames --------------------------------
(* Functions with one type parameter, one parameter and up to three           *)
(* statements for NameBinding; the names are ordinary, a keyword, a           *)
(* constructor, and two that look like the made names of the first binding.   *)
EXTENDS NameBinding

X == <<"x">>
Y == <<"y">>
Fn == <<"fn">>
Constructor == <<"Some">>
Builtin == <<"Vec">>
Spoof == <<"cw_b", 2, X>>     \* what a third binding may be called if x is in use
Private == <<"__cw_", "tmp", 0, X>>

Names == {X, Y, Fn, Constructor, Spoof, Private}

Simple ==
  {Let(<<n>>, Literal, NoType) : n \in Names}
    \union {Let(<<X>>, Name(X), NoType), Let(<<X, Y>>, Name(X), NoType), Let(<<Y>>, Name(X), Builtin),
            Assign(X, Name(Y)), Assign(Y, Name(Spoof)), Do(Name(Spoof)), Do(Name(Fn)),
            Do(Call(<<Name(X), Closure(<<X, Y>>, Call(<<Name(X), Name(Y)>>)), Name(Y)>>)),
            Do(Closure(<<Spoof>>, Call(<<Name(X), Name(Spoof)>>)))}
Nested ==
  {Arms(Name(X), <<Arm(<<n>>, Name(n), <<Let(<<X>>, Name(X), NoType), Do(Name(n))>>),
                   Arm(<<>>, Name(X), <<s>>)>>) : n \in {X, Spoof}, s \in Simple}
Written == Simple \union Nested

Bodies == {<<s, Do(Call(<<Name(X), Name(X)>>))>> : s \in Written}
            \union {<<s, t, u>> : s \in Simple, t \in Written, u \in Simple}

\* The functions that the frontend accepts.
FunctionsOf(bodies) ==
  {f \in [types : {<<Builtin>>}, params : {<<p>> : p \in {X, Fn}}, body : bodies] : InScope(f)}
NamedFunctions == FunctionsOf(Bodies)

VARIABLES question,  \* the function
          answer     \* the names of the emitted function, once asked

Bind(f) == Tokens(BindFunction(f))

(* No function is refused for its local names (CRAB209): in the emitted        *)
(* function each is declared once, and every use of it means, by Rust's        *)
(* scopes, the declaration that the source meant; no declared name is a Rust   *)
(* keyword, no local is called like a constructor of the prelude and no type   *)
(* parameter like a type the compiler writes itself; and the temporaries the   *)
(* emitter adds are called like none of them.                                  *)
NamesResolve ==
  answer # <<>> =>
    LET ts    == answer[1]
        Rusts(space) == {ts[i].rust : i \in {j \in DOMAIN ts : ts[j].act = "declare"
                                                               /\ ts[j].space = space}}
    IN /\ Injective(ts)
       /\ \A i \in UsesOf(ts) : Meant(ts, i, "rust") = Meant(ts, i, "name")
       /\ Rusts("value") \intersect (Keywords \union Constructors) = {}
       /\ Rusts("type") \intersect (Keywords \union BuiltinTypes) = {}
       /\ Temporary(EmissionNames(ts), X, "value") \notin Rusts("value")
================================================================================
