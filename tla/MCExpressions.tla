---------------------------- MODULE MCExpressions ----------------------------
(* Expressions for RenderedExpressions: each form over the locals, literals    *)
(* and calls of one function, in the contexts of several annotations.          *)
EXTENDS SemanticTypes, FiniteSets

OwnedOf(t) == Type("Owned", <<t>>)
FutureOf(t) == Type("Future", <<t>>)
G == Primitive("T")
P == Primitive("P")
Fault == Primitive("Fault")
Text(name) == [kind |-> "text", name |-> name, n |-> 1, args |-> <<>>, named |-> <<>>, of |-> Primitive("?")]
Number(n) == [Text("") EXCEPT !.kind = "int", !.n = n]

Param(name, t) == [name |-> name, type |-> t, default |-> <<>>]
Default(name, t, e) == [name |-> name, type |-> t, default |-> <<e>>]
Function(params, result) == [params |-> params, result |-> result, async |-> FALSE]
Method(receiver, params, result) == [receiver |-> receiver, params |-> params, result |-> result]
Impl(trait, method, params, result) ==
  [trait |-> trait, for |-> "P", method |-> method, params |-> params, result |-> result]
Associated == Primitive("Associated")

SomeLocals ==
  [x |-> I64, b |-> U8, f |-> F64, s |-> String, w |-> Vec(I64), q |-> Tuple(<<I64, String>>),
   p |-> OwnedOf(P), r |-> Ref(P), m |-> Mut(P), v |-> Ref(Vec(I64)), o |-> ResultOf(I64, IoError)]
SomeParameters == {"x", "b", "s", "p", "r", "m", "v"}
SomeSignatures ==
  [sub   |-> Function(<<Param("a", I64), Default("b", I64, Number(3))>>, I64),
   mix   |-> Function(<<Param("a", U8), Param("s", String)>>, OwnedOf(P)),
   total |-> Function(<<Param("v", Ref(Vec(I64)))>>, I64),
   look  |-> Function(<<Param("p", Ref(P))>>, I64),
   bump  |-> Function(<<Param("p", Mut(P)), Param("n", I64)>>, I64),
   eat   |-> Function(<<Param("p", OwnedOf(P))>>, String),
   same  |-> Function(<<Param("a", G), Param("b", G)>>, G),
   first |-> Function(<<Param("v", Ref(Vec(G)))>>, Option(G)),
   twice |-> Function(<<Param("a", I64)>>, I64),
   soon  |-> [Function(<<Param("a", I64)>>, I64) EXCEPT !.async = TRUE]]
SomeStructs == [P |-> <<Param("items", Vec(I64)), Param("n", I64), Param("s", String)>>]
SomeVariants ==
  [Pair  |-> [enum |-> "E", tuple |-> TRUE, fields |-> <<Param("_0", I64), Param("_1", U8)>>],
   Named |-> [enum |-> "E", tuple |-> FALSE, fields |-> <<Param("a", I64), Param("b", U8)>>]]
SomeOperators == [k \in {<<"P", "add">>} |-> [other |-> OwnedOf(P), result |-> OwnedOf(P)]]
SomeTraits ==
  [Sized |-> [size |-> Method("Ref", <<I64>>, I64), grow |-> Method("Mut", <<G>>, G)],
   Shape |-> [area |-> Method("Ref", <<I64>>, I64)],
   Made  |-> [make |-> Method("Owned", <<Associated>>, Associated)]]
SomeImpls ==
  {Impl("Sized", "size", <<I64>>, I64), Impl("Sized", "grow", <<G>>, G), Impl("Shape", "area", <<I64>>, I64),
   Impl("Made", "make", <<U8>>, String)}

X == INSTANCE RenderedExpressions WITH
       Locals <- SomeLocals, Parameters <- SomeParameters, Returning <- ResultOf(I64, Fault),
       Signatures <- SomeSignatures, Structs <- SomeStructs, Variants <- SomeVariants,
       Conversions <- {<<IoError, Fault>>}, Operators <- SomeOperators, Traits <- SomeTraits, Impls <- SomeImpls

------------------------------------------------------------------------------
Free == X!Free
Op(kind, name, args) == X!Src(kind, name, 0, args)
Local(name) == Op("name", name, <<>>)
Call(name, args) == Op("call", name, args)
Keyword(name, e) == [name |-> name, value |-> e]
With(e, named) == [e EXCEPT !.named = named]
Of(e, t) == [e EXCEPT !.of = t]
Sub(args) == Call("sub", args)

Locals == {Local(name) : name \in DOMAIN SomeLocals \union {"y"}}
Scalars == {Number(1), Number(300), Op("bool", "", <<>>), Text("a"), Op("float", "", <<>>), Op("none", "", <<>>)}
Atoms == Locals \union Scalars
Few == {Local("x"), Local("b"), Number(1), Sub(<<Local("x")>>), Op("compare", "==", <<Local("x"), Number(1)>>)}
Effects == {Sub(<<Number(1)>>), Sub(<<Number(2)>>), Local("x")}

Places == {Op("field", name, <<e>>) : name \in {"items", "n", "z"}, e \in {Local("p"), Local("r"), Local("m"), Local("x")}}
            \union {Op("index", "", <<e, i>>) : e \in {Local("v"), Local("q"), Op("field", "items", <<Local("r")>>)},
                                               i \in {Number(1), Number(2), Local("x"), Op("minus", "", <<Number(1)>>)}}
Operands == Few \union {Local("f"), Op("minus", "", <<Number(1)>>), Op("minus", "", <<Local("x")>>),
                        Op("plus", "", <<Local("b")>>), Local("p"), Local("s")}
Operations ==
  {Op("binary", op, <<l, r>>) : op \in {"+", "&", "//"}, l \in Operands, r \in Operands \union {Local("r")}}
    \union {Op("compare", op, <<l, r>>) : op \in {"<", "in"}, l \in Operands, r \in Operands}
    \union {Op(op, "", <<l, r>>) : op \in {"and", "or"}, l \in Few, r \in Few}
    \union {Op(op, "", <<e>>) : op \in {"not", "plus", "minus"}, e \in Atoms}
Composites ==
  {Op(kind, "", <<l, r>>) : kind \in {"tuple", "list", "Vec"}, l \in Atoms, r \in Few}
    \union {Op("Vec", "", <<>>), Op("HashMap", "", <<>>)}
    \union {X!Src("repeat", "", n, <<e>>) : n \in {2, 3}, e \in {Local("x"), Local("s")}}

Argumented ==
  {With(Call(f, args), named) :
     f \in {"sub", "mix"},
     args \in {<<>>, <<Local("x")>>, <<Sub(<<Number(1)>>)>>, <<Number(1), Number(2)>>, <<Number(1), Local("x"), Local("x")>>},
     named \in {<<>>, <<Keyword("b", Sub(<<Number(2)>>))>>, <<Keyword("a", Sub(<<Number(2)>>))>>, <<Keyword("s", Text("a"))>>,
                <<Keyword("a", Sub(<<Number(1)>>)), Keyword("b", Sub(<<Number(2)>>))>>,
                <<Keyword("b", Sub(<<Number(1)>>)), Keyword("a", Sub(<<Number(2)>>))>>}}
Owning ==
  {Call(f, <<e>>) : f \in {"total", "look", "eat", "first", "twice", "soon", "none"}, e \in Atoms \union Places}
    \union {Call("bump", <<e, n>>) : e \in Locals \union Places, n \in Few}
    \union {Call("same", <<l, r>>) : l \in Atoms, r \in Atoms}
    \union {Call("mix", <<b, e>>) : b \in {Local("b"), Number(1), Number(300)}, e \in Atoms \union Places}
Items == Op("Vec", "", <<Number(1)>>)
Made ==
  {Op("struct", "P", args) : args \in {<<Items, Number(1)>>, <<Local("w"), Number(1), Local("s")>>,
                                       <<Items, Sub(<<Number(1)>>), Text("a"), Sub(<<Number(2)>>)>>}}
    \union {With(Op("struct", "P", args), <<Keyword(a, Sub(<<Number(1)>>)), Keyword("s", Text("a")), Keyword("items", Op("Vec", "", <<e>>))>>) :
              args \in {<<>>, <<Number(1)>>}, a \in {"n", "z"}, e \in Effects}
    \union {Op("variant", v, <<l, r>>) : v \in {"Pair", "Named"}, l \in Few, r \in Few}
    \union {With(Op("variant", v, <<>>), <<Keyword(a, l), Keyword(b, r)>>) :
              v \in {"Pair", "Named"}, a \in {"a", "b"}, b \in {"a", "b"}, l \in Effects, r \in {Local("b"), Number(1)}}

Futures == {Call("soon", <<Number(1)>>), Op("yield_now", "", <<>>), Op("sleep_millis", "", <<Number(1)>>), Local("x")}
Natives ==
  {Op(kind, "", <<e>>) : kind \in DOMAIN X!FixedCalls \union {"String", "PathBuf", "println", "print", "panic", "try_", "unsafe_read",
                           "type_alias_identity", "Arc", "Box", "Some", "Ok", "Err", "spawn", "drop"}, e \in Atoms}
    \union {Op("boxed_closure_call", "", <<l, r>>) : l \in Few, r \in Few}
    \union {Op(kind, "", <<e>>) : kind \in {"await", "block_on"}, e \in Futures}
    \union {Op(kind, "", <<l, r>>) : kind \in {"join", "select"}, l \in Futures, r \in Futures}
    \union {Op("unsafe_write", "", <<l, r>>) : l \in Atoms, r \in Few}
    \union {Op("call_twice", f, <<e>>) : f \in {"twice", "soon", "sub", "look"}, e \in Few}
    \union {Of(Op("checked_cast", "", <<e>>), t) : e \in Atoms, t \in {U8, String}}
    \union {Of(Op("channel", "", args), I64) : args \in {<<>>, <<Number(1)>>, <<Local("x")>>}}
    \union {Of(Op("dyn_box", "", <<e>>), Primitive(t)) : e \in {Local("p"), Local("x")}, t \in {"Shape", "Sized", "Made", "None"}}
    \union {Of(Op("trait_call", name, <<e, a>>), Primitive(t)) :
              name \in {"size", "grow", "make", "area"}, e \in {Local("p"), Local("r"), Local("m"), Local("x")},
              a \in Few, t \in {"Sized", "Made", "Shape"}}
    \union {Of(Op("trait_call", "size", <<Local("p")>>), Primitive("Sized"))}

Nested == {Op("Some", "", <<e>>) : e \in Argumented \union Places}
            \union {Op("and", "", <<Local("x"), Op("compare", "==", <<e, Number(1)>>)>>) : e \in Argumented}
Contextual == {e \in Composites \union Natives : e.kind \in {"Arc", "Box", "HashMap", "repeat", "panic"}}

Questions ==
  [value : Atoms \union Places \union Composites,
   of : {Free, I64, U8, F64, String, Bool, Option(I64), Vec(I64), Tuple(<<I64, U8>>), X!Array(I64, 2)}]
    \union [value : Operations, of : {Free, I64, U8, Bool, P}]
    \union [value : Argumented \union Owning \union Made, of : {Free, I64, String, Option(I64)}]
    \union [value : Natives, of : {Free, I64, Option(I64), ResultOf(I64, IoError)}]
    \union [value : Nested, of : {Free, Option(I64), Bool}]
    \union [value : Contextual \union Scalars,
            of : {Type("Arc", <<I64>>), Type("Box", <<I64>>), Type("HashMap", <<String, I64>>), Char, X!Array(String, 3)}]

VARIABLES question,  \* an expression and the annotation of the local it is assigned to
          answer     \* its IR, once asked
Ask(q) == X!LowerValue(q.value, q.of)

------------------------------------------------------------------------------
\* rustc, not the compiler, has to refuse these: an operand whose form ignores
\* what its context wants, a parameter taken by reference that is used as a
\* value, a part of one where a reference is due, a repeated value that is not
\* Copy, and an async function as a function pointer.
ByReference(n) == n.op = "name" /\ SomeLocals[n.name].name \in {"Ref", "Mut"}
Formal(n, i) == IF n.op = "call" THEN SomeSignatures[n.name].params[i].type ELSE Free
Ignored(n) ==
  \/ n.wants # Free /\ ~Accepts(n.wants, n.type)
  \/ \E i \in DOMAIN n.args :
       \/ /\ ByReference(n.args[i]) /\ ~X!IsReference(Formal(n, i))
          /\ ~(i = 1 /\ n.op \in {"field", "index", "borrow", "borrow mut", "trait_call"})
       \/ X!IsReference(Formal(n, i)) /\ n.args[i].op \in {"field", "index"}
  \/ n.op = "repeat" /\ ~IsCopy(n.args[1].type)
  \/ n.op = "call_twice" /\ SomeSignatures[n.name].async
RECURSIVE LeftToRustc(_)
LeftToRustc(n) == Ignored(n) \/ \E i \in DOMAIN n.args : LeftToRustc(n.args[i])

\* A struct given more values than it has fields loses the last ones.
RECURSIVE CutsOff(_)
CutsOff(e) == (e.kind = "struct" /\ Len(e.args) > Len(SomeStructs[e.name])) \/ \E i \in DOMAIN e.args : CutsOff(e.args[i])

(* An expression that the frontend accepts is Rust of the type the frontend    *)
(* gave it, but for LeftToRustc; Python binds every call, constructor and      *)
(* variant in it, but for CutsOff; and the emitted text does the same          *)
(* operations on the same operands, in Python's order when keyword arguments   *)
(* stand in the order of the parameters.                                       *)
ExpressionsAgree ==
  answer # <<>> =>
    LET n == answer[1]
        e == question.value
    IN ~n.bad =>
         /\ LeftToRustc(n) \/ ByReference(n) \/ X!RustType(n) = n.type
         /\ X!Legal(e) \/ CutsOff(e)
         /\ X!Legal(e) => X!Done(n) = X!Said(e)
         /\ X!Legal(e) /\ X!InOrder(e) => X!Ran(n) = X!Steps(e)
===============================================================================
